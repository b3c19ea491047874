---------------------------- MODULE MCHoldTimer ----------------------------
(* Hold times on both sides of a byte, for HoldTimer.                      *)
EXTENDS HoldTimer

MCHold == {h \in [hi : 0..(Byte - 1), lo : 0..(Byte - 1)] :
              Seconds(h) \in {0, 3, 5, 7, 11}}
=============================================================================
