-------------------------- MODULE MCEventDatabase ---------------------------
(***************************************************************************)
(* EventDatabase for TLC.  The keys are interchangeable.                   *)
(***************************************************************************)
EXTENDS EventDatabase, TLC

KeySymmetry == Permutations(Key)
=============================================================================
