----------------------------- MODULE HoldTimer -----------------------------
(***************************************************************************)
(* The timers of one session, on both ends, and the stream the messages of *)
(* our end are written to.                                                 *)
(*                                                                         *)
(* The neighbour's thread reads messages, stamps the time and answers an   *)
(* OPEN and every KEEPALIVE with a KEEPALIVE.  The main thread visits the  *)
(* session between other work that may take it any time, drops a           *)
(* neighbour that was silent for its hold time, with a NOTIFICATION, and   *)
(* sends a KEEPALIVE when the last is a third of that old.  Both write     *)
(* their messages to one stream, in pieces.                                *)
(*                                                                         *)
(* Time is kept as ages in seconds.  A message is delivered, read and      *)
(* answered by the neighbour's thread within the second; the main thread   *)
(* may be held up anywhere, also between two pieces.  The neighbour is     *)
(* external: it follows RFC 4271, where the hold time of a session is the  *)
(* smaller of the two OPENs' and a KEEPALIVE or UPDATE is sent every third *)
(* of it.                                                                  *)
(***************************************************************************)
EXTENDS Integers

CONSTANTS
    Byte,         \* values of a byte, 256
    OwnHold,      \* the hold time we send, BGP::hold_time, 180
    Hold,         \* hold times the neighbour may send, each as two bytes
    MaxAge        \* bound on ages: time stops there

Seconds(h) == Byte * h.hi + h.lo

ASSUME ByteAssumption == Byte \in Nat \ {0}
ASSUME HoldAssumption ==      \* a hold time is 0, for none, or at least 3
    /\ Hold \subseteq [hi : 0..(Byte - 1), lo : 0..(Byte - 1)]
    /\ \A h \in Hold : Seconds(h) = 0 \/ Seconds(h) >= 3
ASSUME OwnHoldAssumption == OwnHold \in Nat \ {0}
ASSUME BoundAssumption == MaxAge \in Nat

VARIABLES
    state,        \* bgp_peer::state
    sent_hold,    \* the hold time in the neighbour's OPEN
    hold_time, keep_alive,        \* what decode_open made of it
    readAge,      \* now - last_IO.last_read
    txAge,        \* now - keepaliv.last_tx
    visitAge,     \* since the main thread last looked at the timers
    roundAge,     \* since it was last done with them, its message sent
    spokeAge,     \* since the neighbour's last message
    heardAge,     \* since the neighbour last heard from us
    alive,        \* the neighbour keeps its schedule
    ended,        \* how the last session ended
    mainAt, peerAt,   \* the piece a thread writes next, "none" if it is not sending
    expiring,     \* what the main thread sends is the NOTIFICATION of an expiry
    want,         \* the piece the neighbour expects next on the stream
    garbled,      \* it found another
    \* history of the session
    crossed,      \* one thread began to write while the other was writing
    leftover,     \* it began while the main thread was sending in an earlier one
    late          \* a KEEPALIVE fell due too long before the main thread's visit

codecVars == <<sent_hold, hold_time, keep_alive>>
ageVars == <<readAge, txAge, visitAge, roundAge, spokeAge, heardAge>>
streamVars == <<mainAt, peerAt, expiring, want, garbled, crossed>>
pastVars == <<leftover, late>>
vars == <<state, codecVars, ageVars, alive, ended, streamVars, pastVars>>

State == {"idle", "opensent", "openconfirm", "established"}
Ended == {"no", "expired", "dropped", "rejected", "refused", "closed"}
Piece == {"marker", "length", "type"}
At == {"none", "length", "type"}
Age == 0..MaxAge

TypeOK ==
    /\ state \in State
    /\ sent_hold \in Hold /\ hold_time \in Nat /\ keep_alive \in Nat
    /\ readAge \in Age /\ txAge \in Age /\ visitAge \in Age /\ roundAge \in Age
    /\ spokeAge \in Age /\ heardAge \in Age
    /\ alive \in BOOLEAN /\ ended \in Ended
    /\ mainAt \in At /\ peerAt \in At /\ want \in Piece
    /\ expiring \in BOOLEAN /\ garbled \in BOOLEAN
    /\ crossed \in BOOLEAN /\ leftover \in BOOLEAN /\ late \in BOOLEAN

Init ==
    /\ state = "opensent"
    /\ sent_hold \in Hold /\ hold_time = 0 /\ keep_alive = 0
    /\ readAge = 0 /\ txAge = 0 /\ visitAge = 0 /\ roundAge = 0
    /\ spokeAge = 0 /\ heardAge = 0
    /\ alive = TRUE /\ ended = "no"
    /\ mainAt = "none" /\ peerAt = "none" /\ want = "marker"
    /\ expiring = FALSE /\ garbled = FALSE
    /\ crossed = FALSE /\ leftover = FALSE /\ late = FALSE

InSession == state # "idle"

-----------------------------------------------------------------------------
(* The stream.  send_packet writes the marker, the length, the type and a  *)
(* payload with a call each.  A KEEPALIVE has no payload; that of the      *)
(* NOTIFICATION is counted with its type.                                  *)

After == [marker |-> "length", length |-> "type", type |-> "marker"]

\* A piece reaches the neighbour, which can only take the one it expects.
Write(piece) ==
    /\ want' = After[want]
    /\ garbled' = (garbled \/ piece # want)

\* The neighbour's thread begins a message; so does the main thread.
PeerBegin ==
    /\ Write("marker")
    /\ peerAt' = "length"
    /\ crossed' = (crossed \/ mainAt # "none")
    /\ UNCHANGED <<mainAt, expiring>>

MainBegin ==
    /\ Write("marker")
    /\ mainAt' = "length"
    /\ crossed' = (crossed \/ peerAt # "none")
    /\ UNCHANGED peerAt

PeerWriteLength ==
    /\ peerAt = "length"
    /\ Write("length")
    /\ peerAt' = "type"
    /\ UNCHANGED <<state, codecVars, ageVars, alive, ended, mainAt, expiring, crossed, pastVars>>

\* Mutant of MainWriteLength: the function returns before the type is written.
MainWriteLengthReturns ==
    /\ mainAt = "length"
    /\ Write("length")
    /\ mainAt' = "none" /\ expiring' = FALSE /\ roundAge' = 0
    /\ UNCHANGED <<state, codecVars, readAge, txAge, visitAge, spokeAge, heardAge,
                   alive, ended, peerAt, crossed, pastVars>>

MainWriteLength ==
    /\ mainAt = "length"
    /\ Write("length")
    /\ mainAt' = "type"
    /\ UNCHANGED <<state, codecVars, ageVars, alive, ended, peerAt, expiring, crossed, pastVars>>

\* The KEEPALIVE is complete: keepaliv.last_tx is stamped, and the neighbour has
\* heard from us if it can make sense of the stream.
Sent ==
    /\ Write("type")
    /\ txAge' = 0
    /\ heardAge' = IF garbled' THEN heardAge ELSE 0

PeerWriteType ==
    /\ peerAt = "type"
    /\ Sent
    /\ peerAt' = "none"
    /\ UNCHANGED <<state, codecVars, readAge, visitAge, roundAge, spokeAge, alive, ended,
                   mainAt, expiring, crossed, pastVars>>

MainWriteType ==
    /\ mainAt = "type" /\ ~expiring
    /\ Sent
    /\ mainAt' = "none"
    /\ roundAge' = 0
    /\ UNCHANGED <<state, codecVars, readAge, visitAge, spokeAge, alive, ended, peerAt,
                   expiring, crossed, pastVars>>

\* The NOTIFICATION is complete; only then is the state set and the connection
\* closed, whichever session it is by now.
MainExpires ==
    /\ mainAt = "type" /\ expiring
    /\ Write("type")
    /\ mainAt' = "none" /\ expiring' = FALSE
    /\ state' = "idle"
    /\ ended' = IF InSession THEN "expired" ELSE ended
    /\ roundAge' = 0
    /\ UNCHANGED <<codecVars, readAge, txAge, visitAge, spokeAge, heardAge, alive, peerAt,
                   crossed, pastVars>>

-----------------------------------------------------------------------------
(* The neighbour's thread.  A header is read and the time stamped.         *)

Read ==
    /\ InSession /\ peerAt = "none"
    /\ readAge' = 0 /\ spokeAge' = 0

\* Mutant of DecodedHold: the byte at the wrong index alone.
DecodedHighByte(h) == h.hi

\* decode_open: packet[4] + packet[3].
DecodedHold(h) == h.hi + h.lo

\* Mutant of RecvOpen: three seconds less instead of a third.
RecvOpenMinus ==
    /\ state = "opensent" /\ Read
    /\ hold_time' = DecodedHold(sent_hold)
    /\ keep_alive' = DecodedHold(sent_hold) - 3
    /\ state' = "openconfirm"
    /\ heardAge' = 0
    /\ PeerBegin
    /\ UNCHANGED <<sent_hold, txAge, visitAge, roundAge, alive, ended, pastVars>>

\* decode_open, and the KEEPALIVE that answers it.  The neighbour has our OPEN
\* when it sends its own.
RecvOpen ==
    /\ state = "opensent" /\ Read
    /\ hold_time' = DecodedHold(sent_hold)
    /\ keep_alive' = DecodedHold(sent_hold) \div 3
    /\ state' = "openconfirm"
    /\ heardAge' = 0
    /\ PeerBegin
    /\ UNCHANGED <<sent_hold, txAge, visitAge, roundAge, alive, ended, pastVars>>

\* decode_open refuses the version or the AS number.
RefuseOpen ==
    /\ state = "opensent" /\ Read
    /\ state' = "idle" /\ ended' = "refused"
    /\ UNCHANGED <<codecVars, txAge, visitAge, roundAge, heardAge, alive, streamVars, pastVars>>

\* A KEEPALIVE: the session is up, and a KEEPALIVE goes back.
RecvKeepalive ==
    /\ state \in {"openconfirm", "established"} /\ Read
    /\ state' = "established"
    /\ PeerBegin
    /\ UNCHANGED <<codecVars, txAge, visitAge, roundAge, heardAge, alive, ended, pastVars>>

\* An UPDATE: no answer.
RecvUpdate ==
    /\ state = "established" /\ Read
    /\ UNCHANGED <<state, codecVars, txAge, visitAge, roundAge, heardAge, alive, ended,
                   streamVars, pastVars>>

-----------------------------------------------------------------------------
(* The main thread: hold_timer_expired.                                    *)

\* A neighbour that is not established is passed over.
VisitSkip ==
    /\ state # "established" /\ mainAt = "none"
    /\ visitAge' = 0 /\ roundAge' = 0
    /\ UNCHANGED <<state, codecVars, readAge, txAge, spokeAge, heardAge, alive, ended,
                   streamVars, pastVars>>

\* Mutants: the age of our own last message; the hold time for a third of it.
ExpiredOnTx == txAge >= hold_time
DueAfterHold == txAge >= hold_time

\* The two conditions hold_timer_expired tests.
Expired == readAge >= hold_time
Due == txAge >= keep_alive

\* The NOTIFICATION of an expiry; the rest is in MainExpires.
VisitExpire ==
    /\ state = "established" /\ mainAt = "none"
    /\ Expired
    /\ visitAge' = 0
    /\ MainBegin /\ expiring' = TRUE
    /\ UNCHANGED <<state, codecVars, readAge, txAge, roundAge, spokeAge, heardAge, alive,
                   ended, pastVars>>

VisitSend ==
    /\ state = "established" /\ mainAt = "none"
    /\ ~Expired /\ Due
    /\ visitAge' = 0
    /\ MainBegin /\ UNCHANGED expiring
    /\ UNCHANGED <<state, codecVars, readAge, txAge, roundAge, spokeAge, heardAge, alive,
                   ended, pastVars>>

VisitQuiet ==
    /\ state = "established" /\ mainAt = "none"
    /\ ~Expired /\ ~Due
    /\ visitAge' = 0 /\ roundAge' = 0
    /\ UNCHANGED <<state, codecVars, readAge, txAge, spokeAge, heardAge, alive, ended,
                   streamVars, pastVars>>

-----------------------------------------------------------------------------
(* The neighbour and the clock.                                            *)

Smaller(a, b) == IF a < b THEN a ELSE b
SessionHold == Smaller(OwnHold, Seconds(sent_hold))
Timed == Seconds(sent_hold) # 0

\* The neighbour's hold timer; it has none if its OPEN said 0.
NeighborDrops ==
    /\ state \in {"openconfirm", "established"} /\ Timed
    /\ heardAge >= SessionHold
    /\ state' = "idle" /\ ended' = "dropped"
    /\ UNCHANGED <<codecVars, ageVars, alive, streamVars, pastVars>>

\* Connection Not Synchronized.
NeighborRejects ==
    /\ InSession /\ garbled
    /\ state' = "idle" /\ ended' = "rejected"
    /\ UNCHANGED <<codecVars, ageVars, alive, streamVars, pastVars>>

NeighborDies ==
    /\ InSession /\ alive
    /\ alive' = FALSE
    /\ UNCHANGED <<state, codecVars, ageVars, ended, streamVars, pastVars>>

\* End of file: the neighbour closes the connection for a reason of its own.
NeighborCloses ==
    /\ InSession
    /\ state' = "idle" /\ ended' = "closed"
    /\ UNCHANGED <<codecVars, ageVars, alive, streamVars, pastVars>>

\* The thread connects again and sends an OPEN: a new stream, and the time
\* stamps, the hold time and the keepalive interval of the last session.  It
\* does not wait for the main thread, which may still be sending: the rest of
\* that message goes to the new stream.
Reconnect ==
    /\ state = "idle" /\ peerAt = "none"
    /\ state' = "opensent" /\ ended' = "no" /\ alive' = TRUE
    /\ sent_hold' \in Hold
    /\ want' = "marker" /\ garbled' = FALSE /\ crossed' = FALSE
    /\ leftover' = (mainAt # "none") /\ late' = FALSE
    /\ UNCHANGED <<hold_time, keep_alive, ageVars, mainAt, peerAt, expiring>>

\* A second passes.  A neighbour that keeps its schedule has spoken when it is
\* due.  The main thread is late when a KEEPALIVE that fell due right after its
\* last visit would now come at the end of the session's hold time.
Tick ==
    /\ InSession /\ peerAt = "none"
    /\ (alive /\ Timed /\ state # "opensent") => spokeAge < SessionHold \div 3
    /\ \A a \in {readAge, txAge, visitAge, roundAge, spokeAge, heardAge} : a < MaxAge
    /\ readAge' = readAge + 1 /\ txAge' = txAge + 1
    /\ visitAge' = visitAge + 1 /\ roundAge' = roundAge + 1
    /\ spokeAge' = spokeAge + 1 /\ heardAge' = heardAge + 1
    /\ late' = (late \/ (state = "established" /\ roundAge' + keep_alive >= SessionHold))
    /\ UNCHANGED <<state, codecVars, alive, ended, streamVars, leftover>>

-----------------------------------------------------------------------------
PeerStep ==
    \/ RecvOpen \/ RefuseOpen \/ RecvKeepalive \/ RecvUpdate
    \/ PeerWriteLength \/ PeerWriteType \/ Reconnect

MainStep ==
    \/ VisitSkip \/ VisitExpire \/ VisitSend \/ VisitQuiet
    \/ MainWriteLength \/ MainWriteType \/ MainExpires

Neighbor == NeighborDrops \/ NeighborRejects \/ NeighborDies \/ NeighborCloses

Next == PeerStep \/ MainStep \/ Neighbor \/ Tick

Spec == Init /\ [][Next]_vars

-----------------------------------------------------------------------------
(* Properties.                                                             *)

\* decode_open adds the two bytes of the hold time.  A neighbour whose hold time
\* fits in one byte and is not 0, and that speaks on time, is never dropped,
\* however late the main thread looks and whichever thread's time stamp of
\* whichever session it looks at: except by an expiry of an earlier session that
\* was still being sent when this one began.
LiveNeighborIsKept ==
    ended = "expired" /\ alive => ~Timed \/ Seconds(sent_hold) >= Byte \/ leftover

\* The neighbour never drops us for silence, though we send by the hold time we
\* decoded and not by the session's, and only the two threads together keep it
\* informed: as long as the main thread comes round in less than the session's
\* hold time less the keepalive interval, and no messages ran into each other.
NeighborHearsFromUs == ended = "dropped" /\ alive => late \/ crossed \/ leftover

\* A neighbour that stays silent is found out by the first visit after its hold
\* time, though that visit may find the main thread with a message to send.
SilenceIsNoticed ==
    state = "established" /\ hold_time > 0 => readAge < hold_time + visitAge \/ expiring

\* The stream makes sense to the neighbour as long as no thread begins to write
\* while the other is writing, and no message of an earlier session is still
\* being written when it is opened; nothing in send_packet prevents either.
StreamGarbledOnlyIfCrossed == garbled => crossed \/ leftover
=============================================================================
