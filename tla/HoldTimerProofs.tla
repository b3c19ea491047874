-------------------------- MODULE HoldTimerProofs --------------------------
(***************************************************************************)
(* Proofs about HoldTimer, for every width of a byte, every hold time of   *)
(* our own, every set of hold times a neighbour may send and a main thread *)
(* that may be held up for any time at any point.                          *)
(***************************************************************************)
EXTENDS HoldTimer, TLAPS

Up == state \in {"openconfirm", "established"}

\* No message of ours ran into another.
Apart == ~crossed /\ ~leftover

\* The stream: who is writing, and what the neighbour expects.
StreamInv ==
    /\ expiring => mainAt # "none"
    /\ Apart =>
          /\ ~garbled
          /\ mainAt = "none" \/ peerAt = "none"
          /\ want = IF mainAt # "none" THEN mainAt
                    ELSE IF peerAt # "none" THEN peerAt ELSE "marker"

\* A session that has not ended is the current one.
EndedInv == ended = "no" <=> InSession

\* The timers of an open session are those of its OPEN.
DecodedInv ==
    Up => hold_time = DecodedHold(sent_hold) /\ keep_alive = hold_time \div 3

\* The reader's clock, seen from the last visit.
ReadInv ==
    /\ Up => readAge = spokeAge
    /\ state = "established" =>
          readAge <= visitAge \/ readAge < hold_time + visitAge \/ expiring

\* A neighbour on schedule.
SpokeInv == Up /\ alive /\ Timed => spokeAge <= SessionHold \div 3

\* An expiry of this session that is on its way was found with a neighbour that
\* is late, or whose hold time was decoded wrong.
ExpiryInv == expiring /\ InSession /\ alive => ~Timed \/ Seconds(sent_hold) >= Byte \/ leftover

\* The neighbour's clock: before the session is up it is no older than its own
\* last message, then no older than our last KEEPALIVE, which the last round
\* of the main thread left young enough.
HeardInv ==
    /\ state = "openconfirm" => heardAge <= spokeAge
    /\ state = "established" /\ peerAt = "none" /\ Apart =>
          /\ heardAge <= txAge
          /\ txAge <= roundAge \/ txAge < keep_alive + roundAge
    /\ Up /\ alive /\ Timed /\ Apart /\ ~late => heardAge < SessionHold

IInv ==
    /\ TypeOK /\ StreamInv /\ EndedInv /\ DecodedInv /\ ReadInv /\ SpokeInv /\ ExpiryInv
    /\ HeardInv /\ LiveNeighborIsKept /\ NeighborHearsFromUs

-----------------------------------------------------------------------------
(* The arithmetic of hold times.                                           *)

\* The sum of the two bytes is no more than the hold time they stand for, is
\* that hold time if the high byte is 0, and is bounded by the bytes.
LEMMA DecodedFacts ==
    ASSUME NEW h \in Hold
    PROVE  /\ h.hi \in Nat /\ h.lo \in Nat
           /\ Seconds(h) \in Nat /\ DecodedHold(h) \in Nat
           /\ DecodedHold(h) <= Seconds(h)
           /\ Seconds(h) < Byte => DecodedHold(h) = Seconds(h)
           /\ Seconds(h) = 0 \/ Seconds(h) >= 3
<1>1. /\ h.hi \in 0..(Byte - 1) /\ h.lo \in 0..(Byte - 1) /\ Byte \in Nat \ {0}
      /\ Seconds(h) = 0 \/ Seconds(h) >= 3
  BY HoldAssumption, ByteAssumption
<1>2. /\ Byte * h.hi \in Nat /\ h.hi <= Byte * h.hi
      /\ h.hi # 0 => Byte * h.hi >= Byte
  <2>1. ASSUME NEW a \in Nat, NEW b \in Nat, b >= 1
        PROVE  b * a \in Nat /\ a <= b * a /\ (a # 0 => b * a >= b)
    BY <2>1, SMT
  <2> QED BY <1>1, <2>1
<1> QED BY <1>1, <1>2 DEF Seconds, DecodedHold

\* A session with a hold time: a third of it is less than it, and than the
\* neighbour's own.
LEMMA SessionFacts ==
    ASSUME sent_hold \in Hold, Timed
    PROVE  /\ SessionHold \in Nat /\ SessionHold > 0
           /\ SessionHold \div 3 \in Nat
           /\ SessionHold \div 3 < SessionHold
           /\ SessionHold \div 3 < Seconds(sent_hold)
<1> DEFINE t == Seconds(sent_hold)
<1>1. t \in Nat /\ t >= 3
  BY DecodedFacts DEF Timed
<1>2. OwnHold \in Nat /\ OwnHold > 0
  BY OwnHoldAssumption
<1>3. SessionHold = IF OwnHold < t THEN OwnHold ELSE t
  BY DEF SessionHold, Smaller
<1> HIDE DEF t
<1>4. SessionHold \in Nat /\ SessionHold > 0 /\ SessionHold <= t
  BY <1>1, <1>2, <1>3
<1>5. SessionHold \div 3 \in Nat /\ SessionHold \div 3 < SessionHold
  BY <1>4
<1> QED BY <1>1, <1>4, <1>5 DEF t

-----------------------------------------------------------------------------
(* The inductive invariant.                                                *)

LEMMA InitInv == Init => IInv
<1> SUFFICES ASSUME Init PROVE IInv
  OBVIOUS
<1> USE BoundAssumption DEF Init
<1>1. TypeOK
  <2>1. 0 \in Age
    BY DEF Age
  <2> QED BY <2>1 DEF TypeOK, State, Ended, Piece, At
<1>2. StreamInv /\ EndedInv /\ DecodedInv /\ ReadInv /\ SpokeInv /\ ExpiryInv /\ HeardInv
  BY DEF StreamInv, EndedInv, DecodedInv, ReadInv, SpokeInv, ExpiryInv, HeardInv, Up, InSession
<1>3. LiveNeighborIsKept /\ NeighborHearsFromUs
  BY DEF LiveNeighborIsKept, NeighborHearsFromUs
<1> QED BY <1>1, <1>2, <1>3 DEF IInv

\* Every step keeps the types.
LEMMA TypeStep ==
    ASSUME TypeOK, Next PROVE TypeOK'
<1> USE BoundAssumption DEF TypeOK, vars, codecVars, ageVars, streamVars, pastVars
<1> DEFINE Small == 0 \in Age
<1>0. Small
  BY DEF Age
<1> HIDE DEF Small
<1>1. CASE PeerWriteLength
  BY <1>1, <1>0 DEF PeerWriteLength, Write, After, Small, State, Ended, Piece, At
<1>2. CASE MainWriteLength
  BY <1>2, <1>0 DEF MainWriteLength, Write, After, Small, State, Ended, Piece, At
<1>3. CASE PeerWriteType
  BY <1>3, <1>0 DEF PeerWriteType, Sent, Write, After, Small, State, Ended, Piece, At
<1>4. CASE MainWriteType
  BY <1>4, <1>0 DEF MainWriteType, Sent, Write, After, Small, State, Ended, Piece, At
<1>5. CASE RecvOpen
  <2>1. DecodedHold(sent_hold) \in Nat /\ DecodedHold(sent_hold) \div 3 \in Nat
    BY DecodedFacts
  <2> QED BY <1>5, <1>0, <2>1 DEF RecvOpen, Read, PeerBegin, Write, After, Small, State, Piece, At
<1>6. CASE RefuseOpen
  BY <1>6, <1>0 DEF RefuseOpen, Read, Small, State, Ended, Piece, At
<1>7. CASE RecvKeepalive
  BY <1>7, <1>0 DEF RecvKeepalive, Read, PeerBegin, Write, After, Small, State, Ended, Piece, At
<1>8. CASE RecvUpdate
  BY <1>8, <1>0 DEF RecvUpdate, Read, Small, State, Ended, Piece, At
<1>9. CASE VisitSkip
  BY <1>9, <1>0 DEF VisitSkip, Small, State, Ended, Piece, At
<1>10. CASE VisitExpire
  BY <1>10, <1>0 DEF VisitExpire, MainBegin, Write, After, Small, State, Ended, Piece, At
<1>11. CASE VisitSend
  BY <1>11, <1>0 DEF VisitSend, MainBegin, Write, After, Small, State, Ended, Piece, At
<1>12. CASE VisitQuiet
  BY <1>12, <1>0 DEF VisitQuiet, Small, State, Ended, Piece, At
<1>13. CASE NeighborDrops
  BY <1>13, <1>0 DEF NeighborDrops, Small, State, Ended, Piece, At
<1>14. CASE NeighborRejects
  BY <1>14, <1>0 DEF NeighborRejects, Small, State, Ended, Piece, At
<1>15. CASE NeighborDies
  <2>1. alive' \in BOOLEAN
    BY <1>15 DEF NeighborDies
  <2> QED BY <1>15, <2>1 DEF NeighborDies, State, Ended, Piece, At
<1>16. CASE NeighborCloses
  BY <1>16, <1>0 DEF NeighborCloses, Small, State, Ended, Piece, At
<1>17. CASE Reconnect
  BY <1>17, <1>0 DEF Reconnect, Small, State, Ended, Piece, At
<1>18. CASE Tick
  <2>1. ASSUME NEW a \in Age, a < MaxAge PROVE a + 1 \in Age
    BY <2>1 DEF Age
  <2> QED BY <1>18, <2>1 DEF Tick
<1>19. CASE MainExpires
  <2>1. ended' \in Ended
    BY <1>19 DEF MainExpires, Ended
  <2>2. state' \in State /\ want' \in Piece /\ mainAt' \in At
    BY <1>19 DEF MainExpires, Write, After, State, Piece, At
  <2>3. expiring' \in BOOLEAN /\ garbled' \in BOOLEAN
    BY <1>19 DEF MainExpires, Write
  <2> QED BY <1>19, <1>0, <2>1, <2>2, <2>3 DEF MainExpires, Small
<1> QED BY <1>1, <1>2, <1>3, <1>4, <1>5, <1>6, <1>7, <1>8, <1>9, <1>10, <1>11, <1>12, <1>13, <1>14,
           <1>15, <1>16, <1>17, <1>18, <1>19 DEF Next, PeerStep, MainStep, Neighbor

\* As long as the threads take turns the stream is in step with the writer.
LEMMA StreamStep ==
    ASSUME TypeOK, StreamInv, Next PROVE StreamInv'
<1> USE DEF TypeOK, StreamInv, Apart, Piece, At, codecVars, ageVars, streamVars, pastVars
<1>1. CASE PeerWriteLength
  BY <1>1 DEF PeerWriteLength, Write, After
<1>2. CASE MainWriteLength
  BY <1>2 DEF MainWriteLength, Write, After
<1>3. CASE PeerWriteType
  BY <1>3 DEF PeerWriteType, Sent, Write, After
<1>4. CASE MainWriteType
  BY <1>4 DEF MainWriteType, Sent, Write, After
<1>5. CASE RecvOpen
  <2>1. CASE ~Apart'
    BY <2>1, <1>5 DEF RecvOpen, PeerBegin
  <2>2. CASE Apart'
    <3>1. Apart /\ mainAt = "none" /\ peerAt = "none"
      BY <1>5, <2>2 DEF RecvOpen, Read, PeerBegin, Write, After
    <3>2. want = "marker" /\ ~garbled
      BY <3>1
    <3>3. want' = "length" /\ ~garbled'
      BY <1>5, <3>2 DEF RecvOpen, Read, PeerBegin, Write, After
    <3> QED BY <1>5, <3>1, <3>3 DEF RecvOpen, Read, PeerBegin, Write, After
  <2> QED BY <2>1, <2>2
<1>6. CASE RefuseOpen
  BY <1>6 DEF RefuseOpen, Read
<1>7. CASE RecvKeepalive
  <2>1. CASE ~Apart'
    BY <2>1, <1>7 DEF RecvKeepalive, PeerBegin
  <2>2. CASE Apart'
    <3>1. Apart /\ mainAt = "none" /\ peerAt = "none"
      BY <1>7, <2>2 DEF RecvKeepalive, Read, PeerBegin, Write, After
    <3>2. want = "marker" /\ ~garbled
      BY <3>1
    <3>3. want' = "length" /\ ~garbled'
      BY <1>7, <3>2 DEF RecvKeepalive, Read, PeerBegin, Write, After
    <3> QED BY <1>7, <3>1, <3>3 DEF RecvKeepalive, Read, PeerBegin, Write, After
  <2> QED BY <2>1, <2>2
<1>8. CASE RecvUpdate
  BY <1>8 DEF RecvUpdate, Read
<1>9. CASE VisitSkip
  BY <1>9 DEF VisitSkip
<1>10. CASE VisitExpire
  <2>1. CASE ~Apart'
    BY <2>1, <1>10 DEF VisitExpire, MainBegin
  <2>2. CASE Apart'
    <3>1. Apart /\ mainAt = "none" /\ peerAt = "none"
      BY <1>10, <2>2 DEF VisitExpire, MainBegin, Write, After, Expired
    <3>2. want = "marker" /\ ~garbled
      BY <3>1
    <3>3. want' = "length" /\ ~garbled'
      BY <1>10, <3>2 DEF VisitExpire, MainBegin, Write, After, Expired
    <3> QED BY <1>10, <3>1, <3>3 DEF VisitExpire, MainBegin, Write, After, Expired
  <2> QED BY <2>1, <2>2
<1>11. CASE VisitSend
  <2>1. CASE ~Apart'
    BY <2>1, <1>11 DEF VisitSend, MainBegin
  <2>2. CASE Apart'
    <3>1. Apart /\ mainAt = "none" /\ peerAt = "none"
      BY <1>11, <2>2 DEF VisitSend, MainBegin, Write, After, Due, Expired
    <3>2. want = "marker" /\ ~garbled
      BY <3>1
    <3>3. want' = "length" /\ ~garbled'
      BY <1>11, <3>2 DEF VisitSend, MainBegin, Write, After, Due, Expired
    <3> QED BY <1>11, <3>1, <3>3 DEF VisitSend, MainBegin, Write, After, Due, Expired
  <2> QED BY <2>1, <2>2
<1>12. CASE VisitQuiet
  BY <1>12 DEF VisitQuiet, Due, Expired
<1>13. CASE NeighborDrops
  BY <1>13 DEF NeighborDrops
<1>14. CASE NeighborRejects
  BY <1>14 DEF NeighborRejects
<1>15. CASE NeighborDies
  BY <1>15 DEF NeighborDies
<1>16. CASE NeighborCloses
  BY <1>16 DEF NeighborCloses
<1>17. CASE Reconnect
  BY <1>17 DEF Reconnect
<1>18. CASE Tick
  BY <1>18 DEF Tick
<1>19. CASE MainExpires
  BY <1>19 DEF MainExpires, Write, After
<1> QED BY <1>1, <1>2, <1>3, <1>4, <1>5, <1>6, <1>7, <1>8, <1>9, <1>10, <1>11, <1>12, <1>13, <1>14,
           <1>15, <1>16, <1>17, <1>18, <1>19 DEF Next, PeerStep, MainStep, Neighbor

\* A session ends once.
LEMMA EndedStep ==
    ASSUME TypeOK, EndedInv, Next PROVE EndedInv'
<1> USE DEF TypeOK, EndedInv, InSession, State, Ended, codecVars, ageVars, streamVars, pastVars
<1>1. CASE PeerWriteLength
  BY <1>1 DEF PeerWriteLength, Write, After
<1>2. CASE MainWriteLength
  BY <1>2 DEF MainWriteLength, Write, After
<1>3. CASE PeerWriteType
  BY <1>3 DEF PeerWriteType, Sent, Write, After
<1>4. CASE MainWriteType
  BY <1>4 DEF MainWriteType, Sent, Write, After
<1>5. CASE RecvOpen
  BY <1>5 DEF RecvOpen, Read, PeerBegin, Write, After
<1>6. CASE RefuseOpen
  BY <1>6 DEF RefuseOpen, Read
<1>7. CASE RecvKeepalive
  BY <1>7 DEF RecvKeepalive, Read, PeerBegin, Write, After
<1>8. CASE RecvUpdate
  BY <1>8 DEF RecvUpdate, Read
<1>9. CASE VisitSkip
  BY <1>9 DEF VisitSkip
<1>10. CASE VisitExpire
  BY <1>10 DEF VisitExpire, MainBegin, Write, After, Expired
<1>11. CASE VisitSend
  BY <1>11 DEF VisitSend, MainBegin, Write, After, Due, Expired
<1>12. CASE VisitQuiet
  BY <1>12 DEF VisitQuiet, Due, Expired
<1>13. CASE NeighborDrops
  BY <1>13 DEF NeighborDrops
<1>14. CASE NeighborRejects
  BY <1>14 DEF NeighborRejects
<1>15. CASE NeighborDies
  BY <1>15 DEF NeighborDies
<1>16. CASE NeighborCloses
  BY <1>16 DEF NeighborCloses
<1>17. CASE Reconnect
  BY <1>17 DEF Reconnect
<1>18. CASE Tick
  BY <1>18 DEF Tick
<1>19. CASE MainExpires
  BY <1>19 DEF MainExpires, Write, After
<1> QED BY <1>1, <1>2, <1>3, <1>4, <1>5, <1>6, <1>7, <1>8, <1>9, <1>10, <1>11, <1>12, <1>13, <1>14,
           <1>15, <1>16, <1>17, <1>18, <1>19 DEF Next, PeerStep, MainStep, Neighbor

\* The timers are set once in a session.
LEMMA DecodedStep ==
    ASSUME TypeOK, DecodedInv, Next PROVE DecodedInv'
<1> USE DEF DecodedInv, Up, codecVars, ageVars, streamVars, pastVars
<1>1. CASE PeerWriteLength
  BY <1>1 DEF PeerWriteLength, Write, After
<1>2. CASE MainWriteLength
  BY <1>2 DEF MainWriteLength, Write, After
<1>3. CASE PeerWriteType
  BY <1>3 DEF PeerWriteType, Sent, Write, After
<1>4. CASE MainWriteType
  BY <1>4 DEF MainWriteType, Sent, Write, After
<1>5. CASE RecvOpen
  BY <1>5 DEF RecvOpen, Read, PeerBegin, Write, After
<1>6. CASE RefuseOpen
  BY <1>6 DEF RefuseOpen, Read
<1>7. CASE RecvKeepalive
  BY <1>7 DEF RecvKeepalive, Read, PeerBegin, Write, After
<1>8. CASE RecvUpdate
  BY <1>8 DEF RecvUpdate, Read
<1>9. CASE VisitSkip
  BY <1>9 DEF VisitSkip
<1>10. CASE VisitExpire
  BY <1>10 DEF VisitExpire, MainBegin, Write, After, Expired
<1>11. CASE VisitSend
  BY <1>11 DEF VisitSend, MainBegin, Write, After, Due, Expired
<1>12. CASE VisitQuiet
  BY <1>12 DEF VisitQuiet, Due, Expired
<1>13. CASE NeighborDrops
  BY <1>13 DEF NeighborDrops
<1>14. CASE NeighborRejects
  BY <1>14 DEF NeighborRejects
<1>15. CASE NeighborDies
  BY <1>15 DEF NeighborDies
<1>16. CASE NeighborCloses
  BY <1>16 DEF NeighborCloses
<1>17. CASE Reconnect
  BY <1>17 DEF Reconnect
<1>18. CASE Tick
  BY <1>18 DEF Tick
<1>19. CASE MainExpires
  BY <1>19 DEF MainExpires, Write, After
<1> QED BY <1>1, <1>2, <1>3, <1>4, <1>5, <1>6, <1>7, <1>8, <1>9, <1>10, <1>11, <1>12, <1>13, <1>14,
           <1>15, <1>16, <1>17, <1>18, <1>19 DEF Next, PeerStep, MainStep, Neighbor

\* A visit leaves the session only with the last header younger than the hold time.
LEMMA ReadStep ==
    ASSUME TypeOK, TypeOK', DecodedInv, ReadInv, Next PROVE ReadInv'
<1> USE DEF TypeOK, ReadInv, Up, Age, codecVars, ageVars, streamVars, pastVars
<1>1. CASE PeerWriteLength
  BY <1>1 DEF PeerWriteLength, Write, After
<1>2. CASE MainWriteLength
  BY <1>2 DEF MainWriteLength, Write, After
<1>3. CASE PeerWriteType
  BY <1>3 DEF PeerWriteType, Sent, Write, After
<1>4. CASE MainWriteType
  BY <1>4 DEF MainWriteType, Sent, Write, After
<1>5. CASE RecvOpen
  BY <1>5 DEF RecvOpen, Read, PeerBegin, Write, After
<1>6. CASE RefuseOpen
  BY <1>6 DEF RefuseOpen, Read
<1>7. CASE RecvKeepalive
  BY <1>7 DEF RecvKeepalive, Read, PeerBegin, Write, After
<1>8. CASE RecvUpdate
  BY <1>8 DEF RecvUpdate, Read
<1>9. CASE VisitSkip
  BY <1>9 DEF VisitSkip
<1>10. CASE VisitExpire
  BY <1>10 DEF VisitExpire, MainBegin, Write, After, Expired
<1>11. CASE VisitSend
  BY <1>11 DEF VisitSend, MainBegin, Write, After, Due, Expired
<1>12. CASE VisitQuiet
  BY <1>12 DEF VisitQuiet, Due, Expired
<1>13. CASE NeighborDrops
  BY <1>13 DEF NeighborDrops
<1>14. CASE NeighborRejects
  BY <1>14 DEF NeighborRejects
<1>15. CASE NeighborDies
  BY <1>15 DEF NeighborDies
<1>16. CASE NeighborCloses
  BY <1>16 DEF NeighborCloses
<1>17. CASE Reconnect
  BY <1>17 DEF Reconnect
<1>18. CASE Tick
  BY <1>18 DEF Tick
<1>19. CASE MainExpires
  BY <1>19 DEF MainExpires, Write, After
<1> QED BY <1>1, <1>2, <1>3, <1>4, <1>5, <1>6, <1>7, <1>8, <1>9, <1>10, <1>11, <1>12, <1>13, <1>14,
           <1>15, <1>16, <1>17, <1>18, <1>19 DEF Next, PeerStep, MainStep, Neighbor

\* Time passes only when a neighbour on schedule has spoken.
LEMMA SpokeStep ==
    ASSUME TypeOK, TypeOK', SpokeInv, Next PROVE SpokeInv'
<1> USE SessionFacts
      DEF TypeOK, SpokeInv, Up, Age, Timed, SessionHold, codecVars, ageVars, streamVars, pastVars
<1>1. CASE PeerWriteLength
  BY <1>1 DEF PeerWriteLength, Write, After
<1>2. CASE MainWriteLength
  BY <1>2 DEF MainWriteLength, Write, After
<1>3. CASE PeerWriteType
  BY <1>3 DEF PeerWriteType, Sent, Write, After
<1>4. CASE MainWriteType
  BY <1>4 DEF MainWriteType, Sent, Write, After
<1>5. CASE RecvOpen
  BY <1>5 DEF RecvOpen, Read, PeerBegin, Write, After
<1>6. CASE RefuseOpen
  BY <1>6 DEF RefuseOpen, Read
<1>7. CASE RecvKeepalive
  BY <1>7 DEF RecvKeepalive, Read, PeerBegin, Write, After
<1>8. CASE RecvUpdate
  BY <1>8 DEF RecvUpdate, Read
<1>9. CASE VisitSkip
  BY <1>9 DEF VisitSkip
<1>10. CASE VisitExpire
  BY <1>10 DEF VisitExpire, MainBegin, Write, After, Expired
<1>11. CASE VisitSend
  BY <1>11 DEF VisitSend, MainBegin, Write, After, Due, Expired
<1>12. CASE VisitQuiet
  BY <1>12 DEF VisitQuiet, Due, Expired
<1>13. CASE NeighborDrops
  BY <1>13 DEF NeighborDrops
<1>14. CASE NeighborRejects
  BY <1>14 DEF NeighborRejects
<1>15. CASE NeighborDies
  BY <1>15 DEF NeighborDies
<1>16. CASE NeighborCloses
  BY <1>16 DEF NeighborCloses
<1>17. CASE Reconnect
  BY <1>17 DEF Reconnect
<1>18. CASE Tick
  BY <1>18 DEF Tick
<1>19. CASE MainExpires
  BY <1>19 DEF MainExpires, Write, After
<1> QED BY <1>1, <1>2, <1>3, <1>4, <1>5, <1>6, <1>7, <1>8, <1>9, <1>10, <1>11, <1>12, <1>13, <1>14,
           <1>15, <1>16, <1>17, <1>18, <1>19 DEF Next, PeerStep, MainStep, Neighbor

\* The neighbour hears from us in time.
LEMMA HeardStep ==
    ASSUME IInv, TypeOK', SpokeInv', Next PROVE HeardInv'
<1> USE SessionFacts
      DEF IInv, TypeOK, Apart, HeardInv, Up, Age, Timed, SessionHold, codecVars, ageVars,
      streamVars, pastVars
<1>1. CASE PeerWriteLength
  BY <1>1 DEF PeerWriteLength, Write, After
<1>2. CASE MainWriteLength
  BY <1>2 DEF MainWriteLength, Write, After
<1>3. CASE PeerWriteType
  <2>1. Apart => want = "type" /\ ~garbled
    BY <1>3 DEF PeerWriteType, Sent, Write, After, StreamInv
  <2>2. Apart => heardAge' = 0 /\ txAge' = 0
    BY <1>3, <2>1 DEF PeerWriteType, Sent, Write, After
  <2> QED BY <1>3, <2>2 DEF PeerWriteType, Sent, Write, After
<1>4. CASE MainWriteType
  <2>1. Apart => want = "type" /\ ~garbled
    BY <1>4 DEF MainWriteType, Sent, Write, After, StreamInv
  <2>2. Apart => heardAge' = 0 /\ txAge' = 0
    BY <1>4, <2>1 DEF MainWriteType, Sent, Write, After
  <2> QED BY <1>4, <2>2 DEF MainWriteType, Sent, Write, After
<1>5. CASE RecvOpen
  BY <1>5 DEF RecvOpen, Read, PeerBegin, Write, After
<1>6. CASE RefuseOpen
  BY <1>6 DEF RefuseOpen, Read
<1>7. CASE RecvKeepalive
  BY <1>7 DEF RecvKeepalive, Read, PeerBegin, Write, After
<1>8. CASE RecvUpdate
  BY <1>8 DEF RecvUpdate, Read
<1>9. CASE VisitSkip
  BY <1>9 DEF VisitSkip
<1>10. CASE VisitExpire
  BY <1>10 DEF VisitExpire, MainBegin, Write, After, Expired
<1>11. CASE VisitSend
  BY <1>11 DEF VisitSend, MainBegin, Write, After, Due, Expired
<1>12. CASE VisitQuiet
  BY <1>12 DEF VisitQuiet, Due, Expired
<1>13. CASE NeighborDrops
  BY <1>13 DEF NeighborDrops
<1>14. CASE NeighborRejects
  BY <1>14 DEF NeighborRejects
<1>15. CASE NeighborDies
  BY <1>15 DEF NeighborDies
<1>16. CASE NeighborCloses
  BY <1>16 DEF NeighborCloses
<1>17. CASE Reconnect
  BY <1>17 DEF Reconnect
<1>18. CASE Tick
  <2>1. CASE state = "openconfirm"
    <3>1. heardAge' <= spokeAge'
      BY <1>18, <2>1 DEF Tick
    <3>2. alive /\ Timed => spokeAge' <= SessionHold \div 3
      BY <1>18, <2>1 DEF Tick, SpokeInv
    <3> QED BY <1>18, <2>1, <3>1, <3>2 DEF Tick
  <2>2. CASE state = "established"
    <3>1. peerAt = "none" /\ peerAt' = "none" /\ roundAge' = roundAge + 1
          /\ txAge' = txAge + 1 /\ heardAge' = heardAge + 1
      BY <1>18 DEF Tick
    <3>2. keep_alive \in Nat /\ (Timed => SessionHold \in Nat)
      OBVIOUS
    <3>3. Apart => heardAge' <= txAge' /\ (txAge' <= roundAge' \/ txAge' < keep_alive + roundAge')
      BY <2>2, <3>1, <3>2
    <3>4. ~late' => ~late /\ ~(roundAge' + keep_alive >= SessionHold)
      BY <1>18, <2>2 DEF Tick
    <3>5. Timed /\ Apart /\ ~late' => heardAge' < SessionHold
      BY <3>1, <3>2, <3>3, <3>4
    <3> QED BY <1>18, <2>2, <3>1, <3>3, <3>5 DEF Tick
  <2> QED BY <1>18, <2>1, <2>2 DEF Tick, State, InSession
<1>19. CASE MainExpires
  BY <1>19 DEF MainExpires, Write, After
<1> QED BY <1>1, <1>2, <1>3, <1>4, <1>5, <1>6, <1>7, <1>8, <1>9, <1>10, <1>11, <1>12, <1>13, <1>14,
           <1>15, <1>16, <1>17, <1>18, <1>19 DEF Next, PeerStep, MainStep, Neighbor

\* Only a neighbour that is late, or whose hold time was decoded wrong, is found
\* to have expired.
LEMMA ExpiryStep ==
    ASSUME IInv, Next PROVE ExpiryInv'
<1> USE SessionFacts, DecodedFacts
      DEF IInv, TypeOK, ExpiryInv, InSession, StreamInv, Timed, codecVars, ageVars, streamVars,
      pastVars
<1>1. CASE PeerWriteLength
  BY <1>1 DEF PeerWriteLength, Write, After
<1>2. CASE MainWriteLength
  BY <1>2 DEF MainWriteLength, Write, After
<1>3. CASE PeerWriteType
  BY <1>3 DEF PeerWriteType, Sent, Write, After
<1>4. CASE MainWriteType
  BY <1>4 DEF MainWriteType, Sent, Write, After
<1>5. CASE RecvOpen
  BY <1>5 DEF RecvOpen, Read, PeerBegin, Write, After
<1>6. CASE RefuseOpen
  BY <1>6 DEF RefuseOpen, Read
<1>7. CASE RecvKeepalive
  BY <1>7 DEF RecvKeepalive, Read, PeerBegin, Write, After
<1>8. CASE RecvUpdate
  BY <1>8 DEF RecvUpdate, Read
<1>9. CASE VisitSkip
  BY <1>9 DEF VisitSkip
<1>10. CASE VisitExpire
  <2>1. ASSUME alive, Timed, Seconds(sent_hold) < Byte PROVE FALSE
    <3>1. spokeAge <= SessionHold \div 3 /\ readAge = spokeAge
      BY <1>10, <2>1 DEF VisitExpire, Expired, SpokeInv, ReadInv, Up
    <3>2. hold_time = Seconds(sent_hold)
      BY <1>10, <2>1 DEF VisitExpire, Expired, DecodedInv, Up
    <3>3. SessionHold \div 3 < Seconds(sent_hold)
      BY <2>1
    <3> QED BY <1>10, <3>1, <3>2, <3>3, <2>1 DEF VisitExpire, Expired, Age
  <2>2. Seconds(sent_hold) \in Nat /\ Byte \in Nat
    BY ByteAssumption
  <2> QED BY <1>10, <2>1, <2>2 DEF VisitExpire, MainBegin, Write, Expired
<1>11. CASE VisitSend
  BY <1>11 DEF VisitSend, MainBegin, Write, After, Due, Expired
<1>12. CASE VisitQuiet
  BY <1>12 DEF VisitQuiet, Due, Expired
<1>13. CASE NeighborDrops
  BY <1>13 DEF NeighborDrops
<1>14. CASE NeighborRejects
  BY <1>14 DEF NeighborRejects
<1>15. CASE NeighborDies
  BY <1>15 DEF NeighborDies
<1>16. CASE NeighborCloses
  BY <1>16 DEF NeighborCloses
<1>17. CASE Reconnect
  BY <1>17 DEF Reconnect
<1>18. CASE Tick
  BY <1>18 DEF Tick
<1>19. CASE MainExpires
  BY <1>19 DEF MainExpires, Write, After
<1> QED BY <1>1, <1>2, <1>3, <1>4, <1>5, <1>6, <1>7, <1>8, <1>9, <1>10, <1>11, <1>12, <1>13, <1>14,
           <1>15, <1>16, <1>17, <1>18, <1>19 DEF Next, PeerStep, MainStep, Neighbor

\* Only an expiry that was found in this session, or before it, ends it.
LEMMA KeptStep ==
    ASSUME IInv, Next PROVE LiveNeighborIsKept'
<1> USE SessionFacts, DecodedFacts
      DEF IInv, TypeOK, EndedInv, ExpiryInv, InSession, LiveNeighborIsKept, Timed, codecVars,
      ageVars, streamVars, pastVars
<1>1. CASE PeerWriteLength
  BY <1>1 DEF PeerWriteLength, Write, After
<1>2. CASE MainWriteLength
  BY <1>2 DEF MainWriteLength, Write, After
<1>3. CASE PeerWriteType
  BY <1>3 DEF PeerWriteType, Sent, Write, After
<1>4. CASE MainWriteType
  BY <1>4 DEF MainWriteType, Sent, Write, After
<1>5. CASE RecvOpen
  BY <1>5 DEF RecvOpen, Read, PeerBegin, Write, After
<1>6. CASE RefuseOpen
  BY <1>6 DEF RefuseOpen, Read
<1>7. CASE RecvKeepalive
  BY <1>7 DEF RecvKeepalive, Read, PeerBegin, Write, After
<1>8. CASE RecvUpdate
  BY <1>8 DEF RecvUpdate, Read
<1>9. CASE VisitSkip
  BY <1>9 DEF VisitSkip
<1>10. CASE VisitExpire
  BY <1>10 DEF VisitExpire, MainBegin, Write, After, Expired
<1>11. CASE VisitSend
  BY <1>11 DEF VisitSend, MainBegin, Write, After, Due, Expired
<1>12. CASE VisitQuiet
  BY <1>12 DEF VisitQuiet, Due, Expired
<1>13. CASE NeighborDrops
  BY <1>13 DEF NeighborDrops
<1>14. CASE NeighborRejects
  BY <1>14 DEF NeighborRejects
<1>15. CASE NeighborDies
  BY <1>15 DEF NeighborDies
<1>16. CASE NeighborCloses
  BY <1>16 DEF NeighborCloses
<1>17. CASE Reconnect
  BY <1>17 DEF Reconnect
<1>18. CASE Tick
  BY <1>18 DEF Tick
<1>19. CASE MainExpires
  BY <1>19 DEF MainExpires, Write, After
<1> QED BY <1>1, <1>2, <1>3, <1>4, <1>5, <1>6, <1>7, <1>8, <1>9, <1>10, <1>11, <1>12, <1>13, <1>14,
           <1>15, <1>16, <1>17, <1>18, <1>19 DEF Next, PeerStep, MainStep, Neighbor

\* The neighbour drops us only over a garbled stream.
LEMMA HearsStep ==
    ASSUME IInv, Next PROVE NeighborHearsFromUs'
<1> USE SessionFacts
      DEF IInv, TypeOK, EndedInv, HeardInv, Apart, Up, InSession, NeighborHearsFromUs, Age,
      codecVars, ageVars, streamVars, pastVars
<1>1. CASE PeerWriteLength
  BY <1>1 DEF PeerWriteLength, Write, After
<1>2. CASE MainWriteLength
  BY <1>2 DEF MainWriteLength, Write, After
<1>3. CASE PeerWriteType
  BY <1>3 DEF PeerWriteType, Sent, Write, After
<1>4. CASE MainWriteType
  BY <1>4 DEF MainWriteType, Sent, Write, After
<1>5. CASE RecvOpen
  BY <1>5 DEF RecvOpen, Read, PeerBegin, Write, After
<1>6. CASE RefuseOpen
  BY <1>6 DEF RefuseOpen, Read
<1>7. CASE RecvKeepalive
  BY <1>7 DEF RecvKeepalive, Read, PeerBegin, Write, After
<1>8. CASE RecvUpdate
  BY <1>8 DEF RecvUpdate, Read
<1>9. CASE VisitSkip
  BY <1>9 DEF VisitSkip
<1>10. CASE VisitExpire
  BY <1>10 DEF VisitExpire, MainBegin, Write, After, Expired
<1>11. CASE VisitSend
  BY <1>11 DEF VisitSend, MainBegin, Write, After, Due, Expired
<1>12. CASE VisitQuiet
  BY <1>12 DEF VisitQuiet, Due, Expired
<1>13. CASE NeighborDrops
  BY <1>13 DEF NeighborDrops
<1>14. CASE NeighborRejects
  BY <1>14 DEF NeighborRejects
<1>15. CASE NeighborDies
  BY <1>15 DEF NeighborDies
<1>16. CASE NeighborCloses
  BY <1>16 DEF NeighborCloses
<1>17. CASE Reconnect
  BY <1>17 DEF Reconnect
<1>18. CASE Tick
  BY <1>18 DEF Tick
<1>19. CASE MainExpires
  BY <1>19 DEF MainExpires, Write, After
<1> QED BY <1>1, <1>2, <1>3, <1>4, <1>5, <1>6, <1>7, <1>8, <1>9, <1>10, <1>11, <1>12, <1>13, <1>14,
           <1>15, <1>16, <1>17, <1>18, <1>19 DEF Next, PeerStep, MainStep, Neighbor

-----------------------------------------------------------------------------
(* The theorems.                                                           *)

\* The invariant is inductive.
LEMMA NextInv == IInv /\ [Next]_vars => IInv'
<1> SUFFICES ASSUME IInv, [Next]_vars PROVE IInv'
  OBVIOUS
<1>1. CASE Next
  <2>1. TypeOK'
    BY <1>1, TypeStep DEF IInv
  <2>2. StreamInv' /\ EndedInv' /\ DecodedInv'
    BY <1>1, StreamStep, EndedStep, DecodedStep DEF IInv
  <2>3. ReadInv' /\ SpokeInv'
    BY <1>1, <2>1, ReadStep, SpokeStep DEF IInv
  <2>4. HeardInv'
    BY <1>1, <2>1, <2>3, HeardStep
  <2>5. ExpiryInv'
    BY <1>1, ExpiryStep
  <2>6. LiveNeighborIsKept' /\ NeighborHearsFromUs'
    BY <1>1, KeptStep, HearsStep
  <2> QED BY <2>1, <2>2, <2>3, <2>4, <2>5, <2>6 DEF IInv
<1>2. CASE UNCHANGED vars
  BY <1>2 DEF IInv, TypeOK, StreamInv, Apart, EndedInv, InSession, DecodedInv, ReadInv,
              SpokeInv, ExpiryInv, HeardInv, Up, LiveNeighborIsKept, NeighborHearsFromUs,
              SessionHold, Timed, vars, codecVars, ageVars, streamVars, pastVars
<1> QED BY <1>1, <1>2

\* The ages, the timers and the pieces on the stream stay in their types.
THEOREM TimersTypeCorrect == Spec => []TypeOK
<1>1. IInv => TypeOK
  BY DEF IInv
<1> QED BY InitInv, NextInv, <1>1, PTL DEF Spec

\* However long the main thread is held up, hold_timer_expired never drops a
\* neighbour that speaks on time, if its hold time is not 0 and fits in one byte,
\* unless the expiry of an earlier session was still being sent.
THEOREM LiveNeighborKept == Spec => []LiveNeighborIsKept
<1>1. IInv => LiveNeighborIsKept
  BY DEF IInv
<1> QED BY InitInv, NextInv, <1>1, PTL DEF Spec

\* The two threads' keepalives reach the neighbour within the session's hold
\* time, as long as the main thread comes round before the hold time less the
\* keepalive interval is over and no messages run into each other.
THEOREM NeighborHears == Spec => []NeighborHearsFromUs
<1>1. IInv => NeighborHearsFromUs
  BY DEF IInv
<1> QED BY InitInv, NextInv, <1>1, PTL DEF Spec

\* A silent neighbour is found out by the first visit after its hold time.
THEOREM SilenceNoticed == Spec => []SilenceIsNoticed
<1>1. IInv => SilenceIsNoticed
  BY DEF IInv, ReadInv, TypeOK, Age, SilenceIsNoticed
<1> QED BY InitInv, NextInv, <1>1, PTL DEF Spec

\* The pieces send_packet writes arrive as whole messages while the threads take
\* turns and no message is left over from an earlier session.
THEOREM StreamInOrder == Spec => []StreamGarbledOnlyIfCrossed
<1>1. IInv => StreamGarbledOnlyIfCrossed
  BY DEF IInv, TypeOK, StreamInv, Apart, StreamGarbledOnlyIfCrossed
<1> QED BY InitInv, NextInv, <1>1, PTL DEF Spec
=============================================================================
