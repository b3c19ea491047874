--------------------------- MODULE BgpdOrderProofs ---------------------------
(***************************************************************************)
(* What survives of the order of the UPDATEs, for every number of          *)
(* neighbours and every set of messages: the RIB together with what is     *)
(* still queued is what the last UPDATE about a key asked for.             *)
(***************************************************************************)
EXTENDS BgpdProofs, BgpdOrder

\* No later announcement of its key follows the n-th.
Last(q, n) == \A m \in 1..Len(q) : m > n => KeyOf(q[m]) # KeyOf(q[n])

\* A key is as its last UPDATE said, once the queues are empty: a withdrawal in
\* the queue will have the last word, else the last announcement in the queue,
\* else the RIB has it.
AsAsked(k) ==
    /\ WdrawPending(k) => wanted[k] = None
    /\ ~WdrawPending(k) =>
          \A n \in 1..Len(adj_rib_in_q) :
             KeyOf(adj_rib_in_q[n]) = k /\ Last(adj_rib_in_q, n)
                => adj_rib_in_q[n].attr = wanted[k]
    /\ ~Pending(k) => adj_rib_in[k] = wanted[k]

\* The queues are emptied one after the other, and a round begins without them.
QueuesAt ==
    /\ mpc \in {"wdraw", "wait"} => adj_rib_in_q = <<>>
    /\ mpc = "wait" => adj_rib_in_wdraw_q = <<>>

OrderInv ==
    /\ wanted \in [Key -> Attr \cup {None}]
    /\ QueuesAt
    /\ ~stop => \A k \in Key : k \notin flipped => AsAsked(k)

-----------------------------------------------------------------------------
(* Sequences by their elements.                                            *)

\* What is behind the first element.
LEMMA TailElements ==
    ASSUME NEW S, NEW q \in Seq(S), q # <<>>
    PROVE  /\ Tail(q) \in Seq(S)
           /\ Len(q) \in Nat \ {0} /\ Len(Tail(q)) = Len(q) - 1
           /\ \A n \in 1..(Len(q) - 1) : Tail(q)[n] = q[n + 1]
           /\ Head(q) = q[1] /\ q[1] \in S
BY HeadTailProperties, EmptySeq

\* A queue and what is pushed behind it.
LEMMA PushElements ==
    ASSUME NEW S, NEW q \in Seq(S), NEW r \in Seq(S)
    PROVE  /\ q \o r \in Seq(S)
           /\ Len(q) \in Nat /\ Len(r) \in Nat /\ Len(q \o r) = Len(q) + Len(r)
           /\ \A n \in 1..Len(q) : (q \o r)[n] = q[n]
           /\ \A n \in 1..Len(r) : (q \o r)[Len(q) + n] = r[n]
<1>1. q \o r \in Seq(S) /\ Len(q \o r) = Len(q) + Len(r) /\ Len(q) \in Nat /\ Len(r) \in Nat
  BY ConcatProperties, LenProperties
<1>2. \A n \in 1..(Len(q) + Len(r)) :
         (q \o r)[n] = IF n <= Len(q) THEN q[n] ELSE r[n - Len(q)]
  BY ConcatProperties
<1>3. \A n \in 1..Len(q) : (q \o r)[n] = q[n]
  BY <1>1, <1>2
<1>4. ASSUME NEW n \in 1..Len(r) PROVE (q \o r)[Len(q) + n] = r[n]
  <2>1. Len(q) + n \in 1..(Len(q) + Len(r)) /\ ~(Len(q) + n <= Len(q))
        /\ (Len(q) + n) - Len(q) = n
    BY <1>1
  <2> QED  BY <1>2, <2>1
<1> QED  BY <1>1, <1>3, <1>4

-----------------------------------------------------------------------------
(* The steps.                                                              *)

\* Steps that leave the queues, the RIB and the history alone.
LEMMA OrderFrame ==
    ASSUME OrderInv, stop => stop', QueuesAt',
           UNCHANGED <<adj_rib_in, adj_rib_in_q, adj_rib_in_wdraw_q, wanted, flipped>>
    PROVE  OrderInv'
BY DEF OrderInv, AsAsked, Pending, WdrawPending, Last

\* A thread's step: a route it flushes is no longer asked for, unless there is
\* more about its key in the queues.
LEMMA OrderThread ==
    ASSUME TypeInv, OrderInv, Forget, NEW p \in Peer,
           PeerRun(p) \/ Remote(p) \/ HoldTimePasses(p)
    PROVE  OrderInv'
<1>1. UNCHANGED <<adj_rib_in_q, adj_rib_in_wdraw_q, mpc, stop, flipped>>
  BY DEF PeerRun, PeerExit, PeerStart, ConnectFail, ConnectOk, SetupFail, SetupCrash,
     SetupOk, EnterRead, LeaveLoop, AllocFail, FlushOne, FlushDone,
     SessionDown, Drain, Remote, RecvOpen, RecvBadOpen, RecvKeepalive,
     RecvOther, RecvUpdate, RecvEof, HoldTimePasses, Receive, PeerStep, mainVars,
     workVars, Forget
<1>2. /\ \A k \in Key : adj_rib_in'[k] # adj_rib_in[k] =>
                            adj_rib_in[k] # None /\ adj_rib_in'[k] = None
  BY DEF PeerRun, PeerExit, PeerStart, ConnectFail, ConnectOk, SetupFail, SetupCrash,
     SetupOk, EnterRead, LeaveLoop, AllocFail, FlushOne, FlushDone,
     SessionDown, Drain, Remote, RecvOpen, RecvBadOpen, RecvKeepalive,
     RecvOther, RecvUpdate, RecvEof, HoldTimePasses, Receive, PeerStep, ribVars,
     TypeInv, TypeOK
<1>3. wanted' \in [Key -> Attr \cup {None}] /\ QueuesAt'
  BY <1>1 DEF Forget, OrderInv, QueuesAt
<1>4. ASSUME NEW k \in Key, AsAsked(k) PROVE AsAsked(k)'
  <2>1. Pending(k)' = Pending(k) /\ WdrawPending(k)' = WdrawPending(k)
    BY <1>1 DEF Pending, WdrawPending
  <2>2. Pending(k) => wanted'[k] = wanted[k]
    BY DEF Forget
  <2>3. ~Pending(k) => adj_rib_in'[k] = wanted'[k]
    BY <1>2, <1>4 DEF Forget, AsAsked
  <2>4. \A n \in 1..Len(adj_rib_in_q) : KeyOf(adj_rib_in_q[n]) = k => Pending(k)
    BY DEF Pending
  <2>5. WdrawPending(k) => Pending(k)
    BY DEF Pending
  <2> QED  BY <1>1, <1>4, <2>1, <2>2, <2>3, <2>4, <2>5 DEF AsAsked, Last
<1> QED  BY <1>1, <1>3, <1>4 DEF OrderInv

\* peer_entry: the first announcement goes from the queue to the RIB.
LEMMA OrderEntry ==
    ASSUME TypeInv, OwnInv, AliveInv, OrderInv, PeerEntry,
           UNCHANGED <<wanted, flipped>>
    PROVE  OrderInv'
<1> DEFINE q == adj_rib_in_q
           u == Head(q)
           A == [prefix : Prefix, id : OwnIds, attr : Attr]
<1>1. q \in Seq(A) /\ q # <<>>
  BY DEF PeerEntry, OwnInv
<1>2. /\ Len(q) \in Nat \ {0} /\ Len(Tail(q)) = Len(q) - 1
      /\ \A n \in 1..(Len(q) - 1) : Tail(q)[n] = q[n + 1]
      /\ u = q[1] /\ u \in A
  <2> HIDE DEF A
  <2> QED  BY <1>1, TailElements
<1>3. /\ adj_rib_in_q' = Tail(q) /\ mpc' = "rib"
      /\ UNCHANGED <<adj_rib_in_wdraw_q, stop>>
  BY DEF PeerEntry, MainStep
<1>4. ~stop => PeerKnown(u.id)
  BY <1>2 DEF AliveInv, PeerKnown, OwnIds
<1>5. ~stop => adj_rib_in' = [adj_rib_in EXCEPT ![<<u.prefix, u.id>>] = u.attr]
  BY <1>4 DEF PeerEntry
<1>6. ASSUME NEW k \in Key, AsAsked(k), ~stop PROVE AsAsked(k)'
  <2>1. WdrawPending(k)' = WdrawPending(k)
    BY <1>3 DEF WdrawPending
  <2>2. ASSUME NEW n \in 1..(Len(q) - 1), KeyOf(Tail(q)[n]) = k, Last(Tail(q), n)
        PROVE  /\ n + 1 \in 1..Len(q) /\ KeyOf(q[n + 1]) = k /\ Last(q, n + 1)
               /\ Tail(q)[n] = q[n + 1]
    <3>1. n + 1 \in 1..Len(q) /\ Tail(q)[n] = q[n + 1]
      BY <1>2
    <3>2. ASSUME NEW m \in 1..Len(q), m > n + 1 PROVE KeyOf(q[m]) # KeyOf(q[n + 1])
      <4>1. m - 1 \in 1..(Len(q) - 1) /\ m - 1 > n /\ (m - 1) + 1 = m
        BY <1>2, <3>2
      <4>2. Tail(q)[m - 1] = q[m]
        BY <1>2, <4>1
      <4>3. KeyOf(Tail(q)[m - 1]) # KeyOf(Tail(q)[n])
        BY <1>2, <2>2, <4>1 DEF Last
      <4> QED  BY <3>1, <4>2, <4>3
    <3> QED  BY <2>2, <3>1, <3>2 DEF Last
  <2>3. ASSUME ~WdrawPending(k), NEW n \in 1..Len(Tail(q)),
               KeyOf(Tail(q)[n]) = k, Last(Tail(q), n)
        PROVE  Tail(q)[n].attr = wanted[k]
    BY <1>2, <1>6, <2>2, <2>3 DEF AsAsked
  <2>4. ASSUME ~Pending(k)' PROVE adj_rib_in'[k] = wanted[k]
    <3>1. \A n \in 1..(Len(q) - 1) : KeyOf(q[n + 1]) # k
      BY <1>2, <1>3, <2>4 DEF Pending
    <3>2. \A m \in 1..Len(q) : m > 1 => KeyOf(q[m]) # k
      <4>1. \A m \in 1..Len(q) : m > 1 => m - 1 \in 1..(Len(q) - 1) /\ (m - 1) + 1 = m
        BY <1>2
      <4> QED  BY <3>1, <4>1
    <3>3. ~WdrawPending(k)
      BY <2>1, <2>4 DEF Pending
    <3>4. CASE KeyOf(u) = k
      <4>1. 1 \in 1..Len(q) /\ Last(q, 1)
        BY <1>2, <3>2, <3>4 DEF Last
      <4>2. u.attr = wanted[k]
        BY <1>2, <1>6, <3>3, <3>4, <4>1 DEF AsAsked
      <4> QED  BY <1>5, <1>6, <3>4, <4>2 DEF KeyOf, TypeInv, TypeOK
    <3>5. CASE KeyOf(u) # k
      <4>1. ~Pending(k)
        BY <1>2, <3>2, <3>3, <3>5 DEF Pending
      <4>2. adj_rib_in'[k] = adj_rib_in[k]
        BY <1>5, <1>6, <3>5 DEF KeyOf, TypeInv, TypeOK
      <4> QED  BY <1>6, <4>1, <4>2 DEF AsAsked
    <3> QED  BY <3>4, <3>5
  <2> QED  BY <1>3, <1>6, <2>1, <2>3, <2>4 DEF AsAsked
<1> QED  BY <1>3, <1>6 DEF OrderInv, QueuesAt

\* withdraw: the queue of announcements is empty, so that the RIB has no route
\* for a key that is to be withdrawn again.
LEMMA OrderWithdraw ==
    ASSUME TypeInv, OwnInv, AliveInv, OrderInv, Withdraw,
           UNCHANGED <<wanted, flipped>>
    PROVE  OrderInv'
<1> DEFINE q == adj_rib_in_wdraw_q
           u == Head(q)
           W == [prefix : Prefix, id : OwnIds]
<1>1. q \in Seq(W) /\ q # <<>>
  BY DEF Withdraw, OwnInv
<1>2. /\ Len(q) \in Nat \ {0} /\ Len(Tail(q)) = Len(q) - 1
      /\ \A n \in 1..(Len(q) - 1) : Tail(q)[n] = q[n + 1]
      /\ u = q[1] /\ u \in W
  <2> HIDE DEF W
  <2> QED  BY <1>1, TailElements
<1>3. /\ adj_rib_in_wdraw_q' = Tail(q) /\ mpc' = "wdraw"
      /\ adj_rib_in_q = <<>> /\ adj_rib_in_q' = <<>>
      /\ UNCHANGED stop
  BY DEF Withdraw, MainStep, OrderInv, QueuesAt
<1>4. ~stop => PeerKnown(u.id)
  BY <1>2 DEF AliveInv, PeerKnown, OwnIds
<1>5. ~stop => adj_rib_in' = [adj_rib_in EXCEPT ![<<u.prefix, u.id>>] = None]
  BY <1>4 DEF Withdraw
<1>6. ASSUME NEW k \in Key, AsAsked(k), ~stop PROVE AsAsked(k)'
  <2>1. WdrawPending(k)' => WdrawPending(k)
    <3>1. \A n \in 1..(Len(q) - 1) : n + 1 \in 1..Len(q)
      BY <1>2
    <3> QED  BY <1>2, <1>3, <3>1 DEF WdrawPending
  <2>0. \A n : n \notin 1..Len(adj_rib_in_q) /\ n \notin 1..Len(adj_rib_in_q')
    BY <1>3
  <2>2. (Pending(k) <=> WdrawPending(k)) /\ (Pending(k)' <=> WdrawPending(k)')
    BY <2>0 DEF Pending
  <2>3. ASSUME ~WdrawPending(k)' PROVE adj_rib_in'[k] = wanted[k]
    <3>1. CASE KeyOf(u) = k
      <4>1. 1 \in 1..Len(q) /\ WdrawPending(k)
        BY <1>2, <3>1 DEF WdrawPending
      <4> QED  BY <1>5, <1>6, <3>1, <4>1 DEF AsAsked, KeyOf, TypeInv, TypeOK
    <3>2. CASE KeyOf(u) # k
      <4>1. \A m \in 1..Len(q) : m = 1 \/ (m - 1 \in 1..(Len(q) - 1) /\ (m - 1) + 1 = m)
        BY <1>2
      <4>0. \A n \in 1..(Len(q) - 1) : KeyOf(q[n + 1]) # k
        BY <1>2, <1>3, <2>3 DEF WdrawPending
      <4>2. ~WdrawPending(k)
        BY <1>2, <3>2, <4>0, <4>1 DEF WdrawPending
      <4>3. adj_rib_in'[k] = adj_rib_in[k]
        BY <1>5, <1>6, <3>2 DEF KeyOf, TypeInv, TypeOK
      <4> QED  BY <1>6, <2>2, <4>2, <4>3 DEF AsAsked
    <3> QED  BY <3>1, <3>2
  <2>4. WdrawPending(k)' => wanted[k] = None
    BY <1>6, <2>1 DEF AsAsked
  <2> QED  BY <2>0, <2>2, <2>3, <2>4 DEF AsAsked
<1> QED  BY <1>3, <1>6 DEF OrderInv, QueuesAt

\* Parsing: the message has the last word on the keys it names, and touches no
\* others.
LEMMA OrderParse ==
    ASSUME TypeInv, OrderInv, Parse, Record
    PROVE  OrderInv'
<1> DEFINE i == bgp_id[cur]
           gone == Asked(packet.wd)
           here == Asked(packet.nlri)
<1>1. /\ packet \in Update /\ cur \in Peer /\ i \in Id
      /\ mpc' = "more" /\ UNCHANGED <<stop, adj_rib_in>>
  BY DEF Parse, MainStep, Running, TypeInv, TypeOK, MainAt
<1>2. /\ packet.wd \in Seq(Prefix) /\ packet.nlri \in Seq(Prefix) /\ packet.attr \in Attr
      /\ Len(packet.wd) \in Nat /\ Len(packet.nlri) \in Nat
  BY <1>1, UpdateAssumption, LenProperties
<1>3. /\ wanted' = [k \in Key |-> IF k \in here THEN packet.attr
                                    ELSE IF k \in gone THEN None ELSE wanted[k]]
      /\ flipped' = (flipped \ (gone \cup here))
                         \cup {k \in here : WdrawPending(k) \/ packet.wd # <<>>}
  BY DEF Record
<1>4. wanted' \in [Key -> Attr \cup {None}] /\ QueuesAt'
  BY <1>1, <1>2, <1>3 DEF OrderInv, QueuesAt
<1>5. CASE packet.wd # <<>>
  <2> DEFINE q == adj_rib_in_wdraw_q
             r == Withdrawals(packet, i)
  <2>1. UNCHANGED adj_rib_in_q /\ adj_rib_in_wdraw_q' = q \o r
    BY <1>5 DEF Parse
  <2>2. q \in Seq(Withdrawal) /\ r \in Seq(Withdrawal)
    BY <1>1, WithdrawalsType DEF Withdrawal, TypeInv, TypeOK
  <2>3. /\ Len(q) \in Nat /\ Len(r) \in Nat /\ Len(q \o r) = Len(q) + Len(r)
        /\ \A n \in 1..Len(q) : (q \o r)[n] = q[n]
        /\ \A n \in 1..Len(r) : (q \o r)[Len(q) + n] = r[n]
    <3> HIDE DEF q, r
    <3> QED  BY <2>2, PushElements
  <2>4. /\ Len(r) = Len(packet.wd)
        /\ \A n \in 1..Len(r) : KeyOf(r[n]) = <<packet.wd[n], i>>
    BY <1>2 DEF Withdrawals, KeyOf
  <2>5. ASSUME NEW k \in Key
        PROVE  WdrawPending(k)' <=> WdrawPending(k) \/ k \in gone
    <3>1. ASSUME NEW n \in 1..Len(q \o r), KeyOf((q \o r)[n]) = k
          PROVE  WdrawPending(k) \/ k \in gone
      <4>1. CASE n <= Len(q)
        BY <2>3, <3>1, <4>1 DEF WdrawPending
      <4>2. CASE n > Len(q)
        <5>1. n - Len(q) \in 1..Len(r) /\ Len(q) + (n - Len(q)) = n
          BY <2>3, <3>1, <4>2
        <5>2. k = <<packet.wd[n - Len(q)], i>> /\ n - Len(q) \in 1..Len(packet.wd)
          BY <2>3, <2>4, <3>1, <5>1
        <5> QED  BY <5>2 DEF Asked
      <4> QED  BY <2>3, <4>1, <4>2
    <3>2. ASSUME WdrawPending(k) PROVE WdrawPending(k)'
      <4>1. PICK n \in 1..Len(q) : KeyOf(q[n]) = k
        BY <3>2 DEF WdrawPending
      <4>2. n \in 1..Len(q \o r) /\ (q \o r)[n] = q[n]
        BY <2>3
      <4> QED  BY <2>1, <4>1, <4>2 DEF WdrawPending
    <3>3. ASSUME k \in gone PROVE WdrawPending(k)'
      <4>1. PICK n \in 1..Len(packet.wd) : k = <<packet.wd[n], i>>
        BY <3>3 DEF Asked
      <4>2. Len(q) + n \in 1..Len(q \o r) /\ (q \o r)[Len(q) + n] = r[n] /\ KeyOf(r[n]) = k
        BY <2>3, <2>4, <4>1
      <4> QED  BY <2>1, <4>2 DEF WdrawPending
    <3> QED  BY <2>1, <3>1, <3>2, <3>3 DEF WdrawPending
  <2>6. ASSUME NEW k \in Key, k \notin flipped', k \notin flipped => AsAsked(k)
        PROVE  AsAsked(k)'
    <3>1. k \notin here
      BY <1>3, <1>5, <2>6
    <3>2. CASE k \in gone
      BY <1>3, <2>5, <2>6, <3>1, <3>2 DEF AsAsked, Pending
    <3>3. CASE k \notin gone
      <4>1. AsAsked(k) /\ wanted'[k] = wanted[k] /\ WdrawPending(k)' = WdrawPending(k)
        BY <1>3, <2>5, <2>6, <3>1, <3>3 DEF WdrawPending
      <4> QED  BY <1>1, <2>1, <4>1 DEF AsAsked, Pending, Last
    <3> QED  BY <3>2, <3>3
  <2> QED  BY <1>1, <1>4, <2>6 DEF OrderInv
<1>6. CASE packet.wd = <<>>
  <2> DEFINE q == adj_rib_in_q
             r == Announcements(packet, i)
             qr == q \o r
  <2>1. UNCHANGED adj_rib_in_wdraw_q /\ adj_rib_in_q' = qr
    BY <1>6 DEF Parse
  <2>2. q \in Seq(Announcement) /\ r \in Seq(Announcement)
    BY <1>1, AnnouncementsType DEF Announcement, TypeInv, TypeOK
  <2>3. /\ Len(q) \in Nat /\ Len(r) \in Nat /\ Len(qr) = Len(q) + Len(r)
        /\ \A n \in 1..Len(q) : qr[n] = q[n]
        /\ \A n \in 1..Len(r) : qr[Len(q) + n] = r[n]
    <3> HIDE DEF q, r
    <3> QED  BY <2>2, PushElements
  <2>4. /\ Len(r) = Len(packet.nlri)
        /\ \A n \in 1..Len(r) : KeyOf(r[n]) = <<packet.nlri[n], i>> /\ r[n].attr = packet.attr
    BY <1>2 DEF Announcements, KeyOf
  <2> HIDE DEF qr, r
  <2>5. gone = {}
    BY <1>6 DEF Asked
  <2>6. ASSUME NEW k \in here
        PROVE  \E n \in 1..Len(qr) : n > Len(q) /\ KeyOf(qr[n]) = k
    <3>1. PICK n \in 1..Len(packet.nlri) : k = <<packet.nlri[n], i>>
      BY <2>6 DEF Asked
    <3>2. Len(q) + n \in 1..Len(qr) /\ Len(q) + n > Len(q) /\ KeyOf(qr[Len(q) + n]) = k
      BY <2>3, <2>4, <3>1
    <3> QED  BY <3>2
  <2>7. ASSUME NEW n \in 1..Len(qr), n > Len(q)
        PROVE  KeyOf(qr[n]) \in here /\ qr[n].attr = packet.attr
    <3>1. n - Len(q) \in 1..Len(r) /\ Len(q) + (n - Len(q)) = n
      BY <2>3, <2>7
    <3>2. qr[n] = r[n - Len(q)] /\ KeyOf(qr[n]) = <<packet.nlri[n - Len(q)], i>>
          /\ n - Len(q) \in 1..Len(packet.nlri)
      BY <2>3, <2>4, <3>1
    <3> QED  BY <2>4, <3>1, <3>2 DEF Asked
  <2>8. ASSUME NEW k \in Key, k \notin flipped', k \notin flipped => AsAsked(k)
        PROVE  AsAsked(k)'
    <3>0. WdrawPending(k)' = WdrawPending(k)
      BY <2>1 DEF WdrawPending
    <3>1. CASE k \in here
      <4>1. ~WdrawPending(k) /\ wanted'[k] = packet.attr
        BY <1>3, <2>8, <3>1
      <4>2. ASSUME NEW n \in 1..Len(qr), KeyOf(qr[n]) = k, Last(qr, n)
            PROVE  qr[n].attr = packet.attr
        <5>1. n > Len(q)
          BY <2>3, <2>6, <3>1, <4>2 DEF Last
        <5> QED  BY <2>7, <5>1
      <4>3. Pending(k)'
        BY <2>1, <2>6, <3>1 DEF Pending
      <4> QED  BY <2>1, <3>0, <4>1, <4>2, <4>3 DEF AsAsked
    <3>2. CASE k \notin here
      <4>1. AsAsked(k) /\ wanted'[k] = wanted[k]
        BY <1>3, <2>5, <2>8, <3>2
      <4>2. ASSUME NEW n \in 1..Len(qr), KeyOf(qr[n]) = k, Last(qr, n)
            PROVE  n \in 1..Len(q) /\ qr[n] = q[n] /\ Last(q, n)
        <5>1. n \in 1..Len(q)
          BY <2>3, <2>7, <3>2, <4>2
        <5>2. \A m \in 1..Len(q) : m \in 1..Len(qr) /\ qr[m] = q[m]
          BY <2>3
        <5> QED  BY <4>2, <5>1, <5>2 DEF Last
      <4>3. Pending(k)' => Pending(k)
        BY <2>1, <2>3, <2>7, <3>0, <3>2 DEF Pending
      <4>4. Pending(k) => Pending(k)'
        <5>1. \A m \in 1..Len(q) : m \in 1..Len(qr) /\ qr[m] = q[m]
          BY <2>3
        <5> QED  BY <2>1, <3>0, <5>1 DEF Pending
      <4> QED  BY <1>1, <2>1, <3>0, <4>1, <4>2, <4>3, <4>4 DEF AsAsked
    <3> QED  BY <3>1, <3>2
  <2> QED  BY <1>1, <1>4, <2>8 DEF OrderInv
<1> QED  BY <1>5, <1>6

\* The other steps of the main thread.
LEMMA OrderMain ==
    ASSUME TypeInv, OwnInv, AliveInv, OrderInv, MainRun, mpc # "parse",
           UNCHANGED <<wanted, flipped>>
    PROVE  OrderInv'
<1>0. ~Parse
  BY DEF Parse, MainStep
<1>1. CASE PeerEntry
  BY <1>1, OrderEntry
<1>2. CASE Withdraw
  BY <1>2, OrderWithdraw
<1>3. CASE ~PeerEntry /\ ~Withdraw
  <2>1. UNCHANGED <<adj_rib_in, adj_rib_in_q, adj_rib_in_wdraw_q, stop>>
    BY <1>0, <1>3 DEF MainRun, MainTop, MainPeersDone, VisitSkip, VisitExpired,
       VisitLive, Visit, VisitErased, HoldExpire, HoldDisconnect, HoldClose,
       QueueEmpty, QueueMore, Front, FrontAllocFail, Pop, RibQueueDone, WdrawQueueDone,
       MainStep, workVars
  <2>2. QueuesAt'
    BY <1>0, <1>3, <2>1 DEF MainRun, MainTop, MainPeersDone, VisitSkip, VisitExpired,
       VisitLive, Visit, VisitErased, HoldExpire, HoldDisconnect, HoldClose,
       QueueEmpty, QueueMore, Front, FrontAllocFail, Pop, RibQueueDone, WdrawQueueDone,
       MainStep, OrderInv, QueuesAt
  <2> QED  BY <2>1, <2>2, OrderFrame
<1> QED  BY <1>1, <1>2, <1>3

LEMMA OrderInitial == OrderInit => OrderInv
<1> SUFFICES ASSUME OrderInit PROVE OrderInv
  OBVIOUS
<1>1. Len(adj_rib_in_q) = 0 /\ adj_rib_in = wanted /\ QueuesAt
  BY DEF OrderInit, Init, QueuesAt
<1>2. Len(adj_rib_in_wdraw_q) = 0
  BY DEF OrderInit, Init
<1>3. \A n : n \notin 1..0
  OBVIOUS
<1>4. \A k \in Key : AsAsked(k)
  BY <1>1, <1>2, <1>3 DEF AsAsked, WdrawPending, Pending
<1> QED  BY <1>1, <1>4 DEF OrderInv, OrderInit

LEMMA OrderStep ==
    TypeInv /\ OwnInv /\ AliveInv /\ OrderInv /\ [OrderNext]_orderVars => OrderInv'
<1> SUFFICES ASSUME TypeInv, OwnInv, AliveInv, OrderInv, [OrderNext]_orderVars
             PROVE  OrderInv'
  OBVIOUS
<1>1. CASE Parse /\ Record
  BY <1>1, OrderParse
<1>2. CASE MainRun /\ mpc # "parse" /\ UNCHANGED <<wanted, flipped>>
  BY <1>2, OrderMain
<1>3. CASE KillAll /\ UNCHANGED <<wanted, flipped>>
  <2>1. QueuesAt' /\ stop' /\ UNCHANGED <<adj_rib_in, adj_rib_in_q, adj_rib_in_wdraw_q>>
    BY <1>3 DEF KillAll, mainVars, workVars, ribVars, OrderInv, QueuesAt
  <2> QED  BY <1>3, <2>1, OrderFrame
<1>4. ASSUME NEW p \in Peer, (PeerRun(p) \/ Remote(p) \/ HoldTimePasses(p)) /\ Forget
      PROVE  OrderInv'
  BY <1>4, OrderThread
<1>5. CASE UNCHANGED orderVars
  <2>1. UNCHANGED <<adj_rib_in, adj_rib_in_q, adj_rib_in_wdraw_q, wanted, flipped, stop, mpc>>
    BY <1>5 DEF orderVars, vars, mainVars, workVars, ribVars
  <2>2. QueuesAt'
    BY <2>1 DEF OrderInv, QueuesAt
  <2> QED  BY <2>1, <2>2, OrderFrame
<1> QED
  BY <1>1, <1>2, <1>3, <1>4, <1>5 DEF OrderNext

\* The history variables take nothing away from the steps of Bgpd.
LEMMA OrderImpliesSpec == OrderSpec => Spec
<1>1. OrderInit => Init
  BY DEF OrderInit
<1>2. [OrderNext]_orderVars => [Next]_vars
  BY DEF OrderNext, orderVars, Next, MainRun
<1> QED  BY <1>1, <1>2, PTL DEF OrderSpec, Spec

\* Whatever the threads do to the sessions, after every round the RIB has for
\* every key what the last UPDATE about it said, unless proc_in_q has put an
\* announcement behind a withdrawal of its key or has dropped it.
THEOREM LatestWins == FixedIds => (OrderSpec => []LatestUpdateWinsUnlessFlipped)
<1> SUFFICES ASSUME FixedIds PROVE OrderSpec => []LatestUpdateWinsUnlessFlipped
  OBVIOUS
<1>1. Init => AliveInv
  BY DEF Init, AliveInv
<1>2. OrderInv => LatestUpdateWinsUnlessFlipped
  <2> SUFFICES ASSUME OrderInv, mpc = "wait", ~stop, NEW k \in Key, k \notin flipped
               PROVE  adj_rib_in[k] = wanted[k]
    BY DEF LatestUpdateWinsUnlessFlipped
  <2>1. Len(adj_rib_in_q) = 0 /\ Len(adj_rib_in_wdraw_q) = 0 /\ AsAsked(k)
    BY DEF OrderInv, QueuesAt
  <2>2. \A n : n \notin 1..0
    OBVIOUS
  <2>3. ~Pending(k)
    BY <2>1, <2>2 DEF Pending, WdrawPending
  <2> QED  BY <2>1, <2>3 DEF AsAsked
<1>3. Spec => []AliveInv
  BY <1>1, AliveNext, OwnInvariant, PTL DEF Spec
<1> QED
  BY <1>2, <1>3, OrderInitial, OrderStep, OrderImpliesSpec, OwnInvariant, PTL DEF OrderSpec
=============================================================================
