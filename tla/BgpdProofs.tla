----------------------------- MODULE BgpdProofs -----------------------------
(***************************************************************************)
(* Theorems about Bgpd, for every number of neighbours and every set of    *)
(* prefixes and messages: the types, the safety invariants, each with an   *)
(* inductive invariant of its own, and the refinement of AdjRibIn.         *)
(***************************************************************************)
EXTENDS Bgpd, SequenceTheorems, TLAPS

-----------------------------------------------------------------------------
(* Type correctness.                                                       *)

\* Between the test of a neighbour and the end of its turn cur is a position
\* of thread_q, and from front() to the parse a packet is in hand.
MainAt ==
    /\ mpc \in {"hexpire", "hdisc", "hclose", "more", "front", "pop", "parse"}
         => cur \in Peer
    /\ mpc \in {"pop", "parse"} /\ fault = "none" => packet \in Update

TypeInv == TypeOK /\ MainAt

\* parse_nlri yields well-formed announcements, one for each prefix.
LEMMA AnnouncementsType ==
    ASSUME NEW S, NEW u \in Update, NEW i \in S
    PROVE  Announcements(u, i) \in Seq([prefix : Prefix, id : S, attr : Attr])
<1> DEFINE A == [prefix : Prefix, id : S, attr : Attr]
           e(n) == [prefix |-> u.nlri[n], id |-> i, attr |-> u.attr]
<1>1. u.nlri \in Seq(Prefix) /\ u.attr \in Attr
  BY UpdateAssumption
<1>2. Len(u.nlri) \in Nat /\ \A n \in 1..Len(u.nlri) : u.nlri[n] \in Prefix
  BY <1>1
<1>3. \A n \in 1..Len(u.nlri) : e(n) \in A
  BY <1>1, <1>2
<1>4. [n \in 1..Len(u.nlri) |-> e(n)] \in Seq(A)
  BY <1>2, <1>3, IsASeq
<1> QED  BY <1>4 DEF Announcements

\* parse_nlri yields well-formed withdrawals, one for each prefix.
LEMMA WithdrawalsType ==
    ASSUME NEW S, NEW u \in Update, NEW i \in S
    PROVE  Withdrawals(u, i) \in Seq([prefix : Prefix, id : S])
<1> DEFINE W == [prefix : Prefix, id : S]
           e(n) == [prefix |-> u.wd[n], id |-> i]
<1>1. u.wd \in Seq(Prefix)
  BY UpdateAssumption
<1>2. Len(u.wd) \in Nat /\ \A n \in 1..Len(u.wd) : u.wd[n] \in Prefix
  BY <1>1
<1>3. \A n \in 1..Len(u.wd) : e(n) \in W
  BY <1>1, <1>2
<1>4. [n \in 1..Len(u.wd) |-> e(n)] \in Seq(W)
  BY <1>2, <1>3, IsASeq
<1> QED  BY <1>4 DEF Withdrawals

\* Pushing what was parsed keeps a queue well formed.
LEMMA PushAnnouncements ==
    ASSUME NEW S, NEW u \in Update, NEW i \in S,
           NEW q \in Seq([prefix : Prefix, id : S, attr : Attr])
    PROVE  q \o Announcements(u, i)
               \in Seq([prefix : Prefix, id : S, attr : Attr])
<1> DEFINE A == [prefix : Prefix, id : S, attr : Attr]
<1>1. Announcements(u, i) \in Seq(A)
  BY AnnouncementsType
<1> HIDE DEF A
<1>2. q \in Seq(A)
  BY DEF A
<1>3. q \o Announcements(u, i) \in Seq(A)
  BY <1>1, <1>2, ConcatProperties
<1> QED  BY <1>3 DEF A

LEMMA PushWithdrawals ==
    ASSUME NEW S, NEW u \in Update, NEW i \in S,
           NEW q \in Seq([prefix : Prefix, id : S])
    PROVE  q \o Withdrawals(u, i) \in Seq([prefix : Prefix, id : S])
<1> DEFINE W == [prefix : Prefix, id : S]
<1>1. Withdrawals(u, i) \in Seq(W)
  BY WithdrawalsType
<1> HIDE DEF W
<1>2. q \in Seq(W)
  BY DEF W
<1>3. q \o Withdrawals(u, i) \in Seq(W)
  BY <1>1, <1>2, ConcatProperties
<1> QED  BY <1>3 DEF W

\* A sequence that is not empty has a first element and one element less.
LEMMA TailType ==
    ASSUME NEW S, NEW q \in Seq(S), q # <<>>
    PROVE  /\ Head(q) \in S /\ Tail(q) \in Seq(S)
           /\ Len(q) \in Nat \ {0} /\ Len(Tail(q)) = Len(q) - 1
BY HeadTailProperties, EmptySeq

\* uint16_t arithmetic stays in range.
LEMMA U16Is == U16 \in Nat \ {0}
BY DEF U16

LEMMA Modulus ==
    ASSUME NEW d \in Nat \ {0}, NEW m \in Int
    PROVE  m % d \in 0..(d - 1) /\ (0 <= m /\ m < d => m % d = m)
OBVIOUS

LEMMA U16Range == \A m \in Int : m % U16 \in 0..(U16 - 1)
BY U16Is, Modulus

LEMMA U16Exact == \A m \in Int : 0 <= m /\ m < U16 => m % U16 = m
BY U16Is, Modulus

LEMMA U16Step ==
    ASSUME NEW n \in 0..(U16 - 1)
    PROVE  /\ (n + 1) % U16 \in 0..(U16 - 1)
           /\ (n - 1) % U16 \in 0..(U16 - 1)
           /\ n + 1 < U16 => (n + 1) % U16 = n + 1
           /\ n > 0 => (n - 1) % U16 = n - 1
<1> DEFINE up == n + 1
           down == n - 1
<1>0. n \in Int /\ 0 <= n /\ n < U16 /\ U16 \in Int
  BY U16Is
<1>1. up \in Int /\ down \in Int /\ 0 <= up /\ down < U16 /\ (n > 0 => 0 <= down)
  BY <1>0
<1> HIDE DEF up, down
<1>2. up % U16 \in 0..(U16 - 1) /\ down % U16 \in 0..(U16 - 1)
  BY <1>1, U16Range
<1>3. (up < U16 => up % U16 = up) /\ (n > 0 => down % U16 = down)
  BY <1>1, U16Exact
<1> QED  BY <1>2, <1>3 DEF up, down

LEMMA BoundStep ==
    ASSUME NEW u \in 0..MaxUpdates, u < MaxUpdates
    PROVE  u + 1 \in 0..MaxUpdates
BY BoundAssumption

LEMMA TypeInit == Init => TypeInv
<1> SUFFICES ASSUME Init PROVE TypeInv
  OBVIOUS
<1>1. 0 \in Id /\ 0 \in 0..MaxUpdates /\ 0 \in 0..(U16 - 1) /\ 1 \in ThreadId
  BY NAssumption, BoundAssumption, U16Is DEF Id, ThreadId
<1>2. <<>> \in Seq(Announcement) /\ <<>> \in Seq(Withdrawal)
      /\ <<>> \in Seq(Update)
  OBVIOUS
<1>3. TypeOK
  BY <1>1, <1>2 DEF Init, TypeOK, PeerPc, State, Conn, MainPc, Fault
<1>4. MainAt
  BY DEF Init, MainAt
<1> QED  BY <1>3, <1>4 DEF TypeInv

\* A step of a neighbour's thread keeps the types.
LEMMA TypePeer ==
    ASSUME TypeInv, NEW p \in Peer, PeerRun(p)
    PROVE  TypeInv'
<1> USE DEF TypeInv, TypeOK, MainAt, PeerStep, Running, mainVars, workVars,
            queueVars, ribVars, PeerPc, State, Conn, Fault
<1>1. CASE PeerExit(p)
  BY <1>1 DEF PeerExit
<1>2. CASE PeerStart(p)
  BY <1>2 DEF PeerStart
<1>3. CASE ConnectFail(p)
  BY <1>3 DEF ConnectFail, Disconnect
<1>4. CASE ConnectOk(p)
  BY <1>4 DEF ConnectOk
<1>5. CASE SetupFail(p)
  BY <1>5 DEF SetupFail, Disconnect
<1>6. CASE SetupOk(p) \/ SetupCrash(p)
  BY <1>6 DEF SetupOk, SetupCrash
<1>7. CASE EnterRead(p)
  BY <1>7 DEF EnterRead
<1>8. CASE LeaveLoop(p)
  BY <1>8 DEF LeaveLoop
<1>9. CASE AllocFail(p)
  BY <1>9 DEF AllocFail
<1>10. CASE FlushOne(p)
  BY <1>10 DEF FlushOne
<1>11. CASE FlushDone(p)
  BY <1>11 DEF FlushDone
<1>12. CASE SessionDown(p)
  BY <1>12 DEF SessionDown, Disconnect
<1>13. CASE Drain(p)
  BY <1>13 DEF Drain
<1> QED
  BY <1>1, <1>2, <1>3, <1>4, <1>5, <1>6, <1>7, <1>8, <1>9, <1>10, <1>11,
     <1>12, <1>13 DEF PeerRun

\* A message or the end of the connection keeps the types.
LEMMA TypeRemote ==
    ASSUME TypeInv, NEW p \in Peer, Remote(p)
    PROVE  TypeInv'
<1> USE DEF TypeInv, TypeOK, MainAt, Receive, PeerStep, Running, mainVars,
            workVars, queueVars, ribVars, PeerPc, State, Conn, Fault
<1>1. CASE RecvOpen(p)
  <2>1. OpenIds[p] \subseteq Id
    BY DEF Id
  <2> QED  BY <1>1, <2>1 DEF RecvOpen
<1>2. CASE RecvBadOpen(p)
  BY <1>2 DEF RecvBadOpen, Disconnect
<1>3. CASE RecvKeepalive(p)
  BY <1>3 DEF RecvKeepalive
<1>4. CASE RecvOther(p)
  BY <1>4 DEF RecvOther
<1>5. CASE RecvUpdate(p)
  <2>1. in_queue' \in [Peer -> Seq(Update)]
    BY <1>5 DEF RecvUpdate
  <2>0. (in_q[p] + 1) % U16 \in 0..(U16 - 1)
    BY U16Step
  <2>2. in_q' \in [Peer -> 0..(U16 - 1)]
    BY <1>5, <2>0 DEF RecvUpdate
  <2>3. updates' \in 0..MaxUpdates
    BY <1>5, BoundStep DEF RecvUpdate
  <2> QED  BY <1>5, <2>1, <2>2, <2>3 DEF RecvUpdate
<1>6. CASE RecvEof(p)
  BY <1>6 DEF RecvEof
<1> QED
  BY <1>1, <1>2, <1>3, <1>4, <1>5, <1>6 DEF Remote

\* A step of the main thread keeps the types.
LEMMA TypeMain ==
    ASSUME TypeInv, MainRun
    PROVE  TypeInv'
<1> USE DEF TypeInv, TypeOK, MainAt, MainStep, Running, workVars, queueVars,
            MainPc, State, Conn, Fault
<1> USE NAssumption
<1>0. \A c \in Peer : c \in ThreadId /\ c + 1 \in ThreadId
  BY DEF Peer, ThreadId
<1>1. CASE MainTop
  BY <1>1 DEF MainTop, ThreadId
<1>2. CASE MainPeersDone
  BY <1>2 DEF MainPeersDone
<1>3. CASE VisitSkip \/ VisitExpired \/ VisitLive
  BY <1>0, <1>3 DEF VisitSkip, VisitExpired, VisitLive, Visit
<1>4. CASE VisitErased
  BY <1>0, <1>4 DEF VisitErased
<1>5. CASE HoldExpire
  BY <1>5 DEF HoldExpire
<1>6. CASE HoldDisconnect
  BY <1>6 DEF HoldDisconnect
<1>7. CASE HoldClose
  BY <1>0, <1>7 DEF HoldClose
<1>8. CASE QueueEmpty \/ FrontAllocFail
  BY <1>0, <1>8 DEF QueueEmpty, FrontAllocFail
<1>9. CASE QueueMore
  BY <1>9 DEF QueueMore
<1>10. CASE Front
  BY <1>10 DEF Front
<1>11. CASE Pop
  <2>1. cur \in Peer /\ in_queue[cur] \in Seq(Update)
    BY <1>11 DEF Pop
  <2>2. in_queue[cur] # <<>> => Tail(in_queue[cur]) \in Seq(Update)
    BY <2>1, TailType
  <2>3. in_queue' \in [Peer -> Seq(Update)]
    BY <1>11, <2>1, <2>2 DEF Pop
  <2>4. (in_q[cur] - 1) % U16 \in 0..(U16 - 1)
    BY <2>1, U16Step
  <2>5. in_q' \in [Peer -> 0..(U16 - 1)]
    BY <1>11, <2>1, <2>4 DEF Pop
  <2> QED  BY <1>11, <2>3, <2>5 DEF Pop
<1>12. CASE Parse
  <2>1. packet \in Update /\ cur \in Peer /\ bgp_id[cur] \in Id
    BY <1>12 DEF Parse
  <2>2. adj_rib_in_q \o Announcements(packet, bgp_id[cur]) \in Seq(Announcement)
    BY <2>1, PushAnnouncements DEF Announcement
  <2>3. adj_rib_in_wdraw_q \o Withdrawals(packet, bgp_id[cur])
            \in Seq(Withdrawal)
    BY <2>1, PushWithdrawals DEF Withdrawal
  <2> QED  BY <1>12, <2>2, <2>3 DEF Parse
<1>13. CASE PeerEntry
  <2>1. /\ Head(adj_rib_in_q) \in Announcement
        /\ Tail(adj_rib_in_q) \in Seq(Announcement)
    BY <1>13, TailType DEF PeerEntry
  <2>2. adj_rib_in' \in [Key -> Attr \cup {None}]
    BY <1>13, <2>1 DEF PeerEntry, Announcement
  <2> QED  BY <1>13, <2>1, <2>2 DEF PeerEntry
<1>14. CASE RibQueueDone
  BY <1>14 DEF RibQueueDone
<1>15. CASE Withdraw
  <2>1. Tail(adj_rib_in_wdraw_q) \in Seq(Withdrawal)
    BY <1>15, TailType DEF Withdraw
  <2>2. adj_rib_in' \in [Key -> Attr \cup {None}]
    BY <1>15 DEF Withdraw
  <2> QED  BY <1>15, <2>1, <2>2 DEF Withdraw
<1>16. CASE WdrawQueueDone
  BY <1>16 DEF WdrawQueueDone
<1> QED
  BY <1>1, <1>2, <1>3, <1>4, <1>5, <1>6, <1>7, <1>8, <1>9, <1>10, <1>11,
     <1>12, <1>13, <1>14, <1>15, <1>16 DEF MainRun

LEMMA TypeNext == TypeInv /\ [Next]_vars => TypeInv'
<1> SUFFICES ASSUME TypeInv, [Next]_vars PROVE TypeInv'
  OBVIOUS
<1>1. CASE MainRun
  BY <1>1, TypeMain
<1>2. CASE KillAll
  BY <1>2 DEF KillAll, TypeInv, TypeOK, MainAt, peerVars, mainVars, workVars,
              queueVars, ribVars
<1>3. ASSUME NEW p \in Peer, PeerRun(p) PROVE TypeInv'
  BY <1>3, TypePeer
<1>4. ASSUME NEW p \in Peer, Remote(p) PROVE TypeInv'
  BY <1>4, TypeRemote
<1>5. ASSUME NEW p \in Peer, HoldTimePasses(p) PROVE TypeInv'
  BY <1>5 DEF HoldTimePasses, TypeInv, TypeOK, MainAt, mainVars, workVars,
              queueVars, ribVars
<1>6. CASE UNCHANGED vars
  BY <1>6 DEF vars, TypeInv, TypeOK, MainAt, peerVars, mainVars, workVars,
              queueVars, ribVars
<1> QED
  BY <1>1, <1>2, <1>3, <1>4, <1>5, <1>6 DEF Next

LEMMA TypeInvariant == Spec => []TypeInv
BY TypeInit, TypeNext, PTL DEF Spec

\* Every variable keeps its type: in particular in_q stays a uint16_t, every
\* queue holds well-formed items and the main thread never walks past the end
\* of thread_q.
THEOREM TypeCorrect == Spec => []TypeOK
<1>1. TypeInv => TypeOK
  BY DEF TypeInv
<1> QED  BY <1>1, TypeInvariant, PTL

-----------------------------------------------------------------------------
(* Ownership: routes carry the identifier of a neighbour that sent an      *)
(* OPEN.  The identifier is copied by parse_nlri, when the main thread has *)
(* seen the neighbour established, so the invariant follows it from the    *)
(* OPEN through the states and the main thread's place to the queues.      *)

OwnIds == {bgp_id[p] : p \in Peer} \ {0}

OwnInv ==
    /\ \A p \in Peer : bgp_id[p] # 0 => bgp_id[p] \in OpenIds[p]
    /\ \A p \in Peer : state[p] \in {"openconfirm", "established"} => bgp_id[p] # 0
    /\ mpc \in {"more", "front", "pop", "parse"} => bgp_id[cur] # 0
    /\ \A k \in Key : adj_rib_in[k] # None => k[2] \in OwnIds
    /\ adj_rib_in_q \in Seq([prefix : Prefix, id : OwnIds, attr : Attr])
    /\ adj_rib_in_wdraw_q \in Seq([prefix : Prefix, id : OwnIds])

\* Steps of a thread that learn no identifier, queue nothing and establish
\* nothing leave ownership alone.
LEMMA OwnFrame ==
    ASSUME OwnInv, UNCHANGED <<bgp_id, adj_rib_in_q, adj_rib_in_wdraw_q>>,
           \A p \in Peer : state'[p] \in {"openconfirm", "established"} =>
                               state[p] \in {"openconfirm", "established"},
           mpc' \in {"more", "front", "pop", "parse"} => bgp_id[cur'] # 0,
           \A k \in Key : adj_rib_in'[k] # None => adj_rib_in[k] # None
    PROVE  OwnInv'
BY DEF OwnInv, OwnIds

LEMMA OwnInit == Init => OwnInv
<1> SUFFICES ASSUME Init PROVE OwnInv
  OBVIOUS
<1>1. <<>> \in Seq([prefix : Prefix, id : OwnIds, attr : Attr])
      /\ <<>> \in Seq([prefix : Prefix, id : OwnIds])
  OBVIOUS
<1> QED  BY <1>1 DEF Init, OwnInv

LEMMA OwnPeer ==
    ASSUME TypeInv, OwnInv, NEW p \in Peer, PeerRun(p)
    PROVE  OwnInv'
<1>1. UNCHANGED <<bgp_id, adj_rib_in_q, adj_rib_in_wdraw_q, mpc, cur>>
  BY DEF PeerRun, PeerExit, PeerStart, ConnectFail, ConnectOk, SetupFail, SetupCrash,
     SetupOk, EnterRead, LeaveLoop, AllocFail, FlushOne, FlushDone,
     SessionDown, Drain, PeerStep, mainVars, workVars
<1>2. \A q \in Peer : state'[q] \in {"openconfirm", "established"} =>
                          state[q] \in {"openconfirm", "established"}
  BY DEF PeerRun, PeerExit, PeerStart, ConnectFail, ConnectOk, SetupFail, SetupCrash,
     SetupOk, EnterRead, LeaveLoop, AllocFail, FlushOne, FlushDone,
     SessionDown, Drain, TypeInv, TypeOK
<1>3. \A k \in Key : adj_rib_in'[k] # None => adj_rib_in[k] # None
  BY DEF PeerRun, PeerExit, PeerStart, ConnectFail, ConnectOk, SetupFail, SetupCrash,
     SetupOk, EnterRead, LeaveLoop, AllocFail, FlushOne, FlushDone,
     SessionDown, Drain, ribVars, TypeInv, TypeOK
<1>4. mpc' \in {"more", "front", "pop", "parse"} => bgp_id[cur'] # 0
  BY <1>1 DEF OwnInv
<1> QED  BY <1>1, <1>2, <1>3, <1>4, OwnFrame

\* An OPEN only ever adds an identifier: with fixed identifiers the second
\* OPEN of a neighbour repeats the first.
LEMMA OwnOpen ==
    ASSUME FixedIds, TypeInv, OwnInv, NEW p \in Peer, RecvOpen(p)
    PROVE  OwnInv' /\ \E i \in Id : OwnIds' = OwnIds \cup {i}
<1>1. PICK i \in OpenIds[p] : bgp_id' = [bgp_id EXCEPT ![p] = i]
  BY DEF RecvOpen
<1>2. i # 0 /\ i \in Id
  BY IdAssumption DEF Id
<1>3. bgp_id[p] # 0 => bgp_id[p] = i
  BY <1>1 DEF OwnInv, FixedIds
<1>4. OwnIds' = OwnIds \cup {i}
  BY <1>1, <1>2, <1>3 DEF OwnIds, TypeInv, TypeOK
<1>5. UNCHANGED <<adj_rib_in, adj_rib_in_q, adj_rib_in_wdraw_q, mpc, cur>>
  BY DEF RecvOpen, Receive, mainVars, workVars, ribVars
<1>6. adj_rib_in_q' \in Seq([prefix : Prefix, id : OwnIds', attr : Attr])
  <2> DEFINE S == [prefix : Prefix, id : OwnIds, attr : Attr]
             T == [prefix : Prefix, id : OwnIds', attr : Attr]
  <2>1. S \subseteq T
    BY <1>4
  <2>2. adj_rib_in_q \in Seq(S)
    BY DEF OwnInv
  <2> HIDE DEF S, T
  <2>3. adj_rib_in_q \in Seq(T)
    BY <2>1, <2>2, SeqMonotonic
  <2> QED  BY <1>5, <2>3 DEF T
<1>7. adj_rib_in_wdraw_q' \in Seq([prefix : Prefix, id : OwnIds'])
  <2> DEFINE S == [prefix : Prefix, id : OwnIds]
             T == [prefix : Prefix, id : OwnIds']
  <2>1. S \subseteq T
    BY <1>4
  <2>2. adj_rib_in_wdraw_q \in Seq(S)
    BY DEF OwnInv
  <2> HIDE DEF S, T
  <2>3. adj_rib_in_wdraw_q \in Seq(T)
    BY <2>1, <2>2, SeqMonotonic
  <2> QED  BY <1>5, <2>3 DEF T
<1>8. \A q \in Peer : bgp_id'[q] # 0 => bgp_id'[q] \in OpenIds[q]
  BY <1>1 DEF OwnInv, TypeInv, TypeOK
<1>9. \A q \in Peer : state'[q] \in {"openconfirm", "established"} => bgp_id'[q] # 0
  BY <1>1, <1>2 DEF RecvOpen, OwnInv, TypeInv, TypeOK
<1>10. mpc' \in {"more", "front", "pop", "parse"} => bgp_id'[cur'] # 0
  BY <1>1, <1>2, <1>5 DEF OwnInv, TypeInv, TypeOK, MainAt
<1>11. \A k \in Key : adj_rib_in'[k] # None => k[2] \in OwnIds'
  BY <1>4, <1>5 DEF OwnInv
<1> QED
  BY <1>2, <1>4, <1>6, <1>7, <1>8, <1>9, <1>10, <1>11 DEF OwnInv

LEMMA OwnRemote ==
    ASSUME FixedIds, TypeInv, OwnInv, NEW p \in Peer, Remote(p)
    PROVE  OwnInv'
<1>1. CASE RecvOpen(p)
  BY <1>1, OwnOpen
<1>2. CASE ~RecvOpen(p)
  <2>1. UNCHANGED <<bgp_id, adj_rib_in, adj_rib_in_q, adj_rib_in_wdraw_q,
                    mpc, cur>>
    BY <1>2 DEF Remote, RecvBadOpen, RecvKeepalive, RecvOther, RecvUpdate,
       RecvEof, Receive, PeerStep, mainVars, workVars, ribVars
  <2>2. \A q \in Peer : state'[q] \in {"openconfirm", "established"} =>
                            state[q] \in {"openconfirm", "established"}
    BY <1>2 DEF Remote, RecvBadOpen, RecvKeepalive, RecvOther, RecvUpdate,
       RecvEof, TypeInv, TypeOK
  <2>3. mpc' \in {"more", "front", "pop", "parse"} => bgp_id[cur'] # 0
    BY <2>1 DEF OwnInv
  <2> QED  BY <2>1, <2>2, <2>3, OwnFrame
<1> QED  BY <1>1, <1>2

LEMMA OwnMain ==
    ASSUME TypeInv, OwnInv, MainRun
    PROVE  OwnInv'
<1> DEFINE Busy == {"more", "front", "pop", "parse"}
<1>1. CASE Parse
  <2>1. /\ packet \in Update /\ cur \in Peer /\ bgp_id[cur] # 0
        /\ UNCHANGED <<bgp_id, adj_rib_in, state, cur>>
    BY <1>1 DEF Parse, MainStep, Running, TypeInv, MainAt, OwnInv
  <2>2. bgp_id[cur] \in OwnIds /\ OwnIds' = OwnIds
    BY <2>1 DEF OwnIds
  <2>3. adj_rib_in_q' \in Seq([prefix : Prefix, id : OwnIds, attr : Attr])
    <3>1. adj_rib_in_q \o Announcements(packet, bgp_id[cur])
              \in Seq([prefix : Prefix, id : OwnIds, attr : Attr])
      BY <2>1, <2>2, PushAnnouncements DEF OwnInv
    <3> QED  BY <1>1, <3>1 DEF Parse, OwnInv
  <2>4. adj_rib_in_wdraw_q' \in Seq([prefix : Prefix, id : OwnIds])
    <3>1. adj_rib_in_wdraw_q \o Withdrawals(packet, bgp_id[cur])
              \in Seq([prefix : Prefix, id : OwnIds])
      BY <2>1, <2>2, PushWithdrawals DEF OwnInv
    <3> QED  BY <1>1, <3>1 DEF Parse, OwnInv
  <2> QED  BY <2>1, <2>2, <2>3, <2>4 DEF OwnInv
<1>2. CASE PeerEntry
  <2> DEFINE A == [prefix : Prefix, id : OwnIds, attr : Attr]
  <2>1. UNCHANGED <<bgp_id, state, cur, adj_rib_in_wdraw_q>> /\ mpc' = "rib"
    BY <1>2 DEF PeerEntry, MainStep
  <2>2. adj_rib_in_q \in Seq(A) /\ adj_rib_in_q # <<>>
    BY <1>2 DEF PeerEntry, OwnInv
  <2>3. Head(adj_rib_in_q) \in A /\ Tail(adj_rib_in_q) \in Seq(A)
    <3> HIDE DEF A
    <3> QED  BY <2>2, TailType
  <2>4. \A k \in Key : adj_rib_in'[k] # None => k[2] \in OwnIds
    BY <1>2, <2>3 DEF PeerEntry, OwnInv, TypeInv, TypeOK
  <2>5. adj_rib_in_q' \in Seq(A)
    BY <1>2, <2>3 DEF PeerEntry
  <2> QED  BY <2>1, <2>4, <2>5 DEF OwnInv, OwnIds
<1>3. CASE Withdraw
  <2> DEFINE W == [prefix : Prefix, id : OwnIds]
  <2>1. UNCHANGED <<bgp_id, state, cur, adj_rib_in_q>> /\ mpc' = "wdraw"
    BY <1>3 DEF Withdraw, MainStep
  <2>2. adj_rib_in_wdraw_q \in Seq(W) /\ adj_rib_in_wdraw_q # <<>>
    BY <1>3 DEF Withdraw, OwnInv
  <2>3. Tail(adj_rib_in_wdraw_q) \in Seq(W)
    <3> HIDE DEF W
    <3> QED  BY <2>2, TailType
  <2>4. \A k \in Key : adj_rib_in'[k] # None => k[2] \in OwnIds
    BY <1>3 DEF Withdraw, OwnInv, TypeInv, TypeOK
  <2>5. adj_rib_in_wdraw_q' \in Seq(W)
    BY <1>3, <2>3 DEF Withdraw
  <2> QED  BY <2>1, <2>4, <2>5 DEF OwnInv, OwnIds
<1>4. CASE ~Parse /\ ~PeerEntry /\ ~Withdraw
  <2>1. UNCHANGED <<bgp_id, adj_rib_in, adj_rib_in_q, adj_rib_in_wdraw_q>>
    BY <1>4 DEF MainRun, MainTop, MainPeersDone, VisitSkip, VisitExpired,
       VisitLive, Visit, VisitErased, HoldExpire, HoldDisconnect, HoldClose,
       QueueEmpty, QueueMore, Front, FrontAllocFail, Pop, RibQueueDone, WdrawQueueDone,
       MainStep, workVars
  <2>2. \A q \in Peer : state'[q] \in {"openconfirm", "established"} =>
                            state[q] \in {"openconfirm", "established"}
    BY <1>4 DEF MainRun, MainTop, MainPeersDone, VisitSkip, VisitExpired,
       VisitLive, Visit, VisitErased, HoldExpire, HoldDisconnect, HoldClose,
       QueueEmpty, QueueMore, Front, FrontAllocFail, Pop, RibQueueDone, WdrawQueueDone,
       TypeInv, TypeOK
  <2>3. mpc' \in Busy => bgp_id[cur'] # 0
    <3>1. CASE VisitLive
      BY <3>1 DEF VisitLive, Visit, OwnInv, TypeInv, TypeOK
    <3>2. CASE ~VisitLive
      BY <1>4, <3>2 DEF MainRun, MainTop, MainPeersDone, VisitSkip,
         VisitExpired, Visit, VisitErased, HoldExpire, HoldDisconnect,
         HoldClose, QueueEmpty, QueueMore, Front, FrontAllocFail, Pop, RibQueueDone,
         WdrawQueueDone, MainStep, OwnInv
    <3> QED  BY <3>1, <3>2
  <2> QED  BY <2>1, <2>2, <2>3, OwnFrame
<1> QED  BY <1>1, <1>2, <1>3, <1>4

LEMMA OwnNext == FixedIds /\ TypeInv /\ OwnInv /\ [Next]_vars => OwnInv'
<1> SUFFICES ASSUME FixedIds, TypeInv, OwnInv, [Next]_vars PROVE OwnInv'
  OBVIOUS
<1>1. CASE MainRun
  BY <1>1, OwnMain
<1>2. CASE KillAll
  BY <1>2, OwnFrame DEF KillAll, peerVars, mainVars, workVars, ribVars, OwnInv
<1>3. ASSUME NEW p \in Peer, PeerRun(p) PROVE OwnInv'
  BY <1>3, OwnPeer
<1>4. ASSUME NEW p \in Peer, Remote(p) PROVE OwnInv'
  BY <1>4, OwnRemote
<1>5. ASSUME NEW p \in Peer, HoldTimePasses(p) PROVE OwnInv'
  BY <1>5, OwnFrame DEF HoldTimePasses, mainVars, workVars, ribVars, OwnInv
<1>6. CASE UNCHANGED vars
  BY <1>6, OwnFrame DEF vars, peerVars, mainVars, workVars, ribVars, OwnInv
<1> QED
  BY <1>1, <1>2, <1>3, <1>4, <1>5, <1>6 DEF Next

LEMMA OwnInvariant ==
    ASSUME FixedIds
    PROVE  Spec => [](TypeInv /\ OwnInv)
<1>1. Init => OwnInv
  BY OwnInit
<1>2. TypeInv /\ OwnInv /\ [Next]_vars => OwnInv'
  BY OwnNext
<1> QED  BY <1>1, <1>2, TypeInvariant, PTL DEF Spec

LEMMA OwnIdsAreOwners == ASSUME TypeInv, OwnInv PROVE OwnedRoutes
<1>1. \A i \in OwnIds : Owner(i)
  BY DEF OwnIds, Owner
<1>2. \A n \in 1..Len(adj_rib_in_q) : adj_rib_in_q[n].id \in OwnIds
  <2> DEFINE A == [prefix : Prefix, id : OwnIds, attr : Attr]
  <2>1. adj_rib_in_q \in Seq(A)
    BY DEF OwnInv
  <2>2. \A n \in 1..Len(adj_rib_in_q) : adj_rib_in_q[n] \in A
    <3> HIDE DEF A
    <3> QED  BY <2>1, ElementOfSeq
  <2> QED  BY <2>2
<1>3. \A n \in 1..Len(adj_rib_in_wdraw_q) : adj_rib_in_wdraw_q[n].id \in OwnIds
  <2> DEFINE W == [prefix : Prefix, id : OwnIds]
  <2>1. adj_rib_in_wdraw_q \in Seq(W)
    BY DEF OwnInv
  <2>2. \A n \in 1..Len(adj_rib_in_wdraw_q) : adj_rib_in_wdraw_q[n] \in W
    <3> HIDE DEF W
    <3> QED  BY <2>1, ElementOfSeq
  <2> QED  BY <2>2
<1>4. \A k \in Key : adj_rib_in[k] # None => Owner(k[2])
  BY <1>1 DEF OwnInv
<1> QED  BY <1>1, <1>2, <1>3, <1>4 DEF OwnedRoutes

\* Neighbours that keep their identifiers own every route in the RIB and every
\* item on its way there, for any number of neighbours, sessions and threads.
THEOREM RoutesAreOwned == FixedIds => (Spec => []OwnedRoutes)
<1> SUFFICES ASSUME FixedIds PROVE Spec => []OwnedRoutes
  OBVIOUS
<1>1. TypeInv /\ OwnInv => OwnedRoutes
  BY OwnIdsAreOwners
<1> QED  BY <1>1, OwnInvariant, PTL

-----------------------------------------------------------------------------
(* The depth of the input queues.  in_q is never reset, so it is also      *)
(* bounded by the number of UPDATEs read, which keeps it from wrapping.    *)

QueueInv ==
    \A p \in Peer : Len(in_queue[p]) <= in_q[p] /\ in_q[p] <= updates

\* The bound on UPDATEs keeps the counters below 2^16.
LEMMA BoundedCount ==
    ASSUME NEW n \in 0..MaxUpdates
    PROVE  n \in Nat /\ (n < MaxUpdates => n + 1 < U16)
BY BoundAssumption DEF U16

LEMMA U16Below ==
    ASSUME NEW m \in 0..(U16 - 1), NEW n \in Nat, m <= n, n + 1 < U16
    PROVE  m + 1 < U16
BY U16Is

\* Steps that leave the queues and the counts alone.
LEMMA QueueFrame ==
    ASSUME QueueInv, UNCHANGED <<in_q, updates>>,
           \A p \in Peer : in_queue'[p] = in_queue[p]
    PROVE  QueueInv'
BY DEF QueueInv

LEMMA QueueInit == Init => QueueInv
<1> SUFFICES ASSUME Init, NEW p \in Peer
             PROVE  Len(in_queue[p]) <= in_q[p] /\ in_q[p] <= updates
  BY DEF QueueInv
<1>1. in_queue[p] = <<>> /\ in_q[p] = 0 /\ updates = 0
  BY DEF Init
<1> QED  BY <1>1

LEMMA QueuePeer ==
    ASSUME TypeInv, QueueInv, NEW p \in Peer, PeerRun(p)
    PROVE  QueueInv'
<1>1. UNCHANGED <<in_q, updates>>
  BY DEF PeerRun, PeerExit, PeerStart, ConnectFail, ConnectOk, SetupFail, SetupCrash,
     SetupOk, EnterRead, LeaveLoop, AllocFail, FlushOne, FlushDone,
     SessionDown, Drain, PeerStep, queueVars
<1>2. CASE Drain(p)
  <2>1. in_queue' = [in_queue EXCEPT ![p] = <<>>]
    BY <1>2 DEF Drain
  <2>2. ASSUME NEW q \in Peer
        PROVE  Len(in_queue'[q]) <= in_q[q] /\ in_q[q] <= updates
    <3>1. CASE q = p
      <4>1. in_queue'[q] = <<>>
        BY <2>1, <3>1 DEF TypeInv, TypeOK
      <4>2. Len(<<>>) = 0 /\ in_q[q] \in Nat
        BY DEF TypeInv, TypeOK
      <4> QED  BY <4>1, <4>2 DEF QueueInv
    <3>2. CASE q # p
      <4>1. in_queue'[q] = in_queue[q]
        BY <2>1, <3>2 DEF TypeInv, TypeOK
      <4> QED  BY <4>1 DEF QueueInv
    <3> QED  BY <3>1, <3>2
  <2> QED  BY <1>1, <2>2 DEF QueueInv
<1>3. CASE ~Drain(p)
  <2>1. UNCHANGED in_queue
    BY <1>3 DEF PeerRun, PeerExit, PeerStart, ConnectFail, ConnectOk, SetupFail, SetupCrash,
       SetupOk, EnterRead, LeaveLoop, AllocFail, FlushOne, FlushDone,
       SessionDown, queueVars
  <2> QED  BY <1>1, <2>1, QueueFrame
<1> QED  BY <1>2, <1>3

LEMMA QueueRemote ==
    ASSUME TypeInv, QueueInv, NEW p \in Peer, Remote(p)
    PROVE  QueueInv'
<1>1. CASE RecvUpdate(p)
  <2>1. PICK u \in Update : in_queue' = [in_queue EXCEPT ![p] = Append(@, u)]
    BY <1>1 DEF RecvUpdate
  <2>2. /\ updates \in Nat /\ updates + 1 < U16 /\ updates' = updates + 1
        /\ in_q[p] \in 0..(U16 - 1) /\ in_q[p] <= updates
        /\ Len(in_queue[p]) <= in_q[p] /\ in_queue[p] \in Seq(Update)
    <3>1. /\ updates < MaxUpdates /\ updates' = updates + 1
          /\ updates \in 0..MaxUpdates /\ in_q[p] \in 0..(U16 - 1)
          /\ in_queue[p] \in Seq(Update)
      BY <1>1 DEF RecvUpdate, TypeInv, TypeOK
    <3>2. Len(in_queue[p]) <= in_q[p] /\ in_q[p] <= updates
      BY DEF QueueInv
    <3>3. updates \in Nat /\ updates + 1 < U16
      BY <3>1, BoundedCount
    <3> QED  BY <3>1, <3>2, <3>3
  <2>3. in_q' = [in_q EXCEPT ![p] = (in_q[p] + 1) % U16]
    BY <1>1 DEF RecvUpdate
  <2>4. (in_q[p] + 1) % U16 = in_q[p] + 1
    <3>1. in_q[p] + 1 < U16
      BY <2>2, U16Below
    <3> QED  BY <2>2, <3>1, U16Step
  <2>5. ASSUME NEW q \in Peer
        PROVE  Len(in_queue'[q]) <= in_q'[q] /\ in_q'[q] <= updates'
    <3>1. CASE q = p
      <4>1. in_queue'[q] = Append(in_queue[p], u) /\ in_q'[q] = in_q[p] + 1
        BY <2>1, <2>3, <2>4, <3>1 DEF TypeInv, TypeOK
      <4>2. Len(Append(in_queue[p], u)) = Len(in_queue[p]) + 1
            /\ Len(in_queue[p]) \in Nat
        BY <2>2, AppendProperties
      <4> QED  BY <2>2, <4>1, <4>2
    <3>2. CASE q # p
      <4>1. in_queue'[q] = in_queue[q] /\ in_q'[q] = in_q[q]
        BY <2>1, <2>3, <3>2 DEF TypeInv, TypeOK
      <4>2. in_q[q] \in Nat /\ in_q[q] <= updates /\ Len(in_queue[q]) <= in_q[q]
        BY DEF QueueInv, TypeInv, TypeOK
      <4> QED  BY <2>2, <4>1, <4>2
    <3> QED  BY <3>1, <3>2
  <2> QED  BY <2>5 DEF QueueInv
<1>2. CASE ~RecvUpdate(p)
  BY <1>2, QueueFrame DEF Remote, RecvOpen, RecvBadOpen, RecvKeepalive,
     RecvOther, RecvEof, PeerStep, queueVars
<1> QED  BY <1>1, <1>2

LEMMA QueueMain ==
    ASSUME TypeInv, QueueInv, MainRun
    PROVE  QueueInv'
<1>1. CASE Pop /\ in_queue[cur] # <<>>
  <2>1. /\ cur \in Peer /\ in_queue[cur] \in Seq(Update)
        /\ in_q[cur] \in 0..(U16 - 1) /\ Len(in_queue[cur]) <= in_q[cur]
        /\ in_q[cur] <= updates /\ updates \in Nat /\ updates' = updates
    <3>1. /\ cur \in Peer /\ updates' = updates /\ updates \in 0..MaxUpdates
          /\ in_queue[cur] \in Seq(Update) /\ in_q[cur] \in 0..(U16 - 1)
      BY <1>1 DEF Pop, MainStep, TypeInv, TypeOK, MainAt
    <3>2. Len(in_queue[cur]) <= in_q[cur] /\ in_q[cur] <= updates
      BY <3>1 DEF QueueInv
    <3>3. updates \in Nat
      BY <3>1, BoundedCount
    <3> QED  BY <3>1, <3>2, <3>3
  <2>2. Len(in_queue[cur]) \in Nat \ {0}
        /\ Len(Tail(in_queue[cur])) = Len(in_queue[cur]) - 1
    BY <1>1, <2>1, TailType
  <2>3. (in_q[cur] - 1) % U16 = in_q[cur] - 1
    <3>1. in_q[cur] > 0
      BY <2>1, <2>2
    <3> QED  BY <2>1, <3>1, U16Step
  <2>4. /\ in_queue' = [in_queue EXCEPT ![cur] = Tail(in_queue[cur])]
        /\ in_q' = [in_q EXCEPT ![cur] = (in_q[cur] - 1) % U16]
    BY <1>1 DEF Pop
  <2>5. ASSUME NEW q \in Peer
        PROVE  Len(in_queue'[q]) <= in_q'[q] /\ in_q'[q] <= updates'
    <3>1. CASE q = cur
      <4>1. in_queue'[q] = Tail(in_queue[cur]) /\ in_q'[q] = in_q[cur] - 1
        BY <2>3, <2>4, <3>1 DEF TypeInv, TypeOK
      <4> QED  BY <2>1, <2>2, <4>1
    <3>2. CASE q # cur
      <4>1. in_queue'[q] = in_queue[q] /\ in_q'[q] = in_q[q]
        BY <2>4, <3>2 DEF TypeInv, TypeOK
      <4> QED  BY <2>1, <4>1 DEF QueueInv
    <3> QED  BY <3>1, <3>2
  <2> QED  BY <2>5 DEF QueueInv
<1>2. CASE ~(Pop /\ in_queue[cur] # <<>>)
  <2>1. UNCHANGED <<in_queue, in_q, updates>>
    BY <1>2 DEF MainRun, MainTop, MainPeersDone, VisitSkip, VisitExpired,
       VisitLive, Visit, VisitErased, HoldExpire, HoldDisconnect, HoldClose,
       QueueEmpty, QueueMore, Front, FrontAllocFail, Pop, Parse, PeerEntry, RibQueueDone,
       Withdraw, WdrawQueueDone, MainStep, queueVars
  <2> QED  BY <2>1, QueueFrame
<1> QED  BY <1>1, <1>2

LEMMA QueueNext == TypeInv /\ QueueInv /\ [Next]_vars => QueueInv'
<1> SUFFICES ASSUME TypeInv, QueueInv, [Next]_vars PROVE QueueInv'
  OBVIOUS
<1>1. CASE MainRun
  BY <1>1, QueueMain
<1>2. CASE KillAll
  BY <1>2, QueueFrame DEF KillAll, peerVars, queueVars
<1>3. ASSUME NEW p \in Peer, PeerRun(p) PROVE QueueInv'
  BY <1>3, QueuePeer
<1>4. ASSUME NEW p \in Peer, Remote(p) PROVE QueueInv'
  BY <1>4, QueueRemote
<1>5. ASSUME NEW p \in Peer, HoldTimePasses(p) PROVE QueueInv'
  BY <1>5, QueueFrame DEF HoldTimePasses, queueVars
<1>6. CASE UNCHANGED vars
  BY <1>6, QueueFrame DEF vars, peerVars, queueVars
<1> QED
  BY <1>1, <1>2, <1>3, <1>4, <1>5, <1>6 DEF Next

\* in_q is never below the real depth of the queue and never wraps while fewer
\* than 65536 UPDATEs have been read, however pops race with drains.
THEOREM DepthIsCovered == Spec => []InQCoversQueue
<1>1. QueueInv => InQCoversQueue
  BY DEF QueueInv, InQCoversQueue
<1> QED  BY <1>1, QueueInit, QueueNext, TypeInvariant, PTL DEF Spec

-----------------------------------------------------------------------------
(* Sessions start with an empty queue.                                     *)

FreshInv ==
    \A p \in Peer : pc[p] \in {"start", "connect", "setup"} => in_queue[p] = <<>>

LEMMA FreshPeer ==
    ASSUME "alloc" \notin Rare, TypeInv, FreshInv, NEW p \in Peer, PeerRun(p)
    PROVE  FreshInv'
<1>1. CASE Drain(p)
  BY <1>1 DEF Drain, PeerStep, FreshInv, TypeInv, TypeOK
<1>2. CASE ~Drain(p)
  <2>1. UNCHANGED in_queue
    BY <1>2 DEF PeerRun, PeerExit, PeerStart, ConnectFail, ConnectOk, SetupFail, SetupCrash,
       SetupOk, EnterRead, LeaveLoop, AllocFail, FlushOne, FlushDone,
       SessionDown, queueVars
  <2>2. \A q \in Peer : pc'[q] \in {"start", "connect", "setup"} =>
                            pc[q] \in {"start", "connect", "setup"}
    BY <1>2 DEF PeerRun, PeerExit, PeerStart, ConnectFail, ConnectOk, SetupFail, SetupCrash,
       SetupOk, EnterRead, LeaveLoop, AllocFail, FlushOne, FlushDone,
       SessionDown, PeerStep, TypeInv, TypeOK
  <2> QED  BY <2>1, <2>2 DEF FreshInv
<1> QED  BY <1>1, <1>2

LEMMA FreshRemote ==
    ASSUME TypeInv, FreshInv, NEW p \in Peer, Remote(p)
    PROVE  FreshInv'
<1>1. /\ pc'[p] = "loop"
      /\ \A q \in Peer \ {p} : pc'[q] = pc[q] /\ in_queue'[q] = in_queue[q]
  BY DEF Remote, RecvOpen, RecvBadOpen, RecvKeepalive, RecvOther, RecvUpdate,
     RecvEof, Receive, PeerStep, queueVars, TypeInv, TypeOK
<1> QED  BY <1>1 DEF FreshInv

LEMMA FreshMain ==
    ASSUME TypeInv, FreshInv, MainRun
    PROVE  FreshInv'
<1>1. UNCHANGED pc
  BY DEF MainRun, MainTop, MainPeersDone, VisitSkip, VisitExpired,
     VisitLive, Visit, VisitErased, HoldExpire, HoldDisconnect, HoldClose,
     QueueEmpty, QueueMore, Front, FrontAllocFail, Pop, Parse, PeerEntry, RibQueueDone,
     Withdraw, WdrawQueueDone, MainStep
<1>2. \A q \in Peer : in_queue[q] = <<>> => in_queue'[q] = <<>>
  <2>1. CASE Pop
    BY <2>1 DEF Pop, queueVars, TypeInv, TypeOK
  <2>2. CASE ~Pop
    BY <2>2 DEF MainRun, MainTop, MainPeersDone, VisitSkip, VisitExpired,
       VisitLive, Visit, VisitErased, HoldExpire, HoldDisconnect, HoldClose,
       QueueEmpty, QueueMore, Front, FrontAllocFail, Parse, PeerEntry, RibQueueDone,
       Withdraw, WdrawQueueDone, queueVars
  <2> QED  BY <2>1, <2>2
<1> QED  BY <1>1, <1>2 DEF FreshInv

LEMMA FreshNext ==
    "alloc" \notin Rare /\ TypeInv /\ FreshInv /\ [Next]_vars => FreshInv'
<1> SUFFICES ASSUME "alloc" \notin Rare, TypeInv, FreshInv, [Next]_vars
             PROVE  FreshInv'
  OBVIOUS
<1>1. CASE MainRun
  BY <1>1, FreshMain
<1>2. CASE KillAll
  BY <1>2 DEF KillAll, FreshInv, peerVars, queueVars
<1>3. ASSUME NEW p \in Peer, PeerRun(p) PROVE FreshInv'
  BY <1>3, FreshPeer
<1>4. ASSUME NEW p \in Peer, Remote(p) PROVE FreshInv'
  BY <1>4, FreshRemote
<1>5. ASSUME NEW p \in Peer, HoldTimePasses(p) PROVE FreshInv'
  BY <1>5 DEF HoldTimePasses, FreshInv, queueVars
<1>6. CASE UNCHANGED vars
  BY <1>6 DEF vars, FreshInv, peerVars, queueVars
<1> QED
  BY <1>1, <1>2, <1>3, <1>4, <1>5, <1>6 DEF Next

\* A thread that connects finds its input queue empty: the drain at the end of
\* the last session is not undone by the main thread's pops.
THEOREM SessionsStartEmpty == Spec => []SessionStartsEmpty
<1>1. CASE "alloc" \in Rare
  <2>1. SessionStartsEmpty
    BY <1>1 DEF SessionStartsEmpty
  <2> QED  BY <2>1, PTL
<1>2. CASE "alloc" \notin Rare
  <2>1. Init => FreshInv
    BY DEF Init, FreshInv
  <2>2. TypeInv /\ FreshInv /\ [Next]_vars => FreshInv'
    BY <1>2, FreshNext
  <2>3. FreshInv => SessionStartsEmpty
    BY DEF FreshInv, SessionStartsEmpty
  <2> QED  BY <2>1, <2>2, <2>3, TypeInvariant, PTL DEF Spec
<1> QED  BY <1>1, <1>2

-----------------------------------------------------------------------------
(* Which step may take a route away.                                       *)

\* A step that is neither a flush, an announcement nor a withdrawal leaves the
\* RIB alone.
LEMMA RibChange ==
    ASSUME [Next]_vars, ~PeerEntry, ~Withdraw,
           \A p \in Peer : ~FlushOne(p)
    PROVE  UNCHANGED adj_rib_in
<1>1. CASE MainRun
  BY <1>1 DEF MainRun, MainTop, MainPeersDone, VisitSkip, VisitExpired,
     VisitLive, Visit, VisitErased, HoldExpire, HoldDisconnect, HoldClose,
     QueueEmpty, QueueMore, Front, FrontAllocFail, Pop, Parse, RibQueueDone, WdrawQueueDone
<1>2. CASE KillAll
  BY <1>2 DEF KillAll, ribVars
<1>3. ASSUME NEW p \in Peer, PeerRun(p) PROVE UNCHANGED adj_rib_in
  BY <1>3 DEF PeerRun, PeerExit, PeerStart, ConnectFail, ConnectOk, SetupFail, SetupCrash,
     SetupOk, EnterRead, LeaveLoop, AllocFail, FlushDone, SessionDown, Drain,
     ribVars
<1>4. ASSUME NEW p \in Peer, Remote(p) PROVE UNCHANGED adj_rib_in
  BY <1>4 DEF Remote, RecvOpen, RecvBadOpen, RecvKeepalive, RecvOther,
     RecvUpdate, RecvEof, Receive, PeerStep, ribVars
<1>5. ASSUME NEW p \in Peer, HoldTimePasses(p) PROVE UNCHANGED adj_rib_in
  BY <1>5 DEF HoldTimePasses, ribVars
<1>6. CASE UNCHANGED vars
  BY <1>6 DEF vars, ribVars
<1> QED
  BY <1>1, <1>2, <1>3, <1>4, <1>5, <1>6 DEF Next

\* What Withdraw does to the RIB, and to which key.
LEMMA WithdrawRib ==
    ASSUME TypeInv, Withdraw
    PROVE  /\ Head(adj_rib_in_wdraw_q) \in Withdrawal
           /\ \/ UNCHANGED adj_rib_in
              \/ adj_rib_in' = [adj_rib_in EXCEPT
                    ![<<Head(adj_rib_in_wdraw_q).prefix,
                        Head(adj_rib_in_wdraw_q).id>>] = None]
<1>1. adj_rib_in_wdraw_q \in Seq(Withdrawal) /\ adj_rib_in_wdraw_q # <<>>
  BY DEF Withdraw, TypeInv, TypeOK
<1>2. Head(adj_rib_in_wdraw_q) \in Withdrawal
  BY <1>1, TailType
<1> QED  BY <1>2 DEF Withdraw

LEMMA PeerEntryRib ==
    ASSUME TypeInv, PeerEntry
    PROVE  /\ Head(adj_rib_in_q) \in Announcement
           /\ \/ UNCHANGED adj_rib_in
              \/ adj_rib_in' = [adj_rib_in EXCEPT
                    ![<<Head(adj_rib_in_q).prefix, Head(adj_rib_in_q).id>>]
                        = Head(adj_rib_in_q).attr]
<1>1. adj_rib_in_q \in Seq(Announcement) /\ adj_rib_in_q # <<>>
  BY DEF PeerEntry, TypeInv, TypeOK
<1>2. Head(adj_rib_in_q) \in Announcement
  BY <1>1, TailType
<1> QED  BY <1>2 DEF PeerEntry

RemovalIsOwned(k) ==
    \/ \E p \in Peer : pc[p] = "flush" /\ bgp_id[p] = k[2]
    \/ /\ mpc = "wdraw"
       /\ Head(adj_rib_in_wdraw_q) = [prefix |-> k[1], id |-> k[2]]

LEMMA RemovalNext ==
    ASSUME TypeInv, [Next]_vars, NEW k \in Key,
           adj_rib_in[k] # None, adj_rib_in'[k] = None
    PROVE  RemovalIsOwned(k)
<1>1. CASE \E p \in Peer : FlushOne(p)
  <2>1. PICK p \in Peer : FlushOne(p)
    BY <1>1
  <2>2. PICK j \in Key : /\ j[2] = bgp_id[p] /\ pc[p] = "flush"
                         /\ adj_rib_in' = [adj_rib_in EXCEPT ![j] = None]
    BY <2>1 DEF FlushOne, PeerStep
  <2>3. j = k
    BY <2>2 DEF TypeInv, TypeOK
  <2> QED  BY <2>2, <2>3 DEF RemovalIsOwned
<1>2. CASE PeerEntry
  <2> DEFINE u == Head(adj_rib_in_q)
  <2>1. u.attr # None
    BY <1>2, PeerEntryRib, RouteAssumption DEF Announcement
  <2>2. FALSE
    BY <1>2, <2>1, PeerEntryRib DEF TypeInv, TypeOK
  <2> QED  BY <2>2
<1>3. CASE Withdraw
  <2> DEFINE u == Head(adj_rib_in_wdraw_q)
  <2>1. u \in Withdrawal
    BY <1>3, WithdrawRib
  <2>2. <<u.prefix, u.id>> = k
    BY <1>3, WithdrawRib DEF TypeInv, TypeOK
  <2>3. u = [prefix |-> k[1], id |-> k[2]]
    BY <2>1, <2>2 DEF Withdrawal
  <2> QED  BY <1>3, <2>3 DEF RemovalIsOwned, Withdraw, MainStep
<1>4. CASE ~PeerEntry /\ ~Withdraw /\ \A p \in Peer : ~FlushOne(p)
  BY <1>4, RibChange
<1> QED  BY <1>1, <1>2, <1>3, <1>4

\* No step takes a route away but a withdrawal for exactly that key or the
\* flush of the neighbour the route is from.
THEOREM RemovalsAreOwned == Spec => RouteRemovalIsOwned
<1>1. TypeInv /\ [Next]_vars =>
        [\A k \in Key : adj_rib_in[k] # None /\ adj_rib_in'[k] = None =>
           \/ \E p \in Peer : pc[p] = "flush" /\ bgp_id[p] = k[2]
           \/ /\ mpc = "wdraw"
              /\ Head(adj_rib_in_wdraw_q) = [prefix |-> k[1], id |-> k[2]]]_vars
  BY RemovalNext DEF RemovalIsOwned
<1> QED  BY <1>1, TypeInvariant, PTL DEF Spec, RouteRemovalIsOwned

-----------------------------------------------------------------------------
(* Refinement.  The owners of the table are the identifiers of OwnIds: an  *)
(* OPEN is Learn, peer_entry is Put, withdraw and flush_peer are Remove.   *)

LEMMA TableInit == Init => Table!Init
<1> SUFFICES ASSUME Init PROVE Table!Init
  OBVIOUS
<1>1. OwnIds = {}
  BY DEF Init, OwnIds
<1> QED  BY <1>1 DEF Init, Table!Init, OwnIds, Key

\* Only an OPEN changes the set of identifiers.
LEMMA OwnersChange ==
    ASSUME [Next]_vars, \A p \in Peer : ~RecvOpen(p)
    PROVE  OwnIds' = OwnIds
<1>0. SUFFICES UNCHANGED bgp_id
  BY DEF OwnIds
<1>1. CASE MainRun
  BY <1>1 DEF MainRun, MainTop, MainPeersDone, VisitSkip, VisitExpired,
     VisitLive, Visit, VisitErased, HoldExpire, HoldDisconnect, HoldClose,
     QueueEmpty, QueueMore, Front, FrontAllocFail, Pop, Parse, PeerEntry, RibQueueDone,
     Withdraw, WdrawQueueDone, MainStep
<1>2. CASE KillAll
  BY <1>2 DEF KillAll, peerVars
<1>3. ASSUME NEW p \in Peer, PeerRun(p) PROVE UNCHANGED bgp_id
  BY <1>3 DEF PeerRun, PeerExit, PeerStart, ConnectFail, ConnectOk, SetupFail, SetupCrash,
     SetupOk, EnterRead, LeaveLoop, AllocFail, FlushOne, FlushDone,
     SessionDown, Drain
<1>4. ASSUME NEW p \in Peer, Remote(p) PROVE UNCHANGED bgp_id
  BY <1>4 DEF Remote, RecvBadOpen, RecvKeepalive, RecvOther, RecvUpdate, RecvEof
<1>5. ASSUME NEW p \in Peer, HoldTimePasses(p) PROVE UNCHANGED bgp_id
  BY <1>5 DEF HoldTimePasses
<1>6. CASE UNCHANGED vars
  BY <1>6 DEF vars, peerVars
<1> QED
  BY <1>1, <1>2, <1>3, <1>4, <1>5, <1>6 DEF Next

LEMMA TableNext ==
    FixedIds /\ TypeInv /\ OwnInv /\ [Next]_vars
        => [Table!Next]_<<adj_rib_in, {bgp_id[p] : p \in Peer} \ {0}>>
<1> SUFFICES ASSUME FixedIds, TypeInv, OwnInv, [Next]_vars
             PROVE  Table!Next \/ UNCHANGED <<adj_rib_in, OwnIds>>
  BY DEF OwnIds
<1>1. CASE \E p \in Peer : RecvOpen(p)
  <2>1. PICK p \in Peer : RecvOpen(p)
    BY <1>1
  <2>2. \E i \in Id : OwnIds' = OwnIds \cup {i}
    BY <2>1, OwnOpen
  <2>3. UNCHANGED adj_rib_in
    BY <2>1 DEF RecvOpen, Receive, ribVars
  <2>4. Table!Learn
    BY <2>2, <2>3 DEF Table!Learn, OwnIds
  <2> QED  BY <2>4 DEF Table!Next
<1>2. CASE PeerEntry
  <2> DEFINE u == Head(adj_rib_in_q)
             A == [prefix : Prefix, id : OwnIds, attr : Attr]
  <2>1. adj_rib_in_q \in Seq(A) /\ adj_rib_in_q # <<>>
    BY <1>2 DEF PeerEntry, OwnInv
  <2>2. u \in A
    <3> HIDE DEF A
    <3> QED  BY <2>1, TailType
  <2>3. OwnIds' = OwnIds
    BY <1>2 DEF PeerEntry, MainStep, OwnIds
  <2>4. CASE adj_rib_in' = [adj_rib_in EXCEPT ![<<u.prefix, u.id>>] = u.attr]
    <3>1. Table!Put
      BY <2>2, <2>3, <2>4 DEF Table!Put, OwnIds
    <3> QED  BY <3>1 DEF Table!Next
  <2> QED  BY <1>2, <2>3, <2>4, PeerEntryRib
<1>3. CASE Withdraw
  <2> DEFINE u == Head(adj_rib_in_wdraw_q)
  <2>1. u.prefix \in Prefix /\ u.id \in Id
    BY <1>3, WithdrawRib DEF Withdrawal
  <2>2. OwnIds' = OwnIds
    BY <1>3 DEF Withdraw, MainStep, OwnIds
  <2>3. CASE adj_rib_in' = [adj_rib_in EXCEPT ![<<u.prefix, u.id>>] = None]
    <3>1. Table!Remove
      BY <2>1, <2>2, <2>3 DEF Table!Remove, OwnIds
    <3> QED  BY <3>1 DEF Table!Next
  <2> QED  BY <1>3, <2>2, <2>3, WithdrawRib
<1>4. CASE \E p \in Peer : FlushOne(p)
  <2>1. PICK p \in Peer : FlushOne(p)
    BY <1>4
  <2>2. OwnIds' = OwnIds
    BY <2>1 DEF FlushOne, OwnIds
  <2>3. Table!Remove
    BY <2>1, <2>2 DEF FlushOne, Table!Remove, OwnIds, Key
  <2> QED  BY <2>3 DEF Table!Next
<1>5. CASE /\ ~PeerEntry /\ ~Withdraw
           /\ \A p \in Peer : ~RecvOpen(p) /\ ~FlushOne(p)
  BY <1>5, RibChange, OwnersChange
<1> QED  BY <1>1, <1>2, <1>3, <1>4, <1>5

\* The threads' shared RIB, with its queues and races, behaves as the table of
\* AdjRibIn as long as every neighbour keeps its identifier.
THEOREM RibRefinement == FixedIds => (Spec => ImplementsAdjRibIn)
<1> SUFFICES ASSUME FixedIds PROVE Spec => ImplementsAdjRibIn
  OBVIOUS
<1>1. TypeInv /\ OwnInv /\ [Next]_vars
        => [Table!Next]_<<adj_rib_in, {bgp_id[p] : p \in Peer} \ {0}>>
  BY TableNext
<1> QED
  BY <1>1, TableInit, OwnInvariant, PTL
     DEF Spec, ImplementsAdjRibIn, Table!Spec

-----------------------------------------------------------------------------
(* withdraw() and the null pointer.                                        *)

\* Only a thread that has seen the stop flag erases neighbours.
AliveInv ==
    /\ ~stop => thread_q = Peer
    /\ fault = "null_peer" => stop

LEMMA AliveMain ==
    ASSUME TypeInv, OwnInv, AliveInv, MainRun
    PROVE  AliveInv'
<1>1. UNCHANGED <<stop, thread_q>>
  BY DEF MainRun, MainTop, MainPeersDone, VisitSkip, VisitExpired,
     VisitLive, Visit, VisitErased, HoldExpire, HoldDisconnect, HoldClose,
     QueueEmpty, QueueMore, Front, FrontAllocFail, Pop, Parse, PeerEntry, RibQueueDone,
     Withdraw, WdrawQueueDone, MainStep
<1>2. CASE Withdraw
  <2> DEFINE u == Head(adj_rib_in_wdraw_q)
             W == [prefix : Prefix, id : OwnIds]
  <2>1. adj_rib_in_wdraw_q \in Seq(W) /\ adj_rib_in_wdraw_q # <<>>
    BY <1>2 DEF Withdraw, OwnInv
  <2>2. u \in W
    <3> HIDE DEF W
    <3> QED  BY <2>1, TailType
  <2>3. ~stop => PeerKnown(u.id)
    BY <2>2 DEF AliveInv, PeerKnown, OwnIds
  <2> QED  BY <1>1, <1>2, <2>3 DEF Withdraw, AliveInv
<1>3. CASE ~Withdraw
  <2>1. fault' = fault \/ fault' \in {"dangling", "empty_queue", "closed_stream"}
    BY <1>3 DEF MainRun, MainTop, MainPeersDone, VisitSkip, VisitExpired,
       VisitLive, Visit, VisitErased, HoldExpire, HoldDisconnect, HoldClose,
       QueueEmpty, QueueMore, Front, FrontAllocFail, Pop, Parse, PeerEntry, RibQueueDone,
       WdrawQueueDone
  <2> QED  BY <1>1, <2>1 DEF AliveInv
<1> QED  BY <1>2, <1>3

LEMMA AliveThread ==
    ASSUME AliveInv, NEW p \in Peer, PeerRun(p) \/ Remote(p)
    PROVE  AliveInv'
<1>1. UNCHANGED stop /\ (~stop => UNCHANGED thread_q)
  BY DEF PeerRun, PeerExit, PeerStart, ConnectFail, ConnectOk, SetupFail, SetupCrash,
     SetupOk, EnterRead, LeaveLoop, AllocFail, FlushOne, FlushDone,
     SessionDown, Drain, Remote, RecvOpen, RecvBadOpen, RecvKeepalive,
     RecvOther, RecvUpdate, RecvEof, Receive, PeerStep, ribVars
<1>2. fault' = fault \/ fault' \in {"dangling", "double_close", "closed_stream", "none"}
  BY DEF PeerRun, PeerExit, PeerStart, ConnectFail, ConnectOk, SetupFail, SetupCrash,
     SetupOk, EnterRead, LeaveLoop, AllocFail, FlushOne, FlushDone,
     SessionDown, Drain, Remote, RecvOpen, RecvBadOpen, RecvKeepalive,
     RecvOther, RecvUpdate, RecvEof, Disconnect
<1> QED  BY <1>1, <1>2 DEF AliveInv

LEMMA AliveNext ==
    TypeInv /\ OwnInv /\ AliveInv /\ [Next]_vars => AliveInv'
<1> SUFFICES ASSUME TypeInv, OwnInv, AliveInv, [Next]_vars PROVE AliveInv'
  OBVIOUS
<1>1. CASE MainRun
  BY <1>1, AliveMain
<1>2. CASE KillAll
  BY <1>2 DEF KillAll, AliveInv
<1>3. ASSUME NEW p \in Peer, PeerRun(p) \/ Remote(p) PROVE AliveInv'
  BY <1>3, AliveThread
<1>4. ASSUME NEW p \in Peer, HoldTimePasses(p) PROVE AliveInv'
  BY <1>4 DEF HoldTimePasses, AliveInv, ribVars
<1>5. CASE UNCHANGED vars
  BY <1>5 DEF vars, AliveInv, ribVars
<1> QED
  BY <1>1, <1>2, <1>3, <1>4, <1>5 DEF Next

\* With fixed identifiers the pointer withdraw() does not test is never null
\* before the daemon is stopped.
THEOREM WithdrawIsSafe == FixedIds => (Spec => []WithdrawFindsPeer)
<1> SUFFICES ASSUME FixedIds PROVE Spec => []WithdrawFindsPeer
  OBVIOUS
<1>1. Init => AliveInv
  BY DEF Init, AliveInv
<1>2. AliveInv => WithdrawFindsPeer
  BY DEF AliveInv, WithdrawFindsPeer
<1> QED  BY <1>1, <1>2, AliveNext, OwnInvariant, PTL DEF Spec
=============================================================================
