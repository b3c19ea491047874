-------------------------------- MODULE Bgpd --------------------------------
(***************************************************************************)
(* The threads of the log2BGP daemon and the state they share.             *)
(*                                                                         *)
(* One thread per configured neighbour (BGP::init_peer, peer_established)  *)
(* connects, reads messages and queues UPDATEs on the neighbour's          *)
(* in_queue; when the session ends it flushes the neighbour's routes and   *)
(* starts over.  The main thread (BGP::init_BGP) walks the neighbours,     *)
(* checks hold timers, parses queued UPDATEs into two queues, one of       *)
(* announcements and one of withdrawals, and applies these to the          *)
(* Adj-RIB-In.                                                             *)
(*                                                                         *)
(* A region that runs under a mutex is one action.  An unlocked test and   *)
(* the use that follows it are two.  Undefined behaviour of the C++        *)
(* program (front() or pop() of an empty queue, a null or destroyed peer,  *)
(* a stream used after it was closed, or closed twice) sets `fault` and    *)
(* ends the behaviour: nothing is claimed about what comes after it.       *)
(*                                                                         *)
(* Left out: the statistics that only `show bgp neighbors' prints (message *)
(* and prefix counters, time stamps, the table version), the copy of a     *)
(* replaced route to the event database, and the bytes on the wire; also   *)
(* the reuse of descriptor numbers by close() of one that is closed, and   *)
(* neighbours configured while the daemon runs.                            *)
(***************************************************************************)
EXTENDS Integers, Sequences, FiniteSets

CONSTANTS
    N,            \* number of neighbours; a neighbour is its index in thread_q
    Prefix,       \* prefixes a neighbour may announce
    Attr,         \* path attributes of an announcement
    None,         \* no route under a RIB key, no packet in hand
    Update,       \* the UPDATE messages of the instance
    OpenIds,      \* OpenIds[p]: the BGP identifiers neighbour p may send
    MaxUpdates,   \* bound on the UPDATE messages read in a behaviour
    Rare          \* the rare events that may happen, see RareEvent

Peer == 1..N
ThreadId == 1..(N + 1)

ASSUME NAssumption == N \in Nat \ {0}
ASSUME RouteAssumption == None \notin Attr
ASSUME UpdateAssumption ==
    Update \subseteq [wd : Seq(Prefix), nlri : Seq(Prefix), attr : Attr]
ASSUME IdAssumption ==
    /\ OpenIds \in [Peer -> SUBSET (Nat \ {0})]
    /\ \A p, q \in Peer : p # q => OpenIds[p] \cap OpenIds[q] = {}
ASSUME BoundAssumption == MaxUpdates \in Nat /\ MaxUpdates < 65536

\* "alloc": new(std::nothrow) fails in peer_established.  "resize": a buffer
\* cannot be resized.  "badopen": an OPEN is refused.  "kill": the operator
\* stops the daemon.  "silence": a neighbour sends nothing for its hold time.
RareEvent == {"alloc", "resize", "badopen", "kill", "silence"}
ASSUME RareAssumption == Rare \subseteq RareEvent

U16 == 65536                  \* in_q is a uint16_t
Id == {0} \cup UNION {OpenIds[p] : p \in Peer}
Key == Prefix \X Id

VARIABLES
    \* one neighbour: bgp_peer and the FILE streams of its tcp_client
    pc,           \* where the neighbour's thread is
    state,        \* bgp_peer::state
    conn,         \* its TCP streams, see Conn
    bgp_id,       \* bgp_peer::bgp_id, 0 until the first OPEN
    silent,       \* now - last_IO.last_read >= hold_time
    in_queue,     \* UPDATEs read and not yet processed
    in_q,         \* the in_queue depth shown to the operator
    \* the main thread
    mpc,          \* where it is
    cur,          \* position in thread_q
    packet,       \* the UPDATE copied from in_queue.front()
    adj_rib_in_q, \* announcements to apply
    adj_rib_in_wdraw_q, \* withdrawals to apply
    \* the daemon
    adj_rib_in,   \* [prefix, bgp_id] -> attributes
    thread_q,     \* neighbours delete_peer has not erased
    stop,         \* stop_and_exit_instance
    updates,      \* UPDATE messages read so far (bound)
    fault         \* undefined behaviour met

queueVars == <<in_queue, in_q>>
peerVars == <<pc, state, conn, bgp_id, silent, queueVars>>
workVars == <<packet, adj_rib_in_q, adj_rib_in_wdraw_q>>
mainVars == <<mpc, cur, workVars>>
ribVars == <<adj_rib_in, thread_q>>
vars == <<peerVars, mainVars, ribVars, stop, updates, fault>>

\* "active", set for the duration of connect(), is not told from "idle": no
\* other thread looks at the difference.  "deleted" is never set.
State == {"idle", "connect", "opensent", "openconfirm", "established"}

\* "closed": rx and tx are null.  "open": a live connection.  "eof": feof is
\* set.  "dead": the descriptor is closed but the streams are not yet null.
Conn == {"closed", "open", "eof", "dead"}

PeerPc == {"start", "connect", "setup", "loop", "read", "flush", "down",
           "drain", "exit"}
MainPc == {"wait", "peer", "hexpire", "hdisc", "hclose", "more", "front",
           "pop", "parse", "rib", "wdraw", "exit"}
Fault == {"none", "empty_queue", "null_peer", "double_close", "closed_stream",
          "dangling"}

Announcement == [prefix : Prefix, id : Id, attr : Attr]
Withdrawal == [prefix : Prefix, id : Id]

TypeOK ==
    /\ pc \in [Peer -> PeerPc]
    /\ state \in [Peer -> State]
    /\ conn \in [Peer -> Conn]
    /\ bgp_id \in [Peer -> Id]
    /\ silent \in [Peer -> BOOLEAN]
    /\ in_queue \in [Peer -> Seq(Update)]
    /\ in_q \in [Peer -> 0..(U16 - 1)]
    /\ mpc \in MainPc
    /\ cur \in ThreadId
    /\ packet \in Update \cup {None}
    /\ adj_rib_in_q \in Seq(Announcement)
    /\ adj_rib_in_wdraw_q \in Seq(Withdrawal)
    /\ adj_rib_in \in [Key -> Attr \cup {None}]
    /\ thread_q \in SUBSET Peer
    /\ stop \in BOOLEAN
    /\ updates \in 0..MaxUpdates
    /\ fault \in Fault

Init ==
    /\ pc = [p \in Peer |-> "start"]
    /\ state = [p \in Peer |-> "idle"]
    /\ conn = [p \in Peer |-> "closed"]
    /\ bgp_id = [p \in Peer |-> 0]
    /\ silent = [p \in Peer |-> FALSE]
    /\ in_queue = [p \in Peer |-> <<>>]
    /\ in_q = [p \in Peer |-> 0]
    /\ mpc = "wait" /\ cur = 1 /\ packet = None
    /\ adj_rib_in_q = <<>> /\ adj_rib_in_wdraw_q = <<>>
    /\ adj_rib_in = [k \in Key |-> None]
    /\ thread_q = Peer
    /\ stop = FALSE /\ updates = 0
    /\ fault = "none"

\* The process runs until main() returns or undefined behaviour is met.
Running == mpc # "exit" /\ fault = "none"

-----------------------------------------------------------------------------
(* The neighbour's thread.                                                 *)

\* The step of p's thread changes no variable of the main thread.
PeerStep(p, from, to) ==
    /\ Running
    /\ pc[p] = from
    /\ pc' = [pc EXCEPT ![p] = to]
    /\ UNCHANGED <<mainVars, stop, updates>>

\* main() is inside disconnect() on the streams of p: tx is closed, rx is not.
InHoldClose(p) == mpc = "hclose" /\ cur = p /\ conn[p] = "dead"

\* tcp_client::disconnect called by p's own thread.  tx is not null while the
\* main thread is between its two fclose() calls, so it is closed twice.
Disconnect(p) ==
    IF InHoldClose(p)
    THEN fault' = "double_close" /\ UNCHANGED conn
    ELSE conn' = [conn EXCEPT ![p] = "closed"] /\ UNCHANGED fault

\* tcp_client::connected: neither stream is null or at end of file.
Connected(p) == conn[p] \in {"open", "dead"}

\* delete_peer scans thread_q by index and does not step back after an erase:
\* of a run of neighbours with one bgp_id it erases every other one.
Erased(p) ==
    LET same == {q \in thread_q : bgp_id[q] = bgp_id[p]}
        run(q) == {r \in thread_q : r < q /\ \A s \in thread_q :
                                        r <= s /\ s < q => s \in same}
    IN  {q \in same : Cardinality(run(q)) % 2 = 0}

\* Mutant of PeerExit: the thread ends without a stop.
PeerExitAlways(p) ==
    /\ PeerStep(p, "start", "exit")
    /\ thread_q' = thread_q \ Erased(p)
    /\ UNCHANGED <<state, conn, bgp_id, silent, queueVars, adj_rib_in, fault>>

\* init_peer, stop_and_exit() seen: delete_peer.  Erasing the entry of another
\* neighbour destroys the bgp_peer its thread is using.
PeerExit(p) ==
    /\ stop
    /\ PeerStep(p, "start", "exit")
    /\ thread_q' = thread_q \ Erased(p)
    /\ fault' = IF \E q \in Erased(p) \ {p} : pc[q] # "exit"
                THEN "dangling" ELSE "none"
    /\ UNCHANGED <<state, conn, bgp_id, silent, queueVars, adj_rib_in>>

\* init_peer, another round: init_peer_states sets idle.
PeerStart(p) ==
    /\ ~stop
    /\ PeerStep(p, "start", "connect")
    /\ state' = [state EXCEPT ![p] = "idle"]
    /\ UNCHANGED <<conn, bgp_id, silent, queueVars, ribVars, fault>>

\* connect() failed: disconnect, idle, wait, try again.
ConnectFail(p) ==
    /\ PeerStep(p, "connect", "connect")
    /\ Disconnect(p)
    /\ state' = [state EXCEPT ![p] = "idle"]
    /\ UNCHANGED <<bgp_id, silent, queueVars, ribVars>>

ConnectOk(p) ==
    /\ PeerStep(p, "connect", "setup")
    /\ conn' = [conn EXCEPT ![p] = "open"]
    /\ state' = [state EXCEPT ![p] = "connect"]
    /\ UNCHANGED <<bgp_id, silent, queueVars, ribVars, fault>>

\* A buffer could not be resized, perhaps because the main thread has closed
\* the descriptor: disconnect, idle; the idle loop runs again.
SetupFail(p) ==
    /\ "resize" \in Rare \/ conn[p] # "open"
    /\ PeerStep(p, "setup", "connect")
    /\ Disconnect(p)
    /\ state' = [state EXCEPT ![p] = "idle"]
    /\ UNCHANGED <<bgp_id, silent, queueVars, ribVars>>

\* setvbuf() on a stream that is null: the main thread has closed it, or the
\* resize before failed and did not end the round.
SetupCrash(p) ==
    /\ "resize" \in Rare \/ conn[p] # "open"
    /\ PeerStep(p, "setup", "setup")
    /\ fault' = "closed_stream"
    /\ UNCHANGED <<state, conn, bgp_id, silent, queueVars, ribVars>>

\* The idle loop ends unless the main thread has set idle meanwhile.
SetupOk(p) ==
    /\ PeerStep(p, "setup", IF state[p] = "idle" THEN "connect" ELSE "loop")
    /\ state' = [state EXCEPT ![p] = IF @ = "idle" THEN @ ELSE "opensent"]
    /\ UNCHANGED <<conn, bgp_id, silent, queueVars, ribVars, fault>>

\* The condition of the read loop of peer_established.
InSession(p) == Connected(p) /\ state[p] # "idle" /\ ~stop

\* fread() blocks, and holds the lock of the rx stream while it does.
EnterRead(p) ==
    /\ conn[p] = "open" /\ InSession(p)
    /\ PeerStep(p, "loop", "read")
    /\ UNCHANGED <<state, conn, bgp_id, silent, queueVars, ribVars, fault>>

LeaveLoop(p) ==
    /\ ~InSession(p)
    /\ PeerStep(p, "loop", "flush")
    /\ UNCHANGED <<state, conn, bgp_id, silent, queueVars, ribVars, fault>>

\* No memory for a header or a buffer: idle and return, nothing is cleaned up.
AllocFail(p) ==
    /\ "alloc" \in Rare /\ InSession(p)
    /\ PeerStep(p, "loop", "start")
    /\ state' = [state EXCEPT ![p] = "idle"]
    /\ UNCHANGED <<conn, bgp_id, silent, queueVars, ribVars, fault>>

\* A message arrives: fread() returns it.  Once the descriptor is closed only
\* what the stream has buffered is left to read, and fread() does not block.
Receive(p) ==
    /\ Running
    /\ pc[p] = "read" \/ (pc[p] = "loop" /\ conn[p] = "dead" /\ InSession(p))
    /\ pc' = [pc EXCEPT ![p] = "loop"]
    /\ silent' = [silent EXCEPT ![p] = FALSE]
    /\ UNCHANGED <<mainVars, ribVars, stop>>

\* decode_open: accepted in every state, keepalive sent.
RecvOpen(p) ==
    /\ Receive(p)
    /\ \E i \in OpenIds[p] : bgp_id' = [bgp_id EXCEPT ![p] = i]
    /\ state' = [state EXCEPT ![p] = "openconfirm"]
    /\ UNCHANGED <<conn, queueVars, fault, updates>>

\* decode_open: wrong version or AS number.
RecvBadOpen(p) ==
    /\ "badopen" \in Rare
    /\ Receive(p)
    /\ state' = [state EXCEPT ![p] = "idle"]
    /\ Disconnect(p)
    /\ UNCHANGED <<bgp_id, queueVars, updates>>

RecvKeepalive(p) ==
    /\ Receive(p)
    /\ state' = [state EXCEPT ![p] = IF @ = "openconfirm" THEN "established"
                                     ELSE @]
    /\ UNCHANGED <<conn, bgp_id, queueVars, fault, updates>>

\* NOTIFICATION, ROUTE-REFRESH or an unknown type: logged or counted, no more;
\* so is an UPDATE for which no queue_data could be allocated.
RecvOther(p) ==
    /\ Receive(p)
    /\ UNCHANGED <<state, conn, bgp_id, queueVars, fault, updates>>

\* Mutant of RecvUpdate: only established neighbours' UPDATEs are counted.
RecvUpdateUncounted(p) ==
    /\ updates < MaxUpdates
    /\ Receive(p)
    /\ updates' = updates + 1
    /\ \E u \in Update :
         in_queue' = [in_queue EXCEPT ![p] = Append(@, u)]
    /\ in_q' = [in_q EXCEPT ![p] = IF state[p] = "established" THEN @ + 1 ELSE @]
    /\ UNCHANGED <<state, conn, bgp_id, fault>>

\* UPDATE: pushed under the in_queue lock, in every state.
RecvUpdate(p) ==
    /\ updates < MaxUpdates
    /\ Receive(p)
    /\ updates' = updates + 1
    /\ \E u \in Update :
         in_queue' = [in_queue EXCEPT ![p] = Append(@, u)]
    /\ in_q' = [in_q EXCEPT ![p] = (@ + 1) % U16]
    /\ UNCHANGED <<state, conn, bgp_id, fault>>

\* The remote end closed or reset the connection.
RecvEof(p) ==
    /\ PeerStep(p, "read", "loop")
    /\ conn' = [conn EXCEPT ![p] = IF @ = "open" THEN "eof" ELSE @]
    /\ UNCHANGED <<state, bgp_id, silent, queueVars, ribVars, fault>>

\* Mutants of FlushOne: the route is found but not erased; the identifier is
\* not compared.
FlushOneKeeps(p) ==
    /\ \E k \in Key : k[2] = bgp_id[p] /\ adj_rib_in[k] # None
    /\ PeerStep(p, "flush", "flush")
    /\ UNCHANGED <<state, conn, bgp_id, silent, queueVars, ribVars, fault>>

FlushOneOfAny(p) ==
    \E k \in Key :
       /\ adj_rib_in[k] # None
       /\ PeerStep(p, "flush", "flush")
       /\ adj_rib_in' = [adj_rib_in EXCEPT ![k] = None]
       /\ UNCHANGED <<state, conn, bgp_id, silent, queueVars, thread_q, fault>>

\* flush_peer erases one route of the neighbour per call, under the RIB lock.
FlushOne(p) ==
    \E k \in Key :
       /\ k[2] = bgp_id[p] /\ adj_rib_in[k] # None
       /\ PeerStep(p, "flush", "flush")
       /\ adj_rib_in' = [adj_rib_in EXCEPT ![k] = None]
       /\ UNCHANGED <<state, conn, bgp_id, silent, queueVars, thread_q, fault>>

FlushDone(p) ==
    /\ \A k \in Key : k[2] = bgp_id[p] => adj_rib_in[k] = None
    /\ PeerStep(p, "flush", "down")
    /\ UNCHANGED <<state, conn, bgp_id, silent, queueVars, ribVars, fault>>

SessionDown(p) ==
    /\ PeerStep(p, "down", "drain")
    /\ Disconnect(p)
    /\ UNCHANGED <<state, bgp_id, silent, queueVars, ribVars>>

\* Mutant of Drain: one pop instead of a loop.
DrainOne(p) ==
    /\ PeerStep(p, "drain", "start")
    /\ in_queue' = [in_queue EXCEPT ![p] = IF @ = <<>> THEN @ ELSE Tail(@)]
    /\ UNCHANGED <<state, conn, bgp_id, silent, in_q, ribVars, fault>>

\* Empty the queue under its lock; in_q keeps its value.
Drain(p) ==
    /\ PeerStep(p, "drain", "start")
    /\ in_queue' = [in_queue EXCEPT ![p] = <<>>]
    /\ UNCHANGED <<state, conn, bgp_id, silent, in_q, ribVars, fault>>

-----------------------------------------------------------------------------
(* The main thread.                                                        *)

MainStep(from, to) ==
    /\ Running
    /\ mpc = from
    /\ mpc' = to
    /\ UNCHANGED <<pc, bgp_id, silent, thread_q, stop, updates>>

\* Mutant of MainTop: the stop flag is not looked at.
MainTopForever ==
    /\ MainStep("wait", "peer")
    /\ cur' = 1
    /\ UNCHANGED <<state, conn, queueVars, workVars, adj_rib_in, fault>>

\* init_BGP: the loop condition; the process ends when main() returns.
MainTop ==
    /\ MainStep("wait", IF stop THEN "exit" ELSE "peer")
    /\ cur' = 1
    /\ UNCHANGED <<state, conn, queueVars, workVars, adj_rib_in, fault>>

MainPeersDone ==
    /\ cur = N + 1
    /\ MainStep("peer", "rib")
    /\ UNCHANGED <<state, conn, queueVars, cur, workVars, adj_rib_in, fault>>

\* proc_in_q with hold_timer_expired: a neighbour that is not established is
\* skipped, an expired one is closed, any other may be sent a keepalive.
Visit(to, position) ==
    /\ MainStep("peer", to)
    /\ cur' = position
    /\ UNCHANGED <<state, conn, queueVars, workVars, adj_rib_in, fault>>

VisitSkip ==
    /\ cur \in thread_q /\ state[cur] # "established"
    /\ Visit("peer", cur + 1)

VisitExpired ==
    /\ cur \in thread_q /\ state[cur] = "established" /\ silent[cur]
    /\ Visit("hexpire", cur)

\* Mutant of VisitLive: the state of the session is not tested.
VisitAnyState ==
    /\ cur \in thread_q /\ ~silent[cur]
    /\ Visit("more", cur)

VisitLive ==
    /\ cur \in thread_q /\ state[cur] = "established" /\ ~silent[cur]
    /\ Visit("more", cur)

\* delete_peer shifted the elements under the iterators of the range-for: the
\* slot may be skipped or hold a destroyed pointer.
VisitErased ==
    /\ cur \in Peer /\ thread_q # Peer
    /\ MainStep("peer", "peer")
    /\ \/ cur' = cur + 1 /\ UNCHANGED fault
       \/ fault' = "dangling" /\ UNCHANGED cur
    /\ UNCHANGED <<state, conn, queueVars, workVars, adj_rib_in>>

\* hold_timer_expired: the notification is sent, then the state is set ...
HoldExpire ==
    /\ MainStep("hexpire", "hdisc")
    /\ state' = [state EXCEPT ![cur] = "idle"]
    /\ UNCHANGED <<conn, queueVars, cur, workVars, adj_rib_in, fault>>

\* ... then disconnect() closes the descriptor and tx ...
HoldDisconnect ==
    /\ MainStep("hdisc", "hclose")
    /\ conn' = [conn EXCEPT ![cur] = IF @ = "closed" THEN @ ELSE "dead"]
    /\ UNCHANGED <<state, queueVars, cur, workVars, adj_rib_in, fault>>

\* ... and rx, whose lock the neighbour's thread holds while it is in fread().
\* A thread that has just seen connected() goes on to read the closed stream.
HoldClose ==
    /\ MainStep("hclose", "peer")
    /\ pc[cur] # "read" \/ conn[cur] = "closed"
    /\ conn' = [conn EXCEPT ![cur] = "closed"]
    /\ cur' = cur + 1
    /\ \/ UNCHANGED fault
       \/ pc[cur] = "loop" /\ conn[cur] = "dead" /\ fault' = "closed_stream"
    /\ UNCHANGED <<state, queueVars, workVars, adj_rib_in>>

\* Mutants of QueueEmpty: the position moves twice, or not at all, or before
\* the queue is empty.
QueueEmptySkips ==
    /\ MainStep("more", "peer")
    /\ in_queue[cur] = <<>>
    /\ cur' = cur + 2
    /\ UNCHANGED <<state, conn, queueVars, workVars, adj_rib_in, fault>>

QueueLeft ==
    /\ MainStep("more", "peer")
    /\ cur' = cur + 1
    /\ UNCHANGED <<state, conn, queueVars, workVars, adj_rib_in, fault>>

\* proc_in_q: in_queue.empty(), unlocked.
QueueEmpty ==
    /\ MainStep("more", "peer")
    /\ in_queue[cur] = <<>>
    /\ cur' = cur + 1
    /\ UNCHANGED <<state, conn, queueVars, workVars, adj_rib_in, fault>>

QueueMore ==
    /\ MainStep("more", "front")
    /\ in_queue[cur] # <<>>
    /\ UNCHANGED <<state, conn, queueVars, cur, workVars, adj_rib_in, fault>>

\* in_queue.front(), unlocked: undefined once the thread has drained the queue.
Front ==
    /\ MainStep("front", "pop")
    /\ IF in_queue[cur] = <<>>
       THEN fault' = "empty_queue" /\ UNCHANGED packet
       ELSE packet' = Head(in_queue[cur]) /\ UNCHANGED fault
    /\ UNCHANGED <<state, conn, queueVars, cur, adj_rib_in_q, adj_rib_in_wdraw_q, adj_rib_in>>

\* No memory for the copy: proc_in_q returns, the UPDATE stays queued.
FrontAllocFail ==
    /\ "alloc" \in Rare
    /\ MainStep("front", "peer")
    /\ in_queue[cur] # <<>>
    /\ cur' = cur + 1
    /\ UNCHANGED <<state, conn, queueVars, workVars, adj_rib_in, fault>>

\* in_queue.pop() and in_q--, under the in_queue lock.
Pop ==
    /\ MainStep("pop", "parse")
    /\ IF in_queue[cur] = <<>>
       THEN fault' = "empty_queue" /\ UNCHANGED <<queueVars>>
       ELSE /\ in_queue' = [in_queue EXCEPT ![cur] = Tail(@)]
            /\ in_q' = [in_q EXCEPT ![cur] = (@ - 1) % U16]
            /\ UNCHANGED fault
    /\ UNCHANGED <<state, conn, cur, workVars, adj_rib_in>>

\* Mutant of Announcements: the identifier is not copied.
AnnouncementsUntagged(u, i) ==
    [n \in 1..Len(u.nlri) |-> [prefix |-> u.nlri[n], id |-> 0, attr |-> u.attr]]

\* parse_nlri tags every prefix with the neighbour's identifier of the moment.
Announcements(u, i) ==
    [n \in 1..Len(u.nlri) |-> [prefix |-> u.nlri[n], id |-> i, attr |-> u.attr]]
Withdrawals(u, i) ==
    [n \in 1..Len(u.wd) |-> [prefix |-> u.wd[n], id |-> i]]

\* Withdrawn routes make the message a withdraw: its NLRI is not looked at.
Parse ==
    /\ MainStep("parse", "more")
    /\ IF packet.wd # <<>>
       THEN /\ adj_rib_in_wdraw_q' =
                 adj_rib_in_wdraw_q \o Withdrawals(packet, bgp_id[cur])
            /\ UNCHANGED adj_rib_in_q
       ELSE /\ adj_rib_in_q' =
                 adj_rib_in_q \o Announcements(packet, bgp_id[cur])
            /\ UNCHANGED adj_rib_in_wdraw_q
    /\ packet' = None
    /\ UNCHANGED <<state, conn, queueVars, cur, adj_rib_in, fault>>

\* get_peer_by_uint32_t_bgp_id does not return nullptr.
PeerKnown(i) == \E p \in thread_q : bgp_id[p] = i

\* Mutant of PeerEntry: a route that is there is kept.
PeerEntryKeeps ==
    /\ adj_rib_in_q # <<>>
    /\ MainStep("rib", "rib")
    /\ LET u == Head(adj_rib_in_q) IN
         adj_rib_in' = [adj_rib_in EXCEPT ![<<u.prefix, u.id>>] =
                          IF @ = None THEN u.attr ELSE @]
    /\ adj_rib_in_q' = Tail(adj_rib_in_q)
    /\ UNCHANGED <<state, conn, queueVars, cur, packet, adj_rib_in_wdraw_q, fault>>

\* proc_adj_rib_in_queue: peer_entry under the RIB lock, then pop.
PeerEntry ==
    /\ adj_rib_in_q # <<>>
    /\ MainStep("rib", "rib")
    /\ LET u == Head(adj_rib_in_q) IN
         adj_rib_in' = IF PeerKnown(u.id)
                       THEN [adj_rib_in EXCEPT ![<<u.prefix, u.id>>] = u.attr]
                       ELSE adj_rib_in
    /\ adj_rib_in_q' = Tail(adj_rib_in_q)
    /\ UNCHANGED <<state, conn, queueVars, cur, packet, adj_rib_in_wdraw_q, fault>>

RibQueueDone ==
    /\ adj_rib_in_q = <<>>
    /\ MainStep("rib", "wdraw")
    /\ UNCHANGED <<state, conn, queueVars, cur, workVars, adj_rib_in, fault>>

\* proc_adj_rib_wdraw_queue: withdraw under the RIB lock, then pop.  A route
\* that is there is erased after its peer is used without a null check.
Withdraw ==
    /\ adj_rib_in_wdraw_q # <<>>
    /\ MainStep("wdraw", "wdraw")
    /\ LET u == Head(adj_rib_in_wdraw_q)
           k == <<u.prefix, u.id>>
       IN  IF adj_rib_in[k] # None /\ ~PeerKnown(u.id)
           THEN fault' = "null_peer" /\ UNCHANGED adj_rib_in
           ELSE adj_rib_in' = [adj_rib_in EXCEPT ![k] = None] /\ UNCHANGED fault
    /\ adj_rib_in_wdraw_q' = Tail(adj_rib_in_wdraw_q)
    /\ UNCHANGED <<state, conn, queueVars, cur, packet, adj_rib_in_q>>

WdrawQueueDone ==
    /\ adj_rib_in_wdraw_q = <<>>
    /\ MainStep("wdraw", "wait")
    /\ UNCHANGED <<state, conn, queueVars, cur, workVars, adj_rib_in, fault>>

-----------------------------------------------------------------------------
(* The clock and the command line.                                         *)

\* hold_time seconds have passed since the last header was read.  Nothing
\* looks at that in another state, and no state is left for established
\* without reading a header.
HoldTimePasses(p) ==
    /\ "silence" \in Rare
    /\ Running /\ state[p] = "established" /\ ~silent[p]
    /\ silent' = [silent EXCEPT ![p] = TRUE]
    /\ UNCHANGED <<pc, state, conn, bgp_id, queueVars, mainVars, ribVars,
                   stop, updates, fault>>

\* kill_all_signal, from a CLI connection.
KillAll ==
    /\ "kill" \in Rare
    /\ Running /\ ~stop
    /\ stop' = TRUE
    /\ UNCHANGED <<peerVars, mainVars, ribVars, updates, fault>>

-----------------------------------------------------------------------------
PeerRun(p) ==
    \/ PeerExit(p) \/ PeerStart(p) \/ ConnectFail(p) \/ ConnectOk(p)
    \/ SetupFail(p) \/ SetupCrash(p) \/ SetupOk(p) \/ EnterRead(p) \/ LeaveLoop(p)
    \/ AllocFail(p) \/ FlushOne(p) \/ FlushDone(p) \/ SessionDown(p) \/ Drain(p)

Remote(p) ==
    \/ RecvOpen(p) \/ RecvBadOpen(p) \/ RecvKeepalive(p) \/ RecvOther(p)
    \/ RecvUpdate(p) \/ RecvEof(p)

MainRun ==
    \/ MainTop \/ MainPeersDone \/ VisitSkip \/ VisitExpired \/ VisitLive
    \/ VisitErased \/ HoldExpire \/ HoldDisconnect \/ HoldClose
    \/ QueueEmpty \/ QueueMore \/ Front \/ FrontAllocFail \/ Pop \/ Parse
    \/ PeerEntry \/ RibQueueDone \/ Withdraw \/ WdrawQueueDone

Next ==
    \/ MainRun
    \/ KillAll
    \/ \E p \in Peer : PeerRun(p) \/ Remote(p) \/ HoldTimePasses(p)

Spec == Init /\ [][Next]_vars

\* The operating system runs every thread that can run: a lock is polled until
\* it is free, connect() returns, fread() on a closed descriptor returns.
\* Nothing makes a neighbour send or close.
FairSpec ==
    /\ Spec
    /\ WF_vars(MainRun)
    /\ \A p \in Peer : WF_vars(PeerRun(p))

\* A neighbour that is alive sends a KEEPALIVE from time to time or closes the
\* connection, in particular when it is sent a NOTIFICATION; a thread that
\* waits for the lock of a stream gets it if the lock is released over and over;
\* and memory is not always short.
LiveRemoteSpec ==
    /\ FairSpec
    /\ SF_vars(HoldClose) /\ SF_vars(Front)
    /\ \A p \in Peer : WF_vars(Remote(p))

-----------------------------------------------------------------------------
(* Properties.                                                             *)

\* Every neighbour keeps one BGP identifier, as a BGP speaker should.
FixedIds == \A p \in Peer : \A i, j \in OpenIds[p] : i = j

\* i is the identifier of a neighbour that has sent an OPEN.
Owner(i) == i # 0 /\ \E p \in Peer : bgp_id[p] = i

\* Every route, and every announcement or withdrawal on its way to the RIB, is
\* under the identifier of a neighbour that completed an OPEN, although
\* parse_nlri copies the identifier long after the UPDATE was read and
\* UPDATEs are accepted in every state.
OwnedRoutes ==
    /\ \A k \in Key : adj_rib_in[k] # None => Owner(k[2])
    /\ \A n \in 1..Len(adj_rib_in_q) : Owner(adj_rib_in_q[n].id)
    /\ \A n \in 1..Len(adj_rib_in_wdraw_q) : Owner(adj_rib_in_wdraw_q[n].id)

\* withdraw() does not test the pointer get_peer_by_uint32_t_bgp_id returns:
\* until the daemon is being stopped it is never null when it is used.
WithdrawFindsPeer == fault = "null_peer" => stop

\* The depth shown to the operator never understates the queue, although the
\* thread empties the queue without touching in_q while main() pops from it.
InQCoversQueue == \A p \in Peer : Len(in_queue[p]) <= in_q[p]

\* UPDATEs of an old session are never left for the next one to be processed
\* under its identity, unless peer_established returned for lack of memory.
SessionStartsEmpty ==
    "alloc" \notin Rare =>
        \A p \in Peer : pc[p] \in {"connect", "setup"} => in_queue[p] = <<>>

\* A route leaves the RIB only by a withdrawal its own neighbour sent, or in
\* the flush of that neighbour's thread: the end of one session never costs
\* another neighbour a route.
RouteRemovalIsOwned ==
    [][\A k \in Key : adj_rib_in[k] # None /\ adj_rib_in'[k] = None =>
         \/ \E p \in Peer : pc[p] = "flush" /\ bgp_id[p] = k[2]
         \/ /\ mpc = "wdraw"
            /\ Head(adj_rib_in_wdraw_q) = [prefix |-> k[1], id |-> k[2]]]_vars

\* The RIB the threads build together is the table AdjRibIn promises.
Table == INSTANCE AdjRibIn WITH rib <- adj_rib_in,
                                owners <- {bgp_id[p] : p \in Peer} \ {0}
ImplementsAdjRibIn == Table!Spec

\* A thread that reads end of file ends the session and goes back to connect,
\* whatever the main thread does to the streams meanwhile.
EofReconnects ==
    \A p \in Peer :
        conn[p] = "eof" ~> (pc[p] = "connect" \/ stop \/ ~Running)

\* The main thread gets to the UPDATEs of every neighbour that stays
\* established.  (A second OPEN takes a neighbour back to openconfirm.)
QueueServed ==
    \A p \in Peer :
        (state[p] = "established" /\ in_queue[p] # <<>>)
            ~> (in_queue[p] = <<>> \/ state[p] # "established" \/ stop \/ ~Running)

\* kill_all ends the process, also while threads wait for their neighbours.
KillEndsProcess == stop ~> ~Running

\* A neighbour that has been silent for its hold time is dropped: its streams
\* are closed.
HoldExpiryDropsPeer ==
    \A p \in Peer :
        (state[p] = "established" /\ silent[p])
            ~> (~silent[p] \/ conn[p] = "closed" \/ stop \/ ~Running)

\* Once the session is over and the thread has flushed, no route of the
\* neighbour is left.
FlushLeavesNothing ==
    \A p \in Peer : pc[p] \in {"down", "drain", "connect"} =>
        \A k \in Key : k[2] = bgp_id[p] => adj_rib_in[k] = None

\* pop() takes out the UPDATE that was copied from the front.
PopsWhatItCopied ==
    mpc = "pop" /\ fault = "none" =>
        in_queue[cur] # <<>> /\ Head(in_queue[cur]) = packet
=============================================================================
