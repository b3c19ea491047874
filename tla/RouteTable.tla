----------------------------- MODULE RouteTable -----------------------------
(***************************************************************************)
(* The Adj-RIB-In as the operator sees it: neighbours send UPDATE messages *)
(* as bytes, the main thread parses them and applies them to the table,    *)
(* the threads of neighbours that go away flush it, and the command line   *)
(* and the API search it.                                                  *)
(*                                                                         *)
(* Against Bgpd, where a route is a name and a message a record, this      *)
(* module keeps the bytes, prefixes with their lengths, the attributes and *)
(* the count of prefixes per neighbour, and leaves out the sessions: a     *)
(* neighbour is established, or its thread is flushing its routes.         *)
(***************************************************************************)
EXTENDS UpdateCodec, FiniteSets

CONSTANTS
    Neighbor,     \* the neighbours, by BGP identifier
    Message,      \* Message[n]: the messages neighbour n may send
    Probe,        \* addresses the operator may ask for
    MaxMessages   \* bound on the messages sent in a behaviour

Route == UNION {{m.withdraw[n] : n \in 1..Len(m.withdraw)} \cup
                {m.update[n] : n \in 1..Len(m.update)} :
                    m \in UNION {Message[n] : n \in Neighbor}}
Prefix == {r.prefix : r \in Route}
Key == Prefix \X Neighbor
Byte == 0..255
Address == [1..4 -> Byte]
Main == 0                     \* the main thread; no neighbour's identifier

\* A message has four fields and fits into 4096 bytes with its header.  A
\* message that withdraws and announces has less than 256 bytes of attributes:
\* with more, parse_nlri takes them for withdrawn routes.
ASSUME MessageAssumption ==
    \A n \in Neighbor : \A m \in Message[n] :
       LET attributes == EncodeAttributes(m.attributes, m.extended)
       IN  /\ DOMAIN m = {"withdraw", "update", "attributes", "extended"}
           /\ m.withdraw \in Seq(Route) /\ m.update \in Seq(Route)
           /\ m.update # <<>> => attributes \in Seq(Byte)
           /\ m.update # <<>> /\ m.withdraw # <<>> => Len(attributes) < 256
           /\ Len(Encode(m)) <= 4096 - 19

\* What a message that announces says of its routes: a list is there only if it
\* has elements.
Segment == [seg_type : Nat, seg_value : Seq(Nat) \ {<<>>}]
Path == Seq(Segment) \ {<<>>}
Aggregator == [as : Nat, origin : Address]
Community == [as : Nat, value : Nat]
Attribute ==
    [origin : Nat, as_path : {Null} \cup Path, as4_path : {Null} \cup Path,
     ipv4_next_hop : Address, med : Nat, local_pref : Nat, atomic_aggregate : {0, 1},
     aggregator : {Null} \cup Aggregator, as4_aggregator : {Null} \cup Aggregator,
     community : {Null} \cup (Seq(Community) \ {<<>>})]
ASSUME NullAssumption == Null \notin Segment
ASSUME AttributeAssumption ==
    \A n \in Neighbor : \A m \in Message[n] : m.update # <<>> => m.attributes \in Attribute

\* No route has a bit set behind its length.
ASSUME RouteAssumption ==
    \A r \in Route : /\ r \in [prefix : Address, length : 0..32]
                     /\ \A i \in 1..4 : r.prefix[i] % HostSize(r.length, i) = 0
ASSUME ProbeAssumption == Probe \subseteq Address
ASSUME NeighborAssumption == Neighbor \subseteq Nat \ {Main}
ASSUME BoundAssumption == MaxMessages \in Nat

VARIABLES
    advertised,   \* what each neighbour advertises, had all arrived
    in_queue,     \* packets read from each neighbour
    adj_rib_in_q, adj_rib_in_wdraw_q,   \* parsed announcements, withdrawals
    adj_rib_in,   \* the table, by prefix and BGP identifier
    current,      \* prefixes.current.rx of each neighbour
    mpc,          \* where the main thread is
    flush,        \* where each neighbour's thread is: "no" if not flushing
    loaded,       \* the value of `current' the main thread or a flush read
    sent,         \* messages sent (bound)
    odd,          \* what has happened that the table is known not to survive
    fault         \* what was read or written that is not there: the behaviour ends

queueVars == <<in_queue, adj_rib_in_q, adj_rib_in_wdraw_q>>
countVars == <<current, loaded>>
vars == <<advertised, queueVars, adj_rib_in, countVars, mpc, flush, sent, odd, fault>>

MainPc == {"parse", "rib", "entry", "wdraw", "erase"}
FlushPc == {"no", "erase", "load", "store"}

\* The events after which the table differs from what was advertised: a default
\* route (a length byte of 0) in a list of routes; a message that withdraws and
\* announces; two routes with one network address and different lengths; an
\* announcement parsed while a withdrawal of its prefix waits; a session that
\* ends while messages wait.
Diverging == {"default", "mixed", "overlap", "flip", "late"}

\* And those that cost something else: attributes with extended lengths, a route
\* with an empty AS_PATH, an ORIGIN that RFC 4271 does not have, an AS4_AGGREGATOR
\* without AGGREGATOR, two threads in one update of the prefix count.
Odd == Diverging \cup {"extended", "own", "origin", "as4", "raced"}
Faults == {"overrun", "show", "api", "json", "display", "log"}

TypeOK ==
    /\ \A n \in Neighbor : \A r \in advertised[n] : r.route \in Route
    /\ DOMAIN adj_rib_in \subseteq Key
    /\ \A k \in DOMAIN adj_rib_in : adj_rib_in[k].route \in Route
    /\ current \in [Neighbor -> Int]
    /\ mpc \in MainPc
    /\ flush \in [Neighbor -> FlushPc]
    /\ sent \in 0..MaxMessages
    /\ odd \subseteq Odd
    /\ fault \in {"none"} \cup Faults

Init ==
    /\ advertised = [n \in Neighbor |-> {}]
    /\ in_queue = [n \in Neighbor |-> <<>>]
    /\ adj_rib_in_q = <<>> /\ adj_rib_in_wdraw_q = <<>>
    /\ adj_rib_in = [k \in {} |-> Null]
    /\ current = [n \in Neighbor |-> 0]
    /\ mpc = "parse"
    /\ flush = [n \in Neighbor |-> "no"]
    /\ loaded = [t \in Neighbor \cup {Main} |-> 0]
    /\ sent = 0 /\ odd = {} /\ fault = "none"

Running == fault = "none"
When(condition, event) == IF condition THEN {event} ELSE {}

\* The process reads or writes what is not there.  Whatever it does then, the
\* behaviour ends; if it gets away with it, a search has changed nothing.
Fails(what) ==
    /\ fault' = what
    /\ UNCHANGED <<advertised, queueVars, adj_rib_in, countVars, mpc, flush, sent, odd>>

\* bgp_origin_code_text has three entries.
BadOrigin(attributes) == attributes.origin > 2

\* jsonify_entry takes the AS of an AS4_AGGREGATOR from the AGGREGATOR.
JsonFaults(attributes) == attributes.as4_aggregator # Null /\ attributes.aggregator = Null

-----------------------------------------------------------------------------
(* A neighbour and its thread.                                             *)

Members(s) == {s[n] : n \in 1..Len(s)}

\* What a table that follows RFC 4271 holds after the message: withdrawn routes
\* are gone, announced ones have the message's attributes.
AfterMessage(routes, m) ==
    {r \in routes : r.route \notin Members(m.withdraw) \cup Members(m.update)}
    \cup {[route |-> r, attributes |-> m.attributes, extended |-> m.extended] :
             r \in Members(m.update)}

OddMessage(n, m) ==
    LET named == Members(m.withdraw) \cup Members(m.update)
        held == named \cup {r.route : r \in advertised[n]}
    IN  When(\E r \in named : r.length = 0, "default")
        \cup When(m.withdraw # <<>> /\ m.update # <<>>, "mixed")
        \cup When(\E r \in named, s \in held : r.prefix = s.prefix /\ r.length # s.length,
                  "overlap")
        \cup When(m.update # <<>> /\ m.extended, "extended")
        \cup When(m.update # <<>> /\ m.attributes.as_path = Null, "own")
        \cup When(m.update # <<>> /\ BadOrigin(m.attributes), "origin")
        \cup When(m.update # <<>> /\ JsonFaults(m.attributes), "as4")

\* An UPDATE arrives: peer_established pushes its bytes on the in_queue.
Receive(n, m) ==
    /\ Running /\ flush[n] = "no" /\ sent < MaxMessages
    /\ sent' = sent + 1
    /\ in_queue' = [in_queue EXCEPT ![n] = Append(@, Encode(m))]
    /\ advertised' = [advertised EXCEPT ![n] = AfterMessage(@, m)]
    /\ odd' = odd \cup OddMessage(n, m)
    /\ UNCHANGED <<adj_rib_in_q, adj_rib_in_wdraw_q, adj_rib_in, countVars, mpc,
                   flush, fault>>

Queued(n) ==
    \/ in_queue[n] # <<>>
    \/ \E u \in Members(adj_rib_in_q) \cup Members(adj_rib_in_wdraw_q) : u.id = n

\* The session ends: the thread leaves its loop and begins to flush.
SessionDown(n) ==
    /\ Running /\ flush[n] = "no"
    /\ flush' = [flush EXCEPT ![n] = "erase"]
    /\ advertised' = [advertised EXCEPT ![n] = {}]
    /\ odd' = odd \cup When(Queued(n), "late")
    /\ UNCHANGED <<queueVars, adj_rib_in, countVars, mpc, sent, fault>>

RibFree == mpc \notin {"entry", "erase"}      \* the RIB lock is not held

\* flush_peer: erase the first route of the neighbour, under the RIB lock ...
FlushErase(n) ==
    /\ Running /\ flush[n] = "erase" /\ RibFree
    /\ \E k \in DOMAIN adj_rib_in :
          /\ k[2] = n
          /\ adj_rib_in' = [j \in DOMAIN adj_rib_in \ {k} |-> adj_rib_in[j]]
    /\ flush' = [flush EXCEPT ![n] = "load"]
    /\ UNCHANGED <<advertised, queueVars, countVars, mpc, sent, odd, fault>>

\* ... then --current.rx with no lock: read it ...
FlushLoad(n) ==
    /\ Running /\ flush[n] = "load"
    /\ loaded' = [loaded EXCEPT ![n] = current[n]]
    /\ flush' = [flush EXCEPT ![n] = "store"]
    /\ UNCHANGED <<advertised, queueVars, adj_rib_in, current, mpc, sent, odd, fault>>

\* ... and write it.
FlushStore(n) ==
    /\ Running /\ flush[n] = "store"
    /\ current' = [current EXCEPT ![n] = loaded[n] - 1]
    /\ odd' = odd \cup When(current[n] # loaded[n], "raced")
    /\ flush' = [flush EXCEPT ![n] = "erase"]
    /\ loaded' = [loaded EXCEPT ![n] = 0]
    /\ UNCHANGED <<advertised, queueVars, adj_rib_in, mpc, sent, fault>>

\* No route left: disconnect, empty the in_queue, and the next session.
FlushDone(n) ==
    /\ Running /\ flush[n] = "erase" /\ RibFree
    /\ \A k \in DOMAIN adj_rib_in : k[2] # n
    /\ flush' = [flush EXCEPT ![n] = "no"]
    /\ in_queue' = [in_queue EXCEPT ![n] = <<>>]
    /\ UNCHANGED <<advertised, adj_rib_in_q, adj_rib_in_wdraw_q, adj_rib_in,
                   countVars, mpc, sent, odd, fault>>

-----------------------------------------------------------------------------
(* The main thread.                                                        *)

Tagged(routes, n, attributes) ==
    [i \in 1..Len(routes) |->
        [route |-> routes[i], id |-> n, attributes |-> assign(attributes),
         highest |-> get_ipv4_high_range(routes[i].prefix, routes[i].length)]]

\* proc_in_q: parse the packet at the front and queue what is in it.
Parse(n) ==
    /\ Running /\ mpc = "parse" /\ in_queue[n] # <<>>
    /\ ~PacketOverruns(Head(in_queue[n]))
    /\ LET p == proc_in_q_packet(Head(in_queue[n]))
           updates == Tagged(p.update, n, p.attributes)
           withdraws == Tagged(p.withdraw, n, p.attributes)
       IN  /\ adj_rib_in_q' = adj_rib_in_q \o updates
           /\ adj_rib_in_wdraw_q' = adj_rib_in_wdraw_q \o withdraws
           /\ odd' = odd \cup When(\E u \in Members(updates), w \in Members(adj_rib_in_wdraw_q) :
                                      u.route.prefix = w.route.prefix /\ w.id = n, "flip")
    /\ in_queue' = [in_queue EXCEPT ![n] = Tail(@)]
    /\ UNCHANGED <<advertised, adj_rib_in, countVars, mpc, flush, sent, fault>>

\* ... or write over memory on the way.
ParseOverrun(n) ==
    /\ Running /\ mpc = "parse" /\ in_queue[n] # <<>>
    /\ PacketOverruns(Head(in_queue[n]))
    /\ Fails("overrun")

\* Every neighbour was visited; a packet still queued came after the visit.
ParseDone ==
    /\ Running /\ mpc = "parse"
    /\ adj_rib_in_q # <<>> \/ adj_rib_in_wdraw_q # <<>>
    /\ mpc' = "rib"
    /\ UNCHANGED <<advertised, queueVars, adj_rib_in, countVars, flush, sent, odd, fault>>

KeyOf(u) == <<u.route.prefix, u.id>>

\* The main thread reads the count of prefixes, with the RIB locked.
LoadCount(queue, from, to) ==
    /\ Running /\ mpc = from /\ queue # <<>>
    /\ mpc' = to
    /\ loaded' = [loaded EXCEPT ![Main] = current[Head(queue).id]]
    /\ UNCHANGED <<advertised, queueVars, adj_rib_in, current, flush, sent, odd, fault>>

\* ... and writes it back, changed by `change'.
StoreCount(n, change) ==
    /\ current' = [current EXCEPT ![n] = IF change = 0 THEN @ ELSE loaded[Main] + change]
    /\ odd' = odd \cup When(change # 0 /\ current[n] # loaded[Main], "raced")
    /\ loaded' = [loaded EXCEPT ![Main] = 0]

\* peer_entry: the RIB lock, the key looked up ...
PeerEntryBegin == LoadCount(adj_rib_in_q, "rib", "entry")

\* Mutant of PeerEntry: a route that is there is counted again.
PeerEntryCounts ==
    /\ Running /\ mpc = "entry"
    /\ LET u == Head(adj_rib_in_q)
           k == KeyOf(u)
       IN  /\ StoreCount(u.id, 1)
           /\ adj_rib_in' = [j \in DOMAIN adj_rib_in \cup {k} |->
                                IF j = k THEN u ELSE adj_rib_in[j]]
    /\ adj_rib_in_q' = Tail(adj_rib_in_q)
    /\ mpc' = "rib"
    /\ UNCHANGED <<advertised, in_queue, adj_rib_in_wdraw_q, flush, sent, fault>>

\* ... a new key is counted, and the entry written over what is there.
PeerEntry ==
    /\ Running /\ mpc = "entry"
    /\ LET u == Head(adj_rib_in_q)
           k == KeyOf(u)
       IN  /\ StoreCount(u.id, IF k \in DOMAIN adj_rib_in THEN 0 ELSE 1)
           /\ adj_rib_in' = [j \in DOMAIN adj_rib_in \cup {k} |->
                                IF j = k THEN u ELSE adj_rib_in[j]]
    /\ adj_rib_in_q' = Tail(adj_rib_in_q)
    /\ mpc' = "rib"
    /\ UNCHANGED <<advertised, in_queue, adj_rib_in_wdraw_q, flush, sent, fault>>

RibQueueDone ==
    /\ Running /\ mpc = "rib" /\ adj_rib_in_q = <<>>
    /\ mpc' = "wdraw"
    /\ UNCHANGED <<advertised, queueVars, adj_rib_in, countVars, flush, sent, odd, fault>>

\* withdraw: a key that is there is counted down and erased.
WithdrawBegin == LoadCount(adj_rib_in_wdraw_q, "wdraw", "erase")

Withdraw ==
    /\ Running /\ mpc = "erase"
    /\ LET u == Head(adj_rib_in_wdraw_q)
           k == KeyOf(u)
       IN  /\ StoreCount(u.id, IF k \in DOMAIN adj_rib_in THEN -1 ELSE 0)
           /\ adj_rib_in' = [j \in DOMAIN adj_rib_in \ {k} |-> adj_rib_in[j]]
    /\ adj_rib_in_wdraw_q' = Tail(adj_rib_in_wdraw_q)
    /\ mpc' = "wdraw"
    /\ UNCHANGED <<advertised, in_queue, adj_rib_in_q, flush, sent, fault>>

\* With logging on, peer_entry logs the new entry before it takes the lock and
\* withdraw the old one, each with the text of its ORIGIN.
LogUpdate ==
    /\ Running
    /\ \/ /\ mpc = "rib" /\ adj_rib_in_q # <<>>
          /\ BadOrigin(Head(adj_rib_in_q).attributes)
       \/ /\ mpc = "erase"
          /\ LET k == KeyOf(Head(adj_rib_in_wdraw_q))
             IN  k \in DOMAIN adj_rib_in /\ BadOrigin(adj_rib_in[k].attributes)
    /\ Fails("log")

WdrawQueueDone ==
    /\ Running /\ mpc = "wdraw" /\ adj_rib_in_wdraw_q = <<>>
    /\ mpc' = "parse"
    /\ UNCHANGED <<advertised, queueVars, adj_rib_in, countVars, flush, sent, odd, fault>>

-----------------------------------------------------------------------------
(* Searching the table, with the RIB lock held.  A search that ends well     *)
(* changes nothing: only the others are actions.                           *)

\* memcmp(a, b, 4) <= 0.
MemLeq(a, b) ==
    \/ a = b
    \/ \E n \in 1..4 : a[n] < b[n] /\ \A i \in 1..(n - 1) : a[i] = b[i]

\* Mutant of InRange: the highest address is left out.
InRangeOpen(low, high, address) == MemLeq(low, address) /\ ~MemLeq(high, address)

InRange(low, high, address) == MemLeq(low, address) /\ MemLeq(address, high)

\* show_bgp_prefix and api_get_prefix: the entries an address falls in.
prefix_matches(address) ==
    {k \in DOMAIN adj_rib_in :
        InRange(adj_rib_in[k].route.prefix, adj_rib_in[k].highest, address)}

\* rfc_ips and is_rfc1918.  The mutant takes the length of another block.
rfc_ips == {[prefix |-> <<10, 0, 0, 0>>, length |-> 8],
            [prefix |-> <<172, 16, 0, 0>>, length |-> 12],
            [prefix |-> <<192, 168, 0, 0>>, length |-> 16]}

is_rfc1918_by_16(prefix) ==
    \E b \in rfc_ips : InRange(b.prefix, get_ipv4_high_range(b.prefix, 16), prefix)

is_rfc1918(prefix) ==
    \E b \in rfc_ips : InRange(b.prefix, get_ipv4_high_range(b.prefix, b.length), prefix)

\* The entry is one the API looks for an origin AS in.  (seg_value and length of
\* an as_path that is null would be read at once.)
HasPath(e) == e.attributes.as_path # Null

\* Mutant of OriginFaults: the null test is forgotten.
OriginFaultsOnNull(e) == ~HasPath(e) \/ e.attributes.as_path.seg_value = <<>>

\* seg_value[length - 1] with a uint8_t index: a path of no values has a null
\* seg_value, read at 255.
OriginFaults(e) == HasPath(e) /\ e.attributes.as_path.seg_value = <<>>

OriginAs(e) == LET path == e.attributes.as_path.seg_value IN path[Len(path)]

\* api_get_all_origin_as, and the two that also look at is_rfc1918.
OriginMatches(asn, length) ==
    {k \in DOMAIN adj_rib_in :
        /\ HasPath(adj_rib_in[k]) /\ ~OriginFaults(adj_rib_in[k])
        /\ adj_rib_in[k].route.length <= length
        /\ OriginAs(adj_rib_in[k]) = asn}
api_get_public_origin_as(asn, length) ==
    {k \in OriginMatches(asn, length) : ~is_rfc1918(k[1])}
api_get_private_origin_as(asn, length) ==
    {k \in OriginMatches(asn, length) : is_rfc1918(k[1])}

\* show_bgp_adj_rib_in prints every entry and takes as_path for granted.
ShowAdjRibIn ==
    /\ Running /\ RibFree
    /\ \E k \in DOMAIN adj_rib_in :
          ~HasPath(adj_rib_in[k]) \/ BadOrigin(adj_rib_in[k].attributes)
    /\ Fails("show")

\* One of the three origin searches walks the table.
ApiOrigin ==
    /\ Running /\ RibFree
    /\ \E k \in DOMAIN adj_rib_in : OriginFaults(adj_rib_in[k])
    /\ Fails("api")

\* api_get_prefix: jsonify_entry of an entry found; show_bgp_prefix: display_entry.
\* (The earlier entries both add from the event database are not in this module.)
ApiPrefix ==
    /\ Running /\ RibFree
    /\ \E a \in Probe : \E k \in prefix_matches(a) :
          BadOrigin(adj_rib_in[k].attributes) \/ JsonFaults(adj_rib_in[k].attributes)
    /\ Fails("json")

ShowPrefix ==
    /\ Running /\ RibFree
    /\ \E a \in Probe : \E k \in prefix_matches(a) : BadOrigin(adj_rib_in[k].attributes)
    /\ Fails("display")

-----------------------------------------------------------------------------
MainStep ==
    \/ \E n \in Neighbor : Parse(n) \/ ParseOverrun(n)
    \/ ParseDone \/ PeerEntryBegin \/ PeerEntry \/ RibQueueDone
    \/ WithdrawBegin \/ Withdraw \/ WdrawQueueDone \/ LogUpdate

Search == ShowAdjRibIn \/ ApiOrigin \/ ApiPrefix \/ ShowPrefix

PeerStep(n) ==
    \/ SessionDown(n) \/ FlushErase(n) \/ FlushLoad(n) \/ FlushStore(n) \/ FlushDone(n)
    \/ \E m \in Message[n] : Receive(n, m)

Next == MainStep \/ Search \/ \E n \in Neighbor : PeerStep(n)

Spec == Init /\ [][Next]_vars

-----------------------------------------------------------------------------
(* Properties.                                                             *)

\* The address is one of the route's: its first `length' bits are.
Covers(route, address) ==
    \A n \in 1..4 : address[n] \div HostSize(route.length, n)
                        = route.prefix[n] \div HostSize(route.length, n)

\* Nothing of n's is on its way to the table, and no flush is under way.
Settled(n) == ~Queued(n) /\ flush[n] = "no"

\* Once the queues have drained the table holds the routes each neighbour
\* advertises and no others, whatever attributes the messages carried: where
\* proc_in_q's attribute loop got to does not matter to the routes, though it
\* takes a message with extended lengths apart wrongly, unless it ends in a copy
\* that overruns (ParseOverrun).  Not so after the events Diverging lists.
TableFollowsNeighbors ==
    odd \cap Diverging = {} =>
        \A n \in Neighbor : Settled(n) =>
            {adj_rib_in[k].route : k \in {j \in DOMAIN adj_rib_in : j[2] = n}}
                = {r.route : r \in advertised[n]}

\* parse_as_path and parse_as4_path: of a path with more than one segment, an
\* AS_SEQUENCE with an AS_SET behind it say, the first is kept.
FirstSegment(path) == IF path = Null THEN Null ELSE path[1]
Kept(attributes) ==
    [attributes EXCEPT !.as_path = FirstSegment(@), !.as4_path = FirstSegment(@)]

\* Every route in the table has the attributes of the last message that
\* announced it, with the first segment of each path only, through the parsing,
\* two copies and the overwrite of an earlier entry, unless they were sent with
\* extended lengths.
AttributesAreTheLatest ==
    odd \cap Diverging = {} =>
        \A n \in Neighbor : Settled(n) =>
            \A r \in advertised[n] :
                r.extended \/ adj_rib_in[<<r.route.prefix, n>>].attributes = Kept(r.attributes)

\* A search by address finds exactly the routes that cover the address, at
\* both ends of every range, though it compares bytes and never looks at the
\* length of the route.
SearchFindsCoveringRoutes ==
    \A a \in Probe : prefix_matches(a) =
        {k \in DOMAIN adj_rib_in : Covers(adj_rib_in[k].route, a)}

\* prefixes.current.rx is the number of the neighbour's routes in the table,
\* flushes, overwritten entries and withdrawals of unknown routes included,
\* unless two threads were in the count at once.
CountMatchesUnlessRaced ==
    "raced" \notin odd =>
        \A n \in Neighbor : flush[n] \in {"no", "erase"} =>
            current[n] = Cardinality({k \in DOMAIN adj_rib_in : k[2] = n})

\* The public and the private list of an AS share no route and together are its
\* whole list, and a route is in the private one exactly if all its addresses
\* are private, unless it is larger than the private block it begins.
PrivateListIsPrivate ==
    \A asn \in {OriginAs(adj_rib_in[k]) :
                   k \in {j \in DOMAIN adj_rib_in : HasPath(adj_rib_in[j]) /\ ~OriginFaults(adj_rib_in[j])}} :
       LET private == api_get_private_origin_as(asn, 32)
           public == api_get_public_origin_as(asn, 32)
       IN  /\ private \cap public = {}
           /\ private \cup public = OriginMatches(asn, 32)
           /\ \A k \in OriginMatches(asn, 32) :
                 LET e == adj_rib_in[k]
                 IN  k \in private <=>
                       \E b \in rfc_ips :
                          \/ Covers(b, e.route.prefix) /\ Covers(b, e.highest)
                          \/ e.route.length < b.length /\ e.route.prefix = b.prefix

\* The pointers and indices that the parser, the log and the searches use are
\* good unless a neighbour sent something odd: the parser overruns memory and the
\* API takes the last AS of a path of none only after extended lengths (that no
\* length the loop reads in an ordinary message is too short or too long is what
\* keeps the copies in their places); a route of the neighbour's own breaks
\* show_bgp_adj_rib_in alone; an ORIGIN above 2 whatever prints it; and an
\* AS4_AGGREGATOR without AGGREGATOR jsonify_entry.
FaultsOnlyOnOddMessages ==
    /\ fault \in {"overrun", "api"} => "extended" \in odd
    /\ fault = "show" => odd \cap {"own", "origin", "extended"} # {}
    /\ fault = "json" => odd \cap {"as4", "origin", "extended"} # {}
    /\ fault \in {"display", "log"} => odd \cap {"origin", "extended"} # {}
=============================================================================
