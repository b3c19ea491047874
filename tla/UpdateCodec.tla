---------------------------- MODULE UpdateCodec ----------------------------
(***************************************************************************)
(* How BGP::proc_in_q takes an UPDATE message apart, byte by byte, and the *)
(* message a neighbour meant, put together as RFC 4271 says.               *)
(*                                                                         *)
(* A packet is the sequence of its bytes after the 19 byte header.  The    *)
(* code indexes it from 0 and copies it into a buffer with 5 zero bytes    *)
(* behind it.  An IPv4 address is its four bytes in network order.         *)
(***************************************************************************)
EXTENDS Integers, Sequences

CONSTANT Null                 \* nullptr: the attribute was not in the message

\* packet[i].  What lies behind the padding is not the message's: nothing is
\* claimed of an attribute read from there.
At(packet, i) == IF i < Len(packet) THEN packet[i + 1] ELSE 0

U16At(packet, i) == 256 * At(packet, i) + At(packet, i + 1)
U32At(packet, i) == 65536 * U16At(packet, i) + U16At(packet, i + 2)

\* memcpy over the address `old': its first `count' bytes are replaced.
IpCopied(packet, i, count, old) ==
    [n \in 1..4 |-> IF n <= count THEN At(packet, i + n - 1) ELSE old[n]]

\* enum bgp_path_attrib: the codes the loop has a case of its own for.
Code == [origin |-> 1, as_path |-> 2, next_hop |-> 3, multi_exit_disc |-> 4,
         local_pref |-> 5, atomic_aggregate |-> 6, aggregator |-> 7,
         community |-> 8, as4_path |-> 17, as4_aggregator |-> 18]

\* bgp_update() and the memset of its path attributes: what a message without
\* attributes leaves.
NoAttributes ==
    [origin |-> 0, as_path |-> Null, as4_path |-> Null,
     ipv4_next_hop |-> <<0, 0, 0, 0>>, med |-> 0, local_pref |-> 0,
     atomic_aggregate |-> 0, aggregator |-> Null, as4_aggregator |-> Null,
     community |-> Null]
NoAddress == NoAttributes.ipv4_next_hop

-----------------------------------------------------------------------------
(* The path attributes.                                                    *)

\* The bytes the switch steps over after a header: an ORIGIN is one byte
\* whatever its length says, an ATOMIC_AGGREGATE none, any other its length.
Taken(code, length) ==
    IF code = Code.origin THEN (IF length = 0 THEN 0 ELSE 1)
    ELSE IF code = Code.atomic_aggregate THEN 0
    ELSE length

\* The attribute headers the loop sees: flags, code, one byte of length.  `at'
\* is the index i of the length byte, where the loop is when it switches.  The
\* flags are not looked at, so neither is the extended length bit.
Headers(packet, path_attrib_len) ==
    LET from[i \in 3..(path_attrib_len + 261)] ==
            IF i - 3 >= path_attrib_len THEN <<>>
            ELSE LET h == [code |-> At(packet, i + 2),
                           length |-> At(packet, i + 3), at |-> i + 3]
                 IN  <<h>> \o from[h.at + Taken(h.code, h.length)]
    IN  from[3]

\* What is copied by the length of the header does not fit: a next hop and the
\* two origins are 4 bytes (and a length that is less than what is before the
\* origin wraps), and the first community is cleared though there is room for
\* length / 4.
Overruns(h) ==
    /\ h.length # 0
    /\ \/ h.code = Code.next_hop /\ h.length > 4
       \/ h.code = Code.aggregator /\ h.length \notin 2..6
       \/ h.code = Code.as4_aggregator /\ h.length \notin 4..8
       \/ h.code = Code.community /\ h.length < 4

\* parse_as_path: the first segment and no other, two bytes an AS.  Mutant: the
\* count is taken from the attribute's length.
parse_as_path_by_length(packet, h) ==
    [seg_type |-> At(packet, h.at + 1),
     seg_value |-> [n \in 1..(h.length \div 2) |-> U16At(packet, h.at + 1 + 2 * n)]]

parse_as_path(packet, h) ==
    [seg_type |-> At(packet, h.at + 1),
     seg_value |-> [n \in 1..At(packet, h.at + 2) |->
                        U16At(packet, h.at + 1 + 2 * n)]]

\* parse_as4_path: the same with four bytes an AS.
parse_as4_path(packet, h) ==
    [seg_type |-> At(packet, h.at + 1),
     seg_value |-> [n \in 1..At(packet, h.at + 2) |->
                        U32At(packet, h.at - 1 + 4 * n)]]

\* parse_community: AS and value, two bytes each.
parse_community(packet, h) ==
    [n \in 1..(h.length \div 4) |->
        [as |-> U16At(packet, h.at - 3 + 4 * n),
         value |-> U16At(packet, h.at - 1 + 4 * n)]]

\* One turn of the switch: the fields of the update the attribute sets, if the
\* header does not overrun.
SetAttribute(packet, update, h) ==
    IF h.code = Code.atomic_aggregate
    THEN [update EXCEPT !.atomic_aggregate = 1]
    ELSE IF h.length = 0 THEN update
    ELSE CASE h.code = Code.origin ->
                [update EXCEPT !.origin = At(packet, h.at + 1)]
           [] h.code = Code.as_path ->
                [update EXCEPT !.as_path = parse_as_path(packet, h)]
           [] h.code = Code.next_hop ->
                [update EXCEPT !.ipv4_next_hop = IpCopied(packet, h.at + 1, h.length, @)]
           [] h.code = Code.multi_exit_disc ->
                [update EXCEPT !.med = U32At(packet, h.at + 1)]
           [] h.code = Code.local_pref ->
                [update EXCEPT !.local_pref = U32At(packet, h.at + 1)]
           [] h.code = Code.aggregator ->
                [update EXCEPT !.aggregator =
                    [as |-> U16At(packet, h.at + 1),
                     origin |-> IpCopied(packet, h.at + 3, h.length - 2, NoAddress)]]
           [] h.code = Code.as4_path ->
                [update EXCEPT !.as4_path = parse_as4_path(packet, h)]
           [] h.code = Code.as4_aggregator ->
                [update EXCEPT !.as4_aggregator =
                    [as |-> U32At(packet, h.at + 1),
                     origin |-> IpCopied(packet, h.at + 5, h.length - 4, NoAddress)]]
           [] h.code = Code.community ->
                [update EXCEPT !.community = parse_community(packet, h)]
           [] OTHER -> update

\* The loop over the path attributes.
Attributes(packet, path_attrib_len) ==
    LET headers == Headers(packet, path_attrib_len)
        after[n \in 0..Len(headers)] ==
            IF n = 0 THEN NoAttributes
            ELSE SetAttribute(packet, after[n - 1], headers[n])
    IN  after[Len(headers)]

\* The loop writes over memory that is not the update's, which nothing that
\* comes after survives for certain.
PacketOverruns(packet) ==
    /\ U16At(packet, 0) = 0
    /\ LET headers == Headers(packet, U16At(packet, 2))
       IN  \E n \in 1..Len(headers) : Overruns(headers[n])

\* bgp_update::assign, run by the copy constructor when the update is pushed
\* on a queue and by operator= when it is stored: pointers are followed, and a
\* community list of no elements becomes none.
assign(update) ==
    IF update.community = <<>> THEN [update EXCEPT !.community = Null] ELSE update

-----------------------------------------------------------------------------
(* The prefixes.                                                           *)

Min8(n) == IF n < 0 THEN 0 ELSE IF n > 8 THEN 8 ELSE n

\* The values of the bits of byte n that are behind the first `length'.
HostSize(length, n) == 2 ^ (8 - Min8(length - 8 * (n - 1)))

\* get_ipv4_high_range: all those bits are set, which byte by byte is the same.
get_ipv4_high_range(prefix, length) ==
    [n \in 1..4 |-> prefix[n] - (prefix[n] % HostSize(length, n)) + HostSize(length, n) - 1]

PrefixBytes(length) == (length \div 8) + (IF length % 8 = 0 THEN 0 ELSE 1)

\* Mutant of NlriAt: a length that is no multiple of 8 is rounded down.
NlriAtRoundedDown(packet, offset) ==
    LET length == At(packet, offset)
    IN  [prefix |-> [n \in 1..4 |-> IF n <= length \div 8
                                    THEN At(packet, offset + n) ELSE 0],
         length |-> length]

\* The route whose length byte is at `offset'; the bytes the message does not
\* carry are zero, the host bits it does carry are kept.
NlriAt(packet, offset) ==
    LET length == At(packet, offset)
    IN  [prefix |-> [n \in 1..4 |-> IF n <= PrefixBytes(length)
                                    THEN At(packet, offset + n) ELSE 0],
         length |-> length]

\* Mutant of parse_nlri: the list ends one route early.
ParseNlriShort(packet, offset) ==
    LET from[i \in offset..(Len(packet) + 37)] ==
            IF i + 1 + PrefixBytes(At(packet, i)) >= Len(packet) THEN <<>>
            ELSE <<NlriAt(packet, i)>> \o from[i + 1 + PrefixBytes(At(packet, i))]
    IN  from[offset]

\* parse_nlri: one route after the other until a length of 0.
parse_nlri(packet, offset) ==
    LET from[i \in offset..(Len(packet) + 37)] ==
            IF At(packet, i) = 0 THEN <<>>
            ELSE <<NlriAt(packet, i)>> \o from[i + 1 + PrefixBytes(At(packet, i))]
    IN  from[offset]

\* The body of the loop of proc_in_q: a message whose withdrawn length is not 0
\* is a withdraw and nothing else; else the NLRI is found from the length of
\* the attributes, wherever the loop over them got to.
proc_in_q_packet(packet) ==
    IF U16At(packet, 0) # 0
    THEN [withdraw |-> parse_nlri(packet, 2), update |-> <<>>,
          attributes |-> NoAttributes]
    ELSE LET path_attrib_len == U16At(packet, 2)
         IN  [withdraw |-> <<>>, update |-> parse_nlri(packet, path_attrib_len + 4),
              attributes |-> Attributes(packet, path_attrib_len)]

-----------------------------------------------------------------------------
(* The neighbour's side: a message as RFC 4271 lays it out.                *)

Bytes2(n) == <<n \div 256, n % 256>>
Bytes4(n) == Bytes2(n \div 65536) \o Bytes2(n % 65536)

Concat(parts) ==
    LET upto[n \in 0..Len(parts)] ==
            IF n = 0 THEN <<>> ELSE upto[n - 1] \o parts[n]
    IN  upto[Len(parts)]

\* One attribute: flags, code, length, value.  An extended length has two bytes
\* and its flag bit set.
EncodeAttribute(code, value, extended) ==
    IF extended
    THEN <<80, code>> \o Bytes2(Len(value)) \o value
    ELSE <<64, code, Len(value)>> \o value

\* A path is a sequence of segments with AS numbers of `width' bytes.
EncodeSegment(segment, width) ==
    <<segment.seg_type, Len(segment.seg_value)>>
        \o Concat([n \in 1..Len(segment.seg_value) |->
                      IF width = 2 THEN Bytes2(segment.seg_value[n])
                      ELSE Bytes4(segment.seg_value[n])])

EncodePath(path, width) ==
    Concat([n \in 1..Len(path) |-> EncodeSegment(path[n], width)])

EncodeCommunity(list) ==
    Concat([n \in 1..Len(list) |-> Bytes2(list[n].as) \o Bytes2(list[n].value)])

\* The attributes of a message.  An UPDATE always has an ORIGIN, an AS_PATH
\* (with no segment if the route is the neighbour's own) and a NEXT_HOP.
EncodeAttributes(a, extended) ==
    LET field(present, code, value) ==
            IF present THEN EncodeAttribute(code, value, extended) ELSE <<>>
        segments(path) == IF path = Null THEN <<>> ELSE path
        pair(g) == IF g = Null THEN [as |-> 0, origin |-> <<>>] ELSE g
        list(c) == IF c = Null THEN <<>> ELSE c
    IN  field(TRUE, Code.origin, <<a.origin>>)
        \o field(TRUE, Code.as_path, EncodePath(segments(a.as_path), 2))
        \o field(TRUE, Code.next_hop, a.ipv4_next_hop)
        \o field(a.med # 0, Code.multi_exit_disc, Bytes4(a.med))
        \o field(a.local_pref # 0, Code.local_pref, Bytes4(a.local_pref))
        \o field(a.atomic_aggregate = 1, Code.atomic_aggregate, <<>>)
        \o field(a.aggregator # Null, Code.aggregator,
                 Bytes2(pair(a.aggregator).as) \o pair(a.aggregator).origin)
        \o field(a.community # Null, Code.community, EncodeCommunity(list(a.community)))
        \o field(a.as4_path # Null, Code.as4_path, EncodePath(segments(a.as4_path), 4))
        \o field(a.as4_aggregator # Null, Code.as4_aggregator,
                 Bytes4(pair(a.as4_aggregator).as) \o pair(a.as4_aggregator).origin)

EncodeRoutes(routes) ==
    Concat([n \in 1..Len(routes) |->
        <<routes[n].length>> \o SubSeq(routes[n].prefix, 1, PrefixBytes(routes[n].length))])

\* A message: routes to withdraw, attributes, routes that have them.
Encode(m) ==
    LET withdrawn == EncodeRoutes(m.withdraw)
        attributes == IF m.update = <<>> THEN <<>>
                      ELSE EncodeAttributes(m.attributes, m.extended)
    IN  Bytes2(Len(withdrawn)) \o withdrawn
        \o Bytes2(Len(attributes)) \o attributes \o EncodeRoutes(m.update)
=============================================================================
