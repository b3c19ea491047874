---------------------------- MODULE MCRouteTable ----------------------------
(* Messages that take every path through the parser, for RouteTable.       *)
EXTENDS RouteTable

Net(a, b, c, d, length) == [prefix |-> <<a, b, c, d>>, length |-> length]
Big == Net(10, 0, 0, 0, 8)
Half == Net(10, 0, 0, 0, 9)
Odd22 == Net(192, 168, 4, 0, 22)
Edge == Net(172, 24, 0, 0, 13)
Host == Net(172, 32, 0, 1, 32)
Default == Net(0, 0, 0, 0, 0)

Seq2(values) == [seg_type |-> 2, seg_value |-> values]
Set1(values) == [seg_type |-> 1, seg_value |-> values]

\* An external route with every attribute the parser keeps, an AS_SET behind its
\* AS_SEQUENCE.
Full == [origin |-> 2,
         as_path |-> <<Seq2(<<23456, 300>>), Set1(<<9>>)>>,
         as4_path |-> <<Seq2(<<70000, 300>>), Set1(<<9>>)>>,
         ipv4_next_hop |-> <<1, 2, 3, 4>>, med |-> 65537, local_pref |-> 100,
         atomic_aggregate |-> 1,
         aggregator |-> [as |-> 23456, origin |-> <<9, 8, 7, 6>>],
         as4_aggregator |-> [as |-> 70000, origin |-> <<9, 8, 7, 6>>],
         community |-> <<[as |-> 300, value |-> 1], [as |-> 2, value |-> 513]>>]

\* A route of the neighbour's own: the AS_PATH is empty.
Own == [NoAttributes EXCEPT !.ipv4_next_hop = <<1, 2, 3, 5>>, !.local_pref = 100]

\* One with an ORIGIN there is no text for, one with AS4_AGGREGATOR alone, one
\* whose extended lengths lead the loop to a NEXT_HOP of 232 bytes: the headers it
\* reads are (80, 1, 0), (1, 1, 80), (0, 6, 2), (2, 3, 232).
Unknown == [Full EXCEPT !.origin = 3]
Alone == [Full EXCEPT !.aggregator = Null]
Long == [NoAttributes EXCEPT !.origin = 1, !.as_path = <<Seq2(<<1000, 7>>)>>]

Announce(routes, attributes, extended) ==
    [withdraw |-> <<>>, update |-> routes, attributes |-> attributes,
     extended |-> extended]

Withdraw1(routes, more) ==
    [withdraw |-> routes, update |-> more, attributes |-> Full, extended |-> FALSE]

MCMessage ==
    [n \in Neighbor |->
        IF n = 1
        THEN {Announce(<<Big, Edge>>, Full, FALSE),
              Announce(<<Odd22, Host>>, Full, TRUE),
              Announce(<<Big>>, Own, FALSE),
              Announce(<<Half>>, Alone, FALSE),
              Announce(<<Host>>, Long, TRUE),
              Announce(<<Default, Host>>, Own, FALSE),
              Withdraw1(<<Edge, Odd22>>, <<>>),
              Withdraw1(<<Big>>, <<Edge>>)}
        ELSE {Announce(<<Host>>, Unknown, FALSE)}]

MCProbe == {<<10, 0, 0, 0>>, <<10, 255, 255, 255>>, <<9, 255, 255, 255>>,
            <<11, 0, 0, 0>>, <<192, 168, 3, 255>>, <<192, 168, 7, 255>>,
            <<192, 168, 8, 0>>, <<172, 31, 255, 255>>, <<172, 23, 255, 255>>,
            <<172, 32, 0, 1>>, <<172, 32, 0, 2>>}
=============================================================================
