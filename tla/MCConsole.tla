----------------------------- MODULE MCConsole -----------------------------
(* Two neighbours, the second opened and with aliases, a client that sends *)
(* lines of every kind and two that send few, for Console.                 *)
EXTENDS Console, TLC

MCSymmetry == Permutations(Instance) \cup Permutations(Conn)

MCNumeral ==
    ("0" :> 0) @@ ("1" :> 1) @@ ("2" :> 2) @@ ("7" :> 7) @@ ("64" :> 64) @@ ("65" :> 65) @@
    ("514" :> 514) @@ ("515" :> 515) @@ ("770" :> 770)

MCAddress == ("10.0.0.1" :> 101) @@ ("10.0.0.2" :> 102) @@ ("9.9.9.9" :> 109) @@ ("0.0.0.0" :> 0)

MCRouterId == ("10.0.0.1" :> 201) @@ ("10.0.0.2" :> 202)

MCDefaultBuffer == <<64, 64>>

\* "n" begins neighbor, "a" begins api-get, as-path, alias and others.
MCAbbreviation ==
    {<<"n", "neighbor">>, <<"n", "neighbors">>, <<"a", "api-get">>, <<"a", "attribute">>,
     <<"a", "as-path">>, <<"a", "atomic-aggr">>, <<"a", "alias">>, <<"a", "adj-rib-in">>,
     <<"a", "all-from-asn">>, <<"a", "all-private-asn">>, <<"a", "all-public-asn">>}

AliasLine(ip, tail) == <<"neighbor", ip, "attribute">> \o tail

AnyLine ==
    {<<>>, <<"bogus">>, <<"kill-all">>, <<"neighbor">>,
     <<"api-get", "prefix", "9.9.9.9">>, <<"show", "bgp", "n">>, <<"dumper", "on">>,
     <<"bgp-id", "9.9.9.9">>, <<"write">>,
     <<"neighbor", "10.0.0.1", "remote-as", "1">>,
     <<"neighbor", "10.0.0.2", "rx-buffer", "64", "65">>,
     <<"neighbor", "10.0.0.1", "logging", "host", "logger", "515">>,
     <<"neighbor", "10.0.0.2", "logging", "host", "9.9.9.9", "514">>,
     <<"neighbor", "10.0.0.2", "logging", "host", "0.0.0.0", "514">>,
     AliasLine("10.0.0.1", <<"bgp-id", "alias", "y">>),
     AliasLine("10.0.0.1", <<"as-path", "alias", "2", "x">>),
     AliasLine("10.0.0.2", <<"next-hop", "alias", "ipv4", "9.9.9.9", "x">>),
     AliasLine("10.0.0.2", <<"med", "alias", "7", "x">>),
     AliasLine("10.0.0.2", <<"community", "alias", "2", "y">>),
     <<"n", "10.0.0.2", "a", "a", "a", "2", "y">>}

FewLines == {<<"bogus">>, <<"api-get", "prefix", "9.9.9.9">>, <<"dumper", "on">>}

MCLine == <<AnyLine, FewLines, {<<"api-get", "prefix", "9.9.9.9">>}>>

MCInitTable ==
    {[NoTable EXCEPT !.bgp_id = 109,
        !.thread_q = <<NewPeer("10.0.0.1", 1),
            [NewPeer("10.0.0.2", 2) EXCEPT
                !.bgp_id = 202, !.aliasing = TRUE,
                !.aliases = <<[code |-> "as_path", value |-> 2, name |-> "x"],
                              [code |-> "community", value |-> 7, name |-> "x"]>>]>>]}
=============================================================================
