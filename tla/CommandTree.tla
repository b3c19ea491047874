---------------------------- MODULE CommandTree ----------------------------
(***************************************************************************)
(* The command tree of the CLI and API and the search for the command of a *)
(* line.                                                                   *)
(*                                                                         *)
(* A node is the path of names from the root; "<>" is the name of a node   *)
(* that stands for a parameter (in the code, a name that begins with '<'). *)
(* A token that is the beginning of a name matches it: Abbreviation has    *)
(* the pairs of a token and a name it begins.                              *)
(***************************************************************************)
EXTENDS Naturals, Sequences, SequencesExt

CONSTANT Abbreviation

Null == <<>>          \* no node

Attribute == <<"neighbor", "<>", "attribute">>
Attr(a) == <<"neighbor", "<>", "attribute", a>>
Alias(a) == <<"neighbor", "<>", "attribute", a, "alias">>
NextHop(v) == <<"neighbor", "<>", "attribute", "next-hop", "alias", v>>

AttributeName == {"bgp-id", "origin", "as-path", "next-hop", "med", "local-pref",
                  "atomic-aggr", "community"}

\* The sub-commands of a node that are words, in the order CmdInit leaves them
\* in: it sorts the last branch of each root command only, and the attributes
\* are not on one.
Word(node) ==
    CASE node = <<>> ->
           <<"api-get", "bgp-id", "dumper", "kill-all", "neighbor", "show", "write">>
      [] node = <<"api-get">> ->
           <<"all-from-asn", "all-private-asn", "all-public-asn", "prefix">>
      [] node = <<"dumper">> -> <<"off", "on">>
      [] node = <<"show">> -> <<"bgp">>
      [] node = <<"show", "bgp">> -> <<"adj-rib-in", "ipv4", "neighbors", "rib-withdrawn">>
      [] node = <<"neighbor", "<>">> ->
           <<"attribute", "logging", "remote-as", "rx-buffer", "timers", "tx-buffer">>
      [] node = <<"neighbor", "<>", "logging">> -> <<"host">>
      [] node = Attribute ->
           <<"bgp-id", "origin", "as-path", "next-hop", "med", "local-pref",
             "atomic-aggr", "community">>
      [] \E a \in AttributeName : node = Attr(a) -> <<"alias">>
      [] node = Alias("next-hop") -> <<"ipv4", "ipv6">>
      [] node = Alias("atomic-aggr") -> <<"boolean">>
      [] OTHER -> <<>>

\* The nodes that are followed by one parameter, and by two.
OneParameter ==
    {<<"api-get", "prefix">>, <<"show", "bgp", "ipv4">>, <<"bgp-id">>, <<"neighbor">>,
     <<"neighbor", "<>", "remote-as">>, Alias("bgp-id"), Alias("med"), Alias("local-pref")}
TwoParameters ==
    {<<"api-get", "all-from-asn">>, <<"api-get", "all-private-asn">>,
     <<"api-get", "all-public-asn">>, <<"neighbor", "<>", "logging", "host">>,
     <<"neighbor", "<>", "rx-buffer">>, <<"neighbor", "<>", "tx-buffer">>,
     <<"neighbor", "<>", "timers">>, Alias("as-path"), Alias("community"),
     NextHop("ipv4"), NextHop("ipv6")}

\* The nodes that a parameter follows.
BeforeParameter(node) ==
    node \in OneParameter \cup TwoParameters \/ \E p \in TwoParameters : node = Append(p, "<>")

SubCommands(node) ==
    IF Word(node) # <<>> THEN Word(node) ELSE IF BeforeParameter(node) THEN <<"<>">> ELSE <<>>

\* The function of a node, or none if it has that of the node above it.
Inherited == "inherited"
Func(node) ==
    CASE node = <<"api-get">> -> "api_get_prefix"
      [] node = <<"api-get", "all-from-asn">> -> "api_get_all_origin_as"
      [] node = <<"api-get", "all-private-asn">> -> "api_get_private_origin_as"
      [] node = <<"api-get", "all-public-asn">> -> "api_get_public_origin_as"
      [] node = <<"bgp-id">> -> "set_bgp_id"
      [] node = <<"dumper">> -> "toggle_update_dump"
      [] node = <<"kill-all">> -> "kill_all_signal"
      [] node = <<"write">> -> "write_configs"
      [] node = <<"show">> -> "Show"
      [] node = <<"show", "bgp", "ipv4">> -> "show_bgp_prefix"
      [] node = <<"show", "bgp", "neighbors">> -> "show_bgp_neighbors"
      [] node = <<"show", "bgp", "adj-rib-in">> -> "show_bgp_adj_rib_in"
      [] node = <<"show", "bgp", "rib-withdrawn">> -> "show_bgp_adj_rib_wdrawn"
      [] node = <<"neighbor">> -> "proto_bgp_neighbor"
      [] node = <<"neighbor", "<>", "logging">> -> "set_peer_logging"
      [] node = <<"neighbor", "<>", "rx-buffer">> -> "rcv_buffer_size"
      [] node = <<"neighbor", "<>", "tx-buffer">> -> "snd_buffer_size"
      [] node = <<"neighbor", "<>", "timers">> -> "proto_bgp_peer_timers"
      [] node = Attribute -> "proto_bgp_peer_attribute"
      [] node = Attr("bgp-id") -> "alias_bgp_id"
      [] node = Attr("origin") -> "alias_origin"
      [] node = Attr("as-path") -> "alias_as_path"
      [] node = Attr("next-hop") -> "alias_nexthop"
      [] node \in {NextHop("ipv4"), NextHop("ipv6")} -> "alias_v4nexthop"
      [] node = Attr("med") -> "alias_med"
      [] node = Attr("local-pref") -> "alias_local_pref"
      [] node = Attr("atomic-aggr") -> "alias_atomic_aggr"
      [] node = Attr("community") -> "alias_community"
      [] OTHER -> Inherited

Function(node) ==
    Func(SubSeq(node, 1, Max({k \in 1..Len(node) : Func(SubSeq(node, 1, k)) # Inherited})))

-----------------------------------------------------------------------------
(* FindCommand.                                                            *)

Begins(token, name) == token = name \/ <<token, name>> \in Abbreviation

\* The last root command a token matches.
RootCommand(token) ==
    LET match == {i \in 1..Len(Word(Null)) : Begins(token, Word(Null)[i])}
    IN  IF match = {} THEN Null ELSE <<Word(Null)[Max(match)]>>

\* The first sub-command a token matches; a token that matches none is passed over.
SubCommand(node, token) ==
    LET subs == SubCommands(node)
        match == {i \in 1..Len(subs) : Begins(token, subs[i]) \/ subs[i] = "<>"}
    IN  IF match = {} THEN node ELSE Append(node, subs[Min(match)])

\* The nodes FindCommand comes to, a token at a time, if nothing interferes; a line
\* whose first token is no root command has none.
Walk(tokens) ==
    LET node[n \in 1..Len(tokens)] ==
            IF n = 1 THEN RootCommand(tokens[1]) ELSE SubCommand(node[n - 1], tokens[n])
    IN  node

\* What FindCommand returns then.
Command(tokens) ==
    IF tokens = <<>> \/ RootCommand(tokens[1]) = Null THEN Null
    ELSE Walk(tokens)[Len(tokens)]
=============================================================================
