--------------------------- MODULE NeighborTable ---------------------------
(***************************************************************************)
(* What the commands do to the configuration: the neighbour table, the     *)
(* aliases of attribute values, the destinations of the update log; what   *)
(* the three views of a route show of it, and what `write' saves of it.    *)
(*                                                                         *)
(* Tokens are strings.  Numeral and Address give the number or the address *)
(* that a token is the text of.  Garbage is the token, and 0 <= Junk the   *)
(* number, found where nothing was stored.                                 *)
(***************************************************************************)
EXTENDS CommandTree, Integers

CONSTANTS
    Numeral,      \* tokens that are numbers, with their values
    Address,      \* tokens that are addresses, with their values
    Garbage, Junk,
    DefaultBuffer \* the sizes of a buffer that was not configured

Inverse1(f, v) == CHOOSE t \in DOMAIN f : f[t] = v
Text(f, v) == IF \E t \in DOMAIN f : f[t] = v THEN Inverse1(f, v) ELSE Garbage

\* string_to_uint32_t, string_to_uint16_t and atoi.
Number(token) == IF token \in DOMAIN Numeral THEN Numeral[token] ELSE 0

\* set_bgp_id and string_to_ip: inet_aton is compared with -1, which it never
\* returns, so a bad address leaves the variable as it was.
Aton(token) == IF token \in DOMAIN Address THEN Address[token] ELSE Junk

\* tokens[i]; the code does not look at the length of the line.
Token(tokens, i) == IF i < Len(tokens) THEN tokens[i + 1] ELSE Garbage

\* An assignment to an element of a map, which is made if it is not there.
Put(f, k, v) == [x \in DOMAIN f \cup {k} |-> IF x = k THEN v ELSE f[x]]

-----------------------------------------------------------------------------
(* The configuration.                                                      *)

Unset == -1           \* our identifier is 0 and its text is empty

NoTable ==
    [thread_q |-> <<>>, bgp_id |-> Unset, dumper |-> FALSE, udp_map |-> <<>>, wild |-> FALSE]

\* A new neighbour as the copy constructor leaves it: ipv4 is not copied.
NewPeer(p_ip, AS) ==
    [p_ip |-> p_ip, ipv4 |-> 0, AS |-> AS, bgp_id |-> 0, aliases |-> <<>>,
     aliasing |-> FALSE, tx |-> DefaultBuffer, rx |-> DefaultBuffer]

None == 0             \* no neighbour

FirstOf(match) == IF match = {} THEN None ELSE Min(match)

get_peer_by_str_ip(t, ip) ==
    FirstOf({i \in 1..Len(t.thread_q) : t.thread_q[i].p_ip = ip})
get_peer_by_bgp_id(t, id) ==
    FirstOf({i \in 1..Len(t.thread_q) : t.thread_q[i].bgp_id = id})

\* Only the first neighbour is asked.
peer_doing_alias(t) == Len(t.thread_q) > 0 /\ t.thread_q[1].aliasing

peer_exists(t, ip) ==
    ip \in DOMAIN Address /\ \E i \in 1..Len(t.thread_q) : t.thread_q[i].ipv4 = Address[ip]

-----------------------------------------------------------------------------
(* Aliases.                                                                *)

Code == [bgp_id |-> 0, origin |-> 1, as_path |-> 2, next_hop |-> 3,
         multi_exit_disc |-> 4, local_pref |-> 5, aggregator |-> 7, community |-> 8]

\* The loop of set_translation over the size the vector had at first, at element i:
\* an erased element moves the later ones down and leaves a copy of the last behind
\* the end, which the loop then looks at; erasing that one would be wild.
EraseAt(s, i, code, value) ==
    IF s.slots[i].code # code \/ s.slots[i].value # value THEN s
    ELSE IF i > s.size THEN [s EXCEPT !.wild = TRUE]
    ELSE [slots |-> [j \in DOMAIN s.slots |->
                        IF i <= j /\ j < s.size THEN s.slots[j + 1] ELSE s.slots[j]],
          size |-> s.size - 1, wild |-> s.wild]

EraseEqual(aliases, code, value) ==
    LET after[i \in 0..Len(aliases)] ==
            IF i = 0 THEN [slots |-> aliases, size |-> Len(aliases), wild |-> FALSE]
            ELSE EraseAt(after[i - 1], i, code, value)
        end == after[Len(aliases)]
    IN  [list |-> SubSeq(end.slots, 1, end.size), wild |-> end.wild]

\* std::sort by code.  It leaves open in what order aliases of one code come, and no more
\* is used of that order than that it is the same for the same list.  (TLC takes the first
\* order it finds; read from its end, that puts the newest of one code first.)
SortByCode(list) ==
    LET size == Len(list)
        from == CHOOSE f \in Bijection(1..size, 1..size) : \A m, n \in 1..size :
                    m < n => Code[list[f[n]].code] <= Code[list[f[m]].code]
    IN  [n \in 1..size |-> list[from[size + 1 - n]]]

\* Mutant of set_translation: an alias of the value stays beside the new one.
set_translation_appends(t, i, code, value, name) ==
    LET new == [code |-> code, value |-> value, name |-> name]
    IN  [t EXCEPT !.thread_q[i].aliases = SortByCode(Append(@, new)),
                  !.thread_q[i].aliasing = TRUE]

\* The new alias is put last and the list sorted by code.
set_translation(t, i, code, value, name) ==
    LET rest == EraseEqual(t.thread_q[i].aliases, code, value)
        new == [code |-> code, value |-> value, name |-> name]
    IN  [t EXCEPT !.thread_q[i].aliases = SortByCode(Append(rest.list, new)),
                  !.thread_q[i].aliasing = TRUE,
                  !.wild = @ \/ rest.wild]

\* The code, value and name a function sets for neighbour i.
AliasSet(t, func, i, tokens) ==
    LET tok(n) == Token(tokens, n)
        pair(code) == [code |-> code, value |-> Number(tok(5)), name |-> tok(6)]
    IN  CASE func = "alias_bgp_id" ->
               [code |-> "bgp_id", value |-> t.thread_q[i].bgp_id, name |-> tok(5)]
          [] func = "alias_origin" -> [code |-> "origin", value |-> 0, name |-> ""]
          [] func = "alias_as_path" -> pair("as_path")
          [] func = "alias_v4nexthop" ->
               [code |-> "next_hop", name |-> tok(7),
                value |-> IF tok(6) \in DOMAIN Address THEN Address[tok(6)] ELSE 0]
          [] func = "alias_med" -> pair("multi_exit_disc")
          [] func = "alias_local_pref" -> pair("local_pref")
          [] func = "alias_community" -> pair("community")

AliasFunc == {"alias_bgp_id", "alias_origin", "alias_as_path", "alias_v4nexthop",
              "alias_med", "alias_local_pref", "alias_community"}

\* The parts of a text: a value as it is, or an alias.
Plain(value) == [value |-> value]
Named(name) == [alias |-> name]

\* What may be printed for a value of a route that carries identifier id; the
\* parts of the text in order.  The first alias that fits is taken.  A community
\* is compared as four bytes of which only two are its own, so its alias may or
\* may not be found.
translate(t, id, code, value) ==
    LET i == IF peer_doing_alias(t) THEN get_peer_by_bgp_id(t, id) ELSE None
        list == IF i = None THEN <<>> ELSE t.thread_q[i].aliases
        found == FirstOf({n \in 1..Len(list) : /\ list[n].code = code
                                               /\ code = "bgp_id" \/ list[n].value = value})
        name == Named(list[found].name)
    IN  IF found = None THEN {<<Plain(value)>>}
        ELSE IF code \in {"as_path", "aggregator"} THEN {<<Plain(value), name>>}
        ELSE IF code = "community" THEN {<<Plain(value)>>, <<name>>}
        ELSE {<<name>>}

-----------------------------------------------------------------------------
(* The views of a route: what is shown, by field.                          *)

Each(t, id, code, values) == [n \in DOMAIN values |-> translate(t, id, code, values[n])]

Common(t, e) ==
    [as_path |-> Each(t, e.id, "as_path", e.as_path),
     next_hop |-> translate(t, e.id, "next_hop", e.next_hop),
     aggregator |-> Each(t, e.id, "aggregator", e.aggregator.origin)
                       \o Each(t, e.id, "as_path", e.aggregator.as),
     community |-> [n \in DOMAIN e.community |->
                       <<translate(t, e.id, "as_path", e.community[n].as),
                         translate(t, e.id, "community", e.community[n].value)>>]]

Metrics(t, e) ==
    [multi_exit_disc |-> translate(t, e.id, "multi_exit_disc", e.multi_exit_disc),
     local_pref |-> translate(t, e.id, "local_pref", e.local_pref)]

\* A record with the fields of two.
Merge(r, s) == [x \in DOMAIN r \cup DOMAIN s |-> IF x \in DOMAIN r THEN r[x] ELSE s[x]]

\* Mutant of display_entry: the next hop as an address.
display_entry_address(t, e) ==
    Merge([Common(t, e) EXCEPT !.next_hop = {<<Plain(e.next_hop)>>}], Metrics(t, e))

\* `show bgp ipv4', the API's JSON, in which the metrics are numbers, and the log.
display_entry(t, e) == Merge(Common(t, e), Metrics(t, e))

jsonify_entry(t, e) ==
    Merge(Common(t, e), [multi_exit_disc |-> {<<Plain(e.multi_exit_disc)>>},
                         local_pref |-> {<<Plain(e.local_pref)>>}])

dump_update(t, e) ==
    Merge(display_entry(t, e), [bgp_id |-> translate(t, e.id, "bgp_id", e.id)])

\* `show bgp neighbors': the identifier of neighbour i.
ShownId(t, i) ==
    IF t.thread_q[i].aliasing
    THEN translate(t, t.thread_q[i].bgp_id, "bgp_id", t.thread_q[i].bgp_id)
    ELSE {<<Plain(t.thread_q[i].bgp_id)>>}

-----------------------------------------------------------------------------
(* The log's destinations.                                                 *)

Htons(port) == (port % 256) * 256 + port \div 256

Logging(tokens) == [host |-> Token(tokens, 4), port |-> Htons(Number(Token(tokens, 5)))]

\* Mutant of set_peer_logging: the destination is kept under the address.
set_peer_logging_by_ipv4(t, i, tokens) ==
    IF Aton(Token(tokens, 4)) = 0 THEN t
    ELSE [t EXCEPT !.udp_map = Put(@, t.thread_q[i].ipv4, Logging(tokens))]

\* set_peer_logging turns the port round, and the sender does so again for the
\* address: it is the turned port the packets go to.
set_peer_logging(t, i, tokens) ==
    IF Aton(Token(tokens, 4)) = 0 THEN t
    ELSE [t EXCEPT !.udp_map = Put(@, t.thread_q[i].bgp_id, Logging(tokens))]

\* Where the update log of a route goes; a host that is no address leaves the
\* sender's address 0.
Destination(t, id) ==
    IF id \notin DOMAIN t.udp_map THEN [host |-> "file", port |-> 0]
    ELSE IF t.udp_map[id].host \in DOMAIN Address THEN t.udp_map[id]
    ELSE [t.udp_map[id] EXCEPT !.host = "0.0.0.0"]

-----------------------------------------------------------------------------
(* The other functions.                                                    *)

proto_bgp_neighbor(t, tokens) ==
    LET ip == Token(tokens, 1)
        peer == NewPeer(IF ip \in DOMAIN Address THEN ip ELSE Garbage, Number(Token(tokens, 3)))
    IN  IF peer_exists(t, ip) THEN t
        ELSE [t EXCEPT !.thread_q = Append(@, peer)]

toggle_update_dump(t, tokens) ==
    [t EXCEPT !.dumper = IF Token(tokens, 1) = "on" THEN TRUE
                         ELSE IF Token(tokens, 1) = "off" THEN FALSE ELSE @]

buffer_size(tokens) == <<Number(Token(tokens, 3)), Number(Token(tokens, 4))>>

PeerFunc == AliasFunc \cup {"set_peer_logging", "rcv_buffer_size", "snd_buffer_size"}

\* The configuration after a function.
Run(t, func, tokens) ==
    LET i == get_peer_by_str_ip(t, Token(tokens, 1))
        a == AliasSet(t, func, i, tokens)
    IN  CASE func = "set_bgp_id" -> [t EXCEPT !.bgp_id = Aton(Token(tokens, 1))]
          [] func = "toggle_update_dump" -> toggle_update_dump(t, tokens)
          [] func = "proto_bgp_neighbor" -> proto_bgp_neighbor(t, tokens)
          [] func \in PeerFunc /\ i = None -> t
          [] func \in AliasFunc /\ i # None -> set_translation(t, i, a.code, a.value, a.name)
          [] func = "set_peer_logging" /\ i # None -> set_peer_logging(t, i, tokens)
          [] func = "rcv_buffer_size" /\ i # None ->
               [t EXCEPT !.thread_q[i].rx = buffer_size(tokens)]
          [] func = "snd_buffer_size" /\ i # None ->
               [t EXCEPT !.thread_q[i].tx = buffer_size(tokens)]
          [] OTHER -> t

\* The length of line a function reads without asking for it.
Reads(t, func, tokens) ==
    LET i == get_peer_by_str_ip(t, Token(tokens, 1))
    IN  CASE func \in {"set_bgp_id", "toggle_update_dump"} -> 2
          [] func \in {"proto_bgp_neighbor", "show_bgp_prefix"} -> 4
          [] func \in PeerFunc /\ i = None -> 2
          [] func = "alias_origin" -> 2
          [] func \in {"alias_bgp_id", "set_peer_logging"} -> 6
          [] func \in {"rcv_buffer_size", "snd_buffer_size"} -> 5
          [] func = "alias_v4nexthop" -> 8
          [] func \in AliasFunc -> 7
          [] OTHER -> 1

-----------------------------------------------------------------------------
(* write_configs.  A line is a sequence of tokens.                         *)

\* An alias as it is saved: some codes end the line, the others leave it open after
\* the word `attribute'.
SavedCode == {"bgp_id", "as_path", "next_hop", "community"}

SavedAlias(p, a) ==
    CASE a.code = "bgp_id" -> <<"neighbor", p.p_ip, "attribute", "bgp-id", "alias", a.name>>
      [] a.code = "as_path" ->
           <<"neighbor", p.p_ip, "attribute", "as-path", "alias", Text(Numeral, a.value), a.name>>
      [] a.code = "next_hop" ->
           <<"neighbor", p.p_ip, "attribute", "next-hop", "alias", "ipv4",
             Text(Address, a.value), a.name>>
      [] a.code = "community" ->
           <<"neighbor", p.p_ip, "attribute", "community", "alias", Text(Numeral, a.value), a.name>>
      [] OTHER -> <<"neighbor", p.p_ip, "attribute">>

SavedAliases(p) ==
    LET after[n \in 0..Len(p.aliases)] ==
            IF n = 0 THEN [lines |-> <<>>, open |-> <<>>]
            ELSE LET line == after[n - 1].open \o SavedAlias(p, p.aliases[n])
                 IN  IF p.aliases[n].code \in SavedCode
                     THEN [lines |-> Append(after[n - 1].lines, line), open |-> <<>>]
                     ELSE [lines |-> after[n - 1].lines, open |-> line]
        end == after[Len(p.aliases)]
    IN  end.lines \o (IF end.open = <<>> THEN <<>> ELSE <<Append(end.open, "!")>>)

\* The lines every neighbour has; its destination of the log, if there is one.
SavedBuffer(p, word, b) == <<"neighbor", p.p_ip, word, Text(Numeral, b[1]), Text(Numeral, b[2])>>

SavedRemoteAs(p) == <<"neighbor", p.p_ip, "remote-as", Text(Numeral, p.AS)>>

SavedLogging(t, p) ==
    IF p.bgp_id \notin DOMAIN t.udp_map THEN <<>>
    ELSE <<<<"neighbor", p.p_ip, "logging", "host", t.udp_map[p.bgp_id].host,
             Text(Numeral, t.udp_map[p.bgp_id].port)>>>>

\* Mutant of SavedPeer: one buffer's sizes for both.
SavedPeerBuffers(t, p) ==
    <<SavedRemoteAs(p), SavedBuffer(p, "tx-buffer", p.tx), SavedBuffer(p, "rx-buffer", p.tx)>>
    \o SavedLogging(t, p) \o SavedAliases(p)

SavedPeer(t, p) ==
    <<SavedRemoteAs(p), SavedBuffer(p, "tx-buffer", p.tx), SavedBuffer(p, "rx-buffer", p.rx)>>
    \o SavedLogging(t, p) \o SavedAliases(p)

\* The identifier's line is written whether it is set or not.
write_configs(t) ==
    <<IF t.bgp_id = Unset THEN <<"bgp-id">> ELSE <<"bgp-id", Text(Address, t.bgp_id)>>>>
    \o (IF t.dumper THEN <<<<"dumper", "on">>>> ELSE <<>>)
    \o FlattenSeq([n \in DOMAIN t.thread_q |-> SavedPeer(t, t.thread_q[n])])

\* The words of these lines begin no other word of the tree, but one.
SavedWord ==
    {"bgp-id", "dumper", "on", "neighbor", "remote-as", "tx-buffer", "rx-buffer", "logging",
     "host", "attribute", "alias", "as-path", "next-hop", "ipv4", "community"}

ASSUME AbbreviationAssumption ==
    \A pair \in Abbreviation : pair[1] \in SavedWord => pair = <<"neighbor", "neighbors">>

\* The default sizes and 0 can be written as numbers, and what is found where nothing
\* was stored is not the text of an address.
ASSUME TextAssumption ==
    /\ 0 \in Range(Numeral) /\ DefaultBuffer \in Range(Numeral) \X Range(Numeral)
    /\ Garbage \notin DOMAIN Address

\* A line on a configuration.
ExecuteLine(t, tokens) ==
    IF Command(tokens) = Null THEN t ELSE Run(t, Function(Command(tokens)), tokens)

ExecuteLines(t, lines) ==
    LET after[n \in 0..Len(lines)] ==
            IF n = 0 THEN t ELSE ExecuteLine(after[n - 1], lines[n])
    IN  after[Len(lines)]

\* The lines given to a new daemon, which has no session yet.
Replay(lines) == ExecuteLines(NoTable, lines)
=============================================================================
