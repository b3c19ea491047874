------------------------------ MODULE Console ------------------------------
(***************************************************************************)
(* The daemon as its operators meet it: instances start, take the ports of *)
(* the CLI and the API and serve connections, each in a thread of its own; *)
(* a connection reads a line, looks its command up through a static token  *)
(* all connections of the process share, runs it on the configuration and  *)
(* writes the answer.                                                      *)
(*                                                                         *)
(* A process has MaxFd descriptors for connections.  A descriptor is a     *)
(* number, and behind it is a socket; accept takes the lowest number that  *)
(* is free.                                                                *)
(***************************************************************************)
EXTENDS NeighborTable, FiniteSets

CONSTANTS
    Instance,     \* runs of the program
    Conn,         \* connections at a time
    Line,         \* the lines the client at each socket may send, as tokens
    RouterId,     \* the identifier in the OPEN of the neighbour at an address
    InitTable,    \* configurations a serving instance may start from
    MaxFd,
    MaxLines, MaxAccepts      \* bounds on lines read and connections made

ASSUME BoundAssumption == MaxFd \in Nat /\ MaxLines \in Nat /\ MaxAccepts \in Nat
ASSUME RouterIdAssumption ==
    \A a, b \in DOMAIN RouterId : RouterId[a] # 0 /\ (RouterId[a] = RouterId[b] => a = b)
ASSUME LineAssumption == \A s \in 1..MaxAccepts : Line[s] \subseteq Seq(STRING)

\* A configuration has its fields, and a list of neighbours with lists of aliases, each
\* of an attribute there is a code for.
IsList(s) == Len(s) \in Nat /\ s = [n \in 1..Len(s) |-> s[n]]

WellFormed(t) ==
    /\ DOMAIN t = {"thread_q", "bgp_id", "dumper", "udp_map", "wild"} /\ t = [x \in DOMAIN t |-> t[x]]
    /\ IsList(t.thread_q)
    /\ \A i \in 1..Len(t.thread_q) :
         LET q == t.thread_q[i]
         IN  /\ DOMAIN q = {"p_ip", "ipv4", "AS", "bgp_id", "aliases", "aliasing", "tx", "rx"}
             /\ q = [x \in DOMAIN q |-> q[x]]
             /\ IsList(q.aliases)
             /\ \A n \in 1..Len(q.aliases) : q.aliases[n].code \in DOMAIN Code

\* A neighbour has the identifier of its OPEN, or has sent none.
IdsFromOpen(t) ==
    \A i \in 1..Len(t.thread_q) :
        LET q == t.thread_q[i]
        IN  q.bgp_id = 0 \/ (q.p_ip \in DOMAIN RouterId /\ q.bgp_id = RouterId[q.p_ip])

\* A value of a neighbour has one alias, and nothing was erased behind the end.
OneAlias(t) ==
    /\ ~t.wild
    /\ \A i \in 1..Len(t.thread_q) :
         LET l == t.thread_q[i].aliases
         IN  \A m, n \in 1..Len(l) : l[m].code = l[n].code /\ l[m].value = l[n].value => m = n

\* A neighbour that has an alias is known to have one.
AliasingIsKnown(t) ==
    \A i \in 1..Len(t.thread_q) : t.thread_q[i].aliases # <<>> => t.thread_q[i].aliasing

\* Every value is one a command can have set: peer_exists lets 0.0.0.0 in only as the
\* first neighbour.
AsEntered(t) ==
    /\ t.bgp_id \in {Unset, Junk} \cup Range(Address) /\ t.dumper \in BOOLEAN
    /\ \A i \in 1..Len(t.thread_q) :
         LET q == t.thread_q[i]
             l == q.aliases
         IN  /\ q.ipv4 = 0 /\ (i > 1 /\ q.p_ip \in DOMAIN Address => Address[q.p_ip] # 0)
             /\ q.AS \in Range(Numeral)
             /\ {q.tx, q.rx} \subseteq Range(Numeral) \X Range(Numeral)
             /\ \A n \in 1..Len(l) :
                  /\ l[n].code \in {"as_path", "community"} => l[n].value \in Range(Numeral)
                  /\ l[n].code = "next_hop" => l[n].value \in {0} \cup Range(Address)

ASSUME InitTableAssumption ==
    \A t \in InitTable : /\ WellFormed(t) /\ IdsFromOpen(t) /\ OneAlias(t)
                         /\ AliasingIsKnown(t) /\ AsEntered(t)

VARIABLES
    start,        \* where the main thread of an instance is
    lock,         \* the instance that has the record lock, or Free
    cli, api,     \* the listening socket of an instance, by port
    stop,         \* stop_and_exit_instance
    table,        \* the configuration of an instance
    current_token,    \* cmd_parser::current_token of an instance
    behind,       \* the socket behind each descriptor of an instance, or Closed
    conn,         \* the connections
    accepted, lines,  \* connections made, lines read
    aliased,      \* the last alias set for each neighbour, code and value
    logged,       \* the last log destination set for each neighbour
    stolen,       \* a thread closed a descriptor another connection had
    astray,       \* an answer did not go to the socket its line came from
    left          \* sockets of API connections that hung up without a line

processVars == <<start, lock, cli, api>>
configVars == <<table, aliased, logged>>
countVars == <<accepted, lines>>
historyVars == <<stolen, astray, left>>
vars == <<processVars, stop, configVars, current_token, behind, conn, countVars, historyVars>>

Free == 0
Closed == 0
Fd == 1..MaxFd
Busy == {"read", "clear", "root", "sub", "run", "answer", "close_tx", "close_rx", "close"}
NoConn == [at |-> "closed"]

TypeOK ==
    /\ start \in [Instance -> {"off", "locked", "bindcli", "bindapi", "serving", "gone"}]
    /\ lock \in Instance \cup {Free}
    /\ cli \in [Instance -> {"none", "bound", "listening"}]
    /\ api \in [Instance -> {"none", "bound", "listening"}]
    /\ stop \in [Instance -> BOOLEAN]
    /\ behind \in [Instance -> [Fd -> 0..MaxAccepts]]
    /\ \A c \in Conn : conn[c] = NoConn \/
          /\ conn[c].at \in Busy /\ conn[c].fd \in Fd /\ conn[c].of \in Instance
          /\ conn[c].asker \in 0..MaxAccepts
    /\ accepted \in 0..MaxAccepts /\ lines \in 0..MaxLines
    /\ stolen \in BOOLEAN /\ astray \in BOOLEAN /\ left \subseteq 1..MaxAccepts

\* What an alias of the neighbour at ip is remembered under: of its identifier there
\* is one to remember, whatever the identifier was.
AliasKey(ip, code, value) == <<ip, code, IF code = "bgp_id" THEN 0 ELSE value>>

\* The aliases of a configuration in which every value has one.
AliasesOf(t) ==
    LET set == UNION {{<<AliasKey(q.p_ip, q.aliases[n].code, q.aliases[n].value),
                         q.aliases[n].name>> : n \in DOMAIN q.aliases} : q \in Range(t.thread_q)}
    IN  [k \in {x[1] : x \in set} |-> CHOOSE name \in {x[2] : x \in set} : <<k, name>> \in set]

\* Instances that start, and no client; or one that serves, and clients, while the
\* others wait for the port.
Init ==
    /\ \/ /\ start = [p \in Instance |-> "off"] /\ table = [p \in Instance |-> NoTable]
          /\ accepted = MaxAccepts
       \/ \E p \in Instance, t \in InitTable :
             /\ start = [q \in Instance |-> IF q = p THEN "serving" ELSE "bindcli"]
             /\ table = [q \in Instance |-> IF q = p THEN t ELSE NoTable]
             /\ accepted = 0
    /\ lock = Free
    /\ cli = [p \in Instance |-> IF start[p] = "serving" THEN "listening" ELSE "none"]
    /\ api = cli
    /\ stop = [p \in Instance |-> FALSE]
    /\ current_token = [p \in Instance |-> Null]
    /\ behind = [p \in Instance |-> [n \in Fd |-> Closed]]
    /\ conn = [c \in Conn |-> NoConn]
    /\ lines = 0
    /\ aliased = [p \in Instance |-> AliasesOf(table[p])] /\ logged = [p \in Instance |-> <<>>]
    /\ stolen = FALSE /\ astray = FALSE /\ left = {}

-----------------------------------------------------------------------------
(* The process.                                                            *)

\* The end of a process: its sockets are closed and its memory is gone.
Gone(p) ==
    /\ start' = [start EXCEPT ![p] = "gone"]
    /\ cli' = [cli EXCEPT ![p] = "none"] /\ api' = [api EXCEPT ![p] = "none"]
    /\ stop' = [stop EXCEPT ![p] = FALSE]
    /\ table' = [table EXCEPT ![p] = NoTable]
    /\ aliased' = [aliased EXCEPT ![p] = <<>>] /\ logged' = [logged EXCEPT ![p] = <<>>]
    /\ current_token' = [current_token EXCEPT ![p] = Null]
    /\ behind' = [behind EXCEPT ![p] = [n \in Fd |-> Closed]]
    /\ conn' = [c \in Conn |-> IF conn[c] # NoConn /\ conn[c].of = p THEN NoConn ELSE conn[c]]
    /\ UNCHANGED <<countVars, historyVars>>

serviceVars == <<stop, configVars, current_token, behind, conn, countVars, historyVars>>

\* another_instance: the lock is taken, or the program ends.
Lock(p) ==
    /\ start[p] = "off"
    /\ lock' = IF lock = Free THEN p ELSE lock
    /\ start' = [start EXCEPT ![p] = IF lock = Free THEN "locked" ELSE "gone"]
    /\ UNCHANGED <<cli, api, serviceVars>>

\* daemon(): the parent exits and its record lock with it; the child goes on
\* without one.  The constructor makes the database anew.
Daemon(p) ==
    /\ start[p] = "locked"
    /\ lock' = Free
    /\ start' = [start EXCEPT ![p] = "bindcli"]
    /\ UNCHANGED <<cli, api, serviceVars>>

\* Mutant of BindCli: main goes on whether or not the port could be bound.
BindCliOnce(p) ==
    /\ start[p] = "bindcli"
    /\ cli' = [cli EXCEPT ![p] = IF \E q \in Instance : cli[q] = "listening"
                                 THEN "none" ELSE "bound"]
    /\ start' = [start EXCEPT ![p] = "bindapi"]
    /\ UNCHANGED <<lock, api, serviceVars>>

\* bind() fails while another process listens, and is tried again at once.  With
\* SO_REUSEADDR two processes may bind if neither listens.
BindCli(p) ==
    /\ start[p] = "bindcli"
    /\ \A q \in Instance : cli[q] # "listening"
    /\ cli' = [cli EXCEPT ![p] = "bound"]
    /\ start' = [start EXCEPT ![p] = "bindapi"]
    /\ UNCHANGED <<lock, api, serviceVars>>

BindApi(p) ==
    /\ start[p] = "bindapi"
    /\ \A q \in Instance : api[q] # "listening"
    /\ api' = [api EXCEPT ![p] = "bound"]
    /\ start' = [start EXCEPT ![p] = "serving"]
    /\ UNCHANGED <<lock, cli, serviceVars>>

\* listen() in the port's own thread.  If it fails the exception ends the process.
ListenCli(p) ==
    /\ cli[p] = "bound"
    /\ IF \E q \in Instance : cli[q] = "listening"
       THEN Gone(p) /\ UNCHANGED lock
       ELSE /\ cli' = [cli EXCEPT ![p] = "listening"]
            /\ UNCHANGED <<start, lock, api, serviceVars>>

ListenApi(p) ==
    /\ api[p] = "bound"
    /\ IF \E q \in Instance : api[q] = "listening"
       THEN Gone(p) /\ UNCHANGED lock
       ELSE /\ api' = [api EXCEPT ![p] = "listening"]
            /\ UNCHANGED <<start, lock, cli, serviceVars>>

\* The main loop ends after kill-all.
Exit(p) == start[p] = "serving" /\ stop[p] /\ Gone(p) /\ UNCHANGED lock

-----------------------------------------------------------------------------
(* Connections.                                                            *)

FreeFd(p) == {n \in Fd : behind[p][n] = Closed}

Listening(p, port) == IF port = "cli" THEN cli[p] = "listening" ELSE api[p] = "listening"

\* A connection's thread, on descriptor n; it looks at stop first.
NewConn(p, port, n) ==
    [at |-> IF stop[p] THEN "close_tx" ELSE "read", of |-> p, port |-> port, fd |-> n,
     asker |-> 0, tokens |-> <<>>, rest |-> <<>>, command |-> Null, mixed |-> FALSE]

\* Mutant of Accept: the number after the highest in use.
AcceptNext(c, p, port) ==
    /\ conn[c] = NoConn /\ Listening(p, port) /\ accepted < MaxAccepts
    /\ FreeFd(p) # {}
    /\ LET n == Max({0} \cup (Fd \ FreeFd(p))) + 1
       IN  /\ behind' = [behind EXCEPT ![p][n] = accepted + 1]
           /\ conn' = [conn EXCEPT ![c] = NewConn(p, port, n)]
    /\ accepted' = accepted + 1
    /\ cli' = IF stop[p] /\ port = "cli" THEN [cli EXCEPT ![p] = "none"] ELSE cli
    /\ api' = IF stop[p] /\ port = "api" THEN [api EXCEPT ![p] = "none"] ELSE api
    /\ UNCHANGED <<start, lock, stop, configVars, current_token, lines, historyVars>>

\* listen_loop accepts a connection and starts a thread for it.  It looks at stop
\* when accept() has returned, and then closes the port.
Accept(c, p, port) ==
    /\ conn[c] = NoConn /\ Listening(p, port) /\ accepted < MaxAccepts
    /\ FreeFd(p) # {}
    /\ LET n == Min(FreeFd(p))
       IN  /\ behind' = [behind EXCEPT ![p][n] = accepted + 1]
           /\ conn' = [conn EXCEPT ![c] = NewConn(p, port, n)]
    /\ accepted' = accepted + 1
    /\ cli' = IF stop[p] /\ port = "cli" THEN [cli EXCEPT ![p] = "none"] ELSE cli
    /\ api' = IF stop[p] /\ port = "api" THEN [api EXCEPT ![p] = "none"] ELSE api
    /\ UNCHANGED <<start, lock, stop, configVars, current_token, lines, historyVars>>

\* accept() without a descriptor: the exception ends the process.
AcceptFails(p, port) ==
    /\ Listening(p, port) /\ accepted < MaxAccepts
    /\ FreeFd(p) = {}
    /\ Gone(p) /\ UNCHANGED lock

otherVars == <<processVars, stop, configVars, current_token, behind, countVars, historyVars>>

Socket(c) == behind[conn[c].of][conn[c].fd]

\* A connection that has read a line, and gives it to the parser if it is legal.
Reading(k, l, legal) ==
    IF legal
    THEN [k EXCEPT !.at = "clear", !.asker = behind[k.of][k.fd], !.tokens = l, !.rest = l]
    ELSE [k EXCEPT !.at = "answer", !.asker = behind[k.of][k.fd]]

\* Mutant of ReadLine: the API's socket is closed once its line is read.
ReadLineCloses(c) ==
    /\ conn[c].at = "read" /\ Socket(c) # Closed /\ lines < MaxLines
    /\ \E l \in Line[Socket(c)] : conn' = [conn EXCEPT ![c] = Reading(@, l, conn[c].port = "cli")]
    /\ behind' = IF conn[c].port = "cli" THEN behind
                 ELSE [behind EXCEPT ![conn[c].of][conn[c].fd] = Closed]
    /\ lines' = lines + 1
    /\ UNCHANGED <<processVars, stop, configVars, current_token, accepted, historyVars>>

\* A line is read.  The API port takes nothing but an api-get.
ReadLine(c) ==
    /\ conn[c].at = "read" /\ Socket(c) # Closed /\ lines < MaxLines
    /\ \E l \in Line[Socket(c)] :
          conn' = [conn EXCEPT ![c] = Reading(@, l, conn[c].port = "cli" \/ Token(l, 0) = "api-get")]
    /\ lines' = lines + 1
    /\ UNCHANGED <<processVars, stop, configVars, current_token, behind, accepted, historyVars>>

\* is_api_call reads the first token of a blank line.
ReadFaults(c) ==
    /\ conn[c].at = "read" /\ Socket(c) # Closed /\ lines < MaxLines
    /\ conn[c].port = "api" /\ <<>> \in Line[Socket(c)]
    /\ Gone(conn[c].of) /\ UNCHANGED lock

\* The thread of a new connection sees that the instance stops.
Stopped(c) ==
    /\ conn[c].at = "read" /\ conn[c].asker = 0 /\ stop[conn[c].of]
    /\ conn' = [conn EXCEPT ![c].at = "close_tx"]
    /\ UNCHANGED otherVars

\* End of file, or a descriptor that is closed.  The API's thread returns
\* without closing anything.
Eof(c) ==
    /\ conn[c].at = "read"
    /\ conn' = [conn EXCEPT ![c] = IF @.port = "cli" THEN [@ EXCEPT !.at = "close_tx"]
                                   ELSE NoConn]
    /\ left' = IF conn[c].port = "api" THEN left \cup ({Socket(c)} \ {Closed}) ELSE left
    /\ UNCHANGED <<processVars, stop, configVars, current_token, behind, countVars,
                   stolen, astray>>

\* Connections of the process that are inside FindCommand with c.
Inside(c) == {d \in Conn \ {c} : conn[d] # NoConn /\ conn[d].of = conn[c].of
                                   /\ conn[d].at \in {"root", "sub"}}

\* Mutant of FindClear: the token of the last line is not cleared.
FindKeep(c) ==
    /\ conn[c].at = "clear"
    /\ IF conn[c].tokens = <<>>
       THEN conn' = [conn EXCEPT ![c].at = "run"]
       ELSE conn' = [d \in Conn |->
                       IF d = c THEN [conn[c] EXCEPT !.at = "root", !.mixed = Inside(c) # {}]
                       ELSE IF d \in Inside(c) THEN [conn[d] EXCEPT !.mixed = TRUE]
                       ELSE conn[d]]
    /\ UNCHANGED otherVars

\* FindCommand clears the static token ...
FindClear(c) ==
    /\ conn[c].at = "clear"
    /\ IF conn[c].tokens = <<>>
       THEN conn' = [conn EXCEPT ![c].at = "run"] /\ UNCHANGED current_token
       ELSE /\ current_token' = [current_token EXCEPT ![conn[c].of] = Null]
            /\ conn' = [d \in Conn |->
                          IF d = c THEN [conn[c] EXCEPT !.at = "root", !.mixed = Inside(c) # {}]
                          ELSE IF d \in Inside(c) THEN [conn[d] EXCEPT !.mixed = TRUE]
                          ELSE conn[d]]
    /\ UNCHANGED <<processVars, stop, configVars, behind, countVars, historyVars>>

\* ... sets it to the root command, if there is one, ...
FindRoot(c) ==
    /\ conn[c].at = "root"
    /\ LET root == RootCommand(Head(conn[c].rest))
           node == IF root = Null THEN current_token[conn[c].of] ELSE root
           rest == Tail(conn[c].rest)
       IN  /\ current_token' = [current_token EXCEPT ![conn[c].of] = node]
           /\ conn' = [conn EXCEPT ![c].rest = rest,
                          ![c].command = IF rest = <<>> THEN node ELSE Null,
                          ![c].at = IF node = Null \/ rest = <<>> THEN "run" ELSE "sub"]
    /\ UNCHANGED <<processVars, stop, configVars, behind, countVars, historyVars>>

\* ... and moves it down a token at a time.
FindSub(c) ==
    /\ conn[c].at = "sub" /\ current_token[conn[c].of] # Null
    /\ LET node == SubCommand(current_token[conn[c].of], Head(conn[c].rest))
           rest == Tail(conn[c].rest)
       IN  /\ current_token' = [current_token EXCEPT ![conn[c].of] = node]
           /\ conn' = [conn EXCEPT ![c].rest = rest,
                          ![c].command = IF rest = <<>> THEN node ELSE Null,
                          ![c].at = IF rest = <<>> THEN "run" ELSE "sub"]
    /\ UNCHANGED <<processVars, stop, configVars, behind, countVars, historyVars>>

\* Another connection has just cleared it: a null pointer is dereferenced.
FindNull(c) ==
    /\ conn[c].at = "sub" /\ current_token[conn[c].of] = Null
    /\ Gone(conn[c].of) /\ UNCHANGED lock

\* What was asked for, for the properties: the alias or log destination of a
\* neighbour that a line sets.
Noted(p, func, tokens) ==
    LET t == table[p]
        ip == Token(tokens, 1)
        i == get_peer_by_str_ip(t, ip)
        a == AliasSet(t, func, i, tokens)
        key == AliasKey(ip, a.code, a.value)
    IN  /\ aliased' = IF func \in AliasFunc /\ i # None
                      THEN [aliased EXCEPT ![p] = Put(@, key, a.name)] ELSE aliased
        /\ logged' = IF func = "set_peer_logging" /\ i # None
                     THEN [logged EXCEPT ![p] = Put(@, ip, [host |-> Token(tokens, 4),
                              port |-> Number(Token(tokens, 5)), id |-> t.thread_q[i].bgp_id])]
                     ELSE logged

\* The command's function runs, or the line was invalid.
Execute(c) ==
    /\ conn[c].at = "run"
    /\ LET p == conn[c].of
           func == IF conn[c].command = Null THEN "invalid" ELSE Function(conn[c].command)
       IN  /\ table' = [table EXCEPT ![p] = Run(@, func, conn[c].tokens)]
           /\ Noted(p, func, conn[c].tokens)
           /\ stop' = [stop EXCEPT ![p] = @ \/ func = "kill_all_signal"]
    /\ conn' = [conn EXCEPT ![c].at = "answer", ![c].tokens = <<>>, ![c].rest = <<>>,
                            ![c].command = Null, ![c].mixed = FALSE]
    /\ UNCHANGED <<processVars, current_token, behind, countVars, historyVars>>

\* A function read a token the line does not have; it may also find Garbage.
ExecuteFaults(c) ==
    /\ conn[c].at = "run" /\ conn[c].command # Null
    /\ Len(conn[c].tokens) < Reads(table[conn[c].of], Function(conn[c].command), conn[c].tokens)
    /\ Gone(conn[c].of) /\ UNCHANGED lock

\* Mutant of Answer: the API's thread returns without closing.
AnswerReturns(c) ==
    /\ conn[c].at = "answer"
    /\ astray' = (astray \/ Socket(c) # conn[c].asker)
    /\ conn' = [conn EXCEPT ![c] = IF @.port = "api" THEN NoConn
                  ELSE [@ EXCEPT !.at = IF stop[@.of] THEN "close_tx" ELSE "read"]]
    /\ UNCHANGED <<processVars, stop, configVars, current_token, behind, countVars, stolen, left>>

\* The answer is written; the API closes after one.
Answer(c) ==
    /\ conn[c].at = "answer"
    /\ astray' = (astray \/ Socket(c) # conn[c].asker)
    /\ conn' = [conn EXCEPT ![c].at =
                  IF conn[c].port = "api" \/ stop[conn[c].of] THEN "close_tx" ELSE "read"]
    /\ UNCHANGED <<processVars, stop, configVars, current_token, behind, countVars, stolen, left>>

\* fclose of one stream closes the descriptor; so does fclose of the other, and
\* close(), by its number.
CloseTx(c) ==
    /\ conn[c].at = "close_tx"
    /\ behind' = [behind EXCEPT ![conn[c].of][conn[c].fd] = Closed]
    /\ conn' = [conn EXCEPT ![c].at = "close_rx"]
    /\ UNCHANGED <<processVars, stop, configVars, current_token, countVars, historyVars>>

CloseAgain(c) ==
    /\ conn[c].at \in {"close_rx", "close"}
    /\ stolen' = (stolen \/ Socket(c) # Closed)
    /\ behind' = [behind EXCEPT ![conn[c].of][conn[c].fd] = Closed]
    /\ conn' = [conn EXCEPT ![c] = IF @.at = "close" THEN NoConn ELSE [@ EXCEPT !.at = "close"]]
    /\ UNCHANGED <<processVars, stop, configVars, current_token, countVars, astray, left>>

\* The OPEN of a neighbour sets its identifier.
Open(p, i) ==
    /\ i <= Len(table[p].thread_q)
    /\ LET peer == table[p].thread_q[i]
       IN  /\ peer.p_ip \in DOMAIN RouterId /\ peer.bgp_id = 0
           /\ table' = [table EXCEPT ![p].thread_q[i].bgp_id = RouterId[peer.p_ip]]
    /\ UNCHANGED <<processVars, stop, aliased, logged, current_token, behind, conn,
                   countVars, historyVars>>

-----------------------------------------------------------------------------
Process(p) ==
    \/ Lock(p) \/ Daemon(p) \/ BindCli(p) \/ BindApi(p)
    \/ ListenCli(p) \/ ListenApi(p) \/ Exit(p)
    \/ \E port \in {"cli", "api"} : AcceptFails(p, port)
    \/ \E i \in 1..MaxLines + 2 : Open(p, i)

Serve(c) ==
    \/ \E p \in Instance, port \in {"cli", "api"} : Accept(c, p, port)
    \/ ReadLine(c) \/ ReadFaults(c) \/ Stopped(c) \/ Eof(c) \/ FindClear(c) \/ FindRoot(c) \/ FindSub(c) \/ FindNull(c)
    \/ Execute(c) \/ ExecuteFaults(c) \/ Answer(c) \/ CloseTx(c) \/ CloseAgain(c)

Next == (\E p \in Instance : Process(p)) \/ (\E c \in Conn : Serve(c))

Spec == Init /\ [][Next]_vars

-----------------------------------------------------------------------------
(* Properties.                                                             *)

\* FindCommand: whatever was typed before, on this connection or another, a line
\* runs the command its own tokens name, unless another connection was inside
\* FindCommand with it.
LineRunsItsOwnCommand ==
    \A c \in Conn : conn[c].at = "run" /\ ~conn[c].mixed =>
        conn[c].command = Command(conn[c].tokens)

\* A neighbour's first entry in the table is its only one.
Single(t, ip) ==
    Cardinality({i \in 1..Len(t.thread_q) : t.thread_q[i].p_ip = ip}) = 1

\* set_translation: a value of a neighbour has one alias, and the loop that erases
\* while it counts never erases behind the end.
OneAliasPerValue == \A p \in Instance : OneAlias(table[p])

Entry(id, v) ==
    [id |-> id, as_path |-> <<v>>, next_hop |-> v, multi_exit_disc |-> v, local_pref |-> v,
     aggregator |-> [origin |-> <<v>>, as |-> <<v>>], community |-> <<>>]

ShownIn(view, code) == IF code = "as_path" THEN view.as_path[1] ELSE view[code]

\* A command of p has just run.
Answering(p) == \E c \in Conn : conn[c].at = "answer" /\ conn[c].of = p

\* After every command, the last alias set for a value of a neighbour is what the CLI, the API and the
\* log show in the routes of that neighbour (the API not for metrics), as soon as
\* the first neighbour in the table has an alias too.  A bgp-id alias given before
\* the first OPEN hides a later one.
AliasReachesEveryView ==
    \A p \in Instance : Answering(p) => \A k \in DOMAIN aliased[p] :
        LET t == table[p]
            ip == k[1]
            code == k[2]
            i == get_peer_by_str_ip(t, ip)
            e == Entry(t.thread_q[i].bgp_id, k[3])
            once == Cardinality({n \in DOMAIN t.thread_q[i].aliases :
                                    t.thread_q[i].aliases[n].code = code}) = 1
            says(view) == \A s \in ShownIn(view, code) :
                             \E n \in DOMAIN s : s[n] = Named(aliased[p][k])
        IN  peer_doing_alias(t) /\ t.thread_q[i].bgp_id # 0 /\ Single(t, ip) =>
              /\ code \in {"as_path", "next_hop", "multi_exit_disc", "local_pref"} =>
                    says(display_entry(t, e)) /\ says(dump_update(t, e))
              /\ code \in {"as_path", "next_hop"} => says(jsonify_entry(t, e))
              /\ code = "bgp_id" /\ once =>
                    /\ says(dump_update(t, e))
                    /\ ShownId(t, i) = {<<Named(aliased[p][k])>>}

\* The log of a neighbour's routes goes to the host last configured for it, if that
\* is an address other than 0.0.0.0, and to the port if its two bytes are equal (as
\* those of 514 are), unless that was done before its OPEN; also when its address is
\* in the table twice.
LogsGoWhereConfigured ==
    \A p \in Instance : \A ip \in DOMAIN logged[p] :
        LET t == table[p]
            to == logged[p][ip]
            id == t.thread_q[get_peer_by_str_ip(t, ip)].bgp_id
        IN  to.id = id /\ id # 0 /\ to.host \in DOMAIN Address /\ Address[to.host] # 0 =>
              /\ Destination(t, id).host = to.host
              /\ Htons(to.port) = to.port => Destination(t, id).port = to.port

\* After every command, what write_configs would save makes a configuration with the
\* same identifier, dumper, neighbours and buffers again, and for each neighbour the
\* same aliases in some order, if our identifier is set, no neighbour is twice in the
\* table, and every alias is of a kind that is saved, of bgp-id at most one.  (Of the
\* log's destinations nothing is claimed.)
SavedConfigReplays ==
    \A p \in Instance : Answering(p) =>
        LET t == table[p]
            r == Replay(write_configs(t))
            saved(a) == a.code \in {"bgp_id", "as_path", "next_hop", "community"}
            kept(a) == <<a.code, a.name, IF a.code = "bgp_id" THEN 0 ELSE a.value>>
        IN  /\ t.bgp_id # Unset
            /\ \A i \in 1..Len(t.thread_q) :
                 LET q == t.thread_q[i]
                 IN  /\ Single(t, q.p_ip) /\ q.p_ip \in DOMAIN Address
                     /\ \A n \in DOMAIN q.aliases : saved(q.aliases[n])
                     /\ Cardinality({n \in DOMAIN q.aliases : q.aliases[n].code = "bgp_id"}) <= 1
            => /\ r.bgp_id = t.bgp_id /\ r.dumper = t.dumper
               /\ Len(r.thread_q) = Len(t.thread_q)
               /\ \A i \in 1..Len(t.thread_q) :
                    LET x == t.thread_q[i]
                        y == r.thread_q[i]
                    IN  /\ x.p_ip = y.p_ip /\ x.AS = y.AS /\ x.tx = y.tx /\ x.rx = y.rx
                        /\ Len(x.aliases) = Len(y.aliases)
                        /\ {kept(a) : a \in Range(x.aliases)} = {kept(a) : a \in Range(y.aliases)}

\* An answer goes to the socket its line came from, unless a thread that closed a
\* descriptor for the second time closed one that was in use again.
AnswerReachesAsker == astray => stolen

\* A socket that is open has a connection in progress on its descriptor, unless a
\* connection to the API hung up before it sent a line.  The second close of a
\* descriptor never leaves one behind.
DescriptorsAreReturned ==
    \A p \in Instance : \A n \in Fd :
        behind[p][n] \notin {Closed} \cup left =>
            \E c \in Conn : conn[c] # NoConn /\ conn[c].of = p /\ conn[c].fd = n

\* The lock does not outlive daemon(), but the ports keep two instances apart: no
\* two listen on one port, and an instance that has the API's while another has the
\* CLI's is about to end, because its own thread for the CLI's has yet to listen or
\* because it was told to.
OneInstanceServes ==
    \A p, q \in Instance : p # q =>
        /\ ~(cli[p] = "listening" /\ cli[q] = "listening")
        /\ ~(api[p] = "listening" /\ api[q] = "listening")
        /\ cli[p] = "listening" /\ api[q] = "listening" => cli[q] = "bound" \/ stop[q]
=============================================================================
