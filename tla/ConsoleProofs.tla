--------------------------- MODULE ConsoleProofs ---------------------------
(***************************************************************************)
(* Proofs about Console: the types, the start of the instances, and the    *)
(* descriptors of the connections.                                         *)
(***************************************************************************)
EXTENDS Console, Induction

-----------------------------------------------------------------------------
(* Types.                                                                  *)

\* A connection in progress: its fields, of which the node may be anything, and
\* the tokens that are left of its line.
FieldName == {"at", "of", "port", "fd", "asker", "tokens", "rest", "command", "mixed"}
Fields(r) == r = [x \in FieldName |-> r[x]]

Connected(r) ==
    /\ Fields(r)
    /\ r.at \in Busy /\ r.of \in Instance /\ r.port \in {"cli", "api"} /\ r.fd \in Fd
    /\ r.asker \in 0..MaxAccepts /\ r.mixed \in BOOLEAN
    /\ r.tokens \in Seq(STRING) /\ r.rest \in Seq(STRING)
    /\ r.at \in {"root", "sub"} => r.rest # <<>>
    /\ r.at = "clear" => r.rest = r.tokens

ConnType ==
    /\ conn = [c \in Conn |-> conn[c]]
    /\ \A c \in Conn : conn[c] = NoConn \/ Connected(conn[c])

PerInstance ==
    /\ table = [p \in Instance |-> table[p]]
    /\ current_token = [p \in Instance |-> current_token[p]]
    /\ aliased = [p \in Instance |-> aliased[p]]
    /\ logged = [p \in Instance |-> logged[p]]

\* TypeOK without the connections.
StateType ==
    /\ start \in [Instance -> {"off", "locked", "bindcli", "bindapi", "serving", "gone"}]
    /\ lock \in Instance \cup {Free}
    /\ cli \in [Instance -> {"none", "bound", "listening"}]
    /\ api \in [Instance -> {"none", "bound", "listening"}]
    /\ stop \in [Instance -> BOOLEAN]
    /\ behind \in [Instance -> [Fd -> 0..MaxAccepts]]
    /\ accepted \in 0..MaxAccepts /\ lines \in 0..MaxLines
    /\ stolen \in BOOLEAN /\ astray \in BOOLEAN /\ left \subseteq 1..MaxAccepts

TypeInv == StateType /\ ConnType /\ PerInstance

LEMMA TypeInvIsEnough == TypeInv => TypeOK
  BY DEF TypeInv, TypeOK, StateType, ConnType, Connected

\* Two states of a connection that are not the same.
LEMMA ConnectedIsNot == \A r : Connected(r) => r # NoConn /\ r.at # "closed"
  BY DEF Connected, NoConn, Busy

LEMMA TypeInit == Init => TypeInv
<1> SUFFICES ASSUME Init PROVE TypeInv
  OBVIOUS
<1>1. start \in [Instance -> {"off", "locked", "bindcli", "bindapi", "serving", "gone"}]
  BY DEF Init
<1>2. accepted \in 0..MaxAccepts
  BY BoundAssumption DEF Init
<1>3. 0 \in 0..MaxAccepts /\ 0 \in 0..MaxLines
  BY BoundAssumption
<1>4. StateType
  BY <1>1, <1>2, <1>3, Zenon DEF StateType, Init, Free, Closed
<1>5. ConnType
  BY DEF ConnType, Init
<1>6. PerInstance
  BY DEF PerInstance, Init
<1> QED BY <1>4, <1>5, <1>6 DEF TypeInv

\* A connection that is somewhere is in progress.
LEMMA Somewhere ==
  ASSUME TypeInv, NEW c \in Conn, conn[c].at # "closed"
  PROVE  Connected(conn[c]) /\ conn[c] # NoConn
<1>1. conn[c] # NoConn
  BY DEF NoConn
<1> QED BY <1>1 DEF TypeInv, ConnType

\* One connection changes.
LEMMA ConnChanges ==
  ASSUME TypeInv, NEW c \in Conn, NEW r, r = NoConn \/ Connected(r),
         conn' = [conn EXCEPT ![c] = r]
  PROVE  ConnType'
<1>1. ConnType
  BY DEF TypeInv
<1>2. conn' = [d \in Conn |-> conn'[d]] /\ \A d \in Conn : conn'[d] = IF d = c THEN r ELSE conn[d]
  BY <1>1 DEF ConnType
<1>3. \A d \in Conn : conn'[d] = NoConn \/ Connected(conn'[d])
  BY <1>1, <1>2 DEF ConnType
<1> QED BY <1>2, <1>3 DEF ConnType

\* A connection goes on to a place where it needs no tokens.
LEMMA GoesOn ==
  ASSUME NEW r, Connected(r), NEW x \in Busy \ {"root", "sub", "clear"}
  PROVE  Connected([r EXCEPT !.at = x])
  BY DEF Connected, Fields, FieldName

\* A process ends.
LEMMA TypeGone ==
  ASSUME TypeInv, NEW p \in Instance, Gone(p), UNCHANGED lock
  PROVE  TypeInv'
<1>1. ConnType'
  BY DEF TypeInv, ConnType, Gone
<1>2. PerInstance'
  BY DEF TypeInv, PerInstance, Gone
<1>3. 0 \in 0..MaxAccepts
  BY BoundAssumption
<1>4. StateType'
  BY <1>3 DEF TypeInv, StateType, Gone, Closed, countVars, historyVars
<1> QED BY <1>1, <1>2, <1>4 DEF TypeInv

\* A step of a process that is starting.
LEMMA TypeStarts ==
  ASSUME TypeInv, NEW p \in Instance, UNCHANGED serviceVars,
         start' = start \/ \E x \in {"locked", "bindcli", "bindapi", "serving", "gone"} :
                             start' = [start EXCEPT ![p] = x],
         lock' \in {lock, Free, p},
         cli' = cli \/ \E x \in {"bound", "listening"} : cli' = [cli EXCEPT ![p] = x],
         api' = api \/ \E x \in {"bound", "listening"} : api' = [api EXCEPT ![p] = x]
  PROVE  TypeInv'
<1>1. ConnType'
  BY DEF TypeInv, ConnType, serviceVars
<1>2. PerInstance'
  BY DEF TypeInv, PerInstance, serviceVars, configVars
<1>3. start' \in [Instance -> {"off", "locked", "bindcli", "bindapi", "serving", "gone"}]
  BY DEF TypeInv, StateType
<1>4. lock' \in Instance \cup {Free}
  BY DEF TypeInv, StateType
<1>5. cli' \in [Instance -> {"none", "bound", "listening"}]
  BY DEF TypeInv, StateType
<1>6. api' \in [Instance -> {"none", "bound", "listening"}]
  BY DEF TypeInv, StateType
<1>7. StateType'
  BY <1>3, <1>4, <1>5, <1>6 DEF TypeInv, StateType, serviceVars, countVars, historyVars
<1> QED BY <1>1, <1>2, <1>7 DEF TypeInv

LEMMA TypeProcess ==
  ASSUME TypeInv, NEW p \in Instance, Process(p)
  PROVE  TypeInv'
<1>1. CASE Lock(p)
  BY <1>1, TypeStarts DEF Lock
<1>2. CASE Daemon(p)
  BY <1>2, TypeStarts DEF Daemon
<1>3. CASE BindCli(p)
  BY <1>3, TypeStarts DEF BindCli
<1>4. CASE BindApi(p)
  BY <1>4, TypeStarts DEF BindApi
<1>5. CASE ListenCli(p)
  BY <1>5, TypeStarts, TypeGone DEF ListenCli
<1>6. CASE ListenApi(p)
  BY <1>6, TypeStarts, TypeGone DEF ListenApi
<1>7. CASE Exit(p)
  BY <1>7, TypeGone DEF Exit
<1>8. CASE \E port \in {"cli", "api"} : AcceptFails(p, port)
  BY <1>8, TypeGone DEF AcceptFails
<1>9. CASE \E i \in 1..MaxLines + 2 : Open(p, i)
  <2>1. ConnType'
    BY <1>9 DEF TypeInv, ConnType, Open
  <2>2. PerInstance'
    BY <1>9 DEF TypeInv, PerInstance, Open
  <2>3. StateType'
    BY <1>9 DEF TypeInv, StateType, Open, processVars, countVars, historyVars
  <2> QED BY <2>1, <2>2, <2>3 DEF TypeInv
<1> QED BY <1>1, <1>2, <1>3, <1>4, <1>5, <1>6, <1>7, <1>8, <1>9 DEF Process

\* The descriptor accept() finds.
LEMMA LowestFree ==
  ASSUME NEW p \in Instance, FreeFd(p) # {}
  PROVE  Min(FreeFd(p)) \in Fd /\ behind[p][Min(FreeFd(p))] = Closed
<1>1. FreeFd(p) \subseteq Nat
  BY BoundAssumption DEF FreeFd, Fd
<1> QED BY <1>1, MinIn DEF FreeFd

LEMMA TypeAccept ==
  ASSUME TypeInv, NEW c \in Conn, NEW p \in Instance, NEW port \in {"cli", "api"},
         Accept(c, p, port)
  PROVE  TypeInv'
<1> DEFINE n == Min(FreeFd(p))
<1>1. n \in Fd
  BY LowestFree DEF Accept
<1>2. behind' = [behind EXCEPT ![p][n] = accepted + 1]
      /\ conn' = [conn EXCEPT ![c] = NewConn(p, port, n)]
  BY DEF Accept
<1> HIDE DEF n
<1>3. accepted + 1 \in 0..MaxAccepts /\ 0 \in 0..MaxAccepts
  BY BoundAssumption DEF TypeInv, StateType, Accept
<1>4. Connected(NewConn(p, port, n))
  BY <1>1, <1>3 DEF TypeInv, StateType, Connected, Fields, FieldName, NewConn, Busy
<1>5. ConnType'
  BY <1>2, <1>4, ConnChanges
<1>6. PerInstance'
  BY DEF TypeInv, PerInstance, Accept, configVars
<1>7. behind' \in [Instance -> [Fd -> 0..MaxAccepts]]
  BY <1>1, <1>2, <1>3 DEF TypeInv, StateType
<1>8. cli' \in [Instance -> {"none", "bound", "listening"}]
  BY DEF TypeInv, StateType, Accept
<1>9. api' \in [Instance -> {"none", "bound", "listening"}]
  BY DEF TypeInv, StateType, Accept
<1>10. StateType'
  BY <1>3, <1>7, <1>8, <1>9 DEF TypeInv, StateType, Accept, historyVars
<1> QED BY <1>5, <1>6, <1>10 DEF TypeInv

LEMMA TypeReadLine ==
  ASSUME TypeInv, NEW c \in Conn, ReadLine(c)
  PROVE  TypeInv'
<1>1. Connected(conn[c])
  BY Somewhere DEF ReadLine
<1>2. Socket(c) \in 1..MaxAccepts
  BY <1>1, BoundAssumption DEF TypeInv, StateType, Socket, ReadLine, Connected, Closed
<1>3. PICK l \in Line[Socket(c)] :
         conn' = [conn EXCEPT ![c] =
                    Reading(conn[c], l, conn[c].port = "cli" \/ Token(l, 0) = "api-get")]
  BY DEF ReadLine, TypeInv, ConnType
<1>4. l \in Seq(STRING)
  BY <1>2, LineAssumption
<1>5. \A legal \in BOOLEAN : Connected(Reading(conn[c], l, legal))
  <2>1. behind[conn[c].of][conn[c].fd] \in 0..MaxAccepts
    BY <1>2, BoundAssumption DEF Socket
  <2>2. Connected(Reading(conn[c], l, TRUE))
    BY <1>1, <1>4, <2>1 DEF Reading, Connected, Fields, FieldName, Busy
  <2>3. Connected(Reading(conn[c], l, FALSE))
    BY <1>1, <2>1 DEF Reading, Connected, Fields, FieldName, Busy
  <2> QED BY <2>2, <2>3
<1>6. ConnType'
  <2>1. (conn[c].port = "cli" \/ Token(l, 0) = "api-get") \in BOOLEAN
    OBVIOUS
  <2> QED BY <1>3, <1>5, <2>1, ConnChanges
<1>7. PerInstance'
  BY DEF TypeInv, PerInstance, ReadLine, configVars
<1>8. StateType'
  BY BoundAssumption DEF TypeInv, StateType, ReadLine, processVars, historyVars
<1> QED BY <1>6, <1>7, <1>8 DEF TypeInv

\* The steps that move a connection on and change no other variable the types
\* speak of.
LEMMA TypeStopped ==
  ASSUME TypeInv, NEW c \in Conn, Stopped(c)
  PROVE  TypeInv'
<1>1. Connected([conn[c] EXCEPT !.at = "close_tx"])
  BY Somewhere, GoesOn DEF Stopped, Busy
<1>2. ConnType'
  BY <1>1, ConnChanges DEF Stopped
<1>3. PerInstance' /\ StateType'
  BY DEF TypeInv, PerInstance, StateType, Stopped, otherVars, processVars, configVars,
         countVars, historyVars
<1> QED BY <1>2, <1>3 DEF TypeInv

LEMMA TypeEof ==
  ASSUME TypeInv, NEW c \in Conn, Eof(c)
  PROVE  TypeInv'
<1>1. Connected(conn[c]) /\ Connected([conn[c] EXCEPT !.at = "close_tx"])
  BY Somewhere, GoesOn DEF Eof, Busy
<1>2. conn' = [conn EXCEPT ![c] = IF conn[c].port = "cli"
                                  THEN [conn[c] EXCEPT !.at = "close_tx"] ELSE NoConn]
  BY DEF Eof, TypeInv, ConnType
<1>3. ConnType'
  BY <1>1, <1>2, ConnChanges
<1>4. {Socket(c)} \ {Closed} \subseteq 1..MaxAccepts
  BY <1>1, BoundAssumption DEF TypeInv, StateType, Socket, Connected, Closed
<1>5. PerInstance'
  BY DEF TypeInv, PerInstance, Eof, configVars
<1>6. StateType'
  BY <1>4 DEF TypeInv, StateType, Eof, processVars, countVars
<1> QED BY <1>3, <1>5, <1>6 DEF TypeInv

LEMMA TypeFindClear ==
  ASSUME TypeInv, NEW c \in Conn, FindClear(c)
  PROVE  TypeInv'
<1>1. Connected(conn[c])
  BY Somewhere DEF FindClear
<1>2. ConnType'
  <2>1. CASE conn[c].tokens = <<>>
    <3>1. Connected([conn[c] EXCEPT !.at = "run"])
      BY <1>1, GoesOn DEF Busy
    <3> QED BY <2>1, <3>1, ConnChanges DEF FindClear
  <2>2. CASE conn[c].tokens # <<>>
    <3>1. conn' = [d \in Conn |-> conn'[d]]
          /\ \A d \in Conn : conn'[d] =
                IF d = c THEN [conn[c] EXCEPT !.at = "root", !.mixed = Inside(c) # {}]
                ELSE IF d \in Inside(c) THEN [conn[d] EXCEPT !.mixed = TRUE] ELSE conn[d]
      BY <2>2 DEF FindClear
    <3>2. Connected([conn[c] EXCEPT !.at = "root", !.mixed = Inside(c) # {}])
      <4> DEFINE m == Inside(c) # {}
      <4>1. m \in BOOLEAN
        OBVIOUS
      <4> HIDE DEF m
      <4> QED BY <1>1, <2>2, <4>1 DEF Connected, Fields, FieldName, Busy, FindClear
    <3>3. \A d \in Inside(c) : Connected(conn[d]) /\ Connected([conn[d] EXCEPT !.mixed = TRUE])
      <4> TAKE d \in Inside(c)
      <4>1. Connected(conn[d])
        BY Somewhere DEF Inside
      <4> QED BY <4>1 DEF Connected, Fields, FieldName
    <3> QED BY <3>1, <3>2, <3>3 DEF ConnType, TypeInv
  <2> QED BY <2>1, <2>2
<1>3. PerInstance'
  BY <1>1 DEF TypeInv, PerInstance, FindClear, configVars
<1>4. StateType'
  BY DEF TypeInv, StateType, FindClear, processVars, countVars, historyVars
<1> QED BY <1>2, <1>3, <1>4 DEF TypeInv

LEMMA TailTyped ==
  ASSUME NEW s \in Seq(STRING), s # <<>>
  PROVE  Tail(s) \in Seq(STRING)
  OBVIOUS

\* A step of FindCommand down the tree.
LEMMA TypeFindStep ==
  ASSUME TypeInv, NEW c \in Conn, Connected(conn[c]), conn[c].rest # <<>>, NEW node,
         NEW at \in {"run", "sub"}, Tail(conn[c].rest) = <<>> => at = "run",
         NEW command,
         current_token' = [current_token EXCEPT ![conn[c].of] = node],
         conn' = [conn EXCEPT ![c].rest = Tail(conn[c].rest), ![c].command = command, ![c].at = at],
         UNCHANGED <<processVars, stop, configVars, behind, countVars, historyVars>>
  PROVE  TypeInv'
<1>1. Connected([conn[c] EXCEPT !.rest = Tail(conn[c].rest), !.command = command, !.at = at])
  <2>1. Tail(conn[c].rest) \in Seq(STRING)
    <3>1. conn[c].rest \in Seq(STRING)
      BY DEF Connected
    <3> QED BY <3>1, TailTyped
  <2> QED BY <2>1 DEF Connected, Fields, FieldName, Busy
<1>2. conn' = [conn EXCEPT ![c] =
                 [conn[c] EXCEPT !.rest = Tail(conn[c].rest), !.command = command, !.at = at]]
  BY DEF TypeInv, ConnType
<1>3. ConnType'
  BY <1>1, <1>2, ConnChanges
<1>4. PerInstance'
  BY DEF TypeInv, PerInstance, configVars
<1>5. StateType'
  BY DEF TypeInv, StateType, processVars, countVars, historyVars
<1> QED BY <1>3, <1>4, <1>5 DEF TypeInv

LEMMA TypeFindRoot ==
  ASSUME TypeInv, NEW c \in Conn, FindRoot(c)
  PROVE  TypeInv'
<1>1. Connected(conn[c]) /\ conn[c].rest # <<>>
  BY Somewhere DEF FindRoot, Connected
<1> DEFINE root == RootCommand(Head(conn[c].rest))
           node == IF root = Null THEN current_token[conn[c].of] ELSE root
           rest == Tail(conn[c].rest)
           command == IF rest = <<>> THEN node ELSE Null
           at == IF node = Null \/ rest = <<>> THEN "run" ELSE "sub"
<1>2. /\ current_token' = [current_token EXCEPT ![conn[c].of] = node]
      /\ conn' = [conn EXCEPT ![c].rest = rest, ![c].command = command, ![c].at = at]
      /\ UNCHANGED <<processVars, stop, configVars, behind, countVars, historyVars>>
  BY DEF FindRoot
<1>3. at \in {"run", "sub"} /\ (rest = <<>> => at = "run")
  OBVIOUS
<1> HIDE DEF node, command, at
<1> QED BY <1>1, <1>2, <1>3, TypeFindStep

LEMMA TypeFindSub ==
  ASSUME TypeInv, NEW c \in Conn, FindSub(c)
  PROVE  TypeInv'
<1>1. Connected(conn[c]) /\ conn[c].rest # <<>>
  BY Somewhere DEF FindSub, Connected
<1> DEFINE node == SubCommand(current_token[conn[c].of], Head(conn[c].rest))
           rest == Tail(conn[c].rest)
           command == IF rest = <<>> THEN node ELSE Null
           at == IF rest = <<>> THEN "run" ELSE "sub"
<1>2. /\ current_token' = [current_token EXCEPT ![conn[c].of] = node]
      /\ conn' = [conn EXCEPT ![c].rest = rest, ![c].command = command, ![c].at = at]
      /\ UNCHANGED <<processVars, stop, configVars, behind, countVars, historyVars>>
  BY DEF FindSub
<1>3. at \in {"run", "sub"} /\ (rest = <<>> => at = "run")
  OBVIOUS
<1> HIDE DEF node, command, at
<1> QED BY <1>1, <1>2, <1>3, TypeFindStep

LEMMA TypeExecute ==
  ASSUME TypeInv, NEW c \in Conn, Execute(c)
  PROVE  TypeInv'
<1>1. Connected(conn[c])
  BY Somewhere DEF Execute
<1>2. conn' = [conn EXCEPT ![c] = [conn[c] EXCEPT !.at = "answer", !.tokens = <<>>,
                                     !.rest = <<>>, !.command = Null, !.mixed = FALSE]]
  BY DEF Execute, TypeInv, ConnType
<1>3. Connected([conn[c] EXCEPT !.at = "answer", !.tokens = <<>>, !.rest = <<>>,
                                !.command = Null, !.mixed = FALSE])
  <2> DEFINE none == <<>>
  <2>1. none \in Seq(STRING)
    OBVIOUS
  <2> HIDE DEF none
  <2>2. Connected([conn[c] EXCEPT !.at = "answer", !.tokens = none, !.rest = none,
                                  !.command = Null, !.mixed = FALSE])
    BY <1>1, <2>1 DEF Connected, Fields, FieldName, Busy
  <2> QED BY <2>2 DEF none
<1>4. ConnType'
  BY <1>2, <1>3, ConnChanges
<1>5. PerInstance'
  BY DEF TypeInv, PerInstance, Execute, Noted
<1>6. stop' \in [Instance -> BOOLEAN]
  BY DEF TypeInv, StateType, Execute
<1>7. StateType'
  BY <1>6 DEF TypeInv, StateType, Execute, processVars, countVars, historyVars
<1> QED BY <1>4, <1>5, <1>7 DEF TypeInv

LEMMA TypeAnswer ==
  ASSUME TypeInv, NEW c \in Conn, Answer(c)
  PROVE  TypeInv'
<1>1. \A x \in {"close_tx", "read"} : Connected([conn[c] EXCEPT !.at = x])
  BY Somewhere, GoesOn DEF Answer, Busy
<1>2. ConnType'
  BY <1>1, ConnChanges DEF Answer
<1>3. PerInstance'
  BY DEF TypeInv, PerInstance, Answer, configVars
<1>4. astray' \in BOOLEAN
  BY DEF Answer, TypeInv, StateType
<1>5. StateType'
  BY <1>4 DEF TypeInv, StateType, Answer, processVars, countVars
<1> QED BY <1>2, <1>3, <1>5 DEF TypeInv

LEMMA TypeCloseTx ==
  ASSUME TypeInv, NEW c \in Conn, CloseTx(c)
  PROVE  TypeInv'
<1>1. Connected(conn[c]) /\ Connected([conn[c] EXCEPT !.at = "close_rx"])
  BY Somewhere, GoesOn DEF CloseTx, Busy
<1>2. ConnType'
  BY <1>1, ConnChanges DEF CloseTx
<1>3. PerInstance'
  BY DEF TypeInv, PerInstance, CloseTx, configVars
<1>4. 0 \in 0..MaxAccepts
  BY BoundAssumption
<1>5. StateType'
  BY <1>1, <1>4 DEF TypeInv, StateType, Connected, CloseTx, Closed, processVars, countVars, historyVars
<1> QED BY <1>2, <1>3, <1>5 DEF TypeInv

LEMMA TypeCloseAgain ==
  ASSUME TypeInv, NEW c \in Conn, CloseAgain(c)
  PROVE  TypeInv'
<1>1. Connected(conn[c]) /\ Connected([conn[c] EXCEPT !.at = "close"])
  BY Somewhere, GoesOn DEF CloseAgain, Busy
<1>2. conn' = [conn EXCEPT ![c] = IF conn[c].at = "close" THEN NoConn
                                  ELSE [conn[c] EXCEPT !.at = "close"]]
  BY DEF CloseAgain, TypeInv, ConnType
<1>3. ConnType'
  BY <1>1, <1>2, ConnChanges
<1>4. PerInstance'
  BY DEF TypeInv, PerInstance, CloseAgain, configVars
<1>5. 0 \in 0..MaxAccepts
  BY BoundAssumption
<1>6. StateType'
  BY <1>1, <1>5 DEF TypeInv, StateType, Connected, CloseAgain, Closed, processVars, countVars
<1> QED BY <1>3, <1>4, <1>6 DEF TypeInv

LEMMA TypeStep == TypeInv /\ [Next]_vars => TypeInv'
<1> SUFFICES ASSUME TypeInv, [Next]_vars PROVE TypeInv'
  OBVIOUS
<1>1. CASE UNCHANGED vars
  BY <1>1 DEF TypeInv, StateType, ConnType, PerInstance, vars, processVars, configVars,
              countVars, historyVars
<1>2. ASSUME NEW p \in Instance, Process(p) PROVE TypeInv'
  BY <1>2, TypeProcess
<1>3. ASSUME NEW c \in Conn, Serve(c) PROVE TypeInv'
  <2>1. CASE ReadFaults(c) \/ FindNull(c) \/ ExecuteFaults(c)
    <3>1. Connected(conn[c])
      BY <2>1, Somewhere DEF ReadFaults, FindNull, ExecuteFaults
    <3>2. conn[c].of \in Instance /\ Gone(conn[c].of) /\ UNCHANGED lock
      BY <2>1, <3>1 DEF ReadFaults, FindNull, ExecuteFaults, Connected
    <3> QED BY <3>2, TypeGone
  <2> QED BY <1>3, <2>1, TypeAccept, TypeReadLine, TypeStopped, TypeEof, TypeFindClear,
             TypeFindRoot, TypeFindSub, TypeExecute, TypeAnswer, TypeCloseTx, TypeCloseAgain
          DEF Serve
<1> QED BY <1>1, <1>2, <1>3 DEF Next

\* Every variable keeps its type: in particular a connection's descriptor and the
\* socket its line came from exist, and the number accept() gives out is one of the
\* process's own.
THEOREM ConsoleTypes == Spec => []TypeOK
<1>1. TypeInv => TypeOK
  BY TypeInvIsEnough
<1> QED BY <1>1, TypeInit, TypeStep, PTL DEF Spec

-----------------------------------------------------------------------------
(* The instances.                                                          *)

\* No two listen on a port; a process has a socket for the API only when main has
\* passed both binds, and without one for the CLI it has been told to stop.
StartInv ==
    /\ \A p, q \in Instance : p # q =>
         ~(cli[p] = "listening" /\ cli[q] = "listening")
         /\ ~(api[p] = "listening" /\ api[q] = "listening")
    /\ \A p \in Instance :
         /\ api[p] # "none" => start[p] = "serving"
         /\ start[p] \in {"bindapi", "serving"} /\ cli[p] = "none" => stop[p]

LEMMA StartInit == Init => StartInv
<1> SUFFICES ASSUME Init PROVE StartInv
  OBVIOUS
<1>1. \/ start = [p \in Instance |-> "off"]
      \/ \E p \in Instance : start = [q \in Instance |-> IF q = p THEN "serving" ELSE "bindcli"]
  BY DEF Init
<1>2. /\ cli = [p \in Instance |-> IF start[p] = "serving" THEN "listening" ELSE "none"]
      /\ api = cli
  BY DEF Init
<1> QED BY <1>1, <1>2 DEF StartInv

LEMMA StartGone ==
  ASSUME TypeInv, StartInv, NEW p \in Instance, Gone(p)
  PROVE  StartInv'
  BY DEF TypeInv, StateType, StartInv, Gone

LEMMA StartProcess ==
  ASSUME TypeInv, StartInv, NEW p \in Instance, Process(p)
  PROVE  StartInv'
<1> USE DEF TypeInv, StateType, StartInv
<1>1. CASE Lock(p)
  BY <1>1 DEF Lock, serviceVars
<1>2. CASE Daemon(p)
  BY <1>2 DEF Daemon, serviceVars
<1>3. CASE BindCli(p)
  BY <1>3 DEF BindCli, serviceVars
<1>4. CASE BindApi(p)
  BY <1>4 DEF BindApi, serviceVars
<1>5. CASE ListenCli(p)
  <2>1. CASE Gone(p)
    BY <2>1, StartGone
  <2>2. CASE ~Gone(p)
    BY <1>5, <2>2 DEF ListenCli, serviceVars
  <2> QED BY <2>1, <2>2
<1>6. CASE ListenApi(p)
  <2>1. CASE Gone(p)
    BY <2>1, StartGone
  <2>2. CASE ~Gone(p)
    BY <1>6, <2>2 DEF ListenApi, serviceVars
  <2> QED BY <2>1, <2>2
<1>7. CASE Exit(p)
  BY <1>7, StartGone DEF Exit
<1>8. CASE \E port \in {"cli", "api"} : AcceptFails(p, port)
  BY <1>8, StartGone DEF AcceptFails
<1>9. CASE \E i \in 1..MaxLines + 2 : Open(p, i)
  BY <1>9 DEF Open, processVars
<1> QED BY <1>1, <1>2, <1>3, <1>4, <1>5, <1>6, <1>7, <1>8, <1>9 DEF Process

LEMMA StartServe ==
  ASSUME TypeInv, StartInv, NEW c \in Conn, Serve(c)
  PROVE  StartInv'
<1>1. CASE UNCHANGED <<processVars, stop>>
  BY <1>1 DEF StartInv, processVars
<1>2. ASSUME NEW p \in Instance, NEW port \in {"cli", "api"}, Accept(c, p, port)
      PROVE StartInv'
  BY <1>2 DEF TypeInv, StateType, StartInv, Accept
<1>3. CASE Execute(c)
  <2>1. Connected(conn[c])
    BY <1>3, Somewhere DEF Execute
  <2>2. UNCHANGED processVars /\ \A p \in Instance : stop[p] => stop'[p]
    BY <1>3, <2>1 DEF Execute, TypeInv, StateType
  <2> QED BY <2>2 DEF StartInv, processVars
<1>4. CASE ReadFaults(c) \/ FindNull(c) \/ ExecuteFaults(c)
  <2>1. Connected(conn[c])
    BY <1>4, Somewhere DEF ReadFaults, FindNull, ExecuteFaults
  <2>2. conn[c].of \in Instance /\ Gone(conn[c].of)
    BY <1>4, <2>1 DEF ReadFaults, FindNull, ExecuteFaults, Connected
  <2> QED BY <2>2, StartGone
<1> QED BY <1>1, <1>2, <1>3, <1>4 DEF Serve, ReadLine, Stopped, Eof, FindClear, FindRoot,
           FindSub, Answer, CloseTx, CloseAgain, otherVars

LEMMA StartStep == TypeInv /\ StartInv /\ [Next]_vars => StartInv'
<1> SUFFICES ASSUME TypeInv, StartInv, [Next]_vars PROVE StartInv'
  OBVIOUS
<1>1. CASE UNCHANGED vars
  BY <1>1 DEF StartInv, vars, processVars
<1> QED BY <1>1, StartProcess, StartServe DEF Next

\* The lock does not outlive daemon(), and still no two instances listen on one
\* port, and one that has the API's port while another has the CLI's is about to end.
THEOREM ConsoleInstances == Spec => []OneInstanceServes
<1>1. TypeInv /\ StartInv => OneInstanceServes
  BY DEF TypeInv, StateType, StartInv, OneInstanceServes
<1> QED BY <1>1, TypeInit, TypeStep, StartInit, StartStep, PTL DEF Spec

-----------------------------------------------------------------------------
(* The descriptors.                                                        *)

Holding == {"read", "clear", "root", "sub", "run", "answer", "close_tx"}
Asked == {"clear", "root", "sub", "run", "answer"}

\* A connection between its accept and its close keeps its descriptor, and the
\* socket it was asked from as long as it has a line.
Serving(c) == ReadLine(c) \/ Stopped(c) \/ FindRoot(c) \/ FindSub(c) \/ Execute(c) \/ Answer(c)

LEMMA ServingStep ==
  ASSUME TypeInv, NEW c \in Conn, Serving(c)
  PROVE  /\ Connected(conn[c]) /\ UNCHANGED <<behind, stolen, left>>
         /\ \A d \in Conn \ {c} : conn'[d] = conn[d]
         /\ conn'[c].of = conn[c].of /\ conn'[c].fd = conn[c].fd
         /\ conn[c].at \in Holding /\ conn'[c].at \in Holding
         /\ conn'[c].at \in Asked =>
              \/ conn'[c].asker = Socket(c)
              \/ conn[c].at \in Asked /\ conn'[c].asker = conn[c].asker
<1> USE DEF TypeInv, Holding, Asked
<1>0. Connected(conn[c])
  BY Somewhere DEF Serving, ReadLine, Stopped, FindRoot, FindSub, Execute, Answer
<1>1. UNCHANGED <<behind, stolen, left>> /\ \A d \in Conn \ {c} : conn'[d] = conn[d]
  BY DEF Serving, ReadLine, Stopped, FindRoot, FindSub, Execute, Answer, ConnType,
         otherVars, historyVars
<1>2. CASE ReadLine(c)
  <2>1. PICK l, legal :
           conn'[c] = Reading(conn[c], l, legal)
    BY <1>2 DEF ReadLine, ConnType
  <2>2. Fields(conn[c]) /\ conn[c].at = "read"
    BY <1>0, <1>2 DEF Connected, ReadLine
  <2> QED BY <1>0, <1>1, <2>1, <2>2 DEF Reading, Socket, Fields, FieldName
<1>3. CASE Stopped(c) \/ Answer(c)
  <2>1. PICK x \in {"close_tx", "read"} : conn'[c] = [conn[c] EXCEPT !.at = x]
    BY <1>3 DEF Stopped, Answer, ConnType
  <2>2. Fields(conn[c]) /\ conn[c].at \in Holding
    BY <1>0, <1>3 DEF Connected, Stopped, Answer
  <2> QED BY <1>0, <1>1, <2>1, <2>2 DEF Fields, FieldName
<1>4. CASE FindRoot(c) \/ FindSub(c)
  <2>1. PICK rest, command, x : x \in {"run", "sub"} /\
           conn'[c] = [conn[c] EXCEPT !.rest = rest, !.command = command, !.at = x]
    <3> DEFINE node1 == IF RootCommand(Head(conn[c].rest)) = Null
                        THEN current_token[conn[c].of] ELSE RootCommand(Head(conn[c].rest))
               node2 == SubCommand(current_token[conn[c].of], Head(conn[c].rest))
               rest == Tail(conn[c].rest)
               command1 == IF rest = <<>> THEN node1 ELSE Null
               command2 == IF rest = <<>> THEN node2 ELSE Null
               at1 == IF node1 = Null \/ rest = <<>> THEN "run" ELSE "sub"
               at2 == IF rest = <<>> THEN "run" ELSE "sub"
    <3>1. FindRoot(c) => conn' = [conn EXCEPT ![c].rest = rest, ![c].command = command1,
                                              ![c].at = at1]
      BY DEF FindRoot
    <3>2. FindSub(c) => conn' = [conn EXCEPT ![c].rest = rest, ![c].command = command2,
                                             ![c].at = at2]
      BY DEF FindSub
    <3>a. at1 \in {"run", "sub"} /\ at2 \in {"run", "sub"}
      OBVIOUS
    <3> HIDE DEF rest, command1, command2, at1, at2
    <3>3. CASE FindRoot(c)
      <4>1. conn'[c] = [conn[c] EXCEPT !.rest = rest, !.command = command1, !.at = at1]
        BY <3>1, <3>3 DEF ConnType
      <4> QED BY <3>a, <4>1
    <3>4. CASE FindSub(c)
      <4>1. conn'[c] = [conn[c] EXCEPT !.rest = rest, !.command = command2, !.at = at2]
        BY <3>2, <3>4 DEF ConnType
      <4> QED BY <3>a, <4>1
    <3> QED BY <1>4, <3>3, <3>4
  <2>2. Fields(conn[c]) /\ conn[c].at \in Asked
    BY <1>0, <1>4 DEF Connected, FindRoot, FindSub
  <2> QED BY <1>0, <1>1, <2>1, <2>2 DEF Fields, FieldName
<1>5. CASE Execute(c)
  <2>1. conn'[c] = [conn[c] EXCEPT !.at = "answer", !.tokens = <<>>, !.rest = <<>>,
                                   !.command = Null, !.mixed = FALSE]
    BY <1>5 DEF Execute, ConnType
  <2>2. Fields(conn[c]) /\ conn[c].at = "run"
    BY <1>0, <1>5 DEF Connected, Execute
  <2> QED BY <1>0, <1>1, <2>1, <2>2 DEF Fields, FieldName
<1> QED BY <1>2, <1>3, <1>4, <1>5 DEF Serving

\* The same of a step that also touches the others.
LEMMA ClearingStep ==
  ASSUME TypeInv, NEW c \in Conn, FindClear(c), NEW d \in Conn, conn[d] # NoConn
  PROVE  /\ conn'[d].of = conn[d].of /\ conn'[d].fd = conn[d].fd
         /\ conn'[d].asker = conn[d].asker
         /\ conn'[d].at = conn[d].at \/ (conn[d].at \in Asked /\ conn'[d].at \in Asked)
<1>1. Connected(conn[d])
  BY DEF TypeInv, ConnType
<1> DEFINE m == Inside(c) # {}
<1>2. \/ conn'[d] = conn[d]
      \/ d = c /\ conn'[d] = [conn[d] EXCEPT !.at = "run"]
      \/ d = c /\ conn'[d] = [conn[d] EXCEPT !.at = "root", !.mixed = m]
      \/ conn'[d] = [conn[d] EXCEPT !.mixed = TRUE]
  BY DEF FindClear, TypeInv, ConnType
<1> HIDE DEF m
<1>3. conn[c].at = "clear"
  BY DEF FindClear
<1> QED BY <1>1, <1>2, <1>3 DEF Connected, Fields, FieldName, Asked

Uses(c, p, n) == conn[c] # NoConn /\ conn[c].of = p /\ conn[c].fd = n

\* Nothing is opened, and who uses a descriptor goes on using it.
LEMMA DescriptorsKept ==
  ASSUME TypeInv, DescriptorsAreReturned, UNCHANGED behind, left \subseteq left',
         \A c \in Conn : conn[c] # NoConn =>
            conn'[c] # NoConn /\ conn'[c].of = conn[c].of /\ conn'[c].fd = conn[c].fd
  PROVE  DescriptorsAreReturned'
  BY DEF DescriptorsAreReturned

LEMMA DescriptorsGone ==
  ASSUME TypeInv, DescriptorsAreReturned, NEW p \in Instance, Gone(p)
  PROVE  DescriptorsAreReturned'
<1> SUFFICES ASSUME NEW q \in Instance, NEW n \in Fd,
                    (behind[q][n] \notin {Closed} \cup left)'
             PROVE  \E c \in Conn : Uses(c, q, n)'
  BY DEF DescriptorsAreReturned, Uses
<1>1. q # p /\ behind'[q] = behind[q] /\ left' = left
  BY DEF TypeInv, StateType, Gone, historyVars
<1>2. PICK c \in Conn : conn[c] # NoConn /\ conn[c].of = q /\ conn[c].fd = n
  BY <1>1 DEF DescriptorsAreReturned
<1>3. conn'[c] = conn[c]
  BY <1>1, <1>2 DEF Gone
<1> QED BY <1>2, <1>3 DEF Uses

LEMMA DescriptorsServe ==
  ASSUME TypeInv, DescriptorsAreReturned, NEW c \in Conn, Serve(c)
  PROVE  DescriptorsAreReturned'
<1> USE DEF TypeInv
<1>1. ASSUME NEW p \in Instance, NEW port \in {"cli", "api"}, Accept(c, p, port)
      PROVE DescriptorsAreReturned'
  <2> DEFINE m == Min(FreeFd(p))
  <2>1. /\ m \in Fd /\ conn[c] = NoConn /\ left' = left
        /\ behind' = [behind EXCEPT ![p][m] = accepted + 1]
        /\ conn' = [conn EXCEPT ![c] = NewConn(p, port, m)]
    BY <1>1, LowestFree DEF Accept, historyVars
  <2> HIDE DEF m
  <2>2. conn'[c] # NoConn /\ conn'[c].of = p /\ conn'[c].fd = m
    BY <2>1 DEF ConnType, NewConn, NoConn
  <2>3. \A d \in Conn \ {c} : conn'[d] = conn[d]
    BY <2>1 DEF ConnType
  <2>4. \A q \in Instance : \A n \in Fd : behind'[q][n] = behind[q][n] \/ (q = p /\ n = m)
    BY <2>1 DEF StateType
  <2> QED BY <2>1, <2>2, <2>3, <2>4 DEF DescriptorsAreReturned
<1>2. CASE Eof(c)
  <2>1. Connected(conn[c])
    BY <1>2, Somewhere DEF Eof
  <2>2. /\ UNCHANGED behind /\ \A d \in Conn \ {c} : conn'[d] = conn[d]
        /\ conn[c].port = "cli" => conn'[c] = [conn[c] EXCEPT !.at = "close_tx"]
        /\ conn[c].port = "api" => Socket(c) \in {Closed} \cup left'
        /\ left \subseteq left'
    BY <1>2 DEF Eof, ConnType
  <2>3. CASE conn[c].port = "cli"
    <3>1. conn'[c] # NoConn /\ conn'[c].of = conn[c].of /\ conn'[c].fd = conn[c].fd
      BY <2>1, <2>2, <2>3 DEF Connected, Fields, FieldName, NoConn
    <3> QED BY <2>2, <3>1, DescriptorsKept
  <2>4. CASE conn[c].port = "api"
    BY <2>2, <2>4 DEF DescriptorsAreReturned, Socket
  <2> QED BY <2>1, <2>3, <2>4 DEF Connected
<1>3. CASE CloseTx(c) \/ CloseAgain(c)
  <2>1. Connected(conn[c])
    BY <1>3, Somewhere DEF CloseTx, CloseAgain
  <2>2. /\ behind' = [behind EXCEPT ![conn[c].of][conn[c].fd] = Closed]
        /\ \A d \in Conn \ {c} : conn'[d] = conn[d]
        /\ left' = left
    BY <1>3 DEF CloseTx, CloseAgain, ConnType, historyVars
  <2>3. \A q \in Instance : \A n \in Fd :
           behind'[q][n] = IF q = conn[c].of /\ n = conn[c].fd THEN Closed ELSE behind[q][n]
    BY <2>1, <2>2 DEF StateType, Connected
  <2> QED BY <2>2, <2>3 DEF DescriptorsAreReturned
<1>4. CASE ReadFaults(c) \/ FindNull(c) \/ ExecuteFaults(c)
  <2>1. Connected(conn[c])
    BY <1>4, Somewhere DEF ReadFaults, FindNull, ExecuteFaults
  <2>2. conn[c].of \in Instance /\ Gone(conn[c].of)
    BY <1>4, <2>1 DEF ReadFaults, FindNull, ExecuteFaults, Connected
  <2> QED BY <2>2, DescriptorsGone
<1>5. CASE FindClear(c)
  <2>1. UNCHANGED <<behind, left>>
    BY <1>5 DEF FindClear, historyVars
  <2>2. \A d \in Conn : conn[d] # NoConn =>
            conn'[d] # NoConn /\ conn'[d].of = conn[d].of /\ conn'[d].fd = conn[d].fd
    <3> SUFFICES ASSUME NEW d \in Conn, conn[d] # NoConn
                 PROVE  conn'[d] # NoConn /\ conn'[d].of = conn[d].of /\ conn'[d].fd = conn[d].fd
      OBVIOUS
    <3>1. conn[d].at # "closed"
      BY DEF ConnType, Connected, Busy
    <3>2. conn'[d].of = conn[d].of /\ conn'[d].fd = conn[d].fd /\ conn'[d].at # "closed"
      BY <1>5, <3>1, ClearingStep DEF Asked
    <3> QED BY <3>2 DEF NoConn
  <2> QED BY <2>1, <2>2, DescriptorsKept
<1>6. CASE Serving(c)
  BY <1>6, ServingStep, DescriptorsKept DEF Holding, NoConn
<1> QED BY <1>1, <1>2, <1>3, <1>4, <1>5, <1>6 DEF Serve, Serving

LEMMA DescriptorsStep == TypeInv /\ DescriptorsAreReturned /\ [Next]_vars => DescriptorsAreReturned'
<1> SUFFICES ASSUME TypeInv, DescriptorsAreReturned, [Next]_vars PROVE DescriptorsAreReturned'
  OBVIOUS
<1>1. CASE UNCHANGED vars
  BY <1>1 DEF DescriptorsAreReturned, vars, historyVars
<1>2. ASSUME NEW p \in Instance, Process(p) PROVE DescriptorsAreReturned'
  <2>1. CASE UNCHANGED <<behind, conn, left>>
    BY <2>1 DEF DescriptorsAreReturned
  <2>2. CASE Gone(p)
    BY <2>2, DescriptorsGone
  <2> QED BY <1>2, <2>1, <2>2 DEF Process, Lock, Daemon, BindCli, BindApi, ListenCli, ListenApi,
             Exit, AcceptFails, Open, serviceVars, historyVars
<1> QED BY <1>1, <1>2, DescriptorsServe DEF Next

\* A socket that is open has a connection in progress on its descriptor, unless a
\* client of the API hung up before it sent a line: that is the only way listen_loop
\* and the threads lose a descriptor, whatever the second fclose and close() hit.
THEOREM ConsoleDescriptors == Spec => []DescriptorsAreReturned
<1>1. Init => DescriptorsAreReturned
  BY DEF Init, DescriptorsAreReturned
<1> QED BY <1>1, TypeInit, TypeStep, DescriptorsStep, PTL DEF Spec

-----------------------------------------------------------------------------
(* The answers.                                                            *)

\* As long as no descriptor was stolen, a connection that has not closed has its
\* descriptor for itself, and behind it is the socket its line came from.
Held(c) ==
    /\ Socket(c) # Closed
    /\ conn[c].at \in Asked => Socket(c) = conn[c].asker
    /\ \A d \in Conn \ {c} : conn[d].at \in Holding =>
         conn[d].of # conn[c].of \/ conn[d].fd # conn[c].fd

AskerInv ==
    /\ astray => stolen
    /\ ~stolen => \A c \in Conn : conn[c].at \in Holding => Held(c)

LEMMA AskerKept ==
  ASSUME AskerInv, UNCHANGED <<behind, stolen>>, astray' => stolen',
         \A c \in Conn : conn'[c].at \in Holding =>
            /\ conn[c].at \in Holding
            /\ conn'[c].of = conn[c].of /\ conn'[c].fd = conn[c].fd
            /\ conn'[c].at \in Asked =>
                 \/ conn'[c].asker = Socket(c)
                 \/ conn[c].at \in Asked /\ conn'[c].asker = conn[c].asker
  PROVE  AskerInv'
  BY DEF AskerInv, Held, Socket

LEMMA AskerGone ==
  ASSUME TypeInv, AskerInv, NEW p \in Instance, Gone(p)
  PROVE  AskerInv'
<1>1. \A q \in Instance \ {p} : behind'[q] = behind[q]
  BY DEF TypeInv, StateType, Gone
<1>2. UNCHANGED <<stolen, astray>>
  BY DEF Gone, historyVars
<1>3. \A c \in Conn : conn'[c].at \in Holding =>
         conn'[c] = conn[c] /\ conn[c].of \in Instance \ {p}
  BY DEF TypeInv, ConnType, Connected, Gone, Holding, NoConn
<1> QED BY <1>1, <1>2, <1>3 DEF AskerInv, Held, Socket

LEMMA AskerServe ==
  ASSUME TypeInv, AskerInv, NEW c \in Conn, Serve(c)
  PROVE  AskerInv'
<1> USE DEF TypeInv
<1>1. ASSUME NEW p \in Instance, NEW port \in {"cli", "api"}, Accept(c, p, port)
      PROVE AskerInv'
  <2> DEFINE m == Min(FreeFd(p))
  <2>1. /\ m \in Fd /\ behind[p][m] = Closed /\ UNCHANGED <<stolen, astray>>
        /\ behind' = [behind EXCEPT ![p][m] = accepted + 1]
        /\ conn' = [conn EXCEPT ![c] = NewConn(p, port, m)]
    BY <1>1, LowestFree DEF Accept, historyVars
  <2> HIDE DEF m
  <2>2. conn'[c].at \notin Asked /\ conn'[c].of = p /\ conn'[c].fd = m
    BY <2>1 DEF ConnType, NewConn, Asked
  <2>3. \A d \in Conn \ {c} : conn'[d] = conn[d]
    BY <2>1 DEF ConnType
  <2>4. \A q \in Instance : \A n \in Fd :
           behind'[q][n] = IF q = p /\ n = m THEN accepted + 1 ELSE behind[q][n]
    BY <2>1 DEF StateType
  <2>5. accepted + 1 # Closed
    BY DEF StateType, Closed
  <2>6. \A d \in Conn : conn[d].at \in Holding => conn[d].of \in Instance /\ conn[d].fd \in Fd
    BY DEF ConnType, Connected, Holding, NoConn
  <2>7. ASSUME ~stolen, NEW d \in Conn \ {c}, conn[d].at \in Holding
        PROVE  Held(d) /\ ~(conn[d].of = p /\ conn[d].fd = m)
    BY <2>1, <2>7 DEF AskerInv, Held, Socket
  <2>8. ASSUME ~stolen, NEW d \in Conn, conn'[d].at \in Holding PROVE Held(d)'
    <3>1. CASE d = c
      BY <2>1, <2>2, <2>3, <2>4, <2>5, <2>7, <2>8, <3>1 DEF Held, Socket
    <3>2. CASE d # c
      BY <2>2, <2>3, <2>4, <2>6, <2>7, <2>8, <3>2 DEF Held, Socket
    <3> QED BY <3>1, <3>2
  <2> QED BY <2>1, <2>8 DEF AskerInv
<1>2. CASE Eof(c)
  <2>1. Connected(conn[c]) /\ conn[c].at = "read"
    BY <1>2, Somewhere DEF Eof
  <2>2. /\ UNCHANGED <<behind, stolen, astray>> /\ \A d \in Conn \ {c} : conn'[d] = conn[d]
        /\ conn'[c] = NoConn \/ conn'[c] = [conn[c] EXCEPT !.at = "close_tx"]
    BY <1>2 DEF Eof, ConnType
  <2>3. conn'[c].at \in Holding =>
          conn'[c].of = conn[c].of /\ conn'[c].fd = conn[c].fd /\ conn'[c].at \notin Asked
    BY <2>1, <2>2 DEF Connected, Fields, FieldName, NoConn, Holding, Asked
  <2>4. astray' => stolen'
    BY <2>2 DEF AskerInv
  <2> QED BY <2>1, <2>2, <2>3, <2>4, AskerKept DEF Holding
<1>3. CASE CloseTx(c)
  <2>1. Connected(conn[c]) /\ conn[c].at \in Holding
    BY <1>3, Somewhere DEF CloseTx, Holding
  <2>2. /\ behind' = [behind EXCEPT ![conn[c].of][conn[c].fd] = Closed]
        /\ \A d \in Conn \ {c} : conn'[d] = conn[d]
        /\ UNCHANGED <<stolen, astray>> /\ conn'[c] = [conn[c] EXCEPT !.at = "close_rx"]
    BY <1>3 DEF CloseTx, ConnType, historyVars
  <2>3. \A q \in Instance : \A n \in Fd :
           behind'[q][n] = IF q = conn[c].of /\ n = conn[c].fd THEN Closed ELSE behind[q][n]
    BY <2>1, <2>2 DEF StateType, Connected
  <2>4. conn'[c].at \notin Holding
    BY <2>1, <2>2 DEF Connected, Fields, FieldName, Holding
  <2>5. \A d \in Conn : conn[d].at \in Holding => conn[d].of \in Instance /\ conn[d].fd \in Fd
    BY DEF ConnType, Connected, Holding, NoConn
  <2>6. ASSUME ~stolen, NEW d \in Conn, conn'[d].at \in Holding PROVE Held(d)'
    <3>1. d # c /\ conn'[d] = conn[d] /\ conn[d].of \in Instance /\ conn[d].fd \in Fd
      BY <2>2, <2>4, <2>5, <2>6
    <3>2. Held(d) /\ ~(conn[d].of = conn[c].of /\ conn[d].fd = conn[c].fd)
      BY <2>1, <2>6, <3>1 DEF AskerInv, Held
    <3>3. behind'[conn[d].of][conn[d].fd] = behind[conn[d].of][conn[d].fd]
      BY <2>3, <3>1, <3>2
    <3> QED BY <2>2, <2>4, <3>1, <3>2, <3>3 DEF Held, Socket
  <2> QED BY <2>2, <2>6 DEF AskerInv
<1>4. CASE CloseAgain(c)
  <2>1. Connected(conn[c])
    BY <1>4, Somewhere DEF CloseAgain
  <2>2. /\ behind' = [behind EXCEPT ![conn[c].of][conn[c].fd] = Closed]
        /\ \A d \in Conn \ {c} : conn'[d] = conn[d]
        /\ stolen' = (stolen \/ Socket(c) # Closed) /\ astray' = astray
        /\ conn'[c] = NoConn \/ conn'[c] = [conn[c] EXCEPT !.at = "close"]
    BY <1>4 DEF CloseAgain, ConnType
  <2>3. CASE stolen'
    BY <2>3 DEF AskerInv
  <2>4. CASE ~stolen'
    <3>1. UNCHANGED <<behind, stolen>>
      <4>1. ~stolen /\ stolen' = stolen /\ behind[conn[c].of][conn[c].fd] = Closed
        BY <2>2, <2>4 DEF StateType, Socket
      <4>2. conn[c].of \in Instance /\ conn[c].fd \in Fd
        BY <2>1 DEF Connected
      <4>3. behind' = behind
        BY <2>2, <4>1, <4>2 DEF StateType
      <4> QED BY <4>1, <4>3
    <3>2. conn'[c].at \notin Holding
      BY <2>1, <2>2 DEF Connected, Fields, FieldName, Holding, NoConn
    <3>3. astray' => stolen'
      BY <2>2, <3>1 DEF AskerInv
    <3> QED BY <2>2, <3>1, <3>2, <3>3, AskerKept
  <2> QED BY <2>3, <2>4
<1>5. CASE ReadFaults(c) \/ FindNull(c) \/ ExecuteFaults(c)
  <2>1. Connected(conn[c])
    BY <1>5, Somewhere DEF ReadFaults, FindNull, ExecuteFaults
  <2>2. conn[c].of \in Instance /\ Gone(conn[c].of)
    BY <1>5, <2>1 DEF ReadFaults, FindNull, ExecuteFaults, Connected
  <2> QED BY <2>2, AskerGone
<1>6. CASE FindClear(c)
  <2>1. UNCHANGED <<behind, stolen, astray>>
    BY <1>6 DEF FindClear, historyVars
  <2>2. ASSUME NEW d \in Conn, conn'[d].at \in Holding
        PROVE  /\ conn[d].at \in Holding
               /\ conn'[d].of = conn[d].of /\ conn'[d].fd = conn[d].fd
               /\ conn'[d].at \in Asked =>
                    conn[d].at \in Asked /\ conn'[d].asker = conn[d].asker
    <3>1. conn[d] # NoConn
      <4>1. conn[d] = NoConn => conn'[d] = NoConn
        <5>1. conn[d] = NoConn => d # c /\ d \notin Inside(c)
          <6>1. conn[c].at = "clear"
            BY <1>6 DEF FindClear
          <6>2. conn[d] = NoConn => conn[d].at = "closed"
            BY DEF NoConn
          <6> QED BY <6>1, <6>2 DEF Inside
        <5> QED BY <1>6, <5>1 DEF FindClear, ConnType
      <4> QED BY <2>2, <4>1 DEF NoConn, Holding
    <3> QED BY <1>6, <2>2, <3>1, ClearingStep DEF Asked, Holding
  <2>3. astray' => stolen'
    BY <2>1 DEF AskerInv
  <2> QED BY <2>1, <2>2, <2>3, AskerKept
<1>7. CASE Serving(c)
  <2>1. astray' => stolen'
    <3>1. CASE Answer(c)
      <4>1. ~stolen => Socket(c) = conn[c].asker
        BY <3>1 DEF Answer, AskerInv, Held, Holding, Asked
      <4> QED BY <3>1, <4>1 DEF Answer, AskerInv
    <3> QED BY <1>7, <3>1 DEF Serving, ReadLine, Stopped, FindRoot, FindSub, Execute, AskerInv,
               otherVars, historyVars
  <2> QED BY <1>7, <2>1, ServingStep, AskerKept
<1> QED BY <1>1, <1>2, <1>3, <1>4, <1>5, <1>6, <1>7 DEF Serve, Serving

LEMMA AskerStep == TypeInv /\ AskerInv /\ [Next]_vars => AskerInv'
<1> SUFFICES ASSUME TypeInv, AskerInv, [Next]_vars PROVE AskerInv'
  OBVIOUS
<1>1. CASE UNCHANGED vars
  BY <1>1 DEF AskerInv, Held, Socket, vars, historyVars
<1>2. ASSUME NEW p \in Instance, Process(p) PROVE AskerInv'
  <2>1. CASE UNCHANGED <<behind, conn, stolen, astray>>
    BY <2>1 DEF AskerInv, Held, Socket
  <2>2. CASE Gone(p)
    BY <2>2, AskerGone
  <2> QED BY <1>2, <2>1, <2>2 DEF Process, Lock, Daemon, BindCli, BindApi, ListenCli, ListenApi,
             Exit, AcceptFails, Open, serviceVars, historyVars
<1> QED BY <1>1, <1>2, AskerServe DEF Next

\* An answer goes to the socket its line came from, unless a thread that closed its
\* descriptor for the second time closed one that was in use again: the double close
\* of listen_loop's threads is the only way an answer goes astray.
THEOREM ConsoleAnswers == Spec => []AnswerReachesAsker
<1>1. Init => AskerInv
  BY DEF Init, AskerInv, NoConn, Holding
<1>2. AskerInv => AnswerReachesAsker
  BY DEF AskerInv, AnswerReachesAsker
<1> QED BY <1>1, <1>2, TypeInit, TypeStep, AskerStep, PTL DEF Spec

-----------------------------------------------------------------------------
(* The search for a command.                                               *)

Step(tokens, w, i) == IF i = 1 THEN RootCommand(tokens[1]) ELSE SubCommand(w[i - 1], tokens[i])

\* The function that Walk names exists, by induction over its length.
LEMMA WalkExists ==
  ASSUME NEW tokens
  PROVE  \A n \in Nat : \E w : w = [i \in 1..n |-> Step(tokens, w, i)]
<1> DEFINE S == {n \in Nat : \E w : w = [i \in 1..n |-> Step(tokens, w, i)]}
<1>1. 0 \in S
  <2> DEFINE w == [i \in 1..0 |-> 0]
  <2>1. w = [i \in 1..0 |-> Step(tokens, w, i)]
    OBVIOUS
  <2> HIDE DEF w
  <2> QED BY <2>1
<1>2. \A n \in Nat : n \in S => n + 1 \in S
  <2> SUFFICES ASSUME NEW n \in Nat, NEW w, w = [i \in 1..n |-> Step(tokens, w, i)]
               PROVE  \E v : v = [i \in 1..(n + 1) |-> Step(tokens, v, i)]
    OBVIOUS
  <2> DEFINE v == [i \in 1..(n + 1) |-> IF i <= n THEN w[i] ELSE Step(tokens, w, i)]
  <2>1. \A i \in 1..(n + 1) : i - 1 \in 1..n => v[i - 1] = w[i - 1]
    OBVIOUS
  <2>2. \A i \in 1..(n + 1) : v[i] = Step(tokens, w, i)
    <3> TAKE i \in 1..(n + 1)
    <3>1. CASE i <= n
      BY <3>1
    <3>2. CASE ~(i <= n)
      BY <3>2
    <3> QED BY <3>1, <3>2
  <2>3. \A i \in 1..(n + 1) : Step(tokens, w, i) = Step(tokens, v, i)
    <3> TAKE i \in 1..(n + 1)
    <3>1. i = 1 \/ i - 1 \in 1..n
      OBVIOUS
    <3> HIDE DEF v
    <3> QED BY <2>1, <3>1 DEF Step
  <2>4. v = [i \in 1..(n + 1) |-> v[i]]
    OBVIOUS
  <2> HIDE DEF v
  <2>5. v = [i \in 1..(n + 1) |-> Step(tokens, v, i)]
    BY <2>2, <2>3, <2>4
  <2> QED BY <2>5
<1> HIDE DEF S
<1>3. Nat \subseteq S
  BY <1>1, <1>2, NatSet
<1> QED BY <1>3 DEF S

\* What FindCommand comes to with each token.
LEMMA WalkIs ==
  ASSUME NEW tokens, Len(tokens) \in Nat, NEW n \in 1..Len(tokens)
  PROVE  Walk(tokens)[n] = IF n = 1 THEN RootCommand(tokens[1])
                           ELSE SubCommand(Walk(tokens)[n - 1], tokens[n])
<1> DEFINE Is(w) == w = [i \in 1..Len(tokens) |->
                          IF i = 1 THEN RootCommand(tokens[1]) ELSE SubCommand(w[i - 1], tokens[i])]
<1>1. Len(tokens) \in Nat
  OBVIOUS
<1>2. \E w : Is(w)
  BY <1>1, WalkExists DEF Step
<1>3. Walk(tokens) = CHOOSE w : Is(w)
  BY DEF Walk
<1>4. Is(Walk(tokens))
  BY <1>2, <1>3
<1> QED BY <1>4

Searching == {"root", "sub"}

\* The search has come to node and has rest still to read.
Reached(tokens, rest, node) ==
    /\ RootCommand(tokens[1]) # Null
    /\ \E n \in 1..Len(tokens) :
         /\ Len(rest) = Len(tokens) - n /\ node = Walk(tokens)[n]
         /\ \A j \in 1..Len(rest) : rest[j] = tokens[n + j]

\* A connection that has not been disturbed searches alone in its process, and the
\* static token is where its own tokens have led.
Undisturbed(c) ==
    /\ \A d \in Conn \ {c} : conn[d].at \in Searching => conn[d].of # conn[c].of
    /\ conn[c].at = "root" => current_token[conn[c].of] = Null /\ conn[c].rest = conn[c].tokens
    /\ conn[c].at = "sub" =>
         Reached(conn[c].tokens, conn[c].rest, current_token[conn[c].of])

LineInv ==
    \A c \in Conn :
        /\ conn[c].at \in {"read", "clear"} => conn[c].command = Null
        /\ conn[c].at = "answer" => conn[c].command = Null
        /\ conn[c].at \in Searching /\ ~conn[c].mixed => Undisturbed(c)
        /\ conn[c].at = "run" /\ ~conn[c].mixed => conn[c].command = Command(conn[c].tokens)

\* No one searches, and nothing a search needs is changed.
LEMMA LineKept ==
  ASSUME LineInv, UNCHANGED current_token,
         \A c \in Conn :
            \/ conn'[c] = conn[c]
            \/ conn'[c].at \notin {"read", "clear", "root", "sub", "run", "answer"}
            \/ conn'[c].at \in {"read", "clear", "answer"} /\ conn'[c].command = Null
  PROVE  LineInv'
  BY DEF LineInv, Undisturbed, Searching

LEMMA LineGone ==
  ASSUME TypeInv, LineInv, NEW p \in Instance, Gone(p)
  PROVE  LineInv'
<1>1. \A c \in Conn : conn'[c].at # "closed" => conn'[c] = conn[c] /\ conn[c].of \in Instance \ {p}
  BY DEF TypeInv, ConnType, Connected, Gone, NoConn
<1>2. \A q \in Instance \ {p} : current_token'[q] = current_token[q]
  BY DEF TypeInv, PerInstance, Gone
<1>3. ASSUME NEW c \in Conn, conn'[c].at \in Searching, ~conn'[c].mixed PROVE Undisturbed(c)'
  <2>1. conn'[c] = conn[c] /\ Undisturbed(c) /\ current_token'[conn[c].of] = current_token[conn[c].of]
    BY <1>1, <1>2, <1>3 DEF LineInv, Searching
  <2> QED BY <1>1, <2>1 DEF Undisturbed, Searching
<1> QED BY <1>1, <1>3 DEF LineInv, Searching

LEMMA LineFindClear ==
  ASSUME TypeInv, LineInv, NEW c \in Conn, FindClear(c)
  PROVE  LineInv'
<1> USE DEF TypeInv
<1>1. Connected(conn[c]) /\ conn[c].at = "clear" /\ conn[c].command = Null
  BY Somewhere DEF FindClear, LineInv
<1>2. CASE conn[c].tokens = <<>>
  <2>1. /\ conn'[c] = [conn[c] EXCEPT !.at = "run"] /\ UNCHANGED current_token
        /\ \A d \in Conn \ {c} : conn'[d] = conn[d]
    BY <1>2 DEF FindClear, ConnType
  <2>2. conn'[c].at = "run" /\ conn'[c].command = Null /\ conn'[c].tokens = <<>>
    BY <1>1, <1>2, <2>1 DEF Connected, Fields, FieldName
  <2>3. Command(<<>>) = Null
    BY DEF Command
  <2>4. ASSUME NEW d \in Conn, conn'[d].at \in Searching, ~conn'[d].mixed
        PROVE  Undisturbed(d)'
    <3>1. d # c /\ conn'[d] = conn[d] /\ Undisturbed(d)
      BY <2>1, <2>2, <2>4 DEF LineInv, Searching
    <3> QED BY <2>1, <2>2, <3>1 DEF Undisturbed, Searching
  <2>5. \A d \in Conn : conn'[d].at = "run" /\ ~conn'[d].mixed =>
           conn'[d].command = Command(conn'[d].tokens)
    BY <2>1, <2>2, <2>3 DEF LineInv
  <2>6. \A d \in Conn : conn'[d].at \in {"read", "clear", "answer"} => conn'[d].command = Null
    BY <2>1, <2>2 DEF LineInv
  <2> QED BY <2>4, <2>5, <2>6 DEF LineInv
<1>3. CASE conn[c].tokens # <<>>
  <2> DEFINE m == Inside(c) # {}
  <2>1. /\ conn'[c] = [conn[c] EXCEPT !.at = "root", !.mixed = m]
        /\ current_token' = [current_token EXCEPT ![conn[c].of] = Null]
        /\ \A d \in Conn \ {c} : conn'[d] =
              IF d \in Inside(c) THEN [conn[d] EXCEPT !.mixed = TRUE] ELSE conn[d]
    BY <1>3 DEF FindClear, ConnType
  <2>2. /\ conn'[c].at = "root" /\ conn'[c].of = conn[c].of /\ conn'[c].tokens = conn[c].tokens
        /\ conn'[c].rest = conn[c].tokens /\ conn'[c].mixed = m
    <3> HIDE DEF m
    <3> QED BY <1>1, <2>1 DEF Connected, Fields, FieldName
  <2>3. ASSUME NEW d \in Inside(c)
        PROVE  conn'[d].mixed /\ conn'[d].at = conn[d].at /\ conn'[d].of = conn[d].of
               /\ conn[d].at \in Searching
    <3>1. Connected(conn[d]) /\ d \in Conn \ {c} /\ conn[d].at \in Searching
      BY Somewhere DEF Inside, Searching
    <3> QED BY <2>1, <3>1 DEF Connected, Fields, FieldName
  <2>4. ASSUME NEW d \in Conn \ {c}, d \notin Inside(c)
        PROVE  conn'[d] = conn[d] /\ (conn[d].at \in Searching => conn[d].of # conn[c].of)
    <3>1. conn[d].at \in Searching => conn[d] # NoConn
      BY DEF Searching, NoConn
    <3> QED BY <2>1, <2>4, <3>1 DEF Inside, Searching
  <2>5. current_token'[conn[c].of] = Null
        /\ \A q \in Instance \ {conn[c].of} : current_token'[q] = current_token[q]
    BY <1>1, <2>1 DEF PerInstance, Connected
  <2>6. conn'[c].mixed \/ Undisturbed(c)'
    <3>1. CASE Inside(c) = {}
      BY <2>2, <2>4, <2>5, <3>1 DEF Undisturbed
    <3> QED BY <2>2, <3>1
  <2>7. ASSUME NEW d \in Conn \ {c}, conn'[d].at \in Searching, ~conn'[d].mixed
        PROVE  Undisturbed(d)'
    <3>1. d \notin Inside(c) /\ conn'[d] = conn[d] /\ conn[d].of # conn[c].of
      BY <2>3, <2>4, <2>7
    <3>2. Undisturbed(d)
      BY <2>7, <3>1 DEF LineInv
    <3>3. current_token'[conn[d].of] = current_token[conn[d].of]
      <4>1. conn[d].of \in Instance
        BY <2>7, <3>1, Somewhere DEF Searching, Connected
      <4> QED BY <2>5, <3>1, <4>1
    <3>4. \A e \in Conn \ {d} : conn'[e].at \in Searching => conn'[e].of # conn[d].of
      <4> TAKE e \in Conn \ {d}
      <4>1. CASE e = c
        BY <2>2, <3>1, <4>1
      <4>2. CASE e # c
        BY <2>3, <2>4, <3>2, <4>2 DEF Undisturbed
      <4> QED BY <4>1, <4>2
    <3> QED BY <3>1, <3>2, <3>3, <3>4 DEF Undisturbed
  <2>8. \A d \in Conn \ {c} :
           (conn'[d].at \in {"read", "clear", "answer"} => conn'[d].command = Null)
           /\ (conn'[d].at = "run" /\ ~conn'[d].mixed => conn'[d].command = Command(conn'[d].tokens))
    BY <2>3, <2>4 DEF LineInv, Searching
  <2> QED BY <2>2, <2>6, <2>7, <2>8 DEF LineInv
<1> QED BY <1>2, <1>3

\* A step of c down the tree leaves the searches of the others alone.
LEMMA LineFindStep ==
  ASSUME TypeInv, LineInv, NEW c \in Conn, Connected(conn[c]), conn[c].at \in Searching, NEW node,
         NEW at \in {"run", "sub"}, NEW command,
         current_token' = [current_token EXCEPT ![conn[c].of] = node],
         conn' = [conn EXCEPT ![c].rest = Tail(conn[c].rest), ![c].command = command, ![c].at = at],
         ~conn[c].mixed =>
            IF at = "sub" THEN Reached(conn[c].tokens, Tail(conn[c].rest), node)
            ELSE command = Command(conn[c].tokens)
  PROVE  LineInv'
<1> USE DEF TypeInv
<1>1. conn'[c] = [conn[c] EXCEPT !.rest = Tail(conn[c].rest), !.command = command, !.at = at]
      /\ \A d \in Conn \ {c} : conn'[d] = conn[d]
  BY DEF ConnType
<1>2. /\ conn'[c].at = at /\ conn'[c].of = conn[c].of /\ conn'[c].tokens = conn[c].tokens
      /\ conn'[c].mixed = conn[c].mixed
      /\ conn'[c].rest = Tail(conn[c].rest) /\ conn'[c].command = command
  <2>1. Fields(conn[c])
    BY DEF Connected
  <2> DEFINE r == conn[c]
             x == Tail(conn[c].rest)
             q == [r EXCEPT !.rest = x, !.command = command, !.at = at]
  <2>2. Fields(r) /\ conn'[c] = q
    BY <1>1, <2>1
  <2> HIDE DEF r, x
  <2>3. /\ q.at = at /\ q.of = r.of /\ q.tokens = r.tokens /\ q.mixed = r.mixed
        /\ q.rest = x /\ q.command = command
    BY <2>2 DEF Fields, FieldName
  <2> HIDE DEF q
  <2> QED BY <2>2, <2>3 DEF r, x
<1>4. current_token'[conn[c].of] = node
      /\ \A q \in Instance \ {conn[c].of} : current_token'[q] = current_token[q]
  BY DEF PerInstance, Connected
<1>5. ASSUME NEW d \in Conn, conn'[d].at \in Searching, ~conn'[d].mixed
      PROVE  Undisturbed(d)'
  <2>1. conn[d].at \in Searching /\ ~conn[d].mixed /\ conn'[d].of = conn[d].of
    BY <1>1, <1>2, <1>5
  <2>2. Undisturbed(d)
    BY <2>1 DEF LineInv
  <2>3. \A e \in Conn \ {d} : conn'[e].at \in Searching => conn'[e].of # conn'[d].of
    BY <1>1, <1>2, <2>1, <2>2 DEF Undisturbed
  <2>4. CASE d = c
    BY <1>2, <1>4, <1>5, <2>3, <2>4 DEF Undisturbed, Searching
  <2>5. CASE d # c
    <3>1. conn[d].of # conn[c].of /\ conn[d].of \in Instance
      BY <2>1, <2>2, <2>5, Somewhere DEF Undisturbed, Searching, Connected
    <3>2. conn'[d] = conn[d] /\ current_token'[conn[d].of] = current_token[conn[d].of]
      BY <1>1, <1>4, <2>5, <3>1
    <3> QED BY <2>2, <2>3, <3>2 DEF Undisturbed
  <2> QED BY <2>4, <2>5
<1>6. \A d \in Conn : conn'[d].at = "run" /\ ~conn'[d].mixed =>
         conn'[d].command = Command(conn'[d].tokens)
  <2> TAKE d \in Conn
  <2>1. CASE d = c
    BY <1>2, <2>1
  <2>2. CASE d # c
    BY <1>1, <2>2 DEF LineInv
  <2> QED BY <2>1, <2>2
<1>7. \A d \in Conn : conn'[d].at \in {"read", "clear", "answer"} => conn'[d].command = Null
  BY <1>1, <1>2 DEF LineInv
<1> QED BY <1>5, <1>6, <1>7 DEF LineInv

\* The first token, and each one after it, leads where Walk says.
LEMMA ReachedFirst ==
  ASSUME NEW tokens \in Seq(STRING), tokens # <<>>, RootCommand(Head(tokens)) # Null
  PROVE  /\ Tail(tokens) # <<>> => Reached(tokens, Tail(tokens), RootCommand(Head(tokens)))
         /\ Tail(tokens) = <<>> => Command(tokens) = RootCommand(Head(tokens))
<1>1. 1 \in 1..Len(tokens) /\ Head(tokens) = tokens[1] /\ Len(Tail(tokens)) = Len(tokens) - 1
      /\ \A j \in 1..Len(Tail(tokens)) : Tail(tokens)[j] = tokens[1 + j]
  OBVIOUS
<1>2. Walk(tokens)[1] = RootCommand(Head(tokens))
  BY <1>1, WalkIs
<1>3. Tail(tokens) = <<>> => Len(tokens) = 1
  BY <1>1
<1> QED BY <1>1, <1>2, <1>3 DEF Reached, Command

LEMMA EmptyLen == \A s : s = <<>> => Len(s) = 0
  OBVIOUS

LEMMA ReachedNext ==
  ASSUME NEW tokens \in Seq(STRING), NEW rest \in Seq(STRING), rest # <<>>, NEW node,
         Reached(tokens, rest, node)
  PROVE  /\ Tail(rest) # <<>> => Reached(tokens, Tail(rest), SubCommand(node, Head(rest)))
         /\ Tail(rest) = <<>> => Command(tokens) = SubCommand(node, Head(rest))
<1>1. PICK n \in 1..Len(tokens) :
         /\ Len(rest) = Len(tokens) - n /\ node = Walk(tokens)[n]
         /\ \A j \in 1..Len(rest) : rest[j] = tokens[n + j]
  BY DEF Reached
<1>2. /\ Len(tokens) \in Nat
      /\ n + 1 \in 1..Len(tokens) /\ n + 1 # 1 /\ (n + 1) - 1 = n
      /\ 1 \in 1..Len(rest) /\ Head(rest) = tokens[n + 1]
  BY <1>1
<1>3. Len(Tail(rest)) = Len(tokens) - (n + 1)
      /\ \A j \in 1..Len(Tail(rest)) : Tail(rest)[j] = tokens[(n + 1) + j]
  <2>1. /\ Len(Tail(rest)) = Len(rest) - 1 /\ Len(rest) \in Nat /\ Len(tokens) \in Nat
        /\ \A j \in 1..Len(Tail(rest)) : Tail(rest)[j] = rest[j + 1]
    OBVIOUS
  <2>2. \A j \in 1..Len(Tail(rest)) : j + 1 \in 1..Len(rest) /\ n + (j + 1) = (n + 1) + j
    BY <2>1
  <2>3. Len(Tail(rest)) = Len(tokens) - (n + 1)
    BY <1>1, <2>1
  <2> QED BY <1>1, <2>1, <2>2, <2>3
<1>4. Walk(tokens)[n + 1] = SubCommand(node, Head(rest))
  BY <1>1, <1>2, WalkIs
<1>5. Tail(rest) = <<>> => n + 1 = Len(tokens) /\ tokens # <<>>
  <2>1. Tail(rest) = <<>> => Len(Tail(rest)) = 0
    BY EmptyLen
  <2>2. Len(tokens) \in Nat /\ (tokens = <<>> => Len(tokens) = 0)
    OBVIOUS
  <2>3. Tail(rest) = <<>> => Len(tokens) = n + 1
    <3> DEFINE a == Len(Tail(rest))
               b == Len(tokens)
    <3>1. a = b - (n + 1) /\ b \in Nat /\ n \in Nat
      BY <1>3, <2>2
    <3> HIDE DEF a, b
    <3>2. a = 0 => b = n + 1
      BY <3>1
    <3> QED BY <2>1, <3>2 DEF a, b
  <2> QED BY <1>2, <2>2, <2>3
<1>6. RootCommand(tokens[1]) # Null
  BY DEF Reached
<1>7. Tail(rest) = <<>> => Command(tokens) = SubCommand(node, Head(rest))
  BY <1>4, <1>5, <1>6 DEF Command
<1>8. Reached(tokens, Tail(rest), SubCommand(node, Head(rest)))
  BY <1>2, <1>3, <1>4, <1>6 DEF Reached
<1> QED BY <1>7, <1>8

LEMMA LineFindRoot ==
  ASSUME TypeInv, LineInv, NEW c \in Conn, FindRoot(c)
  PROVE  LineInv'
<1>1. Connected(conn[c]) /\ conn[c].at = "root"
  BY Somewhere DEF FindRoot
<1> DEFINE root == RootCommand(Head(conn[c].rest))
           node == IF root = Null THEN current_token[conn[c].of] ELSE root
           rest == Tail(conn[c].rest)
           command == IF rest = <<>> THEN node ELSE Null
           at == IF node = Null \/ rest = <<>> THEN "run" ELSE "sub"
<1>2. /\ current_token' = [current_token EXCEPT ![conn[c].of] = node]
      /\ conn' = [conn EXCEPT ![c].rest = rest, ![c].command = command, ![c].at = at]
  BY DEF FindRoot
<1>3. ASSUME ~conn[c].mixed
      PROVE  IF at = "sub" THEN Reached(conn[c].tokens, rest, node)
             ELSE command = Command(conn[c].tokens)
  <2>1. current_token[conn[c].of] = Null /\ conn[c].rest = conn[c].tokens
    BY <1>1, <1>3 DEF LineInv, Undisturbed, Searching
  <2>2. conn[c].tokens \in Seq(STRING) /\ conn[c].tokens # <<>>
    BY <1>1, <2>1 DEF Connected
  <2>3. CASE root = Null
    <3>1. Head(conn[c].tokens) = conn[c].tokens[1]
      BY <2>2
    <3> QED BY <2>1, <2>3, <3>1 DEF Command
  <2>4. CASE root # Null
    BY <2>1, <2>2, <2>4, ReachedFirst
  <2> QED BY <2>3, <2>4
<1>4. at \in {"run", "sub"} /\ conn[c].at \in Searching
  BY <1>1 DEF Searching
<1> HIDE DEF node, command, at
<1> QED BY <1>1, <1>2, <1>3, <1>4, LineFindStep

LEMMA LineFindSub ==
  ASSUME TypeInv, LineInv, NEW c \in Conn, FindSub(c)
  PROVE  LineInv'
<1>1. Connected(conn[c]) /\ conn[c].at = "sub"
  BY Somewhere DEF FindSub
<1> DEFINE node == SubCommand(current_token[conn[c].of], Head(conn[c].rest))
           rest == Tail(conn[c].rest)
           command == IF rest = <<>> THEN node ELSE Null
           at == IF rest = <<>> THEN "run" ELSE "sub"
<1>2. /\ current_token' = [current_token EXCEPT ![conn[c].of] = node]
      /\ conn' = [conn EXCEPT ![c].rest = rest, ![c].command = command, ![c].at = at]
  BY DEF FindSub
<1>3. ASSUME ~conn[c].mixed
      PROVE  IF at = "sub" THEN Reached(conn[c].tokens, rest, node)
             ELSE command = Command(conn[c].tokens)
  <2>1. Reached(conn[c].tokens, conn[c].rest, current_token[conn[c].of])
    BY <1>1, <1>3 DEF LineInv, Undisturbed, Searching
  <2>2. conn[c].tokens \in Seq(STRING) /\ conn[c].rest \in Seq(STRING) /\ conn[c].rest # <<>>
    BY <1>1 DEF Connected
  <2> QED BY <2>1, <2>2, ReachedNext
<1>4. at \in {"run", "sub"} /\ conn[c].at \in Searching
  BY <1>1 DEF Searching
<1> HIDE DEF node, command, at
<1> QED BY <1>1, <1>2, <1>3, <1>4, LineFindStep

LEMMA LineServe ==
  ASSUME TypeInv, LineInv, NEW c \in Conn, Serve(c)
  PROVE  LineInv'
<1> USE DEF TypeInv
<1>1. CASE FindClear(c) \/ FindRoot(c) \/ FindSub(c)
  BY <1>1, LineFindClear, LineFindRoot, LineFindSub
<1>2. CASE ReadFaults(c) \/ FindNull(c) \/ ExecuteFaults(c)
  <2>1. Connected(conn[c])
    BY <1>2, Somewhere DEF ReadFaults, FindNull, ExecuteFaults
  <2>2. conn[c].of \in Instance /\ Gone(conn[c].of)
    BY <1>2, <2>1 DEF ReadFaults, FindNull, ExecuteFaults, Connected
  <2> QED BY <2>2, LineGone
<1>3. ASSUME NEW p \in Instance, NEW port \in {"cli", "api"}, Accept(c, p, port)
      PROVE LineInv'
  <2>1. PICK n : conn' = [conn EXCEPT ![c] = NewConn(p, port, n)]
    BY <1>3 DEF Accept
  <2>2. /\ \A d \in Conn \ {c} : conn'[d] = conn[d]
        /\ conn'[c].at \in {"close_tx", "read"} /\ conn'[c].command = Null
    BY <2>1 DEF ConnType, NewConn
  <2>3. UNCHANGED current_token
    BY <1>3 DEF Accept
  <2> QED BY <2>2, <2>3, LineKept
<1>4. CASE \/ ReadLine(c) \/ Stopped(c) \/ Eof(c) \/ Execute(c) \/ Answer(c)
           \/ CloseTx(c) \/ CloseAgain(c)
  <2>1. Connected(conn[c])
    BY <1>4, Somewhere DEF ReadLine, Stopped, Eof, Execute, Answer, CloseTx, CloseAgain
  <2>2. UNCHANGED current_token /\ \A d \in Conn \ {c} : conn'[d] = conn[d]
    BY <1>4 DEF ReadLine, Stopped, Eof, Execute, Answer, CloseTx, CloseAgain, ConnType, otherVars
  <2>3. \/ conn'[c].at \notin {"read", "clear", "root", "sub", "run", "answer"}
        \/ conn'[c].at \in {"read", "clear", "answer"} /\ conn'[c].command = Null
    <3>1. CASE ReadLine(c)
      <4>1. PICK l, legal : conn'[c] = Reading(conn[c], l, legal)
        BY <3>1 DEF ReadLine, ConnType
      <4>2. conn[c].command = Null
        BY <3>1 DEF ReadLine, LineInv
      <4> QED BY <2>1, <4>1, <4>2 DEF Reading, Connected, Fields, FieldName
    <3>2. CASE Stopped(c) \/ Eof(c) \/ CloseTx(c) \/ CloseAgain(c)
      <4>1. \/ conn'[c] = NoConn
            \/ \E x \in {"close_tx", "close_rx", "close"} : conn'[c] = [conn[c] EXCEPT !.at = x]
        BY <3>2 DEF Stopped, Eof, CloseTx, CloseAgain, ConnType
      <4> QED BY <2>1, <4>1 DEF NoConn, Connected, Fields, FieldName
    <3>3. CASE Execute(c)
      <4>1. conn'[c] = [conn[c] EXCEPT !.at = "answer", !.tokens = <<>>, !.rest = <<>>,
                                       !.command = Null, !.mixed = FALSE]
        BY <3>3 DEF Execute, ConnType
      <4> QED BY <2>1, <4>1 DEF Connected, Fields, FieldName
    <3>4. CASE Answer(c)
      <4>1. \E x \in {"close_tx", "read"} : conn'[c] = [conn[c] EXCEPT !.at = x]
        BY <3>4 DEF Answer, ConnType
      <4>2. conn[c].command = Null
        BY <3>4 DEF Answer, LineInv
      <4> QED BY <2>1, <4>1, <4>2 DEF Connected, Fields, FieldName
    <3> QED BY <1>4, <3>1, <3>2, <3>3, <3>4
  <2> QED BY <2>2, <2>3, LineKept
<1> QED BY <1>1, <1>2, <1>3, <1>4 DEF Serve

LEMMA LineStep == TypeInv /\ LineInv /\ [Next]_vars => LineInv'
<1> SUFFICES ASSUME TypeInv, LineInv, [Next]_vars PROVE LineInv'
  OBVIOUS
<1>1. CASE UNCHANGED vars
  BY <1>1 DEF LineInv, Undisturbed, vars
<1>2. ASSUME NEW p \in Instance, Process(p) PROVE LineInv'
  <2>1. CASE UNCHANGED <<current_token, conn>>
    BY <2>1 DEF LineInv, Undisturbed
  <2>2. CASE Gone(p)
    BY <2>2, LineGone
  <2> QED BY <1>2, <2>1, <2>2 DEF Process, Lock, Daemon, BindCli, BindApi, ListenCli, ListenApi,
             Exit, AcceptFails, Open, serviceVars
<1> QED BY <1>1, <1>2, LineServe DEF Next

\* FindCommand: whatever was typed before, on this connection or another, a line runs
\* the command its own tokens name, unless another connection of the process was
\* inside FindCommand, on the same static token, with it.
THEOREM ConsoleCommands == Spec => []LineRunsItsOwnCommand
<1>1. Init => LineInv
  BY DEF Init, LineInv, NoConn, Searching
<1>2. LineInv => LineRunsItsOwnCommand
  BY DEF LineInv, LineRunsItsOwnCommand
<1> QED BY <1>1, <1>2, TypeInit, TypeStep, LineStep, PTL DEF Spec
=============================================================================
