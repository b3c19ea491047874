------------------------ MODULE EventDatabaseProofs -------------------------
(***************************************************************************)
(* Proofs about EventDatabase: what the loop of db_get_entries reads, and  *)
(* which records survive the inserts that follow a query.                  *)
(***************************************************************************)
EXTENDS EventDatabase, Induction

-----------------------------------------------------------------------------
(* The reader.                                                             *)

Cells == [kind : {"data", "as_path", "nlri", "end_of_record"}, val : Nat]

\* The loop goes on behind p.
LEMMA AfterIsBehind ==
  ASSUME NEW f \in Seq(Cells), NEW p \in 0..Len(f)
  PROVE  After(f, p) \in Nat /\ After(f, p) >= p + 2
<1>1. \A i \in 1..Len(f) : f[i].val \in Nat
  <2> TAKE i \in 1..Len(f)
  <2>1. f[i] \in Cells
    OBVIOUS
  <2> QED BY <2>1 DEF Cells
<1>2. p + 3 > Len(f) \/ p + 3 \in 1..Len(f)
  OBVIOUS
<1>3. CASE Code(f, p) = "as_path"
  BY <1>1, <1>2, <1>3 DEF After
<1>4. CASE Code(f, p) = "nlri"
  BY <1>4 DEF After
<1>5. CASE Code(f, p) # "as_path" /\ Code(f, p) # "nlri"
  BY <1>5 DEF After
<1> QED BY <1>3, <1>4, <1>5

\* A turn of the loop at p, if w is what it reads from the places behind.
Turn(f, w, p) ==
    IF p + 2 > Len(f)
    THEN IF p > 0 /\ p < Len(f) /\ f[p] = EndCell /\ f[p + 1] = EndCell
         THEN Ends(Failed) ELSE Spin
    ELSE IF Code(f, p) = "end_of_record" THEN Ends(p + 2)
    ELSE IF After(f, p) > Len(f) \/ w[After(f, p)] = Spin THEN Spin
    ELSE Before(f, p, w[After(f, p)])

\* The last n places of a file.
Last(f, n) == {p \in 0..Len(f) : p > Len(f) - n}

\* The function that the loop defines exists, from the end of the file on.
LEMMA ReadExists ==
  ASSUME NEW f \in Seq(Cells)
  PROVE  \A n \in Nat : \E w : w = [p \in Last(f, n) |-> Turn(f, w, p)]
<1> DEFINE S == {n \in Nat : \E w : w = [p \in Last(f, n) |-> Turn(f, w, p)]}
<1>0. Len(f) \in Nat
  OBVIOUS
<1>1. 0 \in S
  <2> DEFINE w == [p \in Last(f, 0) |-> 0]
  <2>1. Last(f, 0) = {}
    BY <1>0 DEF Last
  <2>2. w = [p \in Last(f, 0) |-> Turn(f, w, p)]
    BY <2>1
  <2> HIDE DEF w
  <2> QED BY <2>2
<1>2. \A n \in Nat : n \in S => n + 1 \in S
  <2> SUFFICES ASSUME NEW n \in Nat, NEW w, w = [p \in Last(f, n) |-> Turn(f, w, p)]
               PROVE  \E v : v = [p \in Last(f, n + 1) |-> Turn(f, v, p)]
    OBVIOUS
  <2> DEFINE v == [p \in Last(f, n + 1) |-> IF p \in Last(f, n) THEN w[p] ELSE Turn(f, w, p)]
  <2>1. \A p \in Last(f, n) : v[p] = w[p]
    BY <1>0 DEF Last
  <2>2. \A p \in Last(f, n + 1) : v[p] = Turn(f, w, p)
    OBVIOUS
  <2>3. \A p \in Last(f, n + 1) : Turn(f, w, p) = Turn(f, v, p)
    <3> TAKE p \in Last(f, n + 1)
    <3>1. p \in 0..Len(f) /\ p > Len(f) - (n + 1)
      BY DEF Last
    <3>2. After(f, p) \in Nat /\ After(f, p) >= p + 2
      BY <3>1, AfterIsBehind
    <3>3. After(f, p) > Len(f) \/ After(f, p) \in Last(f, n)
      BY <1>0, <3>1, <3>2 DEF Last
    <3>4. After(f, p) > Len(f) \/ v[After(f, p)] = w[After(f, p)]
      BY <2>1, <3>3
    <3> HIDE DEF v
    <3> QED BY <3>4 DEF Turn
  <2>4. v = [p \in Last(f, n + 1) |-> v[p]]
    OBVIOUS
  <2> HIDE DEF v
  <2>5. v = [p \in Last(f, n + 1) |-> Turn(f, v, p)]
    BY <2>2, <2>3, <2>4
  <2> QED BY <2>5
<1> HIDE DEF S
<1>3. Nat \subseteq S
  BY <1>1, <1>2, NatSet
<1> QED BY <1>3 DEF S

\* What the loop reads at a place, from what it reads behind it.
LEMMA ReadIs ==
  ASSUME NEW f \in Seq(Cells), NEW at \in 0..Len(f)
  PROVE  Read(f, at) =
           IF at + 2 > Len(f)
           THEN IF at > 0 /\ at < Len(f) /\ f[at] = EndCell /\ f[at + 1] = EndCell
                THEN Ends(Failed) ELSE Spin
           ELSE IF Code(f, at) = "end_of_record" THEN Ends(at + 2)
           ELSE IF After(f, at) > Len(f) \/ Read(f, After(f, at)) = Spin THEN Spin
           ELSE Before(f, at, Read(f, After(f, at)))
<1> DEFINE Is(w) == w = [p \in 0..Len(f) |->
          IF p + 2 > Len(f)
          THEN IF p > 0 /\ p < Len(f) /\ f[p] = EndCell /\ f[p + 1] = EndCell
               THEN Ends(Failed) ELSE Spin
          ELSE IF Code(f, p) = "end_of_record" THEN Ends(p + 2)
          ELSE IF After(f, p) > Len(f) \/ w[After(f, p)] = Spin THEN Spin
          ELSE Before(f, p, w[After(f, p)])]
<1> DEFINE W == CHOOSE w : Is(w)
<1>0. Len(f) \in Nat
  OBVIOUS
<1>1. Last(f, Len(f) + 1) = 0..Len(f)
  BY <1>0 DEF Last
<1>2. \E w : Is(w)
  <2>1. \E w : w = [p \in Last(f, Len(f) + 1) |-> Turn(f, w, p)]
    <3>1. Len(f) + 1 \in Nat
      BY <1>0
    <3> QED BY <3>1, ReadExists
  <2>2. PICK w : w = [p \in 0..Len(f) |-> Turn(f, w, p)]
    BY <1>1, <2>1
  <2>3. Is(w)
    BY <2>2 DEF Turn
  <2> QED BY <2>3
<1>3. \A q \in 0..Len(f) : Read(f, q) = W[q]
  BY <1>0 DEF Read, Failed
<1>4. Is(W)
  BY <1>2
<1> HIDE DEF W
<1>5. W[at] = IF at + 2 > Len(f)
              THEN IF at > 0 /\ at < Len(f) /\ f[at] = EndCell /\ f[at + 1] = EndCell
                   THEN Ends(Failed) ELSE Spin
              ELSE IF Code(f, at) = "end_of_record" THEN Ends(at + 2)
              ELSE IF After(f, at) > Len(f) \/ W[After(f, at)] = Spin THEN Spin
              ELSE Before(f, at, W[After(f, at)])
  BY <1>4
<1>6. After(f, at) > Len(f) \/ Read(f, After(f, at)) = W[After(f, at)]
  BY <1>0, <1>3, AfterIsBehind
<1>7. Read(f, at) = W[at]
  BY <1>3
<1> QED BY <1>5, <1>6, <1>7

\* A record that was read, and ends somewhere in the file.
Ended(f, r) ==
    /\ DOMAIN r = {"end", "path", "nlri"}
    /\ r.end \in {Failed} \cup 0..Len(f)

\* The attribute that is put in front does not move the end.
LEMMA BeforeKeepsEnd ==
  ASSUME NEW f, NEW p, NEW r, Ended(f, r)
  PROVE  Ended(f, Before(f, p, r))
  BY DEF Ended, Before

\* However a file was overwritten, a query that returns leaves the stream failed
\* or inside the file.
LEMMA EndsInFile ==
  ASSUME NEW f \in Seq(Cells), NEW at \in {Failed} \cup 0..Len(f)
  PROVE  Read(f, at) = Spin \/ Ended(f, Read(f, at))
<1> DEFINE S == {n \in Nat : \A p \in Last(f, n) : Read(f, p) = Spin \/ Ended(f, Read(f, p))}
<1>0. Len(f) \in Nat
  OBVIOUS
<1>1. 0 \in S
  BY <1>0 DEF Last
<1>2. \A n \in Nat : n \in S => n + 1 \in S
  <2> SUFFICES ASSUME NEW n \in Nat,
                      \A p \in Last(f, n) : Read(f, p) = Spin \/ Ended(f, Read(f, p)),
                      NEW p \in Last(f, n + 1)
               PROVE  Read(f, p) = Spin \/ Ended(f, Read(f, p))
    OBVIOUS
  <2>1. p \in 0..Len(f) /\ p > Len(f) - (n + 1)
    BY DEF Last
  <2>2. After(f, p) > Len(f) \/ After(f, p) \in Last(f, n)
    BY <1>0, <2>1, AfterIsBehind DEF Last
  <2>3. CASE p + 2 > Len(f)
    <3>1. Ended(f, Ends(Failed))
      BY DEF Ended, Ends
    <3> QED BY <2>1, <2>3, <3>1, ReadIs
  <2>4. CASE ~(p + 2 > Len(f)) /\ Code(f, p) = "end_of_record"
    <3>1. Ended(f, Ends(p + 2))
      BY <1>0, <2>1, <2>4 DEF Ended, Ends
    <3> QED BY <2>1, <2>4, <3>1, ReadIs
  <2>5. CASE ~(p + 2 > Len(f)) /\ Code(f, p) # "end_of_record"
    <3>1. CASE After(f, p) > Len(f) \/ Read(f, After(f, p)) = Spin
      BY <2>1, <2>5, <3>1, ReadIs
    <3>2. CASE ~(After(f, p) > Len(f) \/ Read(f, After(f, p)) = Spin)
      <4>1. Ended(f, Read(f, After(f, p)))
        BY <2>2, <3>2
      <4>2. Read(f, p) = Before(f, p, Read(f, After(f, p)))
        BY <2>1, <2>5, <3>2, ReadIs
      <4> QED BY <4>1, <4>2, BeforeKeepsEnd
    <3> QED BY <3>1, <3>2
  <2> QED BY <2>3, <2>4, <2>5
<1> HIDE DEF S
<1>3. Nat \subseteq S
  BY <1>1, <1>2, NatSet
<1>4. CASE at = Failed
  BY <1>4 DEF Read
<1>5. CASE at # Failed
  <2>1. at \in Last(f, Len(f) + 1) /\ Len(f) + 1 \in Nat
    BY <1>0, <1>5 DEF Last
  <2> QED BY <1>3, <2>1 DEF S
<1> QED BY <1>4, <1>5

-----------------------------------------------------------------------------
(* The writer.                                                             *)

\* Where the cells of two sequences are when one is put behind the other.
Joined(s, t, u) ==
    /\ u \in Seq(Cells) /\ Len(u) = Len(s) + Len(t)
    /\ \A i \in 1..Len(s) : u[i] = s[i]
    /\ \A i \in 1..Len(t) : u[Len(s) + i] = t[i]

LEMMA Cat ==
  ASSUME NEW s \in Seq(Cells), NEW t \in Seq(Cells)
  PROVE  Joined(s, t, s \o t)
  BY DEF Joined

\* The cells of a record: two of a marker at a time, a length, the path.
LEMMA EncodeIs ==
  ASSUME NEW n \in Nat, NEW length \in Nat
  PROVE  LET e == Encode(n, length)
             at == IF length = 0 THEN 0 ELSE 3 + length
         IN  /\ e \in Seq(Cells) /\ Len(e) = at + 5
             /\ length # 0 => /\ e[1] = Cell("as_path", 1) /\ e[2] = Cell("as_path", 2)
                              /\ e[3] = Cell("data", length)
                              /\ \A i \in 1..length : e[3 + i] = Cell("data", n)
             /\ e[at + 1] = Cell("nlri", 1) /\ e[at + 2] = Cell("nlri", 2)
             /\ e[at + 3] = Cell("data", n)
             /\ e[at + 4] = EndCell /\ e[at + 5] = EndCell
<1> DEFINE path == Marker("as_path") \o <<Cell("data", length)>>
           data == [i \in 1..length |-> Cell("data", n)]
           tail == Marker("nlri") \o <<Cell("data", n)>> \o Marker("end_of_record")
           head == IF length = 0 THEN <<>> ELSE path \o data
<1>1. path \in Seq(Cells) /\ Len(path) = 3 /\ path[1] = Cell("as_path", 1)
        /\ path[2] = Cell("as_path", 2) /\ path[3] = Cell("data", length)
  BY DEF Marker, Cell, Cells
<1>2. data \in Seq(Cells) /\ Len(data) = length /\ \A i \in 1..length : data[i] = Cell("data", n)
  BY DEF Cell, Cells
<1>3. /\ tail \in Seq(Cells) /\ Len(tail) = 5
      /\ tail[1] = Cell("nlri", 1) /\ tail[2] = Cell("nlri", 2) /\ tail[3] = Cell("data", n)
      /\ tail[4] = EndCell /\ tail[5] = EndCell
  BY DEF Marker, Cell, Cells, EndCell
<1> HIDE DEF path, data, tail
<1>4. Encode(n, length) = head \o tail
  <2>1. Encode(n, length) = (head \o Marker("nlri") \o <<Cell("data", n)>>) \o Marker("end_of_record")
    BY DEF Encode, path, data
  <2>2. head \in Seq(Cells)
    BY <1>1, <1>2
  <2>3. Marker("nlri") \in Seq(Cells) /\ <<Cell("data", n)>> \in Seq(Cells)
        /\ Marker("end_of_record") \in Seq(Cells)
    BY DEF Marker, Cell, Cells, EndCell
  <2> HIDE DEF head
  <2>4. ((head \o Marker("nlri")) \o <<Cell("data", n)>>) \o Marker("end_of_record")
          = head \o ((Marker("nlri") \o <<Cell("data", n)>>) \o Marker("end_of_record"))
    <3> DEFINE b == Marker("nlri")
               c == <<Cell("data", n)>>
               d == Marker("end_of_record")
    <3>1. head \in Seq(Cells) /\ b \in Seq(Cells) /\ c \in Seq(Cells) /\ d \in Seq(Cells)
      BY <2>2, <2>3
    <3> HIDE DEF b, c, d
    <3>2. ((head \o b) \o c) \o d = head \o ((b \o c) \o d)
      <4>1. (head \o b) \o c = head \o (b \o c)
        BY <3>1
      <4>2. b \o c \in Seq(Cells)
        BY <3>1
      <4> DEFINE bc == b \o c
      <4> HIDE DEF bc
      <4>3. (head \o bc) \o d = head \o (bc \o d)
        BY <3>1, <4>2 DEF bc
      <4> QED BY <4>1, <4>3, SMT DEF bc
    <3> QED BY <3>2 DEF b, c, d
  <2> QED BY <2>1, <2>4, Zenon DEF tail
<1>5. CASE length = 0
  BY <1>3, <1>4, <1>5
<1>6. CASE length # 0
  <2> DEFINE e == Encode(n, length)
  <2>1. head = path \o data
    BY <1>6
  <2> HIDE DEF head
  <2>2. Joined(path, data, head)
    BY <1>1, <1>2, <2>1, Cat
  <2>3. head \in Seq(Cells) /\ Len(head) = 3 + length
    BY <1>1, <1>2, <2>2 DEF Joined
  <2>4. Joined(head, tail, e)
    BY <1>3, <1>4, <2>3, Cat
  <2> HIDE DEF e
  <2>5. head[1] = Cell("as_path", 1) /\ head[2] = Cell("as_path", 2) /\ head[3] = Cell("data", length)
    BY <1>1, <2>2 DEF Joined
  <2>6. \A i \in 1..length : head[3 + i] = Cell("data", n)
    BY <1>1, <1>2, <2>2 DEF Joined
  <2>7. e \in Seq(Cells) /\ Len(e) = 8 + length
    BY <1>3, <2>3, <2>4 DEF Joined
  <2>8. \A i \in 1..(3 + length) : e[i] = head[i]
    BY <2>3, <2>4 DEF Joined
  <2>9. \A i \in 1..5 : e[3 + length + i] = tail[i]
    BY <1>3, <2>3, <2>4 DEF Joined
  <2>10. \A i \in 1..length : 3 + i \in 1..(3 + length)
    OBVIOUS
  <2> QED BY <1>3, <1>6, <2>5, <2>6, <2>7, <2>8, <2>9, <2>10 DEF e
<1> QED BY <1>5, <1>6

\* The cells are in the file, from behind `at' on.
Placed(f, at, cells) ==
    /\ at + Len(cells) <= Len(f)
    /\ \A i \in 1..Len(cells) : f[at + i] = cells[i]

\* Write puts the cells there, leaves what is before and cuts nothing off.
LEMMA WriteIs ==
  ASSUME NEW f \in Seq(Cells), NEW at \in 0..Len(f), NEW cells \in Seq(Cells)
  PROVE  LET g == Write(f, at, cells)
         IN  /\ g \in Seq(Cells) /\ Placed(g, at, cells)
             /\ Len(g) >= Len(f) /\ (at = Len(f) => Len(g) = at + Len(cells))
             /\ \A i \in 1..at : g[i] = f[i]
<1> DEFINE a == SubSeq(f, 1, at)
           c == SubSeq(f, at + Len(cells) + 1, Len(f))
<1>0. Len(f) \in Nat /\ Len(cells) \in Nat
  OBVIOUS
<1>1. a \in Seq(Cells) /\ Len(a) = at /\ \A i \in 1..at : a[i] = f[i]
  BY <1>0
<1>2. c \in Seq(Cells) /\ Len(c) = IF at + Len(cells) >= Len(f) THEN 0
                                   ELSE Len(f) - (at + Len(cells))
  <2>1. CASE at + Len(cells) >= Len(f)
    BY <1>0, <2>1
  <2>2. CASE ~(at + Len(cells) >= Len(f))
    BY <1>0, <2>2
  <2> QED BY <2>1, <2>2
<1> DEFINE b == a \o cells
           g == Write(f, at, cells)
<1>3. Joined(a, cells, b)
  <2> HIDE DEF a
  <2> QED BY <1>1, Cat
<1>4. Joined(b, c, g)
  <2>1. g = b \o c
    BY DEF Write
  <2>2. b \in Seq(Cells)
    BY <1>3 DEF Joined
  <2> HIDE DEF b, c, g
  <2> QED BY <1>2, <2>1, <2>2, Cat
<1> HIDE DEF a, b, c, g
<1>5. g \in Seq(Cells) /\ Len(g) = at + Len(cells) + Len(c)
      /\ \A i \in 1..(at + Len(cells)) : g[i] = b[i]
  BY <1>1, <1>3, <1>4 DEF Joined
<1>6. \A i \in 1..at : g[i] = f[i]
  BY <1>0, <1>1, <1>3, <1>5 DEF Joined
<1>7. \A i \in 1..Len(cells) : g[at + i] = cells[i]
  BY <1>0, <1>1, <1>3, <1>5 DEF Joined
<1>8. Len(c) \in Nat /\ Len(g) = at + Len(cells) + Len(c)
  BY <1>2, <1>5
<1>9. Len(g) >= Len(f) /\ at + Len(cells) <= Len(g) /\ (at = Len(f) => Len(g) = at + Len(cells))
  <2>1. CASE at + Len(cells) >= Len(f)
    BY <1>0, <1>2, <1>8, <2>1
  <2>2. CASE ~(at + Len(cells) >= Len(f))
    BY <1>0, <1>2, <1>8, <2>2
  <2> QED BY <2>1, <2>2
<1> QED BY <1>5, <1>6, <1>7, <1>9 DEF Placed, g

-----------------------------------------------------------------------------
(* Reading what was written.                                               *)

LEMMA CodeIs ==
  ASSUME NEW f \in Seq(Cells), NEW p \in Nat, p + 2 <= Len(f),
         NEW kind \in {"as_path", "nlri", "end_of_record"},
         f[p + 1] = Marker(kind)[1], f[p + 2] = Marker(kind)[2]
  PROVE  Code(f, p) = kind
<1>1. f[p + 1].kind = kind
  BY DEF Marker, EndCell, Cell
<1>2. SubSeq(f, p + 1, p + 2) = Marker(kind)
  <2>1. SubSeq(f, p + 1, p + 2) = <<f[p + 1], f[p + 2]>>
    <3> DEFINE s == SubSeq(f, p + 1, p + 2)
    <3>1. s \in Seq(Cells) /\ Len(s) = 2 /\ s[1] = f[p + 1] /\ s[2] = f[p + 2]
      OBVIOUS
    <3> HIDE DEF s
    <3>2. s = <<s[1], s[2]>>
      BY <3>1
    <3> QED BY <3>1, <3>2 DEF s
  <2>2. Marker(kind) = <<Marker(kind)[1], Marker(kind)[2]>>
    BY DEF Marker
  <2> QED BY <2>1, <2>2
<1> QED BY <1>1, <1>2 DEF Code

\* A route as a query returns it.
Shown(n, length, end) ==
    [end |-> end,
     path |-> IF length = 0 THEN None ELSE [i \in 1..length |-> Cell("data", n)],
     nlri |-> Cell("data", n)]

\* A record whose cells are all in place reads back as the route it was made of,
\* whatever is before and behind it in the file.
LEMMA RecordReads ==
  ASSUME NEW f \in Seq(Cells), NEW at \in Nat, NEW n \in Nat, NEW length \in Nat,
         Placed(f, at, Encode(n, length))
  PROVE  Read(f, at) = Shown(n, length, at + Len(Encode(n, length)))
<1> DEFINE e == Encode(n, length)
           q == at + (IF length = 0 THEN 0 ELSE 3 + length)
           m == IF length = 0 THEN 0 ELSE 3 + length
<1>a. /\ e \in Seq(Cells) /\ Len(e) = m + 5
      /\ e[m + 1] = Cell("nlri", 1) /\ e[m + 2] = Cell("nlri", 2) /\ e[m + 3] = Cell("data", n)
      /\ e[m + 4] = EndCell /\ e[m + 5] = EndCell
  BY EncodeIs, ZenonT(30)
<1>b. length # 0 => /\ e[1] = Cell("as_path", 1) /\ e[2] = Cell("as_path", 2)
                    /\ e[3] = Cell("data", length)
                    /\ \A i \in 1..length : e[3 + i] = Cell("data", n)
  BY EncodeIs
<1>c. m \in Nat /\ q = at + m /\ (length # 0 => m = 3 + length)
  OBVIOUS
<1>d. at + Len(e) <= Len(f) /\ \A i \in 1..Len(e) : f[at + i] = e[i]
  BY DEF Placed
<1> HIDE DEF e, q, m
<1>0. Len(f) \in Nat /\ q \in Nat /\ q + 5 <= Len(f) /\ at + Len(e) = q + 5
  BY <1>a, <1>c, <1>d
<1>1. /\ f[q + 1] = Cell("nlri", 1) /\ f[q + 2] = Cell("nlri", 2) /\ f[q + 3] = Cell("data", n)
      /\ f[q + 4] = EndCell /\ f[q + 5] = EndCell
  <2>1. \A i \in 1..5 : f[q + i] = e[m + i]
    <3> TAKE i \in 1..5
    <3>1. m + i \in 1..Len(e) /\ q + i = at + (m + i)
      BY <1>a, <1>c
    <3> QED BY <1>d, <3>1
  <2> QED BY <1>a, <2>1, SMT
<1>2. length # 0 => /\ f[at + 1] = Cell("as_path", 1) /\ f[at + 2] = Cell("as_path", 2)
                    /\ f[at + 3] = Cell("data", length)
                    /\ \A i \in 1..length : f[at + 3 + i] = Cell("data", n)
  <2> SUFFICES ASSUME length # 0
               PROVE  /\ f[at + 1] = Cell("as_path", 1) /\ f[at + 2] = Cell("as_path", 2)
                      /\ f[at + 3] = Cell("data", length)
                      /\ \A i \in 1..length : f[at + 3 + i] = Cell("data", n)
    OBVIOUS
  <2>1. \A i \in 1..(3 + length) : f[at + i] = e[i]
    <3> TAKE i \in 1..(3 + length)
    <3>1. i \in 1..Len(e)
      BY <1>a, <1>c
    <3> QED BY <1>d, <3>1
  <2>2. \A i \in 1..length : f[at + 3 + i] = Cell("data", n)
    <3> TAKE i \in 1..length
    <3>1. 3 + i \in 1..(3 + length) /\ at + 3 + i = at + (3 + i)
      OBVIOUS
    <3> QED BY <1>b, <2>1, <3>1
  <2> QED BY <1>b, <2>1, <2>2
<1>3. Read(f, q + 3) = Ends(q + 5)
  <2>1. Code(f, q + 3) = "end_of_record"
    <3>1. f[(q + 3) + 1] = EndCell /\ f[(q + 3) + 2] = EndCell
      BY <1>0, <1>1
    <3> QED BY <1>0, <3>1, CodeIs DEF Marker
  <2> QED BY <1>0, <2>1, ReadIs
<1>4. Read(f, q) = Shown(n, 0, q + 5)
  <2>1. Code(f, q) = "nlri"
    BY <1>0, <1>1, CodeIs DEF Marker
  <2>2. After(f, q) = q + 3
    BY <2>1 DEF After
  <2>3. Ends(q + 5) # Spin
    BY <1>0, NoneAssumption DEF Ends, Spin
  <2>4. Read(f, q) = Before(f, q, Ends(q + 5))
    BY <1>0, <1>3, <2>1, <2>2, <2>3, ReadIs
  <2> QED BY <1>1, <2>1, <2>4 DEF Before, Ends, Shown
<1>5. CASE length = 0
  BY <1>0, <1>4, <1>5 DEF q, e
<1>6. CASE length # 0
  <2>0. q = at + 3 + length
    BY <1>6 DEF q
  <2>1. Code(f, at) = "as_path"
    BY <1>0, <1>2, <1>6, <2>0, CodeIs DEF Marker
  <2>2. After(f, at) = q
    BY <1>0, <1>2, <1>6, <2>0, <2>1, SMT DEF After, Cell
  <2>3. Shown(n, 0, q + 5) # Spin
    BY <1>0, NoneAssumption DEF Shown, Spin, Ends
  <2>4. Read(f, at) = Before(f, at, Shown(n, 0, q + 5))
    BY <1>0, <1>4, <2>0, <2>1, <2>2, <2>3, ReadIs
  <2>5. SubSeq(f, at + 4, q) = [i \in 1..length |-> Cell("data", n)]
    <3>1. SubSeq(f, at + 4, q) = [i \in 1..length |-> f[at + 3 + i]]
      BY <1>0, <2>0
    <3> QED BY <1>2, <1>6, <3>1
  <2>6. Before(f, at, Shown(n, 0, q + 5)) = Shown(n, length, q + 5)
    <3> DEFINE r == Shown(n, 0, q + 5)
    <3>1. r = [end |-> q + 5, path |-> None, nlri |-> Cell("data", n)]
      BY DEF Shown
    <3> DEFINE b == Before(f, at, r)
    <3>2. b = [r EXCEPT !.path = IF r.path = None THEN SubSeq(f, at + 4, q) ELSE r.path,
                        !.nlri = r.nlri]
      BY <2>1, <2>2 DEF Before
    <3> HIDE DEF r, b
    <3>3. b = [end |-> q + 5, path |-> SubSeq(f, at + 4, q), nlri |-> Cell("data", n)]
      BY <3>1, <3>2
    <3> QED BY <1>6, <2>5, <3>3 DEF Shown, r, b
  <2> QED BY <1>0, <2>4, <2>6 DEF e
<1> QED BY <1>5, <1>6

-----------------------------------------------------------------------------
(* The index and the records it points to.                                 *)

RecordType == [end : {Failed} \cup Nat, length : PathLength, number : Nat]

\* Of the old entries Keep drops the oldest at most; the new one comes last.
Dropped(n) == IF n = max_records THEN 1 ELSE 0
Kept(S, s, e, t) ==
    /\ t \in Seq(S) /\ Len(t) = Len(s) + 1 - Dropped(Len(s)) /\ Len(t) >= 1
    /\ t[Len(t)] = e
    /\ \A i \in 1..(Len(t) - 1) :
         i + Dropped(Len(s)) \in 1..Len(s) /\ t[i] = s[i + Dropped(Len(s))]

LEMMA KeepIs ==
  ASSUME NEW S, NEW s \in Seq(S), NEW e \in S
  PROVE  Kept(S, s, e, Keep(s, e))
<1>1. CASE Len(s) = max_records
  <2>1. s # <<>> /\ Tail(s) \in Seq(S) /\ Len(Tail(s)) = Len(s) - 1
        /\ \A i \in 1..Len(Tail(s)) : Tail(s)[i] = s[i + 1]
    BY <1>1, MaxAssumption
  <2> DEFINE u == Tail(s)
  <2> HIDE DEF u
  <2>2. Keep(s, e) = Append(u, e)
    BY <1>1 DEF Keep, u
  <2>3. u \in Seq(S) /\ Len(u) = Len(s) - 1 /\ \A i \in 1..Len(u) : u[i] = s[i + 1]
    BY <2>1 DEF u
  <2>4. Append(u, e) \in Seq(S) /\ Len(Append(u, e)) = Len(s) /\ Append(u, e)[Len(s)] = e
        /\ \A i \in 1..Len(u) : Append(u, e)[i] = u[i]
    BY <2>3
  <2> QED BY <1>1, <2>1, <2>2, <2>3, <2>4 DEF Kept, Dropped
<1>2. CASE Len(s) # max_records
  <2>1. Keep(s, e) = Append(s, e)
    BY <1>2 DEF Keep
  <2>2. Append(s, e) \in Seq(S) /\ Len(Append(s, e)) = Len(s) + 1 /\ Append(s, e)[Len(s) + 1] = e
        /\ \A i \in 1..Len(s) : Append(s, e)[i] = s[i]
    OBVIOUS
  <2> QED BY <1>2, <2>1, <2>2 DEF Kept, Dropped
<1> QED BY <1>1, <1>2

\* The index has position a for a record r.
Recorded(index, records, a, r) ==
    \E k \in Key : \E n \in 1..Len(index[k]) : a = index[k][n] /\ r = records[k][n]

\* index_map and what it points to stay in step.
InStep(index, records) == \A k \in Key : Len(index[k]) = Len(records[k])

Contents(r) == Encode(r.number, r.length)

\* A stream that has not failed writes at the end of the file, or not before the
\* lowest place a query has left it at.
PositionInv ==
    position # Failed => IF rewound = None THEN position = Len(file) ELSE rewound <= position

RecordInv ==
    \A a, r : Recorded(index_map, inserted, a, r) /\ a # Failed =>
        /\ r.end = a + Len(Contents(r))
        /\ rewound = None \/ r.end <= rewound => Placed(file, a, Contents(r))

NewestInv ==
    last # None =>
        LET n == Len(index_map[last])
        IN  /\ n # 0
            /\ index_map[last][n] # Failed =>
                 Placed(file, index_map[last][n], Contents(inserted[last][n]))

\* As long as nothing was overwritten, nothing has failed and all is in place.
CleanInv ==
    ~overwrote =>
        /\ ~spinning /\ position # Failed
        /\ \A a, r : Recorded(index_map, inserted, a, r) =>
             a # Failed /\ Placed(file, a, Contents(r))

IInv == TypeOK /\ InStep(index_map, inserted) /\ PositionInv /\ RecordInv /\ NewestInv /\ CleanInv

\* What a recorded entry is.
LEMMA RecordedType ==
  ASSUME TypeOK, InStep(index_map, inserted), NEW a, NEW r, Recorded(index_map, inserted, a, r)
  PROVE  a \in {Failed} \cup 0..Len(file) /\ r \in RecordType /\ r.number \in Nat /\ r.length \in Nat
<1>0. PICK k \in Key : \E n \in 1..Len(index_map[k]) : a = index_map[k][n] /\ r = inserted[k][n]
  BY DEF Recorded
<1>1. PICK n \in 1..Len(index_map[k]) : a = index_map[k][n] /\ r = inserted[k][n]
  BY <1>0
<1>2. index_map[k] \in Seq({Failed} \cup 0..Len(file)) /\ inserted[k] \in Seq(RecordType)
  BY DEF TypeOK, RecordType
<1>3. n \in 1..Len(inserted[k])
  BY DEF InStep
<1>4. a \in {Failed} \cup 0..Len(file) /\ r \in RecordType
  BY <1>1, <1>2, <1>3
<1> QED BY <1>4, LengthAssumption DEF RecordType

\* A recorded entry whose cells are in place reads back.
LEMMA PlacedReads ==
  ASSUME TypeOK, InStep(index_map, inserted), NEW a, NEW r, Recorded(index_map, inserted, a, r),
         a # Failed, Placed(file, a, Contents(r))
  PROVE  Read(file, a) = Shown(r.number, r.length, a + Len(Contents(r)))
<1>1. a \in Nat /\ r.number \in Nat /\ r.length \in Nat
  BY RecordedType
<1>2. file \in Seq(Cells)
  BY DEF TypeOK, Cells
<1> QED BY <1>1, <1>2, RecordReads DEF Contents

\* Cells that are in place stay there if the file changes only behind them.
LEMMA PlacedStays ==
  ASSUME NEW f \in Seq(Cells), NEW at \in Nat, NEW cells \in Seq(Cells), Placed(f, at, cells),
         NEW p \in 0..Len(f), NEW more \in Seq(Cells), at + Len(cells) <= p
  PROVE  Placed(Write(f, p, more), at, cells)
<1> DEFINE g == Write(f, p, more)
<1>1. Len(f) \in Nat /\ Len(cells) \in Nat /\ Len(g) \in Nat /\ Len(g) >= Len(f)
      /\ \A i \in 1..p : g[i] = f[i]
  BY WriteIs
<1> HIDE DEF g
<1>2. \A i \in 1..Len(cells) : at + i \in 1..p
  BY <1>1
<1>3. at + Len(cells) <= Len(g)
  BY <1>1
<1> QED BY <1>1, <1>2, <1>3 DEF Placed, g

\* What an insert does to the index: the entries there were, or fewer, and the new
\* one in the last place of its key.
LEMMA InsertRecords ==
  ASSUME NEW k \in Key,
         index_map \in [Key -> Seq({Failed} \cup 0..Len(file))], inserted \in [Key -> Seq(RecordType)],
         InStep(index_map, inserted), position \in {Failed} \cup 0..Len(file),
         NEW new \in RecordType,
         index_map' = [index_map EXCEPT ![k] = Keep(@, position)],
         inserted' = [inserted EXCEPT ![k] = Keep(@, new)]
  PROVE  /\ index_map' \in [Key -> Seq({Failed} \cup 0..Len(file))]
         /\ inserted' \in [Key -> Seq(RecordType)]
         /\ InStep(index_map', inserted')
         /\ Len(index_map'[k]) # 0
         /\ index_map'[k][Len(index_map'[k])] = position
         /\ inserted'[k][Len(index_map'[k])] = new
         /\ \A a, r : Recorded(index_map', inserted', a, r) =>
              Recorded(index_map, inserted, a, r) \/ (a = position /\ r = new)
<1> DEFINE d == Dropped(Len(index_map[k]))
           i1 == Keep(index_map[k], position)
           r1 == Keep(inserted[k], new)
<1>0. Len(index_map[k]) = Len(inserted[k]) /\ Len(index_map[k]) \in Nat
  BY DEF InStep
<1>1. /\ i1 \in Seq({Failed} \cup 0..Len(file)) /\ Len(i1) = Len(index_map[k]) + 1 - d /\ Len(i1) >= 1
      /\ i1[Len(i1)] = position
      /\ \A i \in 1..(Len(i1) - 1) : i + d \in 1..Len(index_map[k]) /\ i1[i] = index_map[k][i + d]
  <2>1. Kept({Failed} \cup 0..Len(file), index_map[k], position, i1)
    <3>1. index_map[k] \in Seq({Failed} \cup 0..Len(file))
      OBVIOUS
    <3> QED BY <3>1, KeepIs
  <2> HIDE DEF i1
  <2> QED BY <2>1 DEF Kept
<1>2. /\ r1 \in Seq(RecordType) /\ Len(r1) = Len(index_map[k]) + 1 - d
      /\ r1[Len(r1)] = new
      /\ \A i \in 1..(Len(r1) - 1) : r1[i] = inserted[k][i + d]
  <2>1. inserted[k] \in Seq(RecordType)
    OBVIOUS
  <2>2. Kept(RecordType, inserted[k], new, r1)
    BY <2>1, KeepIs
  <2> HIDE DEF r1
  <2> QED BY <1>0, <2>2 DEF Kept
<1>3. /\ index_map'[k] = i1 /\ inserted'[k] = r1
      /\ \A j \in Key \ {k} : index_map'[j] = index_map[j] /\ inserted'[j] = inserted[j]
  OBVIOUS
<1>4. index_map' \in [Key -> Seq({Failed} \cup 0..Len(file))] /\ inserted' \in [Key -> Seq(RecordType)]
  <2> HIDE DEF i1, r1
  <2>1. index_map' = [index_map EXCEPT ![k] = i1] /\ inserted' = [inserted EXCEPT ![k] = r1]
    BY DEF i1, r1
  <2> QED BY <1>1, <1>2, <2>1
<1> HIDE DEF i1, r1, d
<1>5. InStep(index_map', inserted')
  BY <1>1, <1>2, <1>3 DEF InStep
<1>6. ASSUME NEW a, NEW r, Recorded(index_map', inserted', a, r)
      PROVE  Recorded(index_map, inserted, a, r) \/ (a = position /\ r = new)
  <2>1. PICK j \in Key : \E n \in 1..Len(index_map'[j]) : a = index_map'[j][n] /\ r = inserted'[j][n]
    BY <1>6 DEF Recorded
  <2>2. PICK n \in 1..Len(index_map'[j]) : a = index_map'[j][n] /\ r = inserted'[j][n]
    BY <2>1
  <2>3. CASE j # k
    BY <1>3, <2>2, <2>3 DEF Recorded
  <2>4. CASE j = k /\ n = Len(i1)
    BY <1>1, <1>2, <1>3, <2>2, <2>4
  <2>5. CASE j = k /\ n # Len(i1)
    <3>1. n \in 1..(Len(i1) - 1)
      BY <1>1, <1>3, <2>5
    <3>2. n + d \in 1..Len(index_map[k]) /\ a = index_map[k][n + d] /\ r = inserted[k][n + d]
      BY <1>1, <1>2, <1>3, <2>2, <2>5, <3>1
    <3> QED BY <3>2 DEF Recorded
  <2> QED BY <2>3, <2>4, <2>5
<1>7. /\ Len(index_map'[k]) # 0 /\ index_map'[k][Len(index_map'[k])] = position
      /\ inserted'[k][Len(index_map'[k])] = new
  BY <1>1, <1>2, <1>3
<1> QED BY <1>4, <1>5, <1>6, <1>7

LEMMA InvInit == Init => IInv
<1> SUFFICES ASSUME Init PROVE IInv
  OBVIOUS
<1>1. TypeOK
  <2>1. file \in Seq(Cells) /\ Len(file) = 0 /\ position = 0 /\ count \in 0..MaxInserts
    BY MaxAssumption DEF Init
  <2>2. index_map \in [Key -> Seq({Failed} \cup 0..Len(file))] /\ inserted \in [Key -> Seq(RecordType)]
    <3>1. \A S : <<>> \in Seq(S)
      OBVIOUS
    <3> QED BY <3>1 DEF Init
  <2>3. position \in {Failed} \cup 0..Len(file)
    BY <2>1
  <2>4. spinning \in BOOLEAN /\ overwrote \in BOOLEAN /\ last \in Key \cup {None} /\ rewound \in Nat \cup {None}
    BY DEF Init
  <2> QED BY <2>1, <2>2, <2>3, <2>4 DEF TypeOK, Cells, RecordType
<1>2. InStep(index_map, inserted)
  BY DEF Init, InStep
<1>3. \A a, r : ~Recorded(index_map, inserted, a, r)
  BY DEF Init, Recorded
<1>4. PositionInv /\ RecordInv /\ NewestInv /\ CleanInv
  BY <1>3 DEF Init, PositionInv, RecordInv, NewestInv, CleanInv, Failed
<1> QED BY <1>1, <1>2, <1>4 DEF IInv

LEMMA InvInsert ==
  ASSUME IInv, NEW k \in Key, NEW length \in PathLength, db_insert(k, length)
  PROVE  IInv'
<1> DEFINE cells == Encode(count, length)
           new == [end |-> position', length |-> length, number |-> count]
<1>1. /\ file \in Seq(Cells) /\ position \in {Failed} \cup 0..Len(file) /\ Len(file) \in Nat
      /\ count \in Nat /\ length \in Nat
  <2>1. file \in Seq(Cells) /\ position \in {Failed} \cup 0..Len(file)
    BY DEF IInv, TypeOK, Cells
  <2>2. count \in Nat /\ length \in Nat
    BY MaxAssumption, LengthAssumption DEF IInv, TypeOK
  <2> QED BY <2>1, <2>2
<1>2. cells \in Seq(Cells) /\ Len(cells) \in Nat
  <2>1. cells \in Seq(Cells)
    BY <1>1, EncodeIs
  <2> QED BY <2>1
<1>3. /\ ~spinning /\ spinning' = spinning /\ rewound' = rewound /\ last' = k /\ count' = count + 1 /\ count < MaxInserts
      /\ index_map' = [index_map EXCEPT ![k] = Keep(@, position)]
      /\ inserted' = [inserted EXCEPT ![k] = Keep(@, new)]
  BY DEF db_insert
<1>4. ASSUME position' \in {Failed} \cup Nat
      PROVE  /\ new \in RecordType
             /\ index_map' \in [Key -> Seq({Failed} \cup 0..Len(file))] /\ inserted' \in [Key -> Seq(RecordType)]
             /\ InStep(index_map', inserted')
             /\ Len(index_map'[k]) # 0
             /\ index_map'[k][Len(index_map'[k])] = position
             /\ inserted'[k][Len(index_map'[k])] = new
             /\ \A a, r : Recorded(index_map', inserted', a, r) =>
                  Recorded(index_map, inserted, a, r) \/ (a = position /\ r = new)
  <2>1. new \in RecordType
    BY <1>1, <1>4 DEF RecordType
  <2>2. index_map \in [Key -> Seq({Failed} \cup 0..Len(file))] /\ inserted \in [Key -> Seq(RecordType)]
        /\ InStep(index_map, inserted)
    BY DEF IInv, TypeOK, RecordType
  <2> HIDE DEF new
  <2> QED BY <1>1, <1>3, <2>1, <2>2, InsertRecords
<1>5. CASE position = Failed
  <2>1. file' = file /\ position' = position /\ overwrote' = overwrote
    BY <1>5 DEF db_insert
  <2>2. position' \in {Failed} \cup Nat
    BY <1>5, <2>1
  <2>3. TypeOK'
    <3>1. file' \in Seq(Cells) /\ position' \in {Failed} \cup 0..Len(file')
      BY <1>1, <2>1
    <3>2. index_map' \in [Key -> Seq({Failed} \cup 0..Len(file'))] /\ inserted' \in [Key -> Seq(RecordType)]
      BY <1>4, <2>1, <2>2
    <3>3. overwrote' \in BOOLEAN
      BY <2>1, Zenon DEF IInv, TypeOK
    <3>4. spinning' \in BOOLEAN
      BY <1>3, Zenon DEF IInv, TypeOK
    <3>5. last' \in Key \cup {None} /\ rewound' \in Nat \cup {None}
      BY <1>3 DEF IInv, TypeOK
    <3>6. count' \in 0..MaxInserts
      BY <1>1, <1>3, MaxAssumption
    <3> QED BY <3>1, <3>2, <3>3, <3>4, <3>5, <3>6 DEF TypeOK, Cells, RecordType
  <2>4. PositionInv'
    BY <1>5, <2>1 DEF PositionInv
  <2>5. RecordInv'
    BY <1>3, <1>4, <1>5, <2>1, <2>2 DEF IInv, RecordInv
  <2>6. NewestInv'
    BY <1>3, <1>4, <1>5, <2>1, <2>2 DEF NewestInv
  <2>7. CleanInv'
    BY <1>5, <2>1 DEF IInv, CleanInv
  <2> QED BY <1>4, <2>2, <2>3, <2>4, <2>5, <2>6, <2>7 DEF IInv, InStep
<1>6. CASE position # Failed
  <2>1. /\ file' = Write(file, position, cells) /\ position' = position + Len(cells)
        /\ overwrote' = (overwrote \/ position < Len(file))
    BY <1>6 DEF db_insert
  <2>2. position \in 0..Len(file) /\ position' \in Nat
    BY <1>1, <1>2, <1>6, <2>1
  <2>3. /\ file' \in Seq(Cells) /\ Placed(file', position, cells)
        /\ Len(file') >= Len(file) /\ (position = Len(file) => Len(file') = position')
    BY <1>1, <1>2, <2>1, <2>2, WriteIs
  <2>4. Contents(new) = cells /\ new.end = position'
    BY DEF Contents
  <2>5. ASSUME NEW a, NEW r, Recorded(index_map, inserted, a, r), a # Failed,
               Placed(file, a, Contents(r)), a + Len(Contents(r)) <= position
        PROVE  Placed(file', a, Contents(r))
    <3>1. a \in Nat /\ r.number \in Nat /\ r.length \in Nat
      BY <2>5, RecordedType DEF IInv
    <3>2. Contents(r) \in Seq(Cells)
      BY <3>1, EncodeIs DEF Contents
    <3> QED BY <1>1, <1>2, <2>1, <2>2, <2>5, <3>1, <3>2, PlacedStays
  <2>6. TypeOK'
    <3>1. Len(file') \in Nat /\ 0..Len(file) \subseteq 0..Len(file')
      BY <1>1, <2>3
    <3>2. position' \in 0..Len(file')
      BY <1>2, <2>1, <2>2, <2>3, <3>1 DEF Placed
    <3>3. index_map' \in [Key -> Seq({Failed} \cup 0..Len(file'))]
      <4>1. \A j \in Key : index_map'[j] \in Seq({Failed} \cup 0..Len(file'))
        <5> TAKE j \in Key
        <5>1. index_map'[j] \in Seq({Failed} \cup 0..Len(file))
          BY <1>4, <2>2
        <5> QED BY <3>1, <5>1
      <4> QED BY <1>4, <2>2, <4>1
    <3>4. inserted' \in [Key -> Seq(RecordType)]
      BY <1>4, <2>2
    <3>5. overwrote' \in BOOLEAN /\ spinning' \in BOOLEAN /\ last' \in Key \cup {None}
          /\ rewound' \in Nat \cup {None}
      <4>1. overwrote' \in BOOLEAN
        BY <2>1, Zenon
      <4>2. spinning' \in BOOLEAN
        BY <1>3, Zenon DEF IInv, TypeOK
      <4>3. last' \in Key \cup {None} /\ rewound' \in Nat \cup {None}
        BY <1>3 DEF IInv, TypeOK
      <4> QED BY <4>1, <4>2, <4>3
    <3>6. count' \in 0..MaxInserts
      BY <1>1, <1>3, MaxAssumption
    <3> QED BY <2>3, <3>2, <3>3, <3>4, <3>5, <3>6 DEF TypeOK, Cells, RecordType
  <2>7. PositionInv'
    BY <1>1, <1>2, <1>3, <1>6, <2>1, <2>2, <2>3, NoneAssumption DEF IInv, TypeOK, PositionInv
  <2>8. RecordInv'
    <3> SUFFICES ASSUME NEW a, NEW r, Recorded(index_map', inserted', a, r), a # Failed
                 PROVE  /\ r.end = a + Len(Contents(r))
                        /\ rewound = None \/ r.end <= rewound => Placed(file', a, Contents(r))
      BY <1>3 DEF RecordInv, Contents
    <3>1. CASE a = position /\ r = new
      BY <2>1, <2>3, <2>4, <3>1
    <3>2. CASE Recorded(index_map, inserted, a, r)
      <4>1. /\ r.end = a + Len(Contents(r))
            /\ rewound = None \/ r.end <= rewound => Placed(file, a, Contents(r))
        BY <3>2 DEF IInv, RecordInv
      <4>2. ASSUME rewound = None \/ r.end <= rewound
            PROVE  r.end <= position
        <5>1. a \in Nat /\ r.end \in Int
          BY <3>2, RecordedType DEF IInv, RecordType, Failed
        <5>2. CASE rewound = None
          BY <1>6, <4>1, <5>2 DEF IInv, PositionInv, Placed
        <5>3. CASE rewound # None
          <6>1. rewound \in Nat /\ rewound <= position /\ r.end <= rewound
            BY <1>6, <4>2, <5>3 DEF IInv, TypeOK, PositionInv
          <6> QED BY <2>2, <5>1, <6>1
        <5> QED BY <5>2, <5>3
      <4> QED BY <2>5, <3>2, <4>1, <4>2
    <3> QED BY <1>4, <2>2, <3>1, <3>2
  <2>9. NewestInv'
    <3>1. Len(index_map'[k]) # 0 /\ index_map'[k][Len(index_map'[k])] = position
          /\ inserted'[k][Len(index_map'[k])] = new
      BY <1>4, <2>2
    <3>2. Placed(file', position, Contents(new))
      BY <2>3, <2>4
    <3> HIDE DEF new
    <3> QED BY <1>3, <3>1, <3>2 DEF NewestInv, Contents
  <2>10. CleanInv'
    <3> SUFFICES ASSUME ~overwrote, position = Len(file),
                        NEW a, NEW r, Recorded(index_map', inserted', a, r)
                 PROVE  a # Failed /\ Placed(file', a, Contents(r))
      <4>1. ~overwrote' => ~overwrote /\ position = Len(file)
        <5>1. position < Len(file) \/ position = Len(file)
          BY <1>1, <2>2
        <5> QED BY <2>1, <5>1, Zenon
      <4>2. position' # Failed
        BY <2>2 DEF Failed
      <4> QED BY <1>3, <4>1, <4>2 DEF CleanInv, Contents
    <3>1. CASE a = position /\ r = new
      BY <1>6, <2>3, <2>4, <3>1
    <3>2. CASE Recorded(index_map, inserted, a, r)
      <4>1. a # Failed /\ Placed(file, a, Contents(r))
        BY <3>2 DEF IInv, CleanInv
      <4>2. a + Len(Contents(r)) <= position
        BY <4>1 DEF Placed
      <4> QED BY <2>5, <3>2, <4>1, <4>2
    <3> QED BY <1>4, <2>2, <3>1, <3>2
  <2>11. InStep(index_map, inserted)'
    BY <1>4, <2>2 DEF InStep
  <2> QED BY <2>6, <2>7, <2>8, <2>9, <2>10, <2>11 DEF IInv
<1> QED BY <1>5, <1>6

\* What a query for k reads at the n-th position.
LEMMA FoundIs ==
  ASSUME NEW k \in Key, NEW n \in 1..Len(index_map[k])
  PROVE  Found(k)[n] = Read(file, index_map[k][n]) /\ Recorded(index_map, inserted, index_map[k][n], inserted[k][n])
  BY DEF Found, Recorded

\* As long as nothing was overwritten a query reads every record to its end.
LEMMA CleanReads ==
  ASSUME IInv, ~overwrote, NEW k \in Key, NEW n \in 1..Len(index_map[k])
  PROVE  Found(k)[n] # Spin /\ Found(k)[n].end # Failed
<1> DEFINE a == index_map[k][n]
           r == inserted[k][n]
<1>1. Found(k)[n] = Read(file, a) /\ Recorded(index_map, inserted, a, r)
  BY FoundIs
<1> HIDE DEF a, r
<1>2. a # Failed /\ Placed(file, a, Contents(r))
  BY <1>1 DEF IInv, CleanInv
<1>3. Found(k)[n] = Shown(r.number, r.length, a + Len(Contents(r)))
  BY <1>1, <1>2, PlacedReads DEF IInv
<1>4. a + Len(Contents(r)) \in Nat
  <2>1. a \in Nat /\ r.number \in Nat /\ r.length \in Nat
    BY <1>1, <1>2, RecordedType DEF IInv
  <2>2. Contents(r) \in Seq(Cells)
    BY <2>1, EncodeIs DEF Contents
  <2> QED BY <2>1, <2>2
<1> QED BY <1>3, <1>4, NoneAssumption DEF Shown, Spin, Ends, Failed

LEMMA InvQuery ==
  ASSUME IInv, NEW k \in Key, db_get_entries(k)
  PROVE  IInv'
<1>1. /\ file' = file /\ index_map' = index_map /\ spinning' = spinning /\ inserted' = inserted
      /\ last' = last /\ count' = count /\ overwrote' = overwrote
      /\ position' = Found(k)[1].end
      /\ rewound' = IF position' # Failed /\ (rewound = None \/ position' < rewound)
                    THEN position' ELSE rewound
  BY DEF db_get_entries
<1>2. file \in Seq(Cells) /\ Len(file) \in Nat /\ rewound \in Nat \cup {None}
      /\ index_map[k] \in Seq({Failed} \cup 0..Len(file))
  BY DEF IInv, TypeOK, Cells
<1>3. 1 \in 1..Len(index_map[k])
  BY <1>2 DEF db_get_entries
<1>4. Found(k)[1] # Spin
  <2>1. 1 \in DOMAIN Found(k)
    BY <1>3 DEF Found
  <2> QED BY <2>1 DEF db_get_entries
<1>5. position' \in {Failed} \cup 0..Len(file)
  <2>1. Found(k)[1] = Read(file, index_map[k][1]) /\ index_map[k][1] \in {Failed} \cup 0..Len(file)
    BY <1>2, <1>3, FoundIs
  <2>2. Ended(file, Found(k)[1])
    BY <1>2, <1>4, <2>1, EndsInFile
  <2> QED BY <1>1, <2>2 DEF Ended
<1>6. /\ rewound' \in Nat \cup {None}
      /\ rewound' = None => rewound = None /\ position' = Failed
      /\ rewound' # None /\ position' # Failed => rewound' <= position'
      /\ rewound' # None /\ rewound # None => rewound' <= rewound
  BY <1>1, <1>2, <1>5, NoneAssumption DEF Failed
<1>7. TypeOK'
  <2>1. file' \in Seq(Cells) /\ position' \in {Failed} \cup 0..Len(file')
        /\ index_map' \in [Key -> Seq({Failed} \cup 0..Len(file'))] /\ inserted' \in [Key -> Seq(RecordType)]
        /\ last' \in Key \cup {None} /\ count' \in 0..MaxInserts /\ rewound' \in Nat \cup {None}
    BY <1>1, <1>2, <1>5, <1>6 DEF IInv, TypeOK, RecordType
  <2>2. spinning' \in BOOLEAN /\ overwrote' \in BOOLEAN
    BY <1>1, Zenon DEF IInv, TypeOK
  <2> QED BY <2>1, <2>2 DEF TypeOK, Cells, RecordType
<1>8. PositionInv'
  BY <1>6 DEF PositionInv
<1>9. RecordInv'
  <2> SUFFICES ASSUME NEW a, NEW r, Recorded(index_map, inserted, a, r), a # Failed
               PROVE  /\ r.end = a + Len(Contents(r))
                      /\ rewound' = None \/ r.end <= rewound' => Placed(file, a, Contents(r))
    BY <1>1 DEF RecordInv, Contents
  <2>1. r.end \in Int
    BY RecordedType DEF IInv, RecordType, Failed
  <2>2. rewound' = None \/ r.end <= rewound' => rewound = None \/ r.end <= rewound
    BY <1>2, <1>6, <2>1
  <2> QED BY <2>2 DEF IInv, RecordInv
<1>10. NewestInv'
  BY <1>1 DEF IInv, NewestInv, Contents
<1>11. CleanInv'
  <2>1. ~overwrote => position' # Failed
    BY <1>1, <1>3, CleanReads
  <2> QED BY <1>1, <2>1 DEF IInv, CleanInv, Contents
<1> QED BY <1>1, <1>7, <1>8, <1>9, <1>10, <1>11 DEF IInv, InStep

LEMMA InvSpins ==
  ASSUME IInv, NEW k \in Key, db_get_entries_spins(k)
  PROVE  IInv'
<1>1. /\ file' = file /\ index_map' = index_map /\ position' = position /\ inserted' = inserted
      /\ last' = last /\ count' = count /\ overwrote' = overwrote /\ rewound' = rewound /\ spinning' = TRUE
  BY DEF db_get_entries_spins
<1>2. overwrote
  <2>1. PICK n \in DOMAIN Found(k) : Found(k)[n] = Spin
    BY DEF db_get_entries_spins
  <2>2. n \in 1..Len(index_map[k])
    BY DEF Found
  <2> QED BY <2>1, <2>2, CleanReads
<1>3. TypeOK'
  BY <1>1 DEF IInv, TypeOK
<1> QED BY <1>1, <1>2, <1>3 DEF IInv, InStep, PositionInv, RecordInv, NewestInv, CleanInv, Contents

LEMMA InvNext == IInv /\ [Next]_vars => IInv'
<1> SUFFICES ASSUME IInv, [Next]_vars PROVE IInv'
  OBVIOUS
<1>1. ASSUME NEW k \in Key, NEW length \in PathLength, db_insert(k, length) PROVE IInv'
  BY <1>1, InvInsert
<1>2. ASSUME NEW k \in Key, db_get_entries(k) PROVE IInv'
  BY <1>2, InvQuery
<1>3. ASSUME NEW k \in Key, db_get_entries_spins(k) PROVE IInv'
  BY <1>3, InvSpins
<1>4. CASE UNCHANGED vars
  BY <1>4 DEF vars, IInv, TypeOK, InStep, PositionInv, RecordInv, NewestInv, CleanInv, Contents
<1> QED BY <1>1, <1>2, <1>3, <1>4 DEF Next

LEMMA InvHolds == Spec => []IInv
  BY InvInit, InvNext, PTL DEF Spec

-----------------------------------------------------------------------------
(* The theorems.                                                           *)

\* The types, and with them: whatever a query reads in a file that was overwritten,
\* it leaves the stream failed or inside the file.
THEOREM DatabaseTypes == Spec => []TypeOK
<1>1. IInv => TypeOK
  BY DEF IInv
<1> QED BY <1>1, InvHolds, PTL

\* Entries whose cells are in place are intact.
LEMMA PlacedIsIntact ==
  ASSUME IInv, NEW k \in Key, NEW n \in 1..Len(index_map[k]), index_map[k][n] # Failed,
         Placed(file, index_map[k][n], Contents(inserted[k][n]))
  PROVE  Intact(k, n)
<1> DEFINE a == index_map[k][n]
           r == inserted[k][n]
<1>1. Recorded(index_map, inserted, a, r)
  BY FoundIs
<1>2. Read(file, a) = Shown(r.number, r.length, a + Len(Contents(r)))
  BY <1>1, PlacedReads DEF IInv
<1>3. r.end = a + Len(Contents(r))
  BY <1>1 DEF IInv, RecordInv
<1> QED BY <1>2, <1>3 DEF Intact, Shown

\* No record that ends before the lowest place a query has left the stream at is
\* ever damaged, for every number of keys, inserts and lengths of path.
THEOREM DatabaseIntact == Spec => []IntactBelowRewind
<1>1. IInv => IntactBelowRewind
  <2> SUFFICES ASSUME IInv, NEW k \in Key, NEW n \in 1..Len(index_map[k]), index_map[k][n] # Failed,
                      rewound = None \/ inserted[k][n].end <= rewound
               PROVE  Intact(k, n)
    BY DEF IntactBelowRewind
  <2>1. Recorded(index_map, inserted, index_map[k][n], inserted[k][n])
    BY FoundIs
  <2>2. Placed(file, index_map[k][n], Contents(inserted[k][n]))
    BY <2>1 DEF IInv, RecordInv
  <2> QED BY <2>2, PlacedIsIntact
<1> QED BY <1>1, InvHolds, PTL

\* The route replaced last reads back wherever it was written.
THEOREM DatabaseNewest == Spec => []NewestIntact
<1>1. IInv => NewestIntact
  <2> SUFFICES ASSUME IInv, last # None,
                      index_map[last][Len(index_map[last])] # Failed
               PROVE  Intact(last, Len(index_map[last]))
    BY DEF NewestIntact
  <2>1. last \in Key /\ index_map[last] \in Seq({Failed} \cup 0..Len(file))
    BY DEF IInv, TypeOK
  <2>2. Len(index_map[last]) \in 1..Len(index_map[last])
    BY <2>1 DEF IInv, NewestInv
  <2>3. Placed(file, index_map[last][Len(index_map[last])], Contents(inserted[last][Len(index_map[last])]))
    BY DEF IInv, NewestInv
  <2> QED BY <2>1, <2>2, <2>3, PlacedIsIntact
<1> QED BY <1>1, InvHolds, PTL

\* A query that never returns has met a record that an insert was written over.
THEOREM DatabaseSpins == Spec => []SpinsOnlyAfterOverwrite
<1>1. IInv => SpinsOnlyAfterOverwrite
  BY DEF IInv, CleanInv, SpinsOnlyAfterOverwrite
<1> QED BY <1>1, InvHolds, PTL
=============================================================================
