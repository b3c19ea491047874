---------------------------- MODULE ConfigProofs ----------------------------
(***************************************************************************)
(* Proofs about the configuration of Console: the aliases of a neighbour,  *)
(* the destinations of the update log, what the views show, and that what  *)
(* is saved makes the same configuration again.                            *)
(***************************************************************************)
EXTENDS ConsoleProofs, SequenceTheorems, FiniteSetTheorems

-----------------------------------------------------------------------------
(* Lists.                                                                  *)

Items(s) == {s[n] : n \in 1..Len(s)}

LEMMA ListIsSeq ==
  ASSUME NEW s, IsList(s)
  PROVE  s \in Seq(Items(s))
<1>1. s \in [1..Len(s) -> Items(s)] /\ Len(s) \in Nat
  BY DEF IsList, Items
<1> QED BY <1>1, SeqDef

LEMMA SeqIsList ==
  ASSUME NEW S, NEW s \in Seq(S)
  PROVE  IsList(s)
  BY DEF IsList

LEMMA FunctionIsList ==
  ASSUME NEW n \in Nat, NEW S, NEW s \in [1..n -> S]
  PROVE  IsList(s) /\ Len(s) = n
<1>1. s \in Seq(S)
  BY SeqDef
<1>2. Len(s) = n
  BY <1>1
<1> QED BY <1>1, <1>2, SeqIsList

LEMMA ListExcept ==
  ASSUME NEW s, IsList(s), NEW i \in 1..Len(s), NEW e,
         NEW u, u = [s EXCEPT ![i] = e]
  PROVE  /\ IsList(u) /\ Len(u) = Len(s)
         /\ u[i] = e /\ \A j \in 1..Len(s) : j # i => u[j] = s[j]
<1> DEFINE S == Items(s) \cup {e}
<1>1. s \in Seq(Items(s))
  BY ListIsSeq
<1>2. s \in Seq(S)
  <2>1. s \in [1..Len(s) -> S] /\ Len(s) \in Nat
    BY <1>1 DEF IsList, Items
  <2> QED BY <2>1, SeqDef
<1>3. e \in S
  OBVIOUS
<1> HIDE DEF S
<1>4. u \in Seq(S) /\ Len(u) = Len(s)
  BY <1>2, <1>3, ExceptSeq
<1>5. u[i] = e /\ \A j \in 1..Len(s) : j # i => u[j] = s[j]
  BY <1>2
<1> QED BY <1>4, <1>5, SeqIsList

LEMMA ListAppend ==
  ASSUME NEW s, IsList(s), NEW e
  PROVE  /\ IsList(Append(s, e)) /\ Len(Append(s, e)) = Len(s) + 1
         /\ Append(s, e)[Len(s) + 1] = e
         /\ \A j \in 1..Len(s) : Append(s, e)[j] = s[j]
<1> DEFINE S == Items(s) \cup {e}
<1>1. s \in Seq(S)
  <2>1. s \in [1..Len(s) -> S] /\ Len(s) \in Nat
    BY DEF IsList, Items
  <2> QED BY <2>1, SeqDef
<1>2. e \in S
  OBVIOUS
<1> HIDE DEF S
<1>3. Append(s, e) \in Seq(S)
  BY <1>1, <1>2
<1>4. IsList(Append(s, e))
  BY <1>3, SeqIsList
<1>5. /\ Len(Append(s, e)) = Len(s) + 1 /\ Append(s, e)[Len(s) + 1] = e
      /\ \A j \in 1..Len(s) : Append(s, e)[j] = s[j]
  BY <1>1, <1>2
<1> QED BY <1>4, <1>5

-----------------------------------------------------------------------------
(* The loop that erases an alias.                                          *)

Unique(l) ==
    \A m, n \in 1..Len(l) : l[m].code = l[n].code /\ l[m].value = l[n].value => m = n

Matches(a, code, value) == a.code = code /\ a.value = value

EraseFrom(l, code, value, w, i) ==
    IF i = 0 THEN [slots |-> l, size |-> Len(l), wild |-> FALSE]
    ELSE EraseAt(w[i - 1], i, code, value)

\* The function of the loop exists, by induction over its length.
LEMMA EraseExists ==
  ASSUME NEW l, NEW code, NEW value
  PROVE  \A n \in Nat : \E w : w = [i \in 0..n |-> EraseFrom(l, code, value, w, i)]
<1> DEFINE F(w, i) == EraseFrom(l, code, value, w, i)
           S == {n \in Nat : \E w : w = [i \in 0..n |-> F(w, i)]}
<1>1. \A w, v, i : (i = 0 \/ w[i - 1] = v[i - 1]) => F(w, i) = F(v, i)
  BY DEF EraseFrom
<1> HIDE DEF F
<1>2. 0 \in S
  <2> DEFINE w == [i \in 0..0 |-> F(<<>>, 0)]
  <2>1. \A i \in 0..0 : F(<<>>, 0) = F(w, i)
    <3> HIDE DEF w
    <3> QED BY <1>1
  <2>2. w = [i \in 0..0 |-> F(w, i)]
    BY <2>1
  <2> HIDE DEF w
  <2> QED BY <2>2
<1>3. \A n \in Nat : n \in S => n + 1 \in S
  <2> SUFFICES ASSUME NEW n \in Nat, NEW w, w = [i \in 0..n |-> F(w, i)]
               PROVE  \E v : v = [i \in 0..(n + 1) |-> F(v, i)]
    OBVIOUS
  <2> DEFINE v == [i \in 0..(n + 1) |-> IF i <= n THEN w[i] ELSE F(w, i)]
  <2>1. \A i \in 0..(n + 1) : i - 1 \in 0..n => v[i - 1] = w[i - 1]
    OBVIOUS
  <2>2. \A i \in 0..(n + 1) : v[i] = F(w, i)
    <3> TAKE i \in 0..(n + 1)
    <3>1. CASE i <= n
      BY <3>1
    <3>2. CASE ~(i <= n)
      BY <3>2
    <3> QED BY <3>1, <3>2
  <2>3. v = [i \in 0..(n + 1) |-> v[i]]
    OBVIOUS
  <2> HIDE DEF v
  <2>4. \A i \in 0..(n + 1) : F(w, i) = F(v, i)
    <3> TAKE i \in 0..(n + 1)
    <3>1. i = 0 \/ i - 1 \in 0..n
      OBVIOUS
    <3> QED BY <1>1, <2>1, <3>1
  <2>5. v = [i \in 0..(n + 1) |-> F(v, i)]
    BY <2>2, <2>3, <2>4
  <2> QED BY <2>5
<1> HIDE DEF S
<1>4. Nat \subseteq S
  BY <1>2, <1>3, NatSet
<1> QED BY <1>4 DEF S, F

\* EraseEqual is what the loop leaves.
LEMMA EraseLoop ==
  ASSUME NEW l, IsList(l), NEW code, NEW value
  PROVE  \E w : /\ \A i \in 0..Len(l) : w[i] = EraseFrom(l, code, value, w, i)
                /\ EraseEqual(l, code, value) =
                     [list |-> SubSeq(w[Len(l)].slots, 1, w[Len(l)].size), wild |-> w[Len(l)].wild]
<1> DEFINE Is(w) == w = [i \in 0..Len(l) |->
                          IF i = 0 THEN [slots |-> l, size |-> Len(l), wild |-> FALSE]
                          ELSE EraseAt(w[i - 1], i, code, value)]
           w0 == CHOOSE w : Is(w)
<1>1. \E w : Is(w)
  <2>1. Len(l) \in Nat
    BY DEF IsList
  <2>2. \E w : w = [i \in 0..Len(l) |-> EraseFrom(l, code, value, w, i)]
    BY <2>1, EraseExists
  <2> QED BY <2>2 DEF EraseFrom
<1>2. Is(w0)
  BY <1>1
<1>3. EraseEqual(l, code, value) =
        [list |-> SubSeq(w0[Len(l)].slots, 1, w0[Len(l)].size), wild |-> w0[Len(l)].wild]
  BY DEF EraseEqual
<1> HIDE DEF w0
<1>4. \A i \in 0..Len(l) : w0[i] = EraseFrom(l, code, value, w0, i)
  BY <1>2 DEF EraseFrom
<1> QED BY <1>3, <1>4

\* The vector behind the erased element m, and the copy of the last behind its end.
Shift(l, m) == [j \in 1..Len(l) |-> IF m <= j /\ j < Len(l) THEN l[j + 1] ELSE l[j]]

At(l, i, m) ==
    IF i < m THEN [slots |-> l, size |-> Len(l), wild |-> FALSE]
    ELSE [slots |-> Shift(l, m), size |-> Len(l) - 1, wild |-> FALSE]

Loop(l, code, value, w) == \A i \in 0..Len(l) : w[i] = EraseFrom(l, code, value, w, i)

Only(l, code, value, m) ==
    /\ m \in 1..(Len(l) + 1)
    /\ \A n \in 1..Len(l) : n # m => ~Matches(l[n], code, value)
    /\ m <= Len(l) => Matches(l[m], code, value)

\* The loop at each element, if m is the only one that is erased, or none is and m
\* is behind the end.
LEMMA EraseOne ==
  ASSUME NEW l, IsList(l), NEW code, NEW value, NEW w, NEW m,
         Loop(l, code, value, w), Only(l, code, value, m)
  PROVE  \A i \in 0..Len(l) : w[i] = At(l, i, m)
<1> DEFINE S == {i \in Nat : i <= Len(l) => w[i] = At(l, i, m)}
<1> USE DEF Loop, Only
<1>0. Len(l) \in Nat /\ l = [n \in 1..Len(l) |-> l[n]]
  BY DEF IsList
<1>1. 0 \in S
  <2>1. 0 \in 0..Len(l) /\ 0 < m
    BY <1>0
  <2>2. w[0] = EraseFrom(l, code, value, w, 0)
    BY <2>1
  <2>3. EraseFrom(l, code, value, w, 0) = At(l, 0, m)
    BY <2>1 DEF EraseFrom, At
  <2> QED BY <2>2, <2>3
<1>2. ASSUME NEW i \in Nat, i \in S PROVE i + 1 \in S
  <2> SUFFICES ASSUME i + 1 <= Len(l) PROVE w[i + 1] = At(l, i + 1, m)
    OBVIOUS
  <2>1. w[i] = At(l, i, m) /\ w[i + 1] = EraseAt(w[i], i + 1, code, value)
    <3>1. i + 1 \in 0..Len(l) /\ i <= Len(l) /\ i + 1 # 0 /\ (i + 1) - 1 = i
      BY <1>0
    <3> QED BY <1>2, <3>1 DEF EraseFrom
  <2>2. CASE i + 1 < m
    <3>1. At(l, i, m) = At(l, i + 1, m) /\ At(l, i, m).slots = l
      BY <2>2 DEF At
    <3>2. ~Matches(l[i + 1], code, value)
      BY <1>0, <2>2
    <3> QED BY <2>1, <3>1, <3>2 DEF EraseAt, Matches
  <2>3. CASE i + 1 = m
    <3>1. Matches(l[i + 1], code, value)
      BY <1>0, <2>3
    <3>2. w[i] = [slots |-> l, size |-> Len(l), wild |-> FALSE]
      BY <2>1, <2>3 DEF At
    <3>3. EraseAt(w[i], i + 1, code, value) =
            [slots |-> [j \in DOMAIN l |-> IF i + 1 <= j /\ j < Len(l) THEN l[j + 1] ELSE l[j]],
             size |-> Len(l) - 1, wild |-> FALSE]
      BY <1>0, <3>1, <3>2 DEF EraseAt, Matches
    <3>4. DOMAIN l = 1..Len(l)
      BY <1>0
    <3>5. EraseAt(w[i], i + 1, code, value) =
            [slots |-> Shift(l, i + 1), size |-> Len(l) - 1, wild |-> FALSE]
      BY <3>3, <3>4 DEF Shift
    <3>6. At(l, i + 1, i + 1) = [slots |-> Shift(l, i + 1), size |-> Len(l) - 1, wild |-> FALSE]
      BY DEF At
    <3> QED BY <2>1, <2>3, <3>5, <3>6
  <2>4. CASE i + 1 > m
    <3>1. At(l, i, m) = At(l, i + 1, m) /\ At(l, i, m).slots = Shift(l, m)
      BY <2>4 DEF At
    <3>2. ~Matches(Shift(l, m)[i + 1], code, value)
      <4>1. PICK n \in 1..Len(l) : n # m /\ Shift(l, m)[i + 1] = l[n]
        BY <1>0, <2>4 DEF Shift
      <4> QED BY <4>1
    <3> QED BY <2>1, <3>1, <3>2 DEF EraseAt, Matches
  <2> QED BY <1>0, <2>2, <2>3, <2>4
<1> HIDE DEF S
<1>3. Nat \subseteq S
  BY <1>1, <1>2, NatSet
<1> QED BY <1>0, <1>3 DEF S

Others(l, code, value) == {a \in Items(l) : ~Matches(a, code, value)}

Absent(l, code, value) == \A n \in 1..Len(l) : ~Matches(l[n], code, value)

\* Of a list with one alias for each value the loop leaves one without the value, and
\* all others, in their order; it erases nothing behind the end.
LEMMA EraseLeaves ==
  ASSUME NEW l, IsList(l), Unique(l), NEW code, NEW value,
         NEW e, e = EraseEqual(l, code, value)
  PROVE  /\ e.wild = FALSE /\ IsList(e.list) /\ Unique(e.list)
         /\ \A n \in 1..Len(e.list) : ~Matches(e.list[n], code, value)
         /\ Items(e.list) = Others(l, code, value)
         /\ Absent(l, code, value) => e.list = l
<1>0. Len(l) \in Nat /\ l \in Seq(Items(l))
  BY ListIsSeq DEF IsList
<1>1. PICK w : /\ Loop(l, code, value, w)
               /\ e = [list |-> SubSeq(w[Len(l)].slots, 1, w[Len(l)].size), wild |-> w[Len(l)].wild]
  BY EraseLoop DEF Loop
<1>2. PICK m : Only(l, code, value, m)
  <2>1. CASE \E m \in 1..Len(l) : Matches(l[m], code, value)
    BY <1>0, <2>1 DEF Unique, Matches, Only
  <2>2. CASE ~ \E m \in 1..Len(l) : Matches(l[m], code, value)
    <3>1. Len(l) + 1 \in 1..(Len(l) + 1) /\ ~(Len(l) + 1 <= Len(l))
      BY <1>0
    <3> QED BY <2>2, <3>1 DEF Only
  <2> QED BY <2>1, <2>2
<1>3. w[Len(l)] = At(l, Len(l), m)
  <2>1. \A i \in 0..Len(l) : w[i] = At(l, i, m)
    BY <1>1, <1>2, EraseOne
  <2> QED BY <1>0, <2>1
<1>4. CASE m = Len(l) + 1
  <2>1. w[Len(l)] = [slots |-> l, size |-> Len(l), wild |-> FALSE]
    BY <1>0, <1>3, <1>4 DEF At
  <2>2. SubSeq(l, 1, Len(l)) = l
    BY <1>0
  <2>3. e.list = l /\ e.wild = FALSE
    BY <1>1, <2>1, <2>2
  <2>4. \A n \in 1..Len(l) : ~Matches(l[n], code, value)
    BY <1>0, <1>2, <1>4 DEF Only
  <2>5. Items(l) = Others(l, code, value)
    BY <2>4 DEF Items, Others
  <2> QED BY <2>3, <2>4, <2>5
<1>5. CASE m # Len(l) + 1
  <2>1. w[Len(l)] = [slots |-> Shift(l, m), size |-> Len(l) - 1, wild |-> FALSE]
    BY <1>0, <1>2, <1>3, <1>5 DEF At, Only
  <2>2. e.wild = FALSE /\ e.list = SubSeq(Shift(l, m), 1, Len(l) - 1)
    BY <1>1, <2>1
  <2>3. Shift(l, m) \in Seq(Items(l)) /\ Len(Shift(l, m)) = Len(l)
    <3>1. \A j \in 1..Len(l) : l[j] \in Items(l)
      BY DEF Items
    <3>2. Shift(l, m) \in [1..Len(l) -> Items(l)]
      BY <1>0, <1>2, <3>1 DEF Shift, Only
    <3> QED BY <1>0, <3>2, SeqDef
  <2>4. /\ e.list \in Seq(Items(l)) /\ Len(e.list) = Len(l) - 1
        /\ \A j \in 1..(Len(l) - 1) : e.list[j] = Shift(l, m)[j]
    <3> DEFINE s == Shift(l, m)
    <3>1. s \in Seq(Items(l)) /\ Len(s) = Len(l) /\ e.list = SubSeq(s, 1, Len(l) - 1)
          /\ Len(l) - 1 \in Nat
      BY <1>0, <1>2, <1>5, <2>2, <2>3 DEF Only
    <3>2. \A j \in 1..(Len(l) - 1) : j \in 1..Len(l)
      BY <1>0
    <3> HIDE DEF s
    <3>3. SubSeq(s, 1, Len(l) - 1) \in Seq(Items(l)) /\ Len(SubSeq(s, 1, Len(l) - 1)) = Len(l) - 1
      BY <1>0, <3>1, SubSeqProperties
    <3>4. \A j \in 1..(Len(l) - 1) : SubSeq(s, 1, Len(l) - 1)[j] = s[j]
      BY <1>0, <3>1, SubSeqProperties
    <3> QED BY <3>1, <3>3, <3>4 DEF s
  <2> DEFINE from(j) == IF m <= j THEN j + 1 ELSE j
  <2>5. \A j \in 1..Len(e.list) : e.list[j] = l[from(j)]
    <3>1. \A j \in 1..(Len(l) - 1) : Shift(l, m)[j] = l[from(j)]
      BY <1>0, <1>2 DEF Shift, Only
    <3> QED BY <2>4, <3>1
  <2>6. \A j \in 1..(Len(l) - 1) : from(j) \in 1..Len(l) /\ from(j) # m
    BY <1>0, <1>2, <1>5 DEF Only
  <2>7. \A i, j \in 1..(Len(l) - 1) : from(i) = from(j) => i = j
    BY <1>0, <1>2 DEF Only
  <2>11. ASSUME NEW n \in 1..Len(l), n # m PROVE \E j \in 1..(Len(l) - 1) : from(j) = n
    <3>1. CASE n < m
      <4>1. n \in 1..(Len(l) - 1) /\ from(n) = n
        BY <1>0, <1>2, <1>5, <3>1 DEF Only
      <4> QED BY <4>1
    <3>2. CASE n > m
      <4>1. n - 1 \in 1..(Len(l) - 1) /\ from(n - 1) = n
        BY <1>0, <1>2, <1>5, <3>2 DEF Only
      <4> QED BY <4>1
    <3> QED BY <1>2, <2>11, <3>1, <3>2 DEF Only
  <2> HIDE DEF from
  <2>15. ~Absent(l, code, value)
    BY <1>0, <1>2, <1>5 DEF Only, Absent
  <2>12. Items(e.list) = Others(l, code, value)
    <3>1. ASSUME NEW j \in 1..Len(e.list) PROVE e.list[j] \in Others(l, code, value)
      <4>1. e.list[j] = l[from(j)] /\ from(j) \in 1..Len(l) /\ from(j) # m
        BY <2>4, <2>5, <2>6, <3>1
      <4>2. ~Matches(l[from(j)], code, value)
        BY <1>2, <4>1 DEF Only
      <4> QED BY <4>1, <4>2 DEF Items, Others
    <3>2. ASSUME NEW a \in Others(l, code, value) PROVE a \in Items(e.list)
      <4>1. PICK n \in 1..Len(l) : a = l[n] /\ ~Matches(l[n], code, value)
        BY <3>2 DEF Items, Others
      <4>2. n # m
        BY <1>0, <1>2, <1>5, <4>1 DEF Only
      <4>3. PICK j \in 1..(Len(l) - 1) : from(j) = n
        BY <2>11, <4>2
      <4> QED BY <2>4, <2>5, <4>1, <4>3 DEF Items
    <3> QED BY <3>1, <3>2 DEF Items
  <2>8. Unique(e.list)
    <3> SUFFICES ASSUME NEW i \in 1..Len(e.list), NEW j \in 1..Len(e.list),
                        e.list[i].code = e.list[j].code, e.list[i].value = e.list[j].value
                 PROVE  i = j
      BY DEF Unique
    <3>1. l[from(i)].code = l[from(j)].code /\ l[from(i)].value = l[from(j)].value
      BY <2>5
    <3>2. from(i) = from(j)
      BY <2>4, <2>6, <3>1 DEF Unique
    <3> QED BY <2>4, <2>7, <3>2
  <2>9. IsList(e.list)
    BY <2>4, SeqIsList
  <2>10. \A n \in 1..Len(e.list) : ~Matches(e.list[n], code, value)
    BY <1>2, <2>4, <2>5, <2>6 DEF Only
  <2> QED BY <2>2, <2>8, <2>9, <2>10, <2>12, <2>15
<1> QED BY <1>4, <1>5

-----------------------------------------------------------------------------
(* Sorting the aliases.                                                    *)

\* Every alias is of an attribute there is a code for.
Coded(l) == \A n \in 1..Len(l) : l[n].code \in DOMAIN Code

\* Codes are numbers.
LEMMA CodeIs == \A c \in DOMAIN Code : Code[c] \in Nat
  BY DEF Code

Rearranges(f, n) ==
    /\ f \in [1..n -> 1..n]
    /\ \A i, j \in 1..n : f[i] = f[j] => i = j
    /\ \A j \in 1..n : \E i \in 1..n : f[i] = j

Falls(c, f, n) == \A i, j \in 1..n : i < j => c[f[j]] <= c[f[i]]

\* One more number is put before the first that is lower.
LEMMA PutIn ==
  ASSUME NEW n \in Nat, NEW c \in [1..(n + 1) -> Int], NEW f, Rearranges(f, n), Falls(c, f, n)
  PROVE  \E g : Rearranges(g, n + 1) /\ Falls(c, g, n + 1)
<1> DEFINE T == {j \in 1..n : c[f[j]] < c[n + 1]} \cup {n + 1}
           k == Min(T)
           from(j) == IF j < k THEN j ELSE j - 1
           g == [j \in 1..(n + 1) |-> IF j = k THEN n + 1 ELSE f[from(j)]]
<1>0. /\ \A i \in 1..n : f[i] \in 1..n /\ c[f[i]] \in Int
      /\ c[n + 1] \in Int
  <2>1. \A i \in 1..n : f[i] \in 1..n
    BY DEF Rearranges
  <2>2. \A j \in 1..n : j \in 1..(n + 1)
    OBVIOUS
  <2> QED BY <2>1, <2>2
<1>1. T \subseteq 1..(n + 1) /\ T \subseteq Nat /\ T # {}
  OBVIOUS
<1>2. k \in T /\ \A y \in T : k <= y
  <2> HIDE DEF T
  <2> QED BY <1>1, MinIn
<1> HIDE DEF k
<1>3. k \in 1..(n + 1)
  BY <1>1, <1>2
<1>4. \A j \in 1..n : j < k => c[n + 1] <= c[f[j]]
  <2> SUFFICES ASSUME NEW j \in 1..n, j < k PROVE c[n + 1] <= c[f[j]]
    OBVIOUS
  <2>1. j \notin T
    BY <1>2, <1>3
  <2> QED BY <1>0, <2>1
<1>5. \A j \in 1..n : j >= k => c[f[j]] <= c[n + 1]
  <2> SUFFICES ASSUME NEW j \in 1..n, j >= k PROVE c[f[j]] <= c[n + 1]
    OBVIOUS
  <2>1. k \in 1..n /\ c[f[k]] < c[n + 1]
    BY <1>2, <1>3
  <2>2. c[f[j]] <= c[f[k]]
    <3>1. CASE k = j
      BY <1>0, <3>1
    <3>2. CASE k < j
      BY <2>1, <3>2 DEF Falls
    <3> QED BY <1>3, <3>1, <3>2
  <2> QED BY <1>0, <2>1, <2>2
<1> HIDE DEF T
<1>6. \A j \in 1..(n + 1) : j # k => from(j) \in 1..n
  BY <1>3
<1>7. \A i, j \in 1..(n + 1) : i # k /\ j # k /\ from(i) = from(j) => i = j
  BY <1>3
<1>8. \A i, j \in 1..(n + 1) : i # k /\ j # k /\ i < j => from(i) < from(j)
  BY <1>3
<1>9. \A m \in 1..n : \E j \in 1..(n + 1) : j # k /\ from(j) = m
  <2> TAKE m \in 1..n
  <2>1. CASE m < k
    BY <1>3, <2>1
  <2>2. CASE m >= k
    <3>1. m + 1 \in 1..(n + 1) /\ m + 1 # k /\ from(m + 1) = m
      BY <1>3, <2>2
    <3> QED BY <3>1
  <2> QED BY <1>3, <2>1, <2>2
<1>10. \A j \in 1..(n + 1) : (j < k => from(j) < k) /\ (j > k => from(j) >= k)
  BY <1>3
<1> HIDE DEF from
<1>11. g[k] = n + 1 /\ \A j \in 1..(n + 1) : j # k => g[j] = f[from(j)] /\ g[j] \in 1..n
  BY <1>0, <1>3, <1>6
<1>12. g \in [1..(n + 1) -> 1..(n + 1)]
  BY <1>0, <1>6
<1> HIDE DEF g
<1>13. ASSUME NEW i \in 1..(n + 1), NEW j \in 1..(n + 1), g[i] = g[j] PROVE i = j
  <2>1. CASE i = k \/ j = k
    BY <1>11, <1>13, <2>1
  <2>2. CASE i # k /\ j # k
    <3>1. f[from(i)] = f[from(j)] /\ from(i) \in 1..n /\ from(j) \in 1..n
      BY <1>6, <1>11, <1>13, <2>2
    <3>2. from(i) = from(j)
      BY <3>1 DEF Rearranges
    <3> QED BY <1>7, <2>2, <3>2
  <2> QED BY <2>1, <2>2
<1>14. ASSUME NEW m \in 1..(n + 1) PROVE \E j \in 1..(n + 1) : g[j] = m
  <2>1. CASE m = n + 1
    BY <1>3, <1>11, <2>1
  <2>2. CASE m # n + 1
    <3>1. PICK i \in 1..n : f[i] = m
      BY <2>2 DEF Rearranges
    <3>2. PICK j \in 1..(n + 1) : j # k /\ from(j) = i
      BY <1>9
    <3> QED BY <1>11, <3>1, <3>2
  <2> QED BY <2>1, <2>2
<1>15. ASSUME NEW i \in 1..(n + 1), NEW j \in 1..(n + 1), i < j PROVE c[g[j]] <= c[g[i]]
  <2>1. CASE i = k
    <3>1. j # k /\ from(j) \in 1..n /\ from(j) >= k /\ g[j] = f[from(j)]
      BY <1>3, <1>6, <1>10, <1>11, <1>15, <2>1
    <3> QED BY <1>5, <1>11, <2>1, <3>1
  <2>2. CASE j = k
    <3>1. i # k /\ from(i) \in 1..n /\ from(i) < k /\ g[i] = f[from(i)]
      BY <1>3, <1>6, <1>10, <1>11, <1>15, <2>2
    <3> QED BY <1>4, <1>11, <2>2, <3>1
  <2>3. CASE i # k /\ j # k
    <3>1. /\ from(i) \in 1..n /\ from(j) \in 1..n /\ from(i) < from(j)
          /\ g[i] = f[from(i)] /\ g[j] = f[from(j)]
      BY <1>6, <1>8, <1>11, <1>15, <2>3
    <3>2. c[f[from(j)]] <= c[f[from(i)]]
      BY <3>1 DEF Falls
    <3> QED BY <3>1, <3>2
  <2> QED BY <2>1, <2>2, <2>3
<1> QED BY <1>12, <1>13, <1>14, <1>15 DEF Rearranges, Falls

\* Numbers can be sorted, by induction over how many there are.
LEMMA SortExists ==
  \A n \in Nat : \A c \in [1..n -> Int] : \E f : Rearranges(f, n) /\ Falls(c, f, n)
<1> DEFINE S == {n \in Nat : \A c \in [1..n -> Int] : \E f : Rearranges(f, n) /\ Falls(c, f, n)}
<1>1. 0 \in S
  <2>1. Rearranges(<<>>, 0) /\ \A c : Falls(c, <<>>, 0)
    BY DEF Rearranges, Falls
  <2> QED BY <2>1
<1>2. ASSUME NEW n \in Nat, n \in S PROVE n + 1 \in S
  <2> SUFFICES ASSUME NEW c \in [1..(n + 1) -> Int]
               PROVE  \E g : Rearranges(g, n + 1) /\ Falls(c, g, n + 1)
    OBVIOUS
  <2> DEFINE d == [j \in 1..n |-> c[j]]
  <2>1. d \in [1..n -> Int]
    OBVIOUS
  <2>2. PICK f : Rearranges(f, n) /\ Falls(d, f, n)
    BY <1>2, <2>1
  <2>3. Falls(c, f, n)
    BY <2>2 DEF Rearranges, Falls
  <2> QED BY <2>2, <2>3, PutIn
<1> HIDE DEF S
<1>3. Nat \subseteq S
  BY <1>1, <1>2, NatSet
<1> QED BY <1>3 DEF S

\* The aliases in another order.
Reordered(u, l) ==
    /\ IsList(u) /\ Len(u) = Len(l)
    /\ \E f : Rearranges(f, Len(l)) /\ \A n \in 1..Len(l) : u[n] = l[f[n]]

\* The reverse of a rearrangement is one.
LEMMA FromItsEnd ==
  ASSUME NEW n \in Nat, NEW f, Rearranges(f, n), NEW g, g = [i \in 1..n |-> f[n + 1 - i]]
  PROVE  Rearranges(g, n)
<1>1. \A i \in 1..n : n + 1 - i \in 1..n /\ n + 1 - (n + 1 - i) = i
  OBVIOUS
<1>2. g \in [1..n -> 1..n]
  BY <1>1 DEF Rearranges
<1>3. ASSUME NEW i \in 1..n, NEW j \in 1..n, g[i] = g[j] PROVE i = j
  <2>1. n + 1 - i = n + 1 - j
    BY <1>1, <1>3 DEF Rearranges
  <2> QED BY <2>1
<1>4. ASSUME NEW m \in 1..n PROVE \E i \in 1..n : g[i] = m
  <2>1. PICK j \in 1..n : f[j] = m
    BY DEF Rearranges
  <2>2. g[n + 1 - j] = m
    BY <1>1, <2>1
  <2> QED BY <1>1, <2>2
<1> QED BY <1>2, <1>3, <1>4 DEF Rearranges

LEMMA SortIs ==
  ASSUME NEW l, IsList(l), Coded(l), NEW u, u = SortByCode(l)
  PROVE  Reordered(u, l)
<1> DEFINE size == Len(l)
           Sorts(f) == \A m, n \in 1..size : m < n => Code[l[f[n]].code] <= Code[l[f[m]].code]
           from == CHOOSE f \in Bijection(1..size, 1..size) : Sorts(f)
           g == [n \in 1..size |-> from[size + 1 - n]]
<1>1. size \in Nat
  BY DEF IsList
<1>2. \E f \in Bijection(1..size, 1..size) : Sorts(f)
  <2> DEFINE c == [n \in 1..size |-> Code[l[n].code]]
  <2>1. c \in [1..size -> Int]
    <3>1. \A n \in 1..size : Code[l[n].code] \in Int
      BY CodeIs DEF Coded
    <3> QED BY <3>1
  <2>2. \A n \in 1..size : c[n] = Code[l[n].code]
    OBVIOUS
  <2> HIDE DEF size, c
  <2>3. PICK f : Rearranges(f, size) /\ Falls(c, f, size)
    BY <1>1, <2>1, SortExists
  <2>4. f \in Bijection(1..size, 1..size)
    <3>1. f \in [1..size -> 1..size] /\ DOMAIN f = 1..size
      BY <2>3 DEF Rearranges
    <3> QED BY <2>3, <3>1 DEF Rearranges, Bijection, Injection, Surjection, IsInjective
  <2>5. Sorts(f)
    <3>1. \A n \in 1..size : f[n] \in 1..size /\ c[f[n]] = Code[l[f[n]].code]
      BY <2>2, <2>3 DEF Rearranges
    <3> QED BY <2>3, <3>1 DEF Falls
  <2> QED BY <2>4, <2>5
<1>3. from \in Bijection(1..size, 1..size)
  <2> HIDE DEF size, Sorts
  <2> QED BY <1>2
<1>4. u = [n \in 1..size |-> l[from[size + 1 - n]]]
  BY DEF SortByCode
<1> HIDE DEF from, size
<1>5. Rearranges(from, size)
  <2>1. from \in [1..size -> 1..size] /\ DOMAIN from = 1..size
    BY <1>3 DEF Bijection, Injection
  <2> QED BY <1>3, <2>1 DEF Rearranges, Bijection, Injection, Surjection, IsInjective
<1>6. Rearranges(g, size)
  BY <1>1, <1>5, FromItsEnd
<1>7. \A n \in 1..size : u[n] = l[g[n]]
  BY <1>4
<1>8. IsList(u) /\ Len(u) = size
  <2> DEFINE T == {u[n] : n \in 1..size}
  <2>1. u \in [1..size -> T]
    BY <1>4
  <2>2. size \in Nat
    BY <1>1
  <2> HIDE DEF T
  <2> QED BY <2>1, <2>2, FunctionIsList
<1> HIDE DEF g
<1> QED BY <1>6, <1>7, <1>8 DEF Reordered, size

\* In another order a list has the same aliases, each value one.
LEMMA ReorderedIs ==
  ASSUME NEW l, IsList(l), NEW u, Reordered(u, l)
  PROVE  /\ Items(u) = Items(l)
         /\ Unique(l) => Unique(u)
         /\ Coded(l) => Coded(u)
<1>1. PICK f : Rearranges(f, Len(l)) /\ \A n \in 1..Len(l) : u[n] = l[f[n]]
  BY DEF Reordered
<1>2. Len(u) = Len(l)
  BY DEF Reordered
<1>3. \A n \in 1..Len(l) : f[n] \in 1..Len(l)
  BY <1>1 DEF Rearranges
<1>4. Items(u) = Items(l)
  <2>1. \A n \in 1..Len(l) : u[n] \in Items(l)
    BY <1>1, <1>3 DEF Items
  <2>2. ASSUME NEW n \in 1..Len(l) PROVE l[n] \in Items(u)
    <3>1. PICK i \in 1..Len(l) : f[i] = n
      BY <1>1 DEF Rearranges
    <3>2. u[i] = l[n]
      BY <1>1, <3>1
    <3> QED BY <1>2, <3>2 DEF Items
  <2> QED BY <1>2, <2>1, <2>2 DEF Items
<1>5. ASSUME Unique(l), NEW m \in 1..Len(u), NEW n \in 1..Len(u),
             u[m].code = u[n].code, u[m].value = u[n].value
      PROVE  m = n
  <2>1. u[m] = l[f[m]] /\ u[n] = l[f[n]] /\ f[m] \in 1..Len(l) /\ f[n] \in 1..Len(l)
    BY <1>1, <1>2, <1>3
  <2>2. f[m] = f[n]
    BY <1>5, <2>1 DEF Unique
  <2> QED BY <1>1, <1>2, <2>2 DEF Rearranges
<1>6. Coded(l) => Coded(u)
  BY <1>1, <1>2, <1>3 DEF Coded
<1> QED BY <1>4, <1>5, <1>6 DEF Unique

\* An alias behind a list without its value leaves one for each value.
LEMMA AppendUnique ==
  ASSUME NEW l, IsList(l), Unique(l), Coded(l), NEW a, a.code \in DOMAIN Code,
         \A n \in 1..Len(l) : ~Matches(l[n], a.code, a.value), NEW u, u = Append(l, a)
  PROVE  /\ IsList(u) /\ Len(u) = Len(l) + 1 /\ Unique(u) /\ Coded(u)
         /\ Items(u) = Items(l) \cup {a}
<1>1. /\ IsList(u) /\ Len(u) = Len(l) + 1 /\ u[Len(l) + 1] = a
      /\ \A j \in 1..Len(l) : u[j] = l[j]
  BY ListAppend
<1>2. Len(l) \in Nat
  BY DEF IsList
<1>3. \A j : j \in 1..Len(u) <=> j \in 1..Len(l) \/ j = Len(l) + 1
  BY <1>1, <1>2
<1>4. ASSUME NEW m \in 1..Len(u), NEW n \in 1..Len(u), u[m].code = u[n].code,
             u[m].value = u[n].value
      PROVE  m = n
  <2>1. CASE m \in 1..Len(l) /\ n \in 1..Len(l)
    BY <1>1, <1>4, <2>1 DEF Unique
  <2>2. CASE m = Len(l) + 1 /\ n \in 1..Len(l)
    BY <1>1, <1>4, <2>2 DEF Matches
  <2>3. CASE m \in 1..Len(l) /\ n = Len(l) + 1
    BY <1>1, <1>4, <2>3 DEF Matches
  <2> QED BY <1>3, <2>1, <2>2, <2>3
<1>5. Coded(u)
  BY <1>1, <1>3 DEF Coded
<1>6. Items(u) = Items(l) \cup {a}
  BY <1>1, <1>3 DEF Items
<1> QED BY <1>1, <1>4, <1>5, <1>6 DEF Unique

\* The new alias behind the others, and the list sorted.
LEMMA SortAppend ==
  ASSUME NEW l, IsList(l), Unique(l), Coded(l), NEW a, a.code \in DOMAIN Code,
         \A n \in 1..Len(l) : ~Matches(l[n], a.code, a.value),
         NEW u, u = SortByCode(Append(l, a))
  PROVE  /\ IsList(u) /\ Len(u) = Len(l) + 1 /\ Unique(u) /\ Coded(u)
         /\ Items(u) = Items(l) \cup {a}
<1> DEFINE s == Append(l, a)
<1>1. /\ IsList(s) /\ Len(s) = Len(l) + 1 /\ Unique(s) /\ Coded(s)
      /\ Items(s) = Items(l) \cup {a}
  BY AppendUnique
<1> HIDE DEF s
<1>2. Reordered(u, s)
  BY <1>1, SortIs DEF s
<1>3. IsList(u) /\ Len(u) = Len(s)
  BY <1>2 DEF Reordered
<1> QED BY <1>1, <1>2, <1>3, ReorderedIs

-----------------------------------------------------------------------------
(* The configuration.                                                      *)

ConfigInv(t) == WellFormed(t) /\ IdsFromOpen(t) /\ OneAlias(t)

TableField == {"thread_q", "bgp_id", "dumper", "udp_map", "wild"}
PeerField == {"p_ip", "ipv4", "AS", "bgp_id", "aliases", "aliasing", "tx", "rx"}

PeerOK(q) ==
    /\ q = [x \in PeerField |-> q[x]]
    /\ IsList(q.aliases) /\ Unique(q.aliases) /\ Coded(q.aliases)
    /\ q.bgp_id = 0 \/ (q.p_ip \in DOMAIN RouterId /\ q.bgp_id = RouterId[q.p_ip])

\* The same, a neighbour at a time.
LEMMA ConfigIs ==
  ASSUME NEW t
  PROVE  ConfigInv(t) <=> /\ t = [x \in TableField |-> t[x]] /\ ~t.wild
                          /\ IsList(t.thread_q)
                          /\ \A i \in 1..Len(t.thread_q) : PeerOK(t.thread_q[i])
<1>1. ConfigInv(t) => /\ t = [x \in TableField |-> t[x]] /\ ~t.wild
                      /\ IsList(t.thread_q)
                      /\ \A i \in 1..Len(t.thread_q) : PeerOK(t.thread_q[i])
  <2> SUFFICES ASSUME ConfigInv(t)
               PROVE  /\ t = [x \in TableField |-> t[x]] /\ ~t.wild /\ IsList(t.thread_q)
                      /\ \A i \in 1..Len(t.thread_q) : PeerOK(t.thread_q[i])
    OBVIOUS
  <2>1. t = [x \in TableField |-> t[x]] /\ ~t.wild /\ IsList(t.thread_q)
    BY DEF ConfigInv, WellFormed, OneAlias, TableField
  <2>2. ASSUME NEW i \in 1..Len(t.thread_q) PROVE PeerOK(t.thread_q[i])
    BY DEF ConfigInv, WellFormed, OneAlias, IdsFromOpen, PeerOK, PeerField, Unique, Coded
  <2> QED BY <2>1, <2>2
<1>2. ASSUME t = [x \in TableField |-> t[x]], ~t.wild, IsList(t.thread_q),
             \A i \in 1..Len(t.thread_q) : PeerOK(t.thread_q[i])
      PROVE  ConfigInv(t)
  <2>1. WellFormed(t)
    <3>1. DOMAIN t = {"thread_q", "bgp_id", "dumper", "udp_map", "wild"}
            /\ t = [x \in DOMAIN t |-> t[x]]
      BY <1>2 DEF TableField
    <3>2. ASSUME NEW i \in 1..Len(t.thread_q), NEW q, q = t.thread_q[i]
          PROVE  /\ DOMAIN q = {"p_ip", "ipv4", "AS", "bgp_id", "aliases", "aliasing", "tx", "rx"}
                 /\ q = [x \in DOMAIN q |-> q[x]]
                 /\ IsList(q.aliases)
                 /\ \A n \in 1..Len(q.aliases) : q.aliases[n].code \in DOMAIN Code
      <4>1. q = [x \in PeerField |-> q[x]] /\ IsList(q.aliases) /\ Coded(q.aliases)
        BY <1>2, <3>2 DEF PeerOK
      <4> QED BY <4>1 DEF PeerField, Coded
    <3> QED BY <1>2, <3>1, <3>2 DEF WellFormed
  <2>2. IdsFromOpen(t)
    BY <1>2 DEF IdsFromOpen, PeerOK
  <2>3. OneAlias(t)
    BY <1>2 DEF OneAlias, PeerOK, Unique
  <2> QED BY <2>1, <2>2, <2>3 DEF ConfigInv
<1> QED BY <1>1, <1>2

\* A neighbour changes.
LEMMA PeerChanges ==
  ASSUME NEW t, ConfigInv(t), NEW i \in 1..Len(t.thread_q), NEW q, PeerOK(q),
         NEW u, u = [x \in TableField |-> u[x]],
         u.thread_q = [t.thread_q EXCEPT ![i] = q], ~u.wild
  PROVE  ConfigInv(u)
<1>1. IsList(t.thread_q) /\ \A j \in 1..Len(t.thread_q) : PeerOK(t.thread_q[j])
  BY ConfigIs
<1> DEFINE v == u.thread_q
<1>2. /\ IsList(v) /\ Len(v) = Len(t.thread_q)
      /\ v[i] = q /\ \A j \in 1..Len(t.thread_q) : j # i => v[j] = t.thread_q[j]
  BY <1>1, ListExcept
<1> HIDE DEF v
<1>3. \A j \in 1..Len(v) : PeerOK(v[j])
  BY <1>1, <1>2
<1> QED BY <1>2, <1>3, ConfigIs DEF v

\* A neighbour is added.
LEMMA PeerAdded ==
  ASSUME NEW t, ConfigInv(t), NEW q, PeerOK(q),
         NEW u, u = [x \in TableField |-> u[x]], u.thread_q = Append(t.thread_q, q), ~u.wild
  PROVE  ConfigInv(u)
<1>1. IsList(t.thread_q) /\ \A j \in 1..Len(t.thread_q) : PeerOK(t.thread_q[j])
  BY ConfigIs
<1> DEFINE v == u.thread_q
<1>2. /\ IsList(v) /\ Len(v) = Len(t.thread_q) + 1
      /\ v[Len(t.thread_q) + 1] = q /\ \A j \in 1..Len(t.thread_q) : v[j] = t.thread_q[j]
  <2> DEFINE l == t.thread_q
  <2>1. IsList(l) /\ v = Append(l, q)
    BY <1>1
  <2> HIDE DEF l, v
  <2>2. /\ IsList(Append(l, q)) /\ Len(Append(l, q)) = Len(l) + 1
        /\ Append(l, q)[Len(l) + 1] = q /\ \A j \in 1..Len(l) : Append(l, q)[j] = l[j]
    BY <2>1, ListAppend
  <2> QED BY <2>1, <2>2 DEF l
<1> HIDE DEF v
<1>3. \A j \in 1..Len(v) : PeerOK(v[j])
  <2> TAKE j \in 1..Len(v)
  <2>1. j \in 1..Len(t.thread_q) \/ j = Len(t.thread_q) + 1
    BY <1>1, <1>2 DEF IsList
  <2> QED BY <1>1, <1>2, <2>1
<1> QED BY <1>2, <1>3, ConfigIs DEF v

\* The neighbours stay as they are.
LEMMA PeersKept ==
  ASSUME NEW t, ConfigInv(t), NEW u, u = [x \in TableField |-> u[x]],
         u.thread_q = t.thread_q, ~u.wild
  PROVE  ConfigInv(u)
  BY ConfigIs

\* The neighbour a function finds is in the table.
LEMMA PeerFound ==
  ASSUME NEW t, IsList(t.thread_q), NEW ip, NEW i, i = get_peer_by_str_ip(t, ip), i # None
  PROVE  i \in 1..Len(t.thread_q) /\ t.thread_q[i].p_ip = ip
<1> DEFINE match == {n \in 1..Len(t.thread_q) : t.thread_q[n].p_ip = ip}
<1>1. match \subseteq Nat /\ match # {} /\ i = Min(match)
  BY DEF get_peer_by_str_ip, FirstOf, IsList
<1> HIDE DEF match
<1>2. i \in match
  BY <1>1, MinIn
<1> QED BY <1>2 DEF match

\* The aliases of a neighbour after set_translation: those of other values, and the new one.
Translated(l, old, a) ==
    /\ IsList(l) /\ Unique(l) /\ Coded(l)
    /\ Items(l) = Others(old, a.code, a.value) \cup {a}

With(t, i, l) ==
    [t EXCEPT !.thread_q = [t.thread_q EXCEPT ![i] = [t.thread_q[i] EXCEPT
                                                        !.aliases = l, !.aliasing = TRUE]],
              !.wild = FALSE]

LEMMA TranslationIs ==
  ASSUME NEW t, ConfigInv(t), NEW i \in 1..Len(t.thread_q), NEW code \in DOMAIN Code, NEW value,
         NEW name,
         NEW u, u = set_translation(t, i, code, value, name),
         NEW a, a = [code |-> code, value |-> value, name |-> name]
  PROVE  \E l : Translated(l, t.thread_q[i].aliases, a) /\ u = With(t, i, l)
<1> DEFINE q == t.thread_q[i]
           old == q.aliases
           rest == EraseEqual(old, code, value)
           list == SortByCode(Append(rest.list, a))
           w == t.wild \/ rest.wild
<1>1. t = [x \in TableField |-> t[x]] /\ ~t.wild /\ IsList(t.thread_q) /\ PeerOK(q)
  BY ConfigIs
<1>2. IsList(old) /\ Unique(old) /\ Coded(old)
  BY <1>1 DEF PeerOK
<1>3. u = [t EXCEPT !.thread_q[i].aliases = list, !.thread_q[i].aliasing = TRUE, !.wild = w]
  BY DEF set_translation
<1> HIDE DEF old, list, w
<1>4. /\ rest.wild = FALSE /\ IsList(rest.list) /\ Unique(rest.list)
      /\ \A n \in 1..Len(rest.list) : ~Matches(rest.list[n], code, value)
      /\ Items(rest.list) = Others(old, code, value)
  <2> DEFINE e == rest
  <2>1. e = EraseEqual(old, code, value)
    OBVIOUS
  <2> HIDE DEF e
  <2> QED BY <1>2, <2>1, EraseLeaves DEF e
<1>5. a.code = code /\ a.value = value
  OBVIOUS
<1> HIDE DEF rest
<1>6. Coded(rest.list)
  <2>1. \A n \in 1..Len(rest.list) : rest.list[n] \in Items(old)
    BY <1>4 DEF Items, Others
  <2> QED BY <1>2, <2>1 DEF Coded, Items
<1>7. Translated(list, old, a)
  <2>1. /\ IsList(list) /\ Unique(list) /\ Coded(list)
        /\ Items(list) = Items(rest.list) \cup {a}
    BY <1>4, <1>5, <1>6, SortAppend DEF list
  <2> QED BY <1>4, <1>5, <2>1 DEF Translated
<1>8. w = FALSE
  BY <1>1, <1>4 DEF w
<1>9. u = With(t, i, list)
  BY <1>1, <1>3, <1>8 DEF With, TableField, IsList, PeerOK, PeerField
<1> QED BY <1>7, <1>9 DEF old

LEMMA WithKeeps ==
  ASSUME NEW t, ConfigInv(t), NEW i \in 1..Len(t.thread_q), NEW l, IsList(l), Unique(l),
         Coded(l), NEW u, u = With(t, i, l)
  PROVE  ConfigInv(u) /\ u.udp_map = t.udp_map
<1> DEFINE q == t.thread_q[i]
           r == [q EXCEPT !.aliases = l, !.aliasing = TRUE]
<1>1. t = [x \in TableField |-> t[x]] /\ ~t.wild /\ IsList(t.thread_q) /\ PeerOK(q)
  BY ConfigIs
<1>2. PeerOK(r)
  <2> HIDE DEF q
  <2> QED BY <1>1 DEF PeerOK, PeerField
<1>3. u = [t EXCEPT !.thread_q = [t.thread_q EXCEPT ![i] = r], !.wild = FALSE]
  BY DEF With
<1> HIDE DEF r
<1>4. /\ u = [x \in TableField |-> u[x]] /\ u.udp_map = t.udp_map /\ ~u.wild
      /\ u.thread_q = [t.thread_q EXCEPT ![i] = r]
  BY <1>1, <1>3 DEF TableField
<1> QED BY <1>2, <1>4, PeerChanges

\* set_translation keeps one alias for each value and is never wild.
LEMMA TranslationKeeps ==
  ASSUME NEW t, ConfigInv(t), NEW i \in 1..Len(t.thread_q), NEW code \in DOMAIN Code, NEW value,
         NEW name,
         NEW u, u = set_translation(t, i, code, value, name)
  PROVE  ConfigInv(u) /\ u.udp_map = t.udp_map
<1> DEFINE a == [code |-> code, value |-> value, name |-> name]
<1>1. PICK l : Translated(l, t.thread_q[i].aliases, a) /\ u = With(t, i, l)
  BY TranslationIs
<1> QED BY <1>1, WithKeeps DEF Translated

\* The attribute of an alias that is set has a code.
LEMMA AliasCoded ==
  ASSUME NEW t, NEW func \in AliasFunc, NEW i, NEW tokens
  PROVE  AliasSet(t, func, i, tokens).code \in DOMAIN Code
  BY DEF AliasSet, AliasFunc, Code

\* What a function makes of a configuration.
LEMMA RunIs ==
  ASSUME NEW t, NEW func, NEW tokens, NEW u, u = Run(t, func, tokens),
         NEW i, i = get_peer_by_str_ip(t, Token(tokens, 1)),
         NEW a, a = AliasSet(t, func, i, tokens)
  PROVE  \/ u = t
         \/ func = "set_bgp_id" /\ u = [t EXCEPT !.bgp_id = Aton(Token(tokens, 1))]
         \/ func = "toggle_update_dump" /\ u = toggle_update_dump(t, tokens)
         \/ func = "proto_bgp_neighbor" /\ u = proto_bgp_neighbor(t, tokens)
         \/ func \in AliasFunc /\ i # None
              /\ u = set_translation(t, i, a.code, a.value, a.name)
         \/ func = "set_peer_logging" /\ i # None /\ u = set_peer_logging(t, i, tokens)
         \/ func = "rcv_buffer_size" /\ i # None
              /\ u = [t EXCEPT !.thread_q[i].rx = buffer_size(tokens)]
         \/ func = "snd_buffer_size" /\ i # None
              /\ u = [t EXCEPT !.thread_q[i].tx = buffer_size(tokens)]
<1>1. u = CASE func = "set_bgp_id" -> [t EXCEPT !.bgp_id = Aton(Token(tokens, 1))]
          [] func = "toggle_update_dump" -> toggle_update_dump(t, tokens)
          [] func = "proto_bgp_neighbor" -> proto_bgp_neighbor(t, tokens)
          [] func \in PeerFunc /\ i = None -> t
          [] func \in AliasFunc /\ i # None -> set_translation(t, i, a.code, a.value, a.name)
          [] func = "set_peer_logging" /\ i # None -> set_peer_logging(t, i, tokens)
          [] func = "rcv_buffer_size" /\ i # None ->
               [t EXCEPT !.thread_q[i].rx = buffer_size(tokens)]
          [] func = "snd_buffer_size" /\ i # None ->
               [t EXCEPT !.thread_q[i].tx = buffer_size(tokens)]
          [] OTHER -> t
  BY DEF Run
<1> DEFINE st == set_translation(t, i, a.code, a.value, a.name)
<1> HIDE DEF st
<1>3. CASE func = "set_bgp_id"
  BY <1>1, <1>3 DEF st, AliasFunc, PeerFunc
<1>4. CASE func = "toggle_update_dump"
  BY <1>1, <1>4 DEF st, AliasFunc, PeerFunc
<1>5. CASE func = "proto_bgp_neighbor"
  BY <1>1, <1>5 DEF st, AliasFunc, PeerFunc
<1>6. CASE func \in PeerFunc /\ i = None
  BY <1>1, <1>6 DEF st, AliasFunc, PeerFunc
<1>7. CASE func \in AliasFunc /\ i # None
  <2>1. u = st
    BY <1>1, <1>7 DEF st, AliasFunc, PeerFunc
  <2> QED BY <1>7, <2>1 DEF st
<1>8. CASE func = "set_peer_logging" /\ i # None
  BY <1>1, <1>8 DEF st, AliasFunc, PeerFunc
<1>9. CASE func = "rcv_buffer_size" /\ i # None
  BY <1>1, <1>9 DEF st, AliasFunc, PeerFunc
<1>10. CASE func = "snd_buffer_size" /\ i # None
  BY <1>1, <1>10 DEF st, AliasFunc, PeerFunc
<1>11. CASE func \notin PeerFunc \cup {"set_bgp_id", "toggle_update_dump", "proto_bgp_neighbor"}
  BY <1>1, <1>11 DEF AliasFunc, PeerFunc
<1> QED BY <1>3, <1>4, <1>5, <1>6, <1>7, <1>8, <1>9, <1>10, <1>11 DEF PeerFunc

LEMMA RunKeeps ==
  ASSUME NEW t, ConfigInv(t), NEW func, NEW tokens, NEW u, u = Run(t, func, tokens)
  PROVE  ConfigInv(u) /\ (func # "set_peer_logging" => u.udp_map = t.udp_map)
<1>1. t = [x \in TableField |-> t[x]] /\ ~t.wild /\ IsList(t.thread_q)
      /\ \A j \in 1..Len(t.thread_q) : PeerOK(t.thread_q[j])
  BY ConfigIs
<1> DEFINE i == get_peer_by_str_ip(t, Token(tokens, 1))
<1>2. i # None => i \in 1..Len(t.thread_q)
  BY <1>1, PeerFound
<1> HIDE DEF i
<1>3. CASE u = t
  BY <1>3
<1>4. CASE u = [t EXCEPT !.bgp_id = Aton(Token(tokens, 1))]
  <2>1. u = [x \in TableField |-> u[x]] /\ u.thread_q = t.thread_q /\ ~u.wild
        /\ u.udp_map = t.udp_map
    BY <1>1, <1>4 DEF TableField
  <2> QED BY <2>1, PeersKept
<1>5. CASE u = toggle_update_dump(t, tokens)
  <2>1. PICK d : u = [t EXCEPT !.dumper = d]
    BY <1>5 DEF toggle_update_dump
  <2>2. u = [x \in TableField |-> u[x]] /\ u.thread_q = t.thread_q /\ ~u.wild
        /\ u.udp_map = t.udp_map
    BY <1>1, <2>1 DEF TableField
  <2> QED BY <2>2, PeersKept
<1>6. CASE u = proto_bgp_neighbor(t, tokens)
  <2>1. u = t \/ \E ip, as : u = [t EXCEPT !.thread_q = Append(t.thread_q, NewPeer(ip, as))]
    BY <1>6 DEF proto_bgp_neighbor
  <2>2. ASSUME NEW ip, NEW as, u = [t EXCEPT !.thread_q = Append(t.thread_q, NewPeer(ip, as))]
        PROVE  ConfigInv(u) /\ u.udp_map = t.udp_map
    <3>1. PeerOK(NewPeer(ip, as))
      <4> DEFINE q == NewPeer(ip, as)
      <4>1. q = [x \in PeerField |-> q[x]] /\ q.aliases = <<>> /\ q.bgp_id = 0
        BY DEF NewPeer, PeerField
      <4> HIDE DEF q
      <4>2. IsList(<<>>) /\ Unique(<<>>) /\ Coded(<<>>)
        BY DEF IsList, Unique, Coded
      <4>3. PeerOK(q)
        BY <4>1, <4>2 DEF PeerOK
      <4> QED BY <4>3 DEF q
    <3>2. u = [x \in TableField |-> u[x]] /\ u.thread_q = Append(t.thread_q, NewPeer(ip, as))
          /\ ~u.wild /\ u.udp_map = t.udp_map
      BY <1>1, <2>2 DEF TableField
    <3> QED BY <3>1, <3>2, PeerAdded
  <2> QED BY <2>1, <2>2
<1>7. CASE i # None /\ \E code \in DOMAIN Code : \E value, name :
                          u = set_translation(t, i, code, value, name)
  BY <1>2, <1>7, TranslationKeeps
<1>8. CASE func = "set_peer_logging" /\ i # None /\ u = set_peer_logging(t, i, tokens)
  <2>1. u = t \/ \E m : u = [t EXCEPT !.udp_map = m]
    BY <1>8 DEF set_peer_logging
  <2>2. u = [x \in TableField |-> u[x]] /\ u.thread_q = t.thread_q /\ ~u.wild
    BY <1>1, <2>1 DEF TableField
  <2> QED BY <1>8, <2>2, PeersKept
<1>9. CASE i # None /\ \E b : \/ u = [t EXCEPT !.thread_q[i].rx = b]
                             \/ u = [t EXCEPT !.thread_q[i].tx = b]
  <2> DEFINE q == t.thread_q[i]
  <2>0. i \in 1..Len(t.thread_q) /\ PeerOK(q)
    BY <1>1, <1>2, <1>9
  <2>1. PICK b : \/ u = [t EXCEPT !.thread_q = [t.thread_q EXCEPT ![i] = [q EXCEPT !.rx = b]]]
                 \/ u = [t EXCEPT !.thread_q = [t.thread_q EXCEPT ![i] = [q EXCEPT !.tx = b]]]
    BY <1>1, <1>9, <2>0 DEF TableField, IsList
  <2>2. PeerOK([q EXCEPT !.rx = b]) /\ PeerOK([q EXCEPT !.tx = b])
    <3> HIDE DEF q
    <3> QED BY <2>0 DEF PeerOK, PeerField
  <2>3. PICK r : PeerOK(r) /\ u = [t EXCEPT !.thread_q = [t.thread_q EXCEPT ![i] = r]]
    BY <2>1, <2>2
  <2>4. u = [x \in TableField |-> u[x]] /\ ~u.wild /\ u.udp_map = t.udp_map
        /\ u.thread_q = [t.thread_q EXCEPT ![i] = r]
    BY <1>1, <2>3 DEF TableField
  <2> QED BY <2>0, <2>3, <2>4, PeerChanges
<1>10. \/ u = t \/ u = [t EXCEPT !.bgp_id = Aton(Token(tokens, 1))]
       \/ u = toggle_update_dump(t, tokens) \/ u = proto_bgp_neighbor(t, tokens)
       \/ i # None /\ \E code \in DOMAIN Code : \E value, name :
                        u = set_translation(t, i, code, value, name)
       \/ func = "set_peer_logging" /\ i # None /\ u = set_peer_logging(t, i, tokens)
       \/ i # None /\ \E b : \/ u = [t EXCEPT !.thread_q[i].rx = b]
                             \/ u = [t EXCEPT !.thread_q[i].tx = b]
  <2> DEFINE a == AliasSet(t, func, i, tokens)
             c == a.code
             v == a.value
             n == a.name
  <2>1. set_translation(t, i, c, v, n) = set_translation(t, i, a.code, a.value, a.name)
    OBVIOUS
  <2>2. func \in AliasFunc => c \in DOMAIN Code
    BY AliasCoded
  <2> HIDE DEF a, c, v, n
  <2> QED BY <2>1, <2>2, RunIs DEF i, a
<1> QED BY <1>3, <1>4, <1>5, <1>6, <1>7, <1>8, <1>9, <1>10

-----------------------------------------------------------------------------
(* The configuration of the instances.                                     *)

TableInv == \A p \in Instance : ConfigInv(table[p])

\* A configuration of an instance changes only when a command runs, when an OPEN
\* comes and when the process ends.
TableKept == UNCHANGED <<table, aliased, logged>>

LEMMA NoTableIs == ConfigInv(NoTable)
<1> DEFINE t == NoTable
<1>1. t = [x \in TableField |-> t[x]] /\ ~t.wild /\ t.thread_q = <<>>
  BY DEF NoTable, TableField
<1>2. IsList(<<>>) /\ Len(<<>>) = 0
  BY DEF IsList
<1> HIDE DEF t
<1>3. ConfigInv(t)
  BY <1>1, <1>2, ConfigIs
<1> QED BY <1>3 DEF t

LEMMA TableInit == Init => TableInv
<1> SUFFICES ASSUME Init, NEW p \in Instance PROVE ConfigInv(table[p])
  BY DEF TableInv
<1>1. table[p] = NoTable \/ table[p] \in InitTable
  BY DEF Init
<1> QED BY <1>1, NoTableIs, InitTableAssumption DEF ConfigInv

LEMMA NextIs ==
  ASSUME TypeInv, [Next]_vars
  PROVE  \/ TableKept
         \/ \E p \in Instance : Gone(p)
         \/ \E p \in Instance : \E i \in 1..MaxLines + 2 : Open(p, i)
         \/ \E c \in Conn : Execute(c)
<1>1. CASE UNCHANGED vars
  BY <1>1 DEF vars, configVars, TableKept
<1>2. ASSUME NEW p \in Instance, Process(p)
      PROVE  TableKept \/ Gone(p) \/ \E i \in 1..MaxLines + 2 : Open(p, i)
  BY <1>2 DEF Process, Lock, Daemon, BindCli, BindApi, ListenCli, ListenApi, Exit, AcceptFails,
              serviceVars, configVars, TableKept
<1>3. ASSUME NEW c \in Conn, Serve(c)
      PROVE  TableKept \/ Execute(c) \/ \E p \in Instance : Gone(p)
  <2>1. CASE ReadFaults(c) \/ FindNull(c) \/ ExecuteFaults(c)
    <3>1. Connected(conn[c])
      BY <2>1, Somewhere DEF ReadFaults, FindNull, ExecuteFaults
    <3>2. conn[c].of \in Instance /\ Gone(conn[c].of)
      BY <2>1, <3>1 DEF ReadFaults, FindNull, ExecuteFaults, Connected
    <3> QED BY <3>2
  <2> QED BY <1>3, <2>1 DEF Serve, Accept, ReadLine, Stopped, Eof, FindClear, FindRoot,
             FindSub, Answer, CloseTx, CloseAgain, otherVars, configVars, TableKept
<1> QED BY <1>1, <1>2, <1>3 DEF Next

\* The identifier of an OPEN.
LEMMA OpenKeeps ==
  ASSUME TypeInv, TableInv, NEW p \in Instance, NEW i \in 1..MaxLines + 2, Open(p, i)
  PROVE  /\ ConfigInv(table'[p]) /\ table'[p].udp_map = table[p].udp_map
         /\ \A q \in Instance \ {p} : table'[q] = table[q]
<1> DEFINE t == table[p]
           peer == t.thread_q[i]
           r == [peer EXCEPT !.bgp_id = RouterId[peer.p_ip]]
<1>1. t = [x \in TableField |-> t[x]] /\ ~t.wild /\ IsList(t.thread_q)
      /\ \A j \in 1..Len(t.thread_q) : PeerOK(t.thread_q[j])
  BY ConfigIs DEF TableInv
<1>2. i \in 1..Len(t.thread_q) /\ peer.p_ip \in DOMAIN RouterId
  BY <1>1, SMTT(30) DEF Open, IsList
<1>3. PeerOK(r)
  <2>1. PeerOK(peer)
    BY <1>1, <1>2
  <2> HIDE DEF peer
  <2> QED BY <1>2, <2>1 DEF PeerOK, PeerField
<1>4. table' = [table EXCEPT ![p].thread_q[i].bgp_id = RouterId[peer.p_ip]]
  BY DEF Open
<1>5. /\ table'[p] = [t EXCEPT !.thread_q = [t.thread_q EXCEPT ![i] = r]]
      /\ \A q \in Instance \ {p} : table'[q] = table[q]
  BY <1>1, <1>2, <1>4 DEF TypeInv, PerInstance, TableField, IsList
<1> DEFINE u == table'[p]
<1>6. /\ u = [x \in TableField |-> u[x]] /\ u.udp_map = t.udp_map /\ ~u.wild
      /\ u.thread_q = [t.thread_q EXCEPT ![i] = r]
  <2> HIDE DEF r, t
  <2> QED BY <1>1, <1>5 DEF TableField
<1>7. ConfigInv(t)
  BY DEF TableInv
<1> HIDE DEF r, t, u
<1>8. ConfigInv(u)
  BY <1>2, <1>3, <1>6, <1>7, PeerChanges
<1> QED BY <1>5, <1>6, <1>8 DEF u, t

LEMMA TableStep == TypeInv /\ TableInv /\ [Next]_vars => TableInv'
<1> SUFFICES ASSUME TypeInv, TableInv, [Next]_vars PROVE TableInv'
  OBVIOUS
<1>1. CASE TableKept
  BY <1>1 DEF TableInv, TableKept
<1>2. ASSUME NEW p \in Instance, Gone(p) PROVE TableInv'
  <2>1. table'[p] = NoTable /\ \A q \in Instance \ {p} : table'[q] = table[q]
    BY <1>2 DEF Gone, TypeInv, PerInstance
  <2> QED BY <2>1, NoTableIs DEF TableInv
<1>3. ASSUME NEW p \in Instance, NEW i \in 1..MaxLines + 2, Open(p, i) PROVE TableInv'
  BY <1>3, OpenKeeps DEF TableInv
<1>4. ASSUME NEW c \in Conn, Execute(c) PROVE TableInv'
  <2>1. conn[c].of \in Instance
    BY <1>4, Somewhere DEF Execute, Connected
  <2>2. PICK func : table'
               = [table EXCEPT ![conn[c].of] = Run(table[conn[c].of], func, conn[c].tokens)]
    BY <1>4, <2>1 DEF Execute, TypeInv, PerInstance
  <2>3. /\ table'[conn[c].of] = Run(table[conn[c].of], func, conn[c].tokens)
        /\ \A q \in Instance \ {conn[c].of} : table'[q] = table[q]
    BY <2>1, <2>2 DEF TypeInv, PerInstance
  <2>4. ConfigInv(table'[conn[c].of])
    BY <2>1, <2>3, RunKeeps DEF TableInv
  <2> QED BY <2>3, <2>4 DEF TableInv
<1> QED BY <1>1, <1>2, <1>3, <1>4, NextIs

\* set_translation: in every configuration that commands and sessions lead to, a value
\* of a neighbour has one alias, and the loop that erases while it counts never erases
\* behind the end.
THEOREM ConsoleAliases == Spec => []OneAliasPerValue
<1>1. TableInv => OneAliasPerValue
  BY DEF TableInv, ConfigInv, OneAliasPerValue
<1> QED BY <1>1, TypeInit, TypeStep, TableInit, TableStep, PTL DEF Spec

-----------------------------------------------------------------------------
(* The log's destinations.                                                 *)

\* A destination set before the OPEN, or under the neighbour's own identifier, where
\* no other neighbour's can have replaced it.
LogsTo(t, ip, to) ==
    \/ to.id = 0
    \/ /\ ip \in DOMAIN RouterId /\ to.id = RouterId[ip]
       /\ to.host \in DOMAIN Address /\ Address[to.host] # 0 =>
            to.id \in DOMAIN t.udp_map
            /\ t.udp_map[to.id] = [host |-> to.host, port |-> Htons(to.port)]

LogInv == \A p \in Instance : \A ip \in DOMAIN logged[p] : LogsTo(table[p], ip, logged[p][ip])

\* A destination is set.
LEMMA LogSet ==
  ASSUME NEW t, ConfigInv(t), NEW tokens, NEW i, NEW ip, ip = Token(tokens, 1),
         i = get_peer_by_str_ip(t, ip), i # None,
         NEW u, u = set_peer_logging(t, i, tokens),
         NEW to, to = [host |-> Token(tokens, 4), port |-> Number(Token(tokens, 5)),
                       id |-> t.thread_q[i].bgp_id]
  PROVE  /\ LogsTo(u, ip, to)
         /\ \A ip2, to2 : ip2 # ip /\ LogsTo(t, ip2, to2) => LogsTo(u, ip2, to2)
<1>1. t = [x \in TableField |-> t[x]] /\ IsList(t.thread_q)
      /\ \A j \in 1..Len(t.thread_q) : PeerOK(t.thread_q[j])
  BY ConfigIs
<1> DEFINE id == t.thread_q[i].bgp_id
<1>2. id = 0 \/ (ip \in DOMAIN RouterId /\ id = RouterId[ip])
  <2>1. i \in 1..Len(t.thread_q) /\ t.thread_q[i].p_ip = ip
    BY <1>1, PeerFound
  <2>2. PeerOK(t.thread_q[i])
    BY <1>1, <2>1
  <2> QED BY <2>1, <2>2 DEF PeerOK
<1>3. to.id = id /\ to.host = Token(tokens, 4) /\ to.port = Number(Token(tokens, 5))
  OBVIOUS
<1>4. CASE Aton(Token(tokens, 4)) = 0
  <2>1. u = t
    BY <1>4 DEF set_peer_logging
  <2>2. ~(to.host \in DOMAIN Address /\ Address[to.host] # 0)
    BY <1>3, <1>4 DEF Aton
  <2>3. LogsTo(u, ip, to)
    <3> HIDE DEF id
    <3> QED BY <1>2, <1>3, <2>2 DEF LogsTo
  <2> QED BY <2>1, <2>3
<1>5. CASE Aton(Token(tokens, 4)) # 0
  <2> DEFINE dest == Logging(tokens)
  <2>1. u = [t EXCEPT !.udp_map = Put(t.udp_map, id, dest)]
    BY <1>1, <1>5 DEF set_peer_logging, TableField
  <2>2. dest = [host |-> to.host, port |-> Htons(to.port)]
    BY <1>3 DEF Logging
  <2> HIDE DEF id, dest
  <2>3. u.udp_map = Put(t.udp_map, id, dest)
    BY <1>1, <2>1 DEF TableField
  <2>4. /\ DOMAIN u.udp_map = {id} \cup DOMAIN t.udp_map /\ u.udp_map[id] = dest
        /\ \A x \in DOMAIN t.udp_map : x # id => u.udp_map[x] = t.udp_map[x]
    BY <2>3 DEF Put
  <2>5. LogsTo(u, ip, to)
    BY <1>2, <1>3, <2>2, <2>4 DEF LogsTo
  <2>6. ASSUME NEW ip2, NEW to2, ip2 # ip, LogsTo(t, ip2, to2) PROVE LogsTo(u, ip2, to2)
    <3>1. CASE to2.id = 0
      BY <3>1 DEF LogsTo
    <3>2. CASE to2.id # 0
      <4>1. ip2 \in DOMAIN RouterId /\ to2.id = RouterId[ip2] /\ to2.id # id
        BY <1>2, <2>6, <3>2, RouterIdAssumption DEF LogsTo
      <4> QED BY <2>4, <2>6, <3>2, <4>1 DEF LogsTo
    <3> QED BY <3>1, <3>2
  <2> QED BY <2>5, <2>6
<1> QED BY <1>4, <1>5

LEMMA LogExecute ==
  ASSUME TypeInv, TableInv, LogInv, NEW c \in Conn, Execute(c)
  PROVE  LogInv'
<1> DEFINE p == conn[c].of
           tokens == conn[c].tokens
           t == table[p]
           ip == Token(tokens, 1)
           i == get_peer_by_str_ip(t, ip)
           func == IF conn[c].command = Null THEN "invalid" ELSE Function(conn[c].command)
           to == [host |-> Token(tokens, 4), port |-> Number(Token(tokens, 5)),
                  id |-> t.thread_q[i].bgp_id]
<1>1. p \in Instance /\ ConfigInv(t)
  BY Somewhere DEF Execute, Connected, TableInv
<1>2. /\ table' = [table EXCEPT ![p] = Run(t, func, tokens)]
      /\ logged' = IF func = "set_peer_logging" /\ i # None
                   THEN [logged EXCEPT ![p] = Put(logged[p], ip, to)] ELSE logged
  BY <1>1 DEF Execute, Noted, TypeInv, PerInstance
<1> HIDE DEF func, p, tokens, i, to
<1>3. /\ table'[p] = Run(t, func, tokens)
      /\ \A q \in Instance \ {p} : table'[q] = table[q] /\ logged'[q] = logged[q]
  BY <1>1, <1>2 DEF TypeInv, PerInstance
<1>4. \A x \in DOMAIN logged[p] : LogsTo(t, x, logged[p][x])
  BY <1>1 DEF LogInv
<1> DEFINE u == table'[p]
           Holds == \A x \in DOMAIN logged'[p] : LogsTo(u, x, logged'[p][x])
<1>5. CASE func # "set_peer_logging"
  <2>1. u.udp_map = t.udp_map
    BY <1>1, <1>3, <1>5, RunKeeps
  <2>2. logged' = logged
    BY <1>2, <1>5
  <2> QED BY <1>3, <1>4, <2>1, <2>2 DEF LogInv, LogsTo
<1>6. CASE func = "set_peer_logging" /\ i = None
  <2>1. Run(t, func, tokens) = t
    BY <1>6 DEF Run, PeerFunc, AliasFunc, i
  <2>2. logged' = logged
    BY <1>2, <1>6
  <2> QED BY <1>3, <1>4, <2>1, <2>2 DEF LogInv
<1>7. CASE func = "set_peer_logging" /\ i # None
  <2>1. u = set_peer_logging(t, i, tokens)
    BY <1>3, <1>7 DEF Run, PeerFunc, AliasFunc, i
  <2>2. logged'[p] = Put(logged[p], ip, to)
    BY <1>1, <1>2, <1>7 DEF TypeInv, PerInstance
  <2>3. /\ LogsTo(u, ip, to)
        /\ \A ip2, to2 : ip2 # ip /\ LogsTo(t, ip2, to2) => LogsTo(u, ip2, to2)
    BY <1>1, <1>7, <2>1, LogSet DEF i, to
  <2> HIDE DEF ip, u, t
  <2>4. /\ DOMAIN logged'[p] = {ip} \cup DOMAIN logged[p] /\ logged'[p][ip] = to
        /\ \A x \in DOMAIN logged[p] : x # ip => logged'[p][x] = logged[p][x]
    BY <2>2 DEF Put
  <2>5. Holds
    BY <1>4, <2>3, <2>4
  <2> QED BY <1>3, <2>5 DEF LogInv, u
<1> QED BY <1>5, <1>6, <1>7

LEMMA LogStep == TypeInv /\ TableInv /\ LogInv /\ [Next]_vars => LogInv'
<1> SUFFICES ASSUME TypeInv, TableInv, LogInv, [Next]_vars PROVE LogInv'
  OBVIOUS
<1>1. CASE TableKept
  BY <1>1 DEF LogInv, TableKept
<1>2. ASSUME NEW p \in Instance, Gone(p) PROVE LogInv'
  <2>1. logged'[p] = <<>> /\ \A q \in Instance \ {p} : table'[q] = table[q]
          /\ logged'[q] = logged[q]
    BY <1>2 DEF Gone, TypeInv, PerInstance
  <2> QED BY <2>1 DEF LogInv
<1>3. ASSUME NEW p \in Instance, NEW i \in 1..MaxLines + 2, Open(p, i) PROVE LogInv'
  <2>1. logged' = logged /\ \A q \in Instance : table'[q].udp_map = table[q].udp_map
    BY <1>3, OpenKeeps DEF Open
  <2> QED BY <2>1 DEF LogInv, LogsTo
<1> QED BY <1>1, <1>2, <1>3, LogExecute, NextIs

\* The log of a neighbour's routes goes to the host last configured for it, if that is
\* an address other than 0.0.0.0, and to the port if its two bytes are equal, unless
\* that was done before its OPEN: no other neighbour's destination takes its place.
THEOREM ConsoleLogs == Spec => []LogsGoWhereConfigured
<1>1. Init => LogInv
  BY DEF Init, LogInv
<1>2. LogInv => LogsGoWhereConfigured
  <2> SUFFICES ASSUME LogInv, NEW p \in Instance, NEW ip \in DOMAIN logged[p], NEW to, NEW t,
                      NEW id,
                      to = logged[p][ip], t = table[p], to.id = id, id # 0,
                      to.host \in DOMAIN Address, Address[to.host] # 0
               PROVE  /\ Destination(t, id).host = to.host
                      /\ Htons(to.port) = to.port => Destination(t, id).port = to.port
    BY DEF LogsGoWhereConfigured
  <2>1. id \in DOMAIN t.udp_map /\ t.udp_map[id] = [host |-> to.host, port |-> Htons(to.port)]
    BY DEF LogInv, LogsTo
  <2>2. Destination(t, id) = t.udp_map[id]
    BY <2>1 DEF Destination
  <2> QED BY <2>1, <2>2
<1> QED BY <1>1, <1>2, TypeInit, TypeStep, TableInit, TableStep, LogStep, PTL DEF Spec

-----------------------------------------------------------------------------
(* The aliases that were set.                                              *)

\* The neighbour at ip is in the table once, at j.
OnlyAt(t, ip, j) ==
    /\ j \in 1..Len(t.thread_q) /\ t.thread_q[j].p_ip = ip
    /\ \A m \in 1..Len(t.thread_q) : t.thread_q[m].p_ip = ip => m = j

\* The only alias of an identifier.
SoleId(l, a) == a.code = "bgp_id" /\ \A b \in Items(l) : b.code = "bgp_id" => b = a

\* The list has the alias that is remembered under k; of an identifier's only if it
\* has no other.
AliasIn(l, k, name) ==
    /\ k[2] # "bgp_id" => \E a \in Items(l) : a.code = k[2] /\ a.value = k[3] /\ a.name = name
    /\ k[2] = "bgp_id" => \A a \in Items(l) : SoleId(l, a) => a.name = name

IsKey(k) == k = <<k[1], k[2], k[3]>> /\ (k[2] = "bgp_id" => k[3] = 0)

AliasHeld(t, k, name) ==
    /\ IsKey(k)
    /\ \E j \in 1..Len(t.thread_q) : t.thread_q[j].p_ip = k[1]
    /\ \A j : OnlyAt(t, k[1], j) => AliasIn(t.thread_q[j].aliases, k, name)

AliasInv ==
    \A p \in Instance :
        /\ AliasingIsKnown(table[p])
        /\ \A k \in DOMAIN aliased[p] : AliasHeld(table[p], k, aliased[p][k])

\* What the neighbours' aliases say in t they say in u.
StillHeld(t, u) ==
    /\ AliasingIsKnown(t) => AliasingIsKnown(u)
    /\ \A k, name : AliasHeld(t, k, name) => AliasHeld(u, k, name)

\* A neighbour changes in nothing that has to do with its aliases.
AliasesStay(q, r) == r.p_ip = q.p_ip /\ r.aliases = q.aliases /\ r.aliasing = q.aliasing

SameAliases(t, u) ==
    /\ Len(u.thread_q) = Len(t.thread_q)
    /\ \A j \in 1..Len(t.thread_q) : AliasesStay(t.thread_q[j], u.thread_q[j])

LEMMA SameHeld ==
  ASSUME NEW t, NEW u, SameAliases(t, u)
  PROVE  StillHeld(t, u)
<1>1. AliasingIsKnown(t) => AliasingIsKnown(u)
  BY DEF SameAliases, AliasesStay, AliasingIsKnown
<1>2. ASSUME NEW k, NEW name, AliasHeld(t, k, name) PROVE AliasHeld(u, k, name)
  <2>1. ASSUME NEW j, OnlyAt(u, k[1], j) PROVE AliasIn(u.thread_q[j].aliases, k, name)
    <3>1. OnlyAt(t, k[1], j) /\ u.thread_q[j].aliases = t.thread_q[j].aliases
      BY <2>1 DEF SameAliases, AliasesStay, OnlyAt
    <3> QED BY <1>2, <3>1 DEF AliasHeld
  <2> QED BY <1>2, <2>1 DEF AliasHeld, SameAliases, AliasesStay
<1> QED BY <1>1, <1>2 DEF StillHeld

LEMMA OtherFieldHeld ==
  ASSUME NEW t, ConfigInv(t), NEW i \in 1..Len(t.thread_q), NEW r,
         AliasesStay(t.thread_q[i], r), NEW u, u.thread_q = [t.thread_q EXCEPT ![i] = r]
  PROVE  StillHeld(t, u)
<1> DEFINE v == u.thread_q
<1>1. /\ Len(v) = Len(t.thread_q)
      /\ v[i] = r /\ \A j \in 1..Len(t.thread_q) : j # i => v[j] = t.thread_q[j]
  BY ListExcept, ConfigIs
<1> HIDE DEF v
<1>2. SameAliases(t, u)
  BY <1>1 DEF SameAliases, AliasesStay, v
<1> QED BY <1>2, SameHeld

\* A new neighbour has no alias, and does not take the place of one in the table.
LEMMA AddedHeld ==
  ASSUME NEW t, ConfigInv(t), NEW q, q.aliases = <<>>,
         NEW u, u.thread_q = Append(t.thread_q, q)
  PROVE  StillHeld(t, u)
<1> DEFINE l == t.thread_q
           v == u.thread_q
<1>0. IsList(l)
  BY ConfigIs
<1> HIDE DEF l
<1>1. /\ Len(v) = Len(l) + 1 /\ v[Len(l) + 1] = q /\ \A j \in 1..Len(l) : v[j] = l[j]
  BY <1>0, ListAppend DEF l
<1>2. Len(l) \in Nat
  BY <1>0 DEF IsList
<1> HIDE DEF v
<1>3. \A j \in 1..Len(v) : j \in 1..Len(l) \/ j = Len(l) + 1
  BY <1>1, <1>2
<1>4. \A j \in 1..Len(l) : j \in 1..Len(v) /\ j # Len(l) + 1
  BY <1>1, <1>2
<1>5. Len(l) + 1 \in 1..Len(v)
  BY <1>1, <1>2
<1>6. AliasingIsKnown(t) => AliasingIsKnown(u)
  BY <1>1, <1>3 DEF AliasingIsKnown, l, v
<1>7. ASSUME NEW k, NEW name, AliasHeld(t, k, name) PROVE AliasHeld(u, k, name)
  <2>1. PICK n \in 1..Len(l) : l[n].p_ip = k[1]
    BY <1>7 DEF AliasHeld, l
  <2>2. n \in 1..Len(v) /\ v[n].p_ip = k[1]
    BY <1>1, <1>4, <2>1
  <2>3. ASSUME NEW j, OnlyAt(u, k[1], j) PROVE AliasIn(v[j].aliases, k, name)
    <3>1. j = n
      BY <2>2, <2>3 DEF OnlyAt, v
    <3>2. OnlyAt(t, k[1], j)
      BY <1>1, <1>4, <2>1, <2>3, <3>1 DEF OnlyAt, l, v
    <3>3. v[j] = l[j]
      BY <1>1, <2>1, <3>1
    <3> QED BY <1>7, <3>2, <3>3 DEF AliasHeld, l
  <2> QED BY <1>7, <2>2, <2>3 DEF AliasHeld, v
<1> QED BY <1>6, <1>7 DEF StillHeld

\* An alias is set: it is in the list, and so are those of other values.
LEMMA AliasInNew ==
  ASSUME NEW l, NEW old, NEW a, Translated(l, old, a), NEW ip,
         NEW key, key = AliasKey(ip, a.code, a.value)
  PROVE  /\ AliasIn(l, key, a.name)
         /\ \A k, name : k[1] = ip /\ k # key /\ IsKey(k) /\ AliasIn(old, k, name)
                            => AliasIn(l, k, name)
<1>0. Items(l) = Others(old, a.code, a.value) \cup {a}
  BY DEF Translated
<1>1. key[1] = ip /\ key[2] = a.code /\ (a.code # "bgp_id" => key[3] = a.value)
      /\ (a.code = "bgp_id" => key[3] = 0)
  BY DEF AliasKey
<1>2. AliasIn(l, key, a.name)
  BY <1>0, <1>1 DEF AliasIn, SoleId
<1>3. ASSUME NEW k, NEW name, k[1] = ip, k # key, IsKey(k), AliasIn(old, k, name)
      PROVE  AliasIn(l, k, name)
  <2>1. CASE k[2] = "bgp_id"
    <3>1. a.code # "bgp_id"
      <4> SUFFICES ASSUME a.code = "bgp_id" PROVE FALSE
        OBVIOUS
      <4>1. k = <<ip, "bgp_id", 0>>
        BY <1>3, <2>1 DEF IsKey
      <4> QED BY <1>3, <4>1 DEF AliasKey
    <3>2. \A b : b.code = "bgp_id" => (b \in Items(l) <=> b \in Items(old))
      BY <1>0, <3>1 DEF Others, Matches
    <3>3. \A b \in Items(l) : SoleId(l, b) => b \in Items(old) /\ SoleId(old, b)
      BY <3>2 DEF SoleId
    <3> QED BY <1>3, <2>1, <3>3 DEF AliasIn
  <2>2. CASE k[2] # "bgp_id"
    <3>1. PICK b \in Items(old) : b.code = k[2] /\ b.value = k[3] /\ b.name = name
      BY <1>3, <2>2 DEF AliasIn
    <3>2. ~Matches(b, a.code, a.value)
      <4> SUFFICES ASSUME Matches(b, a.code, a.value) PROVE FALSE
        OBVIOUS
      <4>1. k = <<ip, a.code, a.value>> /\ a.code # "bgp_id"
        BY <1>3, <2>2, <3>1 DEF IsKey, Matches
      <4> QED BY <1>3, <4>1 DEF AliasKey
    <3>3. b \in Items(l)
      BY <1>0, <3>1, <3>2 DEF Others
    <3> QED BY <2>2, <3>1, <3>3 DEF AliasIn
  <2> QED BY <2>1, <2>2
<1> QED BY <1>2, <1>3

LEMMA TranslatedHeld ==
  ASSUME NEW t, ConfigInv(t), NEW i \in 1..Len(t.thread_q), NEW a, NEW l,
         Translated(l, t.thread_q[i].aliases, a), NEW u, u = With(t, i, l),
         NEW ip, ip = t.thread_q[i].p_ip, NEW key, key = AliasKey(ip, a.code, a.value)
  PROVE  /\ AliasingIsKnown(t) => AliasingIsKnown(u)
         /\ AliasHeld(u, key, a.name)
         /\ \A k, name : k # key /\ AliasHeld(t, k, name) => AliasHeld(u, k, name)
<1> DEFINE v == u.thread_q
           s == t.thread_q
           q == s[i]
           r == [q EXCEPT !.aliases = l, !.aliasing = TRUE]
           old == q.aliases
<1>1. t = [x \in TableField |-> t[x]] /\ IsList(s) /\ PeerOK(q)
  BY ConfigIs
<1>2. v = [s EXCEPT ![i] = r]
  BY <1>1 DEF With, TableField
<1>3. r.aliases = l /\ r.aliasing = TRUE /\ r.p_ip = q.p_ip
  <2> HIDE DEF q
  <2> QED BY <1>1 DEF PeerOK, PeerField
<1>4. Translated(l, old, a) /\ ip = q.p_ip
  OBVIOUS
<1> HIDE DEF r, q, old
<1>5. Len(v) = Len(s) /\ v[i] = r /\ \A j \in 1..Len(s) : j # i => v[j] = s[j]
  <2> HIDE DEF v, s
  <2> QED BY <1>1, <1>2, ListExcept DEF s
<1>6. i \in 1..Len(s) /\ s[i] = q /\ q.aliases = old
  BY DEF q, old
<1> HIDE DEF s, v
<1>7. \A j \in 1..Len(s) : v[j].p_ip = s[j].p_ip
  BY <1>3, <1>5, <1>6
<1>8. \A x, j : OnlyAt(u, x, j) => OnlyAt(t, x, j)
  BY <1>5, <1>7 DEF OnlyAt, s, v
<1>9. /\ AliasIn(l, key, a.name)
      /\ \A k, name : k[1] = ip /\ k # key /\ IsKey(k) /\ AliasIn(old, k, name)
                         => AliasIn(l, k, name)
  BY <1>4, AliasInNew
<1>10. AliasingIsKnown(t) => AliasingIsKnown(u)
  BY <1>3, <1>5 DEF AliasingIsKnown, s, v
<1>11. AliasHeld(u, key, a.name)
  <2>1. IsKey(key) /\ key[1] = ip
    BY DEF AliasKey, IsKey
  <2>2. v[i].p_ip = ip /\ i \in 1..Len(v)
    BY <1>4, <1>5, <1>6, <1>7
  <2>3. ASSUME NEW j, OnlyAt(u, key[1], j) PROVE AliasIn(v[j].aliases, key, a.name)
    <3>1. j = i
      BY <2>1, <2>2, <2>3 DEF OnlyAt, v
    <3> QED BY <1>3, <1>5, <1>9, <3>1
  <2> QED BY <2>1, <2>2, <2>3 DEF AliasHeld, v
<1>12. ASSUME NEW k, NEW name, k # key, AliasHeld(t, k, name) PROVE AliasHeld(u, k, name)
  <2>1. IsKey(k) /\ \E j \in 1..Len(s) : s[j].p_ip = k[1]
    BY <1>12 DEF AliasHeld, s
  <2>2. \E j \in 1..Len(v) : v[j].p_ip = k[1]
    BY <1>5, <1>7, <2>1
  <2>3. ASSUME NEW j, OnlyAt(u, k[1], j) PROVE AliasIn(v[j].aliases, k, name)
    <3>1. OnlyAt(t, k[1], j) /\ j \in 1..Len(s) /\ s[j].p_ip = k[1]
      BY <1>8, <2>3 DEF OnlyAt, s
    <3>2. AliasIn(s[j].aliases, k, name)
      BY <1>12, <3>1 DEF AliasHeld, s
    <3>3. CASE j = i
      BY <1>3, <1>4, <1>5, <1>6, <1>9, <1>12, <2>1, <3>1, <3>2, <3>3
    <3>4. CASE j # i
      BY <1>5, <3>1, <3>2, <3>4
    <3> QED BY <3>3, <3>4
  <2> QED BY <2>1, <2>2, <2>3 DEF AliasHeld, v
<1> QED BY <1>10, <1>11, <1>12

\* The functions that set no alias.
LEMMA RunHeld ==
  ASSUME NEW t, ConfigInv(t), NEW func, func \notin AliasFunc, NEW tokens,
         NEW u, u = Run(t, func, tokens)
  PROVE  StillHeld(t, u)
<1>1. t = [x \in TableField |-> t[x]] /\ IsList(t.thread_q)
      /\ \A j \in 1..Len(t.thread_q) : PeerOK(t.thread_q[j])
  BY ConfigIs
<1> DEFINE i == get_peer_by_str_ip(t, Token(tokens, 1))
<1>2. i # None => i \in 1..Len(t.thread_q)
  BY <1>1, PeerFound
<1> HIDE DEF i
<1>3. ASSUME u.thread_q = t.thread_q PROVE StillHeld(t, u)
  BY <1>3, SameHeld DEF SameAliases, AliasesStay
<1>4. CASE u = t
  BY <1>3, <1>4
<1>5. CASE u = [t EXCEPT !.bgp_id = Aton(Token(tokens, 1))]
  <2>1. u.thread_q = t.thread_q
    BY <1>1, <1>5 DEF TableField
  <2> QED BY <1>3, <2>1
<1>6. CASE u = toggle_update_dump(t, tokens)
  <2>1. PICK d : u = [t EXCEPT !.dumper = d]
    BY <1>6 DEF toggle_update_dump
  <2>2. u.thread_q = t.thread_q
    BY <1>1, <2>1 DEF TableField
  <2> QED BY <1>3, <2>2
<1>7. CASE u = proto_bgp_neighbor(t, tokens)
  <2>1. u = t \/ \E ip, as : u = [t EXCEPT !.thread_q = Append(t.thread_q, NewPeer(ip, as))]
    BY <1>7 DEF proto_bgp_neighbor
  <2>2. ASSUME NEW ip, NEW as, u = [t EXCEPT !.thread_q = Append(t.thread_q, NewPeer(ip, as))]
        PROVE  StillHeld(t, u)
    <3>1. u.thread_q = Append(t.thread_q, NewPeer(ip, as))
      BY <1>1, <2>2 DEF TableField
    <3>2. NewPeer(ip, as).aliases = <<>>
      BY DEF NewPeer
    <3> QED BY <3>1, <3>2, AddedHeld
  <2> QED BY <1>4, <2>1, <2>2
<1>8. CASE u = set_peer_logging(t, i, tokens)
  <2>1. u = t \/ \E m : u = [t EXCEPT !.udp_map = m]
    BY <1>8 DEF set_peer_logging
  <2>2. u.thread_q = t.thread_q
    BY <1>1, <2>1 DEF TableField
  <2> QED BY <1>3, <2>2
<1>9. CASE i # None /\ \E b : \/ u = [t EXCEPT !.thread_q[i].rx = b]
                             \/ u = [t EXCEPT !.thread_q[i].tx = b]
  <2> DEFINE q == t.thread_q[i]
  <2>0. i \in 1..Len(t.thread_q) /\ PeerOK(q)
    BY <1>1, <1>2, <1>9
  <2>1. PICK b : \/ u = [t EXCEPT !.thread_q = [t.thread_q EXCEPT ![i] = [q EXCEPT !.rx = b]]]
                 \/ u = [t EXCEPT !.thread_q = [t.thread_q EXCEPT ![i] = [q EXCEPT !.tx = b]]]
    BY <1>1, <1>9, <2>0 DEF TableField, IsList
  <2>2. PICK r : /\ r = [q EXCEPT !.rx = b] \/ r = [q EXCEPT !.tx = b]
                 /\ u = [t EXCEPT !.thread_q = [t.thread_q EXCEPT ![i] = r]]
    BY <2>1
  <2>3. AliasesStay(q, r)
    <3> HIDE DEF q
    <3> QED BY <2>0, <2>2 DEF AliasesStay, PeerOK, PeerField
  <2>4. u.thread_q = [t.thread_q EXCEPT ![i] = r]
    BY <1>1, <2>2 DEF TableField
  <2> QED BY <2>0, <2>3, <2>4, OtherFieldHeld
<1>10. \/ u = t \/ u = [t EXCEPT !.bgp_id = Aton(Token(tokens, 1))]
       \/ u = toggle_update_dump(t, tokens) \/ u = proto_bgp_neighbor(t, tokens)
       \/ u = set_peer_logging(t, i, tokens)
       \/ i # None /\ \E b : \/ u = [t EXCEPT !.thread_q[i].rx = b]
                             \/ u = [t EXCEPT !.thread_q[i].tx = b]
  <2> DEFINE a == AliasSet(t, func, i, tokens)
  <2>1. a = AliasSet(t, func, i, tokens)
    OBVIOUS
  <2> HIDE DEF a
  <2> QED BY <2>1, RunIs DEF i
<1> QED BY <1>4, <1>5, <1>6, <1>7, <1>8, <1>9, <1>10

LEMMA AliasExecute ==
  ASSUME TypeInv, TableInv, AliasInv, NEW c \in Conn, Execute(c)
  PROVE  AliasInv'
<1> DEFINE p == conn[c].of
           tokens == conn[c].tokens
           t == table[p]
           ip == Token(tokens, 1)
           i == get_peer_by_str_ip(t, ip)
           func == IF conn[c].command = Null THEN "invalid" ELSE Function(conn[c].command)
           a == AliasSet(t, func, i, tokens)
           key == AliasKey(ip, a.code, a.value)
           name == a.name
<1>1. p \in Instance /\ ConfigInv(t)
  BY Somewhere DEF Execute, Connected, TableInv
<1>2. /\ table' = [table EXCEPT ![p] = Run(t, func, tokens)]
      /\ aliased' = IF func \in AliasFunc /\ i # None
                    THEN [aliased EXCEPT ![p] = Put(aliased[p], key, name)] ELSE aliased
  BY <1>1 DEF Execute, Noted, TypeInv, PerInstance
<1> DEFINE u == table'[p]
<1> HIDE DEF func, p, tokens, i, a, key, name
<1>3. /\ u = Run(t, func, tokens)
      /\ \A q \in Instance \ {p} : table'[q] = table[q] /\ aliased'[q] = aliased[q]
  BY <1>1, <1>2 DEF TypeInv, PerInstance
<1>4. AliasingIsKnown(t) /\ \A k \in DOMAIN aliased[p] : AliasHeld(t, k, aliased[p][k])
  BY <1>1 DEF AliasInv
<1> DEFINE Holds == AliasingIsKnown(u)
             /\ \A k \in DOMAIN aliased'[p] : AliasHeld(u, k, aliased'[p][k])
<1> SUFFICES Holds
  BY <1>3 DEF AliasInv
<1>5. CASE func \notin AliasFunc
  <2>1. StillHeld(t, u)
    BY <1>1, <1>3, <1>5, RunHeld
  <2>2. aliased' = aliased
    BY <1>2, <1>5
  <2> QED BY <1>4, <2>1, <2>2 DEF StillHeld
<1>6. CASE func \in AliasFunc /\ i = None
  <2>1. u = t
    BY <1>3, <1>6 DEF Run, PeerFunc, AliasFunc, i
  <2>2. aliased' = aliased
    BY <1>2, <1>6
  <2> QED BY <1>4, <2>1, <2>2
<1>7. CASE func \in AliasFunc /\ i # None
  <2>1. u = set_translation(t, i, a.code, a.value, a.name)
    BY <1>3, <1>7 DEF Run, PeerFunc, AliasFunc, i, a
  <2>2. i \in 1..Len(t.thread_q) /\ ip = t.thread_q[i].p_ip
    BY <1>1, <1>7, PeerFound, ConfigIs DEF i
  <2> DEFINE b == [code |-> a.code, value |-> a.value, name |-> a.name]
  <2>3. b.code = a.code /\ b.value = a.value /\ b.name = a.name
    OBVIOUS
  <2>9. a.code \in DOMAIN Code
    BY <1>7, AliasCoded DEF a
  <2> HIDE DEF t, u, ip
  <2>4. PICK l : Translated(l, t.thread_q[i].aliases, b) /\ u = With(t, i, l)
    BY <1>1, <2>1, <2>2, <2>9, TranslationIs
  <2>5. key = AliasKey(ip, b.code, b.value) /\ name = b.name
    BY <2>3 DEF key, name
  <2> HIDE DEF b
  <2>6. /\ AliasingIsKnown(t) => AliasingIsKnown(u)
        /\ AliasHeld(u, key, name)
        /\ \A k, n : k # key /\ AliasHeld(t, k, n) => AliasHeld(u, k, n)
    BY <1>1, <2>2, <2>4, <2>5, TranslatedHeld
  <2>7. aliased'[p] = Put(aliased[p], key, name)
    BY <1>1, <1>2, <1>7 DEF TypeInv, PerInstance
  <2>8. /\ DOMAIN aliased'[p] = DOMAIN aliased[p] \cup {key} /\ aliased'[p][key] = name
        /\ \A k \in DOMAIN aliased[p] : k # key => aliased'[p][k] = aliased[p][k]
    BY <2>7 DEF Put
  <2> QED BY <1>4, <2>6, <2>8
<1> QED BY <1>5, <1>6, <1>7

LEMMA AliasOpen ==
  ASSUME TypeInv, TableInv, AliasInv, NEW p \in Instance, NEW i \in 1..MaxLines + 2, Open(p, i)
  PROVE  AliasInv'
<1> DEFINE t == table[p]
           peer == t.thread_q[i]
           r == [peer EXCEPT !.bgp_id = RouterId[peer.p_ip]]
           u == table'[p]
<1>1. t = [x \in TableField |-> t[x]] /\ IsList(t.thread_q) /\ ConfigInv(t)
      /\ \A j \in 1..Len(t.thread_q) : PeerOK(t.thread_q[j])
  BY ConfigIs DEF TableInv
<1>2. i \in 1..Len(t.thread_q)
  BY <1>1 DEF Open, IsList
<1>3. AliasesStay(peer, r)
  <2>1. PeerOK(peer)
    BY <1>1, <1>2
  <2> HIDE DEF peer
  <2> QED BY <2>1 DEF AliasesStay, PeerOK, PeerField
<1>4. table' = [table EXCEPT ![p].thread_q[i].bgp_id = RouterId[peer.p_ip]]
  BY DEF Open
<1>5. /\ u = [t EXCEPT !.thread_q = [t.thread_q EXCEPT ![i] = r]]
      /\ \A q \in Instance \ {p} : table'[q] = table[q]
  BY <1>1, <1>2, <1>4 DEF TypeInv, PerInstance, TableField, IsList
<1>6. u.thread_q = [t.thread_q EXCEPT ![i] = r]
  <2> HIDE DEF r, t
  <2> QED BY <1>1, <1>5 DEF TableField
<1> HIDE DEF r, t, u
<1>7. StillHeld(t, u)
  BY <1>1, <1>2, <1>3, <1>6, OtherFieldHeld DEF t
<1>8. aliased' = aliased
  BY DEF Open
<1> QED BY <1>5, <1>7, <1>8 DEF AliasInv, StillHeld, t, u

\* The aliases of the first configuration.
LEMMA AliasesHeld ==
  ASSUME NEW t, ConfigInv(t), NEW k \in DOMAIN AliasesOf(t)
  PROVE  AliasHeld(t, k, AliasesOf(t)[k])
<1> DEFINE set == UNION {{<<AliasKey(q.p_ip, q.aliases[n].code, q.aliases[n].value),
                            q.aliases[n].name>> : n \in DOMAIN q.aliases} : q \in Range(t.thread_q)}
           name == AliasesOf(t)[k]
<1>1. k \in {x[1] : x \in set} /\ name = CHOOSE m \in {x[2] : x \in set} : <<k, m>> \in set
  BY DEF AliasesOf
<1>2. \A x \in set : x = <<x[1], x[2]>>
  OBVIOUS
<1>3. <<k, name>> \in set
  <2> HIDE DEF set, name
  <2>1. PICK x \in set : k = x[1]
    BY <1>1
  <2>2. <<k, x[2]>> \in set
    BY <1>2, <2>1
  <2> QED BY <1>1, <2>2
<1>4. IsList(t.thread_q) /\ \A j \in 1..Len(t.thread_q) : IsList(t.thread_q[j].aliases)
  BY ConfigIs DEF PeerOK
<1> DEFINE Made(q, a) == <<k, name>> = <<AliasKey(q.p_ip, a.code, a.value), a.name>>
<1>5. \E j \in 1..Len(t.thread_q) : \E n \in 1..Len(t.thread_q[j].aliases) :
         Made(t.thread_q[j], t.thread_q[j].aliases[n])
  <2> HIDE DEF name
  <2>1. PICK q \in Range(t.thread_q) : \E n \in DOMAIN q.aliases : Made(q, q.aliases[n])
    BY <1>3
  <2>2. PICK j \in 1..Len(t.thread_q) : q = t.thread_q[j]
    BY <1>4, <2>1 DEF Range, IsList
  <2>3. DOMAIN q.aliases = 1..Len(q.aliases)
    BY <1>4, <2>2 DEF IsList
  <2> HIDE DEF Made
  <2> QED BY <2>1, <2>2, <2>3
<1> HIDE DEF Made
<1>6. PICK j \in 1..Len(t.thread_q) :
         \E n \in 1..Len(t.thread_q[j].aliases) : Made(t.thread_q[j], t.thread_q[j].aliases[n])
  BY <1>5
<1> DEFINE l == t.thread_q[j].aliases
<1>10. PICK a \in Items(l) : Made(t.thread_q[j], a)
  BY <1>6 DEF Items
<1>11. k = AliasKey(t.thread_q[j].p_ip, a.code, a.value) /\ name = a.name /\ a \in Items(l)
  BY <1>10 DEF Made
<1> HIDE DEF name, set
<1>7. IsKey(k) /\ k[1] = t.thread_q[j].p_ip
  BY <1>11 DEF AliasKey, IsKey
<1>8. AliasIn(l, k, name)
  <2>1. CASE a.code = "bgp_id"
    <3>1. k[2] = "bgp_id"
      BY <1>11, <2>1 DEF AliasKey
    <3> HIDE DEF l
    <3> QED BY <1>11, <2>1, <3>1 DEF AliasIn, SoleId
  <2>2. CASE a.code # "bgp_id"
    <3>1. k[2] = a.code /\ k[3] = a.value
      BY <1>11, <2>2 DEF AliasKey
    <3> HIDE DEF l
    <3> QED BY <1>11, <2>2, <3>1 DEF AliasIn
  <2> QED BY <2>1, <2>2
<1>9. ASSUME NEW m, OnlyAt(t, k[1], m) PROVE m = j
  BY <1>7, <1>9 DEF OnlyAt
<1> QED BY <1>7, <1>8, <1>9 DEF AliasHeld, name

LEMMA AliasInit == Init => AliasInv
<1> SUFFICES ASSUME Init, NEW p \in Instance
             PROVE  /\ AliasingIsKnown(table[p])
                    /\ \A k \in DOMAIN aliased[p] : AliasHeld(table[p], k, aliased[p][k])
  BY DEF AliasInv
<1>1. table[p] = NoTable \/ table[p] \in InitTable
  BY DEF Init
<1>2. ConfigInv(table[p])
  BY TableInit DEF TableInv
<1>3. AliasingIsKnown(table[p])
  BY <1>1, InitTableAssumption DEF AliasingIsKnown, NoTable
<1>4. aliased[p] = AliasesOf(table[p])
  BY DEF Init
<1> QED BY <1>2, <1>3, <1>4, AliasesHeld

LEMMA AliasStep == TypeInv /\ TableInv /\ AliasInv /\ [Next]_vars => AliasInv'
<1> SUFFICES ASSUME TypeInv, TableInv, AliasInv, [Next]_vars PROVE AliasInv'
  OBVIOUS
<1>1. CASE TableKept
  BY <1>1 DEF AliasInv, TableKept
<1>2. ASSUME NEW p \in Instance, Gone(p) PROVE AliasInv'
  <2>1. aliased'[p] = <<>> /\ table'[p] = NoTable
        /\ \A q \in Instance \ {p} : table'[q] = table[q] /\ aliased'[q] = aliased[q]
    BY <1>2 DEF Gone, TypeInv, PerInstance
  <2>2. AliasingIsKnown(NoTable)
    BY DEF AliasingIsKnown, NoTable
  <2> QED BY <2>1, <2>2 DEF AliasInv
<1> QED BY <1>1, <1>2, AliasExecute, AliasOpen, NextIs

\* The one alias of a list that a function finds for a value.
Fits(a, code, value) == a.code = code /\ (code = "bgp_id" \/ a.value = value)
FoundIn(l, code, value, n) ==
    /\ n \in 1..Len(l) /\ Fits(l[n], code, value)
    /\ \A m \in 1..Len(l) : Fits(l[m], code, value) => m = n

LEMMA FirstOfOne ==
  ASSUME NEW n \in Nat, NEW S, S = {n}
  PROVE  FirstOf(S) = n
<1>1. S # {} /\ S \subseteq Nat /\ FirstOf(S) = Min(S)
  BY DEF FirstOf
<1>2. Min(S) \in S
  BY <1>1, MinIn
<1> QED BY <1>1, <1>2

\* The neighbour with an identifier is the one whose address it belongs to.
LEMMA PeerWithId ==
  ASSUME NEW t, ConfigInv(t), NEW ip, NEW i, OnlyAt(t, ip, i), t.thread_q[i].bgp_id # 0
  PROVE  /\ get_peer_by_str_ip(t, ip) = i
         /\ get_peer_by_bgp_id(t, t.thread_q[i].bgp_id) = i
<1> DEFINE q == t.thread_q
<1>1. IsList(q) /\ \A j \in 1..Len(q) : PeerOK(q[j])
  BY ConfigIs
<1>2. i \in Nat /\ i \in 1..Len(q) /\ q[i].p_ip = ip
  BY <1>1 DEF OnlyAt, IsList
<1>3. {j \in 1..Len(q) : q[j].p_ip = ip} = {i}
  BY <1>2 DEF OnlyAt
<1>4. {j \in 1..Len(q) : q[j].bgp_id = q[i].bgp_id} = {i}
  <2>1. ASSUME NEW j \in 1..Len(q), q[j].bgp_id = q[i].bgp_id PROVE j = i
    <3>1. /\ q[j].p_ip \in DOMAIN RouterId /\ q[j].bgp_id = RouterId[q[j].p_ip]
          /\ q[i].p_ip \in DOMAIN RouterId /\ q[i].bgp_id = RouterId[q[i].p_ip]
      BY <1>1, <1>2, <2>1 DEF PeerOK
    <3>2. q[j].p_ip = ip
      BY <1>2, <2>1, <3>1, RouterIdAssumption
    <3> QED BY <3>2 DEF OnlyAt
  <2> QED BY <1>2, <2>1
<1>5. get_peer_by_str_ip(t, ip) = i
  BY <1>2, <1>3, FirstOfOne DEF get_peer_by_str_ip
<1>6. get_peer_by_bgp_id(t, q[i].bgp_id) = i
  BY <1>2, <1>4, FirstOfOne DEF get_peer_by_bgp_id
<1> QED BY <1>5, <1>6

\* Every text has the name in it.
Says(texts, name) == \A s \in texts : \E n \in DOMAIN s : s[n] = Named(name)

LEMMA TranslateSays ==
  ASSUME NEW t, NEW id, NEW code, NEW value, NEW name,
         \/ translate(t, id, code, value) = {<<Plain(value), Named(name)>>}
         \/ translate(t, id, code, value) = {<<Named(name)>>}
  PROVE  Says(translate(t, id, code, value), name)
<1>1. CASE translate(t, id, code, value) = {<<Plain(value), Named(name)>>}
  <2> DEFINE s == <<Plain(value), Named(name)>>
  <2>1. 2 \in DOMAIN s /\ s[2] = Named(name)
    OBVIOUS
  <2> HIDE DEF s
  <2> QED BY <1>1, <2>1 DEF Says, s
<1>2. CASE translate(t, id, code, value) = {<<Named(name)>>}
  <2> DEFINE s == <<Named(name)>>
  <2>1. 1 \in DOMAIN s /\ s[1] = Named(name)
    OBVIOUS
  <2> HIDE DEF s
  <2> QED BY <1>2, <2>1 DEF Says, s
<1> QED BY <1>1, <1>2

Just(name) == {<<Named(name)>>}

\* The neighbour at i is the one at ip, has sent an OPEN, and aliases are shown.
Known(t, ip, i) ==
    /\ ConfigInv(t) /\ OnlyAt(t, ip, i) /\ t.thread_q[i].bgp_id # 0 /\ peer_doing_alias(t)

\* The alias found has the name.
FoundAs(l, code, value, name) == \E n : FoundIn(l, code, value, n) /\ l[n].name = name

\* What is printed for a value of a neighbour's route that has one alias.
LEMMA TranslateShows ==
  ASSUME NEW t, NEW ip, NEW i, Known(t, ip, i),
         NEW code \in {"as_path", "next_hop", "multi_exit_disc", "local_pref", "bgp_id"},
         NEW value, NEW name, FoundAs(t.thread_q[i].aliases, code, value, name)
  PROVE  /\ Says(translate(t, t.thread_q[i].bgp_id, code, value), name)
         /\ code = "bgp_id" => translate(t, t.thread_q[i].bgp_id, code, value) = Just(name)
<1> DEFINE id == t.thread_q[i].bgp_id
           l == t.thread_q[i].aliases
           found == {m \in 1..Len(l) : l[m].code = code /\ (code = "bgp_id" \/ l[m].value = value)}
<1>0. /\ ConfigInv(t) /\ OnlyAt(t, ip, i) /\ t.thread_q[i].bgp_id # 0 /\ peer_doing_alias(t)
  BY DEF Known
<1>1. PICK n : FoundIn(l, code, value, n) /\ l[n].name = name
  BY DEF FoundAs
<1>2. get_peer_by_bgp_id(t, id) = i
  BY <1>0, PeerWithId
<1>3. i \in Nat /\ i # None /\ IsList(l)
  <2>1. IsList(t.thread_q) /\ \A j \in 1..Len(t.thread_q) : PeerOK(t.thread_q[j])
    BY <1>0, ConfigIs
  <2>2. i \in 1..Len(t.thread_q)
    BY <1>0 DEF OnlyAt
  <2>3. i \in Nat /\ i # 0
    BY <2>1, <2>2 DEF IsList
  <2>4. IsList(l)
    BY <2>1, <2>2 DEF PeerOK
  <2> QED BY <2>3, <2>4 DEF None
<1>4. n \in Nat /\ n # None
  BY <1>1, <1>3 DEF FoundIn, IsList, None
<1>5. found = {n}
  BY <1>1 DEF FoundIn, Fits
<1>6. FirstOf(found) = n
  <2> HIDE DEF found
  <2> QED BY <1>4, <1>5, FirstOfOne
<1>7. translate(t, id, code, value) =
        IF FirstOf(found) = None THEN {<<Plain(value)>>}
        ELSE IF code \in {"as_path", "aggregator"}
             THEN {<<Plain(value), Named(l[FirstOf(found)].name)>>}
        ELSE IF code = "community" THEN {<<Plain(value)>>, <<Named(l[FirstOf(found)].name)>>}
        ELSE {<<Named(l[FirstOf(found)].name)>>}
  BY <1>0, <1>2, <1>3 DEF translate
<1> HIDE DEF found, id, l
<1>8. l[n].name = name
  BY <1>1
<1>9. translate(t, id, code, value) =
        IF code \in {"as_path", "aggregator"} THEN {<<Plain(value), Named(name)>>}
        ELSE IF code = "community" THEN {<<Plain(value)>>, <<Named(name)>>}
        ELSE {<<Named(name)>>}
  BY <1>4, <1>6, <1>7, <1>8
<1>10. \/ translate(t, id, code, value) = {<<Plain(value), Named(name)>>} /\ code # "bgp_id"
      \/ translate(t, id, code, value) = {<<Named(name)>>}
  BY <1>9
<1>11. Says(translate(t, id, code, value), name)
  BY <1>10, TranslateSays
<1> QED BY <1>10, <1>11 DEF id, Just

\* What the views show of a route that has one value everywhere.
LEMMA Views ==
  ASSUME NEW t, NEW id, NEW v, NEW e, e = Entry(id, v)
  PROVE  /\ \A view \in {display_entry(t, e), dump_update(t, e), jsonify_entry(t, e)} :
              /\ ShownIn(view, "as_path") = translate(t, id, "as_path", v)
              /\ ShownIn(view, "next_hop") = translate(t, id, "next_hop", v)
         /\ \A view \in {display_entry(t, e), dump_update(t, e)} :
              /\ ShownIn(view, "multi_exit_disc") = translate(t, id, "multi_exit_disc", v)
              /\ ShownIn(view, "local_pref") = translate(t, id, "local_pref", v)
         /\ ShownIn(dump_update(t, e), "bgp_id") = translate(t, id, "bgp_id", id)
<1> DEFINE c == Common(t, e)
           m == Metrics(t, e)
<1>1. e.id = id /\ e.as_path = <<v>> /\ e.next_hop = v /\ e.multi_exit_disc = v /\ e.local_pref = v
  BY DEF Entry
<1>2. /\ DOMAIN c = {"as_path", "next_hop", "aggregator", "community"}
      /\ c.as_path = Each(t, e.id, "as_path", e.as_path)
      /\ c.next_hop = translate(t, e.id, "next_hop", e.next_hop)
  BY DEF Common
<1>3. c.as_path[1] = translate(t, id, "as_path", v) /\ c.next_hop = translate(t, id, "next_hop", v)
  BY <1>1, <1>2 DEF Each
<1>4. /\ DOMAIN m = {"multi_exit_disc", "local_pref"}
      /\ m.multi_exit_disc = translate(t, id, "multi_exit_disc", v)
      /\ m.local_pref = translate(t, id, "local_pref", v)
  BY <1>1 DEF Metrics
<1> DEFINE n == [multi_exit_disc |-> {<<Plain(e.multi_exit_disc)>>},
                local_pref |-> {<<Plain(e.local_pref)>>}]
           b == [bgp_id |-> translate(t, e.id, "bgp_id", e.id)]
<1>5. DOMAIN n = {"multi_exit_disc", "local_pref"} /\ DOMAIN b = {"bgp_id"}
      /\ b.bgp_id = translate(t, id, "bgp_id", id)
  BY <1>1
<1> HIDE DEF c, m, n, b
<1>6. /\ display_entry(t, e) = Merge(c, m) /\ jsonify_entry(t, e) = Merge(c, n)
      /\ dump_update(t, e) = Merge(Merge(c, m), b)
  BY DEF display_entry, jsonify_entry, dump_update, c, m, n, b
<1>7. ASSUME NEW r, DOMAIN r = {"multi_exit_disc", "local_pref"}
      PROVE  /\ Merge(c, r).as_path = c.as_path /\ Merge(c, r).next_hop = c.next_hop
             /\ Merge(c, r).multi_exit_disc = r.multi_exit_disc
             /\ Merge(c, r).local_pref = r.local_pref
             /\ DOMAIN Merge(c, r) = DOMAIN c \cup DOMAIN r
  BY <1>2, <1>7 DEF Merge
<1> DEFINE d == Merge(c, m)
           g == Merge(d, b)
<1>8. /\ DOMAIN d
           = {"as_path", "next_hop", "aggregator", "community", "multi_exit_disc", "local_pref"}
      /\ d.as_path = c.as_path /\ d.next_hop = c.next_hop
      /\ d.multi_exit_disc = m.multi_exit_disc /\ d.local_pref = m.local_pref
  BY <1>2, <1>4, <1>7
<1> HIDE DEF d
<1>9. /\ g.as_path = c.as_path /\ g.next_hop = c.next_hop
      /\ g.multi_exit_disc = m.multi_exit_disc /\ g.local_pref = m.local_pref
      /\ g.bgp_id = b.bgp_id
  BY <1>5, <1>8 DEF Merge
<1> HIDE DEF g
<1>10. /\ Merge(c, n).as_path = c.as_path /\ Merge(c, n).next_hop = c.next_hop
  BY <1>5, <1>7
<1>11. display_entry(t, e) = d /\ dump_update(t, e) = g
  BY <1>6 DEF d, g
<1> QED BY <1>3, <1>4, <1>5, <1>6, <1>8, <1>9, <1>10, <1>11 DEF ShownIn

\* The member of a part of an interval, if it is the only one.
LEMMA TheOnly ==
  ASSUME NEW n \in Nat, NEW S, S \subseteq 1..n, Cardinality(S) = 1
  PROVE  \E j \in S : S = {j}
<1>1. IsFiniteSet(1..n)
  BY FS_Interval
<1>2. IsFiniteSet(S)
  BY <1>1, FS_Subset
<1>3. PICK j : S = {j}
  BY <1>2, FS_Singleton
<1> QED BY <1>3

LEMMA SingleAt ==
  ASSUME NEW t, ConfigInv(t), NEW ip, Single(t, ip)
  PROVE  \E j : OnlyAt(t, ip, j)
<1> DEFINE S == {j \in 1..Len(t.thread_q) : t.thread_q[j].p_ip = ip}
<1>1. Len(t.thread_q) \in Nat
  BY ConfigIs DEF IsList
<1>2. Cardinality(S) = 1
  BY DEF Single
<1>3. S \subseteq 1..Len(t.thread_q)
  OBVIOUS
<1> HIDE DEF S
<1>4. PICK j \in S : S = {j}
  BY <1>1, <1>2, <1>3, TheOnly
<1> QED BY <1>4 DEF OnlyAt, S

\* The alias that is remembered is the one that is found.
LEMMA ValueFound ==
  ASSUME NEW l, Unique(l), NEW k, k[2] # "bgp_id", NEW name, AliasIn(l, k, name)
  PROVE  FoundAs(l, k[2], k[3], name)
<1>1. PICK a \in Items(l) : a.code = k[2] /\ a.value = k[3] /\ a.name = name
  BY DEF AliasIn
<1>2. PICK n \in 1..Len(l) : a = l[n]
  BY DEF Items
<1>3. FoundIn(l, k[2], k[3], n)
  BY <1>1, <1>2 DEF FoundIn, Fits, Unique
<1> QED BY <1>1, <1>2, <1>3 DEF FoundAs

Once(l, code) == Cardinality({n \in DOMAIN l : l[n].code = code}) = 1

LEMMA IdFound ==
  ASSUME NEW l, IsList(l), NEW k, k[2] = "bgp_id", NEW name, AliasIn(l, k, name),
         NEW value, Once(l, k[2])
  PROVE  FoundAs(l, k[2], value, name)
<1> DEFINE S == {n \in DOMAIN l : l[n].code = k[2]}
<1>1. Len(l) \in Nat /\ DOMAIN l = 1..Len(l)
  BY DEF IsList
<1>2. S \subseteq 1..Len(l) /\ Cardinality(S) = 1
  BY <1>1 DEF Once
<1> HIDE DEF S
<1>3. PICK n \in S : S = {n}
  BY <1>1, <1>2, TheOnly
<1>4. /\ n \in 1..Len(l) /\ l[n].code = k[2]
      /\ \A m \in 1..Len(l) : l[m].code = k[2] => m = n
  BY <1>1, <1>3 DEF S
<1>5. FoundIn(l, k[2], value, n)
  BY <1>4 DEF FoundIn, Fits
<1>6. SoleId(l, l[n])
  BY <1>4 DEF SoleId, Items
<1> QED BY <1>4, <1>5, <1>6 DEF AliasIn, Items, FoundAs

\* The views show the name for the value of k in the neighbour's routes.
Shows(t, k, name) ==
    LET i == get_peer_by_str_ip(t, k[1])
        e == Entry(t.thread_q[i].bgp_id, k[3])
    IN  peer_doing_alias(t) /\ t.thread_q[i].bgp_id # 0 /\ Single(t, k[1]) =>
          /\ k[2] \in {"as_path", "next_hop", "multi_exit_disc", "local_pref"} =>
                /\ Says(ShownIn(display_entry(t, e), k[2]), name)
                /\ Says(ShownIn(dump_update(t, e), k[2]), name)
          /\ k[2] \in {"as_path", "next_hop"} => Says(ShownIn(jsonify_entry(t, e), k[2]), name)
          /\ k[2] = "bgp_id" /\ Once(t.thread_q[i].aliases, k[2]) =>
                Says(ShownIn(dump_update(t, e), k[2]), name) /\ ShownId(t, i) = Just(name)

LEMMA ViewsShow ==
  ASSUME NEW t, ConfigInv(t), AliasingIsKnown(t), NEW k, NEW name, AliasHeld(t, k, name)
  PROVE  Shows(t, k, name)
<1> DEFINE i == get_peer_by_str_ip(t, k[1])
           e == Entry(t.thread_q[i].bgp_id, k[3])
           id == t.thread_q[i].bgp_id
           l == t.thread_q[i].aliases
<1> SUFFICES ASSUME peer_doing_alias(t), t.thread_q[i].bgp_id # 0, Single(t, k[1])
             PROVE  /\ k[2] \in {"as_path", "next_hop", "multi_exit_disc", "local_pref"} =>
                         /\ Says(ShownIn(display_entry(t, e), k[2]), name)
                         /\ Says(ShownIn(dump_update(t, e), k[2]), name)
                    /\ k[2] \in {"as_path", "next_hop"} =>
                         Says(ShownIn(jsonify_entry(t, e), k[2]), name)
                    /\ k[2] = "bgp_id" /\ Once(l, k[2]) =>
                         Says(ShownIn(dump_update(t, e), k[2]), name) /\ ShownId(t, i) = Just(name)
  BY DEF Shows
<1>1. PICK j : OnlyAt(t, k[1], j)
  BY SingleAt
<1>2. i = j
  <2>1. IsList(t.thread_q) /\ j \in 1..Len(t.thread_q) /\ t.thread_q[j].p_ip = k[1]
    BY <1>1, ConfigIs DEF OnlyAt
  <2>2. j \in Nat
    BY <2>1 DEF IsList
  <2>3. {m \in 1..Len(t.thread_q) : t.thread_q[m].p_ip = k[1]} = {j}
    BY <1>1 DEF OnlyAt
  <2> QED BY <2>2, <2>3, FirstOfOne DEF get_peer_by_str_ip
<1>3. OnlyAt(t, k[1], i)
  BY <1>1, <1>2
<1>4. Known(t, k[1], i)
  BY <1>3 DEF Known
<1>5. AliasIn(l, k, name)
  BY <1>3 DEF AliasHeld
<1>6. i \in 1..Len(t.thread_q) /\ IsList(l) /\ Unique(l)
  <2>1. i \in 1..Len(t.thread_q)
    BY <1>3 DEF OnlyAt
  <2> QED BY <2>1, ConfigIs DEF PeerOK
<1>7. /\ \A view \in {display_entry(t, e), dump_update(t, e), jsonify_entry(t, e)} :
           /\ ShownIn(view, "as_path") = translate(t, id, "as_path", k[3])
           /\ ShownIn(view, "next_hop") = translate(t, id, "next_hop", k[3])
      /\ \A view \in {display_entry(t, e), dump_update(t, e)} :
           /\ ShownIn(view, "multi_exit_disc") = translate(t, id, "multi_exit_disc", k[3])
           /\ ShownIn(view, "local_pref") = translate(t, id, "local_pref", k[3])
      /\ ShownIn(dump_update(t, e), "bgp_id") = translate(t, id, "bgp_id", id)
  BY Views
<1>8. ASSUME k[2] \in {"as_path", "next_hop", "multi_exit_disc", "local_pref"}
      PROVE  Says(translate(t, id, k[2], k[3]), name)
  <2>1. FoundAs(l, k[2], k[3], name)
    BY <1>5, <1>6, <1>8, ValueFound
  <2>2. k[2] \in {"as_path", "next_hop", "multi_exit_disc", "local_pref", "bgp_id"}
    BY <1>8
  <2> QED BY <1>4, <2>1, <2>2, TranslateShows
<1>9. ASSUME k[2] = "bgp_id", Once(l, k[2])
      PROVE  /\ Says(translate(t, id, "bgp_id", id), name)
             /\ translate(t, id, "bgp_id", id) = Just(name)
             /\ t.thread_q[i].aliasing
  <2>1. FoundAs(l, "bgp_id", id, name)
    <3> HIDE DEF l, id
    <3> QED BY <1>5, <1>6, <1>9, IdFound
  <2>2. Says(translate(t, id, "bgp_id", id), name) /\ translate(t, id, "bgp_id", id) = Just(name)
    BY <1>4, <2>1, TranslateShows
  <2>3. l # <<>>
    BY <2>1 DEF FoundAs, FoundIn
  <2>4. t.thread_q[i].aliasing
    BY <1>6, <2>3 DEF AliasingIsKnown
  <2> QED BY <2>2, <2>4
<1> HIDE DEF id, l, e, i
<1>10. ASSUME k[2] \in {"as_path", "next_hop", "multi_exit_disc", "local_pref"}
      PROVE  /\ Says(ShownIn(display_entry(t, e), k[2]), name)
             /\ Says(ShownIn(dump_update(t, e), k[2]), name)
             /\ k[2] \in {"as_path", "next_hop"} => Says(ShownIn(jsonify_entry(t, e), k[2]), name)
  <2>1. CASE k[2] = "as_path"
    BY <1>7, <1>8, <2>1
  <2>2. CASE k[2] = "next_hop"
    BY <1>7, <1>8, <2>2
  <2>3. CASE k[2] = "multi_exit_disc"
    BY <1>7, <1>8, <2>3
  <2>4. CASE k[2] = "local_pref"
    BY <1>7, <1>8, <2>4
  <2> QED BY <1>10, <2>1, <2>2, <2>3, <2>4
<1>11. ASSUME k[2] = "bgp_id", Once(l, k[2])
       PROVE  Says(ShownIn(dump_update(t, e), k[2]), name) /\ ShownId(t, i) = Just(name)
  <2>1. Says(ShownIn(dump_update(t, e), k[2]), name)
    BY <1>7, <1>9, <1>11
  <2>2. ShownId(t, i) = Just(name)
    BY <1>9, <1>11 DEF ShownId, id, Just
  <2> QED BY <2>1, <2>2
<1> QED BY <1>10, <1>11 DEF l

\* After every command, the CLI, the API and the log show the last alias set for a
\* value of a neighbour in the routes of that neighbour, as soon as the first
\* neighbour in the table has an alias too: no command for this neighbour or another
\* takes the alias away or puts one in front of it, but for a second one of an
\* identifier.
THEOREM ConsoleViews == Spec => []AliasReachesEveryView
<1>1. ASSUME TableInv, AliasInv PROVE AliasReachesEveryView
  <2>1. ASSUME NEW p \in Instance, NEW k \in DOMAIN aliased[p]
        PROVE  Shows(table[p], k, aliased[p][k])
    <3>1. ConfigInv(table[p]) /\ AliasingIsKnown(table[p]) /\ AliasHeld(table[p], k, aliased[p][k])
      BY <1>1, <2>1 DEF TableInv, AliasInv
    <3> QED BY <3>1, ViewsShow
  <2> QED BY <2>1 DEF AliasReachesEveryView, Shows, Says, Once, Just
<1> QED BY <1>1, TypeInit, TypeStep, TableInit, TableStep, AliasInit, AliasStep, PTL DEF Spec

-----------------------------------------------------------------------------
(* The commands of saved lines.                                            *)

\* Sequences that are equal, an element at a time.
LEMMA AppendIs ==
  ASSUME NEW S, NEW s \in Seq(S), NEW e \in S, NEW t \in Seq(S), Len(t) = Len(s) + 1,
         \A i \in 1..Len(s) : t[i] = s[i], t[Len(s) + 1] = e
  PROVE  Append(s, e) = t
<1>1. Append(s, e) \in Seq(S) /\ Len(Append(s, e)) = Len(s) + 1
  BY AppendProperties
<1>2. \A i \in 1..Len(t) : Append(s, e)[i] = t[i]
  <2> TAKE i \in 1..Len(t)
  <2>1. CASE i \in 1..Len(s)
    BY <2>1, AppendProperties
  <2>2. CASE i = Len(s) + 1
    BY <2>2, AppendProperties
  <2> QED BY <2>1, <2>2
<1> QED BY <1>1, <1>2, SeqEqual

LEMMA Append1 ==
  ASSUME NEW a, NEW b
  PROVE  Append(<<a>>, b) = <<a, b>>
<1> DEFINE S == {a, b}
           s == <<a>>
           t == <<a, b>>
<1>1. s \in Seq(S) /\ t \in Seq(S) /\ b \in S /\ Len(s) = 1 /\ Len(t) = 2
  OBVIOUS
<1>2. s[1] = t[1] /\ t[2] = b
  OBVIOUS
<1> HIDE DEF s, t, S
<1>3. (\A i \in 1..Len(s) : t[i] = s[i]) /\ Len(t) = Len(s) + 1 /\ t[Len(s) + 1] = b
  BY <1>1, <1>2
<1>4. Append(s, b) = t
  BY <1>1, <1>3, AppendIs
<1> QED BY <1>4 DEF s, t

LEMMA Append2 ==
  ASSUME NEW a, NEW b, NEW c
  PROVE  Append(<<a, b>>, c) = <<a, b, c>>
<1> DEFINE S == {a, b, c}
           s == <<a, b>>
           t == <<a, b, c>>
<1>1. s \in Seq(S) /\ t \in Seq(S) /\ c \in S /\ Len(s) = 2 /\ Len(t) = 3
  OBVIOUS
<1>2. s[1] = t[1] /\ s[2] = t[2] /\ t[3] = c
  OBVIOUS
<1> HIDE DEF s, t, S
<1>3. (\A i \in 1..Len(s) : t[i] = s[i]) /\ Len(t) = Len(s) + 1 /\ t[Len(s) + 1] = c
  BY <1>1, <1>2
<1>4. Append(s, c) = t
  BY <1>1, <1>3, AppendIs
<1> QED BY <1>4 DEF s, t

LEMMA Append3 ==
  ASSUME NEW a, NEW b, NEW c, NEW d
  PROVE  Append(<<a, b, c>>, d) = <<a, b, c, d>>
<1> DEFINE S == {a, b, c, d}
           s == <<a, b, c>>
           t == <<a, b, c, d>>
<1>1. s \in Seq(S) /\ t \in Seq(S) /\ d \in S /\ Len(s) = 3 /\ Len(t) = 4
  OBVIOUS
<1>2. s[1] = t[1] /\ s[2] = t[2] /\ s[3] = t[3] /\ t[4] = d
  OBVIOUS
<1> HIDE DEF s, t, S
<1>3. (\A i \in 1..Len(s) : t[i] = s[i]) /\ Len(t) = Len(s) + 1 /\ t[Len(s) + 1] = d
  BY <1>1, <1>2
<1>4. Append(s, d) = t
  BY <1>1, <1>3, AppendIs
<1> QED BY <1>4 DEF s, t

LEMMA Append4 ==
  ASSUME NEW a, NEW b, NEW c, NEW d, NEW e
  PROVE  Append(<<a, b, c, d>>, e) = <<a, b, c, d, e>>
<1> DEFINE S == {a, b, c, d, e}
           s == <<a, b, c, d>>
           t == <<a, b, c, d, e>>
<1>1. s \in Seq(S) /\ t \in Seq(S) /\ e \in S /\ Len(s) = 4 /\ Len(t) = 5
  OBVIOUS
<1>2. s[1] = t[1] /\ s[2] = t[2] /\ s[3] = t[3] /\ s[4] = t[4] /\ t[5] = e
  OBVIOUS
<1> HIDE DEF s, t, S
<1>3. (\A i \in 1..Len(s) : t[i] = s[i]) /\ Len(t) = Len(s) + 1 /\ t[Len(s) + 1] = e
  BY <1>1, <1>2
<1>4. Append(s, e) = t
  BY <1>1, <1>3, AppendIs
<1> QED BY <1>4 DEF s, t

LEMMA Append5 ==
  ASSUME NEW a, NEW b, NEW c, NEW d, NEW e, NEW f
  PROVE  Append(<<a, b, c, d, e>>, f) = <<a, b, c, d, e, f>>
<1> DEFINE S == {a, b, c, d, e, f}
           s == <<a, b, c, d, e>>
           t == <<a, b, c, d, e, f>>
<1>1. s \in Seq(S) /\ t \in Seq(S) /\ f \in S /\ Len(s) = 5 /\ Len(t) = 6
  OBVIOUS
<1>2. s[1] = t[1] /\ s[2] = t[2] /\ s[3] = t[3] /\ s[4] = t[4] /\ s[5] = t[5] /\ t[6] = f
  OBVIOUS
<1> HIDE DEF s, t, S
<1>3. (\A i \in 1..Len(s) : t[i] = s[i]) /\ Len(t) = Len(s) + 1 /\ t[Len(s) + 1] = f
  BY <1>1, <1>2
<1>4. Append(s, f) = t
  BY <1>1, <1>3, AppendIs
<1> QED BY <1>4 DEF s, t

LEMMA Append6 ==
  ASSUME NEW a, NEW b, NEW c, NEW d, NEW e, NEW f, NEW g
  PROVE  Append(<<a, b, c, d, e, f>>, g) = <<a, b, c, d, e, f, g>>
<1> DEFINE S == {a, b, c, d, e, f, g}
           s == <<a, b, c, d, e, f>>
           t == <<a, b, c, d, e, f, g>>
<1>1. s \in Seq(S) /\ t \in Seq(S) /\ g \in S /\ Len(s) = 6 /\ Len(t) = 7
  OBVIOUS
<1>2. s[1] = t[1] /\ s[2] = t[2] /\ s[3] = t[3] /\ s[4] = t[4] /\ s[5] = t[5] /\ s[6] = t[6]
        /\ t[7] = g
  OBVIOUS
<1> HIDE DEF s, t, S
<1>3. (\A i \in 1..Len(s) : t[i] = s[i]) /\ Len(t) = Len(s) + 1 /\ t[Len(s) + 1] = g
  BY <1>1, <1>2
<1>4. Append(s, g) = t
  BY <1>1, <1>3, AppendIs
<1> QED BY <1>4 DEF s, t

LEMMA Append7 ==
  ASSUME NEW a, NEW b, NEW c, NEW d, NEW e, NEW f, NEW g, NEW h
  PROVE  Append(<<a, b, c, d, e, f, g>>, h) = <<a, b, c, d, e, f, g, h>>
<1> DEFINE S == {a, b, c, d, e, f, g, h}
           s == <<a, b, c, d, e, f, g>>
           t == <<a, b, c, d, e, f, g, h>>
<1>1. s \in Seq(S) /\ t \in Seq(S) /\ h \in S /\ Len(s) = 7 /\ Len(t) = 8
  OBVIOUS
<1>2. s[1] = t[1] /\ s[2] = t[2] /\ s[3] = t[3] /\ s[4] = t[4] /\ s[5] = t[5] /\ s[6] = t[6]
        /\ s[7] = t[7] /\ t[8] = h
  OBVIOUS
<1> HIDE DEF s, t, S
<1>3. (\A i \in 1..Len(s) : t[i] = s[i]) /\ Len(t) = Len(s) + 1 /\ t[Len(s) + 1] = h
  BY <1>1, <1>2
<1>4. Append(s, h) = t
  BY <1>1, <1>3, AppendIs
<1> QED BY <1>4 DEF s, t

\* A word that is saved is no abbreviation of another, but for `neighbors'.
LEMMA OwnWord ==
  ASSUME NEW token \in SavedWord, NEW w, w # "neighbors"
  PROVE  Begins(token, w) <=> token = w
<1> DEFINE pair == <<token, w>>
<1>1. pair[1] = token /\ pair[2] = w
  OBVIOUS
<1>2. pair \in Abbreviation => pair = <<"neighbor", "neighbors">>
  BY <1>1, AbbreviationAssumption
<1>3. pair # <<"neighbor", "neighbors">>
  OBVIOUS
<1> QED BY <1>2, <1>3 DEF Begins

\* Of words that differ a token finds its own, a parameter takes any token.
LEMMA Followed ==
  ASSUME NEW node, NEW token, NEW subs, subs = SubCommands(node), NEW k \in 1..Len(subs), k \in Nat,
         \A i \in 1..Len(subs) : Begins(token, subs[i]) \/ subs[i] = "<>" <=> i = k
  PROVE  SubCommand(node, token) = Append(node, subs[k])
<1> DEFINE match == {i \in 1..Len(subs) : Begins(token, subs[i]) \/ subs[i] = "<>"}
<1>1. match = {k}
  OBVIOUS
<1> HIDE DEF match
<1>2. match # {} /\ Min(match) = k
  <2>1. match \subseteq Nat /\ match # {}
    BY <1>1
  <2> QED BY <1>1, <2>1, MinIn
<1>3. SubCommand(node, token) = IF match = {} THEN node ELSE Append(node, subs[Min(match)])
  BY DEF SubCommand, match
<1> QED BY <1>2, <1>3

\* The k-th of the words that follow a node is w, and no other.
Among(words, k, w) ==
    /\ Len(words) \in Nat /\ k \in 1..Len(words) /\ words[k] = w
    /\ \A i \in 1..Len(words) : /\ words[i] \notin {"neighbors", "<>"}
                                /\ words[i] = w => i = k

LEMMA WordNext ==
  ASSUME NEW node, NEW w \in SavedWord, NEW k, Among(Word(node), k, w)
  PROVE  SubCommand(node, w) = Append(node, w)
<1> DEFINE words == Word(node)
<1>1. words # <<>> /\ k \in Nat
  BY DEF Among
<1>2. SubCommands(node) = words
  BY <1>1 DEF SubCommands
<1> HIDE DEF words
<1>3. Among(words, k, w)
  BY DEF words
<1>4. \A i \in 1..Len(words) : Begins(w, words[i]) \/ words[i] = "<>" <=> i = k
  BY <1>3, OwnWord DEF Among
<1>5. SubCommand(node, w) = Append(node, words[k])
  BY <1>1, <1>2, <1>3, <1>4, Followed DEF Among
<1> QED BY <1>3, <1>5 DEF Among

LEMMA ParameterNext ==
  ASSUME NEW node, Word(node) = <<>>, BeforeParameter(node), NEW token
  PROVE  SubCommand(node, token) = Append(node, "<>")
<1> DEFINE subs == <<"<>">>
<1>1. subs = SubCommands(node)
  BY DEF SubCommands
<1>2. 1 \in 1..Len(subs) /\ subs[1] = "<>" /\ \A i \in 1..Len(subs) : i = 1
  OBVIOUS
<1> HIDE DEF subs
<1> QED BY <1>1, <1>2, Followed

\* The root command of a word.
LEMMA RootNext ==
  ASSUME NEW w \in {"bgp-id", "dumper", "neighbor"}
  PROVE  RootCommand(w) = <<w>>
<1> DEFINE words == Word(Null)
           match == {i \in 1..Len(words) : Begins(w, words[i])}
<1>1. words = <<"api-get", "bgp-id", "dumper", "kill-all", "neighbor", "show", "write">>
  BY DEF Word, Null, Attribute, Attr, Alias, AttributeName
<1>2. \A i \in 1..Len(words) : words[i] # "neighbors"
  BY <1>1
<1>3. w \in SavedWord
  BY DEF SavedWord
<1>4. \A i \in 1..Len(words) : Begins(w, words[i]) <=> w = words[i]
  BY <1>2, <1>3, OwnWord
<1>5. \E k \in 1..Len(words) : words[k] = w /\ \A i \in 1..Len(words) : words[i] = w => i = k
  <2>1. CASE w = "bgp-id"
    BY <1>1, <2>1
  <2>2. CASE w = "dumper"
    BY <1>1, <2>2
  <2>3. CASE w = "neighbor"
    BY <1>1, <2>3
  <2> QED BY <2>1, <2>2, <2>3
<1>6. Len(words) = 7
  BY <1>1
<1> HIDE DEF words
<1>7. PICK k \in 1..Len(words) : match = {k} /\ words[k] = w
  BY <1>4, <1>5
<1>8. k \in Nat
  BY <1>6
<1> HIDE DEF match
<1>9. match # {} /\ Max(match) = k
  BY <1>7, <1>8 DEF Max
<1>10. RootCommand(w) = IF match = {} THEN Null ELSE <<words[Max(match)]>>
  BY DEF RootCommand, match, words
<1> QED BY <1>7, <1>9, <1>10

\* The command of a line is where its tokens lead.
Leads(tokens, node) ==
    /\ Len(tokens) \in Nat \ {0}
    /\ node[1] = RootCommand(tokens[1]) /\ node[1] # Null
    /\ \A i \in 1..(Len(tokens) - 1) : node[i + 1] = SubCommand(node[i], tokens[i + 1])

LEMMA CommandIs ==
  ASSUME NEW tokens, NEW node, Leads(tokens, node)
  PROVE  Command(tokens) = node[Len(tokens)]
<1> DEFINE l == Len(tokens)
           S == {n \in Nat : n + 1 <= l => Walk(tokens)[n + 1] = node[n + 1]}
<1>1. l \in Nat \ {0} /\ 1 \in 1..l
  BY DEF Leads
<1>2. \A n \in 1..l : Walk(tokens)[n] = IF n = 1 THEN RootCommand(tokens[1])
                                       ELSE SubCommand(Walk(tokens)[n - 1], tokens[n])
  BY <1>1, WalkIs
<1>3. node[1] = RootCommand(tokens[1]) /\ node[1] # Null
      /\ \A i \in 1..(l - 1) : node[i + 1] = SubCommand(node[i], tokens[i + 1])
  BY DEF Leads
<1> HIDE DEF l
<1>4. 0 \in S
  BY <1>1, <1>2, <1>3
<1>5. ASSUME NEW n \in Nat, n \in S PROVE n + 1 \in S
  <2> SUFFICES ASSUME (n + 1) + 1 <= l PROVE Walk(tokens)[(n + 1) + 1] = node[(n + 1) + 1]
    OBVIOUS
  <2>1. n + 1 \in 1..(l - 1) /\ (n + 1) + 1 \in 1..l /\ (n + 1) + 1 # 1
        /\ ((n + 1) + 1) - 1 = n + 1 /\ n + 1 <= l
    BY <1>1
  <2>2. Walk(tokens)[n + 1] = node[n + 1]
    BY <1>5, <2>1
  <2> QED BY <1>2, <1>3, <2>1, <2>2
<1>6. Nat \subseteq S
  <2> HIDE DEF S
  <2> QED BY <1>4, <1>5, NatSet
<1>7. l - 1 \in S /\ (l - 1) + 1 = l
  BY <1>1, <1>6
<1>8. Walk(tokens)[l] = node[l]
  BY <1>1, <1>7
<1>9. tokens # <<>>
  BY <1>1 DEF l
<1> QED BY <1>3, <1>8, <1>9 DEF Command, l

\* The function of a command is that of the last node on its way that has one.
LEMMA FunctionIs ==
  ASSUME NEW S, NEW node \in Seq(S), NEW own \in Seq(S), Len(own) \in 1..Len(node),
         \A i \in 1..Len(own) : own[i] = node[i],
         Func(own) # Inherited,
         \A p \in Seq(S) : /\ Len(p) > Len(own) /\ Len(p) <= Len(node)
                           /\ \A i \in 1..Len(p) : p[i] = node[i]
                           => Func(p) = Inherited
  PROVE  Function(node) = Func(own)
<1> DEFINE k == Len(own)
           Sub(j) == SubSeq(node, 1, j)
           F(j) == Func(Sub(j))
           T == {j \in 1..Len(node) : F(j) # Inherited}
<1>1. Len(node) \in Nat /\ k \in Nat /\ k \in 1..Len(node)
  OBVIOUS
<1>2. ASSUME NEW j \in 1..Len(node)
      PROVE  Sub(j) \in Seq(S) /\ Len(Sub(j)) = j /\ \A i \in 1..j : Sub(j)[i] = node[i]
  <2>1. 1 \in 1..(Len(node) + 1) /\ j \in 0..Len(node) /\ j \in Nat
    BY <1>1
  <2> QED BY <2>1
<1> HIDE DEF Sub
<1>3. Sub(k) = own
  BY <1>1, <1>2, SeqEqual
<1>4. \A j \in 1..Len(node) : j > k => F(j) = Inherited
  BY <1>1, <1>2
<1>5. Function(node) = F(Max(T))
  BY DEF Function, Sub
<1>6. F(k) = Func(own)
  BY <1>3
<1> HIDE DEF F
<1>7. k \in T /\ \A j \in T : k >= j
  BY <1>1, <1>4, <1>6
<1>8. T \subseteq Nat
  BY <1>1
<1> HIDE DEF T
<1>9. Max(T) = k
  <2>1. \A x \in T : (\A y \in T : x >= y) <=> x = k
    BY <1>7, <1>8
  <2>2. Max(T) = CHOOSE x \in T : \A y \in T : x >= y
    BY DEF Max
  <2> QED BY <1>7, <2>1, <2>2
<1> QED BY <1>5, <1>6, <1>9

\* Where the nodes that have a function are.
LEMMA FuncPlace ==
  ASSUME NEW node, Func(node) # Inherited
  PROVE  \/ Len(node) = 1
         \/ Len(node) = 2 /\ node[1] = "api-get"
         \/ Len(node) = 3 /\ node[1] = "show"
         \/ Len(node) = 3
              /\ node[3] \in {"logging", "rx-buffer", "tx-buffer", "timers", "attribute"}
         \/ Len(node) = 4 /\ node[3] = "attribute"
         \/ Len(node) = 6 /\ node[4] = "next-hop"
<1> DEFINE One == {<<"api-get">>, <<"bgp-id">>, <<"dumper">>, <<"kill-all">>, <<"write">>,
                  <<"show">>, <<"neighbor">>}
           Two == {<<"api-get", "all-from-asn">>, <<"api-get", "all-private-asn">>,
                   <<"api-get", "all-public-asn">>}
           ShowNodes ==
             {<<"show", "bgp", "ipv4">>, <<"show", "bgp", "neighbors">>,
              <<"show", "bgp", "adj-rib-in">>, <<"show", "bgp", "rib-withdrawn">>}
           Peers == {<<"neighbor", "<>", "logging">>, <<"neighbor", "<>", "rx-buffer">>,
                     <<"neighbor", "<>", "tx-buffer">>, <<"neighbor", "<>", "timers">>, Attribute}
           Values == {Attr("bgp-id"), Attr("origin"), Attr("as-path"), Attr("next-hop"),
                      Attr("med"), Attr("local-pref"), Attr("atomic-aggr"), Attr("community")}
           Hops == {NextHop("ipv4"), NextHop("ipv6")}
<1>1. node \in One \/ node \in Two \/ node \in ShowNodes \/ node \in Peers
        \/ node \in Values \/ node \in Hops
  <2> SUFFICES ASSUME node \notin One, node \notin Two, node \notin ShowNodes,
                      node \notin Peers, node \notin Values, node \notin Hops
               PROVE  FALSE
    OBVIOUS
  <2>1. Func(node) = Inherited
    BY DEF Func
  <2> QED BY <2>1
<1>2. CASE node \in One
  BY <1>2
<1>3. CASE node \in Two
  BY <1>3
<1>4. CASE node \in ShowNodes
  BY <1>4
<1>5. CASE node \in Peers
  BY <1>5 DEF Attribute
<1>6. CASE node \in Values
  BY <1>6 DEF Attr
<1>7. CASE node \in Hops
  BY <1>7 DEF NextHop
<1> QED BY <1>1, <1>2, <1>3, <1>4, <1>5, <1>6, <1>7

\* Where the tokens of saved lines lead: a parameter ...
LEMMA Parameters ==
  ASSUME NEW token
  PROVE  /\ SubCommand(<<"bgp-id">>, token) = <<"bgp-id", "<>">>
         /\ SubCommand(<<"neighbor">>, token) = <<"neighbor", "<>">>
         /\ SubCommand(<<"neighbor", "<>", "remote-as">>, token)
              = <<"neighbor", "<>", "remote-as", "<>">>
         /\ SubCommand(<<"neighbor", "<>", "tx-buffer">>, token)
              = <<"neighbor", "<>", "tx-buffer", "<>">>
         /\ SubCommand(<<"neighbor", "<>", "tx-buffer", "<>">>, token)
              = <<"neighbor", "<>", "tx-buffer", "<>", "<>">>
         /\ SubCommand(<<"neighbor", "<>", "rx-buffer">>, token)
              = <<"neighbor", "<>", "rx-buffer", "<>">>
         /\ SubCommand(<<"neighbor", "<>", "rx-buffer", "<>">>, token)
              = <<"neighbor", "<>", "rx-buffer", "<>", "<>">>
         /\ SubCommand(<<"neighbor", "<>", "logging", "host">>, token)
              = <<"neighbor", "<>", "logging", "host", "<>">>
         /\ SubCommand(<<"neighbor", "<>", "logging", "host", "<>">>, token)
              = <<"neighbor", "<>", "logging", "host", "<>", "<>">>
         /\ SubCommand(<<"neighbor", "<>", "attribute", "bgp-id", "alias">>, token)
              = <<"neighbor", "<>", "attribute", "bgp-id", "alias", "<>">>
         /\ SubCommand(<<"neighbor", "<>", "attribute", "as-path", "alias">>, token)
              = <<"neighbor", "<>", "attribute", "as-path", "alias", "<>">>
         /\ SubCommand(<<"neighbor", "<>", "attribute", "as-path", "alias", "<>">>, token)
              = <<"neighbor", "<>", "attribute", "as-path", "alias", "<>", "<>">>
         /\ SubCommand(<<"neighbor", "<>", "attribute", "community", "alias">>, token)
              = <<"neighbor", "<>", "attribute", "community", "alias", "<>">>
         /\ SubCommand(<<"neighbor", "<>", "attribute", "community", "alias", "<>">>, token)
              = <<"neighbor", "<>", "attribute", "community", "alias", "<>", "<>">>
         /\ SubCommand(<<"neighbor", "<>", "attribute", "next-hop", "alias", "ipv4">>, token)
              = <<"neighbor", "<>", "attribute", "next-hop", "alias", "ipv4", "<>">>
         /\ SubCommand(<<"neighbor", "<>", "attribute", "next-hop", "alias", "ipv4", "<>">>, token)
              = <<"neighbor", "<>", "attribute", "next-hop", "alias", "ipv4", "<>", "<>">>
<1>1. SubCommand(<<"bgp-id">>, token) = <<"bgp-id", "<>">>
  <2>1. Word(<<"bgp-id">>) = <<>>
    BY DEF Word, Attribute, Attr, Alias, AttributeName
  <2>2. BeforeParameter(<<"bgp-id">>)
    BY DEF BeforeParameter, OneParameter, TwoParameters, Alias, NextHop
  <2>3. Append(<<"bgp-id">>, "<>") = <<"bgp-id", "<>">>
    BY Append1
  <2> QED BY <2>1, <2>2, <2>3, ParameterNext
<1>2. SubCommand(<<"neighbor">>, token) = <<"neighbor", "<>">>
  <2>1. Word(<<"neighbor">>) = <<>>
    BY DEF Word, Attribute, Attr, Alias, AttributeName
  <2>2. BeforeParameter(<<"neighbor">>)
    BY DEF BeforeParameter, OneParameter, TwoParameters, Alias, NextHop
  <2>3. Append(<<"neighbor">>, "<>") = <<"neighbor", "<>">>
    BY Append1
  <2> QED BY <2>1, <2>2, <2>3, ParameterNext
<1>3. SubCommand(<<"neighbor", "<>", "remote-as">>, token) = <<"neighbor", "<>", "remote-as", "<>">>
  <2>1. Word(<<"neighbor", "<>", "remote-as">>) = <<>>
    BY DEF Word, Attribute, Attr, Alias, AttributeName
  <2>2. BeforeParameter(<<"neighbor", "<>", "remote-as">>)
    BY DEF BeforeParameter, OneParameter, TwoParameters, Alias, NextHop
  <2>3. Append(<<"neighbor", "<>", "remote-as">>, "<>") = <<"neighbor", "<>", "remote-as", "<>">>
    BY Append3
  <2> QED BY <2>1, <2>2, <2>3, ParameterNext
<1>4. SubCommand(<<"neighbor", "<>", "tx-buffer">>, token) = <<"neighbor", "<>", "tx-buffer", "<>">>
  <2>1. Word(<<"neighbor", "<>", "tx-buffer">>) = <<>>
    BY DEF Word, Attribute, Attr, Alias, AttributeName
  <2>2. BeforeParameter(<<"neighbor", "<>", "tx-buffer">>)
    BY DEF BeforeParameter, OneParameter, TwoParameters, Alias, NextHop
  <2>3. Append(<<"neighbor", "<>", "tx-buffer">>, "<>") = <<"neighbor", "<>", "tx-buffer", "<>">>
    BY Append3
  <2> QED BY <2>1, <2>2, <2>3, ParameterNext
<1>5. SubCommand(<<"neighbor", "<>", "tx-buffer", "<>">>, token)
        = <<"neighbor", "<>", "tx-buffer", "<>", "<>">>
  <2>1. Word(<<"neighbor", "<>", "tx-buffer", "<>">>) = <<>>
    BY DEF Word, Attribute, Attr, Alias, AttributeName
  <2>2. BeforeParameter(<<"neighbor", "<>", "tx-buffer", "<>">>)
    <3>1. Append(<<"neighbor", "<>", "tx-buffer">>, "<>") = <<"neighbor", "<>", "tx-buffer", "<>">>
            /\ <<"neighbor", "<>", "tx-buffer">> \in TwoParameters
      BY Append3 DEF TwoParameters, Alias, NextHop
    <3> QED BY <3>1 DEF BeforeParameter
  <2>3. Append(<<"neighbor", "<>", "tx-buffer", "<>">>, "<>")
          = <<"neighbor", "<>", "tx-buffer", "<>", "<>">>
    BY Append4
  <2> QED BY <2>1, <2>2, <2>3, ParameterNext
<1>6. SubCommand(<<"neighbor", "<>", "rx-buffer">>, token) = <<"neighbor", "<>", "rx-buffer", "<>">>
  <2>1. Word(<<"neighbor", "<>", "rx-buffer">>) = <<>>
    BY DEF Word, Attribute, Attr, Alias, AttributeName
  <2>2. BeforeParameter(<<"neighbor", "<>", "rx-buffer">>)
    BY DEF BeforeParameter, OneParameter, TwoParameters, Alias, NextHop
  <2>3. Append(<<"neighbor", "<>", "rx-buffer">>, "<>") = <<"neighbor", "<>", "rx-buffer", "<>">>
    BY Append3
  <2> QED BY <2>1, <2>2, <2>3, ParameterNext
<1>7. SubCommand(<<"neighbor", "<>", "rx-buffer", "<>">>, token)
        = <<"neighbor", "<>", "rx-buffer", "<>", "<>">>
  <2>1. Word(<<"neighbor", "<>", "rx-buffer", "<>">>) = <<>>
    BY DEF Word, Attribute, Attr, Alias, AttributeName
  <2>2. BeforeParameter(<<"neighbor", "<>", "rx-buffer", "<>">>)
    <3>1. Append(<<"neighbor", "<>", "rx-buffer">>, "<>") = <<"neighbor", "<>", "rx-buffer", "<>">>
            /\ <<"neighbor", "<>", "rx-buffer">> \in TwoParameters
      BY Append3 DEF TwoParameters, Alias, NextHop
    <3> QED BY <3>1 DEF BeforeParameter
  <2>3. Append(<<"neighbor", "<>", "rx-buffer", "<>">>, "<>")
          = <<"neighbor", "<>", "rx-buffer", "<>", "<>">>
    BY Append4
  <2> QED BY <2>1, <2>2, <2>3, ParameterNext
<1>8. SubCommand(<<"neighbor", "<>", "logging", "host">>, token)
        = <<"neighbor", "<>", "logging", "host", "<>">>
  <2>1. Word(<<"neighbor", "<>", "logging", "host">>) = <<>>
    BY DEF Word, Attribute, Attr, Alias, AttributeName
  <2>2. BeforeParameter(<<"neighbor", "<>", "logging", "host">>)
    BY DEF BeforeParameter, OneParameter, TwoParameters, Alias, NextHop
  <2>3. Append(<<"neighbor", "<>", "logging", "host">>, "<>")
          = <<"neighbor", "<>", "logging", "host", "<>">>
    BY Append4
  <2> QED BY <2>1, <2>2, <2>3, ParameterNext
<1>9. SubCommand(<<"neighbor", "<>", "logging", "host", "<>">>, token)
        = <<"neighbor", "<>", "logging", "host", "<>", "<>">>
  <2>1. Word(<<"neighbor", "<>", "logging", "host", "<>">>) = <<>>
    BY DEF Word, Attribute, Attr, Alias, AttributeName
  <2>2. BeforeParameter(<<"neighbor", "<>", "logging", "host", "<>">>)
    <3>1. Append(<<"neighbor", "<>", "logging", "host">>, "<>")
            = <<"neighbor", "<>", "logging", "host", "<>">>
              /\ <<"neighbor", "<>", "logging", "host">> \in TwoParameters
      BY Append4 DEF TwoParameters, Alias, NextHop
    <3> QED BY <3>1 DEF BeforeParameter
  <2>3. Append(<<"neighbor", "<>", "logging", "host", "<>">>, "<>")
          = <<"neighbor", "<>", "logging", "host", "<>", "<>">>
    BY Append5
  <2> QED BY <2>1, <2>2, <2>3, ParameterNext
<1>10. SubCommand(<<"neighbor", "<>", "attribute", "bgp-id", "alias">>, token)
         = <<"neighbor", "<>", "attribute", "bgp-id", "alias", "<>">>
  <2>1. Word(<<"neighbor", "<>", "attribute", "bgp-id", "alias">>) = <<>>
    BY DEF Word, Attribute, Attr, Alias, AttributeName
  <2>2. BeforeParameter(<<"neighbor", "<>", "attribute", "bgp-id", "alias">>)
    BY DEF BeforeParameter, OneParameter, TwoParameters, Alias, NextHop
  <2>3. Append(<<"neighbor", "<>", "attribute", "bgp-id", "alias">>, "<>")
          = <<"neighbor", "<>", "attribute", "bgp-id", "alias", "<>">>
    BY Append5
  <2> QED BY <2>1, <2>2, <2>3, ParameterNext
<1>11. SubCommand(<<"neighbor", "<>", "attribute", "as-path", "alias">>, token)
         = <<"neighbor", "<>", "attribute", "as-path", "alias", "<>">>
  <2>1. Word(<<"neighbor", "<>", "attribute", "as-path", "alias">>) = <<>>
    BY DEF Word, Attribute, Attr, Alias, AttributeName
  <2>2. BeforeParameter(<<"neighbor", "<>", "attribute", "as-path", "alias">>)
    BY DEF BeforeParameter, OneParameter, TwoParameters, Alias, NextHop
  <2>3. Append(<<"neighbor", "<>", "attribute", "as-path", "alias">>, "<>")
          = <<"neighbor", "<>", "attribute", "as-path", "alias", "<>">>
    BY Append5
  <2> QED BY <2>1, <2>2, <2>3, ParameterNext
<1>12. SubCommand(<<"neighbor", "<>", "attribute", "as-path", "alias", "<>">>, token)
         = <<"neighbor", "<>", "attribute", "as-path", "alias", "<>", "<>">>
  <2>1. Word(<<"neighbor", "<>", "attribute", "as-path", "alias", "<>">>) = <<>>
    BY DEF Word, Attribute, Attr, Alias, AttributeName
  <2>2. BeforeParameter(<<"neighbor", "<>", "attribute", "as-path", "alias", "<>">>)
    <3>1. Append(<<"neighbor", "<>", "attribute", "as-path", "alias">>, "<>")
            = <<"neighbor", "<>", "attribute", "as-path", "alias", "<>">>
              /\ <<"neighbor", "<>", "attribute", "as-path", "alias">> \in TwoParameters
      BY Append5 DEF TwoParameters, Alias, NextHop
    <3> QED BY <3>1 DEF BeforeParameter
  <2>3. Append(<<"neighbor", "<>", "attribute", "as-path", "alias", "<>">>, "<>")
          = <<"neighbor", "<>", "attribute", "as-path", "alias", "<>", "<>">>
    BY Append6
  <2> QED BY <2>1, <2>2, <2>3, ParameterNext
<1>13. SubCommand(<<"neighbor", "<>", "attribute", "community", "alias">>, token)
         = <<"neighbor", "<>", "attribute", "community", "alias", "<>">>
  <2>1. Word(<<"neighbor", "<>", "attribute", "community", "alias">>) = <<>>
    BY DEF Word, Attribute, Attr, Alias, AttributeName
  <2>2. BeforeParameter(<<"neighbor", "<>", "attribute", "community", "alias">>)
    BY DEF BeforeParameter, OneParameter, TwoParameters, Alias, NextHop
  <2>3. Append(<<"neighbor", "<>", "attribute", "community", "alias">>, "<>")
          = <<"neighbor", "<>", "attribute", "community", "alias", "<>">>
    BY Append5
  <2> QED BY <2>1, <2>2, <2>3, ParameterNext
<1>14. SubCommand(<<"neighbor", "<>", "attribute", "community", "alias", "<>">>, token)
         = <<"neighbor", "<>", "attribute", "community", "alias", "<>", "<>">>
  <2>1. Word(<<"neighbor", "<>", "attribute", "community", "alias", "<>">>) = <<>>
    BY DEF Word, Attribute, Attr, Alias, AttributeName
  <2>2. BeforeParameter(<<"neighbor", "<>", "attribute", "community", "alias", "<>">>)
    <3>1. Append(<<"neighbor", "<>", "attribute", "community", "alias">>, "<>")
            = <<"neighbor", "<>", "attribute", "community", "alias", "<>">>
              /\ <<"neighbor", "<>", "attribute", "community", "alias">> \in TwoParameters
      BY Append5 DEF TwoParameters, Alias, NextHop
    <3> QED BY <3>1 DEF BeforeParameter
  <2>3. Append(<<"neighbor", "<>", "attribute", "community", "alias", "<>">>, "<>")
          = <<"neighbor", "<>", "attribute", "community", "alias", "<>", "<>">>
    BY Append6
  <2> QED BY <2>1, <2>2, <2>3, ParameterNext
<1>15. SubCommand(<<"neighbor", "<>", "attribute", "next-hop", "alias", "ipv4">>, token)
         = <<"neighbor", "<>", "attribute", "next-hop", "alias", "ipv4", "<>">>
  <2>1. Word(<<"neighbor", "<>", "attribute", "next-hop", "alias", "ipv4">>) = <<>>
    BY DEF Word, Attribute, Attr, Alias, AttributeName
  <2>2. BeforeParameter(<<"neighbor", "<>", "attribute", "next-hop", "alias", "ipv4">>)
    BY DEF BeforeParameter, OneParameter, TwoParameters, Alias, NextHop
  <2>3. Append(<<"neighbor", "<>", "attribute", "next-hop", "alias", "ipv4">>, "<>")
          = <<"neighbor", "<>", "attribute", "next-hop", "alias", "ipv4", "<>">>
    BY Append6
  <2> QED BY <2>1, <2>2, <2>3, ParameterNext
<1>16. SubCommand(<<"neighbor", "<>", "attribute", "next-hop", "alias", "ipv4", "<>">>, token)
         = <<"neighbor", "<>", "attribute", "next-hop", "alias", "ipv4", "<>", "<>">>
  <2>1. Word(<<"neighbor", "<>", "attribute", "next-hop", "alias", "ipv4", "<>">>) = <<>>
    BY DEF Word, Attribute, Attr, Alias, AttributeName
  <2>2. BeforeParameter(<<"neighbor", "<>", "attribute", "next-hop", "alias", "ipv4", "<>">>)
    <3>1. Append(<<"neighbor", "<>", "attribute", "next-hop", "alias", "ipv4">>, "<>")
            = <<"neighbor", "<>", "attribute", "next-hop", "alias", "ipv4", "<>">>
              /\ <<"neighbor", "<>", "attribute", "next-hop", "alias", "ipv4">> \in TwoParameters
      BY Append6 DEF TwoParameters, Alias, NextHop
    <3> QED BY <3>1 DEF BeforeParameter
  <2>3. Append(<<"neighbor", "<>", "attribute", "next-hop", "alias", "ipv4", "<>">>, "<>")
          = <<"neighbor", "<>", "attribute", "next-hop", "alias", "ipv4", "<>", "<>">>
    BY Append7
  <2> QED BY <2>1, <2>2, <2>3, ParameterNext
<1> QED BY <1>1, <1>2, <1>3, <1>4, <1>5, <1>6, <1>7, <1>8, <1>9, <1>10, <1>11, <1>12, <1>13, <1>14,
           <1>15, <1>16

\* ... and a word.
LEMMA Words ==
  /\ SubCommand(<<"dumper">>, "on") = <<"dumper", "on">>
  /\ SubCommand(<<"neighbor", "<>">>, "remote-as") = <<"neighbor", "<>", "remote-as">>
  /\ SubCommand(<<"neighbor", "<>">>, "tx-buffer") = <<"neighbor", "<>", "tx-buffer">>
  /\ SubCommand(<<"neighbor", "<>">>, "rx-buffer") = <<"neighbor", "<>", "rx-buffer">>
  /\ SubCommand(<<"neighbor", "<>">>, "logging") = <<"neighbor", "<>", "logging">>
  /\ SubCommand(<<"neighbor", "<>", "logging">>, "host") = <<"neighbor", "<>", "logging", "host">>
  /\ SubCommand(<<"neighbor", "<>">>, "attribute") = <<"neighbor", "<>", "attribute">>
  /\ SubCommand(<<"neighbor", "<>", "attribute">>, "bgp-id")
       = <<"neighbor", "<>", "attribute", "bgp-id">>
  /\ SubCommand(<<"neighbor", "<>", "attribute", "bgp-id">>, "alias")
       = <<"neighbor", "<>", "attribute", "bgp-id", "alias">>
  /\ SubCommand(<<"neighbor", "<>", "attribute">>, "as-path")
       = <<"neighbor", "<>", "attribute", "as-path">>
  /\ SubCommand(<<"neighbor", "<>", "attribute", "as-path">>, "alias")
       = <<"neighbor", "<>", "attribute", "as-path", "alias">>
  /\ SubCommand(<<"neighbor", "<>", "attribute">>, "community")
       = <<"neighbor", "<>", "attribute", "community">>
  /\ SubCommand(<<"neighbor", "<>", "attribute", "community">>, "alias")
       = <<"neighbor", "<>", "attribute", "community", "alias">>
  /\ SubCommand(<<"neighbor", "<>", "attribute">>, "next-hop")
       = <<"neighbor", "<>", "attribute", "next-hop">>
  /\ SubCommand(<<"neighbor", "<>", "attribute", "next-hop">>, "alias")
       = <<"neighbor", "<>", "attribute", "next-hop", "alias">>
  /\ SubCommand(<<"neighbor", "<>", "attribute", "next-hop", "alias">>, "ipv4")
       = <<"neighbor", "<>", "attribute", "next-hop", "alias", "ipv4">>
<1>1. SubCommand(<<"dumper">>, "on") = <<"dumper", "on">>
  <2>1. Word(<<"dumper">>) = <<"off", "on">>
    BY DEF Word, Attribute, Attr, Alias, AttributeName
  <2>2. Among(Word(<<"dumper">>), 2, "on") /\ "on" \in SavedWord
    BY <2>1 DEF Among, SavedWord
  <2>3. Append(<<"dumper">>, "on") = <<"dumper", "on">>
    BY Append1
  <2> QED BY <2>2, <2>3, WordNext
<1>2. SubCommand(<<"neighbor", "<>">>, "remote-as") = <<"neighbor", "<>", "remote-as">>
  <2>1. Word(<<"neighbor", "<>">>)
          = <<"attribute", "logging", "remote-as", "rx-buffer", "timers", "tx-buffer">>
    BY DEF Word, Attribute, Attr, Alias, AttributeName
  <2>2. Among(Word(<<"neighbor", "<>">>), 3, "remote-as") /\ "remote-as" \in SavedWord
    BY <2>1 DEF Among, SavedWord
  <2>3. Append(<<"neighbor", "<>">>, "remote-as") = <<"neighbor", "<>", "remote-as">>
    BY Append2
  <2> QED BY <2>2, <2>3, WordNext
<1>3. SubCommand(<<"neighbor", "<>">>, "tx-buffer") = <<"neighbor", "<>", "tx-buffer">>
  <2>1. Word(<<"neighbor", "<>">>)
          = <<"attribute", "logging", "remote-as", "rx-buffer", "timers", "tx-buffer">>
    BY DEF Word, Attribute, Attr, Alias, AttributeName
  <2>2. Among(Word(<<"neighbor", "<>">>), 6, "tx-buffer") /\ "tx-buffer" \in SavedWord
    BY <2>1, SMTT(60) DEF Among, SavedWord
  <2>3. Append(<<"neighbor", "<>">>, "tx-buffer") = <<"neighbor", "<>", "tx-buffer">>
    BY Append2
  <2> QED BY <2>2, <2>3, WordNext
<1>4. SubCommand(<<"neighbor", "<>">>, "rx-buffer") = <<"neighbor", "<>", "rx-buffer">>
  <2>1. Word(<<"neighbor", "<>">>)
          = <<"attribute", "logging", "remote-as", "rx-buffer", "timers", "tx-buffer">>
    BY DEF Word, Attribute, Attr, Alias, AttributeName
  <2>2. Among(Word(<<"neighbor", "<>">>), 4, "rx-buffer") /\ "rx-buffer" \in SavedWord
    BY <2>1 DEF Among, SavedWord
  <2>3. Append(<<"neighbor", "<>">>, "rx-buffer") = <<"neighbor", "<>", "rx-buffer">>
    BY Append2
  <2> QED BY <2>2, <2>3, WordNext
<1>5. SubCommand(<<"neighbor", "<>">>, "logging") = <<"neighbor", "<>", "logging">>
  <2>1. Word(<<"neighbor", "<>">>)
          = <<"attribute", "logging", "remote-as", "rx-buffer", "timers", "tx-buffer">>
    BY DEF Word, Attribute, Attr, Alias, AttributeName
  <2>2. Among(Word(<<"neighbor", "<>">>), 2, "logging") /\ "logging" \in SavedWord
    BY <2>1 DEF Among, SavedWord
  <2>3. Append(<<"neighbor", "<>">>, "logging") = <<"neighbor", "<>", "logging">>
    BY Append2
  <2> QED BY <2>2, <2>3, WordNext
<1>6. SubCommand(<<"neighbor", "<>", "logging">>, "host") = <<"neighbor", "<>", "logging", "host">>
  <2>1. Word(<<"neighbor", "<>", "logging">>) = <<"host">>
    BY DEF Word, Attribute, Attr, Alias, AttributeName
  <2>2. Among(Word(<<"neighbor", "<>", "logging">>), 1, "host") /\ "host" \in SavedWord
    BY <2>1 DEF Among, SavedWord
  <2>3. Append(<<"neighbor", "<>", "logging">>, "host") = <<"neighbor", "<>", "logging", "host">>
    BY Append3
  <2> QED BY <2>2, <2>3, WordNext
<1>7. SubCommand(<<"neighbor", "<>">>, "attribute") = <<"neighbor", "<>", "attribute">>
  <2>1. Word(<<"neighbor", "<>">>)
          = <<"attribute", "logging", "remote-as", "rx-buffer", "timers", "tx-buffer">>
    BY DEF Word, Attribute, Attr, Alias, AttributeName
  <2>2. Among(Word(<<"neighbor", "<>">>), 1, "attribute") /\ "attribute" \in SavedWord
    BY <2>1 DEF Among, SavedWord
  <2>3. Append(<<"neighbor", "<>">>, "attribute") = <<"neighbor", "<>", "attribute">>
    BY Append2
  <2> QED BY <2>2, <2>3, WordNext
<1>8. SubCommand(<<"neighbor", "<>", "attribute">>, "bgp-id")
        = <<"neighbor", "<>", "attribute", "bgp-id">>
  <2>1. Word(<<"neighbor", "<>", "attribute">>)
          = <<"bgp-id", "origin", "as-path", "next-hop", "med", "local-pref", "atomic-aggr",
          "community">>
    BY DEF Word, Attribute, Attr, Alias, AttributeName
  <2>2. Among(Word(<<"neighbor", "<>", "attribute">>), 1, "bgp-id") /\ "bgp-id" \in SavedWord
    BY <2>1 DEF Among, SavedWord
  <2>3. Append(<<"neighbor", "<>", "attribute">>, "bgp-id")
          = <<"neighbor", "<>", "attribute", "bgp-id">>
    BY Append3
  <2> QED BY <2>2, <2>3, WordNext
<1>9. SubCommand(<<"neighbor", "<>", "attribute", "bgp-id">>, "alias")
        = <<"neighbor", "<>", "attribute", "bgp-id", "alias">>
  <2>1. Word(<<"neighbor", "<>", "attribute", "bgp-id">>) = <<"alias">>
    BY DEF Word, Attribute, Attr, Alias, AttributeName
  <2>2. Among(Word(<<"neighbor", "<>", "attribute", "bgp-id">>), 1, "alias")
          /\ "alias" \in SavedWord
    BY <2>1 DEF Among, SavedWord
  <2>3. Append(<<"neighbor", "<>", "attribute", "bgp-id">>, "alias")
          = <<"neighbor", "<>", "attribute", "bgp-id", "alias">>
    BY Append4
  <2> QED BY <2>2, <2>3, WordNext
<1>10. SubCommand(<<"neighbor", "<>", "attribute">>, "as-path")
         = <<"neighbor", "<>", "attribute", "as-path">>
  <2>1. Word(<<"neighbor", "<>", "attribute">>)
          = <<"bgp-id", "origin", "as-path", "next-hop", "med", "local-pref", "atomic-aggr",
          "community">>
    BY DEF Word, Attribute, Attr, Alias, AttributeName
  <2>2. Among(Word(<<"neighbor", "<>", "attribute">>), 3, "as-path") /\ "as-path" \in SavedWord
    BY <2>1 DEF Among, SavedWord
  <2>3. Append(<<"neighbor", "<>", "attribute">>, "as-path")
          = <<"neighbor", "<>", "attribute", "as-path">>
    BY Append3
  <2> QED BY <2>2, <2>3, WordNext
<1>11. SubCommand(<<"neighbor", "<>", "attribute", "as-path">>, "alias")
         = <<"neighbor", "<>", "attribute", "as-path", "alias">>
  <2>1. Word(<<"neighbor", "<>", "attribute", "as-path">>) = <<"alias">>
    BY DEF Word, Attribute, Attr, Alias, AttributeName
  <2>2. Among(Word(<<"neighbor", "<>", "attribute", "as-path">>), 1, "alias")
          /\ "alias" \in SavedWord
    BY <2>1 DEF Among, SavedWord
  <2>3. Append(<<"neighbor", "<>", "attribute", "as-path">>, "alias")
          = <<"neighbor", "<>", "attribute", "as-path", "alias">>
    BY Append4
  <2> QED BY <2>2, <2>3, WordNext
<1>12. SubCommand(<<"neighbor", "<>", "attribute">>, "community")
         = <<"neighbor", "<>", "attribute", "community">>
  <2>1. Word(<<"neighbor", "<>", "attribute">>)
          = <<"bgp-id", "origin", "as-path", "next-hop", "med", "local-pref", "atomic-aggr",
          "community">>
    BY DEF Word, Attribute, Attr, Alias, AttributeName
  <2>2. Among(Word(<<"neighbor", "<>", "attribute">>), 8, "community") /\ "community" \in SavedWord
    BY <2>1 DEF Among, SavedWord
  <2>3. Append(<<"neighbor", "<>", "attribute">>, "community")
          = <<"neighbor", "<>", "attribute", "community">>
    BY Append3
  <2> QED BY <2>2, <2>3, WordNext
<1>13. SubCommand(<<"neighbor", "<>", "attribute", "community">>, "alias")
         = <<"neighbor", "<>", "attribute", "community", "alias">>
  <2>1. Word(<<"neighbor", "<>", "attribute", "community">>) = <<"alias">>
    BY DEF Word, Attribute, Attr, Alias, AttributeName
  <2>2. Among(Word(<<"neighbor", "<>", "attribute", "community">>), 1, "alias")
          /\ "alias" \in SavedWord
    BY <2>1 DEF Among, SavedWord
  <2>3. Append(<<"neighbor", "<>", "attribute", "community">>, "alias")
          = <<"neighbor", "<>", "attribute", "community", "alias">>
    BY Append4
  <2> QED BY <2>2, <2>3, WordNext
<1>14. SubCommand(<<"neighbor", "<>", "attribute">>, "next-hop")
         = <<"neighbor", "<>", "attribute", "next-hop">>
  <2>1. Word(<<"neighbor", "<>", "attribute">>)
          = <<"bgp-id", "origin", "as-path", "next-hop", "med", "local-pref", "atomic-aggr",
          "community">>
    BY DEF Word, Attribute, Attr, Alias, AttributeName
  <2>2. Among(Word(<<"neighbor", "<>", "attribute">>), 4, "next-hop") /\ "next-hop" \in SavedWord
    BY <2>1 DEF Among, SavedWord
  <2>3. Append(<<"neighbor", "<>", "attribute">>, "next-hop")
          = <<"neighbor", "<>", "attribute", "next-hop">>
    BY Append3
  <2> QED BY <2>2, <2>3, WordNext
<1>15. SubCommand(<<"neighbor", "<>", "attribute", "next-hop">>, "alias")
         = <<"neighbor", "<>", "attribute", "next-hop", "alias">>
  <2>1. Word(<<"neighbor", "<>", "attribute", "next-hop">>) = <<"alias">>
    BY DEF Word, Attribute, Attr, Alias, AttributeName
  <2>2. Among(Word(<<"neighbor", "<>", "attribute", "next-hop">>), 1, "alias")
          /\ "alias" \in SavedWord
    BY <2>1 DEF Among, SavedWord
  <2>3. Append(<<"neighbor", "<>", "attribute", "next-hop">>, "alias")
          = <<"neighbor", "<>", "attribute", "next-hop", "alias">>
    BY Append4
  <2> QED BY <2>2, <2>3, WordNext
<1>16. SubCommand(<<"neighbor", "<>", "attribute", "next-hop", "alias">>, "ipv4")
         = <<"neighbor", "<>", "attribute", "next-hop", "alias", "ipv4">>
  <2>1. Word(<<"neighbor", "<>", "attribute", "next-hop", "alias">>) = <<"ipv4", "ipv6">>
    BY DEF Word, Attribute, Attr, Alias, AttributeName
  <2>2. Among(Word(<<"neighbor", "<>", "attribute", "next-hop", "alias">>), 1, "ipv4")
          /\ "ipv4" \in SavedWord
    BY <2>1 DEF Among, SavedWord
  <2>3. Append(<<"neighbor", "<>", "attribute", "next-hop", "alias">>, "ipv4")
          = <<"neighbor", "<>", "attribute", "next-hop", "alias", "ipv4">>
    BY Append5
  <2> QED BY <2>2, <2>3, WordNext
<1> QED BY <1>1, <1>2, <1>3, <1>4, <1>5, <1>6, <1>7, <1>8, <1>9, <1>10, <1>11, <1>12, <1>13, <1>14,
           <1>15, <1>16

\* The line leads to the node, and the node has the function.
Calls(tokens, func) == Command(tokens) # Null /\ Function(Command(tokens)) = func

LEMMA BgpIdCommand ==
  ASSUME NEW v
  PROVE  Calls(<<"bgp-id", v>>, "set_bgp_id")
<1> DEFINE n1 == <<"bgp-id">>
           n2 == <<"bgp-id", "<>">>
           node == <<n1, n2>>
           tokens == <<"bgp-id", v>>
           S == {"<>", "bgp-id"}
<1>1. /\ RootCommand("bgp-id") = n1
      /\ SubCommand(n1, v) = n2
  BY RootNext, Parameters, Words
<1>2. n1 # Null /\ n2 # Null /\ Len(n2) = 2 /\ Len(n1) = 1
  BY DEF Null
<1>3. n2 \in Seq(S) /\ n1 \in Seq(S)
  OBVIOUS
<1>4. Len(n1) \in 1..Len(n2) /\ \A i \in 1..Len(n1) : n1[i] = n2[i]
  <2>1. n1[1] = n2[1]
    OBVIOUS
  <2>2. \A i \in 1..Len(n1) : i \in {1}
    BY <1>2
  <2> QED BY <1>2, <2>1, <2>2
<1>5. Func(n1) = "set_bgp_id" /\ Func(n1) # Inherited
  BY DEF Func, Attribute, Attr, NextHop, Inherited
<1>6. ASSUME NEW p \in Seq(S), Len(p) > Len(n1), Len(p) <= Len(n2),
             \A i \in 1..Len(p) : p[i] = n2[i]
      PROVE  Func(p) = Inherited
  BY <1>6, FuncPlace
<1> HIDE DEF n1, n2, S
<1>7. Command(tokens) = n2
  <2>1. Len(tokens) = 2 /\ node[2] = n2
    OBVIOUS
  <2>2. \A i \in 1..(2 - 1) : i \in {1}
    OBVIOUS
  <2>3. Leads(tokens, node)
    BY <1>1, <1>2, <2>1, <2>2 DEF Leads
  <2> HIDE DEF node, tokens
  <2> QED BY <2>1, <2>3, CommandIs
<1>8. Function(n2) = Func(n1)
  BY <1>2, <1>3, <1>4, <1>5, <1>6, FunctionIs, ZenonT(60)
<1> QED BY <1>2, <1>5, <1>7, <1>8 DEF Calls

LEMMA DumperCommand ==
  Calls(<<"dumper", "on">>, "toggle_update_dump")
<1> DEFINE n1 == <<"dumper">>
           n2 == <<"dumper", "on">>
           node == <<n1, n2>>
           tokens == <<"dumper", "on">>
           S == {"dumper", "on"}
<1>1. /\ RootCommand("dumper") = n1
      /\ SubCommand(n1, "on") = n2
  BY RootNext, Parameters, Words
<1>2. n1 # Null /\ n2 # Null /\ Len(n2) = 2 /\ Len(n1) = 1
  BY DEF Null
<1>3. n2 \in Seq(S) /\ n1 \in Seq(S)
  OBVIOUS
<1>4. Len(n1) \in 1..Len(n2) /\ \A i \in 1..Len(n1) : n1[i] = n2[i]
  <2>1. n1[1] = n2[1]
    OBVIOUS
  <2>2. \A i \in 1..Len(n1) : i \in {1}
    BY <1>2
  <2> QED BY <1>2, <2>1, <2>2
<1>5. Func(n1) = "toggle_update_dump" /\ Func(n1) # Inherited
  BY DEF Func, Attribute, Attr, NextHop, Inherited
<1>6. ASSUME NEW p \in Seq(S), Len(p) > Len(n1), Len(p) <= Len(n2),
             \A i \in 1..Len(p) : p[i] = n2[i]
      PROVE  Func(p) = Inherited
  BY <1>6, FuncPlace
<1> HIDE DEF n1, n2, S
<1>7. Command(tokens) = n2
  <2>1. Len(tokens) = 2 /\ node[2] = n2
    OBVIOUS
  <2>2. \A i \in 1..(2 - 1) : i \in {1}
    OBVIOUS
  <2>3. Leads(tokens, node)
    BY <1>1, <1>2, <2>1, <2>2 DEF Leads
  <2> HIDE DEF node, tokens
  <2> QED BY <2>1, <2>3, CommandIs
<1>8. Function(n2) = Func(n1)
  BY <1>2, <1>3, <1>4, <1>5, <1>6, FunctionIs, ZenonT(60)
<1> QED BY <1>2, <1>5, <1>7, <1>8 DEF Calls

LEMMA RemoteAsCommand ==
  ASSUME NEW ip, NEW v
  PROVE  Calls(<<"neighbor", ip, "remote-as", v>>, "proto_bgp_neighbor")
<1> DEFINE n1 == <<"neighbor">>
           n2 == <<"neighbor", "<>">>
           n3 == <<"neighbor", "<>", "remote-as">>
           n4 == <<"neighbor", "<>", "remote-as", "<>">>
           node == <<n1, n2, n3, n4>>
           tokens == <<"neighbor", ip, "remote-as", v>>
           S == {"<>", "neighbor", "remote-as"}
<1>1. /\ RootCommand("neighbor") = n1
      /\ SubCommand(n1, ip) = n2
      /\ SubCommand(n2, "remote-as") = n3
      /\ SubCommand(n3, v) = n4
  BY RootNext, Parameters, Words
<1>2. n1 # Null /\ n4 # Null /\ Len(n4) = 4 /\ Len(n1) = 1
  BY DEF Null
<1>3. n4 \in Seq(S) /\ n1 \in Seq(S)
  OBVIOUS
<1>4. Len(n1) \in 1..Len(n4) /\ \A i \in 1..Len(n1) : n1[i] = n4[i]
  <2>1. n1[1] = n4[1]
    OBVIOUS
  <2>2. \A i \in 1..Len(n1) : i \in {1}
    BY <1>2
  <2> QED BY <1>2, <2>1, <2>2
<1>5. Func(n1) = "proto_bgp_neighbor" /\ Func(n1) # Inherited
  BY DEF Func, Attribute, Attr, NextHop, Inherited
<1>6. ASSUME NEW p \in Seq(S), Len(p) > Len(n1), Len(p) <= Len(n4),
             \A i \in 1..Len(p) : p[i] = n4[i]
      PROVE  Func(p) = Inherited
  BY <1>6, FuncPlace
<1> HIDE DEF n1, n2, n3, n4, S
<1>7. Command(tokens) = n4
  <2>1. Len(tokens) = 4 /\ node[4] = n4
    OBVIOUS
  <2>2. \A i \in 1..(4 - 1) : i \in {1, 2, 3}
    OBVIOUS
  <2>3. Leads(tokens, node)
    BY <1>1, <1>2, <2>1, <2>2 DEF Leads
  <2> HIDE DEF node, tokens
  <2> QED BY <2>1, <2>3, CommandIs
<1>8. Function(n4) = Func(n1)
  BY <1>2, <1>3, <1>4, <1>5, <1>6, FunctionIs, ZenonT(60)
<1> QED BY <1>2, <1>5, <1>7, <1>8 DEF Calls

LEMMA TxBufferCommand ==
  ASSUME NEW ip, NEW v, NEW w
  PROVE  Calls(<<"neighbor", ip, "tx-buffer", v, w>>, "snd_buffer_size")
<1> DEFINE n1 == <<"neighbor">>
           n2 == <<"neighbor", "<>">>
           n3 == <<"neighbor", "<>", "tx-buffer">>
           n4 == <<"neighbor", "<>", "tx-buffer", "<>">>
           n5 == <<"neighbor", "<>", "tx-buffer", "<>", "<>">>
           node == <<n1, n2, n3, n4, n5>>
           tokens == <<"neighbor", ip, "tx-buffer", v, w>>
           S == {"<>", "neighbor", "tx-buffer"}
<1>1. /\ RootCommand("neighbor") = n1
      /\ SubCommand(n1, ip) = n2
      /\ SubCommand(n2, "tx-buffer") = n3
      /\ SubCommand(n3, v) = n4
      /\ SubCommand(n4, w) = n5
  BY RootNext, Parameters, Words
<1>2. n1 # Null /\ n5 # Null /\ Len(n5) = 5 /\ Len(n3) = 3
  BY DEF Null
<1>3. n5 \in Seq(S) /\ n3 \in Seq(S)
  OBVIOUS
<1>4. Len(n3) \in 1..Len(n5) /\ \A i \in 1..Len(n3) : n3[i] = n5[i]
  <2>1. n3[1] = n5[1] /\ n3[2] = n5[2] /\ n3[3] = n5[3]
    OBVIOUS
  <2>2. \A i \in 1..Len(n3) : i \in {1, 2, 3}
    BY <1>2
  <2> QED BY <1>2, <2>1, <2>2
<1>5. Func(n3) = "snd_buffer_size" /\ Func(n3) # Inherited
  BY DEF Func, Attribute, Attr, NextHop, Inherited
<1>6. ASSUME NEW p \in Seq(S), Len(p) > Len(n3), Len(p) <= Len(n5),
             \A i \in 1..Len(p) : p[i] = n5[i]
      PROVE  Func(p) = Inherited
  BY <1>6, FuncPlace
<1> HIDE DEF n1, n2, n3, n4, n5, S
<1>7. Command(tokens) = n5
  <2>1. Len(tokens) = 5 /\ node[5] = n5
    OBVIOUS
  <2>2. \A i \in 1..(5 - 1) : i \in {1, 2, 3, 4}
    OBVIOUS
  <2>3. Leads(tokens, node)
    BY <1>1, <1>2, <2>1, <2>2 DEF Leads
  <2> HIDE DEF node, tokens
  <2> QED BY <2>1, <2>3, CommandIs
<1>8. Function(n5) = Func(n3)
  BY <1>2, <1>3, <1>4, <1>5, <1>6, FunctionIs, ZenonT(60)
<1> QED BY <1>2, <1>5, <1>7, <1>8 DEF Calls

LEMMA RxBufferCommand ==
  ASSUME NEW ip, NEW v, NEW w
  PROVE  Calls(<<"neighbor", ip, "rx-buffer", v, w>>, "rcv_buffer_size")
<1> DEFINE n1 == <<"neighbor">>
           n2 == <<"neighbor", "<>">>
           n3 == <<"neighbor", "<>", "rx-buffer">>
           n4 == <<"neighbor", "<>", "rx-buffer", "<>">>
           n5 == <<"neighbor", "<>", "rx-buffer", "<>", "<>">>
           node == <<n1, n2, n3, n4, n5>>
           tokens == <<"neighbor", ip, "rx-buffer", v, w>>
           S == {"<>", "neighbor", "rx-buffer"}
<1>1. /\ RootCommand("neighbor") = n1
      /\ SubCommand(n1, ip) = n2
      /\ SubCommand(n2, "rx-buffer") = n3
      /\ SubCommand(n3, v) = n4
      /\ SubCommand(n4, w) = n5
  BY RootNext, Parameters, Words
<1>2. n1 # Null /\ n5 # Null /\ Len(n5) = 5 /\ Len(n3) = 3
  BY DEF Null
<1>3. n5 \in Seq(S) /\ n3 \in Seq(S)
  OBVIOUS
<1>4. Len(n3) \in 1..Len(n5) /\ \A i \in 1..Len(n3) : n3[i] = n5[i]
  <2>1. n3[1] = n5[1] /\ n3[2] = n5[2] /\ n3[3] = n5[3]
    OBVIOUS
  <2>2. \A i \in 1..Len(n3) : i \in {1, 2, 3}
    BY <1>2
  <2> QED BY <1>2, <2>1, <2>2
<1>5. Func(n3) = "rcv_buffer_size" /\ Func(n3) # Inherited
  BY DEF Func, Attribute, Attr, NextHop, Inherited
<1>6. ASSUME NEW p \in Seq(S), Len(p) > Len(n3), Len(p) <= Len(n5),
             \A i \in 1..Len(p) : p[i] = n5[i]
      PROVE  Func(p) = Inherited
  BY <1>6, FuncPlace
<1> HIDE DEF n1, n2, n3, n4, n5, S
<1>7. Command(tokens) = n5
  <2>1. Len(tokens) = 5 /\ node[5] = n5
    OBVIOUS
  <2>2. \A i \in 1..(5 - 1) : i \in {1, 2, 3, 4}
    OBVIOUS
  <2>3. Leads(tokens, node)
    BY <1>1, <1>2, <2>1, <2>2 DEF Leads
  <2> HIDE DEF node, tokens
  <2> QED BY <2>1, <2>3, CommandIs
<1>8. Function(n5) = Func(n3)
  BY <1>2, <1>3, <1>4, <1>5, <1>6, FunctionIs, ZenonT(60)
<1> QED BY <1>2, <1>5, <1>7, <1>8 DEF Calls

LEMMA LoggingCommand ==
  ASSUME NEW ip, NEW v, NEW w
  PROVE  Calls(<<"neighbor", ip, "logging", "host", v, w>>, "set_peer_logging")
<1> DEFINE n1 == <<"neighbor">>
           n2 == <<"neighbor", "<>">>
           n3 == <<"neighbor", "<>", "logging">>
           n4 == <<"neighbor", "<>", "logging", "host">>
           n5 == <<"neighbor", "<>", "logging", "host", "<>">>
           n6 == <<"neighbor", "<>", "logging", "host", "<>", "<>">>
           node == <<n1, n2, n3, n4, n5, n6>>
           tokens == <<"neighbor", ip, "logging", "host", v, w>>
           S == {"<>", "host", "logging", "neighbor"}
<1>1. /\ RootCommand("neighbor") = n1
      /\ SubCommand(n1, ip) = n2
      /\ SubCommand(n2, "logging") = n3
      /\ SubCommand(n3, "host") = n4
      /\ SubCommand(n4, v) = n5
      /\ SubCommand(n5, w) = n6
  BY RootNext, Parameters, Words
<1>2. n1 # Null /\ n6 # Null /\ Len(n6) = 6 /\ Len(n3) = 3
  BY DEF Null
<1>3. n6 \in Seq(S) /\ n3 \in Seq(S)
  OBVIOUS
<1>4. Len(n3) \in 1..Len(n6) /\ \A i \in 1..Len(n3) : n3[i] = n6[i]
  <2>1. n3[1] = n6[1] /\ n3[2] = n6[2] /\ n3[3] = n6[3]
    OBVIOUS
  <2>2. \A i \in 1..Len(n3) : i \in {1, 2, 3}
    BY <1>2
  <2> QED BY <1>2, <2>1, <2>2
<1>5. Func(n3) = "set_peer_logging" /\ Func(n3) # Inherited
  BY DEF Func, Attribute, Attr, NextHop, Inherited
<1>6. ASSUME NEW p \in Seq(S), Len(p) > Len(n3), Len(p) <= Len(n6),
             \A i \in 1..Len(p) : p[i] = n6[i]
      PROVE  Func(p) = Inherited
  BY <1>6, FuncPlace
<1> HIDE DEF n1, n2, n3, n4, n5, n6, S
<1>7. Command(tokens) = n6
  <2>1. Len(tokens) = 6 /\ node[6] = n6
    OBVIOUS
  <2>2. \A i \in 1..(6 - 1) : i \in {1, 2, 3, 4, 5}
    OBVIOUS
  <2>3. Leads(tokens, node)
    BY <1>1, <1>2, <2>1, <2>2 DEF Leads
  <2> HIDE DEF node, tokens
  <2> QED BY <2>1, <2>3, CommandIs
<1>8. Function(n6) = Func(n3)
  BY <1>2, <1>3, <1>4, <1>5, <1>6, FunctionIs, ZenonT(60)
<1> QED BY <1>2, <1>5, <1>7, <1>8 DEF Calls

LEMMA BgpIdAliasCommand ==
  ASSUME NEW ip, NEW name
  PROVE  Calls(<<"neighbor", ip, "attribute", "bgp-id", "alias", name>>, "alias_bgp_id")
<1> DEFINE n1 == <<"neighbor">>
           n2 == <<"neighbor", "<>">>
           n3 == <<"neighbor", "<>", "attribute">>
           n4 == <<"neighbor", "<>", "attribute", "bgp-id">>
           n5 == <<"neighbor", "<>", "attribute", "bgp-id", "alias">>
           n6 == <<"neighbor", "<>", "attribute", "bgp-id", "alias", "<>">>
           node == <<n1, n2, n3, n4, n5, n6>>
           tokens == <<"neighbor", ip, "attribute", "bgp-id", "alias", name>>
           S == {"<>", "alias", "attribute", "bgp-id", "neighbor"}
<1>1. /\ RootCommand("neighbor") = n1
      /\ SubCommand(n1, ip) = n2
      /\ SubCommand(n2, "attribute") = n3
      /\ SubCommand(n3, "bgp-id") = n4
      /\ SubCommand(n4, "alias") = n5
      /\ SubCommand(n5, name) = n6
  BY RootNext, Parameters, Words
<1>2. n1 # Null /\ n6 # Null /\ Len(n6) = 6 /\ Len(n4) = 4
  BY DEF Null
<1>3. n6 \in Seq(S) /\ n4 \in Seq(S)
  OBVIOUS
<1>4. Len(n4) \in 1..Len(n6) /\ \A i \in 1..Len(n4) : n4[i] = n6[i]
  <2>1. n4[1] = n6[1] /\ n4[2] = n6[2] /\ n4[3] = n6[3] /\ n4[4] = n6[4]
    OBVIOUS
  <2>2. \A i \in 1..Len(n4) : i \in {1, 2, 3, 4}
    BY <1>2
  <2> QED BY <1>2, <2>1, <2>2
<1>5. Func(n4) = "alias_bgp_id" /\ Func(n4) # Inherited
  BY DEF Func, Attribute, Attr, NextHop, Inherited
<1>6. ASSUME NEW p \in Seq(S), Len(p) > Len(n4), Len(p) <= Len(n6),
             \A i \in 1..Len(p) : p[i] = n6[i]
      PROVE  Func(p) = Inherited
  BY <1>6, FuncPlace
<1> HIDE DEF n1, n2, n3, n4, n5, n6, S
<1>7. Command(tokens) = n6
  <2>1. Len(tokens) = 6 /\ node[6] = n6
    OBVIOUS
  <2>2. \A i \in 1..(6 - 1) : i \in {1, 2, 3, 4, 5}
    OBVIOUS
  <2>3. Leads(tokens, node)
    BY <1>1, <1>2, <2>1, <2>2 DEF Leads
  <2> HIDE DEF node, tokens
  <2> QED BY <2>1, <2>3, CommandIs
<1>8. Function(n6) = Func(n4)
  BY <1>2, <1>3, <1>4, <1>5, <1>6, FunctionIs, ZenonT(60)
<1> QED BY <1>2, <1>5, <1>7, <1>8 DEF Calls

LEMMA AsPathAliasCommand ==
  ASSUME NEW ip, NEW v, NEW name
  PROVE  Calls(<<"neighbor", ip, "attribute", "as-path", "alias", v, name>>, "alias_as_path")
<1> DEFINE n1 == <<"neighbor">>
           n2 == <<"neighbor", "<>">>
           n3 == <<"neighbor", "<>", "attribute">>
           n4 == <<"neighbor", "<>", "attribute", "as-path">>
           n5 == <<"neighbor", "<>", "attribute", "as-path", "alias">>
           n6 == <<"neighbor", "<>", "attribute", "as-path", "alias", "<>">>
           n7 == <<"neighbor", "<>", "attribute", "as-path", "alias", "<>", "<>">>
           node == <<n1, n2, n3, n4, n5, n6, n7>>
           tokens == <<"neighbor", ip, "attribute", "as-path", "alias", v, name>>
           S == {"<>", "alias", "as-path", "attribute", "neighbor"}
<1>1. /\ RootCommand("neighbor") = n1
      /\ SubCommand(n1, ip) = n2
      /\ SubCommand(n2, "attribute") = n3
      /\ SubCommand(n3, "as-path") = n4
      /\ SubCommand(n4, "alias") = n5
      /\ SubCommand(n5, v) = n6
      /\ SubCommand(n6, name) = n7
  BY RootNext, Parameters, Words
<1>2. n1 # Null /\ n7 # Null /\ Len(n7) = 7 /\ Len(n4) = 4
  BY DEF Null
<1>3. n7 \in Seq(S) /\ n4 \in Seq(S)
  OBVIOUS
<1>4. Len(n4) \in 1..Len(n7) /\ \A i \in 1..Len(n4) : n4[i] = n7[i]
  <2>1. n4[1] = n7[1] /\ n4[2] = n7[2] /\ n4[3] = n7[3] /\ n4[4] = n7[4]
    OBVIOUS
  <2>2. \A i \in 1..Len(n4) : i \in {1, 2, 3, 4}
    BY <1>2
  <2> QED BY <1>2, <2>1, <2>2
<1>5. Func(n4) = "alias_as_path" /\ Func(n4) # Inherited
  BY DEF Func, Attribute, Attr, NextHop, Inherited
<1>6. ASSUME NEW p \in Seq(S), Len(p) > Len(n4), Len(p) <= Len(n7),
             \A i \in 1..Len(p) : p[i] = n7[i]
      PROVE  Func(p) = Inherited
  BY <1>6, FuncPlace, SMTT(20)
<1> HIDE DEF n1, n2, n3, n4, n5, n6, n7, S
<1>7. Command(tokens) = n7
  <2>1. Len(tokens) = 7 /\ node[7] = n7
    OBVIOUS
  <2>2. \A i \in 1..(7 - 1) : i \in {1, 2, 3, 4, 5, 6}
    OBVIOUS
  <2>3. Leads(tokens, node)
    BY <1>1, <1>2, <2>1, <2>2 DEF Leads
  <2> HIDE DEF node, tokens
  <2> QED BY <2>1, <2>3, CommandIs
<1>8. Function(n7) = Func(n4)
  BY <1>2, <1>3, <1>4, <1>5, <1>6, FunctionIs, ZenonT(60)
<1> QED BY <1>2, <1>5, <1>7, <1>8 DEF Calls

LEMMA CommunityAliasCommand ==
  ASSUME NEW ip, NEW v, NEW name
  PROVE  Calls(<<"neighbor", ip, "attribute", "community", "alias", v, name>>, "alias_community")
<1> DEFINE n1 == <<"neighbor">>
           n2 == <<"neighbor", "<>">>
           n3 == <<"neighbor", "<>", "attribute">>
           n4 == <<"neighbor", "<>", "attribute", "community">>
           n5 == <<"neighbor", "<>", "attribute", "community", "alias">>
           n6 == <<"neighbor", "<>", "attribute", "community", "alias", "<>">>
           n7 == <<"neighbor", "<>", "attribute", "community", "alias", "<>", "<>">>
           node == <<n1, n2, n3, n4, n5, n6, n7>>
           tokens == <<"neighbor", ip, "attribute", "community", "alias", v, name>>
           S == {"<>", "alias", "attribute", "community", "neighbor"}
<1>1. /\ RootCommand("neighbor") = n1
      /\ SubCommand(n1, ip) = n2
      /\ SubCommand(n2, "attribute") = n3
      /\ SubCommand(n3, "community") = n4
      /\ SubCommand(n4, "alias") = n5
      /\ SubCommand(n5, v) = n6
      /\ SubCommand(n6, name) = n7
  BY RootNext, Parameters, Words
<1>2. n1 # Null /\ n7 # Null /\ Len(n7) = 7 /\ Len(n4) = 4
  BY DEF Null
<1>3. n7 \in Seq(S) /\ n4 \in Seq(S)
  OBVIOUS
<1>4. Len(n4) \in 1..Len(n7) /\ \A i \in 1..Len(n4) : n4[i] = n7[i]
  <2>1. n4[1] = n7[1] /\ n4[2] = n7[2] /\ n4[3] = n7[3] /\ n4[4] = n7[4]
    OBVIOUS
  <2>2. \A i \in 1..Len(n4) : i \in {1, 2, 3, 4}
    BY <1>2
  <2> QED BY <1>2, <2>1, <2>2
<1>5. Func(n4) = "alias_community" /\ Func(n4) # Inherited
  BY DEF Func, Attribute, Attr, NextHop, Inherited
<1>6. ASSUME NEW p \in Seq(S), Len(p) > Len(n4), Len(p) <= Len(n7),
             \A i \in 1..Len(p) : p[i] = n7[i]
      PROVE  Func(p) = Inherited
  BY <1>6, FuncPlace
<1> HIDE DEF n1, n2, n3, n4, n5, n6, n7, S
<1>7. Command(tokens) = n7
  <2>1. Len(tokens) = 7 /\ node[7] = n7
    OBVIOUS
  <2>2. \A i \in 1..(7 - 1) : i \in {1, 2, 3, 4, 5, 6}
    OBVIOUS
  <2>3. Leads(tokens, node)
    BY <1>1, <1>2, <2>1, <2>2 DEF Leads
  <2> HIDE DEF node, tokens
  <2> QED BY <2>1, <2>3, CommandIs
<1>8. Function(n7) = Func(n4)
  BY <1>2, <1>3, <1>4, <1>5, <1>6, FunctionIs, ZenonT(60)
<1> QED BY <1>2, <1>5, <1>7, <1>8 DEF Calls

LEMMA NextHopAliasCommand ==
  ASSUME NEW ip, NEW v, NEW name
  PROVE  Calls(<<"neighbor", ip, "attribute", "next-hop", "alias", "ipv4", v, name>>,
         "alias_v4nexthop")
<1> DEFINE n1 == <<"neighbor">>
           n2 == <<"neighbor", "<>">>
           n3 == <<"neighbor", "<>", "attribute">>
           n4 == <<"neighbor", "<>", "attribute", "next-hop">>
           n5 == <<"neighbor", "<>", "attribute", "next-hop", "alias">>
           n6 == <<"neighbor", "<>", "attribute", "next-hop", "alias", "ipv4">>
           n7 == <<"neighbor", "<>", "attribute", "next-hop", "alias", "ipv4", "<>">>
           n8 == <<"neighbor", "<>", "attribute", "next-hop", "alias", "ipv4", "<>", "<>">>
           node == <<n1, n2, n3, n4, n5, n6, n7, n8>>
           tokens == <<"neighbor", ip, "attribute", "next-hop", "alias", "ipv4", v, name>>
           S == {"<>", "alias", "attribute", "ipv4", "neighbor", "next-hop"}
<1>1. /\ RootCommand("neighbor") = n1
      /\ SubCommand(n1, ip) = n2
      /\ SubCommand(n2, "attribute") = n3
      /\ SubCommand(n3, "next-hop") = n4
      /\ SubCommand(n4, "alias") = n5
      /\ SubCommand(n5, "ipv4") = n6
      /\ SubCommand(n6, v) = n7
      /\ SubCommand(n7, name) = n8
  BY RootNext, Parameters, Words
<1>2. n1 # Null /\ n8 # Null /\ Len(n8) = 8 /\ Len(n6) = 6
  BY DEF Null
<1>3. n8 \in Seq(S) /\ n6 \in Seq(S)
  OBVIOUS
<1>4. Len(n6) \in 1..Len(n8) /\ \A i \in 1..Len(n6) : n6[i] = n8[i]
  <2>1. n6[1] = n8[1] /\ n6[2] = n8[2] /\ n6[3] = n8[3] /\ n6[4] = n8[4] /\ n6[5] = n8[5]
          /\ n6[6] = n8[6]
    OBVIOUS
  <2>2. \A i \in 1..Len(n6) : i \in {1, 2, 3, 4, 5, 6}
    BY <1>2
  <2> QED BY <1>2, <2>1, <2>2
<1>5. Func(n6) = "alias_v4nexthop" /\ Func(n6) # Inherited
  BY DEF Func, Attribute, Attr, NextHop, Inherited
<1>6. ASSUME NEW p \in Seq(S), Len(p) > Len(n6), Len(p) <= Len(n8),
             \A i \in 1..Len(p) : p[i] = n8[i]
      PROVE  Func(p) = Inherited
  <2> DEFINE k == Len(p)
  <2>1. k \in Nat /\ k > 6
    BY <1>2, <1>6
  <2> HIDE DEF k
  <2>2. k # 1 /\ k # 2 /\ k # 3 /\ k # 4 /\ k # 6
    BY <2>1
  <2> HIDE DEF n6, n8, S
  <2> QED BY <2>2, FuncPlace, Zenon DEF k
<1> HIDE DEF n1, n2, n3, n4, n5, n6, n7, n8, S
<1>7. Command(tokens) = n8
  <2>1. Len(tokens) = 8 /\ node[8] = n8
    OBVIOUS
  <2>2. \A i \in 1..(8 - 1) : i \in {1, 2, 3, 4, 5, 6, 7}
    OBVIOUS
  <2>3. Leads(tokens, node)
    BY <1>1, <1>2, <2>1, <2>2 DEF Leads
  <2> HIDE DEF node, tokens
  <2> QED BY <2>1, <2>3, CommandIs
<1>8. Function(n8) = Func(n6)
  BY <1>2, <1>3, <1>4, <1>5, <1>6, FunctionIs, ZenonT(60)
<1> QED BY <1>2, <1>5, <1>7, <1>8 DEF Calls

-----------------------------------------------------------------------------
(* What the saved lines do.                                                *)

LEMMA NumberSaved ==
  ASSUME NEW v \in Range(Numeral)
  PROVE  Number(Text(Numeral, v)) = v
<1>1. \E x \in DOMAIN Numeral : Numeral[x] = v
  BY DEF Range
<1> QED BY <1>1 DEF Text, Inverse1, Number

\* The text of an address that cannot be written is no address.
LEMMA AddressSaved ==
  ASSUME NEW v, NEW text, text = Text(Address, v)
  PROVE  /\ v \in Range(Address) => text \in DOMAIN Address /\ Address[text] = v
         /\ v \notin Range(Address) => text \notin DOMAIN Address
<1>1. v \in Range(Address) <=> \E x \in DOMAIN Address : Address[x] = v
  BY DEF Range
<1> QED BY <1>1, TextAssumption DEF Text, Inverse1

LEMMA LineRuns ==
  ASSUME NEW tokens, NEW func, Calls(tokens, func), NEW t
  PROVE  ExecuteLine(t, tokens) = Run(t, func, tokens)
  BY DEF Calls, ExecuteLine

\* A function with a guard of its own, and with that of a neighbour who is found.
LEMMA RunDoes ==
  ASSUME NEW t, NEW tokens
  PROVE  /\ Run(t, "set_bgp_id", tokens) = [t EXCEPT !.bgp_id = Aton(Token(tokens, 1))]
         /\ Run(t, "toggle_update_dump", tokens) = toggle_update_dump(t, tokens)
         /\ Run(t, "proto_bgp_neighbor", tokens) = proto_bgp_neighbor(t, tokens)
  BY DEF Run, PeerFunc, AliasFunc

LEMMA RunDoesForPeer ==
  ASSUME NEW t, NEW tokens, NEW i, i = get_peer_by_str_ip(t, Token(tokens, 1)), i # None
  PROVE  /\ Run(t, "set_peer_logging", tokens) = set_peer_logging(t, i, tokens)
         /\ Run(t, "rcv_buffer_size", tokens) = [t EXCEPT !.thread_q[i].rx = buffer_size(tokens)]
         /\ Run(t, "snd_buffer_size", tokens) = [t EXCEPT !.thread_q[i].tx = buffer_size(tokens)]
  BY DEF Run, PeerFunc, AliasFunc

LEMMA RunSetsAlias ==
  ASSUME NEW t, NEW tokens, NEW i, i = get_peer_by_str_ip(t, Token(tokens, 1)), i # None,
         NEW func \in AliasFunc, NEW a, a = AliasSet(t, func, i, tokens)
  PROVE  Run(t, func, tokens) = set_translation(t, i, a.code, a.value, a.name)
<1> DEFINE st == set_translation(t, i, a.code, a.value, a.name)
<1> HIDE DEF st
<1>1. Run(t, func, tokens) = st
  BY DEF st, Run, PeerFunc, AliasFunc
<1> QED BY <1>1 DEF st

\* What the lines make, field by field.
NotWild == FALSE
TableOf(q, id, d, m) ==
    [thread_q |-> q, bgp_id |-> id, dumper |-> d, udp_map |-> m, wild |-> NotWild]

LEMMA BgpIdLine ==
  ASSUME NEW q, NEW id, NEW d, NEW m, NEW v \in {Junk} \cup Range(Address)
  PROVE  ExecuteLine(TableOf(q, id, d, m), <<"bgp-id", Text(Address, v)>>) = TableOf(q, v, d, m)
<1> DEFINE x == Text(Address, v)
           t == TableOf(q, id, d, m)
           line == <<"bgp-id", x>>
<1>1. Calls(line, "set_bgp_id")
  BY BgpIdCommand
<1>2. Aton(x) = v
  BY AddressSaved DEF Aton
<1>3. Token(line, 1) = x
  BY DEF Token
<1> HIDE DEF x, line
<1>4. ExecuteLine(t, line) = [t EXCEPT !.bgp_id = v]
  BY <1>1, <1>2, <1>3, LineRuns, RunDoes
<1>5. [t EXCEPT !.bgp_id = v] = TableOf(q, v, d, m)
  BY DEF TableOf
<1> QED BY <1>4, <1>5 DEF x, line

LEMMA DumperLine ==
  ASSUME NEW q, NEW id, NEW d, NEW m
  PROVE  ExecuteLine(TableOf(q, id, d, m), <<"dumper", "on">>) = TableOf(q, id, TRUE, m)
<1> DEFINE t == TableOf(q, id, d, m)
           line == <<"dumper", "on">>
<1>1. Calls(line, "toggle_update_dump")
  BY DumperCommand
<1>2. Token(line, 1) = "on"
  BY DEF Token
<1> HIDE DEF line
<1>3. ExecuteLine(t, line) = toggle_update_dump(t, line)
  BY <1>1, LineRuns, RunDoes
<1> HIDE DEF t
<1> DEFINE on == TRUE
<1>4. toggle_update_dump(t, line) = [t EXCEPT !.dumper = on]
  BY <1>2 DEF toggle_update_dump
<1> HIDE DEF on
<1>5. [t EXCEPT !.dumper = on] = TableOf(q, id, on, m)
  BY DEF t, TableOf
<1> QED BY <1>3, <1>4, <1>5 DEF t, line, on

-----------------------------------------------------------------------------
(* A neighbour that the lines have made.                                   *)

\* What is saved of an alias, and of a neighbour with the aliases l.
CopiedAlias(a) ==
    [code |-> a.code, value |-> IF a.code = "bgp_id" THEN 0 ELSE a.value, name |-> a.name]

PeerOf(p_ip, AS, tx, rx, l, aliasing) ==
    [p_ip |-> p_ip, ipv4 |-> 0, AS |-> AS, bgp_id |-> 0, aliases |-> l,
     aliasing |-> aliasing, tx |-> tx, rx |-> rx]

\* The last neighbour is the one with its address.
LastHas(s, ip) ==
    /\ IsList(s) /\ Len(s) > 0 /\ s[Len(s)].p_ip = ip
    /\ \A i \in 1..(Len(s) - 1) : s[i].p_ip # ip

LEMMA LastFound ==
  ASSUME NEW t, NEW ip, LastHas(t.thread_q, ip)
  PROVE  get_peer_by_str_ip(t, ip) = Len(t.thread_q) /\ Len(t.thread_q) # None
<1> DEFINE k == Len(t.thread_q)
           match == {i \in 1..k : t.thread_q[i].p_ip = ip}
<1>1. k \in Nat /\ k > 0
  BY DEF LastHas, IsList
<1>2. match = {k}
  BY <1>1 DEF LastHas
<1>3. get_peer_by_str_ip(t, ip) = FirstOf(match)
  BY DEF get_peer_by_str_ip
<1> HIDE DEF match, k
<1>4. FirstOf(match) = k
  <2>1. match \subseteq Nat /\ match # {}
    BY <1>1, <1>2
  <2> QED BY <1>2, <2>1, MinIn DEF FirstOf
<1> QED BY <1>1, <1>3, <1>4 DEF None, k

\* The last neighbour changes, and the table with it.
SetAt(s, k, q) == [s EXCEPT ![k] = q]
WithLast(s, q) == SetAt(s, Len(s), q)

LEMMA RemoteAsLine ==
  ASSUME NEW s, IsList(s), NEW id, NEW d, NEW m,
         NEW ip \in DOMAIN Address, \A i \in 1..Len(s) : s[i].ipv4 # Address[ip],
         NEW AS \in Range(Numeral)
  PROVE  ExecuteLine(TableOf(s, id, d, m), <<"neighbor", ip, "remote-as", Text(Numeral, AS)>>)
           = TableOf(Append(s, NewPeer(ip, AS)), id, d, m)
<1> DEFINE x == Text(Numeral, AS)
           t == TableOf(s, id, d, m)
           line == <<"neighbor", ip, "remote-as", x>>
<1>1. Calls(line, "proto_bgp_neighbor")
  BY RemoteAsCommand
<1>2. Number(x) = AS
  BY NumberSaved
<1>3. Token(line, 1) = ip /\ Token(line, 3) = x
  BY DEF Token
<1> HIDE DEF x, line
<1>4. ExecuteLine(t, line) = proto_bgp_neighbor(t, line)
  BY <1>1, LineRuns, RunDoes
<1>5. t.thread_q = s
  BY DEF TableOf
<1> HIDE DEF t
<1>6. ~peer_exists(t, ip)
  BY <1>5 DEF peer_exists
<1> DEFINE peer == NewPeer(ip, AS)
           q == Append(t.thread_q, peer)
<1> HIDE DEF peer
<1>7. proto_bgp_neighbor(t, line) = [t EXCEPT !.thread_q = q]
  BY <1>2, <1>3, <1>6 DEF proto_bgp_neighbor, peer
<1>8. q = Append(s, peer)
  BY <1>5
<1> HIDE DEF q
<1>9. [t EXCEPT !.thread_q = q] = TableOf(q, id, d, m)
  BY DEF t, TableOf
<1> QED BY <1>4, <1>7, <1>8, <1>9 DEF x, line, t, peer

LEMMA TxBufferLine ==
  ASSUME NEW s, NEW ip, LastHas(s, ip), NEW id, NEW d, NEW m,
         NEW b \in Range(Numeral) \X Range(Numeral),
         NEW line, line = <<"neighbor", ip, "tx-buffer", Text(Numeral, b[1]), Text(Numeral, b[2])>>
  PROVE  ExecuteLine(TableOf(s, id, d, m), line)
           = TableOf(WithLast(s, [s[Len(s)] EXCEPT !.tx = b]), id, d, m)
<1> DEFINE x == Text(Numeral, b[1])
           y == Text(Numeral, b[2])
           t == TableOf(s, id, d, m)
           i == Len(s)
<1>1. Calls(line, "snd_buffer_size")
  BY TxBufferCommand
<1>2. Number(x) = b[1] /\ Number(y) = b[2] /\ b = <<b[1], b[2]>>
  BY NumberSaved
<1>3. Token(line, 1) = ip /\ Token(line, 3) = x /\ Token(line, 4) = y
  BY DEF Token
<1> HIDE DEF x, y
<1>4. buffer_size(line) = b
  BY <1>2, <1>3 DEF buffer_size
<1>5. t.thread_q = s
  BY DEF TableOf
<1> HIDE DEF t
<1>6. i = get_peer_by_str_ip(t, ip) /\ i # None
  BY <1>5, LastFound
<1> HIDE DEF i
<1>7. ExecuteLine(t, line) = [t EXCEPT !.thread_q[i].tx = b]
  BY <1>1, <1>3, <1>4, <1>6, LineRuns, RunDoesForPeer
<1> DEFINE r == [s[i] EXCEPT !.tx = b]
           u == [s EXCEPT ![i] = r]
<1>8. [t EXCEPT !.thread_q[i].tx = b] = [t EXCEPT !.thread_q = u]
  BY <1>5
<1>9. u = WithLast(s, r)
  BY DEF WithLast, SetAt, i
<1> HIDE DEF u, r
<1>10. [t EXCEPT !.thread_q = u] = TableOf(u, id, d, m)
  BY DEF t, TableOf
<1> QED BY <1>7, <1>8, <1>9, <1>10 DEF t, r, i

LEMMA RxBufferLine ==
  ASSUME NEW s, NEW ip, LastHas(s, ip), NEW id, NEW d, NEW m,
         NEW b \in Range(Numeral) \X Range(Numeral),
         NEW line, line = <<"neighbor", ip, "rx-buffer", Text(Numeral, b[1]), Text(Numeral, b[2])>>
  PROVE  ExecuteLine(TableOf(s, id, d, m), line)
           = TableOf(WithLast(s, [s[Len(s)] EXCEPT !.rx = b]), id, d, m)
<1> DEFINE x == Text(Numeral, b[1])
           y == Text(Numeral, b[2])
           t == TableOf(s, id, d, m)
           i == Len(s)
<1>1. Calls(line, "rcv_buffer_size")
  BY RxBufferCommand
<1>2. Number(x) = b[1] /\ Number(y) = b[2] /\ b = <<b[1], b[2]>>
  BY NumberSaved
<1>3. Token(line, 1) = ip /\ Token(line, 3) = x /\ Token(line, 4) = y
  BY DEF Token
<1> HIDE DEF x, y
<1>4. buffer_size(line) = b
  BY <1>2, <1>3 DEF buffer_size
<1>5. t.thread_q = s
  BY DEF TableOf
<1> HIDE DEF t
<1>6. i = get_peer_by_str_ip(t, ip) /\ i # None
  BY <1>5, LastFound
<1> HIDE DEF i
<1>7. ExecuteLine(t, line) = [t EXCEPT !.thread_q[i].rx = b]
  BY <1>1, <1>3, <1>4, <1>6, LineRuns, RunDoesForPeer
<1> DEFINE r == [s[i] EXCEPT !.rx = b]
           u == [s EXCEPT ![i] = r]
<1>8. [t EXCEPT !.thread_q[i].rx = b] = [t EXCEPT !.thread_q = u]
  BY <1>5
<1>9. u = WithLast(s, r)
  BY DEF WithLast, SetAt, i
<1> HIDE DEF u, r
<1>10. [t EXCEPT !.thread_q = u] = TableOf(u, id, d, m)
  BY DEF t, TableOf
<1> QED BY <1>7, <1>8, <1>9, <1>10 DEF t, r, i

\* Of the line of a destination only that it changes no more than the destinations.
LEMMA LoggingLine ==
  ASSUME NEW s, NEW ip, LastHas(s, ip), NEW id, NEW d, NEW m, NEW host, NEW port
  PROVE  \E n : ExecuteLine(TableOf(s, id, d, m), <<"neighbor", ip, "logging", "host", host, port>>)
                   = TableOf(s, id, d, n)
<1> DEFINE t == TableOf(s, id, d, m)
           i == Len(s)
           line == <<"neighbor", ip, "logging", "host", host, port>>
<1>1. Calls(line, "set_peer_logging")
  BY LoggingCommand
<1>2. Token(line, 1) = ip
  BY DEF Token
<1> HIDE DEF line
<1>3. t.thread_q = s
  BY DEF TableOf
<1> HIDE DEF t
<1>4. i = get_peer_by_str_ip(t, ip) /\ i # None
  BY <1>3, LastFound
<1> HIDE DEF i
<1>5. ExecuteLine(t, line) = set_peer_logging(t, i, line)
  BY <1>1, <1>2, <1>4, LineRuns, RunDoesForPeer
<1>6. PICK n : set_peer_logging(t, i, line) = t
             \/ set_peer_logging(t, i, line) = [t EXCEPT !.udp_map = n]
  BY DEF set_peer_logging
<1>7. t = TableOf(s, id, d, m) /\ [t EXCEPT !.udp_map = n] = TableOf(s, id, d, n)
  BY DEF t, TableOf
<1> QED BY <1>5, <1>6, <1>7 DEF t, line

-----------------------------------------------------------------------------
(* The lines of aliases.                                                   *)

IsAlias(a) == a = [code |-> a.code, value |-> a.value, name |-> a.name]

\* The list has no alias of the value.
IsNew(l, a) ==
    /\ IsList(l) /\ Unique(l) /\ Coded(l) /\ a.code \in DOMAIN Code
    /\ Absent(l, a.code, a.value)

WithAlias(q, a) == [q EXCEPT !.aliases = SortByCode(Append(q.aliases, a)), !.aliasing = TRUE]

LEMMA TranslationAdds ==
  ASSUME NEW s, NEW k, NEW id, NEW d, NEW m, NEW a, IsNew(s[k].aliases, a), IsAlias(a)
  PROVE  set_translation(TableOf(s, id, d, m), k, a.code, a.value, a.name)
           = TableOf(SetAt(s, k, WithAlias(s[k], a)), id, d, m)
<1> DEFINE t == TableOf(s, id, d, m)
           old == s[k].aliases
           code == a.code
           value == a.value
           rest == EraseEqual(old, code, value)
           new == [code |-> code, value |-> value, name |-> a.name]
           list == SortByCode(Append(rest.list, new))
           w == t.wild \/ rest.wild
<1>1. IsList(old) /\ Unique(old) /\ Absent(old, code, value)
  BY DEF IsNew
<1>2. t.thread_q = s /\ t.wild = FALSE
  BY DEF TableOf, NotWild
<1> HIDE DEF t
<1>3. set_translation(t, k, code, value, a.name)
        = [t EXCEPT !.thread_q[k].aliases = list, !.thread_q[k].aliasing = TRUE, !.wild = w]
  BY <1>2 DEF set_translation
<1> HIDE DEF old, code, value
<1>4. rest.list = old /\ rest.wild = FALSE
  <2> DEFINE e == rest
  <2>1. e = EraseEqual(old, code, value)
    OBVIOUS
  <2> HIDE DEF e
  <2>2. e.wild = FALSE
    BY <1>1, <2>1, EraseLeaves, ZenonT(60)
  <2>3. Absent(old, code, value) => e.list = old
    BY <1>1, <2>1, EraseLeaves, ZenonT(60)
  <2> QED BY <1>1, <2>2, <2>3 DEF e
<1> HIDE DEF rest
<1>5. new = a
  BY DEF code, value, IsAlias
<1> HIDE DEF new
<1>6. list = SortByCode(Append(old, a))
  BY <1>4, <1>5
<1>7. w = NotWild
  BY <1>2, <1>4 DEF NotWild
<1> HIDE DEF list, w
<1> DEFINE on == TRUE
           r == [s[k] EXCEPT !.aliases = list, !.aliasing = on]
           u == [s EXCEPT ![k] = r]
<1>8. [t EXCEPT !.thread_q[k].aliases = list, !.thread_q[k].aliasing = TRUE, !.wild = w]
        = [t EXCEPT !.thread_q = u, !.wild = w]
  <2> HIDE DEF on
  <2> QED BY <1>2, ZenonT(60) DEF on
<1>9. r = WithAlias(s[k], a)
  BY <1>6 DEF WithAlias, old
<1>11. u = SetAt(s, k, WithAlias(s[k], a))
  BY <1>9 DEF SetAt
<1> HIDE DEF u, r
<1>10. [t EXCEPT !.thread_q = u, !.wild = w] = TableOf(u, id, d, m)
  <2>1. t = [thread_q |-> s, bgp_id |-> id, dumper |-> d, udp_map |-> m, wild |-> NotWild]
    BY DEF t, TableOf
  <2> DEFINE v == [t EXCEPT !.thread_q = u, !.wild = w]
  <2>2. v = [x \in TableField |-> v[x]] /\ v.thread_q = u /\ v.bgp_id = id /\ v.dumper = d
        /\ v.udp_map = m /\ v.wild = w
    BY <2>1 DEF TableField
  <2> HIDE DEF v
  <2>3. v = [thread_q |-> u, bgp_id |-> id, dumper |-> d, udp_map |-> m, wild |-> w]
    BY <2>2 DEF TableField
  <2>4. v = TableOf(u, id, d, m)
    BY <1>7, <2>3 DEF TableOf
  <2> QED BY <2>4 DEF v
<1> QED BY <1>3, <1>8, <1>10, <1>11 DEF t, code, value

LEMMA AliasLineRuns ==
  ASSUME NEW s, NEW ip, LastHas(s, ip), NEW id, NEW d, NEW m, NEW a,
         NEW t, t = TableOf(s, id, d, m), IsNew(s[Len(s)].aliases, a), IsAlias(a),
         NEW func \in AliasFunc, NEW line, Calls(line, func), Token(line, 1) = ip,
         AliasSet(t, func, Len(s), line) = a
  PROVE  ExecuteLine(t, line) = TableOf(WithLast(s, WithAlias(s[Len(s)], a)), id, d, m)
<1> DEFINE i == Len(s)
<1>0. IsNew(s[i].aliases, a) /\ AliasSet(t, func, i, line) = a
  OBVIOUS
<1>1. t.thread_q = s
  BY DEF TableOf
<1>2. i = get_peer_by_str_ip(t, ip) /\ i # None
  BY <1>1, LastFound
<1>7. SetAt(s, i, WithAlias(s[i], a)) = WithLast(s, WithAlias(s[i], a))
  BY DEF WithLast
<1> HIDE DEF i
<1>3. ExecuteLine(t, line) = Run(t, func, line)
  BY LineRuns
<1>4. Run(t, func, line) = set_translation(t, i, a.code, a.value, a.name)
  BY <1>0, <1>2, RunSetsAlias
<1>5. set_translation(TableOf(s, id, d, m), i, a.code, a.value, a.name)
        = TableOf(SetAt(s, i, WithAlias(s[i], a)), id, d, m)
  BY <1>0, TranslationAdds
<1> QED BY <1>3, <1>4, <1>5, <1>7 DEF i

\* An alias whose value can be written.
EnteredAlias(a) ==
    /\ a.code \in {"as_path", "community"} => a.value \in Range(Numeral)
    /\ a.code = "next_hop" => a.value \in {0} \cup Range(Address)

LEMMA AliasSaved ==
  ASSUME NEW p, NEW a, EnteredAlias(a), a.code \in SavedCode, NEW line, line = SavedAlias(p, a)
  PROVE  \E func \in AliasFunc :
           /\ Calls(line, func) /\ Token(line, 1) = p.p_ip
           /\ \A t, i : t.thread_q[i].bgp_id = 0 => AliasSet(t, func, i, line) = CopiedAlias(a)
<1> DEFINE Goal(func) ==
             /\ func \in AliasFunc /\ Calls(line, func) /\ Token(line, 1) = p.p_ip
             /\ \A t, i : t.thread_q[i].bgp_id = 0 => AliasSet(t, func, i, line) = CopiedAlias(a)
<1>1. CASE a.code = "bgp_id"
  <2>1. line = <<"neighbor", p.p_ip, "attribute", "bgp-id", "alias", a.name>>
    BY <1>1 DEF SavedAlias
  <2>3. Calls(line, "alias_bgp_id") /\ "alias_bgp_id" \in AliasFunc
    BY <2>1, BgpIdAliasCommand DEF AliasFunc
  <2>4. Token(line, 1) = p.p_ip /\ Token(line, 5) = a.name
    BY <2>1 DEF Token
  <2>5. ASSUME NEW t, NEW i, t.thread_q[i].bgp_id = 0
        PROVE  AliasSet(t, "alias_bgp_id", i, line) = CopiedAlias(a)
    BY <1>1, <2>4, <2>5 DEF AliasSet, CopiedAlias
  <2>6. Goal("alias_bgp_id")
    BY <2>3, <2>4, <2>5
  <2> QED BY <2>6
<1>2. CASE a.code = "as_path"
  <2> DEFINE x == Text(Numeral, a.value)
  <2>1. line = <<"neighbor", p.p_ip, "attribute", "as-path", "alias", x, a.name>>
    BY <1>2 DEF SavedAlias
  <2>2. Number(x) = a.value
    BY <1>2, NumberSaved DEF EnteredAlias
  <2> HIDE DEF x
  <2>3. Calls(line, "alias_as_path") /\ "alias_as_path" \in AliasFunc
    BY <2>1, AsPathAliasCommand DEF AliasFunc
  <2>4. Token(line, 1) = p.p_ip /\ Token(line, 5) = x /\ Token(line, 6) = a.name
    BY <2>1 DEF Token
  <2>5. ASSUME NEW t, NEW i, t.thread_q[i].bgp_id = 0
        PROVE  AliasSet(t, "alias_as_path", i, line) = CopiedAlias(a)
    BY <1>2, <2>4, <2>5, <2>2 DEF AliasSet, CopiedAlias
  <2>6. Goal("alias_as_path")
    BY <2>3, <2>4, <2>5
  <2> QED BY <2>6
<1>3. CASE a.code = "next_hop"
  <2> DEFINE x == Text(Address, a.value)
  <2>1. line = <<"neighbor", p.p_ip, "attribute", "next-hop", "alias", "ipv4", x, a.name>>
    BY <1>3 DEF SavedAlias
  <2>2. (IF x \in DOMAIN Address THEN Address[x] ELSE 0) = a.value
    BY <1>3, AddressSaved DEF EnteredAlias
  <2> HIDE DEF x
  <2>3. Calls(line, "alias_v4nexthop") /\ "alias_v4nexthop" \in AliasFunc
    BY <2>1, NextHopAliasCommand DEF AliasFunc
  <2>4. Token(line, 1) = p.p_ip /\ Token(line, 6) = x /\ Token(line, 7) = a.name
    BY <2>1 DEF Token
  <2>5. ASSUME NEW t, NEW i, t.thread_q[i].bgp_id = 0
        PROVE  AliasSet(t, "alias_v4nexthop", i, line) = CopiedAlias(a)
    BY <1>3, <2>4, <2>5, <2>2 DEF AliasSet, CopiedAlias
  <2>6. Goal("alias_v4nexthop")
    BY <2>3, <2>4, <2>5
  <2> QED BY <2>6
<1>4. CASE a.code = "community"
  <2> DEFINE x == Text(Numeral, a.value)
  <2>1. line = <<"neighbor", p.p_ip, "attribute", "community", "alias", x, a.name>>
    BY <1>4 DEF SavedAlias
  <2>2. Number(x) = a.value
    BY <1>4, NumberSaved DEF EnteredAlias
  <2> HIDE DEF x
  <2>3. Calls(line, "alias_community") /\ "alias_community" \in AliasFunc
    BY <2>1, CommunityAliasCommand DEF AliasFunc
  <2>4. Token(line, 1) = p.p_ip /\ Token(line, 5) = x /\ Token(line, 6) = a.name
    BY <2>1 DEF Token
  <2>5. ASSUME NEW t, NEW i, t.thread_q[i].bgp_id = 0
        PROVE  AliasSet(t, "alias_community", i, line) = CopiedAlias(a)
    BY <1>4, <2>4, <2>5, <2>2 DEF AliasSet, CopiedAlias
  <2>6. Goal("alias_community")
    BY <2>3, <2>4, <2>5
  <2> QED BY <2>6
<1> QED BY <1>1, <1>2, <1>3, <1>4 DEF SavedCode

LEMMA AliasLine ==
  ASSUME NEW s, NEW p, LastHas(s, p.p_ip), NEW id, NEW d, NEW m,
         s[Len(s)].bgp_id = 0, NEW a, EnteredAlias(a), a.code \in SavedCode,
         NEW b, b = CopiedAlias(a), IsNew(s[Len(s)].aliases, b)
  PROVE  ExecuteLine(TableOf(s, id, d, m), SavedAlias(p, a))
           = TableOf(WithLast(s, WithAlias(s[Len(s)], b)), id, d, m)
<1> DEFINE line == SavedAlias(p, a)
           t == TableOf(s, id, d, m)
<1>1. t.thread_q = s
  BY DEF TableOf
<1>2. IsAlias(b)
  BY DEF CopiedAlias, IsAlias
<1> HIDE DEF line, t
<1>3. PICK func \in AliasFunc :
        /\ Calls(line, func) /\ Token(line, 1) = p.p_ip
        /\ \A u, j : u.thread_q[j].bgp_id = 0 => AliasSet(u, func, j, line) = CopiedAlias(a)
  BY AliasSaved DEF line
<1>4. AliasSet(t, func, Len(s), line) = b
  BY <1>1, <1>3
<1>5. ExecuteLine(t, line) = TableOf(WithLast(s, WithAlias(s[Len(s)], b)), id, d, m)
  <2>1. t = TableOf(s, id, d, m)
    BY DEF t
  <2> QED BY <1>2, <1>3, <1>4, <2>1, AliasLineRuns
<1> QED BY <1>5 DEF line, t

-----------------------------------------------------------------------------
(* Lines one after the other.                                              *)

LineFrom(t, script, w, i) == IF i = 0 THEN t ELSE ExecuteLine(w[i - 1], script[i])

\* The function of ExecuteLines exists, by induction over the lines.
LEMMA LinesExist ==
  ASSUME NEW t, NEW script
  PROVE  \A n \in Nat : \E w : w = [i \in 0..n |-> LineFrom(t, script, w, i)]
<1> DEFINE S == {n \in Nat : \E w : w = [i \in 0..n |-> LineFrom(t, script, w, i)]}
<1>1. \A w, v, i : (i = 0 \/ w[i - 1] = v[i - 1])
        => LineFrom(t, script, w, i) = LineFrom(t, script, v, i)
  BY DEF LineFrom
<1>2. 0 \in S
  <2> DEFINE w == [i \in 0..0 |-> LineFrom(t, script, <<>>, i)]
  <2>1. \A i \in 0..0 : LineFrom(t, script, <<>>, i) = LineFrom(t, script, w, i)
    <3> HIDE DEF w
    <3> QED BY <1>1
  <2>2. w = [i \in 0..0 |-> LineFrom(t, script, w, i)]
    BY <2>1
  <2> HIDE DEF w
  <2> QED BY <2>2
<1>3. \A n \in Nat : n \in S => n + 1 \in S
  <2> SUFFICES ASSUME NEW n \in Nat, NEW w, w = [i \in 0..n |-> LineFrom(t, script, w, i)]
               PROVE  \E v : v = [i \in 0..(n + 1) |-> LineFrom(t, script, v, i)]
    OBVIOUS
  <2> DEFINE v == [i \in 0..(n + 1) |-> IF i <= n THEN w[i] ELSE LineFrom(t, script, w, i)]
  <2>1. \A i \in 0..(n + 1) : i - 1 \in 0..n => v[i - 1] = w[i - 1]
    OBVIOUS
  <2>2. \A i \in 0..(n + 1) : v[i] = LineFrom(t, script, w, i)
    <3> TAKE i \in 0..(n + 1)
    <3>1. CASE i <= n
      BY <3>1
    <3>2. CASE ~(i <= n)
      BY <3>2
    <3> QED BY <3>1, <3>2
  <2>3. v = [i \in 0..(n + 1) |-> v[i]]
    OBVIOUS
  <2> HIDE DEF v
  <2>4. \A i \in 0..(n + 1) : LineFrom(t, script, w, i) = LineFrom(t, script, v, i)
    <3> TAKE i \in 0..(n + 1)
    <3>1. i = 0 \/ i - 1 \in 0..n
      OBVIOUS
    <3> QED BY <1>1, <2>1, <3>1
  <2>5. v = [i \in 0..(n + 1) |-> LineFrom(t, script, v, i)]
    BY <2>2, <2>3, <2>4
  <2> QED BY <2>5
<1> HIDE DEF S
<1>4. Nat \subseteq S
  BY <1>2, <1>3, NatSet
<1> QED BY <1>4 DEF S

\* The configurations between the lines.
Runs(t, script, w) == \A i \in 0..Len(script) : w[i] = LineFrom(t, script, w, i)

LEMMA LinesRun ==
  ASSUME NEW t, NEW script, Len(script) \in Nat
  PROVE  \E w : Runs(t, script, w) /\ ExecuteLines(t, script) = w[Len(script)]
<1> DEFINE Is(w) == w = [i \in 0..Len(script) |->
                          IF i = 0 THEN t ELSE ExecuteLine(w[i - 1], script[i])]
           w0 == CHOOSE w : Is(w)
<1>1. \E w : Is(w)
  <2>1. \E w : w = [i \in 0..Len(script) |-> LineFrom(t, script, w, i)]
    BY LinesExist
  <2> QED BY <2>1 DEF LineFrom
<1>2. Is(w0)
  BY <1>1
<1>3. ExecuteLines(t, script) = w0[Len(script)]
  BY DEF ExecuteLines
<1> HIDE DEF w0
<1>4. Runs(t, script, w0)
  BY <1>2 DEF Runs, LineFrom
<1> QED BY <1>3, <1>4

\* There is one way to run them.
LEMMA LinesAre ==
  ASSUME NEW t, NEW script, Len(script) \in Nat, NEW w, Runs(t, script, w)
  PROVE  ExecuteLines(t, script) = w[Len(script)]
<1> DEFINE l == Len(script)
<1>1. PICK v : Runs(t, script, v) /\ ExecuteLines(t, script) = v[l]
  BY LinesRun
<1> DEFINE S == {n \in Nat : n <= l => v[n] = w[n]}
<1>2. \A i \in 0..l : v[i] = LineFrom(t, script, v, i) /\ w[i] = LineFrom(t, script, w, i)
  BY <1>1 DEF Runs
<1> HIDE DEF l
<1>3. l \in Nat
  BY DEF l
<1>4. 0 \in S
  BY <1>2, <1>3 DEF LineFrom
<1>5. ASSUME NEW n \in Nat, n \in S PROVE n + 1 \in S
  <2> SUFFICES ASSUME n + 1 <= l PROVE v[n + 1] = w[n + 1]
    OBVIOUS
  <2>1. n + 1 \in 0..l /\ n <= l /\ n + 1 # 0 /\ (n + 1) - 1 = n
    BY <1>3
  <2> QED BY <1>2, <1>5, <2>1 DEF LineFrom
<1>6. Nat \subseteq S
  <2> HIDE DEF S
  <2> QED BY <1>4, <1>5, NatSet
<1>7. v[l] = w[l]
  BY <1>3, <1>6
<1> QED BY <1>1, <1>7 DEF l

LEMMA NoLines ==
  ASSUME NEW t
  PROVE  ExecuteLines(t, <<>>) = t
<1> DEFINE w == [i \in 0..0 |-> t]
           script == <<>>
<1>1. Len(script) = 0 /\ \A i \in 0..Len(script) : i = 0 /\ w[i] = t
  OBVIOUS
<1> HIDE DEF w, script
<1>2. Runs(t, script, w)
  BY <1>1 DEF Runs, LineFrom
<1>3. ExecuteLines(t, script) = w[0]
  BY <1>1, <1>2, LinesAre
<1> QED BY <1>1, <1>3 DEF script

LEMMA OneLine ==
  ASSUME NEW t, NEW line
  PROVE  ExecuteLines(t, <<line>>) = ExecuteLine(t, line)
<1> DEFINE w == [i \in 0..1 |-> IF i = 0 THEN t ELSE ExecuteLine(t, line)]
           script == <<line>>
<1>1. Len(script) = 1 /\ script[1] = line /\ w[0] = t /\ w[1] = ExecuteLine(t, line)
  OBVIOUS
<1> HIDE DEF w, script
<1>2. \A i \in 0..1 : w[i] = LineFrom(t, script, w, i)
  <2> TAKE i \in 0..1
  <2>1. CASE i = 0
    BY <1>1, <2>1 DEF LineFrom
  <2>2. CASE i = 1
    BY <1>1, <2>2 DEF LineFrom
  <2> QED BY <2>1, <2>2
<1>3. Runs(t, script, w)
  BY <1>1, <1>2 DEF Runs
<1>4. ExecuteLines(t, script) = w[Len(script)]
  <2>1. Len(script) \in Nat
    BY <1>1
  <2> QED BY <1>3, <2>1, LinesAre
<1> QED BY <1>1, <1>4 DEF script

\* First some lines, then others.
LEMMA LinesThen ==
  ASSUME NEW t, NEW a, IsList(a), NEW b, IsList(b)
  PROVE  /\ IsList(a \o b)
         /\ ExecuteLines(t, a \o b) = ExecuteLines(ExecuteLines(t, a), b)
<1> DEFINE la == Len(a)
           lb == Len(b)
           c == a \o b
           S == Items(a) \cup Items(b)
<1>1. la \in Nat /\ lb \in Nat
  BY DEF IsList
<1>2. a \in Seq(S) /\ b \in Seq(S)
  <2>1. a \in [1..Len(a) -> S] /\ b \in [1..Len(b) -> S]
    BY DEF IsList, Items
  <2> QED BY <1>1, <2>1, SeqDef
<1> HIDE DEF S
<1>3. /\ c \in Seq(S) /\ Len(c) = la + lb
      /\ \A i \in 1..(la + lb) : c[i] = IF i <= la THEN a[i] ELSE b[i - la]
  BY <1>2
<1>4. IsList(c)
  BY <1>3, SeqIsList
<1> HIDE DEF la, lb, c
<1>5. PICK w : Runs(t, a, w) /\ ExecuteLines(t, a) = w[la]
  BY <1>1, LinesRun DEF la
<1> DEFINE u == w[la]
<1>6. PICK v : Runs(u, b, v) /\ ExecuteLines(u, b) = v[lb]
  BY <1>1, LinesRun DEF lb
<1> DEFINE z == [i \in 0..(la + lb) |-> IF i <= la THEN w[i] ELSE v[i - la]]
<1>7. /\ \A i \in 0..la : w[i] = LineFrom(t, a, w, i)
      /\ \A i \in 0..lb : v[i] = LineFrom(u, b, v, i)
  BY <1>5, <1>6 DEF Runs, la, lb
<1>8. v[0] = u
  BY <1>1, <1>7 DEF LineFrom
<1>9. \A i \in 0..(la + lb) : /\ i <= la => z[i] = w[i]
                              /\ i >= la => z[i] = v[i - la]
  <2> TAKE i \in 0..(la + lb)
  <2>1. CASE i <= la /\ i # la
    BY <1>1, <2>1
  <2>2. CASE i = la
    BY <1>1, <1>8, <2>2
  <2>3. CASE i > la
    BY <1>1, <2>3
  <2> QED BY <1>1, <2>1, <2>2, <2>3
<1> HIDE DEF z, u
<1>10. \A i \in 0..(la + lb) : z[i] = LineFrom(t, c, z, i)
  <2> TAKE i \in 0..(la + lb)
  <2>1. CASE i = 0
    <3>1. z[i] = w[i] /\ w[i] = t
      BY <1>1, <1>7, <1>9, <2>1 DEF LineFrom
    <3> QED BY <2>1, <3>1 DEF LineFrom
  <2>2. CASE i # 0 /\ i <= la
    <3>1. i - 1 \in 0..(la + lb) /\ i - 1 <= la /\ i \in 0..la /\ i \in 1..(la + lb)
      BY <1>1, <2>2
    <3>2. z[i] = w[i] /\ z[i - 1] = w[i - 1] /\ c[i] = a[i]
      BY <1>3, <1>9, <2>2, <3>1
    <3> QED BY <1>7, <2>2, <3>1, <3>2 DEF LineFrom
  <2>3. CASE i > la
    <3> DEFINE j == i - la
    <3>1. i - 1 \in 0..(la + lb) /\ i - 1 >= la /\ j \in 0..lb /\ j # 0 /\ (i - 1) - la = j - 1
          /\ i \in 1..(la + lb) /\ ~(i <= la) /\ i >= la /\ i # 0
      BY <1>1, <2>3
    <3>2. z[i] = v[j] /\ z[i - 1] = v[j - 1] /\ c[i] = b[j]
      BY <1>3, <1>9, <3>1
    <3> HIDE DEF j
    <3> QED BY <1>7, <3>1, <3>2 DEF LineFrom
  <2> QED BY <1>1, <2>1, <2>2, <2>3
<1>11. Runs(t, c, z) /\ Len(c) \in Nat
  BY <1>1, <1>3, <1>10 DEF Runs
<1>12. ExecuteLines(t, c) = z[la + lb]
  BY <1>3, <1>11, LinesAre
<1>13. z[la + lb] = v[lb]
  <2>1. la + lb \in 0..(la + lb) /\ la + lb >= la /\ (la + lb) - la = lb
    BY <1>1
  <2> QED BY <1>9, <2>1
<1> QED BY <1>4, <1>5, <1>6, <1>12, <1>13 DEF c, u

-----------------------------------------------------------------------------
(* The lines of the aliases of a neighbour.                                *)

FirstLines(p, n) == [i \in 1..n |-> SavedAlias(p, p.aliases[i])]

AliasFrom(p, w, n) ==
    IF n = 0 THEN [lines |-> <<>>, open |-> <<>>]
    ELSE LET line == w[n - 1].open \o SavedAlias(p, p.aliases[n])
         IN  IF p.aliases[n].code \in SavedCode
             THEN [lines |-> Append(w[n - 1].lines, line), open |-> <<>>]
             ELSE [lines |-> w[n - 1].lines, open |-> line]

LEMMA ListBuilt ==
  ASSUME NEW s, IsList(s), NEW e, NEW u, IsList(u), Len(u) = Len(s) + 1,
         u[Len(s) + 1] = e, \A i \in 1..Len(s) : u[i] = s[i]
  PROVE  Append(s, e) = u
<1> DEFINE v == Append(s, e)
<1>1. /\ IsList(v) /\ Len(v) = Len(s) + 1 /\ v[Len(s) + 1] = e
      /\ \A i \in 1..Len(s) : v[i] = s[i]
  BY ListAppend
<1> HIDE DEF v
<1>2. Len(s) \in Nat
  BY DEF IsList
<1>3. \A i \in 1..(Len(s) + 1) : u[i] = v[i]
  BY <1>1, <1>2
<1>4. u = [i \in 1..Len(u) |-> u[i]] /\ v = [i \in 1..Len(v) |-> v[i]]
  BY <1>1 DEF IsList
<1>5. u = v
  BY <1>1, <1>3, <1>4
<1> QED BY <1>5 DEF v

\* A function over 1..n is a list.
LEMMA Listed ==
  ASSUME NEW n \in Nat, NEW s, DOMAIN s = 1..n, s = [i \in 1..n |-> s[i]]
  PROVE  IsList(s) /\ Len(s) = n
<1> DEFINE S == {s[i] : i \in 1..n}
<1>1. s \in [1..n -> S]
  OBVIOUS
<1>2. s \in Seq(S)
  BY <1>1, SeqDef
<1> HIDE DEF S
<1>3. IsList(s)
  BY <1>2, SeqIsList
<1>4. Len(s) = n
  BY <1>2
<1> QED BY <1>3, <1>4

LEMMA AliasLineIsList ==
  ASSUME NEW p, NEW a, a.code \in SavedCode
  PROVE  <<>> \o SavedAlias(p, a) = SavedAlias(p, a)
<1> DEFINE S == {"neighbor", p.p_ip, "attribute", "bgp-id", "as-path", "next-hop", "community",
                 "alias", "ipv4", Text(Numeral, a.value), Text(Address, a.value), a.name}
<1>1. SavedAlias(p, a) \in Seq(S)
  <2>1. CASE a.code = "bgp_id"
    BY <2>1 DEF SavedAlias
  <2>2. CASE a.code = "as_path"
    BY <2>2 DEF SavedAlias
  <2>3. CASE a.code = "next_hop"
    BY <2>3 DEF SavedAlias
  <2>4. CASE a.code = "community"
    BY <2>4 DEF SavedAlias
  <2> QED BY <2>1, <2>2, <2>3, <2>4 DEF SavedCode
<1> HIDE DEF S
<1> QED BY <1>1

LEMMA FirstLinesNext ==
  ASSUME NEW p, NEW n \in Nat
  PROVE  /\ IsList(FirstLines(p, n))
         /\ Append(FirstLines(p, n), SavedAlias(p, p.aliases[n + 1])) = FirstLines(p, n + 1)
<1> DEFINE e == SavedAlias(p, p.aliases[n + 1])
           s == FirstLines(p, n)
           u == FirstLines(p, n + 1)
<1>1. DOMAIN s = 1..n /\ s = [i \in 1..n |-> s[i]] /\ DOMAIN u = 1..(n + 1)
      /\ u = [i \in 1..(n + 1) |-> u[i]]
  BY DEF FirstLines
<1>2. u[n + 1] = e /\ \A i \in 1..n : u[i] = s[i]
  BY DEF FirstLines
<1> HIDE DEF s, u, e
<1>3. IsList(s) /\ Len(s) = n /\ IsList(u) /\ Len(u) = n + 1
  BY <1>1, Listed
<1>4. Append(s, e) = u
  BY <1>2, <1>3, ListBuilt
<1> QED BY <1>3, <1>4 DEF s, u, e

LEMMA AliasesNext ==
  ASSUME NEW p, NEW n \in Nat, p.aliases[n + 1].code \in SavedCode,
         NEW w, w[n] = [lines |-> FirstLines(p, n), open |-> <<>>]
  PROVE  AliasFrom(p, w, n + 1) = [lines |-> FirstLines(p, n + 1), open |-> <<>>]
<1> DEFINE e == SavedAlias(p, p.aliases[n + 1])
           s == FirstLines(p, n)
           x == w[n]
           line == x.open \o e
<1>1. x.lines = s /\ x.open = <<>>
  OBVIOUS
<1>2. line = e
  <2>1. <<>> \o e = e
    BY AliasLineIsList
  <2> HIDE DEF x, e
  <2> QED BY <1>1, <2>1
<1>3. w[(n + 1) - 1] = x /\ n + 1 # 0
  OBVIOUS
<1>4. Append(s, e) = FirstLines(p, n + 1)
  BY FirstLinesNext
<1> HIDE DEF s, x
<1>5. AliasFrom(p, w, n + 1) = [lines |-> Append(x.lines, line), open |-> <<>>]
  BY <1>3 DEF AliasFrom
<1> HIDE DEF line, e
<1> QED BY <1>1, <1>2, <1>4, <1>5

LEMMA SavedAliasesAre ==
  ASSUME NEW p, Len(p.aliases) \in Nat, \A n \in 1..Len(p.aliases) : p.aliases[n].code \in SavedCode
  PROVE  SavedAliases(p) = FirstLines(p, Len(p.aliases))
<1> DEFINE l == Len(p.aliases)
           Is(w) == w = [n \in 0..l |->
             IF n = 0 THEN [lines |-> <<>>, open |-> <<>>]
             ELSE LET line == w[n - 1].open \o SavedAlias(p, p.aliases[n])
                  IN  IF p.aliases[n].code \in SavedCode
                      THEN [lines |-> Append(w[n - 1].lines, line), open |-> <<>>]
                      ELSE [lines |-> w[n - 1].lines, open |-> line]]
           r(n) == [lines |-> FirstLines(p, n), open |-> <<>>]
           v == [n \in 0..l |-> r(n)]
           w0 == CHOOSE w : Is(w)
<1>1. SavedAliases(p)
        = w0[l].lines \o (IF w0[l].open = <<>> THEN <<>> ELSE <<Append(w0[l].open, "!")>>)
  BY DEF SavedAliases
<1>2. FirstLines(p, 0) = <<>>
  BY DEF FirstLines
<1>3. l \in Nat /\ \A n \in 1..l : p.aliases[n].code \in SavedCode
  OBVIOUS
<1> HIDE DEF l
<1>4. \A w, n : n \in Nat /\ n + 1 <= l /\ w[n] = r(n) => AliasFrom(p, w, n + 1) = r(n + 1)
  <2> TAKE w, n
  <2> HAVE n \in Nat /\ n + 1 <= l /\ w[n] = r(n)
  <2>1. n + 1 \in 1..l
    BY <1>3
  <2>2. p.aliases[n + 1].code \in SavedCode
    BY <1>3, <2>1
  <2> QED BY <2>2, AliasesNext
<1>5. \A w : AliasFrom(p, w, 0) = r(0)
  BY <1>2 DEF AliasFrom
<1> HIDE DEF r
<1>6. \A n \in 0..l : v[n] = AliasFrom(p, v, n)
  <2> TAKE n \in 0..l
  <2>1. CASE n = 0
    BY <1>5, <2>1
  <2>2. CASE n # 0
    <3>1. n - 1 \in Nat /\ (n - 1) + 1 = n /\ (n - 1) + 1 <= l /\ n - 1 \in 0..l
      BY <1>3, <2>2
    <3>2. v[n - 1] = r(n - 1) /\ v[n] = r(n)
      BY <3>1
    <3> HIDE DEF v
    <3>3. AliasFrom(p, v, (n - 1) + 1) = r((n - 1) + 1)
      BY <1>4, <3>1, <3>2
    <3> QED BY <3>1, <3>2, <3>3
  <2> QED BY <2>1, <2>2
<1>7. v = [n \in 0..l |-> v[n]]
  OBVIOUS
<1> HIDE DEF v
<1>8. \E w : Is(w)
  <2>1. v = [n \in 0..l |-> AliasFrom(p, v, n)]
    BY <1>6, <1>7
  <2> QED BY <2>1 DEF AliasFrom
<1>9. Is(w0)
  BY <1>8
<1> HIDE DEF w0
<1>10. \A n \in 0..l : w0[n] = AliasFrom(p, w0, n)
  BY <1>9 DEF AliasFrom
<1> DEFINE S == {n \in Nat : n <= l => w0[n] = r(n)}
<1>11. 0 \in S
  BY <1>3, <1>5, <1>10
<1>12. ASSUME NEW n \in Nat, n \in S PROVE n + 1 \in S
  <2> SUFFICES ASSUME n + 1 <= l PROVE w0[n + 1] = r(n + 1)
    OBVIOUS
  <2>1. n + 1 \in 0..l /\ n <= l
    BY <1>3
  <2> QED BY <1>4, <1>10, <1>12, <2>1
<1>13. Nat \subseteq S
  <2> HIDE DEF S
  <2> QED BY <1>11, <1>12, NatSet
<1>14. w0[l] = r(l)
  BY <1>3, <1>13
<1> DEFINE f == FirstLines(p, l)
<1>15. f \o <<>> = f
  <2>1. DOMAIN f = 1..l /\ f = [i \in 1..l |-> f[i]]
    BY DEF FirstLines
  <2> HIDE DEF f
  <2>2. IsList(f)
    BY <1>3, <2>1, Listed
  <2>3. f \in Seq(Items(f))
    BY <2>2, ListIsSeq
  <2> QED BY <2>3
<1>16. w0[l].lines = f /\ w0[l].open = <<>>
  BY <1>14 DEF r
<1> HIDE DEF f
<1> QED BY <1>1, <1>15, <1>16 DEF f, l

-----------------------------------------------------------------------------
(* The lines of a neighbour.                                               *)

\* A neighbour of which everything that is claimed is saved.
Savable(p) ==
    /\ p.p_ip \in DOMAIN Address /\ p.AS \in Range(Numeral)
    /\ p.tx \in Range(Numeral) \X Range(Numeral) /\ p.rx \in Range(Numeral) \X Range(Numeral)
    /\ IsList(p.aliases) /\ Unique(p.aliases)
    /\ \A n \in 1..Len(p.aliases) : EnteredAlias(p.aliases[n]) /\ p.aliases[n].code \in SavedCode
    /\ \A m, n \in 1..Len(p.aliases) :
         p.aliases[m].code = "bgp_id" /\ p.aliases[n].code = "bgp_id" => m = n

\* A list of what is saved of the first n aliases, in whatever order.
Copied(p, n) == {CopiedAlias(p.aliases[i]) : i \in 1..n}

Holds(f, p, n) ==
    /\ IsList(f) /\ Unique(f) /\ Coded(f)
    /\ Len(f) = n /\ Items(f) = Copied(p, n)

LEMMA HoldsNone ==
  ASSUME NEW p
  PROVE  Holds(<<>>, p, 0)
<1>1. IsList(<<>>) /\ Len(<<>>) = 0
  BY DEF IsList
<1> QED BY <1>1 DEF Holds, Unique, Coded, Items, Copied

\* The next alias is of a value that the list does not have.
LEMMA AliasIsNew ==
  ASSUME NEW p, Savable(p), NEW n \in Nat, n + 1 <= Len(p.aliases),
         NEW f, Holds(f, p, n), NEW b, b = CopiedAlias(p.aliases[n + 1])
  PROVE  IsNew(f, b) /\ Holds(SortByCode(Append(f, b)), p, n + 1)
<1> DEFINE l == p.aliases
           u == SortByCode(Append(f, b))
<1>1. Len(l) \in Nat /\ Unique(l)
  BY DEF Savable, IsList
<1>2. \A i, j \in 1..Len(l) : l[i].code = "bgp_id" /\ l[j].code = "bgp_id" => i = j
  BY DEF Savable
<1>3. n + 1 \in 1..Len(l) /\ \A i \in 1..n : i \in 1..Len(l) /\ i # n + 1
  BY <1>1
<1>4. b.code = l[n + 1].code /\ (b.code # "bgp_id" => b.value = l[n + 1].value)
  BY DEF CopiedAlias
<1>5. b.code \in DOMAIN Code
  <2>1. b.code \in SavedCode
    BY <1>3, <1>4 DEF Savable
  <2> QED BY <2>1 DEF SavedCode, Code
<1>6. IsList(f) /\ Unique(f) /\ Coded(f) /\ Len(f) = n /\ Items(f) = Copied(p, n)
  BY DEF Holds
<1>7. \A i \in 1..Len(f) : ~Matches(f[i], b.code, b.value)
  <2> SUFFICES ASSUME NEW i \in 1..Len(f), f[i].code = b.code, f[i].value = b.value PROVE FALSE
    BY DEF Matches
  <2>1. PICK j \in 1..n : f[i] = CopiedAlias(l[j])
    <3>1. f[i] \in Copied(p, n)
      BY <1>6 DEF Items
    <3> QED BY <3>1 DEF Copied
  <2>2. f[i].code = l[j].code /\ (l[j].code # "bgp_id" => f[i].value = l[j].value)
    BY <2>1 DEF CopiedAlias
  <2> HIDE DEF l
  <2>3. CASE l[j].code = "bgp_id"
    BY <1>2, <1>3, <1>4, <2>2, <2>3
  <2>4. CASE l[j].code # "bgp_id"
    BY <1>1, <1>3, <1>4, <2>2, <2>4 DEF Unique
  <2> QED BY <2>3, <2>4
<1>8. IsNew(f, b)
  BY <1>5, <1>6, <1>7 DEF IsNew, Absent
<1>9. /\ IsList(u) /\ Len(u) = n + 1 /\ Unique(u) /\ Coded(u)
      /\ Items(u) = Items(f) \cup {b}
  BY <1>5, <1>6, <1>7, SortAppend
<1>10. Copied(p, n + 1) = Copied(p, n) \cup {b}
  <2>1. \A i : i \in 1..(n + 1) <=> i \in 1..n \/ i = n + 1
    OBVIOUS
  <2> QED BY <2>1 DEF Copied
<1> HIDE DEF u
<1>11. Holds(u, p, n + 1)
  BY <1>6, <1>9, <1>10 DEF Holds
<1> QED BY <1>8, <1>11 DEF u

LEMMA SetIs ==
  ASSUME NEW s, IsList(s), NEW i \in 1..Len(s), NEW e
  PROVE  /\ IsList(SetAt(s, i, e)) /\ Len(SetAt(s, i, e)) = Len(s)
         /\ SetAt(s, i, e)[i] = e /\ \A j \in 1..Len(s) : j # i => SetAt(s, i, e)[j] = s[j]
<1> DEFINE u == SetAt(s, i, e)
           n == Len(s)
<1>1. n \in Nat /\ s = [j \in 1..n |-> s[j]]
  BY DEF IsList
<1> HIDE DEF n
<1>2. /\ DOMAIN u = 1..n /\ u = [j \in 1..n |-> u[j]]
      /\ i \in 1..n => u[i] = e
      /\ \A j \in 1..n : j # i => u[j] = s[j]
  BY <1>1 DEF SetAt
<1> HIDE DEF u
<1>3. IsList(u) /\ Len(u) = n
  BY <1>1, <1>2, Listed
<1>4. i \in 1..n
  BY DEF n
<1> QED BY <1>2, <1>3, <1>4 DEF n, u

\* A neighbour put last.
LEMMA PutLast ==
  ASSUME NEW s, IsList(s), NEW q
  PROVE  /\ IsList(Append(s, q)) /\ Len(Append(s, q)) = Len(s) + 1
         /\ Append(s, q)[Len(Append(s, q))] = q
         /\ \A r : WithLast(Append(s, q), r) = Append(s, r)
         /\ (\A i \in 1..Len(s) : s[i].p_ip # q.p_ip) => LastHas(Append(s, q), q.p_ip)
<1> DEFINE u == Append(s, q)
<1>1. /\ IsList(u) /\ Len(u) = Len(s) + 1 /\ u[Len(s) + 1] = q
      /\ \A j \in 1..Len(s) : u[j] = s[j]
  BY ListAppend
<1>2. Len(s) \in Nat
  BY DEF IsList
<1> HIDE DEF u
<1>3. ASSUME NEW r PROVE WithLast(u, r) = Append(s, r)
  <2> DEFINE v == WithLast(u, r)
             k == Len(s) + 1
  <2>1. v = SetAt(u, k, r)
    BY <1>1 DEF WithLast
  <2>2. k \in 1..Len(u)
    BY <1>1, <1>2
  <2> HIDE DEF v, k
  <2>3. IsList(v) /\ Len(v) = Len(u) /\ v[k] = r /\ \A j \in 1..Len(u) : j # k => v[j] = u[j]
    <3>1. IsList(u)
      BY <1>1
    <3> QED BY <2>1, <2>2, <3>1, SetIs
  <2>4. \A j \in 1..Len(s) : v[j] = s[j]
    BY <1>1, <1>2, <2>3 DEF k
  <2>5. Append(s, r) = v
    BY <1>1, <2>3, <2>4, ListBuilt DEF k
  <2> QED BY <2>5 DEF v
<1>4. (\A i \in 1..Len(s) : s[i].p_ip # q.p_ip) => LastHas(u, q.p_ip)
  BY <1>1, <1>2 DEF LastHas
<1> QED BY <1>1, <1>3, <1>4 DEF u

LEMMA LineAfter ==
  ASSUME NEW t, NEW a, IsList(a), NEW line
  PROVE  ExecuteLines(t, Append(a, line)) = ExecuteLine(ExecuteLines(t, a), line)
<1> DEFINE S == Items(a) \cup {line}
           b == <<line>>
           c == a \o b
<1>1. a \in Seq(S) /\ b \in Seq(S) /\ Len(b) = 1 /\ b[1] = line
  <2>1. a \in [1..Len(a) -> S] /\ Len(a) \in Nat
    BY DEF IsList, Items
  <2>2. b \in Seq(S) /\ Len(b) = 1 /\ b[1] = line
    OBVIOUS
  <2> HIDE DEF S, b
  <2> QED BY <2>1, <2>2, SeqDef
<1> HIDE DEF S, b
<1>2. IsList(b)
  BY <1>1, SeqIsList
<1>3. IsList(c) /\ Len(c) = Len(a) + 1 /\ c[Len(a) + 1] = line /\ \A i \in 1..Len(a) : c[i] = a[i]
  <2> DEFINE la == Len(a)
             lb == Len(b)
  <2>1. /\ c \in Seq(S) /\ Len(c) = la + lb
        /\ \A i \in 1..(la + lb) : c[i] = IF i <= la THEN a[i] ELSE b[i - la]
    <3>1. a \in Seq(S) /\ b \in Seq(S)
      BY <1>1
    <3> QED BY <3>1
  <2>2. IsList(c)
    BY <2>1, SeqIsList
  <2>3. la \in Nat
    BY <1>1
  <2> HIDE DEF la, c
  <2>4. /\ Len(c) = la + 1 /\ c[la + 1] = b[1]
        /\ \A i \in 1..la : c[i] = a[i]
    BY <1>1, <2>1, <2>3
  <2> QED BY <1>1, <2>2, <2>4 DEF la
<1> HIDE DEF c
<1>4. Append(a, line) = c
  BY <1>2, <1>3, ListBuilt
<1>5. ExecuteLines(t, a \o b) = ExecuteLines(ExecuteLines(t, a), b)
  BY <1>2, LinesThen
<1>6. ExecuteLines(ExecuteLines(t, a), <<line>>) = ExecuteLine(ExecuteLines(t, a), line)
  BY OneLine
<1> QED BY <1>4, <1>5, <1>6 DEF b, c

\* The neighbour of p with the aliases f; and the same with the first n of its own.
Peer(p, f, y) == PeerOf(p.p_ip, p.AS, p.tx, p.rx, f, y)

IsPeer(q, p, n) == \E f, y : Holds(f, p, n) /\ q = Peer(p, f, y)

LEMMA PeerHas ==
  ASSUME NEW p, NEW f, NEW y
  PROVE  /\ Peer(p, f, y) = [z \in PeerField |-> Peer(p, f, y)[z]]
         /\ Peer(p, f, y).p_ip = p.p_ip /\ Peer(p, f, y).ipv4 = 0 /\ Peer(p, f, y).AS = p.AS
         /\ Peer(p, f, y).bgp_id = 0 /\ Peer(p, f, y).aliases = f
         /\ Peer(p, f, y).tx = p.tx /\ Peer(p, f, y).rx = p.rx
  BY DEF Peer, PeerOf, PeerField

LEMMA PeerGets ==
  ASSUME NEW p, NEW f, NEW y, NEW b
  PROVE  WithAlias(Peer(p, f, y), b) = Peer(p, SortByCode(Append(f, b)), TRUE)
<1> DEFINE on == TRUE
           q == Peer(p, f, y)
           r == SortByCode(Append(f, b))
           w == [q EXCEPT !.aliases = r, !.aliasing = on]
<1>2. /\ q = [z \in PeerField |-> q[z]] /\ q.p_ip = p.p_ip /\ q.ipv4 = 0 /\ q.AS = p.AS
      /\ q.bgp_id = 0 /\ q.tx = p.tx /\ q.rx = p.rx /\ q.aliases = f
  BY PeerHas
<1> HIDE DEF q
<1>3. WithAlias(q, b) = w
  BY <1>2 DEF WithAlias
<1> HIDE DEF on, r
<1>4. w = PeerOf(p.p_ip, p.AS, p.tx, p.rx, r, on)
  <2>1. w = [z \in PeerField |-> w[z]] /\ w.p_ip = p.p_ip /\ w.ipv4 = 0 /\ w.AS = p.AS
        /\ w.bgp_id = 0 /\ w.tx = p.tx /\ w.rx = p.rx /\ w.aliases = r /\ w.aliasing = on
    BY <1>2 DEF PeerField
  <2> HIDE DEF w
  <2> QED BY <2>1 DEF PeerOf, PeerField
<1> HIDE DEF w
<1>5. Peer(p, r, on) = PeerOf(p.p_ip, p.AS, p.tx, p.rx, r, on)
  BY DEF Peer
<1> QED BY <1>3, <1>4, <1>5 DEF q, r, on

LEMMA AliasesReplay ==
  ASSUME NEW s, IsList(s), NEW p, Savable(p), \A i \in 1..Len(s) : s[i].p_ip # p.p_ip,
         NEW x, IsPeer(x, p, 0), NEW id, NEW d, NEW m
  PROVE  \E q : /\ IsPeer(q, p, Len(p.aliases))
                /\ ExecuteLines(TableOf(Append(s, x), id, d, m), SavedAliases(p))
                     = TableOf(Append(s, q), id, d, m)
<1> DEFINE l == Len(p.aliases)
           t == TableOf(Append(s, x), id, d, m)
           u(q) == TableOf(Append(s, q), id, d, m)
           S == {n \in Nat : n <= l => \E q : /\ IsPeer(q, p, n)
                                              /\ ExecuteLines(t, FirstLines(p, n)) = u(q)}
<1>1. l \in Nat /\ \A n \in 1..l : EnteredAlias(p.aliases[n]) /\ p.aliases[n].code \in SavedCode
  BY DEF Savable, IsList
<1>2. SavedAliases(p) = FirstLines(p, l)
  BY <1>1, SavedAliasesAre
<1> HIDE DEF l, t
<1>3. 0 \in S
  <2>1. FirstLines(p, 0) = <<>>
    BY DEF FirstLines
  <2>2. ExecuteLines(t, FirstLines(p, 0)) = u(x)
    BY <2>1, NoLines DEF t
  <2> HIDE DEF u
  <2> QED BY <2>2
<1>4. ASSUME NEW n \in Nat, n \in S PROVE n + 1 \in S
  <2> SUFFICES ASSUME n + 1 <= l
               PROVE  \E q : /\ IsPeer(q, p, n + 1)
                             /\ ExecuteLines(t, FirstLines(p, n + 1)) = u(q)
    OBVIOUS
  <2> DEFINE a == p.aliases[n + 1]
             b == CopiedAlias(a)
             line == SavedAlias(p, a)
  <2>1. n <= l /\ n + 1 \in 1..l
    BY <1>1
  <2>2. EnteredAlias(a) /\ a.code \in SavedCode
    BY <1>1, <2>1
  <2>3. PICK q : IsPeer(q, p, n) /\ ExecuteLines(t, FirstLines(p, n)) = u(q)
    BY <1>4, <2>1
  <2>4. PICK f, y : Holds(f, p, n) /\ q = Peer(p, f, y)
    BY <2>3 DEF IsPeer
  <2>5. IsNew(f, b) /\ Holds(SortByCode(Append(f, b)), p, n + 1)
    BY <2>1, <2>4, AliasIsNew DEF l
  <2> DEFINE v == Append(s, q)
             r == WithAlias(q, b)
  <2> HIDE DEF b, a
  <2>6. q.p_ip = p.p_ip /\ q.bgp_id = 0 /\ q.aliases = f
        /\ r = Peer(p, SortByCode(Append(f, b)), TRUE)
    <3>1. q.p_ip = p.p_ip /\ q.bgp_id = 0 /\ q.aliases = f
      BY <2>4, PeerHas
    <3>2. WithAlias(q, b) = Peer(p, SortByCode(Append(f, b)), TRUE)
      BY <2>4, PeerGets
    <3> QED BY <3>1, <3>2
  <2> HIDE DEF r
  <2>7. v[Len(v)] = q /\ (\A z : WithLast(v, z) = Append(s, z)) /\ LastHas(v, p.p_ip)
    <3>1. \A i \in 1..Len(s) : s[i].p_ip # q.p_ip
      BY <2>6
    <3>2. LastHas(v, q.p_ip)
      BY <3>1, PutLast
    <3>3. v[Len(v)] = q /\ \A z : WithLast(v, z) = Append(s, z)
      BY PutLast
    <3> QED BY <2>6, <3>2, <3>3
  <2>8. u(q) = TableOf(v, id, d, m)
    OBVIOUS
  <2> HIDE DEF v
  <2>9. ExecuteLine(TableOf(v, id, d, m), line)
          = TableOf(WithLast(v, WithAlias(v[Len(v)], b)), id, d, m)
    <3>1. v[Len(v)].bgp_id = 0 /\ IsNew(v[Len(v)].aliases, b)
      BY <2>5, <2>6, <2>7
    <3> QED BY <2>2, <2>7, <3>1, AliasLine DEF b
  <2>10. WithLast(v, WithAlias(v[Len(v)], b)) = Append(s, r)
    BY <2>7 DEF r
  <2>11. ExecuteLine(u(q), line) = u(r)
    BY <2>8, <2>9, <2>10
  <2>12. ExecuteLines(t, FirstLines(p, n + 1))
           = ExecuteLine(ExecuteLines(t, FirstLines(p, n)), line)
    <3> DEFINE g == FirstLines(p, n)
    <3>1. IsList(g) /\ Append(g, line) = FirstLines(p, n + 1)
      BY FirstLinesNext DEF a
    <3> HIDE DEF g, line
    <3>2. ExecuteLines(t, Append(g, line)) = ExecuteLine(ExecuteLines(t, g), line)
      BY <3>1, LineAfter
    <3> QED BY <3>1, <3>2 DEF g
  <2>13. ExecuteLines(t, FirstLines(p, n + 1)) = u(r)
    BY <2>3, <2>11, <2>12
  <2>14. IsPeer(r, p, n + 1)
    BY <2>5, <2>6 DEF IsPeer
  <2> HIDE DEF u
  <2> QED BY <2>13, <2>14
<1>5. Nat \subseteq S
  <2> HIDE DEF S
  <2> QED BY <1>3, <1>4, NatSet
<1>6. \E q : IsPeer(q, p, l) /\ ExecuteLines(t, FirstLines(p, l)) = u(q)
  BY <1>1, <1>5
<1> QED BY <1>2, <1>6 DEF t, l

LEMMA ThreeLines ==
  ASSUME NEW t, NEW a, NEW b, NEW c
  PROVE  /\ IsList(<<a, b, c>>)
         /\ ExecuteLines(t, <<a, b, c>>) = ExecuteLine(ExecuteLine(ExecuteLine(t, a), b), c)
<1> DEFINE S == {a, b, c}
           x == <<a>>
           y == <<a, b>>
           z == <<a, b, c>>
<1>1. x \in Seq(S) /\ y \in Seq(S) /\ z \in Seq(S)
  OBVIOUS
<1>2. Append(x, b) = y /\ Append(y, c) = z
  BY Append1, Append2
<1>3. ExecuteLines(t, x) = ExecuteLine(t, a)
  BY OneLine
<1> HIDE DEF x, y, z, S
<1>4. IsList(x) /\ IsList(y) /\ IsList(z)
  BY <1>1, SeqIsList
<1>5. ExecuteLines(t, y) = ExecuteLine(ExecuteLines(t, x), b)
  BY <1>2, <1>4, LineAfter, ZenonT(60)
<1>6. ExecuteLines(t, z) = ExecuteLine(ExecuteLines(t, y), c)
  BY <1>2, <1>4, LineAfter, ZenonT(60)
<1> QED BY <1>3, <1>4, <1>5, <1>6 DEF z

\* A neighbour that is not in the list yet.
NotThere(s, p) ==
    /\ IsList(s) /\ Savable(p)
    /\ \A i \in 1..Len(s) : s[i].p_ip # p.p_ip /\ s[i].ipv4 # Address[p.p_ip]

NotYet == FALSE       \* it has no alias

\* The lines that every neighbour has make the neighbour.
LEMMA PeerMade ==
  ASSUME NEW s, NEW p, NotThere(s, p), NEW id, NEW d, NEW m
  PROVE  ExecuteLines(TableOf(s, id, d, m), <<SavedRemoteAs(p), SavedBuffer(p, "tx-buffer", p.tx),
                           SavedBuffer(p, "rx-buffer", p.rx)>>)
           = TableOf(Append(s, Peer(p, <<>>, NotYet)), id, d, m)
<1> DEFINE t == TableOf(s, id, d, m)
           a == SavedRemoteAs(p)
           b == SavedBuffer(p, "tx-buffer", p.tx)
           c == SavedBuffer(p, "rx-buffer", p.rx)
           no == NotYet
           q == NewPeer(p.p_ip, p.AS)
           r == [q EXCEPT !.tx = p.tx]
           u == Append(s, q)
           v == Append(s, r)
<1>0. /\ IsList(s) /\ Savable(p)
      /\ \A i \in 1..Len(s) : s[i].p_ip # p.p_ip /\ s[i].ipv4 # Address[p.p_ip]
  BY DEF NotThere
<1>1. /\ p.p_ip \in DOMAIN Address /\ p.AS \in Range(Numeral)
      /\ p.tx \in Range(Numeral) \X Range(Numeral) /\ p.rx \in Range(Numeral) \X Range(Numeral)
  BY <1>0 DEF Savable
<1>2. ExecuteLine(t, a) = TableOf(u, id, d, m)
  <2>1. \A i \in 1..Len(s) : s[i].ipv4 # Address[p.p_ip]
    BY <1>0
  <2> HIDE DEF q
  <2>2. ExecuteLine(TableOf(s, id, d, m), <<"neighbor", p.p_ip, "remote-as", Text(Numeral, p.AS)>>)
          = TableOf(Append(s, NewPeer(p.p_ip, p.AS)), id, d, m)
    BY <1>0, <1>1, <2>1, RemoteAsLine
  <2> QED BY <2>2 DEF SavedRemoteAs, q
<1>3. /\ q = PeerOf(p.p_ip, p.AS, DefaultBuffer, DefaultBuffer, <<>>, no)
      /\ r = PeerOf(p.p_ip, p.AS, p.tx, DefaultBuffer, <<>>, no)
      /\ [r EXCEPT !.rx = p.rx] = PeerOf(p.p_ip, p.AS, p.tx, p.rx, <<>>, no)
  <2>1. q = PeerOf(p.p_ip, p.AS, DefaultBuffer, DefaultBuffer, <<>>, no)
    BY DEF NewPeer, PeerOf, NotYet
  <2> HIDE DEF q, no
  <2>2. r = PeerOf(p.p_ip, p.AS, p.tx, DefaultBuffer, <<>>, no)
    BY <2>1 DEF PeerOf
  <2> HIDE DEF r
  <2>3. [r EXCEPT !.rx = p.rx] = PeerOf(p.p_ip, p.AS, p.tx, p.rx, <<>>, no)
    BY <2>2 DEF PeerOf
  <2> QED BY <2>1, <2>2, <2>3 DEF r
<1>5. [r EXCEPT !.rx = p.rx] = Peer(p, <<>>, NotYet)
  BY <1>3 DEF Peer
<1>6. q.p_ip = p.p_ip /\ r.p_ip = p.p_ip
  BY <1>3 DEF PeerOf
<1> HIDE DEF q
<1>7. LastHas(u, p.p_ip) /\ u[Len(u)] = q /\ \A x : WithLast(u, x) = Append(s, x)
  <2>1. \A i \in 1..Len(s) : s[i].p_ip # q.p_ip
    BY <1>0, <1>6
  <2>2. LastHas(u, q.p_ip)
    BY <1>0, <2>1, PutLast
  <2>3. u[Len(u)] = q /\ \A x : WithLast(u, x) = Append(s, x)
    BY <1>0, PutLast
  <2> QED BY <1>6, <2>2, <2>3
<1> HIDE DEF u
<1>8. ExecuteLine(TableOf(u, id, d, m), b) = TableOf(v, id, d, m)
  <2>1. b = <<"neighbor", p.p_ip, "tx-buffer", Text(Numeral, p.tx[1]), Text(Numeral, p.tx[2])>>
    BY DEF SavedBuffer
  <2> HIDE DEF b
  <2>2. ExecuteLine(TableOf(u, id, d, m), b)
          = TableOf(WithLast(u, [u[Len(u)] EXCEPT !.tx = p.tx]), id, d, m)
    BY <1>1, <1>7, <2>1, TxBufferLine
  <2>3. WithLast(u, [u[Len(u)] EXCEPT !.tx = p.tx]) = v
    BY <1>7
  <2> QED BY <2>2, <2>3
<1> HIDE DEF r
<1>9. LastHas(v, p.p_ip) /\ v[Len(v)] = r /\ \A x : WithLast(v, x) = Append(s, x)
  <2>1. \A i \in 1..Len(s) : s[i].p_ip # r.p_ip
    BY <1>0, <1>6
  <2>2. LastHas(v, r.p_ip)
    BY <1>0, <2>1, PutLast
  <2>3. v[Len(v)] = r /\ \A x : WithLast(v, x) = Append(s, x)
    BY <1>0, PutLast
  <2> QED BY <1>6, <2>2, <2>3
<1> HIDE DEF v
<1>10. ExecuteLine(TableOf(v, id, d, m), c) = TableOf(Append(s, Peer(p, <<>>, NotYet)), id, d, m)
  <2>1. c = <<"neighbor", p.p_ip, "rx-buffer", Text(Numeral, p.rx[1]), Text(Numeral, p.rx[2])>>
    BY DEF SavedBuffer
  <2> HIDE DEF c
  <2>2. ExecuteLine(TableOf(v, id, d, m), c)
          = TableOf(WithLast(v, [v[Len(v)] EXCEPT !.rx = p.rx]), id, d, m)
    BY <1>1, <1>9, <2>1, RxBufferLine
  <2>3. WithLast(v, [v[Len(v)] EXCEPT !.rx = p.rx]) = Append(s, Peer(p, <<>>, NotYet))
    BY <1>5, <1>9
  <2> QED BY <2>2, <2>3
<1>11. ExecuteLines(t, <<a, b, c>>) = ExecuteLine(ExecuteLine(ExecuteLine(t, a), b), c)
  BY ThreeLines
<1> HIDE DEF a, b, c
<1> QED BY <1>2, <1>8, <1>10, <1>11 DEF a, b, c

LEMMA PeerReplay ==
  ASSUME NEW s, NEW p, NotThere(s, p), NEW id, NEW d, NEW m, NEW t, t = TableOf(s, id, d, m),
         NEW of
  PROVE  /\ IsList(SavedPeer(of, p))
         /\ \E x, n : /\ IsPeer(x, p, Len(p.aliases))
                      /\ ExecuteLines(t, SavedPeer(of, p)) = TableOf(Append(s, x), id, d, n)
<1> DEFINE a == <<SavedRemoteAs(p), SavedBuffer(p, "tx-buffer", p.tx),
                  SavedBuffer(p, "rx-buffer", p.rx)>>
           b == SavedLogging(of, p)
           c == SavedAliases(p)
           q == Peer(p, <<>>, NotYet)
           u == Append(s, q)
           t1 == TableOf(u, id, d, m)
<1>0. /\ IsList(s) /\ Savable(p)
      /\ \A i \in 1..Len(s) : s[i].p_ip # p.p_ip /\ s[i].ipv4 # Address[p.p_ip]
  BY DEF NotThere
<1>1. IsList(a)
  BY ThreeLines
<1>2. ExecuteLines(t, a) = t1
  BY PeerMade
<1>3. IsList(c)
  <2>1. Len(p.aliases) \in Nat /\ \A n \in 1..Len(p.aliases) : p.aliases[n].code \in SavedCode
    BY <1>0 DEF Savable, IsList
  <2>2. c = FirstLines(p, Len(p.aliases))
    BY <2>1, SavedAliasesAre
  <2> QED BY <2>1, <2>2, FirstLinesNext
<1>4. LastHas(u, p.p_ip)
  <2>1. q.p_ip = p.p_ip
    BY DEF Peer, PeerOf
  <2>2. \A i \in 1..Len(s) : s[i].p_ip # q.p_ip
    BY <1>0, <2>1
  <2> HIDE DEF q
  <2>3. LastHas(u, q.p_ip)
    BY <1>0, <2>2, PutLast
  <2> QED BY <2>1, <2>3
<1> HIDE DEF u
<1>5. IsList(b) /\ \E n : ExecuteLines(t1, b) = TableOf(u, id, d, n)
  <2>1. CASE b = <<>>
    <3>1. IsList(<<>>)
      BY DEF IsList
    <3>2. ExecuteLines(t1, <<>>) = TableOf(u, id, d, m)
      BY NoLines
    <3> HIDE DEF b, t1
    <3> QED BY <2>1, <3>1, <3>2
  <2>2. CASE b # <<>>
    <3> DEFINE host == of.udp_map[p.bgp_id].host
               port == Text(Numeral, of.udp_map[p.bgp_id].port)
               line == <<"neighbor", p.p_ip, "logging", "host", host, port>>
    <3>1. b = <<line>>
      BY <2>2 DEF SavedLogging
    <3> HIDE DEF host, port, b
    <3>2. PICK n : ExecuteLine(t1, line) = TableOf(u, id, d, n)
      BY <1>4, LoggingLine
    <3> HIDE DEF line, t1
    <3>3. ExecuteLines(t1, <<line>>) = ExecuteLine(t1, line)
      BY OneLine
    <3>4. IsList(<<line>>)
      <4> DEFINE S == {line}
      <4>1. <<line>> \in Seq(S)
        OBVIOUS
      <4> HIDE DEF S
      <4> QED BY <4>1, SeqIsList
    <3> QED BY <3>1, <3>2, <3>3, <3>4
  <2> QED BY <2>1, <2>2
<1>6. PICK n : ExecuteLines(t1, b) = TableOf(u, id, d, n)
  BY <1>5
<1>7. PICK x : /\ IsPeer(x, p, Len(p.aliases))
               /\ ExecuteLines(TableOf(u, id, d, n), c) = TableOf(Append(s, x), id, d, n)
  <2>1. \A i \in 1..Len(s) : s[i].p_ip # p.p_ip
    BY <1>0
  <2>2. IsPeer(q, p, 0)
    BY HoldsNone DEF IsPeer
  <2> HIDE DEF q
  <2>3. \E x : /\ IsPeer(x, p, Len(p.aliases))
               /\ ExecuteLines(TableOf(Append(s, q), id, d, n), SavedAliases(p))
                    = TableOf(Append(s, x), id, d, n)
    BY <1>0, <2>1, <2>2, AliasesReplay
  <2> QED BY <2>3 DEF u
<1>8. SavedPeer(of, p) = (a \o b) \o c
  BY DEF SavedPeer
<1> HIDE DEF a, b, c, t1
<1>9. IsList(a \o b) /\ ExecuteLines(t, a \o b) = ExecuteLines(ExecuteLines(t, a), b)
  BY <1>1, <1>5, LinesThen
<1> DEFINE ab == a \o b
<1> HIDE DEF ab
<1>10. IsList(ab \o c) /\ ExecuteLines(t, ab \o c) = ExecuteLines(ExecuteLines(t, ab), c)
  <2>1. IsList(ab)
    BY <1>9 DEF ab
  <2> QED BY <1>3, <2>1, LinesThen
<1>11. ExecuteLines(t, ab) = TableOf(u, id, d, n)
  BY <1>2, <1>6, <1>9 DEF ab
<1> QED BY <1>7, <1>8, <1>10, <1>11 DEF ab

-----------------------------------------------------------------------------
(* The lines of all neighbours.                                            *)

FlatFrom(seqs, w, i) == IF i = 1 THEN seqs[i] ELSE w[i - 1] \o seqs[i]

LEMMA FlatExist ==
  ASSUME NEW seqs
  PROVE  \A n \in Nat : \E w : w = [i \in 1..n |-> FlatFrom(seqs, w, i)]
<1> DEFINE S == {n \in Nat : \E w : w = [i \in 1..n |-> FlatFrom(seqs, w, i)]}
<1>1. \A w, v, i : (i = 1 \/ w[i - 1] = v[i - 1]) => FlatFrom(seqs, w, i) = FlatFrom(seqs, v, i)
  BY DEF FlatFrom
<1>2. 0 \in S
  <2> DEFINE w == [i \in 1..0 |-> 0]
  <2>1. w = [i \in 1..0 |-> FlatFrom(seqs, w, i)]
    OBVIOUS
  <2> HIDE DEF w
  <2> QED BY <2>1
<1>3. \A n \in Nat : n \in S => n + 1 \in S
  <2> SUFFICES ASSUME NEW n \in Nat, NEW w, w = [i \in 1..n |-> FlatFrom(seqs, w, i)]
               PROVE  \E v : v = [i \in 1..(n + 1) |-> FlatFrom(seqs, v, i)]
    OBVIOUS
  <2> DEFINE v == [i \in 1..(n + 1) |-> IF i <= n THEN w[i] ELSE FlatFrom(seqs, w, i)]
  <2>1. \A i \in 1..(n + 1) : i - 1 \in 1..n => v[i - 1] = w[i - 1]
    OBVIOUS
  <2>2. \A i \in 1..(n + 1) : v[i] = FlatFrom(seqs, w, i)
    <3> TAKE i \in 1..(n + 1)
    <3>1. CASE i <= n
      BY <3>1
    <3>2. CASE ~(i <= n)
      BY <3>2
    <3> QED BY <3>1, <3>2
  <2>3. v = [i \in 1..(n + 1) |-> v[i]]
    OBVIOUS
  <2> HIDE DEF v
  <2>4. \A i \in 1..(n + 1) : FlatFrom(seqs, w, i) = FlatFrom(seqs, v, i)
    <3> TAKE i \in 1..(n + 1)
    <3>1. i = 1 \/ i - 1 \in 1..n
      OBVIOUS
    <3> QED BY <1>1, <2>1, <3>1
  <2>5. v = [i \in 1..(n + 1) |-> FlatFrom(seqs, v, i)]
    BY <2>2, <2>3, <2>4
  <2> QED BY <2>5
<1> HIDE DEF S
<1>4. Nat \subseteq S
  BY <1>2, <1>3, NatSet
<1> QED BY <1>4 DEF S

LEMMA FlattenIs ==
  ASSUME NEW seqs, Len(seqs) \in Nat, Len(seqs) # 0
  PROVE  \E w : /\ \A i \in 1..Len(seqs) : w[i] = FlatFrom(seqs, w, i)
               /\ FlattenSeq(seqs) = w[Len(seqs)]
<1> DEFINE Is(w) == w = [i \in 1..Len(seqs) |-> IF i = 1 THEN seqs[i] ELSE w[i - 1] \o seqs[i]]
           w0 == CHOOSE w : Is(w)
<1>1. \E w : Is(w)
  <2>1. \E w : w = [i \in 1..Len(seqs) |-> FlatFrom(seqs, w, i)]
    BY FlatExist
  <2> QED BY <2>1 DEF FlatFrom
<1>2. Is(w0)
  BY <1>1
<1>3. FlattenSeq(seqs) = w0[Len(seqs)]
  BY DEF FlattenSeq
<1> HIDE DEF w0
<1>4. \A i \in 1..Len(seqs) : w0[i] = FlatFrom(seqs, w0, i)
  BY <1>2 DEF FlatFrom
<1> QED BY <1>3, <1>4

\* The first n neighbours of a table have been made.
Made(t, s, n) ==
    /\ IsList(s) /\ Len(s) = n
    /\ \A i \in 1..n : IsPeer(s[i], t.thread_q[i], Len(t.thread_q[i].aliases))

\* Every neighbour can be saved, and is known by an address of its own.
SavableTable(t) ==
    /\ IsList(t.thread_q)
    /\ \A i \in 1..Len(t.thread_q) :
         /\ Savable(t.thread_q[i])
         /\ i > 1 => Address[t.thread_q[i].p_ip] # 0
         /\ \A j \in 1..Len(t.thread_q) : t.thread_q[i].p_ip = t.thread_q[j].p_ip => i = j

LEMMA MadeFits ==
  ASSUME NEW t, SavableTable(t), NEW n \in Nat, n + 1 <= Len(t.thread_q), NEW s, Made(t, s, n)
  PROVE  NotThere(s, t.thread_q[n + 1])
<1> DEFINE p == t.thread_q[n + 1]
<1>1. Len(t.thread_q) \in Nat
  BY DEF SavableTable, IsList
<1>2. n + 1 \in 1..Len(t.thread_q) /\ \A i \in 1..n : i \in 1..Len(t.thread_q) /\ i # n + 1
  BY <1>1
<1>3. IsList(s) /\ Savable(p)
  BY <1>2 DEF SavableTable, Made
<1>4. ASSUME NEW i \in 1..Len(s) PROVE s[i].p_ip # p.p_ip /\ s[i].ipv4 # Address[p.p_ip]
  <2>1. i \in 1..n
    BY DEF Made
  <2>2. s[i].p_ip = t.thread_q[i].p_ip /\ s[i].ipv4 = 0
    <3>1. IsPeer(s[i], t.thread_q[i], Len(t.thread_q[i].aliases))
      BY <2>1 DEF Made
    <3>2. PICK f, y : s[i] = Peer(t.thread_q[i], f, y)
      BY <3>1 DEF IsPeer
    <3> QED BY <3>2, PeerHas
  <2>3. n + 1 > 1
    BY <2>1
  <2>4. Address[p.p_ip] # 0 /\ t.thread_q[i].p_ip # p.p_ip
    BY <1>2, <2>1, <2>3 DEF SavableTable
  <2> QED BY <2>2, <2>4
<1> QED BY <1>3, <1>4 DEF NotThere

\* The lines make the first n neighbours.
MadeBy(t, n, from, script, id, d) ==
    /\ IsList(script)
    /\ \E u, k : Made(t, u, n) /\ ExecuteLines(from, script) = TableOf(u, id, d, k)

LEMMA NextMade ==
  ASSUME NEW t, SavableTable(t), NEW n \in Nat, n + 1 <= Len(t.thread_q), NEW s, Made(t, s, n),
         NEW id, NEW d, NEW m
  PROVE  MadeBy(t, n + 1, TableOf(s, id, d, m), SavedPeer(t, t.thread_q[n + 1]), id, d)
<1> DEFINE p == t.thread_q[n + 1]
           l == Len(p.aliases)
<1>1. NotThere(s, p)
  BY MadeFits
<1>2. IsList(s) /\ Len(s) = n
        /\ \A i \in 1..n : IsPeer(s[i], t.thread_q[i], Len(t.thread_q[i].aliases))
  BY DEF Made
<1> HIDE DEF p
<1> DEFINE t0 == TableOf(s, id, d, m)
<1> HIDE DEF t0
<1>3. /\ IsList(SavedPeer(t, p))
      /\ \E q, k : /\ IsPeer(q, p, Len(p.aliases))
                   /\ ExecuteLines(t0, SavedPeer(t, p)) = TableOf(Append(s, q), id, d, k)
  BY <1>1, PeerReplay DEF t0
<1>4. PICK q, k : IsPeer(q, p, l)
             /\ ExecuteLines(t0, SavedPeer(t, p)) = TableOf(Append(s, q), id, d, k)
  BY <1>3
<1> DEFINE u == Append(s, q)
<1>5. IsPeer(q, t.thread_q[n + 1], Len(t.thread_q[n + 1].aliases))
  BY <1>4 DEF p
<1>6. IsList(u) /\ Len(u) = n + 1 /\ u[n + 1] = q /\ \A j \in 1..n : u[j] = s[j]
  BY <1>2, ListAppend
<1> HIDE DEF u
<1>7. ASSUME NEW i \in 1..(n + 1)
      PROVE  IsPeer(u[i], t.thread_q[i], Len(t.thread_q[i].aliases))
  <2>1. CASE i \in 1..n
    BY <1>2, <1>6, <2>1
  <2>2. CASE i = n + 1
    BY <1>5, <1>6, <2>2
  <2> QED BY <2>1, <2>2
<1>8. Made(t, u, n + 1)
  BY <1>6, <1>7 DEF Made
<1>9. ExecuteLines(t0, SavedPeer(t, p)) = TableOf(u, id, d, k)
  BY <1>4 DEF u
<1>10. MadeBy(t, n + 1, t0, SavedPeer(t, p), id, d)
  BY <1>3, <1>8, <1>9 DEF MadeBy
<1> QED BY <1>10 DEF p, t0

PeersSaved(t, seqs) == seqs = [n \in DOMAIN t.thread_q |-> SavedPeer(t, t.thread_q[n])]

LEMMA AllMade ==
  ASSUME NEW t, SavableTable(t), NEW id, NEW d, NEW m, NEW seqs, PeersSaved(t, seqs)
  PROVE  MadeBy(t, Len(t.thread_q), TableOf(<<>>, id, d, m), FlattenSeq(seqs), id, d)
<1> DEFINE l == Len(t.thread_q)
           t0 == TableOf(<<>>, id, d, m)
           Done(n, script) == MadeBy(t, n, t0, script, id, d)
<1>1. l \in Nat /\ DOMAIN t.thread_q = 1..l
  BY DEF SavableTable, IsList
<1>2. Len(seqs) = l /\ \A n \in 1..l : seqs[n] = SavedPeer(t, t.thread_q[n])
  <2>1. DOMAIN seqs = 1..l /\ seqs = [n \in 1..l |-> seqs[n]]
        /\ \A n \in 1..l : seqs[n] = SavedPeer(t, t.thread_q[n])
    BY <1>1 DEF PeersSaved
  <2> HIDE DEF l
  <2>2. Len(seqs) = l
    BY <1>1, <2>1, Listed
  <2> QED BY <1>1, <2>1, <2>2
<1>3. Made(t, <<>>, 0)
  BY DEF Made, IsList
<1>4. CASE l = 0
  <2>1. Len(seqs) = 0
    BY <1>2, <1>4
  <2>2. seqs = <<>>
    BY <1>1, <1>4 DEF PeersSaved
  <2>3. FlattenSeq(seqs) = <<>>
    BY <2>1, <2>2 DEF FlattenSeq
  <2>4. IsList(<<>>)
    BY DEF IsList
  <2>5. ExecuteLines(t0, <<>>) = TableOf(<<>>, id, d, m)
    BY NoLines
  <2>6. Done(0, <<>>)
    <3> HIDE DEF t0
    <3> QED BY <1>3, <2>4, <2>5 DEF MadeBy
  <2> QED BY <1>4, <2>3, <2>6
<1>5. CASE l # 0
  <2>1. PICK w : /\ \A i \in 1..l : w[i] = FlatFrom(seqs, w, i)
                 /\ FlattenSeq(seqs) = w[l]
    BY <1>1, <1>2, <1>5, FlattenIs
  <2> DEFINE S == {n \in Nat : n + 1 <= l => Done(n + 1, w[n + 1])}
  <2>2. 0 \in S
    <3>1. 1 \in 1..l /\ 0 + 1 <= l
      BY <1>1, <1>5
    <3> DEFINE script == SavedPeer(t, t.thread_q[1])
    <3>2. w[1] = script
      BY <1>2, <2>1, <3>1 DEF FlatFrom
    <3> HIDE DEF script
    <3>3. Done(1, script)
      <4> DEFINE e == <<>>
                 z == 0
      <4>1. Made(t, e, z) /\ z \in Nat /\ z + 1 <= Len(t.thread_q)
        BY <1>3, <3>1
      <4>2. z + 1 = 1 /\ t0 = TableOf(e, id, d, m)
        OBVIOUS
      <4> HIDE DEF e, z
      <4>3. MadeBy(t, z + 1, TableOf(e, id, d, m), SavedPeer(t, t.thread_q[z + 1]), id, d)
        BY <4>1, NextMade
      <4> QED BY <4>2, <4>3 DEF script
    <3>4. 0 + 1 = 1
      OBVIOUS
    <3> HIDE DEF Done
    <3> QED BY <3>2, <3>3, <3>4
  <2>3. ASSUME NEW n \in Nat, n \in S PROVE n + 1 \in S
    <3> SUFFICES ASSUME (n + 1) + 1 <= l PROVE Done((n + 1) + 1, w[(n + 1) + 1])
      OBVIOUS
    <3> DEFINE j == n + 1
               script == SavedPeer(t, t.thread_q[j + 1])
    <3>1. j \in Nat /\ j <= l /\ j + 1 \in 1..l /\ j + 1 # 1 /\ (j + 1) - 1 = j
      BY <1>1
    <3>2. Done(j, w[j])
      BY <2>3, <3>1
    <3>3. w[j + 1] = w[j] \o script
      BY <1>2, <2>1, <3>1 DEF FlatFrom
    <3> HIDE DEF j
    <3>4. PICK u, k : Made(t, u, j) /\ ExecuteLines(t0, w[j]) = TableOf(u, id, d, k)
      BY <3>2 DEF MadeBy
    <3> DEFINE v == TableOf(u, id, d, k)
    <3>5. MadeBy(t, j + 1, v, script, id, d)
      BY <3>1, <3>4, NextMade DEF j
    <3> DEFINE wj == w[j]
    <3>6. IsList(wj) /\ ExecuteLines(t0, wj) = v
      BY <3>2, <3>4 DEF MadeBy
    <3> HIDE DEF wj, script, t0, v
    <3>7. IsList(wj \o script)
            /\ ExecuteLines(t0, wj \o script) = ExecuteLines(ExecuteLines(t0, wj), script)
      BY <3>5, <3>6, LinesThen DEF MadeBy
    <3>8. Done(j + 1, wj \o script)
      BY <3>5, <3>6, <3>7 DEF MadeBy
    <3>9. w[j + 1] = wj \o script
      BY <3>3 DEF wj
    <3> QED BY <3>8, <3>9 DEF j
  <2>4. Nat \subseteq S
    <3> HIDE DEF S
    <3> QED BY <2>2, <2>3, NatSet
  <2>5. l - 1 \in S /\ (l - 1) + 1 = l
    <3> HIDE DEF l, S
    <3>1. l - 1 \in Nat /\ (l - 1) + 1 = l
      BY <1>1, <1>5
    <3> QED BY <2>4, <3>1
  <2>6. Done(l, w[l])
    BY <2>5
  <2> QED BY <2>1, <2>6
<1> QED BY <1>4, <1>5

\* What is saved of a table makes its neighbours again.
LEMMA ReplayMakes ==
  ASSUME NEW t, SavableTable(t), t.bgp_id # Unset, t.bgp_id \in {Unset, Junk} \cup Range(Address),
         t.dumper \in BOOLEAN
  PROVE  \E s, m : /\ Made(t, s, Len(t.thread_q))
                   /\ Replay(write_configs(t)) = TableOf(s, t.bgp_id, t.dumper, m)
<1> DEFINE id == t.bgp_id
           d == t.dumper
           off == FALSE
           line == <<"bgp-id", Text(Address, id)>>
           a == <<line>>
           b == IF d THEN <<<<"dumper", "on">>>> ELSE <<>>
           seqs == [n \in DOMAIN t.thread_q |-> SavedPeer(t, t.thread_q[n])]
           c == FlattenSeq(seqs)
           t1 == TableOf(<<>>, id, off, <<>>)
           t2 == TableOf(<<>>, id, d, <<>>)
<1>1. write_configs(t) = (a \o b) \o c
  <2> HIDE DEF c
  <2>1. write_configs(t) = (<<IF t.bgp_id = Unset THEN <<"bgp-id">> ELSE line>> \o b) \o c
    BY DEF write_configs, c
  <2> QED BY <2>1
<1>2. NoTable = TableOf(<<>>, Unset, off, <<>>)
  BY DEF NoTable, TableOf, NotWild
<1> HIDE DEF off
<1>3. ExecuteLines(NoTable, a) = t1
  <2>1. ExecuteLines(NoTable, a) = ExecuteLine(NoTable, line)
    BY OneLine
  <2>2. id \in {Junk} \cup Range(Address)
    OBVIOUS
  <2> HIDE DEF id
  <2>3. ExecuteLine(TableOf(<<>>, Unset, off, <<>>), <<"bgp-id", Text(Address, id)>>)
          = TableOf(<<>>, id, off, <<>>)
    BY <2>2, BgpIdLine
  <2> QED BY <1>2, <2>1, <2>3
<1>4. IsList(a)
  <2> HIDE DEF line
  <2> DEFINE S == {line}
  <2>1. <<line>> \in Seq(S)
    OBVIOUS
  <2> HIDE DEF S
  <2> QED BY <2>1, SeqIsList
<1>5. IsList(b) /\ ExecuteLines(t1, b) = t2
  <2>1. CASE d = TRUE
    <3> DEFINE on == <<"dumper", "on">>
               e == TRUE
    <3>1. b = <<on>> /\ d = e
      BY <2>1
    <3>2. ExecuteLine(t1, on) = TableOf(<<>>, id, e, <<>>)
      BY DumperLine
    <3> HIDE DEF on, b, d, e, t1
    <3>3. ExecuteLines(t1, <<on>>) = ExecuteLine(t1, on)
      BY OneLine
    <3>4. IsList(<<on>>)
      <4> DEFINE S == {on}
      <4>1. <<on>> \in Seq(S)
        OBVIOUS
      <4> HIDE DEF S
      <4> QED BY <4>1, SeqIsList
    <3> QED BY <3>1, <3>2, <3>3, <3>4
  <2>2. CASE d = FALSE
    <3>1. b = <<>> /\ d = off
      BY <2>2 DEF off
    <3>2. IsList(<<>>)
      BY DEF IsList
    <3> HIDE DEF d, b
    <3>3. ExecuteLines(t1, <<>>) = t1
      BY NoLines
    <3> QED BY <3>1, <3>2, <3>3
  <2> QED BY <2>1, <2>2
<1>6. /\ IsList(c)
      /\ \E s, m : Made(t, s, Len(t.thread_q)) /\ ExecuteLines(t2, c) = TableOf(s, id, d, m)
  <2> HIDE DEF id, d
  <2> DEFINE q == seqs
  <2>1. PeersSaved(t, q)
    BY DEF PeersSaved
  <2> HIDE DEF q
  <2> DEFINE e == <<>>
  <2>2. t2 = TableOf(e, id, d, e)
    OBVIOUS
  <2>3. MadeBy(t, Len(t.thread_q), TableOf(e, id, d, e), FlattenSeq(q), id, d)
    <3> DEFINE k == <<>>
    <3> HIDE DEF k
    <3>1. MadeBy(t, Len(t.thread_q), TableOf(<<>>, id, d, k), FlattenSeq(q), id, d)
      BY <2>1, AllMade
    <3> QED BY <3>1 DEF k
  <2> HIDE DEF e
  <2> QED BY <2>2, <2>3 DEF MadeBy, q
<1> HIDE DEF a, b, c, t1, t2
<1> DEFINE ab == a \o b
<1>7. IsList(ab) /\ ExecuteLines(NoTable, ab) = t2
  BY <1>3, <1>4, <1>5, LinesThen
<1> HIDE DEF ab
<1>8. ExecuteLines(NoTable, ab \o c) = ExecuteLines(t2, c)
  BY <1>6, <1>7, LinesThen
<1> QED BY <1>1, <1>6, <1>8 DEF ab, Replay

-----------------------------------------------------------------------------
(* What commands can have set.                                             *)

EnteredPeer(q) ==
    /\ q.ipv4 = 0 /\ q.AS \in Range(Numeral)
    /\ q.tx \in Range(Numeral) \X Range(Numeral) /\ q.rx \in Range(Numeral) \X Range(Numeral)
    /\ \A n \in 1..Len(q.aliases) : EnteredAlias(q.aliases[n])

EnteredAt(q, i) == EnteredPeer(q) /\ (i > 1 /\ q.p_ip \in DOMAIN Address => Address[q.p_ip] # 0)

EnteredOwn(t) == t.bgp_id \in {Unset, Junk} \cup Range(Address) /\ t.dumper \in BOOLEAN

\* The same, a neighbour at a time.
LEMMA EnteredIs ==
  ASSUME NEW t
  PROVE  AsEntered(t) <=> /\ EnteredOwn(t)
                          /\ \A i \in 1..Len(t.thread_q) : EnteredAt(t.thread_q[i], i)
<1>1. ASSUME AsEntered(t), NEW i \in 1..Len(t.thread_q) PROVE EnteredAt(t.thread_q[i], i)
  BY <1>1 DEF AsEntered, EnteredAt, EnteredPeer, EnteredAlias
<1>2. AsEntered(t) => EnteredOwn(t)
  BY DEF AsEntered, EnteredOwn
<1>3. ASSUME EnteredOwn(t), \A i \in 1..Len(t.thread_q) : EnteredAt(t.thread_q[i], i)
      PROVE  AsEntered(t)
  BY <1>3 DEF AsEntered, EnteredOwn, EnteredAt, EnteredPeer, EnteredAlias
<1> QED BY <1>1, <1>2, <1>3

LEMMA EnteredKept ==
  ASSUME NEW t, AsEntered(t), NEW u, u.thread_q = t.thread_q, EnteredOwn(u)
  PROVE  AsEntered(u)
  BY EnteredIs

LEMMA EnteredChanges ==
  ASSUME NEW t, ConfigInv(t), AsEntered(t), NEW i \in 1..Len(t.thread_q),
         NEW r, EnteredPeer(r), r.p_ip = t.thread_q[i].p_ip,
         NEW u, u.thread_q = [t.thread_q EXCEPT ![i] = r], u.bgp_id = t.bgp_id, u.dumper = t.dumper
  PROVE  AsEntered(u)
<1> DEFINE v == u.thread_q
<1>1. IsList(t.thread_q)
  BY ConfigIs
<1>2. /\ Len(v) = Len(t.thread_q)
      /\ v[i] = r /\ \A j \in 1..Len(t.thread_q) : j # i => v[j] = t.thread_q[j]
  BY <1>1, ListExcept
<1>3. EnteredOwn(t) /\ \A j \in 1..Len(t.thread_q) : EnteredAt(t.thread_q[j], j)
  BY EnteredIs
<1> HIDE DEF v
<1>4. EnteredAt(r, i)
  BY <1>3 DEF EnteredAt
<1>5. \A j \in 1..Len(v) : EnteredAt(v[j], j)
  BY <1>2, <1>3, <1>4
<1>6. EnteredOwn(u)
  BY <1>3 DEF EnteredOwn
<1> QED BY <1>5, <1>6, EnteredIs DEF v

LEMMA EnteredAdded ==
  ASSUME NEW t, ConfigInv(t), AsEntered(t), NEW q, EnteredPeer(q),
         Len(t.thread_q) # 0 /\ q.p_ip \in DOMAIN Address => Address[q.p_ip] # 0,
         NEW u, u.thread_q = Append(t.thread_q, q), u.bgp_id = t.bgp_id, u.dumper = t.dumper
  PROVE  AsEntered(u)
<1> DEFINE l == t.thread_q
           v == u.thread_q
<1>1. IsList(l) /\ Len(l) \in Nat
  BY ConfigIs DEF IsList
<1> HIDE DEF l
<1>2. /\ Len(v) = Len(l) + 1 /\ v[Len(l) + 1] = q /\ \A j \in 1..Len(l) : v[j] = l[j]
  BY <1>1, ListAppend DEF l
<1>3. EnteredOwn(t) /\ \A j \in 1..Len(l) : EnteredAt(l[j], j)
  BY EnteredIs DEF l
<1> HIDE DEF v
<1>4. EnteredAt(q, Len(l) + 1)
  BY <1>1 DEF EnteredAt, l
<1>5. \A j \in 1..Len(v) : EnteredAt(v[j], j)
  <2> TAKE j \in 1..Len(v)
  <2>1. j \in 1..Len(l) \/ j = Len(l) + 1
    BY <1>1, <1>2
  <2> QED BY <1>2, <1>3, <1>4, <2>1
<1>6. EnteredOwn(u)
  BY <1>3 DEF EnteredOwn
<1> QED BY <1>5, <1>6, EnteredIs DEF v

\* Whatever was typed, a number that can be written is stored.
LEMMA NumberEntered == \A token : Number(token) \in Range(Numeral)
  BY TextAssumption DEF Number, Range

LEMMA AliasEntered ==
  ASSUME NEW t, NEW func \in AliasFunc, NEW i, NEW tokens
  PROVE  EnteredAlias(AliasSet(t, func, i, tokens))
<1> DEFINE a == AliasSet(t, func, i, tokens)
<1>1. \/ a.code \in {"bgp_id", "origin", "multi_exit_disc", "local_pref"}
      \/ a.code \in {"as_path", "community"} /\ \E token : a.value = Number(token)
      \/ /\ a.code = "next_hop"
         /\ \E token : a.value = IF token \in DOMAIN Address THEN Address[token] ELSE 0
  BY DEF AliasSet, AliasFunc
<1> HIDE DEF a
<1>3. a.code \in {"as_path", "community"} => a.value \in Range(Numeral)
  BY <1>1, NumberEntered
<1>4. a.code = "next_hop" => a.value \in {0} \cup Range(Address)
  BY <1>1 DEF Range
<1>5. EnteredAlias(a)
  BY <1>3, <1>4 DEF EnteredAlias
<1> QED BY <1>5 DEF a

\* An alias is set.
LEMMA TranslationEntered ==
  ASSUME NEW t, ConfigInv(t), AsEntered(t), NEW i \in 1..Len(t.thread_q),
         NEW a, EnteredAlias(a), a.code \in DOMAIN Code,
         NEW u, u = set_translation(t, i, a.code, a.value, a.name)
  PROVE  AsEntered(u)
<1> DEFINE b == [code |-> a.code, value |-> a.value, name |-> a.name]
<1>1. EnteredAlias(b) /\ b.code = a.code
  BY DEF EnteredAlias
<1> HIDE DEF b
<1> DEFINE q == t.thread_q[i]
<1>2. PICK l : Translated(l, q.aliases, b) /\ u = With(t, i, l)
  BY TranslationIs DEF b
<1>3. t = [x \in TableField |-> t[x]] /\ IsList(t.thread_q) /\ PeerOK(q)
  BY ConfigIs
<1>4. EnteredPeer(q)
  BY EnteredIs DEF EnteredAt
<1> DEFINE r == [q EXCEPT !.aliases = l, !.aliasing = TRUE]
<1>5. u.thread_q = [t.thread_q EXCEPT ![i] = r] /\ u.bgp_id = t.bgp_id /\ u.dumper = t.dumper
  BY <1>2, <1>3 DEF With, TableField
<1>6. r.aliases = l /\ r.p_ip = q.p_ip /\ r.ipv4 = q.ipv4 /\ r.AS = q.AS /\ r.tx = q.tx
        /\ r.rx = q.rx
  <2> HIDE DEF q
  <2> QED BY <1>3 DEF PeerOK, PeerField
<1> HIDE DEF q, r
<1>8. ASSUME NEW n \in 1..Len(l) PROVE EnteredAlias(l[n])
  <2>1. l[n] = b \/ l[n] \in Items(q.aliases)
    BY <1>2 DEF Translated, Items, Others
  <2> QED BY <1>1, <1>4, <2>1 DEF EnteredPeer, Items
<1>9. EnteredPeer(r)
  BY <1>4, <1>6, <1>8 DEF EnteredPeer
<1>10. r.p_ip = t.thread_q[i].p_ip
  BY <1>6 DEF q
<1> QED BY <1>5, <1>9, <1>10, EnteredChanges

\* A neighbour is put into the table.
LEMMA NeighborEntered ==
  ASSUME NEW t, ConfigInv(t), AsEntered(t), NEW tokens, NEW u, u = proto_bgp_neighbor(t, tokens)
  PROVE  AsEntered(u)
<1> DEFINE ip == Token(tokens, 1)
           p_ip == IF ip \in DOMAIN Address THEN ip ELSE Garbage
           AS == Number(Token(tokens, 3))
           q == NewPeer(p_ip, AS)
<1>1. CASE peer_exists(t, ip)
  BY <1>1 DEF proto_bgp_neighbor
<1>2. CASE ~peer_exists(t, ip)
  <2>1. u = [t EXCEPT !.thread_q = Append(t.thread_q, q)]
    BY <1>2 DEF proto_bgp_neighbor
  <2>2. AS \in Range(Numeral)
    BY NumberEntered
  <2>3. p_ip \in DOMAIN Address => ip \in DOMAIN Address /\ p_ip = ip
    BY TextAssumption
  <2>4. IsList(t.thread_q) /\ t = [x \in TableField |-> t[x]]
    BY ConfigIs
  <2>5. Len(t.thread_q) # 0 => 1 \in 1..Len(t.thread_q)
    BY <2>4 DEF IsList
  <2>6. Len(t.thread_q) # 0 /\ ip \in DOMAIN Address => Address[ip] # 0
    <3>1. \A j \in 1..Len(t.thread_q) : t.thread_q[j].ipv4 = 0
      BY EnteredIs DEF EnteredAt, EnteredPeer
    <3> QED BY <1>2, <2>5, <3>1 DEF peer_exists
  <2> HIDE DEF p_ip, AS, ip
  <2>7. /\ q.p_ip = p_ip /\ q.ipv4 = 0 /\ q.AS = AS /\ q.aliases = <<>>
        /\ q.tx = DefaultBuffer /\ q.rx = DefaultBuffer
    BY DEF NewPeer
  <2> HIDE DEF q
  <2>8. EnteredPeer(q)
    BY <2>2, <2>7, TextAssumption DEF EnteredPeer
  <2>9. Len(t.thread_q) # 0 /\ q.p_ip \in DOMAIN Address => Address[q.p_ip] # 0
    BY <2>3, <2>6, <2>7
  <2>10. u.thread_q = Append(t.thread_q, q) /\ u.bgp_id = t.bgp_id /\ u.dumper = t.dumper
    BY <2>1, <2>4 DEF TableField
  <2> QED BY <2>8, <2>9, <2>10, EnteredAdded
<1> QED BY <1>1, <1>2

\* A buffer is set.
LEMMA BufferEntered ==
  ASSUME NEW t, ConfigInv(t), AsEntered(t), NEW i \in 1..Len(t.thread_q), NEW tokens,
         NEW b, b = buffer_size(tokens),
         NEW u, u = [t EXCEPT !.thread_q[i].rx = b] \/ u = [t EXCEPT !.thread_q[i].tx = b]
  PROVE  AsEntered(u)
<1> DEFINE q == t.thread_q[i]
<1>1. t = [x \in TableField |-> t[x]] /\ IsList(t.thread_q) /\ PeerOK(q)
  BY ConfigIs
<1>2. EnteredPeer(q)
  BY EnteredIs DEF EnteredAt
<1>3. b \in Range(Numeral) \X Range(Numeral)
  BY NumberEntered DEF buffer_size
<1>4. PICK r : /\ r = [q EXCEPT !.rx = b] \/ r = [q EXCEPT !.tx = b]
               /\ u = [t EXCEPT !.thread_q = [t.thread_q EXCEPT ![i] = r]]
  BY <1>1 DEF TableField, IsList
<1>5. u.thread_q = [t.thread_q EXCEPT ![i] = r] /\ u.bgp_id = t.bgp_id /\ u.dumper = t.dumper
  BY <1>1, <1>4 DEF TableField
<1> HIDE DEF q
<1>6. /\ r.aliases = q.aliases /\ r.p_ip = q.p_ip /\ r.ipv4 = q.ipv4 /\ r.AS = q.AS
      /\ r.tx \in {q.tx, b} /\ r.rx \in {q.rx, b}
  BY <1>1, <1>4 DEF PeerOK, PeerField
<1>7. EnteredPeer(r)
  BY <1>2, <1>3, <1>6 DEF EnteredPeer
<1>8. r.p_ip = t.thread_q[i].p_ip
  BY <1>6 DEF q
<1> QED BY <1>5, <1>7, <1>8, EnteredChanges

LEMMA RunEntered ==
  ASSUME NEW t, ConfigInv(t), AsEntered(t), NEW func, NEW tokens, NEW u, u = Run(t, func, tokens)
  PROVE  AsEntered(u)
<1>1. t = [x \in TableField |-> t[x]] /\ IsList(t.thread_q) /\ EnteredOwn(t)
  BY ConfigIs, EnteredIs
<1> DEFINE i == get_peer_by_str_ip(t, Token(tokens, 1))
           a == AliasSet(t, func, i, tokens)
<1>2. i # None => i \in 1..Len(t.thread_q)
  BY <1>1, PeerFound
<1>3. func \in AliasFunc => EnteredAlias(a) /\ a.code \in DOMAIN Code
  BY AliasEntered, AliasCoded
<1>4. CASE u = t
  BY <1>4
<1>5. CASE u = [t EXCEPT !.bgp_id = Aton(Token(tokens, 1))]
  <2>1. Aton(Token(tokens, 1)) \in {Unset, Junk} \cup Range(Address)
    BY DEF Aton, Range
  <2>2. u.thread_q = t.thread_q /\ EnteredOwn(u)
    BY <1>1, <1>5, <2>1 DEF TableField, EnteredOwn
  <2> QED BY <2>2, EnteredKept
<1>6. CASE u = toggle_update_dump(t, tokens)
  <2>1. PICK d \in BOOLEAN : u = [t EXCEPT !.dumper = d]
    BY <1>1, <1>6 DEF toggle_update_dump, EnteredOwn
  <2>2. u.thread_q = t.thread_q /\ EnteredOwn(u)
    BY <1>1, <2>1 DEF TableField, EnteredOwn
  <2> QED BY <2>2, EnteredKept
<1>7. CASE u = proto_bgp_neighbor(t, tokens)
  BY <1>7, NeighborEntered
<1>8. CASE func \in AliasFunc /\ i # None /\ u = set_translation(t, i, a.code, a.value, a.name)
  <2> HIDE DEF i, a
  <2> QED BY <1>2, <1>3, <1>8, TranslationEntered
<1>9. CASE u = set_peer_logging(t, i, tokens)
  <2>1. u = t \/ \E m : u = [t EXCEPT !.udp_map = m]
    BY <1>9 DEF set_peer_logging
  <2>2. u.thread_q = t.thread_q /\ EnteredOwn(u)
    BY <1>1, <2>1 DEF TableField, EnteredOwn
  <2> QED BY <2>2, EnteredKept
<1>10. CASE i # None /\ (\/ u = [t EXCEPT !.thread_q[i].rx = buffer_size(tokens)]
                         \/ u = [t EXCEPT !.thread_q[i].tx = buffer_size(tokens)])
  <2> HIDE DEF i
  <2> QED BY <1>2, <1>10, BufferEntered
<1>11. \/ u = t \/ u = [t EXCEPT !.bgp_id = Aton(Token(tokens, 1))]
       \/ u = toggle_update_dump(t, tokens) \/ u = proto_bgp_neighbor(t, tokens)
       \/ func \in AliasFunc /\ i # None /\ u = set_translation(t, i, a.code, a.value, a.name)
       \/ u = set_peer_logging(t, i, tokens)
       \/ i # None /\ (\/ u = [t EXCEPT !.thread_q[i].rx = buffer_size(tokens)]
                       \/ u = [t EXCEPT !.thread_q[i].tx = buffer_size(tokens)])
  <2> HIDE DEF i, a
  <2> QED BY RunIs DEF i, a
<1> QED BY <1>4, <1>5, <1>6, <1>7, <1>8, <1>9, <1>10, <1>11

EnteredInv == \A p \in Instance : AsEntered(table[p])

LEMMA NoTableEntered == AsEntered(NoTable)
<1> DEFINE t == NoTable
<1>1. t.thread_q = <<>> /\ t.bgp_id = Unset /\ t.dumper \in BOOLEAN /\ Len(<<>>) = 0
  BY DEF NoTable
<1> HIDE DEF t
<1>2. AsEntered(t)
  BY <1>1 DEF AsEntered
<1> QED BY <1>2 DEF t

LEMMA EnteredInit == Init => EnteredInv
<1> SUFFICES ASSUME Init, NEW p \in Instance PROVE AsEntered(table[p])
  BY DEF EnteredInv
<1>1. table[p] = NoTable \/ table[p] \in InitTable
  BY DEF Init
<1> QED BY <1>1, NoTableEntered, InitTableAssumption

LEMMA OpenEntered ==
  ASSUME TypeInv, TableInv, EnteredInv, NEW p \in Instance, NEW i \in 1..MaxLines + 2, Open(p, i)
  PROVE  EnteredInv'
<1> DEFINE t == table[p]
           peer == t.thread_q[i]
           r == [peer EXCEPT !.bgp_id = RouterId[peer.p_ip]]
           u == table'[p]
<1>1. t = [x \in TableField |-> t[x]] /\ IsList(t.thread_q) /\ ConfigInv(t) /\ AsEntered(t)
      /\ \A j \in 1..Len(t.thread_q) : PeerOK(t.thread_q[j])
  BY ConfigIs DEF TableInv, EnteredInv
<1>2. i \in 1..Len(t.thread_q) /\ PeerOK(peer) /\ EnteredPeer(peer)
  <2>1. i \in 1..Len(t.thread_q)
    BY <1>1 DEF Open, IsList
  <2> QED BY <1>1, <2>1, EnteredIs DEF EnteredAt
<1>3. EnteredPeer(r) /\ r.p_ip = peer.p_ip
  <2> HIDE DEF peer
  <2>1. /\ r.aliases = peer.aliases /\ r.p_ip = peer.p_ip /\ r.ipv4 = peer.ipv4 /\ r.AS = peer.AS
        /\ r.tx = peer.tx /\ r.rx = peer.rx
    BY <1>2 DEF PeerOK, PeerField
  <2> HIDE DEF r
  <2> QED BY <1>2, <2>1 DEF EnteredPeer
<1>4. table' = [table EXCEPT ![p].thread_q[i].bgp_id = RouterId[peer.p_ip]]
  BY DEF Open
<1>5. /\ u = [t EXCEPT !.thread_q = [t.thread_q EXCEPT ![i] = r]]
      /\ \A q \in Instance \ {p} : table'[q] = table[q]
  BY <1>1, <1>2, <1>4 DEF TypeInv, PerInstance, TableField, IsList
<1>6. u.thread_q = [t.thread_q EXCEPT ![i] = r] /\ u.bgp_id = t.bgp_id /\ u.dumper = t.dumper
  <2> HIDE DEF r, t
  <2> QED BY <1>1, <1>5 DEF TableField
<1>7. r.p_ip = t.thread_q[i].p_ip
  BY <1>3
<1> HIDE DEF r, t, u
<1>8. AsEntered(u)
  BY <1>1, <1>2, <1>3, <1>6, <1>7, EnteredChanges
<1> QED BY <1>5, <1>8 DEF EnteredInv, u

LEMMA EnteredStep == TypeInv /\ TableInv /\ EnteredInv /\ [Next]_vars => EnteredInv'
<1> SUFFICES ASSUME TypeInv, TableInv, EnteredInv, [Next]_vars PROVE EnteredInv'
  OBVIOUS
<1>1. CASE TableKept
  BY <1>1 DEF EnteredInv, TableKept
<1>2. ASSUME NEW p \in Instance, Gone(p) PROVE EnteredInv'
  <2>1. table'[p] = NoTable /\ \A q \in Instance \ {p} : table'[q] = table[q]
    BY <1>2 DEF Gone, TypeInv, PerInstance
  <2> QED BY <2>1, NoTableEntered DEF EnteredInv
<1>3. ASSUME NEW p \in Instance, NEW i \in 1..MaxLines + 2, Open(p, i) PROVE EnteredInv'
  BY <1>3, OpenEntered
<1>4. ASSUME NEW c \in Conn, Execute(c) PROVE EnteredInv'
  <2>1. conn[c].of \in Instance
    BY <1>4, Somewhere DEF Execute, Connected
  <2>2. PICK func : table'
               = [table EXCEPT ![conn[c].of] = Run(table[conn[c].of], func, conn[c].tokens)]
    BY <1>4, <2>1 DEF Execute, TypeInv, PerInstance
  <2>3. /\ table'[conn[c].of] = Run(table[conn[c].of], func, conn[c].tokens)
        /\ \A q \in Instance \ {conn[c].of} : table'[q] = table[q]
    BY <2>1, <2>2 DEF TypeInv, PerInstance
  <2>4. AsEntered(table'[conn[c].of])
    BY <2>1, <2>3, RunEntered DEF TableInv, EnteredInv
  <2> QED BY <2>3, <2>4 DEF EnteredInv
<1> QED BY <1>1, <1>2, <1>3, <1>4, NextIs

-----------------------------------------------------------------------------
(* The configuration that is saved.                                        *)

\* What SavedConfigReplays claims it of.
Claimed(t) ==
    /\ t.bgp_id # Unset
    /\ \A i \in 1..Len(t.thread_q) :
         LET q == t.thread_q[i]
         IN  /\ Single(t, q.p_ip) /\ q.p_ip \in DOMAIN Address
             /\ \A n \in DOMAIN q.aliases : q.aliases[n].code \in SavedCode
             /\ Cardinality({n \in DOMAIN q.aliases : q.aliases[n].code = "bgp_id"}) <= 1

Kept(a) == <<a.code, a.name, IF a.code = "bgp_id" THEN 0 ELSE a.value>>

AlikePeers(x, y) ==
    /\ x.p_ip = y.p_ip /\ x.AS = y.AS /\ x.tx = y.tx /\ x.rx = y.rx
    /\ Len(x.aliases) = Len(y.aliases)
    /\ {Kept(a) : a \in Range(x.aliases)} = {Kept(a) : a \in Range(y.aliases)}

AlikeTables(t, r) ==
    /\ r.bgp_id = t.bgp_id /\ r.dumper = t.dumper
    /\ Len(r.thread_q) = Len(t.thread_q)
    /\ \A i \in 1..Len(t.thread_q) : AlikePeers(t.thread_q[i], r.thread_q[i])

\* No two members of a part of an interval that has one at most.
LEMMA AtMostOne ==
  ASSUME NEW n \in Nat, NEW S, S \subseteq 1..n, Cardinality(S) <= 1
  PROVE  \A i, j \in S : i = j
<1>1. IsFiniteSet(1..n)
  BY FS_Interval
<1>2. IsFiniteSet(S)
  BY <1>1, FS_Subset
<1>3. Cardinality(S) \in Nat
  BY <1>2, FS_CardinalityType
<1>4. CASE Cardinality(S) = 0
  BY <1>2, <1>4, FS_EmptySet
<1>5. CASE Cardinality(S) = 1
  BY <1>2, <1>5, FS_Singleton
<1> QED BY <1>3, <1>4, <1>5

LEMMA ClaimedIsSavable ==
  ASSUME NEW t, ConfigInv(t), AsEntered(t), Claimed(t)
  PROVE  SavableTable(t)
<1>1. IsList(t.thread_q) /\ \A i \in 1..Len(t.thread_q) : PeerOK(t.thread_q[i])
  BY ConfigIs
<1>2. \A i \in 1..Len(t.thread_q) : EnteredAt(t.thread_q[i], i)
  BY EnteredIs
<1>3. ASSUME NEW i \in 1..Len(t.thread_q)
      PROVE  /\ Savable(t.thread_q[i])
             /\ i > 1 => Address[t.thread_q[i].p_ip] # 0
             /\ \A j \in 1..Len(t.thread_q) : t.thread_q[i].p_ip = t.thread_q[j].p_ip => i = j
  <2> DEFINE q == t.thread_q[i]
             S == {n \in DOMAIN q.aliases : q.aliases[n].code = "bgp_id"}
  <2>1. /\ Single(t, q.p_ip) /\ q.p_ip \in DOMAIN Address
        /\ \A n \in DOMAIN q.aliases : q.aliases[n].code \in SavedCode
        /\ Cardinality(S) <= 1
    BY DEF Claimed
  <2>2. PeerOK(q) /\ EnteredPeer(q) /\ (i > 1 => Address[q.p_ip] # 0)
    BY <1>1, <1>2, <2>1 DEF EnteredAt
  <2>3. \A j \in 1..Len(t.thread_q) : q.p_ip = t.thread_q[j].p_ip => i = j
    <3>1. PICK m : OnlyAt(t, q.p_ip, m)
      BY <2>1, SingleAt
    <3> QED BY <3>1 DEF OnlyAt
  <2> HIDE DEF q
  <2>4. Len(q.aliases) \in Nat /\ DOMAIN q.aliases = 1..Len(q.aliases)
    BY <2>2 DEF PeerOK, IsList
  <2>5. S \subseteq 1..Len(q.aliases)
    BY <2>4
  <2> HIDE DEF S
  <2>6. \A m, n \in S : m = n
    BY <2>1, <2>4, <2>5, AtMostOne
  <2>7. \A m, n \in 1..Len(q.aliases) :
           q.aliases[m].code = "bgp_id" /\ q.aliases[n].code = "bgp_id" => m = n
    BY <2>4, <2>6 DEF S
  <2>8. Savable(q)
    BY <2>1, <2>2, <2>4, <2>7 DEF Savable, PeerOK, EnteredPeer
  <2> QED BY <2>2, <2>3, <2>8 DEF q
<1> QED BY <1>1, <1>3 DEF SavableTable

\* The neighbour that is made is alike.
LEMMA ListRange ==
  ASSUME NEW s, IsList(s)
  PROVE  Range(s) = Items(s)
<1>1. DOMAIN s = 1..Len(s)
  BY DEF IsList
<1> QED BY <1>1 DEF Range, Items

LEMMA PeerIsAlike ==
  ASSUME NEW p, IsList(p.aliases), NEW q, IsPeer(q, p, Len(p.aliases))
  PROVE  AlikePeers(p, q)
<1> DEFINE l == p.aliases
<1>1. PICK f, y : Holds(f, p, Len(l)) /\ q = Peer(p, f, y)
  BY DEF IsPeer
<1>2. q.p_ip = p.p_ip /\ q.AS = p.AS /\ q.tx = p.tx /\ q.rx = p.rx /\ q.aliases = f
  BY <1>1, PeerHas
<1>3. Len(f) = Len(l) /\ Range(f) = Copied(p, Len(l)) /\ Range(l) = Items(l)
  BY <1>1, ListRange DEF Holds
<1>4. \A a : Kept(CopiedAlias(a)) = Kept(a)
  BY DEF Kept, CopiedAlias
<1>5. {Kept(a) : a \in Copied(p, Len(l))} = {Kept(a) : a \in Items(l)}
  <2>1. ASSUME NEW a \in Copied(p, Len(l)) PROVE Kept(a) \in {Kept(b) : b \in Items(l)}
    <3>1. PICK i \in 1..Len(l) : a = CopiedAlias(l[i])
      BY <2>1 DEF Copied
    <3>2. Kept(a) = Kept(l[i]) /\ l[i] \in Items(l)
      BY <1>4, <3>1 DEF Items
    <3> QED BY <3>2
  <2>2. ASSUME NEW b \in Items(l) PROVE Kept(b) \in {Kept(a) : a \in Copied(p, Len(l))}
    <3>1. PICK i \in 1..Len(l) : b = l[i]
      BY <2>2 DEF Items
    <3>2. Kept(b) = Kept(CopiedAlias(l[i])) /\ CopiedAlias(l[i]) \in Copied(p, Len(l))
      BY <1>4, <3>1 DEF Copied
    <3> QED BY <3>2
  <2> HIDE DEF l
  <2> QED BY <2>1, <2>2
<1> QED BY <1>2, <1>3, <1>5 DEF AlikePeers

LEMMA ClaimedReplays ==
  ASSUME NEW t, ConfigInv(t), AsEntered(t), Claimed(t)
  PROVE  AlikeTables(t, Replay(write_configs(t)))
<1> DEFINE r == Replay(write_configs(t))
<1>1. SavableTable(t)
  BY ClaimedIsSavable
<1>2. EnteredOwn(t) /\ t.bgp_id # Unset
  BY EnteredIs DEF Claimed
<1>3. PICK s, m : Made(t, s, Len(t.thread_q)) /\ r = TableOf(s, t.bgp_id, t.dumper, m)
  BY <1>1, <1>2, ReplayMakes DEF EnteredOwn
<1> HIDE DEF r
<1>4. r.thread_q = s /\ r.bgp_id = t.bgp_id /\ r.dumper = t.dumper
  BY <1>3 DEF TableOf
<1>5. Len(s) = Len(t.thread_q)
  BY <1>3 DEF Made
<1>6. ASSUME NEW i \in 1..Len(t.thread_q) PROVE AlikePeers(t.thread_q[i], s[i])
  <2>1. IsPeer(s[i], t.thread_q[i], Len(t.thread_q[i].aliases))
    BY <1>3 DEF Made
  <2>2. IsList(t.thread_q[i].aliases)
    BY <1>1 DEF SavableTable, Savable
  <2> QED BY <2>1, <2>2, PeerIsAlike
<1>7. AlikeTables(t, r)
  BY <1>4, <1>5, <1>6 DEF AlikeTables
<1> QED BY <1>7 DEF r

\* After every command, what write_configs would save makes a configuration with the
\* same identifier, dumper, neighbours and buffers again, and for each neighbour the
\* same aliases, if our identifier is set, no neighbour is twice in the table, and every
\* alias is of a kind that is saved, of bgp-id at most one: each saved line is led to its
\* own command by the words it was written with, the neighbours come back in their order
\* and each with all of its aliases, whatever order std::sort puts those of one code in.
THEOREM ConsoleSaves == Spec => []SavedConfigReplays
<1>1. ASSUME TableInv, EnteredInv PROVE SavedConfigReplays
  <2>1. ASSUME NEW p \in Instance, Claimed(table[p])
        PROVE  AlikeTables(table[p], Replay(write_configs(table[p])))
    BY <1>1, <2>1, ClaimedReplays DEF TableInv, EnteredInv
  <2> QED BY <2>1 DEF SavedConfigReplays, Claimed, AlikeTables, AlikePeers, Kept, SavedCode
<1> QED BY <1>1, TypeInit, TypeStep, TableInit, TableStep, EnteredInit, EnteredStep, PTL DEF Spec
=============================================================================
