-------------------------- MODULE RouteTableProofs --------------------------
(***************************************************************************)
(* Proofs about RouteTable: the parser takes from a message the routes and *)
(* the attributes that were put into it, the table follows the neighbours, *)
(* the count of prefixes, what the searches find and where they fail.      *)
(***************************************************************************)
EXTENDS RouteTable, FiniteSetTheorems, SequenceTheorems, Induction

-----------------------------------------------------------------------------
(* Bytes.                                                                  *)

\* Where the bytes of two sequences are when one is put behind the other.
Joined(s, t, u) ==
    /\ u \in Seq(Byte) /\ Len(u) = Len(s) + Len(t)
    /\ \A i \in 1..Len(s) : u[i] = s[i]
    /\ \A i \in 1..Len(t) : u[Len(s) + i] = t[i]

LEMMA CatIs ==
  ASSUME NEW S, NEW s \in Seq(S), NEW t \in Seq(S)
  PROVE  s \o t \in Seq(S) /\ Len(s \o t) = Len(s) + Len(t)
OBVIOUS

LEMMA Join ==
  ASSUME NEW s \in Seq(Byte), NEW t \in Seq(Byte)
  PROVE  Joined(s, t, s \o t)
  BY DEF Joined

LEMMA AtIs ==
  ASSUME NEW f \in Seq(Byte), NEW i \in Nat
  PROVE  /\ At(f, i) \in Byte
         /\ i < Len(f) => At(f, i) = f[i + 1]
         /\ i >= Len(f) => At(f, i) = 0
<1>1. CASE i < Len(f)
  <2>1. i + 1 \in 1..Len(f)
    BY <1>1
  <2> QED BY <1>1, <2>1 DEF At
<1>2. CASE ~(i < Len(f))
  BY <1>2 DEF At, Byte
<1> QED BY <1>1, <1>2

\* The same, as the parser indexes them.
Follows(s, t, u) ==
    /\ \A i \in Nat : i < Len(s) => At(u, i) = At(s, i)
    /\ \A i \in Nat : At(u, Len(s) + i) = At(t, i)

LEMMA JoinedAt ==
  ASSUME NEW s \in Seq(Byte), NEW t \in Seq(Byte), NEW u, Joined(s, t, u)
  PROVE  Follows(s, t, u)
<1>0. u \in Seq(Byte) /\ Len(u) = Len(s) + Len(t) /\ Len(s) \in Nat /\ Len(t) \in Nat
  BY DEF Joined
<1>1. ASSUME NEW i \in Nat, i < Len(s) PROVE At(u, i) = At(s, i)
  <2>1. i + 1 \in 1..Len(s)
    BY <1>0, <1>1
  <2>2. u[i + 1] = s[i + 1]
    BY <2>1 DEF Joined
  <2> QED BY <1>0, <1>1, <2>2 DEF At
<1>2. ASSUME NEW i \in Nat PROVE At(u, Len(s) + i) = At(t, i)
  <2>1. CASE i < Len(t)
    <3>1. i + 1 \in 1..Len(t) /\ Len(s) + (i + 1) = (Len(s) + i) + 1 /\ Len(s) + i < Len(u)
      BY <1>0, <2>1
    <3>2. u[(Len(s) + i) + 1] = t[i + 1]
      BY <3>1 DEF Joined
    <3> QED BY <2>1, <3>1, <3>2 DEF At
  <2>2. CASE ~(i < Len(t))
    <3>1. ~(Len(s) + i < Len(u))
      BY <1>0, <2>2
    <3> QED BY <2>2, <3>1 DEF At
  <2> QED BY <2>1, <2>2
<1> QED BY <1>1, <1>2 DEF Follows

LEMMA PrefixBytesIs ==
  ASSUME NEW length \in Byte
  PROVE  PrefixBytes(length) \in 0..32 /\ (length <= 32 => PrefixBytes(length) \in 0..4)
  BY DEF PrefixBytes, Byte

\* Concat by its parts: the first i of them, from what it has of the i - 1 before.
Upto(parts, w, i) == IF i = 0 THEN <<>> ELSE w[i - 1] \o parts[i]

LEMMA ConcatExists ==
  ASSUME NEW parts
  PROVE  \A n \in Nat : \E w : w = [i \in 0..n |-> Upto(parts, w, i)]
<1> DEFINE S == {n \in Nat : \E w : w = [i \in 0..n |-> Upto(parts, w, i)]}
<1>1. 0 \in S
  <2> DEFINE w == [i \in 0..0 |-> <<>>]
  <2>1. w = [i \in 0..0 |-> Upto(parts, w, i)]
    BY DEF Upto
  <2> HIDE DEF w
  <2> QED BY <2>1
<1>2. \A n \in Nat : n \in S => n + 1 \in S
  <2> SUFFICES ASSUME NEW n \in Nat, NEW w, w = [i \in 0..n |-> Upto(parts, w, i)]
               PROVE  \E v : v = [i \in 0..(n + 1) |-> Upto(parts, v, i)]
    OBVIOUS
  <2> DEFINE v == [i \in 0..(n + 1) |-> IF i <= n THEN w[i] ELSE Upto(parts, w, i)]
  <2>1. \A i \in 0..n : v[i] = w[i]
    OBVIOUS
  <2>2. \A i \in 0..(n + 1) : v[i] = Upto(parts, w, i)
    <3> TAKE i \in 0..(n + 1)
    <3>1. CASE i <= n
      BY <3>1
    <3>2. CASE ~(i <= n)
      BY <3>2
    <3> QED BY <3>1, <3>2
  <2>3. \A i \in 0..(n + 1) : Upto(parts, w, i) = Upto(parts, v, i)
    <3> TAKE i \in 0..(n + 1)
    <3>1. i = 0 \/ i - 1 \in 0..n
      OBVIOUS
    <3> HIDE DEF v
    <3> QED BY <2>1, <3>1 DEF Upto
  <2>4. v = [i \in 0..(n + 1) |-> v[i]]
    OBVIOUS
  <2> HIDE DEF v
  <2>5. v = [i \in 0..(n + 1) |-> Upto(parts, v, i)]
    BY <2>2, <2>3, <2>4
  <2> QED BY <2>5
<1> HIDE DEF S
<1>3. Nat \subseteq S
  BY <1>1, <1>2, NatSet
<1> QED BY <1>3 DEF S

LEMMA ConcatIs ==
  ASSUME NEW parts, Len(parts) \in Nat
  PROVE  \E w : /\ Concat(parts) = w[Len(parts)] /\ w[0] = <<>>
                /\ \A n \in 1..Len(parts) : w[n] = w[n - 1] \o parts[n]
<1> DEFINE Is(w) == w = [n \in 0..Len(parts) |-> IF n = 0 THEN <<>> ELSE w[n - 1] \o parts[n]]
           W == CHOOSE w : Is(w)
<1>1. \E w : Is(w)
  BY ConcatExists DEF Upto
<1>2. Concat(parts) = W[Len(parts)]
  BY DEF Concat
<1>3. Is(W)
  BY <1>1
<1> HIDE DEF W
<1>4. \A n \in 0..Len(parts) : W[n] = IF n = 0 THEN <<>> ELSE W[n - 1] \o parts[n]
  BY <1>3
<1>5. W[0] = <<>>
  BY <1>4
<1>6. ASSUME NEW n \in 1..Len(parts) PROVE W[n] = W[n - 1] \o parts[n]
  <2>1. n \in 0..Len(parts) /\ n # 0
    OBVIOUS
  <2> QED BY <1>4, <2>1, Zenon
<1> QED BY <1>2, <1>5, <1>6

-----------------------------------------------------------------------------
(* A list of routes in bytes.                                              *)

Part(r) == <<r.length>> \o SubSeq(r.prefix, 1, PrefixBytes(r.length))

LEMMA RouteType ==
  ASSUME NEW r \in Route
  PROVE  /\ r = [prefix |-> r.prefix, length |-> r.length]
         /\ r.prefix \in Address /\ r.length \in 0..32
         /\ r.length \in Byte /\ PrefixBytes(r.length) \in 0..4
<1>1. r \in [prefix : Address, length : 0..32]
  BY RouteAssumption
<1>2. r = [prefix |-> r.prefix, length |-> r.length] /\ r.prefix \in Address /\ r.length \in 0..32
  BY <1>1
<1>3. r.length \in Byte /\ r.length <= 32
  BY <1>2 DEF Byte
<1> QED BY <1>2, <1>3, PrefixBytesIs

LEMMA PartIs ==
  ASSUME NEW r \in Route
  PROVE  /\ Part(r) \in Seq(Byte) /\ Len(Part(r)) = 1 + PrefixBytes(r.length)
         /\ At(Part(r), 0) = r.length
         /\ \A i \in 1..PrefixBytes(r.length) : At(Part(r), i) = r.prefix[i]
<1> DEFINE b == PrefixBytes(r.length)
           p == r.prefix
           s == SubSeq(p, 1, b)
           l == <<r.length>>
<1>1. p \in Address /\ r.length \in Byte /\ b \in 0..4
  BY RouteType
<1> HIDE DEF b, p
<1>2. \A i \in 1..b : p[i] \in Byte
  BY <1>1 DEF Address
<1>3. s \in Seq(Byte) /\ Len(s) = b /\ \A i \in 1..b : s[i] = p[i]
  <2>1. b \in Int /\ 1 \in Int
    BY <1>1
  <2>2. /\ SubSeq(p, 1, b) \in Seq(Byte)
        /\ Len(SubSeq(p, 1, b)) = IF 1 <= b THEN b - 1 + 1 ELSE 0
        /\ \A i \in 1..(b - 1 + 1) : SubSeq(p, 1, b)[i] = p[1 + i - 1]
    BY <1>2, <2>1, SubSeqProperties
  <2> HIDE DEF s
  <2>3. s = SubSeq(p, 1, b)
    BY DEF s
  <2>4. s \in Seq(Byte)
    BY <2>2, <2>3, Zenon
  <2>5. Len(s) = b
    <3>1. Len(s) = IF 1 <= b THEN b - 1 + 1 ELSE 0
      BY <2>2, <2>3, Zenon
    <3> QED BY <1>1, <3>1
  <2>6. ASSUME NEW i \in 1..b PROVE s[i] = p[i]
    <3>1. i \in 1..(b - 1 + 1) /\ 1 + i - 1 = i
      BY <1>1
    <3>2. s[i] = p[1 + i - 1]
      BY <2>2, <2>3, <3>1, Zenon
    <3> QED BY <3>1, <3>2, Zenon
  <2> QED BY <2>4, <2>5, <2>6
<1>4. l \in Seq(Byte) /\ Len(l) = 1 /\ l[1] = r.length
  BY <1>1
<1> HIDE DEF s, l
<1>5. Joined(l, s, Part(r))
  BY <1>3, <1>4, Join DEF Part, s, l, b, p
<1>6. Part(r) \in Seq(Byte) /\ Len(Part(r)) = 1 + b
  BY <1>3, <1>4, <1>5 DEF Joined
<1>a. Follows(l, s, Part(r))
  BY <1>3, <1>4, <1>5, JoinedAt
<1>7. At(Part(r), 0) = r.length
  <2>0. 0 \in Nat /\ 0 < Len(l)
    BY <1>4
  <2>1. At(Part(r), 0) = At(l, 0)
    BY <1>a, <2>0, Zenon DEF Follows
  <2> QED BY <1>4, <2>1 DEF At
<1>8. ASSUME NEW i \in 1..b PROVE At(Part(r), i) = p[i]
  <2>1. i - 1 \in Nat /\ Len(l) + (i - 1) = i /\ i - 1 < Len(s) /\ (i - 1) + 1 = i
    BY <1>1, <1>3, <1>4
  <2>2. At(Part(r), i) = At(s, i - 1)
    BY <1>a, <2>1 DEF Follows
  <2>3. At(s, i - 1) = s[i]
    BY <2>1 DEF At
  <2> QED BY <1>3, <2>2, <2>3
<1> QED BY <1>6, <1>7, <1>8 DEF b, p

\* Route n of a list starts at st[n] of f, the last ends at st[Len(routes) + 1].
Laid(f, routes, st) ==
    /\ \A n \in 1..(Len(routes) + 1) : st[n] \in Nat
    /\ \A n \in 1..Len(routes) :
         /\ st[n + 1] = st[n] + 1 + PrefixBytes(routes[n].length)
         /\ At(f, st[n]) = routes[n].length
         /\ \A i \in 1..PrefixBytes(routes[n].length) : At(f, st[n] + i) = routes[n].prefix[i]

\* The routes so far are in f, one behind the other.
LEMMA EncodedRoutes ==
  ASSUME NEW routes \in Seq(Route)
  PROVE  /\ EncodeRoutes(routes) \in Seq(Byte)
         /\ \E st : /\ Laid(EncodeRoutes(routes), routes, st) /\ st[1] = 0
                    /\ st[Len(routes) + 1] = Len(EncodeRoutes(routes))
                    /\ \A n \in 1..Len(routes) : st[n + 1] <= Len(EncodeRoutes(routes))
<1> DEFINE L == Len(routes)
           parts == [n \in 1..L |-> Part(routes[n])]
<1>0. L \in Nat /\ \A n \in 1..L : routes[n] \in Route
  OBVIOUS
<1>1. Len(parts) = L
  BY <1>0
<1>2. EncodeRoutes(routes) = Concat(parts)
  BY DEF EncodeRoutes, Part
<1>3. PICK w : /\ Concat(parts) = w[L] /\ w[0] = <<>>
               /\ \A n \in 1..L : w[n] = w[n - 1] \o parts[n]
  <2> HIDE DEF parts
  <2> QED BY <1>0, <1>1, ConcatIs, ZenonT(40)
<1>4. ASSUME NEW n \in 1..L PROVE w[n] = w[n - 1] \o Part(routes[n])
  <2>1. parts[n] = Part(routes[n])
    OBVIOUS
  <2> HIDE DEF parts
  <2> QED BY <1>3, <2>1
<1> HIDE DEF L, parts
<1> DEFINE Fits(f, n) ==
             /\ Len(w[n - 1]) \in Nat
             /\ Len(w[n]) = Len(w[n - 1]) + 1 + PrefixBytes(routes[n].length)
             /\ Len(w[n]) <= Len(f)
             /\ At(f, Len(w[n - 1])) = routes[n].length
             /\ \A i \in 1..PrefixBytes(routes[n].length) :
                  At(f, Len(w[n - 1]) + i) = routes[n].prefix[i]
           S == {j \in Nat : j <= L => w[j] \in Seq(Byte) /\ \A n \in 1..j : Fits(w[j], n)}
<1>5. 0 \in S
  <2>1. w[0] \in Seq(Byte) /\ 1..0 = {}
    BY <1>3
  <2> HIDE DEF Fits
  <2> QED BY <2>1
<1>6. ASSUME NEW j \in Nat, j \in S PROVE j + 1 \in S
  <2> SUFFICES ASSUME j + 1 <= L
               PROVE  w[j + 1] \in Seq(Byte) /\ \A n \in 1..(j + 1) : Fits(w[j + 1], n)
    OBVIOUS
  <2> DEFINE r == routes[j + 1]
             f == w[j]
             g == w[j + 1]
  <2>1. j <= L /\ j + 1 \in 1..L /\ (j + 1) - 1 = j
    BY <1>0
  <2>2. f \in Seq(Byte) /\ \A n \in 1..j : Fits(f, n)
    BY <1>6, <2>1
  <2>3. r \in Route
    BY <1>0, <2>1 DEF L
  <2>4. /\ Part(r) \in Seq(Byte) /\ Len(Part(r)) = 1 + PrefixBytes(r.length)
        /\ At(Part(r), 0) = r.length
        /\ \A i \in 1..PrefixBytes(r.length) : At(Part(r), i) = r.prefix[i]
    BY <2>3, PartIs
  <2>5. Joined(f, Part(r), g)
    <3>1. g = f \o Part(r)
      BY <1>4, <2>1
    <3> HIDE DEF f, g, r
    <3> QED BY <2>2, <2>4, <3>1, Join
  <2>10. Follows(f, Part(r), g)
    <3> HIDE DEF f, g, r
    <3> QED BY <2>2, <2>4, <2>5, JoinedAt
  <2>6. PrefixBytes(r.length) \in Nat
    BY <2>3, RouteType
  <2>7. g \in Seq(Byte) /\ Len(f) \in Nat /\ Len(g) = Len(f) + 1 + PrefixBytes(r.length)
    <3> HIDE DEF f, g, r
    <3> QED BY <2>2, <2>4, <2>5, <2>6 DEF Joined
  <2>8. Fits(g, j + 1)
    <3>1. At(g, Len(f) + 0) = r.length
      <4> HIDE DEF f, g, r
      <4> QED BY <2>4, <2>10 DEF Follows
    <3>2. At(g, Len(f)) = r.length
      <4> HIDE DEF f, g, r
      <4> QED BY <2>7, <3>1
    <3>3. ASSUME NEW i \in 1..PrefixBytes(r.length) PROVE At(g, Len(f) + i) = r.prefix[i]
      <4> HIDE DEF f, g, r
      <4>1. i \in Nat /\ At(Part(r), i) = r.prefix[i]
        BY <2>4, <2>6
      <4> QED BY <2>10, <4>1 DEF Follows
    <3> QED BY <2>1, <2>7, <3>2, <3>3
  <2>9. ASSUME NEW n \in 1..j PROVE Fits(g, n)
    <3>1. Fits(f, n)
      BY <2>2
    <3>2. PrefixBytes(routes[n].length) \in Nat
      <4>1. routes[n] \in Route
        BY <1>0, <2>1 DEF L
      <4> QED BY <4>1, RouteType
    <3>3. \A i \in Nat : i < Len(f) => At(g, i) = At(f, i)
      <4> HIDE DEF f, g, r
      <4> QED BY <2>10 DEF Follows
    <3>4. Len(w[n]) <= Len(g)
      <4> HIDE DEF f, g, r
      <4> QED BY <2>6, <2>7, <3>1, <3>2, SMT
    <3>5. At(g, Len(w[n - 1])) = routes[n].length
      <4> HIDE DEF f, g, r
      <4> QED BY <2>7, <3>1, <3>2, <3>3
    <3>6. ASSUME NEW i \in 1..PrefixBytes(routes[n].length)
          PROVE  At(g, Len(w[n - 1]) + i) = routes[n].prefix[i]
      <4> HIDE DEF f, g, r
      <4>1. Len(w[n - 1]) + i \in Nat /\ Len(w[n - 1]) + i < Len(f)
        <5>1. Len(w[n - 1]) \in Nat /\ Len(w[n]) = Len(w[n - 1]) + 1 + PrefixBytes(routes[n].length)
              /\ Len(w[n]) <= Len(f)
          BY <3>1
        <5> DEFINE x == Len(w[n - 1])
                   y == Len(w[n])
                   z == Len(f)
                   b == PrefixBytes(routes[n].length)
        <5>2. x \in Nat /\ y = x + 1 + b /\ y <= z /\ z \in Nat /\ b \in Nat /\ i \in 1..b
          BY <2>7, <3>2, <5>1
        <5> HIDE DEF Fits, x, y, z, b
        <5>3. x + i \in Nat /\ x + i < z
          BY <5>2
        <5> QED BY <5>3 DEF x, z
      <4> QED BY <3>1, <3>3, <4>1
    <3> QED BY <3>1, <3>4, <3>5, <3>6
  <2>11. \A n \in 1..(j + 1) : n = j + 1 \/ n \in 1..j
    OBVIOUS
  <2> HIDE DEF Fits
  <2> QED BY <2>7, <2>8, <2>9, <2>11
<1> HIDE DEF S
<1>7. L \in S
  BY <1>0, <1>5, <1>6, NatSet
<1>8. w[L] \in Seq(Byte) /\ \A n \in 1..L : Fits(w[L], n)
  <2>1. L <= L
    BY <1>0 DEF L
  <2> HIDE DEF Fits
  <2> QED BY <1>7, <2>1 DEF S
<1> DEFINE st == [n \in 1..(L + 1) |-> Len(w[n - 1])]
<1>9. Laid(w[L], routes, st) /\ st[1] = 0 /\ st[L + 1] = Len(w[L])
      /\ \A n \in 1..L : st[n + 1] <= Len(w[L])
  <2>1. \A n \in 1..L : st[n] = Len(w[n - 1]) /\ st[n + 1] = Len(w[n])
    BY <1>0
  <2>2. st[1] = 0 /\ st[L + 1] = Len(w[L])
    BY <1>0, <1>3
  <2> HIDE DEF st
  <2>3. \A n \in 1..(L + 1) : st[n] \in Nat
    <3> TAKE n \in 1..(L + 1)
    <3>1. n = L + 1 \/ n \in 1..L
      BY <1>0
    <3> QED BY <1>8, <2>1, <2>2, <3>1
  <2> QED BY <1>8, <2>1, <2>2, <2>3 DEF Laid, L
<1> HIDE DEF st
<1> QED BY <1>2, <1>3, <1>8, <1>9 DEF L

-----------------------------------------------------------------------------
(* The parser of a list of routes.                                         *)

After(f, i) == i + 1 + PrefixBytes(At(f, i))
ParseTurn(f, w, i) == IF At(f, i) = 0 THEN <<>> ELSE <<NlriAt(f, i)>> \o w[After(f, i)]

\* The last n places of the domain parse_nlri's loop has.
Behind(f, off, n) == {i \in off..(Len(f) + 37) : i > Len(f) + 37 - n}

\* A turn that is not the last ends inside it.
LEMMA AfterIs ==
  ASSUME NEW f \in Seq(Byte), NEW i \in Nat, At(f, i) # 0
  PROVE  After(f, i) \in Nat /\ i < After(f, i) /\ After(f, i) <= Len(f) + 37
<1>1. At(f, i) \in Byte /\ i < Len(f) /\ Len(f) \in Nat
  BY AtIs
<1>2. PrefixBytes(At(f, i)) \in 0..32
  BY <1>1, PrefixBytesIs
<1>3. After(f, i) = i + 1 + PrefixBytes(At(f, i))
  BY DEF After
<1>4. i \in Nat /\ i < Len(f) /\ Len(f) \in Nat
  BY <1>1
<1> DEFINE b == PrefixBytes(At(f, i))
           a == After(f, i)
           l == Len(f)
<1>5. b \in 0..32 /\ a = i + 1 + b /\ i < l /\ l \in Nat
  BY <1>2, <1>3, <1>4
<1> HIDE DEF a, b, l
<1>6. a \in Nat /\ i < a /\ a <= l + 37
  BY <1>5
<1> QED BY <1>6 DEF a, l

LEMMA ParseExists ==
  ASSUME NEW f \in Seq(Byte), NEW off \in Nat
  PROVE  \A n \in Nat : \E w : w = [i \in Behind(f, off, n) |-> ParseTurn(f, w, i)]
<1> DEFINE S == {n \in Nat : \E w : w = [i \in Behind(f, off, n) |-> ParseTurn(f, w, i)]}
<1>0. Len(f) \in Nat
  OBVIOUS
<1>1. 0 \in S
  <2> DEFINE w == [i \in Behind(f, off, 0) |-> 0]
  <2>1. Behind(f, off, 0) = {}
    BY <1>0 DEF Behind
  <2>2. w = [i \in Behind(f, off, 0) |-> ParseTurn(f, w, i)]
    BY <2>1
  <2> HIDE DEF w
  <2> QED BY <2>2
<1>2. \A n \in Nat : n \in S => n + 1 \in S
  <2> SUFFICES ASSUME NEW n \in Nat, NEW w, w = [i \in Behind(f, off, n) |-> ParseTurn(f, w, i)]
               PROVE  \E v : v = [i \in Behind(f, off, n + 1) |-> ParseTurn(f, v, i)]
    OBVIOUS
  <2> DEFINE v == [i \in Behind(f, off, n + 1) |->
                     IF i \in Behind(f, off, n) THEN w[i] ELSE ParseTurn(f, w, i)]
  <2>1. \A i \in Behind(f, off, n) : v[i] = w[i]
    BY <1>0 DEF Behind
  <2>2. \A i \in Behind(f, off, n + 1) : v[i] = ParseTurn(f, w, i)
    OBVIOUS
  <2>3. \A i \in Behind(f, off, n + 1) : ParseTurn(f, w, i) = ParseTurn(f, v, i)
    <3> TAKE i \in Behind(f, off, n + 1)
    <3>1. i \in Nat /\ i >= off /\ i > Len(f) + 37 - (n + 1)
      BY <1>0 DEF Behind
    <3>2. CASE At(f, i) = 0
      BY <3>2 DEF ParseTurn
    <3>3. CASE At(f, i) # 0
      <4>1. After(f, i) \in Nat /\ i < After(f, i) /\ After(f, i) <= Len(f) + 37
        BY <3>1, <3>3, AfterIs
      <4>2. After(f, i) \in Behind(f, off, n)
        BY <1>0, <3>1, <4>1 DEF Behind
      <4>3. v[After(f, i)] = w[After(f, i)]
        BY <2>1, <4>2
      <4> HIDE DEF v
      <4> QED BY <4>3 DEF ParseTurn
    <3> QED BY <3>2, <3>3
  <2>4. v = [i \in Behind(f, off, n + 1) |-> v[i]]
    OBVIOUS
  <2> HIDE DEF v
  <2>5. v = [i \in Behind(f, off, n + 1) |-> ParseTurn(f, v, i)]
    BY <2>2, <2>3, <2>4
  <2> QED BY <2>5
<1> HIDE DEF S
<1>3. Nat \subseteq S
  BY <1>1, <1>2, NatSet
<1> QED BY <1>3 DEF S

\* What the loop makes of the bytes from i on, for every i from off on.
Parses(f, off, w) ==
    /\ parse_nlri(f, off) = w[off]
    /\ \A i \in off..(Len(f) + 37) : w[i] = ParseTurn(f, w, i)

LEMMA ParseIs ==
  ASSUME NEW f \in Seq(Byte), NEW off \in Nat
  PROVE  \E w : Parses(f, off, w)
<1> DEFINE Is(w) == w = [i \in off..(Len(f) + 37) |->
             IF At(f, i) = 0 THEN <<>>
             ELSE <<NlriAt(f, i)>> \o w[i + 1 + PrefixBytes(At(f, i))]]
           W == CHOOSE w : Is(w)
<1>0. Len(f) \in Nat
  OBVIOUS
<1>1. Behind(f, off, Len(f) + 38) = off..(Len(f) + 37) /\ Len(f) + 38 \in Nat
  BY <1>0 DEF Behind
<1>2. \E w : Is(w)
  <2>1. PICK w : w = [i \in Behind(f, off, Len(f) + 38) |-> ParseTurn(f, w, i)]
    BY <1>1, ParseExists
  <2>2. w = [i \in off..(Len(f) + 37) |-> ParseTurn(f, w, i)]
    BY <1>1, <2>1
  <2>3. Is(w)
    BY <2>2 DEF ParseTurn, After
  <2> QED BY <2>3
<1>3. parse_nlri(f, off) = W[off]
  BY DEF parse_nlri
<1>4. Is(W)
  BY <1>2
<1> HIDE DEF W
<1>5. \A i \in off..(Len(f) + 37) : W[i] = ParseTurn(f, W, i)
  BY <1>4 DEF ParseTurn, After
<1>6. Parses(f, off, W)
  BY <1>3, <1>5 DEF Parses
<1> QED BY <1>6

\* A byte the message does not carry is all host bits.
LEMMA BehindPrefix ==
  ASSUME NEW len \in 0..32, NEW j \in 1..4, NEW x \in 0..255, x % HostSize(len, j) = 0
  PROVE  j <= PrefixBytes(len) \/ x = 0
<1> SUFFICES ASSUME ~(j <= PrefixBytes(len)) PROVE x = 0
  OBVIOUS
<1>1. len - 8 * (j - 1) <= 0
  BY DEF PrefixBytes
<1>2. Min8(len - 8 * (j - 1)) = 0
  BY <1>1 DEF Min8
<1>3. HostSize(len, j) = 2 ^ (8 - 0)
  BY <1>2, Zenon DEF HostSize
<1>4. 2 ^ (8 - 0) = 256
  OBVIOUS
<1> QED BY <1>3, <1>4

\* The route at the start of one that is laid out is that route.
LEMMA NlriReads ==
  ASSUME NEW f \in Seq(Byte), NEW i \in Nat, NEW r \in Route, At(f, i) = r.length,
         \A j \in 1..PrefixBytes(r.length) : At(f, i + j) = r.prefix[j]
  PROVE  NlriAt(f, i) = r
<1>0. r = [prefix |-> r.prefix, length |-> r.length]
  BY RouteType
<1>1. r.prefix \in Address /\ r.length \in 0..32 /\ PrefixBytes(r.length) \in 0..4
  BY RouteType
<1>2. ASSUME NEW j \in 1..4 PROVE j <= PrefixBytes(r.length) \/ r.prefix[j] = 0
  <2>1. r.prefix[j] \in 0..255
    <3> DEFINE p == r.prefix
    <3>1. p \in Address
      BY <1>1
    <3> HIDE DEF p
    <3>2. p[j] \in 0..255
      BY <3>1 DEF Address, Byte
    <3> QED BY <3>2 DEF p
  <2>2. r.prefix[j] % HostSize(r.length, j) = 0
    BY RouteAssumption
  <2> QED BY <1>1, <2>1, <2>2, BehindPrefix, ZenonT(40)
<1>3. [n \in 1..4 |-> IF n <= PrefixBytes(r.length) THEN At(f, i + n) ELSE 0] = r.prefix
  <2>1. ASSUME NEW n \in 1..4
        PROVE  (IF n <= PrefixBytes(r.length) THEN At(f, i + n) ELSE 0) = r.prefix[n]
    <3>1. CASE n <= PrefixBytes(r.length)
      <4>1. n \in 1..PrefixBytes(r.length)
        BY <1>1, <3>1
      <4> QED BY <3>1, <4>1
    <3>2. CASE ~(n <= PrefixBytes(r.length))
      BY <1>2, <3>2
    <3> QED BY <3>1, <3>2
  <2>2. r.prefix = [n \in 1..4 |-> r.prefix[n]]
    BY <1>1 DEF Address
  <2> QED BY <2>1, <2>2
<1>4. NlriAt(f, i) = [prefix |-> [n \in 1..4 |-> IF n <= PrefixBytes(r.length)
                                               THEN At(f, i + n) ELSE 0],
                      length |-> r.length]
  BY DEF NlriAt
<1> QED BY <1>0, <1>3, <1>4
\* The routes from n on.
Rest(routes, n) == [i \in 1..(Len(routes) + 1 - n) |-> routes[n - 1 + i]]

LEMMA RestIs ==
  ASSUME NEW routes \in Seq(Route), NEW n \in 1..Len(routes)
  PROVE  Rest(routes, n) = <<routes[n]>> \o Rest(routes, n + 1)
<1> DEFINE L == Len(routes)
           s == Rest(routes, n)
           t == Rest(routes, n + 1)
           u == <<routes[n]>> \o t
<1>0. L \in Nat /\ n \in Nat /\ n <= L /\ \A i \in 1..L : routes[i] \in Route
  OBVIOUS
<1>1. s \in Seq(Route) /\ Len(s) = L + 1 - n /\ \A i \in 1..(L + 1 - n) : s[i] = routes[n - 1 + i]
  BY <1>0 DEF Rest
<1>2. t \in Seq(Route) /\ Len(t) = L - n /\ \A i \in 1..(L - n) : t[i] = routes[n + i]
  BY <1>0 DEF Rest
<1> HIDE DEF s, t, L
<1>3. <<routes[n]>> \in Seq(Route) /\ Len(<<routes[n]>>) = 1
  BY <1>0
<1>4. u \in Seq(Route) /\ Len(u) = L + 1 - n
  <2> DEFINE h == <<routes[n]>>
  <2> HIDE DEF h
  <2>1. h \in Seq(Route) /\ Len(h) = 1
    BY <1>3 DEF h
  <2>0. t \in Seq(Route)
    BY <1>2
  <2>2. h \o t \in Seq(Route) /\ Len(h \o t) = Len(h) + Len(t)
    BY <2>0, <2>1, CatIs, Zenon
  <2>3. u \in Seq(Route) /\ Len(u) = Len(h) + Len(t)
    BY <2>2 DEF h
  <2> HIDE DEF u
  <2> QED BY <1>0, <1>2, <2>1, <2>3
<1>5. \A i \in 1..(L + 1 - n) : u[i] = s[i]
  <2> TAKE i \in 1..(L + 1 - n)
  <2>1. CASE i = 1
    <3>1. u[1] = routes[n]
      BY <1>2, <1>3
    <3>2. s[1] = routes[n - 1 + 1] /\ n - 1 + 1 = n
      BY <1>0, <1>1
    <3> HIDE DEF u
    <3> QED BY <2>1, <3>1, <3>2
  <2>2. CASE i # 1
    <3>1. i - 1 \in 1..(L - n) /\ n + (i - 1) = n - 1 + i
      BY <1>0, <2>2
    <3>2. u[i] = t[i - 1]
      BY <1>2, <1>3, <3>1
    <3> HIDE DEF u
    <3> QED BY <1>1, <1>2, <3>1, <3>2
  <2> QED BY <2>1, <2>2
<1> HIDE DEF u
<1>6. u = s
  BY <1>1, <1>4, <1>5, SeqEqual
<1> QED BY <1>6 DEF u, s, t

\* The bytes of routes are in g from off on, and what follows them is 0.
Holds(g, off, routes) ==
    LET size == Len(EncodeRoutes(routes))
    IN  /\ off + size <= Len(g)
        /\ \A i \in Nat : i < size => At(g, off + i) = At(EncodeRoutes(routes), i)
        /\ At(g, off + size) = 0

\* parse_nlri finds the routes that were put there, if none of them is a
\* default route, and in no case another.
LEMMA RoutesRead ==
  ASSUME NEW g \in Seq(Byte), NEW off \in Nat, NEW routes \in Seq(Route), Holds(g, off, routes)
  PROVE  /\ parse_nlri(g, off) \in Seq(Members(routes))
         /\ (\A n \in 1..Len(routes) : routes[n].length # 0) => parse_nlri(g, off) = routes
<1> DEFINE L == Len(routes)
           e == EncodeRoutes(routes)
           size == Len(e)
           All == \A n \in 1..L : routes[n].length # 0
<1>0. L \in Nat /\ \A n \in 1..L : routes[n] \in Route /\ routes[n] \in Members(routes)
  BY DEF Members
<1>1. e \in Seq(Byte) /\ size \in Nat
  BY EncodedRoutes
<1>2. PICK st : /\ Laid(e, routes, st) /\ st[1] = 0 /\ st[L + 1] = size
                /\ \A n \in 1..L : st[n + 1] <= size
  BY EncodedRoutes
<1>3. PICK w : Parses(g, off, w)
  BY ParseIs
<1>4. /\ off + size <= Len(g) /\ At(g, off + size) = 0
      /\ \A i \in Nat : i < size => At(g, off + i) = At(e, i)
  BY DEF Holds
<1>5. \A n \in 1..(L + 1) : st[n] \in Nat
  BY <1>2 DEF Laid
<1>6. ASSUME NEW n \in 1..L
      PROVE  /\ st[n] \in Nat /\ st[n + 1] = st[n] + 1 + PrefixBytes(routes[n].length)
             /\ At(e, st[n]) = routes[n].length
             /\ \A i \in 1..PrefixBytes(routes[n].length) : At(e, st[n] + i) = routes[n].prefix[i]
             /\ st[n + 1] <= size
  BY <1>0, <1>2 DEF Laid
<1> HIDE DEF L, e, size
<1> DEFINE Good(n) == /\ w[off + st[n]] \in Seq(Members(routes))
                      /\ All => w[off + st[n]] = Rest(routes, n)
           S == {k \in Nat : k <= L => Good(L + 1 - k)}
<1>7. 0 \in S
  <2>1. L + 1 - 0 = L + 1
    BY <1>0
  <2>2. off + size \in off..(Len(g) + 37)
    BY <1>1, <1>4
  <2>3. w[off + size] = <<>>
    BY <1>3, <1>4, <2>2 DEF Parses, ParseTurn
  <2>4. Rest(routes, L + 1) = <<>>
    <3>1. 1..(L + 1 - (L + 1)) = {}
      BY <1>0
    <3> QED BY <3>1 DEF Rest, L
  <2>5. Good(L + 1)
    BY <1>2, <2>3, <2>4
  <2> HIDE DEF Good
  <2> QED BY <2>1, <2>5
<1>8. ASSUME NEW k \in Nat, k \in S PROVE k + 1 \in S
  <2> SUFFICES ASSUME k + 1 <= L PROVE Good(L + 1 - (k + 1))
    OBVIOUS
  <2> DEFINE n == L + 1 - (k + 1)
             r == routes[n]
             b == PrefixBytes(r.length)
             pos == off + st[n]
             next == off + st[n + 1]
  <2>1. n \in 1..L /\ n + 1 = L + 1 - k /\ k <= L
    BY <1>0
  <2>2. Good(n + 1)
    <3> HIDE DEF Good, n
    <3> QED BY <1>8, <2>1
  <2> HIDE DEF n
  <2>3. r \in Route /\ r \in Members(routes) /\ b \in Nat
    <3>1. r \in Route /\ r \in Members(routes)
      BY <1>0, <2>1
    <3> QED BY <3>1, RouteType
  <2>4. /\ st[n] \in Nat /\ st[n + 1] = st[n] + 1 + b /\ At(e, st[n]) = r.length
        /\ \A i \in 1..b : At(e, st[n] + i) = r.prefix[i]
        /\ st[n + 1] <= size
    BY <1>6, <2>1
  <2> HIDE DEF r, b
  <2>5. pos \in off..(Len(g) + 37) /\ pos \in Nat /\ st[n] < size
    BY <1>1, <1>4, <2>3, <2>4
  <2>6. At(g, pos) = r.length
    BY <1>4, <2>4, <2>5
  <2>7. ASSUME NEW i \in 1..b PROVE At(g, pos + i) = r.prefix[i]
    <3>1. st[n] + i \in Nat /\ st[n] + i < size /\ off + (st[n] + i) = pos + i
      <4> DEFINE x == st[n]
                 y == st[n + 1]
      <4>1. x \in Nat /\ y = x + 1 + b /\ y <= size /\ b \in Nat /\ off \in Nat /\ size \in Nat
        BY <1>1, <2>3, <2>4
      <4> HIDE DEF x, y
      <4>2. x + i \in Nat /\ x + i < size /\ off + (x + i) = (off + x) + i
        BY <4>1
      <4> QED BY <4>2 DEF x
    <3>2. At(g, off + (st[n] + i)) = At(e, st[n] + i)
      BY <1>4, <3>1
    <3>3. At(e, st[n] + i) = r.prefix[i]
      BY <2>4
    <3> HIDE DEF pos
    <3> QED BY <3>1, <3>2, <3>3
  <2>8. NlriAt(g, pos) = r
    <3> HIDE DEF pos
    <3> QED BY <2>3, <2>5, <2>6, <2>7, NlriReads DEF b
  <2>9. After(g, pos) = next
    <3>1. After(g, pos) = pos + 1 + b
      BY <2>6 DEF After, b
    <3> QED BY <2>3, <2>4, <3>1
  <2>10. w[pos] = IF r.length = 0 THEN <<>> ELSE <<r>> \o w[next]
    <3> HIDE DEF pos, next
    <3> QED BY <1>3, <2>5, <2>6, <2>8, <2>9 DEF Parses, ParseTurn
  <2>11. CASE r.length = 0
    <3>1. w[pos] = <<>>
      BY <2>10, <2>11
    <3>2. ~All
      BY <2>1, <2>11 DEF r
    <3> HIDE DEF All
    <3> QED BY <3>1, <3>2 DEF n
  <2>12. CASE r.length # 0
    <3>1. w[pos] = <<r>> \o w[next]
      BY <2>10, <2>12
    <3>2. w[next] \in Seq(Members(routes)) /\ (All => w[next] = Rest(routes, n + 1))
      BY <2>2
    <3>3. w[pos] \in Seq(Members(routes))
      <4> HIDE DEF pos, next, All
      <4> QED BY <2>3, <3>1, <3>2
    <3>4. All => w[pos] = Rest(routes, n)
      <4> HIDE DEF pos, next, All
      <4>1. Rest(routes, n) = <<r>> \o Rest(routes, n + 1)
        BY <2>1, RestIs DEF r, L
      <4> QED BY <3>1, <3>2, <4>1
    <3> QED BY <3>3, <3>4 DEF n
  <2> QED BY <2>11, <2>12
<1> HIDE DEF S
<1>9. L \in S
  BY <1>0, <1>7, <1>8, NatSet
<1>10. Good(1)
  <2>1. L <= L /\ L + 1 - L = 1
    BY <1>0
  <2> HIDE DEF Good
  <2> QED BY <1>9, <2>1 DEF S
<1>11. Rest(routes, 1) = routes
  <2>1. \A i \in 1..L : 1 - 1 + i = i
    BY <1>0
  <2>2. Rest(routes, 1) = [i \in 1..L |-> routes[i]]
    BY <1>0, <2>1 DEF Rest, L
  <2> QED BY <2>2 DEF L
<1>12. off + st[1] = off
  BY <1>2
<1>13. parse_nlri(g, off) = w[off + st[1]]
  BY <1>3, <1>12 DEF Parses
<1> QED BY <1>10, <1>11, <1>13 DEF L

-----------------------------------------------------------------------------
(* A whole message.                                                        *)

\* The two bytes of a number.
Two(n, s) ==
    /\ s \in Seq(Byte) /\ Len(s) = 2
    /\ 256 * At(s, 0) + At(s, 1) = n
    /\ n < 256 => At(s, 0) = 0

LEMMA Bytes2Is ==
  ASSUME NEW n \in Nat, n < 65536
  PROVE  Two(n, Bytes2(n))
<1> DEFINE q == n \div 256
           s == n % 256
           t == <<q, s>>
<1>1. q \in Int /\ s \in 0..255 /\ 256 * q + s = n
  BY SMT
<1>2. Bytes2(n) = t
  BY SMT DEF Bytes2
<1> HIDE DEF q, s
<1>3. q \in 0..255
  BY <1>1, SMT
<1>4. n < 256 => q = 0
  BY <1>1, SMT
<1>5. t \in Seq(Byte) /\ Len(t) = 2 /\ t[1] = q /\ t[2] = s
  BY <1>1, <1>3, SMT DEF Byte
<1> HIDE DEF t
<1>6. At(t, 0) = q /\ At(t, 1) = s
  BY <1>5, SMT DEF At
<1>7. Two(n, t)
  BY <1>1, <1>4, <1>5, <1>6, SMT DEF Two
<1> QED BY <1>2, <1>7, SMT

\* The bytes of the attributes of a message.
AttributeBytes(m) ==
    IF m.update = <<>> THEN <<>> ELSE EncodeAttributes(m.attributes, m.extended)

LEMMA MessageIs ==
  ASSUME NEW n \in Neighbor, NEW m \in Message[n]
  PROVE  /\ m.withdraw \in Seq(Route) /\ m.update \in Seq(Route)
         /\ AttributeBytes(m) \in Seq(Byte)
         /\ m.update # <<>> /\ m.withdraw # <<>> => Len(AttributeBytes(m)) < 256
         /\ m.update = <<>> => Len(AttributeBytes(m)) = 0
         /\ Len(Encode(m)) <= 4077
<1>1. /\ m.withdraw \in Seq(Route) /\ m.update \in Seq(Route)
      /\ m.update # <<>> => EncodeAttributes(m.attributes, m.extended) \in Seq(Byte)
      /\ m.update # <<>> /\ m.withdraw # <<>>
            => Len(EncodeAttributes(m.attributes, m.extended)) < 256
      /\ Len(Encode(m)) <= 4096 - 19
  BY MessageAssumption
<1>2. 4096 - 19 = 4077
  OBVIOUS
<1>3. CASE m.update = <<>>
  <2>1. AttributeBytes(m) = <<>>
    BY <1>3, Zenon DEF AttributeBytes
  <2>2. <<>> \in Seq(Byte) /\ Len(<<>>) = 0
    OBVIOUS
  <2> QED BY <1>1, <1>2, <1>3, <2>1, <2>2
<1>4. CASE m.update # <<>>
  <2>1. AttributeBytes(m) = EncodeAttributes(m.attributes, m.extended)
    BY <1>4, Zenon DEF AttributeBytes
  <2> QED BY <1>1, <1>2, <1>4, <2>1
<1> QED BY <1>3, <1>4

\* A list of routes takes no bytes exactly if it is empty.
LEMMA RoutesSize ==
  ASSUME NEW routes \in Seq(Route)
  PROVE  /\ EncodeRoutes(routes) \in Seq(Byte)
         /\ Len(EncodeRoutes(routes)) = 0 <=> routes = <<>>
<1> DEFINE L == Len(routes)
           size == Len(EncodeRoutes(routes))
<1>1. EncodeRoutes(routes) \in Seq(Byte) /\ L \in Nat /\ size \in Nat
  BY EncodedRoutes
<1>2. PICK st : /\ Laid(EncodeRoutes(routes), routes, st) /\ st[1] = 0 /\ st[L + 1] = size
                /\ \A n \in 1..L : st[n + 1] <= size
  BY EncodedRoutes
<1>3. CASE routes = <<>>
  <2>1. L = 0
    BY <1>3
  <2> QED BY <1>1, <1>2, <1>3, <2>1
<1>4. CASE routes # <<>>
  <2>1. 1 \in 1..L /\ routes[1] \in Route
    BY <1>4
  <2>2. PrefixBytes(routes[1].length) \in Nat
    BY <2>1, RouteType
  <2>3. st[1 + 1] = st[1] + 1 + PrefixBytes(routes[1].length) /\ st[1 + 1] <= size
    BY <1>2, <2>1 DEF Laid
  <2> HIDE DEF L, size
  <2>4. size # 0
    BY <1>1, <1>2, <2>2, <2>3
  <2> QED BY <1>1, <1>4, <2>4 DEF size
<1> QED BY <1>3, <1>4

\* Lengths add up, whatever the numbers in the sequences.
LEMMA CatLen ==
  ASSUME NEW s \in Seq(Int), NEW t \in Seq(Int)
  PROVE  s \o t \in Seq(Int) /\ Len(s \o t) = Len(s) + Len(t)
  OBVIOUS

LEMMA BytesAreInts ==
  ASSUME NEW s \in Seq(Byte)
  PROVE  s \in Seq(Int)
<1>1. s \in [1..Len(s) -> Byte] /\ Len(s) \in Nat
  OBVIOUS
<1>2. \A b \in Byte : b \in Int
  BY SMT DEF Byte
<1>3. s \in [1..Len(s) -> Int]
  BY <1>1, <1>2
<1> QED BY <1>1, <1>3

\* The four parts of a message are where proc_in_q looks for them.
LEMMA EncodeIs ==
  ASSUME NEW n \in Neighbor, NEW m \in Message[n]
  PROVE  LET g == Encode(m)
             a == Len(AttributeBytes(m))
         IN  /\ g \in Seq(Byte) /\ a \in Nat
             /\ U16At(g, 0) = 0 <=> m.withdraw = <<>>
             /\ m.withdraw # <<>> => Holds(g, 2, m.withdraw)
             /\ m.withdraw = <<>> => U16At(g, 2) = a /\ Holds(g, a + 4, m.update)
             /\ m.withdraw = <<>> =>
                   \A i \in Nat : i < a => At(g, 4 + i) = At(AttributeBytes(m), i)
<1> DEFINE W == EncodeRoutes(m.withdraw)
           A == AttributeBytes(m)
           U == EncodeRoutes(m.update)
           B == Bytes2(Len(W))
           C == Bytes2(Len(A))
           h1 == B \o W
           h2 == h1 \o C
           h3 == h2 \o A
           g == Encode(m)
<1>1. W \in Seq(Byte) /\ A \in Seq(Byte) /\ U \in Seq(Byte)
  BY MessageIs, RoutesSize
<1>2. Len(W) \in Nat /\ Len(A) \in Nat /\ Len(U) \in Nat
  BY <1>1
<1>3. g = h3 \o U
  BY DEF Encode, AttributeBytes
<1>4. Len(g) <= 4077
  BY MessageIs
<1>5. Len(W) = 0 <=> m.withdraw = <<>>
  BY MessageIs, RoutesSize
<1>6. m.withdraw # <<>> => Len(A) < 256
  <2>1. /\ m.update # <<>> /\ m.withdraw # <<>> => Len(A) < 256
        /\ m.update = <<>> => Len(A) = 0
    BY MessageIs
  <2> HIDE DEF A
  <2> QED BY <2>1
<1> HIDE DEF W, A, U, g
<1>7. /\ Len(h1) = 2 + Len(W) /\ Len(h2) = 4 + Len(W) /\ Len(h3) = 4 + Len(W) + Len(A)
      /\ Len(g) = 4 + Len(W) + Len(A) + Len(U)
  <2>1. B \in Seq(Int) /\ Len(B) = 2 /\ C \in Seq(Int) /\ Len(C) = 2
    BY <1>2 DEF Bytes2
  <2>2. W \in Seq(Int) /\ A \in Seq(Int) /\ U \in Seq(Int)
    BY <1>1, BytesAreInts
  <2> HIDE DEF B, C
  <2>3. h1 \in Seq(Int) /\ Len(h1) = 2 + Len(W)
    BY <2>1, <2>2, CatLen
  <2> HIDE DEF h1
  <2>4. h2 \in Seq(Int) /\ Len(h2) = Len(h1) + 2
    BY <2>1, <2>3, CatLen
  <2> HIDE DEF h2
  <2>5. h3 \in Seq(Int) /\ Len(h3) = Len(h2) + Len(A)
    BY <2>2, <2>4, CatLen
  <2> HIDE DEF h3
  <2>6. Len(g) = Len(h3) + Len(U)
    BY <1>3, <2>2, <2>5, CatLen
  <2> QED BY <1>2, <2>3, <2>4, <2>5, <2>6
<1> DEFINE w == Len(W)
           a == Len(A)
           u == Len(U)
           l == Len(g)
<1>8. w \in Nat /\ w < 65536 /\ a \in Nat /\ a < 65536
  <2>1. w \in Nat /\ a \in Nat /\ u \in Nat /\ l = 4 + w + a + u /\ l <= 4077
    BY <1>2, <1>4, <1>7, SMT
  <2> HIDE DEF w, a, u, l
  <2> QED BY <2>1, SMT
<1>a. Two(w, B) /\ Two(a, C)
  BY <1>8, Bytes2Is, SMT
<1> HIDE DEF B, C
<1>9. B \in Seq(Byte) /\ Len(B) = 2
  BY <1>a DEF Two
<1>10. C \in Seq(Byte) /\ Len(C) = 2
  BY <1>a DEF Two
<1>11. Follows(B, W, h1) /\ h1 \in Seq(Byte)
  <2>1. Joined(B, W, h1)
    BY <1>1, <1>9, Join
  <2> HIDE DEF h1
  <2> QED BY <1>1, <1>9, <2>1, JoinedAt DEF Joined
<1> HIDE DEF h1
<1>12. Follows(h1, C, h2) /\ h2 \in Seq(Byte)
  <2>1. Joined(h1, C, h2)
    BY <1>10, <1>11, Join
  <2> HIDE DEF h2
  <2> QED BY <1>10, <1>11, <2>1, JoinedAt DEF Joined
<1> HIDE DEF h2
<1>13. Follows(h2, A, h3) /\ h3 \in Seq(Byte)
  <2>1. Joined(h2, A, h3)
    BY <1>1, <1>12, Join
  <2> HIDE DEF h3
  <2> QED BY <1>1, <1>12, <2>1, JoinedAt DEF Joined
<1> HIDE DEF h3
<1>14. Follows(h3, U, g) /\ g \in Seq(Byte)
  <2>1. Joined(h3, U, g)
    BY <1>1, <1>3, <1>13, Join
  <2> QED BY <1>1, <1>13, <2>1, JoinedAt DEF Joined
<1>15. \A i \in Nat : i < 2 + w => At(g, i) = At(h1, i)
  <2> TAKE i \in Nat
  <2> HAVE i < 2 + w
  <2>1. i < Len(h1) /\ i < Len(h2) /\ i < Len(h3)
    BY <1>2, <1>7
  <2> QED BY <1>12, <1>13, <1>14, <2>1 DEF Follows
<1>16. \A i \in Nat : i < 2 => At(g, 2 + w + i) = At(C, i)
  <2> TAKE i \in Nat
  <2> HAVE i < 2
  <2>1. 2 + w + i \in Nat /\ 2 + w + i < Len(h2) /\ 2 + w + i < Len(h3) /\ 2 + w + i = Len(h1) + i
    BY <1>2, <1>7
  <2>2. At(g, 2 + w + i) = At(h2, 2 + w + i)
    BY <1>13, <1>14, <2>1 DEF Follows
  <2>3. At(h2, Len(h1) + i) = At(C, i)
    BY <1>12 DEF Follows
  <2> QED BY <2>1, <2>2, <2>3
<1>17. \A i \in Nat : At(g, 4 + w + a + i) = At(U, i)
  BY <1>7, <1>14 DEF Follows
<1>18. U16At(g, 0) = w
  <2>1. At(h1, 0) = At(B, 0) /\ At(h1, 1) = At(B, 1)
    BY <1>9, <1>11 DEF Follows
  <2>2. 0 + 1 = 1 /\ 0 < 2 + w /\ 1 < 2 + w
    BY <1>2
  <2>3. At(g, 0) = At(B, 0) /\ At(g, 0 + 1) = At(B, 1)
    BY <1>15, <2>1, <2>2
  <2> QED BY <1>a, <2>3 DEF U16At, Two
<1>19. m.withdraw # <<>> => Holds(g, 2, m.withdraw)
  <2> HAVE m.withdraw # <<>>
  <2>1. \A i \in Nat : i < w => At(g, 2 + i) = At(W, i)
    <3> TAKE i \in Nat
    <3> HAVE i < w
    <3>1. At(h1, Len(B) + i) = At(W, i)
      BY <1>11 DEF Follows
    <3>2. 2 + i \in Nat /\ 2 + i < 2 + w
      BY <1>2
    <3> QED BY <1>9, <1>15, <3>1, <3>2
  <2>2. 2 + w <= Len(g)
    BY <1>2, <1>7
  <2>3. At(g, 2 + w) = 0
    <3>1. At(g, 2 + w + 0) = At(C, 0) /\ 2 + w + 0 = 2 + w
      BY <1>2, <1>16
    <3> QED BY <1>6, <1>a, <3>1 DEF Two
  <2> QED BY <2>1, <2>2, <2>3 DEF Holds, W
<1>20. m.withdraw = <<>> => U16At(g, 2) = a /\ Holds(g, a + 4, m.update)
  <2> HAVE m.withdraw = <<>>
  <2>1. w = 0
    BY <1>5
  <2>2. U16At(g, 2) = a
    <3>1. 2 + w + 0 = 2 /\ 2 + w + 1 = 3 /\ 2 + 1 = 3
      BY <2>1
    <3>2. At(g, 2 + w + 0) = At(C, 0) /\ At(g, 2 + w + 1) = At(C, 1)
      BY <1>16
    <3>3. At(g, 2) = At(C, 0) /\ At(g, 2 + 1) = At(C, 1)
      BY <3>1, <3>2
    <3> QED BY <1>a, <3>3 DEF U16At, Two
  <2>3. \A i \in Nat : At(g, (a + 4) + i) = At(U, i)
    <3> TAKE i \in Nat
    <3>1. 4 + w + a + i = (a + 4) + i
      BY <1>2, <2>1
    <3> QED BY <1>17, <3>1
  <2>4. (a + 4) + u <= Len(g)
    BY <1>2, <1>7, <2>1
  <2>5. At(U, u) = 0
    BY <1>1, <1>2 DEF At
  <2>6. At(g, (a + 4) + u) = 0
    BY <1>2, <2>3, <2>5
  <2> QED BY <2>2, <2>3, <2>4, <2>6 DEF Holds, U
<1>21. ASSUME m.withdraw = <<>>, NEW i \in Nat, i < a PROVE At(g, 4 + i) = At(A, i)
  <2>1. w = 0
    BY <1>5, <1>21
  <2>2. 4 + i = Len(h2) + i /\ Len(h2) + i \in Nat /\ Len(h2) + i < Len(h3)
    BY <1>2, <1>7, <1>21, <2>1
  <2>3. At(h3, Len(h2) + i) = At(A, i)
    BY <1>13 DEF Follows
  <2>4. At(g, Len(h2) + i) = At(h3, Len(h2) + i)
    BY <1>14, <2>2 DEF Follows
  <2> QED BY <2>2, <2>3, <2>4
<1> QED BY <1>2, <1>5, <1>14, <1>18, <1>19, <1>20, <1>21 DEF g, A

-----------------------------------------------------------------------------
(* Ranges of addresses.                                                    *)

\* The bits of byte n that are behind the first `length', as a power of two.
Bits(length, n) == Min8(length - 8 * (n - 1))
Size(m) == 2 ^ (8 - m)

LEMMA SizeIs ==
  /\ Size(0) = 256 /\ Size(1) = 128 /\ Size(2) = 64 /\ Size(3) = 32 /\ Size(4) = 16
  /\ Size(5) = 8 /\ Size(6) = 4 /\ Size(7) = 2 /\ Size(8) = 1
<1>1. Size(0) = 256 /\ Size(1) = 128 /\ Size(2) = 64
  <2>1. 2 ^ (8 - 0) = 256 /\ 2 ^ (8 - 1) = 128 /\ 2 ^ (8 - 2) = 64
    BY SMT
  <2> QED BY <2>1, SMT DEF Size
<1>2. Size(3) = 32 /\ Size(4) = 16 /\ Size(5) = 8
  <2>1. 2 ^ (8 - 3) = 32 /\ 2 ^ (8 - 4) = 16 /\ 2 ^ (8 - 5) = 8
    BY SMT
  <2> QED BY <2>1, SMT DEF Size
<1>3. Size(6) = 4 /\ Size(7) = 2 /\ Size(8) = 1
  <2>1. 2 ^ (8 - 6) = 4 /\ 2 ^ (8 - 7) = 2 /\ 2 ^ (8 - 8) = 1
    BY SMT
  <2> QED BY <2>1, SMT DEF Size
<1> QED BY <1>1, <1>2, <1>3, SMT

LEMMA BitsAre ==
  ASSUME NEW length \in 0..32, NEW n \in 1..4
  PROVE  Bits(length, n) \in 0..8 /\ HostSize(length, n) = Size(Bits(length, n))
  BY SMT DEF Bits, Size, HostSize, Min8

\* Byte a is in the range of byte x, if h bits of x are free and those are 0.
Ranged(x, a, h) ==
    x % h = 0 => (a \div h = x \div h <=> x <= a /\ a <= x - (x % h) + h - 1)

LEMMA ByteRange ==
  ASSUME NEW x \in 0..255, NEW a \in 0..255, NEW m \in 0..8
  PROVE  Ranged(x, a, Size(m))
<1>1. Ranged(x, a, 1)
  BY SMT DEF Ranged
<1>2. Ranged(x, a, 2)
  BY SMT DEF Ranged
<1>3. Ranged(x, a, 4)
  BY SMT DEF Ranged
<1>4. Ranged(x, a, 8)
  BY SMT DEF Ranged
<1>5. Ranged(x, a, 16)
  BY SMT DEF Ranged
<1>6. Ranged(x, a, 32)
  BY SMT DEF Ranged
<1>7. Ranged(x, a, 64)
  BY SMT DEF Ranged
<1>8. Ranged(x, a, 128)
  BY SMT DEF Ranged
<1>9. Ranged(x, a, 256)
  BY SMT DEF Ranged
<1> QED BY <1>1, <1>2, <1>3, <1>4, <1>5, <1>6, <1>7, <1>8, <1>9, SizeIs, SMT

\* Every bit behind m of x is 0.
LEMMA MoreBits ==
  ASSUME NEW x \in 0..255, NEW m \in 0..8, NEW l \in 0..8, m <= l, x % Size(m) = 0
  PROVE  x % Size(l) = 0
<1> DEFINE D(i) == x % Size(i) = 0
<1>1. D(0) => D(1)
  <2>1. x % 256 = 0 => x % 128 = 0
    BY SMT
  <2> QED BY <2>1, SizeIs, SMT
<1>2. D(1) => D(2)
  <2>1. x % 128 = 0 => x % 64 = 0
    BY SMT
  <2> QED BY <2>1, SizeIs, SMT
<1>3. D(2) => D(3)
  <2>1. x % 64 = 0 => x % 32 = 0
    BY SMT
  <2> QED BY <2>1, SizeIs, SMT
<1>4. D(3) => D(4)
  <2>1. x % 32 = 0 => x % 16 = 0
    BY SMT
  <2> QED BY <2>1, SizeIs, SMT
<1>5. D(4) => D(5)
  <2>1. x % 16 = 0 => x % 8 = 0
    BY SMT
  <2> QED BY <2>1, SizeIs, SMT
<1>6. D(5) => D(6)
  <2>1. x % 8 = 0 => x % 4 = 0
    BY SMT
  <2> QED BY <2>1, SizeIs, SMT
<1>7. D(6) => D(7)
  <2>1. x % 4 = 0 => x % 2 = 0
    BY SMT
  <2> QED BY <2>1, SizeIs, SMT
<1>8. D(7) => D(8)
  <2>1. x % 2 = 0 => x % 1 = 0
    BY SMT
  <2> QED BY <2>1, SizeIs, SMT
<1> HIDE DEF D
<1>9. D(m)
  BY DEF D
<1>10. D(l)
  BY <1>1, <1>2, <1>3, <1>4, <1>5, <1>6, <1>7, <1>8, <1>9, SMT
<1> QED BY <1>10 DEF D

\* The last of the addresses below x, h of its bits free, is in the blocks x is in.
LEMMA LastOfByte ==
  ASSUME NEW x \in 0..255, NEW m \in 0..8, NEW l \in 0..8, l <= m, x % Size(m) = 0
  PROVE  (x - (x % Size(m)) + Size(m) - 1) \div Size(l) = x \div Size(l)
<1> DEFINE y == x - (x % Size(m)) + Size(m) - 1
           D(i) == y \div Size(i) = x \div Size(i)
<1>0. Size(m) \in {1, 2, 4, 8, 16, 32, 64, 128, 256} /\ y = x + Size(m) - 1
  BY SizeIs, SMT
<1>a. y \in 0..510
  <2>1. \A h \in {1, 2, 4, 8, 16, 32, 64, 128, 256} : x + h - 1 \in 0..510
    BY SMT
  <2>2. \E h \in {1, 2, 4, 8, 16, 32, 64, 128, 256} : y = x + h - 1
    <3> HIDE DEF y
    <3> QED BY <1>0
  <2> HIDE DEF y
  <2> QED BY <2>1, <2>2
<1>b. D(m)
  <2> DEFINE E(h) == x % h = 0 => (x + h - 1) \div h = x \div h
  <2>1. E(256)
    BY SMT
  <2>2. E(128)
    BY SMT
  <2>3. E(64)
    BY SMT
  <2>4. E(32)
    BY SMT
  <2>5. E(16)
    BY SMT
  <2>6. E(8)
    BY SMT
  <2>7. E(4)
    BY SMT
  <2>8. E(2)
    BY SMT
  <2>9. E(1)
    BY SMT
  <2> HIDE DEF E
  <2>10. E(Size(m))
    BY <1>0, <2>1, <2>2, <2>3, <2>4, <2>5, <2>6, <2>7, <2>8, <2>9, SMT
  <2> QED BY <1>0, <2>10, SMT DEF E
<1> HIDE DEF y
<1>1. D(1) => D(0)
  <2>1. y \div 128 = x \div 128 => y \div 256 = x \div 256
    BY <1>a, SMT
  <2> QED BY <2>1, SizeIs, SMT
<1>2. D(2) => D(1)
  <2>1. y \div 64 = x \div 64 => y \div 128 = x \div 128
    BY <1>a, SMT
  <2> QED BY <2>1, SizeIs, SMT
<1>3. D(3) => D(2)
  <2>1. y \div 32 = x \div 32 => y \div 64 = x \div 64
    BY <1>a, SMT
  <2> QED BY <2>1, SizeIs, SMT
<1>4. D(4) => D(3)
  <2>1. y \div 16 = x \div 16 => y \div 32 = x \div 32
    BY <1>a, SMT
  <2> QED BY <2>1, SizeIs, SMT
<1>5. D(5) => D(4)
  <2>1. y \div 8 = x \div 8 => y \div 16 = x \div 16
    BY <1>a, SMT
  <2> QED BY <2>1, SizeIs, SMT
<1>6. D(6) => D(5)
  <2>1. y \div 4 = x \div 4 => y \div 8 = x \div 8
    BY <1>a, SMT
  <2> QED BY <2>1, SizeIs, SMT
<1>7. D(7) => D(6)
  <2>1. y \div 2 = x \div 2 => y \div 4 = x \div 4
    BY <1>a, SMT
  <2> QED BY <2>1, SizeIs, SMT
<1>8. D(8) => D(7)
  <2>1. y \div 1 = x \div 1 => y \div 2 = x \div 2
    BY <1>a, SMT
  <2> QED BY <2>1, SizeIs, SMT
<1> HIDE DEF D
<1>9. D(l)
  BY <1>b, <1>1, <1>2, <1>3, <1>4, <1>5, <1>6, <1>7, <1>8, SMT
<1> QED BY <1>9 DEF D, y

\* Two bytes whose free bits are 0 and that agree in the others are the same.
LEMMA SameByte ==
  ASSUME NEW x \in 0..255, NEW y \in 0..255, NEW m \in 0..8,
         x % Size(m) = 0, y % Size(m) = 0, x \div Size(m) = y \div Size(m)
  PROVE  x = y
<1> DEFINE E(h) == x % h = 0 /\ y % h = 0 /\ x \div h = y \div h => x = y
<1>1. E(256)
  BY SMT
<1>2. E(128)
  BY SMT
<1>3. E(64)
  BY SMT
<1>4. E(32)
  BY SMT
<1>5. E(16)
  BY SMT
<1>6. E(8)
  BY SMT
<1>7. E(4)
  BY SMT
<1>8. E(2)
  BY SMT
<1>9. E(1)
  BY SMT
<1> HIDE DEF E
<1>10. E(Size(m))
  BY SizeIs, <1>1, <1>2, <1>3, <1>4, <1>5, <1>6, <1>7, <1>8, <1>9, SMT
<1> QED BY <1>10, SMT DEF E

\* memcmp looks at the bytes one after the other.
LEMMA MemLeqIs ==
  ASSUME NEW a \in Address, NEW b \in Address
  PROVE  MemLeq(a, b) <=>
           \/ a[1] < b[1]
           \/ a[1] = b[1] /\ a[2] < b[2]
           \/ a[1] = b[1] /\ a[2] = b[2] /\ a[3] < b[3]
           \/ a[1] = b[1] /\ a[2] = b[2] /\ a[3] = b[3] /\ a[4] <= b[4]
<1>1. \A n \in 1..4 : a[n] \in Int /\ b[n] \in Int
  <2>1. \A n \in 1..4 : a[n] \in Byte /\ b[n] \in Byte
    BY DEF Address
  <2>2. \A n \in Byte : n \in Int
    BY DEF Byte
  <2> QED BY <2>1, <2>2, Zenon
<1>2. a = b <=> a[1] = b[1] /\ a[2] = b[2] /\ a[3] = b[3] /\ a[4] = b[4]
  <2> SUFFICES ASSUME a[1] = b[1] /\ a[2] = b[2] /\ a[3] = b[3] /\ a[4] = b[4] PROVE a = b
    OBVIOUS
  <2>1. \A n \in 1..4 : n = 1 \/ n = 2 \/ n = 3 \/ n = 4
    BY SMT
  <2>2. a = [n \in 1..4 |-> a[n]] /\ b = [n \in 1..4 |-> b[n]]
    BY DEF Address
  <2> QED BY <2>1, <2>2
<1> DEFINE First(n) == a[n] < b[n] /\ \A i \in 1..(n - 1) : a[i] = b[i]
<1>3. First(1) <=> a[1] < b[1]
  BY SMT
<1>4. First(2) <=> a[1] = b[1] /\ a[2] < b[2]
  BY SMT
<1>5. First(3) <=> a[1] = b[1] /\ a[2] = b[2] /\ a[3] < b[3]
  BY SMT
<1>6. First(4) <=> a[1] = b[1] /\ a[2] = b[2] /\ a[3] = b[3] /\ a[4] < b[4]
  BY SMT
<1>7. MemLeq(a, b) <=> a = b \/ \E n \in 1..4 : First(n)
  BY DEF MemLeq
<1> HIDE DEF First
<1>8. (\E n \in 1..4 : First(n)) <=> First(1) \/ First(2) \/ First(3) \/ First(4)
  BY SMT
<1> QED BY <1>1, <1>2, <1>3, <1>4, <1>5, <1>6, <1>7, <1>8, SMT

\* From low to high the bytes before j agree and those behind it are all free:
\* memcmp's range is that of byte j.
LEMMA RangeOfByte ==
  ASSUME NEW low \in Address, NEW high \in Address, NEW a \in Address, NEW j \in 1..4,
         \A i \in 1..4 : i < j => high[i] = low[i],
         \A i \in 1..4 : i > j => low[i] = 0 /\ high[i] = 255
  PROVE  InRange(low, high, a) <=> \A i \in 1..4 : low[i] <= a[i] /\ a[i] <= high[i]
<1>1. \A i \in 1..4 : low[i] \in 0..255 /\ high[i] \in 0..255 /\ a[i] \in 0..255
  BY DEF Address, Byte
<1>2. InRange(low, high, a) <=> MemLeq(low, a) /\ MemLeq(a, high)
  BY DEF InRange
<1> DEFINE l1 == low[1]  l2 == low[2]  l3 == low[3]  l4 == low[4]
           h1 == high[1] h2 == high[2] h3 == high[3] h4 == high[4]
           a1 == a[1]    a2 == a[2]    a3 == a[3]    a4 == a[4]
<1>3. MemLeq(low, a) <=> \/ l1 < a1
                         \/ l1 = a1 /\ l2 < a2
                         \/ l1 = a1 /\ l2 = a2 /\ l3 < a3
                         \/ l1 = a1 /\ l2 = a2 /\ l3 = a3 /\ l4 <= a4
  BY MemLeqIs
<1>4. MemLeq(a, high) <=> \/ a1 < h1
                          \/ a1 = h1 /\ a2 < h2
                          \/ a1 = h1 /\ a2 = h2 /\ a3 < h3
                          \/ a1 = h1 /\ a2 = h2 /\ a3 = h3 /\ a4 <= h4
  BY MemLeqIs
<1>5. (\A i \in 1..4 : low[i] <= a[i] /\ a[i] <= high[i])
        <=> /\ l1 <= a1 /\ a1 <= h1 /\ l2 <= a2 /\ a2 <= h2
            /\ l3 <= a3 /\ a3 <= h3 /\ l4 <= a4 /\ a4 <= h4
  <2> DEFINE P(i) == low[i] <= a[i] /\ a[i] <= high[i]
  <2> HIDE DEF P
  <2>1. (\A i \in 1..4 : P(i)) <=> P(1) /\ P(2) /\ P(3) /\ P(4)
    BY SMT
  <2> QED BY <2>1, Zenon DEF P
<1>6. /\ l1 \in 0..255 /\ l2 \in 0..255 /\ l3 \in 0..255 /\ l4 \in 0..255
      /\ h1 \in 0..255 /\ h2 \in 0..255 /\ h3 \in 0..255 /\ h4 \in 0..255
      /\ a1 \in 0..255 /\ a2 \in 0..255 /\ a3 \in 0..255 /\ a4 \in 0..255
  BY <1>1, SMT
<1>7. /\ 1 < j => h1 = l1
      /\ 2 < j => h2 = l2
      /\ 3 < j => h3 = l3
      /\ 2 > j => l2 = 0 /\ h2 = 255
      /\ 3 > j => l3 = 0 /\ h3 = 255
      /\ 4 > j => l4 = 0 /\ h4 = 255
  BY SMT
<1> HIDE DEF l1, l2, l3, l4, h1, h2, h3, h4, a1, a2, a3, a4
<1>8. j = 1 \/ j = 2 \/ j = 3 \/ j = 4
  BY SMT
<1> QED BY <1>2, <1>3, <1>4, <1>5, <1>6, <1>7, <1>8, SMT

\* The byte in which the bits of a route end.
LEMMA LastByte ==
  ASSUME NEW length \in 0..32
  PROVE  \E j \in 1..4 : /\ \A i \in 1..4 : i < j => Bits(length, i) = 8
                         /\ \A i \in 1..4 : i > j => Bits(length, i) = 0
<1> DEFINE P(j) == /\ \A i \in 1..4 : i < j => Bits(length, i) = 8
                   /\ \A i \in 1..4 : i > j => Bits(length, i) = 0
<1>1. CASE length <= 8
  <2>1. P(1)
    BY <1>1, SMT DEF Bits, Min8
  <2> QED BY <2>1, SMT
<1>2. CASE 8 < length /\ length <= 16
  <2>1. P(2)
    BY <1>2, SMT DEF Bits, Min8
  <2> QED BY <2>1, SMT
<1>3. CASE 16 < length /\ length <= 24
  <2>1. P(3)
    BY <1>3, SMT DEF Bits, Min8
  <2> QED BY <2>1, SMT
<1>4. CASE 24 < length
  <2>1. P(4)
    BY <1>4, SMT DEF Bits, Min8
  <2> QED BY <2>1, SMT
<1> QED BY <1>1, <1>2, <1>3, <1>4, SMT

\* A prefix of that length with no bit set behind it.
Network == {r \in [prefix : Address, length : 0..32] :
               \A i \in 1..4 : r.prefix[i] % HostSize(r.length, i) = 0}

LEMMA NetworkIs ==
  ASSUME NEW r \in Network
  PROVE  /\ r.prefix \in Address /\ r.length \in 0..32
         /\ \A i \in 1..4 : r.prefix[i] \in 0..255
         /\ \A i \in 1..4 : /\ Bits(r.length, i) \in 0..8
                           /\ HostSize(r.length, i) = Size(Bits(r.length, i))
                           /\ r.prefix[i] % Size(Bits(r.length, i)) = 0
<1>1. r.prefix \in Address /\ r.length \in 0..32
      /\ \A i \in 1..4 : r.prefix[i] % HostSize(r.length, i) = 0
  BY DEF Network
<1>2. \A p \in Address : \A i \in 1..4 : p[i] \in 0..255
  BY DEF Address, Byte
<1>3. ASSUME NEW i \in 1..4
      PROVE  /\ Bits(r.length, i) \in 0..8
             /\ HostSize(r.length, i) = Size(Bits(r.length, i))
             /\ r.prefix[i] % Size(Bits(r.length, i)) = 0
  <2>1. Bits(r.length, i) \in 0..8 /\ HostSize(r.length, i) = Size(Bits(r.length, i))
    BY <1>1, BitsAre
  <2>2. r.prefix[i] % HostSize(r.length, i) = 0
    BY <1>1
  <2> QED BY <2>1, <2>2, Zenon
<1>4. \A i \in 1..4 : r.prefix[i] \in 0..255
  BY <1>1, <1>2
<1> QED BY <1>1, <1>3, <1>4

Highest(r) == get_ipv4_high_range(r.prefix, r.length)

LEMMA HighestIs ==
  ASSUME NEW r \in Network
  PROVE  /\ Highest(r) \in Address
         /\ \A i \in 1..4 : Highest(r)[i] = r.prefix[i] - (r.prefix[i] % Size(Bits(r.length, i)))
                                               + Size(Bits(r.length, i)) - 1
<1> DEFINE p == r.prefix
           s(i) == Size(Bits(r.length, i))
<1>1. ASSUME NEW i \in 1..4
      PROVE  /\ Highest(r)[i] = p[i] - (p[i] % s(i)) + s(i) - 1
             /\ Highest(r)[i] \in Byte
  <2>1. p[i] \in 0..255 /\ Bits(r.length, i) \in 0..8 /\ HostSize(r.length, i) = s(i)
        /\ p[i] % s(i) = 0
    BY NetworkIs
  <2>2. Highest(r)[i] = p[i] - (p[i] % s(i)) + s(i) - 1
    BY <2>1 DEF Highest, get_ipv4_high_range
  <2> DEFINE x == p[i]
             m == Bits(r.length, i)
  <2> HIDE DEF x, m
  <2>3. x \in 0..255 /\ m \in 0..8 /\ x % Size(m) = 0 => x - (x % Size(m)) + Size(m) - 1 \in 0..255
    <3> SUFFICES ASSUME x \in 0..255, m \in 0..8, x % Size(m) = 0 PROVE x + Size(m) - 1 \in 0..255
      <4>1. m \in 0..8 => Size(m) \in Int
        BY SizeIs, SMT
      <4> QED BY <4>1, SMT
    <3> DEFINE E(h) == x % h = 0 => x + h - 1 \in 0..255
    <3>1. E(1) /\ E(2) /\ E(4)
      BY SMT
    <3>2. E(8) /\ E(16) /\ E(32)
      BY SMT
    <3>3. E(64) /\ E(128) /\ E(256)
      BY SMT
    <3> HIDE DEF E
    <3>4. E(Size(m))
      BY SizeIs, <3>1, <3>2, <3>3, SMT
    <3> QED BY <3>4, SMT DEF E
  <2> QED BY <2>1, <2>2, <2>3, Zenon DEF x, m, Byte
<1>2. Highest(r) = [i \in 1..4 |-> Highest(r)[i]]
  BY DEF Highest, get_ipv4_high_range
<1>3. Highest(r) \in Address
  BY <1>1, <1>2 DEF Address
<1> QED BY <1>1, <1>3

\* Comparing bytes from the first to the last address of a route finds what
\* its first bits cover.
LEMMA RangeCovers ==
  ASSUME NEW r \in Network, NEW a \in Address
  PROVE  InRange(r.prefix, Highest(r), a) <=> Covers(r, a)
<1> DEFINE p == r.prefix
           h == Highest(r)
           b(i) == Bits(r.length, i)
<1>1. p \in Address /\ r.length \in 0..32
      /\ \A i \in 1..4 : /\ p[i] \in 0..255 /\ b(i) \in 0..8
                        /\ HostSize(r.length, i) = Size(b(i)) /\ p[i] % Size(b(i)) = 0
  <2>1. p \in Address /\ r.length \in 0..32
    BY NetworkIs
  <2>2. ASSUME NEW i \in 1..4
        PROVE  /\ p[i] \in 0..255 /\ b(i) \in 0..8
               /\ HostSize(r.length, i) = Size(b(i)) /\ p[i] % Size(b(i)) = 0
    BY NetworkIs
  <2> QED BY <2>1, <2>2
<1>2. h \in Address /\ \A i \in 1..4 : h[i] = p[i] - (p[i] % Size(b(i))) + Size(b(i)) - 1
  BY HighestIs
<1>3. PICK j \in 1..4 : (\A i \in 1..4 : i < j => b(i) = 8) /\ \A i \in 1..4 : i > j => b(i) = 0
  BY <1>1, LastByte
<1>4. \A i \in 1..4 : a[i] \in 0..255
  BY DEF Address, Byte
<1> HIDE DEF p, h, b
<1>5. ASSUME NEW i \in 1..4, i < j PROVE h[i] = p[i]
  <2>1. Size(b(i)) = 1
    BY <1>3, <1>5, SizeIs
  <2> DEFINE x == p[i]
  <2>2. h[i] = x - (x % 1) + 1 - 1 /\ x \in 0..255
    BY <1>1, <1>2, <2>1
  <2> HIDE DEF x
  <2>3. x - (x % 1) + 1 - 1 = x
    BY <2>2, SMT
  <2> QED BY <2>2, <2>3 DEF x
<1>6. ASSUME NEW i \in 1..4, i > j PROVE p[i] = 0 /\ h[i] = 255
  <2>1. Size(b(i)) = 256
    BY <1>3, <1>6, SizeIs
  <2> DEFINE x == p[i]
  <2>2. h[i] = x - (x % 256) + 256 - 1 /\ x \in 0..255 /\ x % 256 = 0
    BY <1>1, <1>2, <2>1
  <2> HIDE DEF x
  <2>3. x = 0 /\ x - (x % 256) + 256 - 1 = 255
    BY <2>2, SMT
  <2> QED BY <2>2, <2>3 DEF x
<1>7. InRange(p, h, a) <=> \A i \in 1..4 : p[i] <= a[i] /\ a[i] <= h[i]
  BY <1>1, <1>2, <1>5, <1>6, RangeOfByte
<1>8. ASSUME NEW i \in 1..4
      PROVE  a[i] \div Size(b(i)) = p[i] \div Size(b(i)) <=> p[i] <= a[i] /\ a[i] <= h[i]
  <2> DEFINE x == p[i]
             y == a[i]
             m == b(i)
             z == h[i]
  <2>1. x \in 0..255 /\ y \in 0..255 /\ m \in 0..8 /\ x % Size(m) = 0
        /\ z = x - (x % Size(m)) + Size(m) - 1
    BY <1>1, <1>2, <1>4
  <2> HIDE DEF x, y, m, z
  <2>2. Ranged(x, y, Size(m))
    BY <2>1, ByteRange
  <2>3. y \div Size(m) = x \div Size(m) <=> x <= y /\ y <= z
    BY <2>1, <2>2, Zenon DEF Ranged
  <2> QED BY <2>3, Zenon DEF x, y, m, z
<1>9. Covers(r, a) <=> \A i \in 1..4 : a[i] \div Size(b(i)) = p[i] \div Size(b(i))
  BY <1>1, Zenon DEF Covers, p
<1> QED BY <1>7, <1>8, <1>9, Zenon DEF p, h

-----------------------------------------------------------------------------
(* The packets, the entries made from them, and the table.                 *)

Parsed(m) == proc_in_q_packet(Encode(m))

\* proc_in_q finds routes the message has, and all of those it looks for, if
\* the message has no default route.
LEMMA PacketIs ==
  ASSUME NEW n \in Neighbor, NEW m \in Message[n]
  PROVE  /\ Parsed(m).withdraw \in Seq(Members(m.withdraw))
         /\ Parsed(m).update \in Seq(Members(m.update))
         /\ (\A i \in 1..Len(m.withdraw) : m.withdraw[i].length # 0)
               => Parsed(m).withdraw = m.withdraw
         /\ m.withdraw = <<>> /\ (\A i \in 1..Len(m.update) : m.update[i].length # 0)
               => Parsed(m).update = m.update
         /\ m.withdraw # <<>> => Parsed(m).update = <<>>
<1> DEFINE g == Encode(m)
           a == Len(AttributeBytes(m))
<1>1. /\ g \in Seq(Byte) /\ a \in Nat
      /\ U16At(g, 0) = 0 <=> m.withdraw = <<>>
      /\ m.withdraw # <<>> => Holds(g, 2, m.withdraw)
      /\ m.withdraw = <<>> => U16At(g, 2) = a /\ Holds(g, a + 4, m.update)
  BY EncodeIs
<1>2. m.withdraw \in Seq(Route) /\ m.update \in Seq(Route)
  BY MessageIs
<1>3. Parsed(m) = proc_in_q_packet(g)
  BY DEF Parsed
<1> HIDE DEF g, a
<1>4. CASE m.withdraw # <<>>
  <2>1. /\ parse_nlri(g, 2) \in Seq(Members(m.withdraw))
        /\ (\A i \in 1..Len(m.withdraw) : m.withdraw[i].length # 0)
              => parse_nlri(g, 2) = m.withdraw
    BY <1>1, <1>2, <1>4, RoutesRead
  <2>2. Parsed(m) = [withdraw |-> parse_nlri(g, 2), update |-> <<>>, attributes |-> NoAttributes]
    BY <1>1, <1>3, <1>4 DEF proc_in_q_packet
  <2>3. Parsed(m).withdraw = parse_nlri(g, 2) /\ Parsed(m).update = <<>>
    BY <2>2
  <2>4. <<>> \in Seq(Members(m.update))
    OBVIOUS
  <2> QED BY <1>4, <2>1, <2>3, <2>4, Zenon
<1>5. CASE m.withdraw = <<>>
  <2>1. /\ parse_nlri(g, a + 4) \in Seq(Members(m.update))
        /\ (\A i \in 1..Len(m.update) : m.update[i].length # 0)
              => parse_nlri(g, a + 4) = m.update
    <3>1. a + 4 \in Nat
      BY <1>1
    <3> QED BY <1>1, <1>2, <1>5, <3>1, RoutesRead
  <2>2. Parsed(m) = [withdraw |-> <<>>, update |-> parse_nlri(g, a + 4),
                     attributes |-> Attributes(g, a)]
    BY <1>1, <1>3, <1>5 DEF proc_in_q_packet
  <2>3. Parsed(m).withdraw = <<>> /\ Parsed(m).update = parse_nlri(g, a + 4)
    BY <2>2
  <2>4. <<>> \in Seq(Members(m.withdraw))
    OBVIOUS
  <2> QED BY <1>5, <2>1, <2>3, <2>4, Zenon
<1> QED BY <1>4, <1>5

\* What the queues and the table hold.
EntriesOf(n, m) ==
    Members(Tagged(Parsed(m).update, n, Parsed(m).attributes))
    \cup Members(Tagged(Parsed(m).withdraw, n, Parsed(m).attributes))
Entry == UNION {UNION {EntriesOf(n, m) : m \in Message[n]} : n \in Neighbor}

LEMMA TaggedSeq ==
  ASSUME NEW routes, Len(routes) \in Nat, NEW n, NEW a
  PROVE  Tagged(routes, n, a) \in Seq(Members(Tagged(routes, n, a)))
<1> DEFINE t == Tagged(routes, n, a)
<1>1. t = [i \in 1..Len(routes) |-> t[i]] /\ DOMAIN t = 1..Len(routes)
  BY DEF Tagged
<1>2. Len(t) = Len(routes)
  BY DEF Tagged
<1> HIDE DEF t
<1>3. t \in [1..Len(routes) -> Members(t)]
  BY <1>1, <1>2 DEF Members
<1> QED BY <1>3 DEF t

LEMMA SeqWiden ==
  ASSUME NEW S, NEW T, S \subseteq T, NEW s \in Seq(S)
  PROVE  s \in Seq(T)
<1>1. s \in [1..Len(s) -> S] /\ Len(s) \in Nat
  OBVIOUS
<1>2. s \in [1..Len(s) -> T]
  BY <1>1
<1> QED BY <1>1, <1>2

LEMMA TaggedIs ==
  ASSUME NEW n \in Neighbor, NEW m \in Message[n]
  PROVE  /\ Tagged(Parsed(m).update, n, Parsed(m).attributes) \in Seq(Entry)
         /\ Tagged(Parsed(m).withdraw, n, Parsed(m).attributes) \in Seq(Entry)
<1> DEFINE t == Tagged(Parsed(m).update, n, Parsed(m).attributes)
           v == Tagged(Parsed(m).withdraw, n, Parsed(m).attributes)
<1>1. Members(t) \subseteq Entry /\ Members(v) \subseteq Entry
  <2>1. Members(t) \subseteq EntriesOf(n, m) /\ Members(v) \subseteq EntriesOf(n, m)
    BY DEF EntriesOf
  <2> HIDE DEF t, v
  <2> QED BY <2>1 DEF Entry
<1>2. Parsed(m).withdraw \in Seq(Members(m.withdraw)) /\ Parsed(m).update \in Seq(Members(m.update))
  BY PacketIs
<1>3. Len(Parsed(m).withdraw) \in Nat /\ Len(Parsed(m).update) \in Nat
  BY <1>2
<1>4. t \in Seq(Members(t)) /\ v \in Seq(Members(v))
  BY <1>3, TaggedSeq
<1> HIDE DEF t, v
<1>5. t \in Seq(Entry) /\ v \in Seq(Entry)
  BY <1>1, <1>4, SeqWiden
<1> QED BY <1>5 DEF t, v

LEMMA RoutesOf ==
  ASSUME NEW n \in Neighbor, NEW m \in Message[n]
  PROVE  Members(m.withdraw) \subseteq Route /\ Members(m.update) \subseteq Route
<1>1. m.withdraw \in Seq(Route) /\ m.update \in Seq(Route)
  BY MessageIs
<1> QED BY <1>1 DEF Members

\* An entry is of a route of its neighbour, with the range of that route.
LEMMA EntryIs ==
  ASSUME NEW u \in Entry
  PROVE  /\ u.route \in Route /\ u.id \in Neighbor /\ u.highest = Highest(u.route)
         /\ KeyOf(u) = <<u.route.prefix, u.id>> /\ KeyOf(u) \in Key /\ KeyOf(u)[2] = u.id
<1>1. PICK n \in Neighbor : u \in UNION {EntriesOf(n, m) : m \in Message[n]}
  BY DEF Entry
<1>2. PICK m \in Message[n] : u \in EntriesOf(n, m)
  BY <1>1
<1>3. \E routes : /\ routes \in Seq(Route)
                  /\ u \in Members(Tagged(routes, n, Parsed(m).attributes))
  <2>1. Parsed(m).withdraw \in Seq(Members(m.withdraw))
          /\ Parsed(m).update \in Seq(Members(m.update))
    BY PacketIs
  <2>2. Parsed(m).withdraw \in Seq(Route) /\ Parsed(m).update \in Seq(Route)
    BY <2>1, RoutesOf, SeqWiden
  <2> QED BY <1>2, <2>2 DEF EntriesOf
<1>4. PICK routes : /\ routes \in Seq(Route)
                    /\ u \in Members(Tagged(routes, n, Parsed(m).attributes))
  BY <1>3
<1> DEFINE t == Tagged(routes, n, Parsed(m).attributes)
<1>5. PICK i \in 1..Len(t) : u = t[i]
  BY <1>4 DEF Members
<1>6. Len(t) = Len(routes)
  BY <1>4 DEF Tagged
<1>7. u = [route |-> routes[i], id |-> n, attributes |-> assign(Parsed(m).attributes),
           highest |-> get_ipv4_high_range(routes[i].prefix, routes[i].length)]
  BY <1>5, <1>6 DEF Tagged
<1>8. routes[i] \in Route
  BY <1>4, <1>5, <1>6
<1>9. u.route = routes[i] /\ u.id = n /\ u.highest = Highest(routes[i])
  BY <1>7 DEF Highest
<1>10. KeyOf(u) = <<u.route.prefix, u.id>>
  BY DEF KeyOf
<1>11. u.route.prefix \in Prefix
  BY <1>8, <1>9 DEF Prefix
<1> QED BY <1>8, <1>9, <1>10, <1>11 DEF Key

-----------------------------------------------------------------------------
(* The invariant.                                                          *)

Packets(n) == {Encode(m) : m \in Message[n]}

\* The variables are what their updates take them for.
ShapeInv ==
    /\ advertised = [n \in Neighbor |-> advertised[n]]
    /\ loaded \in [Neighbor \cup {Main} -> Int]

\* The in_queues hold messages, the other two entries made of them, and the
\* main thread is within an entry only if there is one.
QueueInv ==
    /\ in_queue = [n \in Neighbor |-> in_queue[n]]
    /\ \A n \in Neighbor : in_queue[n] \in Seq(Packets(n))
    /\ adj_rib_in_q \in Seq(Entry) /\ adj_rib_in_wdraw_q \in Seq(Entry)
    /\ mpc = "entry" => adj_rib_in_q # <<>>
    /\ mpc = "erase" => adj_rib_in_wdraw_q # <<>>

\* The table is finite, and each of its entries is where its key says.
TableInv ==
    /\ IsFiniteSet(DOMAIN adj_rib_in)
    /\ \A k \in DOMAIN adj_rib_in : adj_rib_in[k] \in Entry /\ KeyOf(adj_rib_in[k]) = k

Held(n) == {k \in DOMAIN adj_rib_in : k[2] = n}
Flushing(n) == IF flush[n] \in {"load", "store"} THEN 1 ELSE 0

\* The count is that of the routes, one more while a flush has erased a route
\* and not counted it.
CountInv ==
    "raced" \notin odd =>
        \A n \in Neighbor : current[n] = Cardinality(Held(n)) + Flushing(n)

IInv == TypeOK /\ ShapeInv /\ QueueInv /\ TableInv /\ CountInv

\* Only the messages of neighbours reach the table.
LEMMA TableTypes ==
  ASSUME TableInv
  PROVE  /\ DOMAIN adj_rib_in \subseteq Key
         /\ \A k \in DOMAIN adj_rib_in : adj_rib_in[k].route \in Route
<1>1. ASSUME NEW k \in DOMAIN adj_rib_in PROVE k \in Key /\ adj_rib_in[k].route \in Route
  <2>1. adj_rib_in[k] \in Entry /\ KeyOf(adj_rib_in[k]) = k
    BY DEF TableInv
  <2> QED BY <2>1, EntryIs
<1> QED BY <1>1

LEMMA IInvInit == Init => IInv
<1> SUFFICES ASSUME Init PROVE IInv
  OBVIOUS
<1> USE DEF Init
<1>1. DOMAIN adj_rib_in = {}
  OBVIOUS
<1>2. TableInv
  BY <1>1, FS_EmptySet DEF TableInv
<1>3. TypeOK
  BY <1>1, BoundAssumption DEF TypeOK, MainPc, FlushPc
<1>4. ShapeInv
  BY DEF ShapeInv
<1>5. QueueInv
  <2>1. \A n \in Neighbor : in_queue[n] = <<>>
    OBVIOUS
  <2> QED BY <2>1 DEF QueueInv
<1>6. CountInv
  <2>1. \A n \in Neighbor : Held(n) = {} /\ Flushing(n) = 0 /\ current[n] = 0
    BY <1>1 DEF Held, Flushing
  <2>2. Cardinality({}) = 0
    BY FS_EmptySet
  <2>3. ASSUME NEW n \in Neighbor PROVE current[n] = Cardinality(Held(n)) + Flushing(n)
    <3>1. Cardinality(Held(n)) = 0
      BY <2>1, <2>2, Zenon
    <3> QED BY <2>1, <3>1, SMT
  <2> QED BY <2>3, Zenon DEF CountInv
<1> QED BY <1>2, <1>3, <1>4, <1>5, <1>6 DEF IInv

-----------------------------------------------------------------------------
(* Every step keeps it.                                                    *)

\* What a message leaves advertised has routes of the message.
LEMMA AfterMessageIs ==
  ASSUME NEW n \in Neighbor, NEW m \in Message[n], NEW routes, \A r \in routes : r.route \in Route
  PROVE  \A r \in AfterMessage(routes, m) : r.route \in Route
<1> TAKE r \in AfterMessage(routes, m)
<1>1. CASE r \in routes
  BY <1>1
<1>2. CASE r \notin routes
  <2>1. PICK s \in Members(m.update) :
           r = [route |-> s, attributes |-> m.attributes, extended |-> m.extended]
    BY <1>2 DEF AfterMessage
  <2>2. s \in Route
    BY RoutesOf
  <2> QED BY <2>1, <2>2
<1> QED BY <1>1, <1>2

\* The parts of TypeOK that are not about the table.
StateInv ==
    /\ \A n \in Neighbor : \A r \in advertised[n] : r.route \in Route
    /\ current \in [Neighbor -> Int]
    /\ mpc \in MainPc
    /\ flush \in [Neighbor -> FlushPc]
    /\ sent \in 0..MaxMessages
    /\ odd \subseteq Odd
    /\ fault \in {"none"} \cup Faults

LEMMA TypeIs == TypeOK <=> StateInv /\ DOMAIN adj_rib_in \subseteq Key
                             /\ \A k \in DOMAIN adj_rib_in : adj_rib_in[k].route \in Route
  BY DEF TypeOK, StateInv

LEMMA WhenIs == \A c, e : When(c, e) \subseteq {e}
  BY DEF When

LEMMA OddMessageIs == \A n, m : OddMessage(n, m) \subseteq Odd
<1> TAKE n, m
<1> DEFINE named == Members(m.withdraw) \cup Members(m.update)
           held == named \cup {r.route : r \in advertised[n]}
           D == When(\E r \in named : r.length = 0, "default")
           M == When(m.withdraw # <<>> /\ m.update # <<>>, "mixed")
           O == When(\E r \in named, s \in held : r.prefix = s.prefix
             /\ r.length # s.length, "overlap")
           X == When(m.update # <<>> /\ m.extended, "extended")
           N == When(m.update # <<>> /\ m.attributes.as_path = Null, "own")
           G == When(m.update # <<>> /\ BadOrigin(m.attributes), "origin")
           J == When(m.update # <<>> /\ JsonFaults(m.attributes), "as4")
<1>1. OddMessage(n, m) = D \cup M \cup O \cup X \cup N \cup G \cup J
  BY Zenon DEF OddMessage
<1>2. /\ D \subseteq {"default"} /\ M \subseteq {"mixed"} /\ O \subseteq {"overlap"}
      /\ X \subseteq {"extended"} /\ N \subseteq {"own"}
      /\ G \subseteq {"origin"} /\ J \subseteq {"as4"}
  BY WhenIs, Zenon
<1> HIDE DEF D, M, O, X, N, G, J
<1> QED BY <1>1, <1>2 DEF Odd, Diverging

\* StoreCount keeps the counts integers.
LEMMA StoreCountIs ==
  ASSUME NEW n \in Neighbor, NEW c \in Int, StoreCount(n, c), IInv
  PROVE  /\ current' \in [Neighbor -> Int] /\ odd' \subseteq Odd
         /\ loaded' \in [Neighbor \cup {Main} -> Int]
         /\ c = 0 => current' = current
         /\ "raced" \notin odd' => "raced" \notin odd
         /\ "raced" \notin odd' => current' = [current EXCEPT ![n] = @ + c]
<1>1. current \in [Neighbor -> Int] /\ loaded \in [Neighbor \cup {Main} -> Int] /\ odd \subseteq Odd
  BY DEF IInv, TypeOK, ShapeInv
<1>2. loaded[Main] \in Int /\ current[n] \in Int
  BY <1>1
<1>3. /\ current' = [current EXCEPT ![n] = IF c = 0 THEN @ ELSE loaded[Main] + c]
      /\ odd' = odd \cup When(c # 0 /\ current[n] # loaded[Main], "raced")
      /\ loaded' = [loaded EXCEPT ![Main] = 0]
  BY DEF StoreCount
<1>4. odd' \subseteq Odd
  BY <1>1, <1>3, WhenIs DEF Odd
<1>5. loaded' \in [Neighbor \cup {Main} -> Int]
  BY <1>1, <1>3
<1>6. CASE c = 0
  <2>1. current' = current
    BY <1>1, <1>3, <1>6
  <2>2. [current EXCEPT ![n] = @ + c] = current
    BY <1>1, <1>2, <1>6
  <2> QED BY <1>1, <1>3, <1>4, <1>5, <2>1, <2>2
<1>7. CASE c # 0
  <2>1. current' = [current EXCEPT ![n] = loaded[Main] + c]
    BY <1>3, <1>7
  <2>2. "raced" \notin odd' => current[n] = loaded[Main] /\ "raced" \notin odd
    BY <1>3, <1>7 DEF When
  <2>3. current' \in [Neighbor -> Int]
    BY <1>1, <1>2, <2>1
  <2>4. "raced" \notin odd' => current' = [current EXCEPT ![n] = @ + c]
    BY <2>1, <2>2
  <2> QED BY <1>4, <1>5, <1>7, <2>2, <2>3, <2>4
<1> QED BY <1>6, <1>7

\* The steps that end in a fault change nothing else.
Failing ==
    \/ \E n \in Neighbor : ParseOverrun(n)
    \/ LogUpdate \/ Search

LEMMA FailingIs ==
  ASSUME Failing
  PROVE  /\ fault' \in Faults
         /\ UNCHANGED <<advertised, queueVars, in_queue, adj_rib_in_q, adj_rib_in_wdraw_q,
                        adj_rib_in, countVars, current, loaded, mpc, flush, sent, odd>>
<1>1. \E what \in Faults : Fails(what)
  BY DEF Failing, ParseOverrun, LogUpdate, Search, ShowAdjRibIn, ApiOrigin, ApiPrefix,
         ShowPrefix, Faults
<1> QED BY <1>1 DEF Fails, queueVars, countVars

LEMMA ShapeNext == IInv /\ [Next]_vars => (StateInv /\ ShapeInv)'
<1> SUFFICES ASSUME IInv, [Next]_vars PROVE (StateInv /\ ShapeInv)'
  OBVIOUS
<1>0. TypeOK /\ StateInv /\ ShapeInv /\ QueueInv /\ TableInv
  BY TypeIs DEF IInv
<1>a. /\ \A n \in Neighbor : \A r \in advertised[n] : r.route \in Route
      /\ current \in [Neighbor -> Int] /\ mpc \in MainPc
      /\ flush \in [Neighbor -> FlushPc] /\ sent \in 0..MaxMessages
      /\ odd \subseteq Odd /\ fault \in {"none"} \cup Faults
      /\ advertised = [n \in Neighbor |-> advertised[n]]
      /\ loaded \in [Neighbor \cup {Main} -> Int]
  BY <1>0 DEF StateInv, ShapeInv
<1>1. ASSUME NEW n \in Neighbor, NEW m \in Message[n], Receive(n, m) PROVE (StateInv /\ ShapeInv)'
  <2>1. \A r \in AfterMessage(advertised[n], m) : r.route \in Route
    BY <1>a, AfterMessageIs
  <2>2. /\ advertised' = [advertised EXCEPT ![n] = AfterMessage(@, m)]
        /\ sent' = sent + 1 /\ sent < MaxMessages
        /\ odd' = odd \cup OddMessage(n, m)
        /\ UNCHANGED <<current, mpc, flush, fault, loaded>>
    BY <1>1 DEF Receive, countVars
  <2>3. sent' \in 0..MaxMessages
    BY <1>a, <2>2, BoundAssumption
  <2>4. odd' \subseteq Odd
    BY <1>a, <2>2, OddMessageIs
  <2>5. \A k \in Neighbor : \A r \in advertised'[k] : r.route \in Route
    BY <1>a, <2>1, <2>2
  <2>6. advertised' = [k \in Neighbor |-> advertised'[k]]
    BY <1>a, <2>2
  <2> QED BY <1>a, <2>2, <2>3, <2>4, <2>5, <2>6 DEF StateInv, ShapeInv
<1>2. ASSUME NEW n \in Neighbor, SessionDown(n) PROVE (StateInv /\ ShapeInv)'
  <2>1. /\ flush' = [flush EXCEPT ![n] = "erase"]
        /\ advertised' = [advertised EXCEPT ![n] = {}]
        /\ odd' = odd \cup When(Queued(n), "late")
        /\ UNCHANGED <<current, mpc, sent, fault, loaded>>
    BY <1>2 DEF SessionDown, countVars
  <2>2. odd' \subseteq Odd
    BY <1>a, <2>1, WhenIs DEF Odd, Diverging
  <2>3. flush' \in [Neighbor -> FlushPc]
    BY <1>a, <2>1 DEF FlushPc
  <2>4. \A k \in Neighbor : \A r \in advertised'[k] : r.route \in Route
    BY <1>a, <2>1
  <2>5. advertised' = [k \in Neighbor |-> advertised'[k]]
    BY <1>a, <2>1
  <2> QED BY <1>a, <2>1, <2>2, <2>3, <2>4, <2>5 DEF StateInv, ShapeInv
<1>3. ASSUME NEW n \in Neighbor, FlushErase(n) PROVE (StateInv /\ ShapeInv)'
  <2>1. flush' = [flush EXCEPT ![n] = "load"]
        /\ UNCHANGED <<advertised, current, loaded, mpc, sent, odd, fault>>
    BY <1>3 DEF FlushErase, countVars
  <2>2. flush' \in [Neighbor -> FlushPc]
    BY <1>a, <2>1 DEF FlushPc
  <2> QED BY <1>a, <2>1, <2>2 DEF StateInv, ShapeInv
<1>4. ASSUME NEW n \in Neighbor, FlushLoad(n) PROVE (StateInv /\ ShapeInv)'
  <2>1. flush' = [flush EXCEPT ![n] = "store"] /\ loaded' = [loaded EXCEPT ![n] = current[n]]
        /\ UNCHANGED <<advertised, current, mpc, sent, odd, fault>>
    BY <1>4 DEF FlushLoad
  <2>2. flush' \in [Neighbor -> FlushPc]
    BY <1>a, <2>1 DEF FlushPc
  <2>3. loaded' \in [Neighbor \cup {Main} -> Int]
    BY <1>a, <2>1
  <2> QED BY <1>a, <2>1, <2>2, <2>3 DEF StateInv, ShapeInv
<1>5. ASSUME NEW n \in Neighbor, FlushStore(n) PROVE (StateInv /\ ShapeInv)'
  <2>1. /\ current' = [current EXCEPT ![n] = loaded[n] - 1]
        /\ odd' = odd \cup When(current[n] # loaded[n], "raced")
        /\ flush' = [flush EXCEPT ![n] = "erase"]
        /\ loaded' = [loaded EXCEPT ![n] = 0]
        /\ UNCHANGED <<advertised, mpc, sent, fault>>
    BY <1>5 DEF FlushStore
  <2>2. flush' \in [Neighbor -> FlushPc]
    BY <1>a, <2>1 DEF FlushPc
  <2>3. loaded' \in [Neighbor \cup {Main} -> Int] /\ loaded[n] \in Int
    BY <1>a, <2>1
  <2>4. current' \in [Neighbor -> Int]
    BY <1>a, <2>1, <2>3
  <2>5. odd' \subseteq Odd
    BY <1>a, <2>1, WhenIs DEF Odd
  <2> QED BY <1>a, <2>1, <2>2, <2>3, <2>4, <2>5 DEF StateInv, ShapeInv
<1>6. ASSUME NEW n \in Neighbor, FlushDone(n) PROVE (StateInv /\ ShapeInv)'
  <2>1. flush' = [flush EXCEPT ![n] = "no"]
        /\ UNCHANGED <<advertised, current, loaded, mpc, sent, odd, fault>>
    BY <1>6 DEF FlushDone, countVars
  <2>2. flush' \in [Neighbor -> FlushPc]
    BY <1>a, <2>1 DEF FlushPc
  <2> QED BY <1>a, <2>1, <2>2 DEF StateInv, ShapeInv
<1>7. ASSUME NEW n \in Neighbor, Parse(n) PROVE (StateInv /\ ShapeInv)'
  <2>1. UNCHANGED <<advertised, current, loaded, mpc, flush, sent, fault>>
    BY <1>7 DEF Parse, countVars
  <2>2. odd' \subseteq Odd
    <3>1. \E c : odd' = odd \cup When(c, "flip")
      BY <1>7, Zenon DEF Parse
    <3>2. "flip" \in Odd
      BY DEF Odd, Diverging
    <3> QED BY <1>a, <3>1, <3>2, WhenIs
  <2> QED BY <1>a, <2>1, <2>2 DEF StateInv, ShapeInv
<1>8. ASSUME ParseDone \/ RibQueueDone \/ WdrawQueueDone PROVE (StateInv /\ ShapeInv)'
  <2>1. mpc' \in MainPc /\ UNCHANGED <<advertised, current, loaded, flush, sent, odd, fault>>
    BY <1>8 DEF ParseDone, RibQueueDone, WdrawQueueDone, MainPc, countVars
  <2> QED BY <1>a, <2>1 DEF StateInv, ShapeInv
<1>9. ASSUME NEW queue \in Seq(Entry), NEW from, NEW to \in MainPc, LoadCount(queue, from, to)
      PROVE  (StateInv /\ ShapeInv)'
  <2>1. /\ queue # <<>> /\ mpc' = to /\ loaded' = [loaded EXCEPT ![Main] = current[Head(queue).id]]
        /\ UNCHANGED <<advertised, current, flush, sent, odd, fault>>
    BY <1>9 DEF LoadCount
  <2>2. Head(queue) \in Entry
    BY <2>1
  <2>3. current[Head(queue).id] \in Int
    BY <1>a, <2>2, EntryIs
  <2>4. loaded' \in [Neighbor \cup {Main} -> Int]
    BY <1>a, <2>1, <2>3
  <2> QED BY <1>a, <2>1, <2>4 DEF StateInv, ShapeInv
<1>10. ASSUME PeerEntryBegin \/ WithdrawBegin PROVE (StateInv /\ ShapeInv)'
  <2>1. adj_rib_in_q \in Seq(Entry) /\ adj_rib_in_wdraw_q \in Seq(Entry)
    BY <1>0 DEF QueueInv
  <2>2. "entry" \in MainPc /\ "erase" \in MainPc
    BY DEF MainPc
  <2> QED BY <1>9, <1>10, <2>1, <2>2 DEF PeerEntryBegin, WithdrawBegin
<1>11. ASSUME NEW n \in Neighbor, NEW c \in Int, StoreCount(n, c), mpc' \in MainPc,
              UNCHANGED <<advertised, flush, sent, fault>>
       PROVE  (StateInv /\ ShapeInv)'
  <2>1. /\ current' \in [Neighbor -> Int] /\ odd' \subseteq Odd
        /\ loaded' \in [Neighbor \cup {Main} -> Int]
    BY <1>11, StoreCountIs
  <2> QED BY <1>a, <1>11, <2>1 DEF StateInv, ShapeInv
<1>12. ASSUME PeerEntry PROVE (StateInv /\ ShapeInv)'
  <2> DEFINE u == Head(adj_rib_in_q)
             c == IF KeyOf(u) \in DOMAIN adj_rib_in THEN 0 ELSE 1
  <2>1. StoreCount(u.id, c) /\ mpc' = "rib" /\ UNCHANGED <<advertised, flush, sent, fault>>
    BY <1>12 DEF PeerEntry
  <2>2. u \in Entry
    BY <1>0, <1>12 DEF PeerEntry, QueueInv
  <2>3. u.id \in Neighbor /\ c \in Int /\ mpc' \in MainPc
    BY <2>1, <2>2, EntryIs DEF MainPc
  <2> HIDE DEF u, c
  <2> QED BY <1>11, <2>1, <2>3
<1>13. ASSUME Withdraw PROVE (StateInv /\ ShapeInv)'
  <2> DEFINE u == Head(adj_rib_in_wdraw_q)
             c == IF KeyOf(u) \in DOMAIN adj_rib_in THEN -1 ELSE 0
  <2>1. StoreCount(u.id, c) /\ mpc' = "wdraw" /\ UNCHANGED <<advertised, flush, sent, fault>>
    BY <1>13 DEF Withdraw
  <2>2. u \in Entry
    BY <1>0, <1>13 DEF Withdraw, QueueInv
  <2>3. u.id \in Neighbor /\ c \in Int /\ mpc' \in MainPc
    BY <2>1, <2>2, EntryIs DEF MainPc
  <2> HIDE DEF u, c
  <2> QED BY <1>11, <2>1, <2>3
<1>14. ASSUME Failing PROVE (StateInv /\ ShapeInv)'
  <2>1. fault' \in {"none"} \cup Faults
        /\ UNCHANGED <<advertised, current, loaded, mpc, flush, sent, odd>>
    BY <1>14, FailingIs
  <2> QED BY <1>a, <2>1 DEF StateInv, ShapeInv
<1>15. ASSUME UNCHANGED vars PROVE (StateInv /\ ShapeInv)'
  BY <1>a, <1>15 DEF StateInv, ShapeInv, vars, countVars
<1> QED BY <1>1, <1>2, <1>3, <1>4, <1>5, <1>6, <1>7, <1>8, <1>10, <1>12, <1>13, <1>14, <1>15
        DEF Next, MainStep, PeerStep, Failing

LEMMA TailIs ==
  ASSUME NEW S, NEW s \in Seq(S), s # <<>>
  PROVE  Tail(s) \in Seq(S) /\ Head(s) \in S
  OBVIOUS

LEMMA QueueNext == IInv /\ [Next]_vars => QueueInv'
<1> SUFFICES ASSUME IInv, [Next]_vars PROVE QueueInv'
  OBVIOUS
<1>0. /\ in_queue = [n \in Neighbor |-> in_queue[n]]
      /\ \A n \in Neighbor : in_queue[n] \in Seq(Packets(n))
      /\ adj_rib_in_q \in Seq(Entry) /\ adj_rib_in_wdraw_q \in Seq(Entry)
      /\ mpc = "entry" => adj_rib_in_q # <<>>
      /\ mpc = "erase" => adj_rib_in_wdraw_q # <<>>
  BY DEF IInv, QueueInv
<1>a. ASSUME NEW n \in Neighbor, NEW q \in Seq(Packets(n)), in_queue' = [in_queue EXCEPT ![n] = q]
      PROVE  /\ in_queue' = [k \in Neighbor |-> in_queue'[k]]
             /\ \A k \in Neighbor : in_queue'[k] \in Seq(Packets(k))
  <2>1. in_queue' = [k \in Neighbor |-> IF k = n THEN q ELSE in_queue[k]]
    BY <1>0, <1>a
  <2> QED BY <1>0, <2>1
<1>1. ASSUME NEW n \in Neighbor, NEW m \in Message[n], Receive(n, m) PROVE QueueInv'
  <2>1. in_queue' = [in_queue EXCEPT ![n] = Append(in_queue[n], Encode(m))]
        /\ UNCHANGED <<adj_rib_in_q, adj_rib_in_wdraw_q, mpc>>
    BY <1>1 DEF Receive
  <2>2. Encode(m) \in Packets(n) /\ in_queue[n] \in Seq(Packets(n))
    BY <1>0 DEF Packets
  <2>3. Append(in_queue[n], Encode(m)) \in Seq(Packets(n))
    BY <2>2
  <2>4. /\ in_queue' = [k \in Neighbor |-> in_queue'[k]]
        /\ \A k \in Neighbor : in_queue'[k] \in Seq(Packets(k))
    BY <1>a, <2>1, <2>3
  <2> QED BY <1>0, <2>1, <2>4, Zenon DEF QueueInv
<1>2. ASSUME NEW n \in Neighbor, FlushDone(n) PROVE QueueInv'
  <2>1. in_queue' = [in_queue EXCEPT ![n] = <<>>]
        /\ UNCHANGED <<adj_rib_in_q, adj_rib_in_wdraw_q, mpc>>
    BY <1>2 DEF FlushDone
  <2>2. <<>> \in Seq(Packets(n))
    OBVIOUS
  <2>3. /\ in_queue' = [k \in Neighbor |-> in_queue'[k]]
        /\ \A k \in Neighbor : in_queue'[k] \in Seq(Packets(k))
    BY <1>a, <2>1, <2>2
  <2> QED BY <1>0, <2>1, <2>3, Zenon DEF QueueInv
<1>3. ASSUME NEW n \in Neighbor, Parse(n) PROVE QueueInv'
  <2> DEFINE p == proc_in_q_packet(Head(in_queue[n]))
             t == Tagged(p.update, n, p.attributes)
             v == Tagged(p.withdraw, n, p.attributes)
  <2>1. /\ in_queue[n] # <<>> /\ mpc = "parse"
        /\ adj_rib_in_q' = adj_rib_in_q \o t
        /\ adj_rib_in_wdraw_q' = adj_rib_in_wdraw_q \o v
        /\ in_queue' = [in_queue EXCEPT ![n] = Tail(in_queue[n])]
        /\ UNCHANGED mpc
    BY <1>3 DEF Parse
  <2>2. Tail(in_queue[n]) \in Seq(Packets(n)) /\ Head(in_queue[n]) \in Packets(n)
    BY <1>0, <2>1, TailIs
  <2>3. PICK m \in Message[n] : Head(in_queue[n]) = Encode(m)
    BY <2>2 DEF Packets
  <2>4. t \in Seq(Entry) /\ v \in Seq(Entry)
    <3>1. p = Parsed(m)
      BY <2>3 DEF Parsed
    <3> HIDE DEF p
    <3> QED BY <3>1, TaggedIs
  <2> HIDE DEF t, v
  <2>5. adj_rib_in_q' \in Seq(Entry) /\ adj_rib_in_wdraw_q' \in Seq(Entry)
    BY <1>0, <2>1, <2>4
  <2>6. /\ in_queue' = [k \in Neighbor |-> in_queue'[k]]
        /\ \A k \in Neighbor : in_queue'[k] \in Seq(Packets(k))
    BY <1>a, <2>1, <2>2
  <2>7. mpc' # "entry" /\ mpc' # "erase"
    BY <2>1
  <2> QED BY <2>5, <2>6, <2>7, Zenon DEF QueueInv
<1>4. ASSUME ParseDone \/ RibQueueDone \/ WdrawQueueDone PROVE QueueInv'
  <2>1. mpc' # "entry" /\ mpc' # "erase" /\ UNCHANGED <<in_queue, adj_rib_in_q, adj_rib_in_wdraw_q>>
    BY <1>4 DEF ParseDone, RibQueueDone, WdrawQueueDone, queueVars
  <2> QED BY <1>0, <2>1, Zenon DEF QueueInv
<1>5. ASSUME PeerEntryBegin \/ WithdrawBegin PROVE QueueInv'
  <2>1. /\ UNCHANGED <<in_queue, adj_rib_in_q, adj_rib_in_wdraw_q>>
        /\ \/ mpc' = "entry" /\ adj_rib_in_q # <<>>
           \/ mpc' = "erase" /\ adj_rib_in_wdraw_q # <<>>
    BY <1>5 DEF PeerEntryBegin, WithdrawBegin, LoadCount, queueVars
  <2>2. /\ mpc' = "entry" => adj_rib_in_q' # <<>>
        /\ mpc' = "erase" => adj_rib_in_wdraw_q' # <<>>
    BY <2>1
  <2> QED BY <1>0, <2>1, <2>2, Zenon DEF QueueInv
<1>6. ASSUME PeerEntry PROVE QueueInv'
  <2>1. mpc = "entry" /\ mpc' = "rib" /\ adj_rib_in_q' = Tail(adj_rib_in_q)
        /\ UNCHANGED <<in_queue, adj_rib_in_wdraw_q>>
    BY <1>6 DEF PeerEntry
  <2>2. adj_rib_in_q' \in Seq(Entry)
    BY <1>0, <2>1
  <2>3. mpc' # "entry" /\ mpc' # "erase"
    BY <2>1
  <2> QED BY <1>0, <2>1, <2>2, <2>3, Zenon DEF QueueInv
<1>7. ASSUME Withdraw PROVE QueueInv'
  <2>1. mpc = "erase" /\ mpc' = "wdraw" /\ adj_rib_in_wdraw_q' = Tail(adj_rib_in_wdraw_q)
        /\ UNCHANGED <<in_queue, adj_rib_in_q>>
    BY <1>7 DEF Withdraw
  <2>2. adj_rib_in_wdraw_q' \in Seq(Entry)
    BY <1>0, <2>1
  <2>3. mpc' # "entry" /\ mpc' # "erase"
    BY <2>1
  <2> QED BY <1>0, <2>1, <2>2, <2>3, Zenon DEF QueueInv
<1>8. ASSUME UNCHANGED <<queueVars, mpc>> PROVE QueueInv'
  <2>1. UNCHANGED <<in_queue, adj_rib_in_q, adj_rib_in_wdraw_q, mpc>>
    BY <1>8 DEF queueVars
  <2> QED BY <1>0, <2>1, Zenon DEF QueueInv
<1>9. ASSUME NEW n \in Neighbor,
             SessionDown(n) \/ FlushErase(n) \/ FlushLoad(n) \/ FlushStore(n)
      PROVE  QueueInv'
  BY <1>8, <1>9 DEF SessionDown, FlushErase, FlushLoad, FlushStore
<1>10. ASSUME Failing PROVE QueueInv'
  BY <1>8, <1>10, FailingIs
<1>11. ASSUME UNCHANGED vars PROVE QueueInv'
  BY <1>8, <1>11 DEF vars
<1> QED BY <1>1, <1>2, <1>3, <1>4, <1>5, <1>6, <1>7, <1>9, <1>10, <1>11
        DEF Next, MainStep, PeerStep, Failing

LEMMA TableNext == IInv /\ [Next]_vars => TableInv'
<1> SUFFICES ASSUME IInv, [Next]_vars PROVE TableInv'
  OBVIOUS
<1>0. /\ IsFiniteSet(DOMAIN adj_rib_in)
      /\ \A k \in DOMAIN adj_rib_in : adj_rib_in[k] \in Entry /\ KeyOf(adj_rib_in[k]) = k
  BY DEF IInv, TableInv
<1>1. ASSUME NEW k, adj_rib_in' = [j \in DOMAIN adj_rib_in \ {k} |-> adj_rib_in[j]]
      PROVE  TableInv'
  <2>1. DOMAIN adj_rib_in' = DOMAIN adj_rib_in \ {k}
    BY <1>1
  <2>2. IsFiniteSet(DOMAIN adj_rib_in')
    BY <1>0, <2>1, FS_RemoveElement
  <2> QED BY <1>0, <1>1, <2>2 DEF TableInv
<1>2. ASSUME PeerEntry PROVE TableInv'
  <2> DEFINE u == Head(adj_rib_in_q)
             k == KeyOf(u)
  <2>1. u \in Entry
    BY <1>2 DEF IInv, QueueInv, PeerEntry
  <2>2. adj_rib_in' = [j \in DOMAIN adj_rib_in \cup {k} |-> IF j = k THEN u ELSE adj_rib_in[j]]
    BY <1>2 DEF PeerEntry
  <2>3. KeyOf(u) = k
    OBVIOUS
  <2> HIDE DEF u, k
  <2>4. DOMAIN adj_rib_in' = DOMAIN adj_rib_in \cup {k}
    BY <2>2
  <2>5. IsFiniteSet(DOMAIN adj_rib_in')
    BY <1>0, <2>4, FS_AddElement
  <2>6. \A j \in DOMAIN adj_rib_in' : adj_rib_in'[j] \in Entry /\ KeyOf(adj_rib_in'[j]) = j
    <3> TAKE j \in DOMAIN adj_rib_in'
    <3>1. CASE j = k
      BY <2>1, <2>2, <2>3, <2>4, <3>1
    <3>2. CASE j # k
      <4>1. adj_rib_in'[j] = adj_rib_in[j] /\ j \in DOMAIN adj_rib_in
        BY <2>2, <2>4, <3>2
      <4> QED BY <1>0, <4>1
    <3> QED BY <3>1, <3>2
  <2> QED BY <2>5, <2>6, Zenon DEF TableInv
<1>3. ASSUME Withdraw PROVE TableInv'
  BY <1>1, <1>3 DEF Withdraw
<1>4. ASSUME NEW n \in Neighbor, FlushErase(n) PROVE TableInv'
  BY <1>1, <1>4 DEF FlushErase
<1>5. ASSUME UNCHANGED adj_rib_in PROVE TableInv'
  BY <1>0, <1>5, Zenon DEF TableInv
<1>6. ASSUME NEW n \in Neighbor, NEW m \in Message[n], Receive(n, m) PROVE TableInv'
  BY <1>5, <1>6 DEF Receive
<1>7. ASSUME NEW n \in Neighbor,
             SessionDown(n) \/ FlushLoad(n) \/ FlushStore(n) \/ FlushDone(n) \/ Parse(n)
      PROVE  TableInv'
  <2>1. UNCHANGED adj_rib_in
    BY <1>7, Zenon DEF SessionDown, FlushLoad, FlushStore, FlushDone, Parse
  <2> QED BY <1>5, <2>1
<1>8. ASSUME ParseDone \/ RibQueueDone \/ WdrawQueueDone \/ PeerEntryBegin \/ WithdrawBegin
      PROVE  TableInv'
  BY <1>5, <1>8
     DEF ParseDone, RibQueueDone, WdrawQueueDone, PeerEntryBegin, WithdrawBegin, LoadCount
<1>9. ASSUME Failing \/ UNCHANGED vars PROVE TableInv'
  BY <1>5, <1>9, FailingIs DEF vars
<1> QED BY <1>2, <1>3, <1>4, <1>6, <1>7, <1>8, <1>9 DEF Next, MainStep, PeerStep, Failing

\* The number of a neighbour's routes, one added or removed.
LEMMA HeldIs ==
  ASSUME NEW n, NEW k, IsFiniteSet(DOMAIN adj_rib_in)
  PROVE  /\ IsFiniteSet(Held(n)) /\ Cardinality(Held(n)) \in Nat
         /\ k \in Held(n) => Cardinality(Held(n) \ {k}) = Cardinality(Held(n)) - 1
         /\ k \notin Held(n) => Cardinality(Held(n) \cup {k}) = Cardinality(Held(n)) + 1
<1>1. IsFiniteSet(Held(n))
  BY FS_Subset DEF Held
<1>2. Cardinality(Held(n)) \in Nat
  BY <1>1, FS_CardinalityType
<1>3. k \in Held(n) => Cardinality(Held(n) \ {k}) = Cardinality(Held(n)) - 1
  BY <1>1, FS_RemoveElement
<1>4. k \notin Held(n) => Cardinality(Held(n) \cup {k}) = Cardinality(Held(n)) + 1
  BY <1>1, FS_AddElement
<1> QED BY <1>1, <1>2, <1>3, <1>4

LEMMA CountNext == IInv /\ [Next]_vars => CountInv'
<1> SUFFICES ASSUME IInv, [Next]_vars, "raced" \notin odd' PROVE
       \A n \in Neighbor : current'[n] = Cardinality(Held(n)') + Flushing(n)'
  BY Zenon DEF CountInv
<1> DEFINE Good(n) == current[n] = Cardinality(Held(n)) + Flushing(n)
<1>0. /\ current \in [Neighbor -> Int] /\ flush \in [Neighbor -> FlushPc]
      /\ IsFiniteSet(DOMAIN adj_rib_in)
      /\ "raced" \notin odd => \A n \in Neighbor : Good(n)
  BY DEF IInv, TypeOK, TableInv, CountInv
<1>a. \A n \in Neighbor : Cardinality(Held(n)) \in Nat
  BY <1>0, HeldIs
<1>1. ASSUME NEW n \in Neighbor, FlushErase(n) PROVE \A j \in Neighbor : Good(j)'
  <2>1. PICK k \in DOMAIN adj_rib_in :
           k[2] = n /\ adj_rib_in' = [j \in DOMAIN adj_rib_in \ {k} |-> adj_rib_in[j]]
    BY <1>1 DEF FlushErase
  <2>2. /\ flush[n] = "erase" /\ flush' = [flush EXCEPT ![n] = "load"]
        /\ UNCHANGED <<current, odd>>
    BY <1>1 DEF FlushErase, countVars
  <2>3. "raced" \notin odd
    BY <2>2
  <2>4. Held(n)' = Held(n) \ {k} /\ k \in Held(n)
    BY <2>1 DEF Held
  <2>5. \A j \in Neighbor : j # n => Held(j)' = Held(j)
    BY <2>1 DEF Held
  <2>6. Cardinality(Held(n)') = Cardinality(Held(n)) - 1
    BY <1>0, <2>4, HeldIs
  <2>7. Flushing(n) = 0 /\ Flushing(n)' = 1
    BY <1>0, <2>2 DEF Flushing
  <2>8. \A j \in Neighbor : j # n => Flushing(j)' = Flushing(j)
    BY <1>0, <2>2 DEF Flushing
  <2> TAKE j \in Neighbor
  <2>9. CASE j = n
    BY <1>0, <1>a, <2>2, <2>3, <2>6, <2>7, <2>9
  <2>10. CASE j # n
    <3>1. Cardinality(Held(j)') = Cardinality(Held(j))
      BY <2>5, <2>10
    <3> QED BY <1>0, <2>2, <2>3, <2>8, <2>10, <3>1
  <2> QED BY <2>9, <2>10
<1>2. ASSUME NEW n \in Neighbor, FlushStore(n) PROVE \A j \in Neighbor : Good(j)'
  <2>1. /\ flush[n] = "store"
        /\ current' = [current EXCEPT ![n] = loaded[n] - 1]
        /\ odd' = odd \cup When(current[n] # loaded[n], "raced")
        /\ flush' = [flush EXCEPT ![n] = "erase"]
        /\ UNCHANGED adj_rib_in
    BY <1>2 DEF FlushStore
  <2>2. "raced" \notin odd /\ current[n] = loaded[n]
    BY <2>1 DEF When
  <2>3. \A j \in Neighbor : Held(j)' = Held(j)
    BY <2>1 DEF Held
  <2>4. Flushing(n) = 1 /\ Flushing(n)' = 0
    BY <1>0, <2>1 DEF Flushing
  <2>5. \A j \in Neighbor : j # n => Flushing(j)' = Flushing(j) /\ current'[j] = current[j]
    BY <1>0, <2>1 DEF Flushing
  <2>6. current'[n] = current[n] - 1 /\ current[n] \in Int
    BY <1>0, <2>1, <2>2
  <2> TAKE j \in Neighbor
  <2>7. Cardinality(Held(j)') = Cardinality(Held(j))
    BY <2>3
  <2>8. CASE j = n
    BY <1>0, <1>a, <2>2, <2>4, <2>6, <2>7, <2>8
  <2>9. CASE j # n
    BY <1>0, <2>2, <2>5, <2>7, <2>9
  <2> QED BY <2>8, <2>9
<1>3. ASSUME \A n \in Neighbor : Flushing(n)' = Flushing(n),
             UNCHANGED <<current, adj_rib_in>>, odd \subseteq odd'
      PROVE  \A j \in Neighbor : Good(j)'
  <2>1. \A j \in Neighbor : Held(j)' = Held(j)
    BY <1>3 DEF Held
  <2> TAKE j \in Neighbor
  <2>2. Cardinality(Held(j)') = Cardinality(Held(j)) /\ Flushing(j)' = Flushing(j)
        /\ current'[j] = current[j] /\ Good(j)
    BY <1>0, <1>3, <2>1
  <2> QED BY <2>2
<1>4. ASSUME NEW n \in Neighbor,
             SessionDown(n) \/ FlushLoad(n) \/ FlushDone(n)
      PROVE  \A j \in Neighbor : Good(j)'
  <2>1. \/ flush[n] = "no" /\ flush' = [flush EXCEPT ![n] = "erase"]
        \/ flush[n] = "load" /\ flush' = [flush EXCEPT ![n] = "store"]
        \/ flush[n] = "erase" /\ flush' = [flush EXCEPT ![n] = "no"]
    BY <1>4 DEF SessionDown, FlushLoad, FlushDone
  <2>2. \A j \in Neighbor : Flushing(j)' = Flushing(j)
    BY <1>0, <2>1 DEF Flushing
  <2>3. UNCHANGED <<current, adj_rib_in>> /\ odd \subseteq odd'
    BY <1>4 DEF SessionDown, FlushLoad, FlushDone, countVars
  <2> QED BY <1>3, <2>2, <2>3
<1>5. ASSUME UNCHANGED <<flush, current, adj_rib_in>>, odd \subseteq odd'
      PROVE  \A j \in Neighbor : Good(j)'
  <2>1. \A j \in Neighbor : Flushing(j)' = Flushing(j)
    BY <1>5 DEF Flushing
  <2> QED BY <1>3, <1>5, <2>1
<1>6. ASSUME NEW n \in Neighbor, NEW m \in Message[n], Receive(n, m) \/ Parse(n)
      PROVE  \A j \in Neighbor : Good(j)'
  <2>1. UNCHANGED <<flush, current, adj_rib_in>> /\ odd \subseteq odd'
    BY <1>6 DEF Receive, Parse, countVars
  <2> QED BY <1>5, <2>1
<1>b. ASSUME NEW n \in Neighbor, Parse(n) PROVE \A j \in Neighbor : Good(j)'
  <2>1. UNCHANGED <<flush, current, adj_rib_in>> /\ odd \subseteq odd'
    BY <1>b DEF Parse, countVars
  <2> QED BY <1>5, <2>1
<1>7. ASSUME ParseDone \/ RibQueueDone \/ WdrawQueueDone \/ PeerEntryBegin \/ WithdrawBegin
             \/ UNCHANGED vars
      PROVE  \A j \in Neighbor : Good(j)'
  <2>1. UNCHANGED <<flush, current, adj_rib_in>> /\ odd \subseteq odd'
    BY <1>7 DEF ParseDone, RibQueueDone, WdrawQueueDone, PeerEntryBegin, WithdrawBegin, LoadCount,
                vars, countVars
  <2> QED BY <1>5, <2>1
<1>c. ASSUME Failing PROVE \A j \in Neighbor : Good(j)'
  <2>1. UNCHANGED <<flush, current, adj_rib_in>> /\ odd \subseteq odd'
    BY <1>c, FailingIs
  <2> QED BY <1>5, <2>1
<1>8. ASSUME NEW n \in Neighbor, NEW c \in Int, StoreCount(n, c), UNCHANGED flush,
             Cardinality(Held(n)') = Cardinality(Held(n)) + c,
             \A j \in Neighbor : j # n => Held(j)' = Held(j)
      PROVE  \A j \in Neighbor : Good(j)'
  <2>1. "raced" \notin odd /\ current' = [current EXCEPT ![n] = @ + c]
    BY <1>8, StoreCountIs
  <2>2. \A j \in Neighbor : Flushing(j)' = Flushing(j)
    BY <1>8 DEF Flushing
  <2>3. \A j \in Neighbor : Flushing(j) \in Int
    BY DEF Flushing
  <2> TAKE j \in Neighbor
  <2>4. CASE j = n
    <3>1. current'[n] = current[n] + c
      BY <1>0, <2>1
    <3> QED BY <1>0, <1>8, <1>a, <2>1, <2>2, <2>3, <2>4, <3>1
  <2>5. CASE j # n
    <3>1. current'[j] = current[j] /\ Cardinality(Held(j)') = Cardinality(Held(j))
      BY <1>0, <1>8, <2>1, <2>5
    <3> QED BY <1>0, <2>1, <2>2, <3>1
  <2> QED BY <2>4, <2>5
<1>9. ASSUME PeerEntry PROVE \A j \in Neighbor : Good(j)'
  <2>1. Head(adj_rib_in_q) \in Entry
    BY <1>9 DEF IInv, QueueInv, PeerEntry
  <2>2. PICK u \in Entry : u = Head(adj_rib_in_q)
    BY <2>1
  <2>3. PICK k, n, c : k = KeyOf(u) /\ n = u.id /\ c = IF k \in DOMAIN adj_rib_in THEN 0 ELSE 1
    OBVIOUS
  <2>4. /\ StoreCount(n, c) /\ UNCHANGED flush
        /\ adj_rib_in' = [j \in DOMAIN adj_rib_in \cup {k} |-> IF j = k THEN u ELSE adj_rib_in[j]]
        /\ n \in Neighbor /\ k[2] = n /\ c \in Int
    <3>1. /\ StoreCount(n, c) /\ UNCHANGED flush
          /\ adj_rib_in' = [j \in DOMAIN adj_rib_in \cup {k} |-> IF j = k THEN u ELSE adj_rib_in[j]]
      BY <1>9, <2>2, <2>3 DEF PeerEntry
    <3>2. n \in Neighbor /\ k[2] = n /\ c \in Int
      BY <2>3, EntryIs
    <3> QED BY <3>1, <3>2
  <2>5. Held(n)' = Held(n) \cup {k} /\ (k \in DOMAIN adj_rib_in <=> k \in Held(n))
    BY <2>4 DEF Held
  <2>6. \A j \in Neighbor : j # n => Held(j)' = Held(j)
    BY <2>4 DEF Held
  <2>7. Cardinality(Held(n)') = Cardinality(Held(n)) + c
    <3>1. CASE k \in Held(n)
      <4>1. Held(n)' = Held(n) /\ c = 0
        BY <2>3, <2>5, <3>1
      <4>2. Cardinality(Held(n)') = Cardinality(Held(n))
        BY <4>1
      <4> QED BY <1>a, <2>4, <4>1, <4>2
    <3>2. CASE k \notin Held(n)
      <4>1. c = 1
        BY <2>3, <2>5, <3>2
      <4>2. Cardinality(Held(n)') = Cardinality(Held(n)) + 1
        BY <1>0, <2>5, <3>2, HeldIs
      <4> QED BY <4>1, <4>2
    <3> QED BY <3>1, <3>2
  <2> QED BY <1>8, <2>4, <2>6, <2>7
<1>10. ASSUME Withdraw PROVE \A j \in Neighbor : Good(j)'
  <2>1. Head(adj_rib_in_wdraw_q) \in Entry
    BY <1>10 DEF IInv, QueueInv, Withdraw
  <2>2. PICK u \in Entry : u = Head(adj_rib_in_wdraw_q)
    BY <2>1
  <2>3. PICK k, n, c : k = KeyOf(u) /\ n = u.id /\ c = IF k \in DOMAIN adj_rib_in THEN -1 ELSE 0
    OBVIOUS
  <2>4. /\ StoreCount(n, c) /\ UNCHANGED flush
        /\ adj_rib_in' = [j \in DOMAIN adj_rib_in \ {k} |-> adj_rib_in[j]]
        /\ n \in Neighbor /\ k[2] = n /\ c \in Int
    <3>1. /\ StoreCount(n, c) /\ UNCHANGED flush
          /\ adj_rib_in' = [j \in DOMAIN adj_rib_in \ {k} |-> adj_rib_in[j]]
      BY <1>10, <2>2, <2>3 DEF Withdraw
    <3>2. n \in Neighbor /\ k[2] = n /\ c \in Int
      BY <2>3, EntryIs
    <3> QED BY <3>1, <3>2
  <2>5. Held(n)' = Held(n) \ {k} /\ (k \in DOMAIN adj_rib_in <=> k \in Held(n))
    BY <2>4 DEF Held
  <2>6. \A j \in Neighbor : j # n => Held(j)' = Held(j)
    BY <2>4 DEF Held
  <2>7. Cardinality(Held(n)') = Cardinality(Held(n)) + c
    <3>1. CASE k \in Held(n)
      <4>1. c = -1
        BY <2>3, <2>5, <3>1
      <4>2. Cardinality(Held(n)') = Cardinality(Held(n)) - 1
        BY <1>0, <2>5, <3>1, HeldIs
      <4> QED BY <1>a, <2>4, <4>1, <4>2
    <3>2. CASE k \notin Held(n)
      <4>1. Held(n)' = Held(n) /\ c = 0
        BY <2>3, <2>5, <3>2
      <4>2. Cardinality(Held(n)') = Cardinality(Held(n))
        BY <4>1
      <4> QED BY <1>a, <2>4, <4>1, <4>2
    <3> QED BY <3>1, <3>2
  <2> QED BY <1>8, <2>4, <2>6, <2>7
<1> HIDE DEF Good
<1>11. \A j \in Neighbor : Good(j)'
  BY <1>1, <1>2, <1>4, <1>6, <1>b, <1>c, <1>7, <1>9, <1>10 DEF Next, MainStep, PeerStep, Failing
<1> QED BY <1>11 DEF Good

LEMMA IInvNext == IInv /\ [Next]_vars => IInv'
<1> SUFFICES ASSUME IInv, [Next]_vars PROVE IInv'
  OBVIOUS
<1>1. StateInv' /\ ShapeInv'
  BY ShapeNext
<1>2. QueueInv'
  BY QueueNext
<1>3. TableInv'
  BY TableNext
<1>4. CountInv'
  BY CountNext
<1>5. TypeOK'
  <2>1. (DOMAIN adj_rib_in \subseteq Key
          /\ \A k \in DOMAIN adj_rib_in : adj_rib_in[k].route \in Route)'
    BY <1>3, TableTypes, PTL
  <2>2. TypeOK' <=> (StateInv /\ DOMAIN adj_rib_in \subseteq Key
                      /\ \A k \in DOMAIN adj_rib_in : adj_rib_in[k].route \in Route)'
    BY TypeIs, PTL
  <2> QED BY <1>1, <2>1, <2>2
<1> QED BY <1>1, <1>2, <1>3, <1>4, <1>5 DEF IInv

LEMMA RoutesAreNetworks == Route \subseteq Network
<1> SUFFICES ASSUME NEW r \in Route PROVE r \in Network
  OBVIOUS
<1>1. r \in [prefix : Address, length : 0..32]
        /\ \A i \in 1..4 : r.prefix[i] % HostSize(r.length, i) = 0
  BY RouteAssumption
<1> QED BY <1>1, Zenon DEF Network

LEMMA BlocksAreNetworks == rfc_ips \subseteq Network
<1>1. ASSUME NEW p \in Address, NEW l \in 0..32,
             \A i \in 1..4 : p[i] % Size(Bits(l, i)) = 0
      PROVE  [prefix |-> p, length |-> l] \in Network
  <2> DEFINE r == [prefix |-> p, length |-> l]
  <2>1. r \in [prefix : Address, length : 0..32] /\ r.prefix = p /\ r.length = l
    OBVIOUS
  <2>2. \A i \in 1..4 : HostSize(l, i) = Size(Bits(l, i))
    BY BitsAre
  <2> HIDE DEF r
  <2>3. \A i \in 1..4 : r.prefix[i] % HostSize(r.length, i) = 0
    BY <1>1, <2>1, <2>2
  <2> QED BY <2>1, <2>3, Zenon DEF Network, r
<1>a. \A i \in 1..4 : i = 1 \/ i = 2 \/ i = 3 \/ i = 4
  BY SMT
<1>2. [prefix |-> <<10, 0, 0, 0>>, length |-> 8] \in Network
  <2> DEFINE p == <<10, 0, 0, 0>>
  <2>1. p \in Address /\ p[1] = 10 /\ p[2] = 0 /\ p[3] = 0 /\ p[4] = 0
    BY SMT DEF Address, Byte
  <2>2. Bits(8, 1) = 8 /\ Bits(8, 2) = 0 /\ Bits(8, 3) = 0 /\ Bits(8, 4) = 0
    BY SMT DEF Bits, Min8
  <2>3. Size(Bits(8, 1)) = 1 /\ Size(Bits(8, 2)) = 256 /\ Size(Bits(8, 3)) = 256
          /\ Size(Bits(8, 4)) = 256
    BY <2>2, SizeIs
  <2> HIDE DEF p
  <2>4. \A i \in 1..4 : p[i] % Size(Bits(8, i)) = 0
    BY <1>a, <2>1, <2>3
  <2>5. 8 \in 0..32
    BY SMT
  <2>6. [prefix |-> p, length |-> 8] \in Network
    <3>1. \A l \in 0..32 : (\A i \in 1..4 : p[i] % Size(Bits(l, i)) = 0)
                             => [prefix |-> p, length |-> l] \in Network
      BY <1>1, <2>1
    <3> QED BY <2>4, <2>5, <3>1, Zenon
  <2> QED BY <2>6 DEF p
<1>3. [prefix |-> <<172, 16, 0, 0>>, length |-> 12] \in Network
  <2> DEFINE p == <<172, 16, 0, 0>>
  <2>1. p \in Address /\ p[1] = 172 /\ p[2] = 16 /\ p[3] = 0 /\ p[4] = 0
    BY SMT DEF Address, Byte
  <2>2. Bits(12, 1) = 8 /\ Bits(12, 2) = 4 /\ Bits(12, 3) = 0 /\ Bits(12, 4) = 0
    BY SMT DEF Bits, Min8
  <2>3. Size(Bits(12, 1)) = 1 /\ Size(Bits(12, 2)) = 16 /\ Size(Bits(12, 3)) = 256
          /\ Size(Bits(12, 4)) = 256
    BY <2>2, SizeIs
  <2> HIDE DEF p
  <2>4. \A i \in 1..4 : p[i] % Size(Bits(12, i)) = 0
    BY <1>a, <2>1, <2>3
  <2>5. 12 \in 0..32
    BY SMT
  <2>6. [prefix |-> p, length |-> 12] \in Network
    <3>1. \A l \in 0..32 : (\A i \in 1..4 : p[i] % Size(Bits(l, i)) = 0)
                             => [prefix |-> p, length |-> l] \in Network
      BY <1>1, <2>1
    <3> QED BY <2>4, <2>5, <3>1, Zenon
  <2> QED BY <2>6 DEF p
<1>4. [prefix |-> <<192, 168, 0, 0>>, length |-> 16] \in Network
  <2> DEFINE p == <<192, 168, 0, 0>>
  <2>1. p \in Address /\ p[1] = 192 /\ p[2] = 168 /\ p[3] = 0 /\ p[4] = 0
    BY SMT DEF Address, Byte
  <2>2. Bits(16, 1) = 8 /\ Bits(16, 2) = 8 /\ Bits(16, 3) = 0 /\ Bits(16, 4) = 0
    BY SMT DEF Bits, Min8
  <2>3. Size(Bits(16, 1)) = 1 /\ Size(Bits(16, 2)) = 1 /\ Size(Bits(16, 3)) = 256
          /\ Size(Bits(16, 4)) = 256
    BY <2>2, SizeIs
  <2> HIDE DEF p
  <2>4. \A i \in 1..4 : p[i] % Size(Bits(16, i)) = 0
    BY <1>a, <2>1, <2>3
  <2>5. 16 \in 0..32
    BY SMT
  <2>6. [prefix |-> p, length |-> 16] \in Network
    <3>1. \A l \in 0..32 : (\A i \in 1..4 : p[i] % Size(Bits(l, i)) = 0)
                             => [prefix |-> p, length |-> l] \in Network
      BY <1>1, <2>1
    <3> QED BY <2>4, <2>5, <3>1, Zenon
  <2> QED BY <2>6 DEF p
<1> QED BY <1>2, <1>3, <1>4 DEF rfc_ips

\* A network in a block ends in it, or it is larger than the block and begins
\* where the block begins.
LEMMA BlockCovers ==
  ASSUME NEW b \in Network, NEW r \in Network
  PROVE  Covers(b, r.prefix) <=>
           \/ Covers(b, r.prefix) /\ Covers(b, Highest(r))
           \/ r.length < b.length /\ r.prefix = b.prefix
<1> DEFINE p == r.prefix
           q == b.prefix
           h == Highest(r)
           m(i) == Bits(r.length, i)
           l(i) == Bits(b.length, i)
           In(x) == \A i \in 1..4 : x[i] \div Size(l(i)) = q[i] \div Size(l(i))
<1>1. p \in Address /\ q \in Address /\ r.length \in 0..32 /\ b.length \in 0..32
  BY NetworkIs
<1>2. \A i \in 1..4 : /\ p[i] \in 0..255 /\ m(i) \in 0..8 /\ p[i] % Size(m(i)) = 0
                      /\ h[i] = p[i] - (p[i] % Size(m(i))) + Size(m(i)) - 1
  <2> TAKE i \in 1..4
  <2>1. p[i] \in 0..255 /\ m(i) \in 0..8 /\ p[i] % Size(m(i)) = 0
    BY NetworkIs
  <2>2. h[i] = p[i] - (p[i] % Size(m(i))) + Size(m(i)) - 1
    BY HighestIs
  <2> QED BY <2>1, <2>2, Zenon
<1>3. \A i \in 1..4 : /\ q[i] \in 0..255 /\ l(i) \in 0..8 /\ q[i] % Size(l(i)) = 0
                      /\ HostSize(b.length, i) = Size(l(i))
  BY NetworkIs
<1>4. Covers(b, p) <=> In(p)
  BY <1>3, Zenon DEF Covers
<1>5. Covers(b, h) <=> In(h)
  BY <1>3, Zenon DEF Covers
<1>6. r.length < b.length => \A i \in 1..4 : m(i) <= l(i)
  <2> DEFINE x == r.length
             y == b.length
  <2> HIDE DEF x, y
  <2>1. \A i \in 1..4 : x \in 0..32 /\ y \in 0..32 /\ x < y => Bits(x, i) <= Bits(y, i)
    BY SMT DEF Bits, Min8
  <2> QED BY <1>1, <2>1 DEF x, y
<1>7. ~(r.length < b.length) => \A i \in 1..4 : l(i) <= m(i)
  <2> DEFINE x == r.length
             y == b.length
  <2> HIDE DEF x, y
  <2>1. \A i \in 1..4 : x \in 0..32 /\ y \in 0..32 /\ ~(x < y) => Bits(y, i) <= Bits(x, i)
    BY SMT DEF Bits, Min8
  <2> QED BY <1>1, <2>1 DEF x, y
<1>8. ASSUME r.length < b.length, In(p) PROVE p = q
  <2>1. ASSUME NEW i \in 1..4 PROVE p[i] = q[i]
    <3> DEFINE x == p[i]
               y == q[i]
               c == l(i)
               d == m(i)
    <3>1. x \in 0..255 /\ y \in 0..255 /\ c \in 0..8 /\ d \in 0..8 /\ d <= c
          /\ x % Size(d) = 0 /\ y % Size(c) = 0 /\ x \div Size(c) = y \div Size(c)
      BY <1>2, <1>3, <1>6, <1>8
    <3> HIDE DEF x, y, c, d
    <3>2. x % Size(c) = 0
      BY <3>1, MoreBits
    <3>3. x = y
      BY <3>1, <3>2, SameByte
    <3> QED BY <3>3 DEF x, y
  <2>2. p = [i \in 1..4 |-> p[i]] /\ q = [i \in 1..4 |-> q[i]]
    BY <1>1 DEF Address
  <2> HIDE DEF p, q
  <2> QED BY <2>1, <2>2
<1>9. ASSUME ~(r.length < b.length), In(p) PROVE In(h)
  <2> TAKE i \in 1..4
  <2> DEFINE x == p[i]
             c == l(i)
             d == m(i)
             z == h[i]
             y == q[i]
  <2>1. x \in 0..255 /\ c \in 0..8 /\ d \in 0..8 /\ c <= d /\ x % Size(d) = 0
        /\ z = x - (x % Size(d)) + Size(d) - 1 /\ x \div Size(c) = y \div Size(c)
    BY <1>2, <1>3, <1>7, <1>9
  <2> HIDE DEF x, y, z, c, d
  <2>2. (x - (x % Size(d)) + Size(d) - 1) \div Size(c) = x \div Size(c)
    BY <2>1, LastOfByte, ZenonT(40)
  <2>3. z \div Size(c) = y \div Size(c)
    BY <2>1, <2>2, Zenon
  <2> QED BY <2>3, Zenon DEF z, y, c
<1>10. p = q => In(p)
  <2> HIDE DEF p, q, l
  <2> QED OBVIOUS
<1> HIDE DEF In, p, q, h
<1> QED BY <1>4, <1>5, <1>8, <1>9, <1>10, Zenon DEF p, q, h

-----------------------------------------------------------------------------
(* The theorems.                                                           *)

LEMMA Invariance == Spec => []IInv
<1>1. Init => IInv
  BY IInvInit
<1>2. IInv /\ [Next]_vars => IInv'
  BY IInvNext
<1> QED BY <1>1, <1>2, PTL DEF Spec

\* proc_in_q queues, peer_entry and withdraw file only routes the neighbours'
\* messages have, under the prefix and the identifier they came with, and the
\* counts and the places of the threads are what the code takes them for.
THEOREM RouteTypes == Spec => []TypeOK
<1>1. IInv => TypeOK
  BY DEF IInv
<1> QED BY <1>1, Invariance, PTL

\* prefixes.current.rx is the number of the neighbour's routes in the table
\* whatever the neighbours send and whenever their sessions end, as long as no
\* two threads are in one update of the count.
THEOREM RouteCount == Spec => []CountMatchesUnlessRaced
<1>1. IInv => CountMatchesUnlessRaced
  <2> SUFFICES ASSUME IInv, "raced" \notin odd, NEW n \in Neighbor, flush[n] \in {"no", "erase"}
               PROVE  current[n] = Cardinality({k \in DOMAIN adj_rib_in : k[2] = n})
    BY Zenon DEF CountMatchesUnlessRaced
  <2>1. current[n] = Cardinality(Held(n)) + Flushing(n)
    BY DEF IInv, CountInv
  <2>2. Flushing(n) = 0
    BY DEF Flushing
  <2>3. Cardinality(Held(n)) \in Nat
    BY HeldIs DEF IInv, TableInv
  <2>4. current[n] = Cardinality(Held(n))
    BY <2>1, <2>2, <2>3
  <2> QED BY <2>4 DEF Held
<1> QED BY <1>1, Invariance, PTL

\* A search by address finds the routes that cover it: the comparison of bytes
\* with the highest address, computed when the route was parsed, is right for
\* every length and every address.
THEOREM RouteSearch == Spec => []SearchFindsCoveringRoutes
<1>1. IInv => SearchFindsCoveringRoutes
  <2> SUFFICES ASSUME IInv, NEW a \in Probe, NEW k \in DOMAIN adj_rib_in
               PROVE  InRange(adj_rib_in[k].route.prefix, adj_rib_in[k].highest, a)
                        <=> Covers(adj_rib_in[k].route, a)
    BY DEF SearchFindsCoveringRoutes, prefix_matches
  <2> DEFINE r == adj_rib_in[k].route
  <2>1. adj_rib_in[k] \in Entry
    BY DEF IInv, TableInv
  <2>2. r \in Network /\ adj_rib_in[k].highest = Highest(r)
    BY <2>1, EntryIs, RoutesAreNetworks
  <2>3. a \in Address
    BY ProbeAssumption
  <2> HIDE DEF r
  <2>4. InRange(r.prefix, Highest(r), a) <=> Covers(r, a)
    BY <2>2, <2>3, RangeCovers
  <2> QED BY <2>2, <2>4, Zenon DEF r
<1> QED BY <1>1, Invariance, PTL

\* The private list of an origin AS has its routes whose addresses are all
\* private, and those that begin where a private block begins and are larger;
\* the public list has the others.
THEOREM RoutePrivate == Spec => []PrivateListIsPrivate
<1>1. IInv => PrivateListIsPrivate
  <2> SUFFICES ASSUME IInv, NEW asn PROVE
         LET private == api_get_private_origin_as(asn, 32)
             public == api_get_public_origin_as(asn, 32)
         IN  /\ private \cap public = {}
             /\ private \cup public = OriginMatches(asn, 32)
             /\ \A k \in OriginMatches(asn, 32) :
                   LET e == adj_rib_in[k]
                   IN  k \in private <=>
                         \E b \in rfc_ips :
                            \/ Covers(b, e.route.prefix) /\ Covers(b, e.highest)
                            \/ e.route.length < b.length /\ e.route.prefix = b.prefix
    BY Zenon DEF PrivateListIsPrivate
  <2> DEFINE all == OriginMatches(asn, 32)
             private == api_get_private_origin_as(asn, 32)
             public == api_get_public_origin_as(asn, 32)
  <2>1. private = {k \in all : is_rfc1918(k[1])} /\ public = {k \in all : ~is_rfc1918(k[1])}
    BY Zenon DEF api_get_private_origin_as, api_get_public_origin_as
  <2>2. all \subseteq DOMAIN adj_rib_in
    BY DEF OriginMatches
  <2> HIDE DEF all, private, public
  <2>3. ASSUME NEW k \in all
        PROVE  is_rfc1918(k[1]) <=>
                 \E b \in rfc_ips :
                    \/ Covers(b, adj_rib_in[k].route.prefix) /\ Covers(b, adj_rib_in[k].highest)
                    \/ adj_rib_in[k].route.length < b.length
                       /\ adj_rib_in[k].route.prefix = b.prefix
    <3> DEFINE net == adj_rib_in[k].route
               top == adj_rib_in[k].highest
    <3>1. adj_rib_in[k] \in Entry /\ KeyOf(adj_rib_in[k]) = k
      BY <2>2 DEF IInv, TableInv
    <3>2. net \in Network /\ top = Highest(net) /\ k[1] = net.prefix
      BY <3>1, EntryIs, RoutesAreNetworks
    <3> HIDE DEF net, top
    <3>3. ASSUME NEW b \in rfc_ips
          PROVE  InRange(b.prefix, get_ipv4_high_range(b.prefix, b.length), net.prefix) <=>
                   \/ Covers(b, net.prefix) /\ Covers(b, top)
                   \/ net.length < b.length /\ net.prefix = b.prefix
      <4>1. b \in Network
        BY BlocksAreNetworks
      <4>2. net.prefix \in Address
        BY <3>2, NetworkIs
      <4>3. InRange(b.prefix, Highest(b), net.prefix) <=> Covers(b, net.prefix)
        BY <4>1, <4>2, RangeCovers
      <4>4. Covers(b, net.prefix) <=>
              \/ Covers(b, net.prefix) /\ Covers(b, Highest(net))
              \/ net.length < b.length /\ net.prefix = b.prefix
        BY <3>2, <4>1, BlockCovers
      <4> QED BY <3>2, <4>3, <4>4, Zenon DEF Highest
    <3>4. is_rfc1918(k[1]) <=> \E b \in rfc_ips :
             InRange(b.prefix, get_ipv4_high_range(b.prefix, b.length), net.prefix)
      BY <3>2, Zenon DEF is_rfc1918
    <3> QED BY <3>3, <3>4, Zenon DEF net, top
  <2>4. private \cap public = {} /\ private \cup public = all
    BY <2>1
  <2>5. \A k \in all : k \in private <=> is_rfc1918(k[1])
    BY <2>1
  <2> QED BY <2>3, <2>4, <2>5, Zenon DEF all, private, public
<1> QED BY <1>1, Invariance, PTL


-----------------------------------------------------------------------------
(* The way of a prefix from the in_queue to the table.                     *)

Named(m) == Members(m.withdraw) \cup Members(m.update)

\* A message with nothing in it that the table is known not to survive.
Clean(m) ==
    /\ \A r \in Named(m) : r.length # 0
    /\ m.withdraw = <<>> \/ m.update = <<>>
    /\ \A r \in Named(m), s \in Named(m) : r.prefix = s.prefix => r = s

\* What a message says is advertised.
Record(r, m) == [route |-> r, attributes |-> m.attributes, extended |-> m.extended]
Says(m, p) == {Record(r, m) : r \in {s \in Members(m.update) : s.prefix = p}}

\* The packet is about the prefix, the entry about the neighbour's prefix.
Names(g, p) ==
    \E r \in Members(proc_in_q_packet(g).withdraw) \cup Members(proc_in_q_packet(g).update) :
       r.prefix = p
For(u, n, p) == u.id = n /\ u.route.prefix = p

Quiet(q, p) == \A j \in 1..Len(q) : ~Names(q[j], p)
LastNames(q, i, p) == Names(q[i], p) /\ \A j \in 1..Len(q) : j > i => ~Names(q[j], p)
Has(s, n, p) == \E j \in 1..Len(s) : For(s[j], n, p)
Last(s, i, n, p) == For(s[i], n, p) /\ \A j \in 1..Len(s) : j > i => ~For(s[j], n, p)

\* The entry is made of the message the advertisement is made of, and that is
\* the only one of its prefix.
Shown(n, e, a) ==
    \E m \in Message[n] :
       /\ Clean(m) /\ e.route \in Members(m.update)
       /\ e.attributes = assign(Parsed(m).attributes)
       /\ a = {Record(e.route, m)}

\* With the packets q, the withdrawals w, the announcements s and the table t
\* the advertisements a of a prefix are what the last of them says: a packet
\* wins over the queues, a withdrawal over an announcement, that over the table.
Owed(q, a, n, p) ==
    \A i \in 1..Len(q) : LastNames(q, i, p) =>
       \E m \in Message[n] : Clean(m) /\ q[i] = Encode(m) /\ a = Says(m, p)
Announced(s, a, n, p) == \A i \in 1..Len(s) : Last(s, i, n, p) => Shown(n, s[i], a)
Stored(t, a, n, p) == IF <<p, n>> \in DOMAIN t THEN Shown(n, t[<<p, n>>], a) ELSE a = {}
Due(w, s, t, a, n, p) ==
    /\ Has(w, n, p) => a = {}
    /\ ~Has(w, n, p) => Announced(s, a, n, p)
    /\ ~Has(w, n, p) /\ ~Has(s, n, p) => Stored(t, a, n, p)
Flow(q, w, s, t, a, n, p) ==
    Owed(q, a, n, p) /\ (Quiet(q, p) => Due(w, s, t, a, n, p))

LEMMA CleanParsed ==
  ASSUME NEW n \in Neighbor, NEW m \in Message[n], Clean(m)
  PROVE  Parsed(m).withdraw = m.withdraw /\ Parsed(m).update = m.update
<1>1. /\ Parsed(m).withdraw \in Seq(Members(m.withdraw))
      /\ (\A i \in 1..Len(m.withdraw) : m.withdraw[i].length # 0)
            => Parsed(m).withdraw = m.withdraw
      /\ m.withdraw = <<>> /\ (\A i \in 1..Len(m.update) : m.update[i].length # 0)
            => Parsed(m).update = m.update
      /\ m.withdraw # <<>> => Parsed(m).update = <<>>
  BY PacketIs
<1>2. \A i \in 1..Len(m.withdraw) : m.withdraw[i].length # 0
  BY DEF Clean, Named, Members
<1>3. \A i \in 1..Len(m.update) : m.update[i].length # 0
  BY DEF Clean, Named, Members
<1>4. CASE m.withdraw = <<>>
  BY <1>1, <1>2, <1>3, <1>4, Zenon
<1>5. CASE m.withdraw # <<>>
  <2>1. m.update = <<>>
    BY <1>5, Zenon DEF Clean
  <2> QED BY <1>1, <1>2, <1>5, <2>1, Zenon
<1> QED BY <1>4, <1>5, Zenon

LEMMA NamesIs ==
  ASSUME NEW n \in Neighbor, NEW m \in Message[n], Clean(m), NEW p
  PROVE  Names(Encode(m), p) <=> \E r \in Named(m) : r.prefix = p
<1>1. Parsed(m).withdraw = m.withdraw /\ Parsed(m).update = m.update
  BY CleanParsed
<1> QED BY <1>1, Zenon DEF Names, Named, Parsed

\* All that is tagged is of the neighbour, with the message's attributes.
LEMMA TaggedEntry ==
  ASSUME NEW routes, Len(routes) \in Nat, NEW n, NEW a,
         NEW j \in 1..Len(Tagged(routes, n, a))
  PROVE  LET u == Tagged(routes, n, a)[j]
         IN  /\ Len(Tagged(routes, n, a)) = Len(routes) /\ j \in 1..Len(routes)
             /\ u.route = routes[j] /\ u.id = n /\ u.attributes = assign(a)
<1>1. Len(Tagged(routes, n, a)) = Len(routes)
  BY DEF Tagged
<1>2. j \in 1..Len(routes)
  BY <1>1
<1>3. Tagged(routes, n, a)[j] =
        [route |-> routes[j], id |-> n, attributes |-> assign(a),
         highest |-> get_ipv4_high_range(routes[j].prefix, routes[j].length)]
  BY <1>2 DEF Tagged
<1> QED BY <1>1, <1>2, <1>3

LEMMA TaggedAll ==
  ASSUME NEW routes, Len(routes) \in Nat, NEW n, NEW a, NEW x, x = Tagged(routes, n, a)
  PROVE  /\ Len(x) = Len(routes)
         /\ \A j \in 1..Len(routes) : /\ x[j].route = routes[j] /\ x[j].id = n
                                      /\ x[j].attributes = assign(a)
<1>1. Len(x) = Len(routes)
  BY DEF Tagged
<1>2. ASSUME NEW j \in 1..Len(routes)
      PROVE  x[j].route = routes[j] /\ x[j].id = n /\ x[j].attributes = assign(a)
  <2>1. j \in 1..Len(Tagged(routes, n, a))
    BY <1>1
  <2> QED BY <2>1, TaggedEntry
<1> QED BY <1>1, <1>2

\* An UPDATE arrives.
LEMMA FlowReceive ==
  ASSUME NEW n \in Neighbor, NEW m \in Message[n], Clean(m), NEW S, NEW q \in Seq(S),
         NEW w, NEW s, NEW t, NEW a, NEW b, NEW p,
         Encode(m) \in S, Flow(q, w, s, t, a, n, p),
         (\E r \in Named(m) : r.prefix = p) => b = Says(m, p),
         ~(\E r \in Named(m) : r.prefix = p) => b = a
  PROVE  Flow(Append(q, Encode(m)), w, s, t, b, n, p)
<1> DEFINE g == Encode(m)
           Q == Append(q, g)
           L == Len(q)
<1>1. L \in Nat /\ Len(Q) = L + 1 /\ Q[L + 1] = g /\ \A j \in 1..L : Q[j] = q[j]
  OBVIOUS
<1>2. Names(g, p) <=> \E r \in Named(m) : r.prefix = p
  BY NamesIs
<1> HIDE DEF Q, g
<1>3. CASE Names(g, p)
  <2>1. ~Quiet(Q, p)
    BY <1>1, <1>3 DEF Quiet
  <2>2. ASSUME NEW i \in 1..Len(Q), LastNames(Q, i, p) PROVE i = L + 1
    BY <1>1, <1>3, <2>2 DEF LastNames
  <2>3. b = Says(m, p)
    BY <1>2, <1>3
  <2>4. Owed(Q, b, n, p)
    <3> SUFFICES ASSUME NEW i \in 1..Len(Q), LastNames(Q, i, p)
                 PROVE  Clean(m) /\ Q[i] = Encode(m) /\ b = Says(m, p)
      BY DEF Owed
    <3> QED BY <1>1, <2>2, <2>3 DEF g
  <2>5. Flow(Q, w, s, t, b, n, p)
    BY <2>1, <2>4, Zenon DEF Flow
  <2> QED BY <2>5 DEF Q, g
<1>4. CASE ~Names(g, p)
  <2>1. b = a
    BY <1>2, <1>4
  <2>2. Quiet(Q, p) => Quiet(q, p)
    BY <1>1 DEF Quiet
  <2>3. ASSUME NEW i \in 1..Len(Q), LastNames(Q, i, p)
        PROVE  i \in 1..L /\ LastNames(q, i, p) /\ Q[i] = q[i]
    <3>1. i # L + 1
      BY <1>1, <1>4, <2>3 DEF LastNames
    <3>2. i \in 1..L
      BY <1>1, <3>1
    <3> QED BY <1>1, <2>3, <3>2 DEF LastNames
  <2>4. Owed(Q, a, n, p)
    <3>1. Owed(q, a, n, p)
      BY Zenon DEF Flow
    <3> SUFFICES ASSUME NEW i \in 1..Len(Q), LastNames(Q, i, p)
                 PROVE  \E k \in Message[n] : Clean(k) /\ Q[i] = Encode(k) /\ a = Says(k, p)
      BY DEF Owed
    <3>2. i \in 1..Len(q) /\ LastNames(q, i, p) /\ Q[i] = q[i]
      BY <2>3
    <3> QED BY <3>1, <3>2, Zenon DEF Owed
  <2>5. Flow(Q, w, s, t, b, n, p)
    BY <2>1, <2>2, <2>4, Zenon DEF Flow
  <2> QED BY <2>5 DEF Q, g
<1> QED BY <1>3, <1>4

\* Behind s in s \o t.
LEMMA HasCat ==
  ASSUME NEW S, NEW s \in Seq(S), NEW t \in Seq(S), NEW n, NEW p
  PROVE  Has(s \o t, n, p) <=> Has(s, n, p) \/ Has(t, n, p)
<1> DEFINE u == s \o t
<1>1. /\ Len(s) \in Nat /\ Len(t) \in Nat /\ Len(u) = Len(s) + Len(t)
      /\ \A i \in 1..Len(s) : u[i] = s[i]
      /\ \A i \in 1..Len(t) : u[Len(s) + i] = t[i]
  OBVIOUS
<1> HIDE DEF u
<1>2. Has(s, n, p) => Has(u, n, p)
  BY <1>1 DEF Has
<1>3. Has(t, n, p) => Has(u, n, p)
  <2> SUFFICES ASSUME NEW i \in 1..Len(t), For(t[i], n, p) PROVE Has(u, n, p)
    BY DEF Has
  <2>1. Len(s) + i \in 1..Len(u) /\ For(u[Len(s) + i], n, p)
    BY <1>1
  <2> QED BY <2>1 DEF Has
<1>4. Has(u, n, p) => Has(s, n, p) \/ Has(t, n, p)
  <2> SUFFICES ASSUME NEW i \in 1..Len(u), For(u[i], n, p) PROVE Has(s, n, p) \/ Has(t, n, p)
    BY DEF Has
  <2>1. CASE i <= Len(s)
    BY <1>1, <2>1 DEF Has
  <2>2. CASE ~(i <= Len(s))
    <3>1. i - Len(s) \in 1..Len(t) /\ Len(s) + (i - Len(s)) = i
      BY <1>1, <2>2
    <3>2. For(t[i - Len(s)], n, p)
      BY <1>1, <3>1
    <3> QED BY <3>1, <3>2 DEF Has
  <2> QED BY <2>1, <2>2
<1> QED BY <1>2, <1>3, <1>4 DEF u

LEMMA LastCat ==
  ASSUME NEW S, NEW s \in Seq(S), NEW t \in Seq(S), NEW n, NEW p,
         NEW i \in 1..Len(s \o t), Last(s \o t, i, n, p)
  PROVE  /\ Has(t, n, p) => \E j \in 1..Len(t) : (s \o t)[i] = t[j] /\ For(t[j], n, p)
         /\ ~Has(t, n, p) => i \in 1..Len(s) /\ (s \o t)[i] = s[i] /\ Last(s, i, n, p)
<1> DEFINE u == s \o t
<1>1. /\ Len(s) \in Nat /\ Len(t) \in Nat /\ Len(u) = Len(s) + Len(t)
      /\ \A k \in 1..Len(s) : u[k] = s[k]
      /\ \A k \in 1..Len(t) : u[Len(s) + k] = t[k]
  OBVIOUS
<1>2. i \in 1..Len(u) /\ For(u[i], n, p) /\ \A j \in 1..Len(u) : j > i => ~For(u[j], n, p)
  BY DEF Last
<1> HIDE DEF u
<1>3. ASSUME ~(i <= Len(s)) PROVE \E j \in 1..Len(t) : u[i] = t[j] /\ For(t[j], n, p)
  <2>1. i - Len(s) \in 1..Len(t) /\ Len(s) + (i - Len(s)) = i
    BY <1>1, <1>2, <1>3
  <2>2. u[i] = t[i - Len(s)] /\ For(t[i - Len(s)], n, p)
    BY <1>1, <1>2, <2>1
  <2> QED BY <2>1, <2>2
<1>4. ASSUME Has(t, n, p) PROVE ~(i <= Len(s))
  <2>1. PICK k \in 1..Len(t) : For(t[k], n, p)
    BY <1>4 DEF Has
  <2>2. Len(s) + k \in 1..Len(u) /\ For(u[Len(s) + k], n, p)
    BY <1>1, <2>1
  <2>3. ~(Len(s) + k > i)
    BY <1>2, <2>2
  <2> QED BY <1>1, <1>2, <2>3
<1>5. ASSUME ~Has(t, n, p) PROVE i \in 1..Len(s) /\ u[i] = s[i] /\ Last(s, i, n, p)
  <2>1. i <= Len(s)
    BY <1>3, <1>5 DEF Has
  <2>2. i \in 1..Len(s) /\ u[i] = s[i]
    BY <1>1, <1>2, <2>1
  <2>3. \A j \in 1..Len(s) : j > i => ~For(s[j], n, p)
    BY <1>1, <1>2
  <2> QED BY <1>2, <2>2, <2>3 DEF Last
<1> QED BY <1>3, <1>4, <1>5 DEF u

LEMMA AnnouncedBehind ==
  ASSUME NEW S, NEW s \in Seq(S), NEW t \in Seq(S), NEW n, NEW p, NEW a, Has(t, n, p),
         \A j \in 1..Len(t) : For(t[j], n, p) => Shown(n, t[j], a)
  PROVE  Announced(s \o t, a, n, p)
<1> DEFINE u == s \o t
<1>1. ASSUME NEW i \in 1..Len(u), Last(u, i, n, p)
      PROVE  \E j \in 1..Len(t) : u[i] = t[j] /\ For(t[j], n, p)
  BY <1>1, LastCat, SMT
<1> HIDE DEF u
<1>2. Announced(u, a, n, p)
  BY <1>1, Zenon DEF Announced
<1> QED BY <1>2 DEF u

LEMMA TailOf ==
  ASSUME NEW S, NEW s \in Seq(S), s # <<>>
  PROVE  /\ Len(s) \in Nat /\ 1 \in 1..Len(s) /\ Len(Tail(s)) = Len(s) - 1 /\ Head(s) = s[1]
         /\ \A j \in 1..Len(Tail(s)) : j + 1 \in 1..Len(s) /\ Tail(s)[j] = s[j + 1]
         /\ \A j \in 1..Len(s) : j # 1 => j - 1 \in 1..Len(Tail(s)) /\ Tail(s)[j - 1] = s[j]
<1>1. Len(s) \in Nat /\ 1 \in 1..Len(s) /\ Len(Tail(s)) = Len(s) - 1 /\ Head(s) = s[1]
  OBVIOUS
<1>2. \A j \in 1..(Len(s) - 1) : Tail(s)[j] = s[j + 1]
  OBVIOUS
<1> DEFINE L == Len(s)
           t == Tail(s)
<1>3. L \in Nat /\ Len(t) = L - 1 /\ \A j \in 1..(L - 1) : t[j] = s[j + 1]
  BY <1>1, <1>2
<1> HIDE DEF L, t
<1>4. \A j \in 1..Len(t) : j + 1 \in 1..L /\ t[j] = s[j + 1]
  BY <1>3
<1>5. ASSUME NEW j \in 1..L, j # 1 PROVE j - 1 \in 1..Len(t) /\ t[j - 1] = s[j]
  <2>1. j - 1 \in 1..(L - 1) /\ (j - 1) + 1 = j
    BY <1>3, <1>5
  <2> QED BY <1>3, <2>1
<1> QED BY <1>1, <1>4, <1>5 DEF L, t

\* Without its head a sequence has what it had, but for the head.
LEMMA HasTail ==
  ASSUME NEW S, NEW s \in Seq(S), s # <<>>, NEW n, NEW p
  PROVE  /\ Has(s, n, p) <=> For(Head(s), n, p) \/ Has(Tail(s), n, p)
         /\ ~Has(Tail(s), n, p) /\ For(Head(s), n, p) => Last(s, 1, n, p)
         /\ \A i \in 1..Len(Tail(s)) : Last(Tail(s), i, n, p) =>
               i + 1 \in 1..Len(s) /\ Tail(s)[i] = s[i + 1] /\ Last(s, i + 1, n, p)
<1> DEFINE t == Tail(s)
<1>1. /\ Len(s) \in Nat /\ 1 \in 1..Len(s) /\ Len(t) = Len(s) - 1 /\ Head(s) = s[1]
      /\ \A j \in 1..Len(t) : j + 1 \in 1..Len(s) /\ t[j] = s[j + 1]
      /\ \A j \in 1..Len(s) : j # 1 => j - 1 \in 1..Len(t) /\ t[j - 1] = s[j]
  BY TailOf
<1> HIDE DEF t
<1>2. Has(s, n, p) => For(Head(s), n, p) \/ Has(t, n, p)
  <2> SUFFICES ASSUME NEW j \in 1..Len(s), For(s[j], n, p), j # 1 PROVE Has(t, n, p)
    BY <1>1 DEF Has
  <2>1. j - 1 \in 1..Len(t) /\ For(t[j - 1], n, p)
    BY <1>1
  <2> QED BY <2>1 DEF Has
<1>3. For(Head(s), n, p) \/ Has(t, n, p) => Has(s, n, p)
  BY <1>1 DEF Has
<1>4. ~Has(t, n, p) /\ For(Head(s), n, p) => Last(s, 1, n, p)
  <2> SUFFICES ASSUME ~Has(t, n, p), For(Head(s), n, p), NEW j \in 1..Len(s), j > 1
               PROVE  ~For(s[j], n, p)
    BY <1>1 DEF Last
  <2>1. j - 1 \in 1..Len(t) /\ t[j - 1] = s[j]
    BY <1>1
  <2> QED BY <2>1 DEF Has
<1>5. ASSUME NEW i \in 1..Len(t), Last(t, i, n, p)
      PROVE  i + 1 \in 1..Len(s) /\ t[i] = s[i + 1] /\ Last(s, i + 1, n, p)
  <2>1. i + 1 \in 1..Len(s) /\ t[i] = s[i + 1]
    BY <1>1
  <2>2. ASSUME NEW j \in 1..Len(s), j > i + 1 PROVE ~For(s[j], n, p)
    <3>1. j # 1 /\ j - 1 > i
      BY <1>1, <2>2
    <3>2. j - 1 \in 1..Len(t) /\ t[j - 1] = s[j]
      BY <1>1, <3>1
    <3> QED BY <1>5, <3>1, <3>2 DEF Last
  <2>3. For(s[i + 1], n, p)
    BY <1>5, <2>1 DEF Last
  <2> QED BY <2>1, <2>2, <2>3 DEF Last
<1> QED BY <1>2, <1>3, <1>4, <1>5 DEF t

LEMMA NamesTail ==
  ASSUME NEW S, NEW q \in Seq(S), q # <<>>, NEW p
  PROVE  /\ Quiet(Tail(q), p) /\ Names(Head(q), p) => LastNames(q, 1, p)
         /\ Quiet(Tail(q), p) /\ ~Names(Head(q), p) => Quiet(q, p)
         /\ \A i \in 1..Len(Tail(q)) : LastNames(Tail(q), i, p) =>
               i + 1 \in 1..Len(q) /\ Tail(q)[i] = q[i + 1] /\ LastNames(q, i + 1, p)
<1> DEFINE t == Tail(q)
<1>1. /\ Len(q) \in Nat /\ 1 \in 1..Len(q) /\ Len(t) = Len(q) - 1 /\ Head(q) = q[1]
      /\ \A j \in 1..Len(t) : j + 1 \in 1..Len(q) /\ t[j] = q[j + 1]
      /\ \A j \in 1..Len(q) : j # 1 => j - 1 \in 1..Len(t) /\ t[j - 1] = q[j]
  BY TailOf
<1> HIDE DEF t
<1>2. Quiet(t, p) => \A j \in 1..Len(q) : j # 1 => ~Names(q[j], p)
  <2> SUFFICES ASSUME Quiet(t, p), NEW j \in 1..Len(q), j # 1 PROVE ~Names(q[j], p)
    OBVIOUS
  <2>1. j - 1 \in 1..Len(t) /\ t[j - 1] = q[j]
    BY <1>1
  <2> QED BY <2>1 DEF Quiet
<1>3. Quiet(t, p) /\ Names(Head(q), p) => LastNames(q, 1, p)
  BY <1>1, <1>2 DEF LastNames
<1>4. Quiet(t, p) /\ ~Names(Head(q), p) => Quiet(q, p)
  BY <1>1, <1>2 DEF Quiet
<1>5. ASSUME NEW i \in 1..Len(t), LastNames(t, i, p)
      PROVE  i + 1 \in 1..Len(q) /\ t[i] = q[i + 1] /\ LastNames(q, i + 1, p)
  <2>1. i + 1 \in 1..Len(q) /\ t[i] = q[i + 1]
    BY <1>1
  <2>2. ASSUME NEW j \in 1..Len(q), j > i + 1 PROVE ~Names(q[j], p)
    <3>1. j # 1 /\ j - 1 > i
      BY <1>1, <2>2
    <3>2. j - 1 \in 1..Len(t) /\ t[j - 1] = q[j]
      BY <1>1, <3>1
    <3> QED BY <1>5, <3>1, <3>2 DEF LastNames
  <2>3. Names(q[i + 1], p)
    BY <1>5, <2>1 DEF LastNames
  <2> QED BY <2>1, <2>2, <2>3 DEF LastNames
<1> QED BY <1>3, <1>4, <1>5 DEF t

\* Nothing of the prefix joins the queues.
LEMMA FlowApart ==
  ASSUME NEW S, NEW w \in Seq(S), NEW x \in Seq(S), NEW s \in Seq(S), NEW y \in Seq(S),
         NEW q, NEW t, NEW a, NEW n, NEW p,
         ~Has(x, n, p), ~Has(y, n, p), Due(w, s, t, a, n, p)
  PROVE  Due(w \o x, s \o y, t, a, n, p)
<1> DEFINE W == w \o x
           Z == s \o y
<1>1. Has(W, n, p) <=> Has(w, n, p)
  BY HasCat
<1>2. Has(Z, n, p) <=> Has(s, n, p)
  BY HasCat
<1>3. ASSUME NEW i \in 1..Len(Z), Last(Z, i, n, p)
      PROVE  i \in 1..Len(s) /\ Z[i] = s[i] /\ Last(s, i, n, p)
  BY <1>3, LastCat
<1> HIDE DEF W, Z
<1>4. Announced(s, a, n, p) => Announced(Z, a, n, p)
  BY <1>3, Zenon DEF Announced
<1>5. Due(W, Z, t, a, n, p)
  BY <1>1, <1>2, <1>4, Zenon DEF Due
<1> QED BY <1>5 DEF W, Z

\* The packet at the front is taken apart.
LEMMA FlowParse ==
  ASSUME NEW n \in Neighbor, NEW G, NEW q \in Seq(G), q # <<>>,
         NEW S, NEW w \in Seq(S), NEW x \in Seq(S), NEW s \in Seq(S), NEW y \in Seq(S),
         NEW t, NEW a, NEW p, NEW c,
         \A i \in 1..Len(q) : \E m \in Message[n] : Clean(m) /\ q[i] = Encode(m),
         c = proc_in_q_packet(Head(q)),
         x = Tagged(c.withdraw, n, c.attributes), y = Tagged(c.update, n, c.attributes),
         Has(y, n, p) => ~Has(w, n, p),
         Flow(q, w, s, t, a, n, p)
  PROVE  Flow(Tail(q), w \o x, s \o y, t, a, n, p)
<1> DEFINE T == Tail(q)
           W == w \o x
           Z == s \o y
<1>0. /\ Quiet(T, p) /\ Names(Head(q), p) => LastNames(q, 1, p)
      /\ Quiet(T, p) /\ ~Names(Head(q), p) => Quiet(q, p)
      /\ \A i \in 1..Len(T) : LastNames(T, i, p) =>
            i + 1 \in 1..Len(q) /\ T[i] = q[i + 1] /\ LastNames(q, i + 1, p)
  BY NamesTail
<1>1. Owed(T, a, n, p)
  <2>1. Owed(q, a, n, p)
    BY Zenon DEF Flow
  <2> HIDE DEF T
  <2> SUFFICES ASSUME NEW i \in 1..Len(T), LastNames(T, i, p)
               PROVE  \E k \in Message[n] : Clean(k) /\ T[i] = Encode(k) /\ a = Says(k, p)
    BY DEF Owed
  <2>2. i + 1 \in 1..Len(q) /\ T[i] = q[i + 1] /\ LastNames(q, i + 1, p)
    BY <1>0
  <2> QED BY <2>1, <2>2, Zenon DEF Owed
<1>2. Head(q) = q[1] /\ 1 \in 1..Len(q)
  BY TailOf
<1>3. PICK m0 \in Message[n] : Clean(m0) /\ Head(q) = Encode(m0)
  BY <1>2, Zenon
<1>4. Parsed(m0) = c /\ c.withdraw = m0.withdraw /\ c.update = m0.update
  BY <1>3, CleanParsed, Zenon DEF Parsed
<1>5. Names(Head(q), p) <=> \E r \in Members(c.withdraw) \cup Members(c.update) : r.prefix = p
  BY Zenon DEF Names
<1>6. Len(m0.withdraw) \in Nat /\ Len(m0.update) \in Nat
  BY MessageAssumption
<1>a. /\ Len(x) = Len(c.withdraw)
      /\ \A j \in 1..Len(c.withdraw) : x[j].route = c.withdraw[j] /\ x[j].id = n
  <2>1. Len(c.withdraw) \in Nat
    BY <1>4, <1>6
  <2> QED BY <2>1, TaggedAll
<1>b. /\ Len(y) = Len(c.update)
      /\ \A j \in 1..Len(c.update) : /\ y[j].route = c.update[j] /\ y[j].id = n
                                     /\ y[j].attributes = assign(c.attributes)
  <2>1. Len(c.update) \in Nat
    BY <1>4, <1>6
  <2> QED BY <2>1, TaggedAll
<1>7. ASSUME NEW j \in 1..Len(x) PROVE x[j].route \in Members(c.withdraw) /\ x[j].id = n
  <2>1. /\ j \in 1..Len(c.withdraw) /\ x[j].route = c.withdraw[j] /\ x[j].id = n
    BY <1>a, Zenon
  <2> QED BY <2>1, Zenon DEF Members
<1>8. ASSUME NEW j \in 1..Len(y)
      PROVE  /\ y[j].route \in Members(c.update) /\ y[j].id = n
             /\ y[j].attributes = assign(c.attributes)
  <2>1. /\ j \in 1..Len(c.update)
        /\ y[j].route = c.update[j] /\ y[j].id = n /\ y[j].attributes = assign(c.attributes)
    BY <1>b, Zenon
  <2> QED BY <2>1, Zenon DEF Members
<1>9. CASE ~Names(Head(q), p)
  <2>1. ~Has(x, n, p)
    BY <1>5, <1>7, <1>9, Zenon DEF Has, For
  <2>2. ~Has(y, n, p)
    BY <1>5, <1>8, <1>9, Zenon DEF Has, For
  <2>3. Quiet(T, p) => Due(w, s, t, a, n, p)
    BY <1>0, <1>9, Zenon DEF Flow
  <2>4. Quiet(T, p) => Due(W, Z, t, a, n, p)
    BY <2>1, <2>2, <2>3, FlowApart
  <2> QED BY <1>1, <2>4, Zenon DEF Flow
<1>10. CASE Names(Head(q), p)
  <2> SUFFICES ASSUME Quiet(T, p) PROVE Due(W, Z, t, a, n, p)
    BY <1>1, Zenon DEF Flow
  <2>1. LastNames(q, 1, p)
    BY <1>0, <1>10
  <2>2. PICK m \in Message[n] : Clean(m) /\ q[1] = Encode(m) /\ a = Says(m, p)
    BY <1>2, <2>1, Zenon DEF Flow, Owed
  <2>3. Parsed(m) = c /\ c.withdraw = m.withdraw /\ c.update = m.update
    BY <1>2, <2>2, CleanParsed, Zenon DEF Parsed
  <2>4. /\ Len(m.withdraw) \in Nat /\ Len(m.update) \in Nat
        /\ m.withdraw \in Seq(Route) /\ m.update \in Seq(Route)
    BY MessageAssumption
  <2>5. CASE \E r \in Members(c.withdraw) : r.prefix = p
    <3>1. PICK j \in 1..Len(c.withdraw) : c.withdraw[j].prefix = p
      BY <2>5 DEF Members
    <3>2. j \in 1..Len(x) /\ For(x[j], n, p)
      <4>1. Len(x) = Len(c.withdraw)
        BY DEF Tagged
      <4>2. x[j].route = c.withdraw[j] /\ x[j].id = n
        BY <1>a, Zenon
      <4> QED BY <3>1, <4>1, <4>2 DEF For
    <3>3. Has(W, n, p)
      <4>1. Has(x, n, p)
        BY <3>2 DEF Has
      <4> QED BY <4>1, HasCat
    <3>4. m.update = <<>>
      <4>1. m.withdraw # <<>>
        BY <2>3, <3>1
      <4> QED BY <2>2, <4>1, Zenon DEF Clean
    <3>5. a = {}
      BY <2>2, <3>4 DEF Says, Members
    <3> HIDE DEF W, Z
    <3> QED BY <3>3, <3>5, Zenon DEF Due
  <2>6. CASE \E r \in Members(c.update) : r.prefix = p
    <3>1. PICK j \in 1..Len(c.update) : c.update[j].prefix = p
      BY <2>6 DEF Members
    <3>2. j \in 1..Len(y) /\ For(y[j], n, p)
      <4>1. Len(y) = Len(c.update)
        BY DEF Tagged
      <4>2. y[j].route = c.update[j] /\ y[j].id = n
        BY <1>b, Zenon
      <4> QED BY <3>1, <4>1, <4>2 DEF For
    <3>3. Has(y, n, p)
      BY <3>2 DEF Has
    <3>4. m.withdraw = <<>>
      <4>1. m.update # <<>>
        BY <2>3, <3>1
      <4> QED BY <2>2, <4>1, Zenon DEF Clean
    <3>5. ~Has(W, n, p)
      <4>1. ~Has(x, n, p)
        <5>1. Members(c.withdraw) = {}
          BY <2>3, <3>4 DEF Members
        <5> QED BY <1>7, <5>1, Zenon DEF Has
      <4> QED BY <3>3, <4>1, HasCat
    <3>6. ASSUME NEW e, e.route \in Members(m.update), e.route.prefix = p,
                 e.attributes = assign(Parsed(m).attributes)
          PROVE  Shown(n, e, a)
      <4>1. \A r \in Members(m.update) : r.prefix = p => r = e.route
        BY <2>2, <3>6, Zenon DEF Clean, Named
      <4>2. Says(m, p) = {Record(e.route, m)}
        BY <3>6, <4>1, Zenon DEF Says
      <4> QED BY <2>2, <3>6, <4>2, Zenon DEF Shown
    <3>7. Announced(Z, a, n, p)
      <4>1. ASSUME NEW k \in 1..Len(y), For(y[k], n, p) PROVE Shown(n, y[k], a)
        <5>1. /\ y[k].route \in Members(m.update) /\ y[k].route.prefix = p
              /\ y[k].attributes = assign(Parsed(m).attributes)
          BY <1>8, <2>3, <4>1, Zenon DEF For
        <5> QED BY <3>6, <5>1
      <4> QED BY <3>3, <4>1, AnnouncedBehind
    <3>8. Has(Z, n, p)
      BY <3>3, HasCat
    <3> HIDE DEF W, Z
    <3> QED BY <3>5, <3>7, <3>8, Zenon DEF Due
  <2> QED BY <1>5, <1>10, <2>5, <2>6, Zenon
<1> QED BY <1>9, <1>10

\* The announcement at the front is stored.
LEMMA DueEntry ==
  ASSUME NEW S, NEW s \in Seq(S), s # <<>>, NEW w, NEW t, NEW t2, NEW a, NEW n, NEW p,
         t2
           = [k \in DOMAIN t \cup {KeyOf(Head(s))} |-> IF k
             = KeyOf(Head(s)) THEN Head(s) ELSE t[k]],
         Due(w, s, t, a, n, p)
  PROVE  Due(w, Tail(s), t2, a, n, p)
<1> DEFINE T == Tail(s)
           h == Head(s)
<1>1. /\ Has(s, n, p) <=> For(h, n, p) \/ Has(T, n, p)
      /\ ~Has(T, n, p) /\ For(h, n, p) => Last(s, 1, n, p)
      /\ \A i \in 1..Len(T) : Last(T, i, n, p) =>
            i + 1 \in 1..Len(s) /\ T[i] = s[i + 1] /\ Last(s, i + 1, n, p)
  BY HasTail
<1>2. h = s[1] /\ 1 \in 1..Len(s)
  BY TailOf
<1> HIDE DEF T, h
<1>3. Announced(s, a, n, p) => Announced(T, a, n, p)
  BY <1>1, Zenon DEF Announced
<1>4. For(h, n, p) <=> KeyOf(h) = <<p, n>>
  BY DEF For, KeyOf
<1>5. CASE For(h, n, p)
  <2>1. <<p, n>> \in DOMAIN t2 /\ t2[<<p, n>>] = h
    BY <1>4, <1>5 DEF h
  <2>2. ~Has(T, n, p) /\ Announced(s, a, n, p) => Shown(n, h, a)
    BY <1>1, <1>2, <1>5, Zenon DEF Announced
  <2>3. ~Has(w, n, p) /\ ~Has(T, n, p) => Stored(t2, a, n, p)
    BY <2>1, <2>2, Zenon DEF Stored, Due
  <2>4. Due(w, T, t2, a, n, p)
    BY <1>3, <2>3, Zenon DEF Due
  <2> QED BY <2>4 DEF T
<1>6. CASE ~For(h, n, p)
  <2>1. <<p, n>> \in DOMAIN t2 <=> <<p, n>> \in DOMAIN t
    BY <1>4, <1>6 DEF h
  <2>2. <<p, n>> \in DOMAIN t => t2[<<p, n>>] = t[<<p, n>>]
    BY <1>4, <1>6 DEF h
  <2>3. Stored(t, a, n, p) => Stored(t2, a, n, p)
    BY <2>1, <2>2, Zenon DEF Stored
  <2>4. Due(w, T, t2, a, n, p)
    BY <1>1, <1>3, <1>6, <2>3, Zenon DEF Due
  <2> QED BY <2>4 DEF T
<1> QED BY <1>5, <1>6

\* The withdrawal at the front takes its key out, with no announcement waiting.
LEMMA DueWithdraw ==
  ASSUME NEW S, NEW w \in Seq(S), w # <<>>, NEW t, NEW t2, NEW a, NEW n, NEW p,
         t2 = [k \in DOMAIN t \ {KeyOf(Head(w))} |-> t[k]],
         Due(w, <<>>, t, a, n, p)
  PROVE  Due(Tail(w), <<>>, t2, a, n, p)
<1> DEFINE T == Tail(w)
           h == Head(w)
<1>1. Has(w, n, p) <=> For(h, n, p) \/ Has(T, n, p)
  BY HasTail
<1> HIDE DEF T, h
<1>2. Announced(<<>>, a, n, p) /\ ~Has(<<>>, n, p)
  BY DEF Announced, Has
<1>3. For(h, n, p) <=> KeyOf(h) = <<p, n>>
  BY DEF For, KeyOf
<1>4. CASE For(h, n, p)
  <2>1. <<p, n>> \notin DOMAIN t2
    BY <1>3, <1>4 DEF h
  <2>2. a = {}
    BY <1>1, <1>4, Zenon DEF Due
  <2>3. Due(T, <<>>, t2, a, n, p)
    BY <1>2, <2>1, <2>2, Zenon DEF Due, Stored
  <2> QED BY <2>3 DEF T
<1>5. CASE ~For(h, n, p)
  <2>1. <<p, n>> \in DOMAIN t2 <=> <<p, n>> \in DOMAIN t
    BY <1>3, <1>5 DEF h
  <2>2. <<p, n>> \in DOMAIN t => t2[<<p, n>>] = t[<<p, n>>]
    BY <1>3, <1>5 DEF h
  <2>3. Stored(t, a, n, p) => Stored(t2, a, n, p)
    BY <2>1, <2>2, Zenon DEF Stored
  <2>4. Due(T, <<>>, t2, a, n, p)
    BY <1>1, <1>2, <1>5, <2>3, Zenon DEF Due
  <2> QED BY <2>4 DEF T
<1> QED BY <1>4, <1>5

\* A flush takes another neighbour's key out.
LEMMA DueFlush ==
  ASSUME NEW w, NEW s, NEW t, NEW t2, NEW a, NEW n, NEW p, NEW j, j # <<p, n>>,
         t2 = [k \in DOMAIN t \ {j} |-> t[k]],
         Due(w, s, t, a, n, p)
  PROVE  Due(w, s, t2, a, n, p)
<1>1. <<p, n>> \in DOMAIN t2 <=> <<p, n>> \in DOMAIN t
  OBVIOUS
<1>2. <<p, n>> \in DOMAIN t => t2[<<p, n>>] = t[<<p, n>>]
  OBVIOUS
<1>3. Stored(t, a, n, p) => Stored(t2, a, n, p)
  BY <1>1, <1>2, Zenon DEF Stored
<1> QED BY <1>3, Zenon DEF Due

-----------------------------------------------------------------------------
(* A neighbour's share of the invariant.                                   *)

Of(adv, p) == {r \in adv : r.route.prefix = p}
NoneOf(s, n) == \A j \in 1..Len(s) : s[j].id # n

\* Its packets, withdrawals, announcements, the table, what it advertises and
\* where its thread is agree: nothing is on its way while it flushes, else the
\* advertisements of every prefix are what is on its way.
Agree(n, q, w, s, t, adv, f) ==
    /\ \A j \in 1..Len(q) : \E m \in Message[n] : Clean(m) /\ q[j] = Encode(m)
    /\ f # "no" => adv = {} /\ q = <<>> /\ NoneOf(w, n) /\ NoneOf(s, n)
    /\ f = "no" => \A p \in Prefix : Flow(q, w, s, t, Of(adv, p), n, p)

LEMMA NoneHas ==
  ASSUME NEW s, NEW n, NoneOf(s, n), NEW p
  PROVE  ~Has(s, n, p)
  BY Zenon DEF NoneOf, Has, For

\* A message that is not odd for the table.
LEMMA CleanMessage ==
  ASSUME NEW n \in Neighbor, NEW m \in Message[n], OddMessage(n, m) \cap Diverging = {},
         \A r \in advertised[n] : r.route \in Route
  PROVE  /\ Clean(m)
         /\ \A r \in Named(m), s \in advertised[n] : r.prefix = s.route.prefix => r = s.route
<1> DEFINE named == Members(m.withdraw) \cup Members(m.update)
           held == named \cup {r.route : r \in advertised[n]}
           D == When(\E r \in named : r.length = 0, "default")
           M == When(m.withdraw # <<>> /\ m.update # <<>>, "mixed")
           O == When(\E r \in named, s \in held : r.prefix = s.prefix
             /\ r.length # s.length, "overlap")
           X == When(m.update # <<>> /\ m.extended, "extended")
           N == When(m.update # <<>> /\ m.attributes.as_path = Null, "own")
           G == When(m.update # <<>> /\ BadOrigin(m.attributes), "origin")
           J == When(m.update # <<>> /\ JsonFaults(m.attributes), "as4")
<1>1. OddMessage(n, m) = D \cup M \cup O \cup X \cup N \cup G \cup J
  BY Zenon DEF OddMessage
<1> HIDE DEF X, N, G, J
<1>2. "default" \notin D /\ "mixed" \notin M /\ "overlap" \notin O
  <2> HIDE DEF D, M, O
  <2> QED BY <1>1 DEF Diverging
<1>3. \A r \in named : r.length # 0
  BY <1>2 DEF When
<1>4. m.withdraw = <<>> \/ m.update = <<>>
  BY <1>2 DEF When
<1>5. \A r \in named, s \in held : r.prefix = s.prefix => r.length = s.length
  BY <1>2 DEF When
<1>6. named \subseteq Route /\ held \subseteq Route
  BY RoutesOf
<1>7. ASSUME NEW r \in named, NEW s \in held, r.prefix = s.prefix PROVE r = s
  <2>1. r.length = s.length
    BY <1>5, <1>7
  <2>2. r = [prefix |-> r.prefix, length |-> r.length]
          /\ s = [prefix |-> s.prefix, length |-> s.length]
    BY <1>6, RouteType
  <2> QED BY <1>7, <2>1, <2>2
<1>8. Clean(m)
  BY <1>3, <1>4, <1>7, Zenon DEF Clean, Named
<1>9. \A r \in Named(m), s \in advertised[n] : r.prefix = s.route.prefix => r = s.route
  BY <1>7 DEF Named
<1> QED BY <1>8, <1>9

\* What a neighbour advertises of a prefix after a message: what the message
\* says of it, if it names it.
LEMMA OfMessage ==
  ASSUME NEW m, NEW adv, NEW p,
         \A r \in Named(m), s \in adv : r.prefix = s.route.prefix => r = s.route
  PROVE  /\ (\E r \in Named(m) : r.prefix = p) => Of(AfterMessage(adv, m), p) = Says(m, p)
         /\ ~(\E r \in Named(m) : r.prefix = p) => Of(AfterMessage(adv, m), p) = Of(adv, p)
<1> DEFINE A == AfterMessage(adv, m)
<1>1. \A r : r \in A <=> \/ r \in adv /\ r.route \notin Named(m)
                         \/ \E s \in Members(m.update) : r = Record(s, m)
  BY DEF AfterMessage, Named, Record
<1>2. \A r : r \in Says(m, p) <=> \E s \in Members(m.update) : s.prefix = p /\ r = Record(s, m)
  BY DEF Says
<1>3. \A s : Record(s, m).route = s
  BY DEF Record
<1>4. Members(m.update) \subseteq Named(m)
  BY DEF Named
<1> HIDE DEF A
<1>5. ASSUME NEW r0 \in Named(m), r0.prefix = p PROVE Of(A, p) = Says(m, p)
  <2>1. ASSUME NEW r \in A, r.route.prefix = p PROVE r \in Says(m, p)
    <3>1. CASE r \in adv /\ r.route \notin Named(m)
      BY <1>5, <2>1, <3>1
    <3>2. CASE \E s \in Members(m.update) : r = Record(s, m)
      BY <1>2, <1>3, <2>1, <3>2
    <3> QED BY <1>1, <3>1, <3>2
  <2>2. ASSUME NEW r \in Says(m, p) PROVE r \in A /\ r.route.prefix = p
    BY <1>1, <1>2, <1>3, <2>2
  <2> QED BY <2>1, <2>2 DEF Of
<1>6. ASSUME \A r \in Named(m) : r.prefix # p PROVE Of(A, p) = Of(adv, p)
  <2>1. ASSUME NEW r \in A, r.route.prefix = p PROVE r \in adv
    BY <1>1, <1>3, <1>4, <1>6, <2>1
  <2>2. ASSUME NEW r \in adv, r.route.prefix = p PROVE r \in A
    BY <1>1, <1>6, <2>2
  <2> QED BY <2>1, <2>2 DEF Of
<1> QED BY <1>5, <1>6 DEF A

LEMMA AgreeReceive ==
  ASSUME NEW n \in Neighbor, NEW m \in Message[n], NEW q \in Seq(Packets(n)),
         NEW w, NEW s, NEW t, NEW adv, Agree(n, q, w, s, t, adv, "no"), Clean(m),
         \A r \in Named(m), s2 \in adv : r.prefix = s2.route.prefix => r = s2.route
  PROVE  Agree(n, Append(q, Encode(m)), w, s, t, AfterMessage(adv, m), "no")
<1> DEFINE Q == Append(q, Encode(m))
           A == AfterMessage(adv, m)
<1>1. Encode(m) \in Packets(n)
  BY DEF Packets
<1>2. ASSUME NEW p \in Prefix PROVE Flow(Q, w, s, t, Of(A, p), n, p)
  <2>1. Flow(q, w, s, t, Of(adv, p), n, p)
    BY Zenon DEF Agree
  <2>2. /\ (\E r \in Named(m) : r.prefix = p) => Of(A, p) = Says(m, p)
        /\ ~(\E r \in Named(m) : r.prefix = p) => Of(A, p) = Of(adv, p)
    BY OfMessage
  <2> HIDE DEF A
  <2> QED BY <1>1, <2>1, <2>2, FlowReceive
<1>3. ASSUME NEW j \in 1..Len(Q) PROVE \E k \in Message[n] : Clean(k) /\ Q[j] = Encode(k)
  <2>1. \A i \in 1..Len(q) : \E k \in Message[n] : Clean(k) /\ q[i] = Encode(k)
    BY Zenon DEF Agree
  <2> DEFINE g == Encode(m)
  <2> HIDE DEF g
  <2>2. /\ Len(q) \in Nat /\ Len(Append(q, g)) = Len(q) + 1 /\ Append(q, g)[Len(q) + 1] = g
        /\ \A i \in 1..Len(q) : Append(q, g)[i] = q[i]
    OBVIOUS
  <2>3. CASE j = Len(q) + 1
    BY <2>2, <2>3 DEF g
  <2>4. CASE j # Len(q) + 1
    <3>1. j \in 1..Len(q) /\ Q[j] = q[j]
      BY <2>2, <2>4 DEF g
    <3> QED BY <2>1, <3>1, Zenon
  <2> QED BY <2>3, <2>4
<1> HIDE DEF Q, A
<1>4. Agree(n, Q, w, s, t, A, "no")
  BY <1>2, <1>3, Zenon DEF Agree
<1> QED BY <1>4 DEF Q, A

\* Entries of another neighbour join the queues.
LEMMA NoneCat ==
  ASSUME NEW S, NEW s \in Seq(S), NEW x \in Seq(S), NEW n, NoneOf(s, n), NoneOf(x, n)
  PROVE  NoneOf(s \o x, n)
<1> DEFINE u == s \o x
<1>1. /\ Len(s) \in Nat /\ Len(x) \in Nat /\ Len(u) = Len(s) + Len(x)
      /\ \A i \in 1..Len(s) : u[i] = s[i]
      /\ \A i \in 1..Len(x) : u[Len(s) + i] = x[i]
  OBVIOUS
<1> HIDE DEF u
<1>2. ASSUME NEW i \in 1..Len(u) PROVE u[i].id # n
  <2>1. CASE i <= Len(s)
    BY <1>1, <2>1 DEF NoneOf
  <2>2. CASE ~(i <= Len(s))
    <3>1. i - Len(s) \in 1..Len(x) /\ Len(s) + (i - Len(s)) = i
      BY <1>1, <2>2
    <3>2. u[i] = x[i - Len(s)]
      BY <1>1, <3>1
    <3> QED BY <3>1, <3>2 DEF NoneOf
  <2> QED BY <2>1, <2>2
<1> QED BY <1>2 DEF NoneOf, u

LEMMA NoneTail ==
  ASSUME NEW S, NEW s \in Seq(S), s # <<>>, NEW n, NoneOf(s, n)
  PROVE  NoneOf(Tail(s), n)
<1>1. \A j \in 1..Len(Tail(s)) : j + 1 \in 1..Len(s) /\ Tail(s)[j] = s[j + 1]
  BY TailOf
<1> QED BY <1>1, Zenon DEF NoneOf

LEMMA AgreeApart ==
  ASSUME NEW S, NEW w \in Seq(S), NEW x \in Seq(S), NEW s \in Seq(S), NEW y \in Seq(S),
         NEW n, NEW q, NEW t, NEW adv, NEW f,
         NoneOf(x, n), NoneOf(y, n), Agree(n, q, w, s, t, adv, f)
  PROVE  Agree(n, q, w \o x, s \o y, t, adv, f)
<1>1. f # "no" => NoneOf(w \o x, n) /\ NoneOf(s \o y, n)
  BY NoneCat DEF Agree
<1>2. ASSUME NEW p \in Prefix, Flow(q, w, s, t, Of(adv, p), n, p)
      PROVE  Flow(q, w \o x, s \o y, t, Of(adv, p), n, p)
  <2>1. ~Has(x, n, p) /\ ~Has(y, n, p)
    BY NoneHas
  <2>2. Due(w, s, t, Of(adv, p), n, p) => Due(w \o x, s \o y, t, Of(adv, p), n, p)
    BY <2>1, FlowApart
  <2> QED BY <1>2, <2>2, Zenon DEF Flow
<1> QED BY <1>1, <1>2, Zenon DEF Agree

\* The main thread takes the neighbour's packet apart.
LEMMA AgreeParse ==
  ASSUME NEW n \in Neighbor, NEW q \in Seq(Packets(n)), q # <<>>,
         NEW S, NEW w \in Seq(S), NEW x \in Seq(S), NEW s \in Seq(S), NEW y \in Seq(S),
         NEW t, NEW adv, NEW f, NEW c,
         c = proc_in_q_packet(Head(q)),
         x = Tagged(c.withdraw, n, c.attributes), y = Tagged(c.update, n, c.attributes),
         \A u \in Members(y), v \in Members(w) : ~(u.route.prefix = v.route.prefix /\ v.id = n),
         Agree(n, q, w, s, t, adv, f)
  PROVE  Agree(n, Tail(q), w \o x, s \o y, t, adv, f)
<1>1. f = "no"
  BY DEF Agree
<1>2. \A i \in 1..Len(q) : \E m \in Message[n] : Clean(m) /\ q[i] = Encode(m)
  BY Zenon DEF Agree
<1>3. ASSUME NEW p \in Prefix
      PROVE  Flow(Tail(q), w \o x, s \o y, t, Of(adv, p), n, p)
  <2>1. Flow(q, w, s, t, Of(adv, p), n, p)
    BY <1>1, Zenon DEF Agree
  <2>2. Has(y, n, p) => ~Has(w, n, p)
    <3> SUFFICES ASSUME NEW i \in 1..Len(y), For(y[i], n, p), NEW j \in 1..Len(w), For(w[j], n, p)
                 PROVE  FALSE
      BY Zenon DEF Has
    <3>1. y[i] \in Members(y) /\ w[j] \in Members(w)
      BY DEF Members
    <3> QED BY <3>1, Zenon DEF For
  <2> QED BY <1>2, <2>1, <2>2, FlowParse
<1>4. \A i \in 1..Len(Tail(q)) : i + 1 \in 1..Len(q) /\ Tail(q)[i] = q[i + 1]
  BY TailOf
<1>5. \A i \in 1..Len(Tail(q)) : \E m \in Message[n] : Clean(m) /\ Tail(q)[i] = Encode(m)
  BY <1>2, <1>4, Zenon
<1> QED BY <1>1, <1>3, <1>5, Zenon DEF Agree

LEMMA AgreeEntry ==
  ASSUME NEW S, NEW s \in Seq(S), s # <<>>, NEW n, NEW q, NEW w, NEW t, NEW t2, NEW adv, NEW f,
         t2
           = [k \in DOMAIN t \cup {KeyOf(Head(s))} |-> IF k
             = KeyOf(Head(s)) THEN Head(s) ELSE t[k]],
         Agree(n, q, w, s, t, adv, f)
  PROVE  Agree(n, q, w, Tail(s), t2, adv, f)
<1>1. f # "no" => NoneOf(Tail(s), n)
  BY NoneTail DEF Agree
<1>2. ASSUME NEW p \in Prefix, Flow(q, w, s, t, Of(adv, p), n, p)
      PROVE  Flow(q, w, Tail(s), t2, Of(adv, p), n, p)
  <2>1. Due(w, s, t, Of(adv, p), n, p) => Due(w, Tail(s), t2, Of(adv, p), n, p)
    BY DueEntry
  <2> QED BY <1>2, <2>1, Zenon DEF Flow
<1> QED BY <1>1, <1>2, Zenon DEF Agree

LEMMA AgreeWithdraw ==
  ASSUME NEW S, NEW w \in Seq(S), w # <<>>, NEW n, NEW q, NEW t, NEW t2, NEW adv, NEW f,
         t2 = [k \in DOMAIN t \ {KeyOf(Head(w))} |-> t[k]],
         Agree(n, q, w, <<>>, t, adv, f)
  PROVE  Agree(n, q, Tail(w), <<>>, t2, adv, f)
<1>1. f # "no" => NoneOf(Tail(w), n)
  BY NoneTail DEF Agree
<1>2. ASSUME NEW p \in Prefix, Flow(q, w, <<>>, t, Of(adv, p), n, p)
      PROVE  Flow(q, Tail(w), <<>>, t2, Of(adv, p), n, p)
  <2>1. Due(w, <<>>, t, Of(adv, p), n, p) => Due(Tail(w), <<>>, t2, Of(adv, p), n, p)
    BY DueWithdraw
  <2> QED BY <1>2, <2>1, Zenon DEF Flow
<1> QED BY <1>1, <1>2, Zenon DEF Agree

\* Another neighbour's thread erases one of its routes.
LEMMA AgreeErase ==
  ASSUME NEW n, NEW q, NEW w, NEW s, NEW t, NEW t2, NEW adv, NEW f, NEW j, j[2] # n,
         t2 = [k \in DOMAIN t \ {j} |-> t[k]],
         Agree(n, q, w, s, t, adv, f)
  PROVE  Agree(n, q, w, s, t2, adv, f)
<1>1. ASSUME NEW p \in Prefix, Flow(q, w, s, t, Of(adv, p), n, p)
      PROVE  Flow(q, w, s, t2, Of(adv, p), n, p)
  <2>0. j # <<p, n>>
    OBVIOUS
  <2>1. Due(w, s, t, Of(adv, p), n, p) => Due(w, s, t2, Of(adv, p), n, p)
    BY <2>0, DueFlush
  <2> QED BY <1>1, <2>1, Zenon DEF Flow
<1> QED BY <1>1, Zenon DEF Agree

\* It has no route left, and nothing on its way.
LEMMA AgreeFlushed ==
  ASSUME NEW n, NEW q, NEW w, NEW s, NEW t, NEW adv, NEW f, f # "no",
         \A k \in DOMAIN t : k[2] # n,
         Agree(n, q, w, s, t, adv, f)
  PROVE  Agree(n, <<>>, w, s, t, adv, "no")
<1>1. adv = {} /\ NoneOf(w, n) /\ NoneOf(s, n)
  BY DEF Agree
<1>2. ASSUME NEW p \in Prefix PROVE Flow(<<>>, w, s, t, Of(adv, p), n, p)
  <2>1. ~Has(w, n, p) /\ ~Has(s, n, p)
    BY <1>1, NoneHas
  <2>2. Of(adv, p) = {}
    BY <1>1 DEF Of
  <2>3. <<p, n>> \notin DOMAIN t
    OBVIOUS
  <2>4. Announced(s, Of(adv, p), n, p)
    BY <2>1, Zenon DEF Announced, Has, Last
  <2>5. Owed(<<>>, Of(adv, p), n, p)
    BY DEF Owed
  <2> QED BY <2>1, <2>2, <2>3, <2>4, <2>5, Zenon DEF Flow, Due, Stored
<1> QED BY <1>2 DEF Agree

-----------------------------------------------------------------------------
(* Every step keeps the neighbours' shares.                                *)

\* No announcement waits while withdrawals are applied.
EmptyInv == mpc \in {"wdraw", "erase"} => adj_rib_in_q = <<>>

Share(n) == Agree(n, in_queue[n], adj_rib_in_wdraw_q, adj_rib_in_q, adj_rib_in,
                  advertised[n], flush[n])
ShareInv == odd \cap Diverging = {} => \A n \in Neighbor : Share(n)

LEMMA EmptyNext == IInv /\ EmptyInv /\ [Next]_vars => EmptyInv'
<1> SUFFICES ASSUME IInv, EmptyInv, [Next]_vars PROVE EmptyInv'
  OBVIOUS
<1>1. CASE mpc' \notin {"wdraw", "erase"}
  BY <1>1 DEF EmptyInv
<1>2. ASSUME UNCHANGED <<mpc, adj_rib_in_q>> PROVE EmptyInv'
  BY <1>2 DEF EmptyInv
<1>3. ASSUME NEW n \in Neighbor, NEW m \in Message[n], Receive(n, m) PROVE EmptyInv'
  BY <1>2, <1>3 DEF Receive
<1>4. ASSUME NEW n \in Neighbor,
             SessionDown(n) \/ FlushErase(n) \/ FlushLoad(n) \/ FlushStore(n) \/ FlushDone(n)
      PROVE  EmptyInv'
  BY <1>2, <1>4 DEF SessionDown, FlushErase, FlushLoad, FlushStore, FlushDone, queueVars
<1>5. ASSUME NEW n \in Neighbor, Parse(n) PROVE EmptyInv'
  <2>1. mpc' = "parse"
    BY <1>5 DEF Parse
  <2> QED BY <1>1, <2>1
<1>6. ASSUME ParseDone \/ WdrawQueueDone \/ PeerEntryBegin \/ PeerEntry PROVE EmptyInv'
  BY <1>1, <1>6 DEF ParseDone, WdrawQueueDone, PeerEntryBegin, PeerEntry, LoadCount
<1>7. ASSUME RibQueueDone PROVE EmptyInv'
  BY <1>7 DEF RibQueueDone, EmptyInv, queueVars
<1>8. ASSUME WithdrawBegin PROVE EmptyInv'
  BY <1>8 DEF WithdrawBegin, LoadCount, EmptyInv, queueVars
<1>9. ASSUME Withdraw PROVE EmptyInv'
  BY <1>9 DEF Withdraw, EmptyInv
<1>10. ASSUME Failing \/ UNCHANGED vars PROVE EmptyInv'
  BY <1>2, <1>10, FailingIs DEF vars, queueVars
<1> QED BY <1>3, <1>4, <1>5, <1>6, <1>7, <1>8, <1>9, <1>10 DEF Next, MainStep, PeerStep, Failing

\* What has happened stays happened.
LEMMA OddGrows == IInv /\ [Next]_vars => odd \subseteq odd'
<1> SUFFICES ASSUME IInv, [Next]_vars PROVE odd \subseteq odd'
  OBVIOUS
<1>1. ASSUME NEW n \in Neighbor, NEW m \in Message[n], Receive(n, m) PROVE odd \subseteq odd'
  BY <1>1, Zenon DEF Receive
<1>2. ASSUME NEW n \in Neighbor,
             SessionDown(n) \/ FlushErase(n) \/ FlushLoad(n) \/ FlushStore(n) \/ FlushDone(n)
      PROVE  odd \subseteq odd'
  BY <1>2 DEF SessionDown, FlushErase, FlushLoad, FlushStore, FlushDone
<1>3. ASSUME NEW n \in Neighbor, Parse(n) PROVE odd \subseteq odd'
  BY <1>3, Zenon DEF Parse
<1>4. ASSUME PeerEntry \/ Withdraw PROVE odd \subseteq odd'
  BY <1>4, Zenon DEF PeerEntry, Withdraw, StoreCount
<1>5. ASSUME ParseDone \/ RibQueueDone \/ WdrawQueueDone \/ PeerEntryBegin \/ WithdrawBegin
      PROVE  odd \subseteq odd'
  BY <1>5 DEF ParseDone, RibQueueDone, WdrawQueueDone, PeerEntryBegin, WithdrawBegin, LoadCount
<1>6. ASSUME Failing \/ UNCHANGED vars PROVE odd \subseteq odd'
  BY <1>6, FailingIs DEF vars
<1> QED BY <1>1, <1>2, <1>3, <1>4, <1>5, <1>6 DEF Next, MainStep, PeerStep, Failing

LEMMA ShareNext == IInv /\ EmptyInv /\ ShareInv /\ [Next]_vars => ShareInv'
<1> SUFFICES ASSUME IInv, EmptyInv, ShareInv, [Next]_vars, odd' \cap Diverging = {},
                    NEW k \in Neighbor
             PROVE  Share(k)'
  BY Zenon DEF ShareInv
<1>a. odd \cap Diverging = {}
  BY OddGrows
<1>b. Agree(k, in_queue[k], adj_rib_in_wdraw_q, adj_rib_in_q, adj_rib_in, advertised[k], flush[k])
  BY <1>a, Zenon DEF ShareInv, Share
<1>c. /\ in_queue = [n \in Neighbor |-> in_queue[n]]
      /\ \A n \in Neighbor : in_queue[n] \in Seq(Packets(n))
      /\ adj_rib_in_q \in Seq(Entry) /\ adj_rib_in_wdraw_q \in Seq(Entry)
      /\ mpc = "entry" => adj_rib_in_q # <<>>
      /\ mpc = "erase" => adj_rib_in_wdraw_q # <<>>
      /\ advertised = [n \in Neighbor |-> advertised[n]]
      /\ \A n \in Neighbor : \A r \in advertised[n] : r.route \in Route
      /\ flush \in [Neighbor -> FlushPc]
  BY DEF IInv, QueueInv, ShapeInv, TypeOK
<1>d. ASSUME UNCHANGED <<in_queue, adj_rib_in_wdraw_q, adj_rib_in_q, adj_rib_in, advertised, flush>>
      PROVE  Share(k)'
  BY <1>b, <1>d, Zenon DEF Share
<1>1. ASSUME NEW n \in Neighbor, NEW m \in Message[n], Receive(n, m) PROVE Share(k)'
  <2>1. /\ flush[n] = "no" /\ odd' = odd \cup OddMessage(n, m)
        /\ in_queue' = [in_queue EXCEPT ![n] = Append(in_queue[n], Encode(m))]
        /\ advertised' = [advertised EXCEPT ![n] = AfterMessage(advertised[n], m)]
        /\ UNCHANGED <<adj_rib_in_q, adj_rib_in_wdraw_q, adj_rib_in, flush>>
    BY <1>1, Zenon DEF Receive
  <2>2. CASE k = n
    <3>1. OddMessage(n, m) \cap Diverging = {}
      BY <2>1
    <3>2. /\ Clean(m)
          /\ \A r \in Named(m), s \in advertised[n] : r.prefix = s.route.prefix => r = s.route
      BY <1>c, <3>1, CleanMessage
    <3>3. Agree(n, in_queue[n], adj_rib_in_wdraw_q, adj_rib_in_q, adj_rib_in, advertised[n], "no")
      BY <1>b, <2>1, <2>2
    <3>4. Agree(n, Append(in_queue[n], Encode(m)), adj_rib_in_wdraw_q, adj_rib_in_q, adj_rib_in,
                AfterMessage(advertised[n], m), "no")
      BY <1>c, <3>2, <3>3, AgreeReceive
    <3>5. /\ in_queue'[n] = Append(in_queue[n], Encode(m))
          /\ advertised'[n] = AfterMessage(advertised[n], m) /\ flush'[n] = "no"
      <4> DEFINE q == Append(in_queue[n], Encode(m))
                 A == AfterMessage(advertised[n], m)
      <4> HIDE DEF q, A
      <4>1. in_queue' = [in_queue EXCEPT ![n] = q] /\ advertised' = [advertised EXCEPT ![n] = A]
        BY <2>1 DEF q, A
      <4>2. in_queue'[n] = q /\ advertised'[n] = A
        BY <1>c, <4>1
      <4> QED BY <2>1, <4>2 DEF q, A
    <3> QED BY <2>1, <2>2, <3>4, <3>5, Zenon DEF Share
  <2>3. CASE k # n
    <3>1. in_queue'[k] = in_queue[k] /\ advertised'[k] = advertised[k]
      BY <1>c, <2>1, <2>3, Zenon
    <3> QED BY <1>b, <2>1, <3>1, Zenon DEF Share
  <2> QED BY <2>2, <2>3
<1>2. ASSUME NEW n \in Neighbor, SessionDown(n) PROVE Share(k)'
  <2>1. /\ flush[n] = "no" /\ odd' = odd \cup When(Queued(n), "late")
        /\ flush' = [flush EXCEPT ![n] = "erase"]
        /\ advertised' = [advertised EXCEPT ![n] = {}]
        /\ UNCHANGED <<in_queue, adj_rib_in_q, adj_rib_in_wdraw_q, adj_rib_in>>
    BY <1>2, Zenon DEF SessionDown, queueVars
  <2>2. CASE k = n
    <3>1. ~Queued(n)
      BY <2>1 DEF When, Diverging
    <3>2. in_queue[n] = <<>> /\ NoneOf(adj_rib_in_wdraw_q, n) /\ NoneOf(adj_rib_in_q, n)
      BY <3>1, Zenon DEF Queued, NoneOf, Members
    <3>3. flush'[n] = "erase" /\ advertised'[n] = {}
      BY <1>c, <2>1
    <3>4. Agree(n, in_queue[n], adj_rib_in_wdraw_q, adj_rib_in_q, adj_rib_in, {}, "erase")
      BY <3>2 DEF Agree
    <3> QED BY <2>1, <2>2, <3>3, <3>4, Zenon DEF Share
  <2>3. CASE k # n
    <3>1. flush'[k] = flush[k] /\ advertised'[k] = advertised[k]
      BY <1>c, <2>1, <2>3
    <3> QED BY <1>b, <2>1, <3>1, Zenon DEF Share
  <2> QED BY <2>2, <2>3
\* A thread that flushes goes on flushing.
<1>e. ASSUME NEW n \in Neighbor, flush[n] # "no", NEW f, f # "no",
             flush' = [flush EXCEPT ![n] = f],
             UNCHANGED <<in_queue, adj_rib_in_wdraw_q, adj_rib_in_q, advertised>>,
             k = n \/ Agree(k, in_queue[k], adj_rib_in_wdraw_q, adj_rib_in_q, adj_rib_in',
                            advertised[k], flush[k])
      PROVE  Share(k)'
  <2>1. CASE k = n
    <3>1. flush'[k] = f
      BY <1>c, <1>e, <2>1
    <3>2. Agree(k, in_queue[k], adj_rib_in_wdraw_q, adj_rib_in_q, adj_rib_in', advertised[k], f)
      BY <1>b, <1>e, <2>1, Zenon DEF Agree
    <3> QED BY <1>e, <3>1, <3>2, Zenon DEF Share
  <2>2. CASE k # n
    <3>1. flush'[k] = flush[k]
      BY <1>c, <1>e, <2>2
    <3> QED BY <1>e, <2>2, <3>1, Zenon DEF Share
  <2> QED BY <2>1, <2>2
<1>3. ASSUME NEW n \in Neighbor, FlushErase(n) PROVE Share(k)'
  <2>1. /\ flush[n] = "erase" /\ flush' = [flush EXCEPT ![n] = "load"]
        /\ UNCHANGED <<in_queue, adj_rib_in_wdraw_q, adj_rib_in_q, advertised>>
    BY <1>3 DEF FlushErase, queueVars
  <2>2. PICK j \in DOMAIN adj_rib_in :
           j[2] = n /\ adj_rib_in' = [i \in DOMAIN adj_rib_in \ {j} |-> adj_rib_in[i]]
    BY <1>3 DEF FlushErase
  <2>3. k # n => Agree(k, in_queue[k], adj_rib_in_wdraw_q, adj_rib_in_q, adj_rib_in',
                       advertised[k], flush[k])
    BY <1>b, <2>2, AgreeErase
  <2> QED BY <1>e, <2>1, <2>3
<1>4. ASSUME NEW n \in Neighbor, FlushLoad(n) \/ FlushStore(n) PROVE Share(k)'
  <2>1. \E f \in {"store", "erase"} :
          /\ flush[n] # "no" /\ flush' = [flush EXCEPT ![n] = f]
          /\ UNCHANGED <<in_queue, adj_rib_in_wdraw_q, adj_rib_in_q, adj_rib_in, advertised>>
    BY <1>4 DEF FlushLoad, FlushStore, queueVars
  <2> QED BY <1>b, <1>e, <2>1
<1>5. ASSUME NEW n \in Neighbor, FlushDone(n) PROVE Share(k)'
  <2>1. /\ flush[n] = "erase" /\ flush' = [flush EXCEPT ![n] = "no"]
        /\ \A j \in DOMAIN adj_rib_in : j[2] # n
        /\ in_queue' = [in_queue EXCEPT ![n] = <<>>]
        /\ UNCHANGED <<adj_rib_in_wdraw_q, adj_rib_in_q, adj_rib_in, advertised>>
    BY <1>5 DEF FlushDone
  <2>2. CASE k = n
    <3>1. flush'[n] = "no" /\ in_queue'[n] = <<>>
      BY <1>c, <2>1
    <3>2. Agree(n, <<>>, adj_rib_in_wdraw_q, adj_rib_in_q, adj_rib_in, advertised[n], "no")
      BY <1>b, <2>1, <2>2, AgreeFlushed
    <3> QED BY <2>1, <2>2, <3>1, <3>2, Zenon DEF Share
  <2>3. CASE k # n
    <3>1. flush'[k] = flush[k] /\ in_queue'[k] = in_queue[k]
      BY <1>c, <2>1, <2>3
    <3> QED BY <1>b, <2>1, <3>1, Zenon DEF Share
  <2> QED BY <2>2, <2>3
<1>6. ASSUME NEW n \in Neighbor, Parse(n) PROVE Share(k)'
  <2> DEFINE c == proc_in_q_packet(Head(in_queue[n]))
             y == Tagged(c.update, n, c.attributes)
             x == Tagged(c.withdraw, n, c.attributes)
  <2>1. /\ in_queue[n] # <<>>
        /\ adj_rib_in_q' = adj_rib_in_q \o y
        /\ adj_rib_in_wdraw_q' = adj_rib_in_wdraw_q \o x
        /\ odd' = odd \cup When(\E u \in Members(y), w \in Members(adj_rib_in_wdraw_q) :
                                   u.route.prefix = w.route.prefix /\ w.id = n, "flip")
        /\ in_queue' = [in_queue EXCEPT ![n] = Tail(in_queue[n])]
        /\ UNCHANGED <<advertised, adj_rib_in, flush>>
    BY <1>6, Zenon DEF Parse
  <2>2. Head(in_queue[n]) \in Packets(n)
    BY <1>c, <2>1, TailIs
  <2>3. PICK m \in Message[n] : Head(in_queue[n]) = Encode(m)
    BY <2>2 DEF Packets
  <2>4. c = Parsed(m)
    BY <2>3 DEF Parsed
  <2>5. y \in Seq(Entry) /\ x \in Seq(Entry)
    <3> HIDE DEF c
    <3> QED BY <2>4, TaggedIs
  <2>6. CASE k = n
    <3>1. \A u \in Members(y), v \in Members(adj_rib_in_wdraw_q) :
             ~(u.route.prefix = v.route.prefix /\ v.id = n)
      <4> HIDE DEF y
      <4> QED BY <2>1 DEF When, Diverging
    <3>2. Agree(n, Tail(in_queue[n]), adj_rib_in_wdraw_q \o x, adj_rib_in_q \o y, adj_rib_in,
                advertised[n], flush[n])
      <4>1. c = proc_in_q_packet(Head(in_queue[n]))
        OBVIOUS
      <4>2. x = Tagged(c.withdraw, n, c.attributes) /\ y = Tagged(c.update, n, c.attributes)
        OBVIOUS
      <4> HIDE DEF c, x, y
      <4> QED BY <1>b, <1>c, <2>1, <2>5, <2>6, <3>1, <4>1, <4>2, AgreeParse
    <3>3. in_queue'[n] = Tail(in_queue[n])
      BY <1>c, <2>1, Zenon
    <3> HIDE DEF c, x, y
    <3> QED BY <2>1, <2>6, <3>2, <3>3, Zenon DEF Share
  <2>7. CASE k # n
    <3>1. NoneOf(x, k) /\ NoneOf(y, k)
      <4>1. Len(c.withdraw) \in Nat /\ Len(c.update) \in Nat
        <5>1. Parsed(m).withdraw \in Seq(Members(m.withdraw))
                /\ Parsed(m).update \in Seq(Members(m.update))
          BY PacketIs
        <5> HIDE DEF c
        <5> QED BY <2>4, <5>1
      <4> HIDE DEF c
      <4>2. (\A j \in 1..Len(x) : x[j].id = n) /\ (\A j \in 1..Len(y) : y[j].id = n)
        BY <4>1, TaggedEntry
      <4> QED BY <2>7, <4>2 DEF NoneOf
    <3> HIDE DEF x, y, c
    <3>2. Agree(k, in_queue[k], adj_rib_in_wdraw_q \o x, adj_rib_in_q \o y, adj_rib_in,
                advertised[k], flush[k])
      BY <1>b, <1>c, <2>5, <3>1, AgreeApart
    <3>3. in_queue'[k] = in_queue[k]
      BY <1>c, <2>1, <2>7, Zenon
    <3> QED BY <2>1, <3>2, <3>3, Zenon DEF Share
  <2> QED BY <2>6, <2>7
<1>7. ASSUME PeerEntry PROVE Share(k)'
  <2> DEFINE u == Head(adj_rib_in_q)
  <2>1. /\ adj_rib_in_q # <<>>
        /\ adj_rib_in' = [j \in DOMAIN adj_rib_in \cup {KeyOf(u)} |->
                             IF j = KeyOf(u) THEN u ELSE adj_rib_in[j]]
        /\ adj_rib_in_q' = Tail(adj_rib_in_q)
        /\ UNCHANGED <<advertised, in_queue, adj_rib_in_wdraw_q, flush>>
    BY <1>7, <1>c, Zenon DEF PeerEntry
  <2>2. Agree(k, in_queue[k], adj_rib_in_wdraw_q, Tail(adj_rib_in_q), adj_rib_in',
              advertised[k], flush[k])
    BY <1>b, <1>c, <2>1, AgreeEntry
  <2> QED BY <2>1, <2>2, Zenon DEF Share
<1>8. ASSUME Withdraw PROVE Share(k)'
  <2> DEFINE u == Head(adj_rib_in_wdraw_q)
  <2>1. /\ adj_rib_in_wdraw_q # <<>> /\ adj_rib_in_q = <<>>
        /\ adj_rib_in' = [j \in DOMAIN adj_rib_in \ {KeyOf(u)} |-> adj_rib_in[j]]
        /\ adj_rib_in_wdraw_q' = Tail(adj_rib_in_wdraw_q)
        /\ UNCHANGED <<advertised, in_queue, adj_rib_in_q, flush>>
    BY <1>8, <1>c DEF Withdraw, EmptyInv
  <2>2. Agree(k, in_queue[k], adj_rib_in_wdraw_q, <<>>, adj_rib_in, advertised[k], flush[k])
    BY <1>b, <2>1
  <2>3. Agree(k, in_queue[k], Tail(adj_rib_in_wdraw_q), <<>>, adj_rib_in', advertised[k], flush[k])
    BY <1>c, <2>1, <2>2, AgreeWithdraw
  <2> QED BY <2>1, <2>3, Zenon DEF Share
<1>9. ASSUME ParseDone \/ RibQueueDone \/ WdrawQueueDone \/ PeerEntryBegin \/ WithdrawBegin
      PROVE  Share(k)'
  BY <1>d, <1>9 DEF ParseDone, RibQueueDone, WdrawQueueDone, PeerEntryBegin, WithdrawBegin,
                    LoadCount, queueVars
<1>10. ASSUME Failing \/ UNCHANGED vars PROVE Share(k)'
  BY <1>d, <1>10, FailingIs DEF vars, queueVars
<1> QED BY <1>1, <1>2, <1>3, <1>4, <1>5, <1>6, <1>7, <1>8, <1>9, <1>10
        DEF Next, MainStep, PeerStep, Failing

LEMMA ShareInit == Init => EmptyInv /\ ShareInv
<1> SUFFICES ASSUME Init PROVE EmptyInv /\ ShareInv
  OBVIOUS
<1>1. EmptyInv
  BY DEF Init, EmptyInv
<1>2. ASSUME NEW n \in Neighbor PROVE Share(n)
  <2>1. /\ in_queue[n] = <<>> /\ advertised[n] = {} /\ flush[n] = "no"
        /\ adj_rib_in_q = <<>> /\ adj_rib_in_wdraw_q = <<>> /\ DOMAIN adj_rib_in = {}
    BY DEF Init
  <2>2. ASSUME NEW p \in Prefix PROVE Flow(<<>>, <<>>, <<>>, adj_rib_in, Of({}, p), n, p)
    <3>1. ~Has(<<>>, n, p) /\ Announced(<<>>, Of({}, p), n, p) /\ Owed(<<>>, Of({}, p), n, p)
      BY DEF Has, Announced, Owed
    <3>2. Stored(adj_rib_in, Of({}, p), n, p)
      BY <2>1 DEF Stored, Of
    <3> QED BY <3>1, <3>2, Zenon DEF Flow, Due
  <2>3. Agree(n, <<>>, <<>>, <<>>, adj_rib_in, {}, "no")
    BY <2>2 DEF Agree
  <2> QED BY <2>1, <2>3, Zenon DEF Share
<1> QED BY <1>1, <1>2, Zenon DEF ShareInv

LEMMA Sharing == Spec => [](IInv /\ EmptyInv /\ ShareInv)
<1>1. Init => IInv /\ EmptyInv /\ ShareInv
  BY IInvInit, ShareInit
<1>2. IInv /\ EmptyInv /\ ShareInv /\ [Next]_vars => (IInv /\ EmptyInv /\ ShareInv)'
  BY IInvNext, EmptyNext, ShareNext
<1> QED BY <1>1, <1>2, PTL DEF Spec

\* For every neighbour, message and interleaving with the other threads: once
\* nothing of a neighbour is on its way, the table has the routes it advertises
\* and no others, unless one of the events of Diverging has happened.
THEOREM RouteFollows == Spec => []TableFollowsNeighbors
<1>1. IInv /\ ShareInv => TableFollowsNeighbors
  <2> SUFFICES ASSUME IInv, ShareInv, odd \cap Diverging = {}, NEW n \in Neighbor, Settled(n)
               PROVE  {adj_rib_in[k].route : k \in {j \in DOMAIN adj_rib_in : j[2] = n}}
                        = {r.route : r \in advertised[n]}
    BY Zenon DEF TableFollowsNeighbors
  <2>1. /\ in_queue[n] = <<>> /\ flush[n] = "no"
        /\ NoneOf(adj_rib_in_wdraw_q, n) /\ NoneOf(adj_rib_in_q, n)
    BY Zenon DEF Settled, Queued, NoneOf, Members
  <2>2. ASSUME NEW p \in Prefix PROVE Stored(adj_rib_in, Of(advertised[n], p), n, p)
    <3>1. Flow(<<>>, adj_rib_in_wdraw_q, adj_rib_in_q, adj_rib_in, Of(advertised[n], p), n, p)
      BY <2>1, Zenon DEF ShareInv, Share, Agree
    <3>2. Quiet(<<>>, p)
      BY DEF Quiet
    <3>3. ~Has(adj_rib_in_wdraw_q, n, p) /\ ~Has(adj_rib_in_q, n, p)
      BY <2>1, NoneHas
    <3> QED BY <3>1, <3>2, <3>3, Zenon DEF Flow, Due
  <2>3. ASSUME NEW k \in DOMAIN adj_rib_in, k[2] = n
        PROVE  \E r \in advertised[n] : r.route = adj_rib_in[k].route
    <3>1. adj_rib_in[k] \in Entry /\ KeyOf(adj_rib_in[k]) = k
      BY DEF IInv, TableInv
    <3>2. PICK p \in Prefix : k = <<p, n>>
      BY <2>3, <3>1, EntryIs DEF Prefix
    <3>3. Shown(n, adj_rib_in[k], Of(advertised[n], p))
      BY <2>2, <3>2, Zenon DEF Stored
    <3>4. PICK m \in Message[n] : Of(advertised[n], p) = {Record(adj_rib_in[k].route, m)}
      BY <3>3, Zenon DEF Shown
    <3>5. Record(adj_rib_in[k].route, m) \in advertised[n]
      BY <3>4 DEF Of
    <3>6. Record(adj_rib_in[k].route, m).route = adj_rib_in[k].route
      BY DEF Record
    <3> QED BY <3>5, <3>6
  <2>4. ASSUME NEW r \in advertised[n]
        PROVE  \E k \in DOMAIN adj_rib_in : k[2] = n /\ adj_rib_in[k].route = r.route
    <3>1. r.route.prefix \in Prefix
      BY DEF IInv, TypeOK, Prefix
    <3> DEFINE p == r.route.prefix
    <3>2. r \in Of(advertised[n], p)
      BY DEF Of
    <3> HIDE DEF p
    <3>3. <<p, n>> \in DOMAIN adj_rib_in /\ Shown(n, adj_rib_in[<<p, n>>], Of(advertised[n], p))
      BY <2>2, <3>1, <3>2, Zenon DEF Stored, p
    <3>4. PICK m \in Message[n] : Of(advertised[n], p) = {Record(adj_rib_in[<<p, n>>].route, m)}
      BY <3>3, Zenon DEF Shown
    <3>5. r.route = adj_rib_in[<<p, n>>].route
      BY <3>2, <3>4 DEF Record
    <3>6. <<p, n>>[2] = n
      OBVIOUS
    <3> QED BY <3>3, <3>5, <3>6
  <2> QED BY <2>3, <2>4
<1> QED BY <1>1, Sharing, PTL

-----------------------------------------------------------------------------
(* The loop over the attributes.                                           *)

Header(f, i) == [code |-> At(f, i + 2), length |-> At(f, i + 3), at |-> i + 3]
NextHeader(f, i) == i + 3 + Taken(At(f, i + 2), At(f, i + 3))
HeaderTurn(f, L, w, i) ==
    IF i - 3 >= L THEN <<>> ELSE <<Header(f, i)>> \o w[NextHeader(f, i)]
AllHeaders(f) == {Header(f, i) : i \in Nat}

\* The last n places of the domain the loop has.
LastPlaces(L, n) == {i \in 3..(L + 261) : i > L + 261 - n}

\* A turn that is not the last ends inside it.
LEMMA NextHeaderIs ==
  ASSUME NEW f \in Seq(Byte), NEW L \in Nat, NEW i \in 3..(L + 261), ~(i - 3 >= L)
  PROVE  NextHeader(f, i) \in 3..(L + 261) /\ i < NextHeader(f, i)
<1> DEFINE c == At(f, i + 2)
           l == At(f, i + 3)
<1>1. i + 3 \in Nat /\ i \in Nat /\ i + 3 <= L + 5
  OBVIOUS
<1>2. l \in Byte
  BY <1>1, AtIs
<1>3. NextHeader(f, i) = i + 3 + Taken(c, l)
  BY DEF NextHeader
<1> HIDE DEF c, l
<1>4. Taken(c, l) \in 0..255
  BY <1>2 DEF Taken, Byte
<1> DEFINE t == Taken(c, l)
           k == NextHeader(f, i)
<1>5. k = i + 3 + t /\ t \in 0..255 /\ i \in 3..(L + 261) /\ i - 3 < L
  BY <1>3, <1>4
<1> HIDE DEF t, k
<1>6. k \in 3..(L + 261) /\ i < k
  BY <1>5
<1> QED BY <1>6 DEF k

LEMMA HeadersExist ==
  ASSUME NEW f \in Seq(Byte), NEW L \in Nat
  PROVE  \A n \in Nat : \E w : w = [i \in LastPlaces(L, n) |-> HeaderTurn(f, L, w, i)]
<1> DEFINE S == {n \in Nat : \E w : w = [i \in LastPlaces(L, n) |-> HeaderTurn(f, L, w, i)]}
<1>1. 0 \in S
  <2> DEFINE w == [i \in LastPlaces(L, 0) |-> 0]
  <2>1. LastPlaces(L, 0) = {}
    BY DEF LastPlaces
  <2>2. w = [i \in LastPlaces(L, 0) |-> HeaderTurn(f, L, w, i)]
    BY <2>1
  <2> HIDE DEF w
  <2> QED BY <2>2
<1>2. \A n \in Nat : n \in S => n + 1 \in S
  <2> SUFFICES ASSUME NEW n \in Nat, NEW w, w = [i \in LastPlaces(L, n) |-> HeaderTurn(f, L, w, i)]
               PROVE  \E v : v = [i \in LastPlaces(L, n + 1) |-> HeaderTurn(f, L, v, i)]
    OBVIOUS
  <2> DEFINE v == [i \in LastPlaces(L, n + 1) |->
                     IF i \in LastPlaces(L, n) THEN w[i] ELSE HeaderTurn(f, L, w, i)]
  <2>1. \A i \in LastPlaces(L, n) : v[i] = w[i]
    BY DEF LastPlaces
  <2>2. \A i \in LastPlaces(L, n + 1) : v[i] = HeaderTurn(f, L, w, i)
    OBVIOUS
  <2>3. \A i \in LastPlaces(L, n + 1) : HeaderTurn(f, L, w, i) = HeaderTurn(f, L, v, i)
    <3> TAKE i \in LastPlaces(L, n + 1)
    <3>1. i \in 3..(L + 261) /\ i > L + 261 - (n + 1)
      BY DEF LastPlaces
    <3>2. CASE i - 3 >= L
      BY <3>2 DEF HeaderTurn
    <3>3. CASE ~(i - 3 >= L)
      <4>1. NextHeader(f, i) \in 3..(L + 261) /\ i < NextHeader(f, i)
        BY <3>1, <3>3, NextHeaderIs
      <4>2. NextHeader(f, i) \in LastPlaces(L, n)
        BY <3>1, <4>1 DEF LastPlaces
      <4>3. v[NextHeader(f, i)] = w[NextHeader(f, i)]
        BY <2>1, <4>2
      <4> HIDE DEF v
      <4> QED BY <4>3, Zenon DEF HeaderTurn
    <3> QED BY <3>2, <3>3
  <2>4. v = [i \in LastPlaces(L, n + 1) |-> v[i]]
    OBVIOUS
  <2> HIDE DEF v
  <2>5. v = [i \in LastPlaces(L, n + 1) |-> HeaderTurn(f, L, v, i)]
    BY <2>2, <2>3, <2>4
  <2> QED BY <2>5
<1> HIDE DEF S
<1>3. Nat \subseteq S
  BY <1>1, <1>2, NatSet
<1> QED BY <1>3 DEF S

\* The headers the loop sees from i on, for every i.
HeadersFrom(f, L, w) ==
    /\ Headers(f, L) = w[3]
    /\ \A i \in 3..(L + 261) : w[i] = HeaderTurn(f, L, w, i) /\ w[i] \in Seq(AllHeaders(f))

LEMMA HeadersIs ==
  ASSUME NEW f \in Seq(Byte), NEW L \in Nat
  PROVE  \E w : HeadersFrom(f, L, w)
<1> DEFINE Is(w) == w = [i \in 3..(L + 261) |->
             IF i - 3 >= L THEN <<>>
             ELSE LET h == [code |-> At(f, i + 2), length |-> At(f, i + 3), at |-> i + 3]
                  IN  <<h>> \o w[h.at + Taken(h.code, h.length)]]
           W == CHOOSE w : Is(w)
           Loop(w, i) ==
             IF i - 3 >= L THEN <<>>
             ELSE LET h == [code |-> At(f, i + 2), length |-> At(f, i + 3), at |-> i + 3]
                  IN  <<h>> \o w[h.at + Taken(h.code, h.length)]
<1>0. ASSUME NEW w, NEW i PROVE Loop(w, i) = HeaderTurn(f, L, w, i)
  BY DEF Header, NextHeader, HeaderTurn
<1>1. LastPlaces(L, L + 262) = 3..(L + 261) /\ L + 262 \in Nat
  BY DEF LastPlaces
<1>2. \E w : Is(w)
  <2>1. PICK w : w = [i \in LastPlaces(L, L + 262) |-> HeaderTurn(f, L, w, i)]
    BY <1>1, HeadersExist
  <2>2. w = [i \in 3..(L + 261) |-> HeaderTurn(f, L, w, i)]
    BY <1>1, <2>1
  <2>3. \A i : Loop(w, i) = HeaderTurn(f, L, w, i)
    BY <1>0
  <2> HIDE DEF Loop
  <2>4. w = [i \in 3..(L + 261) |-> Loop(w, i)]
    BY <2>2, <2>3
  <2>5. Is(w)
    BY <2>4, Zenon DEF Loop
  <2> QED BY <2>5
<1>3. Headers(f, L) = W[3]
  BY DEF Headers
<1>4. Is(W)
  BY <1>2
<1> HIDE DEF W
<1>5. \A i \in 3..(L + 261) : W[i] = HeaderTurn(f, L, W, i)
  <2>1. \A i : Loop(W, i) = HeaderTurn(f, L, W, i)
    BY <1>0
  <2>2. W = [i \in 3..(L + 261) |-> Loop(W, i)]
    BY <1>4, Zenon
  <2> HIDE DEF Loop, Is
  <2> QED BY <2>1, <2>2
<1> HIDE DEF Is, Loop
<1> DEFINE S == {k \in Nat : \A i \in LastPlaces(L, k) : W[i] \in Seq(AllHeaders(f))}
<1>6. 0 \in S
  BY DEF LastPlaces
<1>7. ASSUME NEW k \in Nat, k \in S PROVE k + 1 \in S
  <2> SUFFICES ASSUME NEW i \in LastPlaces(L, k + 1) PROVE W[i] \in Seq(AllHeaders(f))
    OBVIOUS
  <2>1. i \in 3..(L + 261) /\ i > L + 261 - (k + 1) /\ i \in Nat
    BY DEF LastPlaces
  <2>2. CASE i - 3 >= L
    <3>1. W[i] = <<>>
      BY <1>5, <2>1, <2>2, Zenon DEF HeaderTurn
    <3>2. <<>> \in Seq(AllHeaders(f))
      OBVIOUS
    <3> QED BY <3>1, <3>2
  <2>3. CASE ~(i - 3 >= L)
    <3>1. NextHeader(f, i) \in 3..(L + 261) /\ i < NextHeader(f, i)
      BY <2>1, <2>3, NextHeaderIs
    <3>2. NextHeader(f, i) \in LastPlaces(L, k)
      BY <2>1, <3>1 DEF LastPlaces
    <3>3. W[NextHeader(f, i)] \in Seq(AllHeaders(f))
      BY <1>7, <3>2
    <3>4. Header(f, i) \in AllHeaders(f)
      BY <2>1 DEF AllHeaders
    <3>5. W[i] = <<Header(f, i)>> \o W[NextHeader(f, i)]
      BY <1>5, <2>1, <2>3, Zenon DEF HeaderTurn
    <3> DEFINE h == Header(f, i)
               t == W[NextHeader(f, i)]
               H == AllHeaders(f)
    <3>6. h \in H /\ t \in Seq(H) /\ W[i] = <<h>> \o t
      BY <3>3, <3>4, <3>5
    <3> HIDE DEF h, t, H
    <3>7. W[i] \in Seq(H)
      BY <3>6
    <3> QED BY <3>7 DEF H
  <2> QED BY <2>2, <2>3
<1> HIDE DEF S
<1>8. L + 262 \in S
  BY <1>1, <1>6, <1>7, NatSet
<1>9. \A i \in 3..(L + 261) : W[i] \in Seq(AllHeaders(f))
  BY <1>1, <1>8 DEF S
<1>10. HeadersFrom(f, L, W)
  BY <1>3, <1>5, <1>9, Zenon DEF HeadersFrom
<1> QED BY <1>10

\* The switch, turn by turn, from an update u.
Turns(f, u, s, w) ==
    /\ w[0] = u
    /\ \A n \in 1..Len(s) : w[n] = SetAttribute(f, w[n - 1], s[n])
AfterAll(f, u, s) ==
    LET w[n \in 0..Len(s)] == IF n = 0 THEN u ELSE SetAttribute(f, w[n - 1], s[n])
    IN  w[Len(s)]
Turn(f, u, s, w, n) == IF n = 0 THEN u ELSE SetAttribute(f, w[n - 1], s[n])

LEMMA TurnsExist ==
  ASSUME NEW f, NEW u, NEW s
  PROVE  \A n \in Nat : \E w : w = [i \in 0..n |-> Turn(f, u, s, w, i)]
<1> DEFINE S == {n \in Nat : \E w : w = [i \in 0..n |-> Turn(f, u, s, w, i)]}
<1>1. 0 \in S
  <2> DEFINE w == [i \in 0..0 |-> u]
  <2>1. w = [i \in 0..0 |-> Turn(f, u, s, w, i)]
    BY DEF Turn
  <2> HIDE DEF w
  <2> QED BY <2>1
<1>2. \A n \in Nat : n \in S => n + 1 \in S
  <2> SUFFICES ASSUME NEW n \in Nat, NEW w, w = [i \in 0..n |-> Turn(f, u, s, w, i)]
               PROVE  \E v : v = [i \in 0..(n + 1) |-> Turn(f, u, s, v, i)]
    OBVIOUS
  <2> DEFINE v == [i \in 0..(n + 1) |-> IF i <= n THEN w[i] ELSE Turn(f, u, s, w, i)]
  <2>1. \A i \in 0..n : v[i] = w[i]
    OBVIOUS
  <2>2. \A i \in 0..(n + 1) : v[i] = Turn(f, u, s, w, i)
    <3> TAKE i \in 0..(n + 1)
    <3>1. CASE i <= n
      BY <3>1
    <3>2. CASE ~(i <= n)
      BY <3>2
    <3> QED BY <3>1, <3>2
  <2>3. \A i \in 0..(n + 1) : Turn(f, u, s, w, i) = Turn(f, u, s, v, i)
    <3> TAKE i \in 0..(n + 1)
    <3>1. i = 0 \/ i - 1 \in 0..n
      OBVIOUS
    <3> HIDE DEF v
    <3>2. i = 0 \/ v[i - 1] = w[i - 1]
      BY <2>1, <3>1
    <3> QED BY <3>2, Zenon DEF Turn
  <2>4. v = [i \in 0..(n + 1) |-> v[i]]
    OBVIOUS
  <2> HIDE DEF v
  <2>5. v = [i \in 0..(n + 1) |-> Turn(f, u, s, v, i)]
    BY <2>2, <2>3, <2>4
  <2> QED BY <2>5
<1> HIDE DEF S
<1>3. Nat \subseteq S
  BY <1>1, <1>2, NatSet
<1> QED BY <1>3 DEF S

LEMMA AfterAllIs ==
  ASSUME NEW f, NEW u, NEW s, Len(s) \in Nat
  PROVE  \E w : Turns(f, u, s, w) /\ AfterAll(f, u, s) = w[Len(s)]
<1> DEFINE Is(w) == w = [n \in 0..Len(s) |-> IF n = 0 THEN u ELSE SetAttribute(f, w[n - 1], s[n])]
           W == CHOOSE w : Is(w)
<1>1. \E w : Is(w)
  <2>1. PICK w : w = [i \in 0..Len(s) |-> Turn(f, u, s, w, i)]
    BY TurnsExist
  <2>2. Is(w)
    BY <2>1, Zenon DEF Turn
  <2> QED BY <2>2
<1>2. AfterAll(f, u, s) = W[Len(s)]
  BY DEF AfterAll
<1>3. Is(W)
  BY <1>1
<1> HIDE DEF W
<1>4. \A n \in 0..Len(s) : W[n] = IF n = 0 THEN u ELSE SetAttribute(f, W[n - 1], s[n])
  BY <1>3
<1> HIDE DEF Is
<1>5. W[0] = u
  BY <1>4
<1>6. ASSUME NEW n \in 1..Len(s) PROVE W[n] = SetAttribute(f, W[n - 1], s[n])
  <2>1. n \in 0..Len(s) /\ n # 0
    OBVIOUS
  <2> QED BY <1>4, <2>1, Zenon
<1>7. Turns(f, u, s, W)
  BY <1>5, <1>6, Zenon DEF Turns
<1> QED BY <1>2, <1>7

\* The first turn can be taken by itself.
LEMMA FirstTurn ==
  ASSUME NEW H, NEW h \in H, NEW t \in Seq(H), NEW f, NEW u
  PROVE  AfterAll(f, u, <<h>> \o t) = AfterAll(f, SetAttribute(f, u, h), t)
<1> DEFINE s == <<h>> \o t
           v == SetAttribute(f, u, h)
           L == Len(t)
<1>1. /\ L \in Nat /\ Len(s) = L + 1 /\ s[1] = h
      /\ \A n \in 1..L : s[n + 1] = t[n]
  OBVIOUS
<1>a. Len(t) = L
  OBVIOUS
<1> HIDE DEF s, v, L
<1>b. Len(s) \in Nat
  BY <1>1
<1>2. PICK w : Turns(f, u, s, w) /\ AfterAll(f, u, s) = w[Len(s)]
  BY <1>b, AfterAllIs
<1>3. PICK z : Turns(f, v, t, z) /\ AfterAll(f, v, t) = z[L]
  BY <1>1, <1>a, AfterAllIs
<1> DEFINE S == {n \in Nat : n <= L => z[n] = w[n + 1]}
<1>4. 0 \in S
  <2>1. z[0] = v
    BY <1>3 DEF Turns
  <2>2. 1 \in 1..Len(s) /\ 1 - 1 = 0 /\ 0 + 1 = 1
    BY <1>1
  <2>3. w[0] = u /\ w[1] = SetAttribute(f, w[1 - 1], s[1])
    BY <1>2, <2>2, Zenon DEF Turns
  <2>4. w[1] = v
    BY <1>1, <2>2, <2>3 DEF v
  <2> QED BY <2>1, <2>2, <2>4
<1>5. ASSUME NEW n \in Nat, n \in S PROVE n + 1 \in S
  <2> SUFFICES ASSUME n + 1 <= L PROVE z[n + 1] = w[(n + 1) + 1]
    OBVIOUS
  <2>1. n + 1 \in 1..L /\ n + 1 + 1 \in 1..Len(s) /\ (n + 1) - 1 = n /\ (n + 1 + 1) - 1 = n + 1
    BY <1>1
  <2>2. z[n] = w[n + 1]
    <3>1. n <= L
      BY <1>1, <2>1
    <3> QED BY <1>5, <3>1
  <2>3. z[n + 1] = SetAttribute(f, z[(n + 1) - 1], t[n + 1])
    BY <1>3, <2>1, Zenon DEF Turns, L
  <2>4. w[n + 1 + 1] = SetAttribute(f, w[(n + 1 + 1) - 1], s[n + 1 + 1])
    BY <1>2, <2>1, Zenon DEF Turns
  <2>5. s[n + 1 + 1] = t[n + 1]
    BY <1>1, <2>1
  <2> QED BY <2>1, <2>2, <2>3, <2>4, <2>5
<1> HIDE DEF S
<1>6. L \in S
  BY <1>1, <1>4, <1>5, NatSet
<1>7. z[L] = w[L + 1]
  BY <1>1, <1>6 DEF S
<1> QED BY <1>1, <1>2, <1>3, <1>7 DEF s, v

LEMMA AttributesAre ==
  ASSUME NEW f, NEW L
  PROVE  Attributes(f, L) = AfterAll(f, NoAttributes, Headers(f, L))
  BY DEF Attributes, AfterAll

-----------------------------------------------------------------------------
(* What is left before the loop.                                           *)

\* The loop is at i, and has the bytes s still before it.
Left(f, L, i, s) ==
    /\ i \in Nat /\ i >= 3 /\ i - 3 + Len(s) = L
    /\ \A j \in 1..Len(s) : At(f, i + j) = s[j]

\* The value of an attribute is behind its length byte.
Value(f, at, s) == \A j \in 1..Len(s) : At(f, at + j) = s[j]

LEMMA LeftCat ==
  ASSUME NEW f, NEW L \in Nat, NEW i, NEW x \in Seq(Int), NEW y \in Seq(Int),
         Left(f, L, i, x \o y)
  PROVE  Value(f, i, x) /\ Left(f, L, i + Len(x), y)
<1> DEFINE s == x \o y
           a == Len(x)
           b == Len(y)
<1>1. /\ a \in Nat /\ b \in Nat /\ Len(s) = a + b
      /\ \A j \in 1..a : s[j] = x[j]
      /\ \A j \in 1..b : s[a + j] = y[j]
  OBVIOUS
<1>2. /\ i \in Nat /\ i >= 3 /\ i - 3 + Len(s) = L
      /\ \A j \in 1..Len(s) : At(f, i + j) = s[j]
  BY DEF Left
<1> HIDE DEF s, a, b
<1>3. \A j \in 1..a : At(f, i + j) = x[j]
  <2> TAKE j \in 1..a
  <2>1. j \in 1..Len(s)
    BY <1>1
  <2> QED BY <1>1, <1>2, <2>1
<1>4. \A j \in 1..b : At(f, (i + a) + j) = y[j]
  <2> TAKE j \in 1..b
  <2>1. a + j \in 1..Len(s) /\ (i + a) + j = i + (a + j)
    BY <1>1, <1>2
  <2>2. At(f, i + (a + j)) = s[a + j]
    BY <1>2, <2>1
  <2> QED BY <1>1, <2>1, <2>2
<1>5. i + a \in Nat /\ i + a >= 3 /\ (i + a) - 3 + b = L
  BY <1>1, <1>2
<1> QED BY <1>3, <1>4, <1>5 DEF Value, Left, a, b

LEMMA CatElements ==
  ASSUME NEW s \in Seq(Int), NEW t \in Seq(Int)
  PROVE  /\ s \o t \in Seq(Int) /\ Len(s \o t) = Len(s) + Len(t)
         /\ \A j \in 1..Len(s) : (s \o t)[j] = s[j]
         /\ \A j \in 1..Len(t) : (s \o t)[Len(s) + j] = t[j]
  OBVIOUS

\* The bytes of an attribute with a length of one byte.
Wire(x, code, value) ==
    /\ Len(value) \in Nat /\ Len(x) = 3 + Len(value) /\ x[2] = code /\ x[3] = Len(value)
    /\ \A j \in 1..Len(value) : x[3 + j] = value[j]

LEMMA WireIs ==
  ASSUME NEW c \in Int, NEW t \in Seq(Int)
  PROVE  Wire(EncodeAttribute(c, t, FALSE), c, t)
<1> DEFINE v == Len(t)
           s == <<64, c, v>>
           u == s \o t
<1>0. v \in Nat
  OBVIOUS
<1>1. s \in Seq(Int) /\ Len(s) = 3 /\ s[2] = c /\ s[3] = v
  BY <1>0
<1> HIDE DEF s
<1>2. /\ u \in Seq(Int) /\ Len(u) = Len(s) + Len(t)
      /\ \A j \in 1..Len(s) : u[j] = s[j]
      /\ \A j \in 1..Len(t) : u[Len(s) + j] = t[j]
  BY <1>1, CatElements
<1>3. EncodeAttribute(c, t, FALSE) = u
  BY DEF s, EncodeAttribute
<1> HIDE DEF u
<1>4. 2 \in 1..3 /\ 3 \in 1..3
  OBVIOUS
<1>5. Wire(u, c, t)
  BY <1>0, <1>1, <1>2, <1>4 DEF Wire
<1> QED BY <1>3, <1>5

LEMMA WireType ==
  ASSUME NEW c \in Int, NEW t \in Seq(Int)
  PROVE  EncodeAttribute(c, t, FALSE) \in Seq(Int)
  BY DEF EncodeAttribute

\* The header of an attribute, with its length byte at `at'.
HeaderOf(code, value, at) == [code |-> code, length |-> Len(value), at |-> at]

\* The loop is at an attribute x, whose length the switch goes by; k is behind it.
AtAttribute(f, L, w, code, value, x, i, k) ==
    /\ HeadersFrom(f, L, w)
    /\ Taken(code, Len(value)) = Len(value) /\ Wire(x, code, value)
    /\ i \in Nat /\ i >= 3 /\ Value(f, i, x)
    /\ k = i + Len(x) /\ k - 3 <= L

\* No copy overruns.
NoOverrun(headers) == \A j \in 1..Len(headers) : ~Overruns(headers[j])

LEMMA NoOverrunBehind ==
  ASSUME NEW H, NEW h \in H, NEW t \in Seq(H), NoOverrun(t), ~Overruns(h)
  PROVE  NoOverrun(<<h>> \o t)
<1> DEFINE s == <<h>> \o t
<1>1. Len(s) = Len(t) + 1 /\ Len(t) \in Nat /\ s[1] = h
  OBVIOUS
<1>2. \A j \in 1..Len(t) : s[j + 1] = t[j]
  OBVIOUS
<1> HIDE DEF s
<1>3. ASSUME NEW j \in 1..Len(s) PROVE ~Overruns(s[j])
  <2>1. CASE j = 1
    BY <1>1, <2>1
  <2>2. CASE j # 1
    <3>1. j - 1 \in 1..Len(t) /\ (j - 1) + 1 = j
      BY <1>1, <2>2
    <3>2. s[j] = t[j - 1]
      BY <1>2, <3>1
    <3> QED BY <3>1, <3>2, Zenon DEF NoOverrun
  <2> QED BY <2>1, <2>2
<1> QED BY <1>3, Zenon DEF NoOverrun, s

LEMMA AttributeTurn ==
  ASSUME NEW f \in Seq(Byte), NEW L \in Nat, NEW w, NEW code, NEW value, NEW x, NEW i, NEW k,
         AtAttribute(f, L, w, code, value, x, i, k), NEW u
  PROVE  /\ AfterAll(f, u, w[i]) =
               AfterAll(f, SetAttribute(f, u, HeaderOf(code, value, i + 3)), w[k])
         /\ i + 3 \in Nat /\ Value(f, i + 3, value)
         /\ NoOverrun(w[k]) /\ ~Overruns(HeaderOf(code, value, i + 3)) => NoOverrun(w[i])
<1> DEFINE h == [code |-> code, length |-> Len(value), at |-> i + 3]
           v == Len(value)
<1>1. HeadersFrom(f, L, w) /\ Value(f, i, x) /\ k - 3 <= L
  BY DEF AtAttribute
<1>2. /\ v \in Nat /\ Len(x) = 3 + v /\ x[2] = code /\ x[3] = v
      /\ \A j \in 1..v : x[3 + j] = value[j]
  BY DEF Wire, AtAttribute
<1>3. i \in Nat /\ i >= 3 /\ k = i + Len(x)
  BY DEF AtAttribute
<1>a. Taken(code, v) = v
  BY DEF AtAttribute
<1>b. h.code = code /\ h.length = v /\ h.at = i + 3
  /\ h = [code |-> code, length |-> v, at |-> i + 3]
  OBVIOUS
<1> HIDE DEF h, v
<1>4. k = i + 3 + v /\ k \in Nat
  BY <1>2, <1>3
<1>5. At(f, i + 2) = code /\ At(f, i + 3) = v
  <2>1. 2 \in 1..Len(x) /\ 3 \in 1..Len(x)
    BY <1>2
  <2>2. At(f, i + 2) = x[2] /\ At(f, i + 3) = x[3]
    BY <1>1, <2>1, Zenon DEF Value
  <2> QED BY <1>2, <2>2
<1>6. \A j \in 1..v : At(f, (i + 3) + j) = value[j]
  <2> TAKE j \in 1..v
  <2>1. 3 + j \in 1..Len(x) /\ i + (3 + j) = (i + 3) + j
    BY <1>2, <1>3
  <2>2. At(f, i + (3 + j)) = x[3 + j]
    BY <1>1, <2>1, Zenon DEF Value
  <2> QED BY <1>2, <2>1, <2>2
<1>7. Header(f, i) = h
  BY <1>b, <1>5, Zenon DEF Header
<1>8. NextHeader(f, i) = k
  <2>1. NextHeader(f, i) = i + 3 + v
    BY <1>a, <1>5, Zenon DEF NextHeader
  <2> QED BY <1>4, <2>1
<1>9. i \in 3..(L + 261) /\ ~(i - 3 >= L) /\ k \in 3..(L + 261)
  BY <1>1, <1>2, <1>3, <1>4
<1>10. w[i] = <<h>> \o w[k] /\ w[k] \in Seq(AllHeaders(f)) /\ h \in AllHeaders(f)
  <2>1. w[i] = HeaderTurn(f, L, w, i) /\ w[k] \in Seq(AllHeaders(f))
    BY <1>1, <1>9, Zenon DEF HeadersFrom
  <2>2. h \in AllHeaders(f)
    BY <1>3, <1>7, Zenon DEF AllHeaders
  <2> QED BY <1>7, <1>8, <1>9, <2>1, <2>2, Zenon DEF HeaderTurn
<1>11. AfterAll(f, u, w[i]) = AfterAll(f, SetAttribute(f, u, h), w[k])
  <2> DEFINE t == w[k]
             H == AllHeaders(f)
  <2>1. h \in H /\ t \in Seq(H) /\ w[i] = <<h>> \o t
    BY <1>10
  <2> HIDE DEF t, H
  <2>2. AfterAll(f, u, <<h>> \o t) = AfterAll(f, SetAttribute(f, u, h), t)
    BY <2>1, FirstTurn
  <2> QED BY <2>1, <2>2, Zenon DEF t
<1>12. i + 3 \in Nat
  BY <1>3
<1>13. Value(f, i + 3, value)
  BY <1>6 DEF Value, v
<1>14. NoOverrun(w[k]) /\ ~Overruns(h) => NoOverrun(w[i])
  <2> DEFINE t == w[k]
             H == AllHeaders(f)
  <2>1. h \in H /\ t \in Seq(H) /\ w[i] = <<h>> \o t
    BY <1>10
  <2> HIDE DEF t, H
  <2>2. NoOverrun(t) /\ ~Overruns(h) => NoOverrun(<<h>> \o t)
    BY <2>1, NoOverrunBehind
  <2> QED BY <2>1, <2>2, Zenon DEF t
<1> QED BY <1>11, <1>12, <1>13, <1>14, Zenon DEF h, HeaderOf, v

-----------------------------------------------------------------------------
(* What the parsers of values read.                                        *)

LEMMA ValueCat ==
  ASSUME NEW f, NEW at \in Nat, NEW s \in Seq(Int), NEW t \in Seq(Int), Value(f, at, s \o t)
  PROVE  Value(f, at, s) /\ Value(f, at + Len(s), t)
<1> DEFINE u == s \o t
           a == Len(s)
<1>1. /\ a \in Nat /\ Len(t) \in Nat /\ Len(u) = a + Len(t)
      /\ \A j \in 1..a : u[j] = s[j]
      /\ \A j \in 1..Len(t) : u[a + j] = t[j]
  BY CatElements
<1>2. \A j \in 1..Len(u) : At(f, at + j) = u[j]
  BY Zenon DEF Value
<1> HIDE DEF u, a
<1>3. \A j \in 1..a : At(f, at + j) = s[j]
  <2> TAKE j \in 1..a
  <2>1. j \in 1..Len(u)
    BY <1>1
  <2> QED BY <1>1, <1>2, <2>1
<1>4. \A j \in 1..Len(t) : At(f, (at + a) + j) = t[j]
  <2> TAKE j \in 1..Len(t)
  <2>1. a + j \in 1..Len(u) /\ (at + a) + j = at + (a + j)
    BY <1>1
  <2>2. At(f, at + (a + j)) = u[a + j]
    BY <1>2, <2>1
  <2> QED BY <1>1, <2>1, <2>2
<1> QED BY <1>3, <1>4 DEF Value, a

\* The two and the four bytes of a number are put together again.
LEMMA Word2 ==
  ASSUME NEW n \in Nat
  PROVE  /\ Bytes2(n) \in Seq(Int) /\ Len(Bytes2(n)) = 2
         /\ \A f : \A at \in Nat : Value(f, at, Bytes2(n)) => U16At(f, at + 1) = n
<1> DEFINE q == n \div 256
           r == n % 256
           s == <<q, r>>
<1>1. q \in Nat /\ r \in Nat /\ 256 * q + r = n
  BY SMT
<1>2. Bytes2(n) = s
  BY DEF Bytes2
<1> HIDE DEF q, r
<1>3. s \in Seq(Int) /\ Len(s) = 2 /\ s[1] = q /\ s[2] = r
  BY <1>1
<1> HIDE DEF s
<1>4. ASSUME NEW f, NEW at \in Nat, Value(f, at, s) PROVE U16At(f, at + 1) = n
  <2>1. 1 \in 1..Len(s) /\ 2 \in 1..Len(s) /\ at + 2 = (at + 1) + 1
    BY <1>3
  <2>2. At(f, at + 1) = q /\ At(f, at + 2) = r
    BY <1>3, <1>4, <2>1, Zenon DEF Value
  <2>3. At(f, at + 1) = q /\ At(f, (at + 1) + 1) = r
    BY <2>1, <2>2
  <2>4. U16At(f, at + 1) = 256 * q + r
    BY <2>3, Zenon DEF U16At
  <2> QED BY <1>1, <2>4
<1> QED BY <1>2, <1>3, <1>4

LEMMA Word4 ==
  ASSUME NEW n \in Nat
  PROVE  /\ Bytes4(n) \in Seq(Int) /\ Len(Bytes4(n)) = 4
         /\ \A f : \A at \in Nat : Value(f, at, Bytes4(n)) => U32At(f, at + 1) = n
<1> DEFINE q == n \div 65536
           r == n % 65536
           s == Bytes2(q)
           t == Bytes2(r)
<1>1. q \in Nat /\ r \in Nat /\ 65536 * q + r = n
  BY SMT
<1>2. Bytes4(n) = s \o t
  BY DEF Bytes4
<1> HIDE DEF q, r
<1>3. /\ s \in Seq(Int) /\ Len(s) = 2 /\ t \in Seq(Int) /\ Len(t) = 2
      /\ \A f : \A at \in Nat : Value(f, at, s) => U16At(f, at + 1) = q
      /\ \A f : \A at \in Nat : Value(f, at, t) => U16At(f, at + 1) = r
  BY <1>1, Word2
<1> HIDE DEF s, t
<1>4. s \o t \in Seq(Int) /\ Len(s \o t) = 4
  <2>1. s \in Seq(Int) /\ Len(s) = 2 /\ t \in Seq(Int) /\ Len(t) = 2
    BY <1>3
  <2>2. s \o t \in Seq(Int) /\ Len(s \o t) = Len(s) + Len(t)
    BY <2>1, CatLen
  <2> HIDE DEF s, t
  <2> QED BY <2>1, <2>2
<1>5. ASSUME NEW f, NEW at \in Nat, Value(f, at, s \o t) PROVE U32At(f, at + 1) = n
  <2>1. Value(f, at, s) /\ Value(f, at + 2, t)
    BY <1>3, <1>5, ValueCat
  <2>2. at + 2 \in Nat /\ (at + 2) + 1 = (at + 1) + 2
    OBVIOUS
  <2>3. U16At(f, at + 1) = q /\ U16At(f, (at + 2) + 1) = r
    BY <1>3, <2>1, <2>2
  <2>4. U16At(f, at + 1) = q /\ U16At(f, (at + 1) + 2) = r
    BY <2>2, <2>3
  <2>5. U32At(f, at + 1) = 65536 * q + r
    BY <2>4 DEF U32At
  <2> QED BY <1>1, <2>5
<1> QED BY <1>2, <1>4, <1>5

IpAt(f, i) == [n \in 1..4 |-> At(f, i + n - 1)]

LEMMA CopiedIs ==
  ASSUME NEW f, NEW i, NEW count, count = 4, NEW old
  PROVE  IpCopied(f, i, count, old) = IpAt(f, i)
  BY DEF IpCopied, IpAt

LEMMA AddressIs ==
  ASSUME NEW a \in Address
  PROVE  /\ a \in Seq(Int) /\ Len(a) = 4
         /\ \A f : \A at \in Nat : Value(f, at, a) => IpAt(f, at + 1) = a
<1>1. a = [n \in 1..4 |-> a[n]] /\ \A n \in 1..4 : a[n] \in Int
  BY DEF Address, Byte
<1>2. a \in Seq(Int) /\ Len(a) = 4
  BY <1>1
<1>3. ASSUME NEW f, NEW at \in Nat, Value(f, at, a) PROVE IpAt(f, at + 1) = a
  <2>1. \A n \in 1..4 : At(f, (at + 1) + n - 1) = a[n]
    <3> TAKE n \in 1..4
    <3>1. (at + 1) + n - 1 = at + n /\ n \in 1..Len(a)
      BY <1>2
    <3> QED BY <1>3, <3>1 DEF Value
  <2>2. IpAt(f, at + 1) = [n \in 1..4 |-> a[n]]
    BY <2>1 DEF IpAt
  <2> QED BY <1>1, <2>2
<1> QED BY <1>2, <1>3

-----------------------------------------------------------------------------
(* Lists of values.                                                        *)

\* N parts of W bytes each.
Parts(parts, N, W) ==
    /\ N \in Nat /\ W \in {2, 4} /\ Len(parts) = N
    /\ \A n \in 1..N : parts[n] \in Seq(Int) /\ Len(parts[n]) = W

LEMMA PartsAt ==
  ASSUME NEW parts, NEW N, NEW W, Parts(parts, N, W)
  PROVE  /\ Concat(parts) \in Seq(Int) /\ Len(Concat(parts)) = W * N
         /\ \A f : \A at \in Nat : Value(f, at, Concat(parts)) =>
               \A n \in 1..N : Value(f, at + W * (n - 1), parts[n])
<1>0. /\ N \in Nat /\ W \in {2, 4} /\ W \in Nat /\ Len(parts) = N
      /\ \A n \in 1..N : parts[n] \in Seq(Int) /\ Len(parts[n]) = W
  BY DEF Parts
<1>1. PICK w : /\ Concat(parts) = w[N] /\ w[0] = <<>>
               /\ \A n \in 1..N : w[n] = w[n - 1] \o parts[n]
  BY <1>0, ConcatIs
<1> DEFINE Good(k) ==
             /\ w[k] \in Seq(Int) /\ Len(w[k]) = W * k
             /\ \A f : \A at \in Nat : Value(f, at, w[k]) =>
                   \A n \in 1..k : Value(f, at + W * (n - 1), parts[n])
           S == {k \in Nat : k <= N => Good(k)}
<1>2. 0 \in S
  <2>1. w[0] \in Seq(Int) /\ Len(w[0]) = W * 0
    BY <1>0, <1>1
  <2>2. 1..0 = {}
    OBVIOUS
  <2> QED BY <2>1, <2>2
<1>3. ASSUME NEW k \in Nat, k \in S PROVE k + 1 \in S
  <2> SUFFICES ASSUME k + 1 <= N PROVE Good(k + 1)
    OBVIOUS
  <2>0. Good(k)
    BY <1>0, <1>3
  <2> DEFINE x == w[k]
             y == parts[k + 1]
             v == w[k + 1]
  <2>1. x \in Seq(Int) /\ Len(x) = W * k
    BY <2>0
  <2>2. y \in Seq(Int) /\ Len(y) = W /\ v = x \o y
    <3>1. k + 1 \in 1..N /\ (k + 1) - 1 = k
      BY <1>0
    <3> QED BY <1>0, <1>1, <3>1
  <2>3. \A f : \A at \in Nat : Value(f, at, x) =>
           \A n \in 1..k : Value(f, at + W * (n - 1), parts[n])
    BY <2>0
  <2> HIDE DEF x, v, S, Good
  <2>4. v \in Seq(Int) /\ Len(v) = W * (k + 1)
    <3>1. v \in Seq(Int) /\ Len(v) = Len(x) + W
      BY <2>1, <2>2, CatElements
    <3>2. W * (k + 1) = W * k + W
      BY <1>0
    <3> QED BY <2>1, <3>1, <3>2
  <2>5. ASSUME NEW f, NEW at \in Nat, Value(f, at, v), NEW n \in 1..(k + 1)
        PROVE  Value(f, at + W * (n - 1), parts[n])
    <3>1. Value(f, at, x) /\ Value(f, at + Len(x), y)
      BY <2>1, <2>2, <2>5, ValueCat
    <3>2. CASE n = k + 1
      <4>1. n - 1 = k
        BY <3>2
      <4> QED BY <2>1, <3>1, <3>2, <4>1 DEF y
    <3>3. CASE n # k + 1
      <4>1. n \in 1..k
        BY <3>3
      <4> QED BY <2>3, <3>1, <4>1
    <3> QED BY <3>2, <3>3
  <2>6. Good(k + 1)
    BY <2>4, <2>5 DEF Good, v
  <2> QED BY <2>6
<1> HIDE DEF S
<1>4. N \in S
  BY <1>0, <1>2, <1>3, NatSet
<1>5. Good(N)
  BY <1>0, <1>4 DEF S
<1> QED BY <1>1, <1>5

LEMMA HeaderIs ==
  ASSUME NEW code, NEW value, NEW at
  PROVE  /\ HeaderOf(code, value, at).code = code
         /\ HeaderOf(code, value, at).length = Len(value)
         /\ HeaderOf(code, value, at).at = at
  BY DEF HeaderOf

\* The parts of a list.
Numbers(list, W) ==
    [n \in 1..Len(list) |-> IF W = 2 THEN Bytes2(list[n]) ELSE Bytes4(list[n])]

LEMMA NumbersAt ==
  ASSUME NEW list \in Seq(Nat), NEW W \in {2, 4}
  PROVE  /\ Concat(Numbers(list, W)) \in Seq(Int)
         /\ \A f : \A at \in Nat : Value(f, at, Concat(Numbers(list, W))) =>
               \A n \in 1..Len(list) :
                  IF W = 2 THEN U16At(f, at + W * (n - 1) + 1) = list[n]
                  ELSE U32At(f, at + W * (n - 1) + 1) = list[n]
<1> DEFINE N == Len(list)
           parts == Numbers(list, W)
<1>1. N \in Nat /\ \A n \in 1..N : list[n] \in Nat
  OBVIOUS
<1>2. Len(parts) = N
        /\ \A n \in 1..N : parts[n] = IF W = 2 THEN Bytes2(list[n]) ELSE Bytes4(list[n])
  BY DEF Numbers
<1> HIDE DEF N, parts
<1>3. Parts(parts, N, W)
  <2>1. ASSUME NEW n \in 1..N PROVE parts[n] \in Seq(Int) /\ Len(parts[n]) = W
    <3>1. CASE W = 2
      <4>1. parts[n] = Bytes2(list[n]) /\ list[n] \in Nat
        BY <1>1, <1>2, <3>1
      <4> QED BY <3>1, <4>1, Word2
    <3>2. CASE W # 2
      <4>1. parts[n] = Bytes4(list[n]) /\ list[n] \in Nat /\ W = 4
        BY <1>1, <1>2, <3>2
      <4> QED BY <4>1, Word4
    <3> QED BY <3>1, <3>2
  <2> QED BY <1>1, <1>2, <2>1 DEF Parts
<1>4. /\ Concat(parts) \in Seq(Int)
      /\ \A f : \A at \in Nat : Value(f, at, Concat(parts)) =>
            \A n \in 1..N : Value(f, at + W * (n - 1), parts[n])
  BY <1>3, PartsAt
<1>5. ASSUME NEW f, NEW at \in Nat, Value(f, at, Concat(parts)), NEW n \in 1..N
      PROVE  IF W = 2 THEN U16At(f, at + W * (n - 1) + 1) = list[n]
             ELSE U32At(f, at + W * (n - 1) + 1) = list[n]
  <2> DEFINE k == at + W * (n - 1)
  <2>1. Value(f, k, parts[n])
    BY <1>4, <1>5
  <2>2. k \in Nat
    BY <1>1
  <2>3. list[n] \in Nat
    BY <1>1
  <2> HIDE DEF k
  <2>4. CASE W = 2
    <3>1. parts[n] = Bytes2(list[n])
      BY <1>2, <2>4
    <3>2. U16At(f, k + 1) = list[n]
      BY <2>1, <2>2, <2>3, <3>1, Word2
    <3> QED BY <2>4, <3>2 DEF k
  <2>5. CASE W # 2
    <3>1. parts[n] = Bytes4(list[n])
      BY <1>2, <2>5
    <3>2. U32At(f, k + 1) = list[n]
      BY <2>1, <2>2, <2>3, <3>1, Word4
    <3> QED BY <2>5, <3>2 DEF k
  <2> QED BY <2>4, <2>5
<1> QED BY <1>4, <1>5 DEF N, parts

\* A segment, with its type and its count before it.
LEMMA EncodeSegmentIs ==
  ASSUME NEW p \in Segment, NEW W \in {2, 4}
  PROVE  /\ EncodeSegment(p, W) \in Seq(Int) /\ Len(EncodeSegment(p, W)) \in Nat \ {0}
         /\ \A f : \A at \in Nat : Value(f, at, EncodeSegment(p, W)) =>
               /\ At(f, at + 1) = p.seg_type /\ At(f, at + 2) = Len(p.seg_value)
               /\ Value(f, at + 2, Concat(Numbers(p.seg_value, W)))
<1> DEFINE t == p.seg_type
           v == p.seg_value
           N == Len(v)
           x == <<t, N>>
           y == Concat(Numbers(v, W))
<1>1. t \in Nat /\ v \in Seq(Nat) /\ v # <<>> /\ N \in Nat
  BY DEF Segment
<1>2. EncodeSegment(p, W) = x \o y
  BY <1>1 DEF EncodeSegment, Numbers
<1>3. y \in Seq(Int)
  BY <1>1, NumbersAt
<1> HIDE DEF t, v, y, N
<1>4. x \in Seq(Int) /\ Len(x) = 2 /\ x[1] = t /\ x[2] = N
  BY <1>1
<1> HIDE DEF x
<1>5. x \o y \in Seq(Int) /\ Len(x \o y) = Len(x) + Len(y)
  BY <1>3, <1>4, CatLen
<1>6. Len(x \o y) \in Nat \ {0}
  <2>1. Len(y) \in Nat
    BY <1>3
  <2> QED BY <1>4, <1>5, <2>1
<1>7. ASSUME NEW f, NEW at \in Nat, Value(f, at, x \o y)
      PROVE  At(f, at + 1) = t /\ At(f, at + 2) = N /\ Value(f, at + 2, y)
  <2>1. Value(f, at, x) /\ Value(f, at + 2, y)
    <3>1. Value(f, at, x) /\ Value(f, at + Len(x), y)
      BY <1>3, <1>4, <1>7, ValueCat
    <3> QED BY <1>4, <3>1
  <2>2. 1 \in 1..Len(x) /\ 2 \in 1..Len(x)
    BY <1>4
  <2> QED BY <1>4, <2>1, <2>2, Zenon DEF Value
<1> QED BY <1>2, <1>5, <1>6, <1>7 DEF x, y, t, v, N

LEMMA CatAssoc ==
  ASSUME NEW l \in Seq(Int), NEW x \in Seq(Int), NEW r \in Seq(Int)
  PROVE  (l \o x) \o r = l \o (x \o r)
<1>1. l \o x \in Seq(Int) /\ x \o r \in Seq(Int)
  OBVIOUS
<1> QED BY ConcatAssociative, SMTT(60)

\* What is put together begins with its first part.
LEMMA ConcatBegins ==
  ASSUME NEW parts, NEW N \in Nat, Len(parts) = N, \A n \in 1..N : parts[n] \in Seq(Int)
  PROVE  /\ Concat(parts) \in Seq(Int)
         /\ N = 0 => Concat(parts) = <<>>
         /\ N # 0 => \E rest \in Seq(Int) : Concat(parts) = parts[1] \o rest
<1>1. PICK w : /\ Concat(parts) = w[N] /\ w[0] = <<>>
               /\ \A n \in 1..N : w[n] = w[n - 1] \o parts[n]
  BY ConcatIs
<1> DEFINE Begins(v) == v \in Seq(Int) /\ \E rest \in Seq(Int) : v = parts[1] \o rest
           S == {n \in Nat : n + 1 <= N => Begins(w[n + 1])}
<1>2. 0 \in S
  <2>1. ASSUME 1 <= N PROVE Begins(w[1])
    <3>1. 1 \in 1..N /\ 1 - 1 = 0
      BY <2>1
    <3>2. w[1] = <<>> \o parts[1] /\ parts[1] \in Seq(Int)
      BY <1>1, <3>1
    <3>3. w[1] = parts[1] \o <<>> /\ <<>> \in Seq(Int) /\ w[1] \in Seq(Int)
      BY <3>2
    <3> QED BY <3>3, Zenon
  <2> HIDE DEF Begins
  <2>2. 0 + 1 = 1 /\ 0 \in Nat
    OBVIOUS
  <2>3. 0 + 1 <= N => Begins(w[0 + 1])
    BY <2>1, <2>2
  <2> QED BY <2>2, <2>3, Zenon
<1>3. ASSUME NEW n \in Nat, n \in S PROVE n + 1 \in S
  <2>1. ASSUME (n + 1) + 1 <= N PROVE Begins(w[(n + 1) + 1])
    <3>1. (n + 1) + 1 \in 1..N /\ ((n + 1) + 1) - 1 = n + 1 /\ n + 1 <= N /\ 1 \in 1..N
      BY <2>1
    <3> DEFINE x == parts[(n + 1) + 1]
               v == w[n + 1]
    <3>2. w[(n + 1) + 1] = v \o x /\ x \in Seq(Int) /\ parts[1] \in Seq(Int)
      BY <1>1, <3>1
    <3>3. Begins(v)
      BY <1>3, <3>1
    <3> HIDE DEF x
    <3>4. v \in Seq(Int) /\ \E rest \in Seq(Int) : v = parts[1] \o rest
      BY <3>3, Zenon DEF Begins
    <3> HIDE DEF v
    <3>5. PICK rest \in Seq(Int) : v = parts[1] \o rest
      BY <3>4
    <3>6. (parts[1] \o rest) \o x = parts[1] \o (rest \o x)
      BY <3>2, CatAssoc
    <3>7. rest \o x \in Seq(Int) /\ v \o x \in Seq(Int)
      BY <3>2, <3>4
    <3>8. v \o x = parts[1] \o (rest \o x)
      BY <3>5, <3>6, Zenon
    <3> QED BY <3>2, <3>7, <3>8, Zenon
  <2> HIDE DEF Begins
  <2>2. n + 1 \in Nat
    OBVIOUS
  <2> QED BY <2>1, <2>2, Zenon
<1> HIDE DEF S, Begins
<1>4. \A n \in Nat : n \in S
  <2>1. S \subseteq Nat
    BY DEF S
  <2> QED BY <1>2, <1>3, <2>1, NatSet
<1>5. CASE N = 0
  <2>1. Concat(parts) = <<>>
    BY <1>1, <1>5
  <2> QED BY <1>5, <2>1
<1>6. CASE N # 0
  <2>1. N - 1 \in Nat /\ (N - 1) + 1 = N /\ N <= N
    BY <1>6
  <2>2. Begins(w[N])
    BY <1>4, <2>1, Zenon DEF S
  <2> QED BY <1>1, <1>6, <2>2, Zenon DEF Begins
<1> QED BY <1>5, <1>6

\* A path begins with its first segment.
LEMMA EncodePathIs ==
  ASSUME NEW p \in Path, NEW W \in {2, 4}
  PROVE  /\ p[1] \in Segment
         /\ EncodePath(p, W) \in Seq(Int) /\ Len(EncodePath(p, W)) \in Nat \ {0}
         /\ \A f : \A at \in Nat : Value(f, at, EncodePath(p, W)) =>
               /\ At(f, at + 1) = p[1].seg_type /\ At(f, at + 2) = Len(p[1].seg_value)
               /\ Value(f, at + 2, Concat(Numbers(p[1].seg_value, W)))
<1> DEFINE N == Len(p)
           parts == [n \in 1..N |-> EncodeSegment(p[n], W)]
           x == EncodePath(p, W)
           s == EncodeSegment(p[1], W)
<1>1. N \in Nat \ {0} /\ \A n \in 1..N : p[n] \in Segment
  BY DEF Path
<1>2. Len(parts) = N /\ 1 \in 1..N /\ parts[1] = s
  BY <1>1
<1>3. \A n \in 1..N : parts[n] \in Seq(Int)
  BY <1>1, EncodeSegmentIs
<1>4. x = Concat(parts)
  BY DEF EncodePath
<1> HIDE DEF parts, x, s, N
<1>5. x \in Seq(Int) /\ \E rest \in Seq(Int) : x = s \o rest
  BY <1>1, <1>2, <1>3, <1>4, ConcatBegins
<1>6. PICK rest \in Seq(Int) : x = s \o rest
  BY <1>5
<1>7. /\ s \in Seq(Int) /\ Len(s) \in Nat \ {0}
      /\ \A f : \A at \in Nat : Value(f, at, s) =>
            /\ At(f, at + 1) = p[1].seg_type /\ At(f, at + 2) = Len(p[1].seg_value)
            /\ Value(f, at + 2, Concat(Numbers(p[1].seg_value, W)))
  BY <1>1, <1>2, EncodeSegmentIs DEF s
<1>8. Len(x) \in Nat \ {0}
  <2>1. Len(s \o rest) = Len(s) + Len(rest) /\ Len(rest) \in Nat
    BY <1>6, <1>7, CatLen
  <2> QED BY <1>6, <1>7, <2>1
<1>9. \A f : \A at \in Nat : Value(f, at, x) => Value(f, at, s)
  BY <1>6, <1>7, ValueCat
<1> QED BY <1>1, <1>2, <1>5, <1>7, <1>8, <1>9, Zenon DEF x

LEMMA AsPathReads ==
  ASSUME NEW p \in Path, NEW f, NEW h, h.at \in Nat, Value(f, h.at, EncodePath(p, 2))
  PROVE  parse_as_path(f, h) = p[1]
<1> DEFINE at == h.at
           q == p[1]
           v == q.seg_value
<1>1. q = [seg_type |-> q.seg_type, seg_value |-> v] /\ v \in Seq(Nat)
  BY EncodePathIs DEF Segment
<1>2. /\ At(f, at + 1) = q.seg_type /\ At(f, at + 2) = Len(v)
      /\ Value(f, at + 2, Concat(Numbers(v, 2)))
  BY EncodePathIs
<1>3. at \in Nat
  OBVIOUS
<1>4. parse_as_path(f, h) = [seg_type |-> At(f, at + 1),
            seg_value |-> [n \in 1..At(f, at + 2) |-> U16At(f, at + 1 + 2 * n)]]
  BY Zenon DEF parse_as_path
<1> HIDE DEF at, v, q
<1>5. \A n \in 1..Len(v) : U16At(f, at + 1 + 2 * n) = v[n]
  <2> TAKE n \in 1..Len(v)
  <2>1. at + 2 \in Nat /\ n \in Nat
    BY <1>1, <1>3
  <2>2. U16At(f, (at + 2) + 2 * (n - 1) + 1) = v[n]
    BY <1>1, <1>2, <2>1, NumbersAt
  <2>3. (at + 2) + 2 * (n - 1) + 1 = at + 1 + 2 * n
    BY <1>3, <2>1
  <2> QED BY <2>2, <2>3
<1>6. v = [n \in 1..Len(v) |-> v[n]]
  BY <1>1
<1>7. [n \in 1..Len(v) |-> U16At(f, at + 1 + 2 * n)] = v
  BY <1>5, <1>6
<1> QED BY <1>1, <1>2, <1>4, <1>7 DEF q

LEMMA As4PathReads ==
  ASSUME NEW p \in Path, NEW f, NEW h, h.at \in Nat, Value(f, h.at, EncodePath(p, 4))
  PROVE  parse_as4_path(f, h) = p[1]
<1> DEFINE at == h.at
           q == p[1]
           v == q.seg_value
<1>1. q = [seg_type |-> q.seg_type, seg_value |-> v] /\ v \in Seq(Nat)
  BY EncodePathIs DEF Segment
<1>2. /\ At(f, at + 1) = q.seg_type /\ At(f, at + 2) = Len(v)
      /\ Value(f, at + 2, Concat(Numbers(v, 4)))
  BY EncodePathIs
<1>3. at \in Nat
  OBVIOUS
<1>4. parse_as4_path(f, h) = [seg_type |-> At(f, at + 1),
            seg_value |-> [n \in 1..At(f, at + 2) |-> U32At(f, at - 1 + 4 * n)]]
  BY Zenon DEF parse_as4_path
<1> HIDE DEF at, v, q
<1>5. \A n \in 1..Len(v) : U32At(f, at - 1 + 4 * n) = v[n]
  <2> TAKE n \in 1..Len(v)
  <2>1. at + 2 \in Nat /\ n \in Nat
    BY <1>1, <1>3
  <2>2. U32At(f, (at + 2) + 4 * (n - 1) + 1) = v[n]
    BY <1>1, <1>2, <2>1, NumbersAt
  <2>3. (at + 2) + 4 * (n - 1) + 1 = at - 1 + 4 * n
    BY <1>3, <2>1
  <2> QED BY <2>2, <2>3
<1>6. v = [n \in 1..Len(v) |-> v[n]]
  BY <1>1
<1>7. [n \in 1..Len(v) |-> U32At(f, at - 1 + 4 * n)] = v
  BY <1>5, <1>6
<1> QED BY <1>1, <1>2, <1>4, <1>7 DEF q

Pair(c) == Bytes2(c.as) \o Bytes2(c.value)
Pairs(list) == [n \in 1..Len(list) |-> Pair(list[n])]

LEMMA PairAt ==
  ASSUME NEW c \in Community
  PROVE  /\ Pair(c) \in Seq(Int) /\ Len(Pair(c)) = 4
         /\ \A f : \A at \in Nat : Value(f, at, Pair(c)) =>
               U16At(f, at + 1) = c.as /\ U16At(f, at + 3) = c.value
<1> DEFINE s == Bytes2(c.as)
           t == Bytes2(c.value)
<1>1. c.as \in Nat /\ c.value \in Nat
  BY DEF Community
<1>2. /\ s \in Seq(Int) /\ Len(s) = 2 /\ t \in Seq(Int) /\ Len(t) = 2
      /\ \A f : \A at \in Nat : Value(f, at, s) => U16At(f, at + 1) = c.as
      /\ \A f : \A at \in Nat : Value(f, at, t) => U16At(f, at + 1) = c.value
  BY <1>1, Word2
<1>3. Pair(c) = s \o t
  BY DEF Pair
<1> HIDE DEF s, t
<1>4. s \o t \in Seq(Int) /\ Len(s \o t) = 4
  <2>1. s \o t \in Seq(Int) /\ Len(s \o t) = Len(s) + Len(t)
    BY <1>2, CatLen
  <2> QED BY <1>2, <2>1
<1>5. ASSUME NEW f, NEW at \in Nat, Value(f, at, s \o t)
      PROVE  U16At(f, at + 1) = c.as /\ U16At(f, at + 3) = c.value
  <2>1. Value(f, at, s) /\ Value(f, at + Len(s), t)
    BY <1>2, <1>5, ValueCat
  <2>2. at + Len(s) = at + 2 /\ at + 2 \in Nat /\ (at + 2) + 1 = at + 3
    BY <1>2
  <2>3. U16At(f, at + 1) = c.as /\ U16At(f, (at + 2) + 1) = c.value
    BY <1>2, <2>1, <2>2
  <2> QED BY <2>2, <2>3
<1> QED BY <1>3, <1>4, <1>5

LEMMA CommunityReads ==
  ASSUME NEW list \in Seq(Community), list # <<>>
  PROVE  /\ EncodeCommunity(list) \in Seq(Int) /\ Len(EncodeCommunity(list)) \in Nat \ 0..3
         /\ \A f, h : h.at \in Nat /\ h.length = Len(EncodeCommunity(list))
                        /\ Value(f, h.at, EncodeCommunity(list)) => parse_community(f, h) = list
<1> DEFINE N == Len(list)
           parts == Pairs(list)
           x == EncodeCommunity(list)
<1>1. N \in Nat /\ N # 0 /\ (\A n \in 1..N : list[n] \in Community)
        /\ list = [n \in 1..N |-> list[n]]
  OBVIOUS
<1>2. Len(parts) = N /\ \A n \in 1..N : parts[n] = Pair(list[n])
  BY DEF Pairs
<1>3. x = Concat(parts)
  BY DEF EncodeCommunity, Pairs, Pair
<1> HIDE DEF N, parts, x
<1>4. Parts(parts, N, 4)
  <2>1. ASSUME NEW n \in 1..N PROVE parts[n] \in Seq(Int) /\ Len(parts[n]) = 4
    <3>1. parts[n] = Pair(list[n]) /\ list[n] \in Community
      BY <1>1, <1>2
    <3> QED BY <3>1, PairAt
  <2> QED BY <1>1, <1>2, <2>1 DEF Parts
<1>5. /\ x \in Seq(Int) /\ Len(x) = 4 * N
      /\ \A f : \A at \in Nat : Value(f, at, x) =>
            \A n \in 1..N : Value(f, at + 4 * (n - 1), parts[n])
  BY <1>3, <1>4, PartsAt
<1>6. ASSUME NEW f, NEW h, h.at \in Nat, h.length = Len(x), Value(f, h.at, x)
      PROVE  parse_community(f, h) = list
  <2> DEFINE at == h.at
  <2>1. h.length \div 4 = N
    BY <1>1, <1>5, <1>6
  <2>2. parse_community(f, h) = [n \in 1..(h.length \div 4) |->
          [as |-> U16At(f, at - 3 + 4 * n), value |-> U16At(f, at - 1 + 4 * n)]]
    BY Zenon DEF parse_community
  <2>3. at \in Nat /\ Value(f, at, x)
    BY <1>6
  <2> HIDE DEF at
  <2>4. ASSUME NEW n \in 1..N
        PROVE  [as |-> U16At(f, at - 3 + 4 * n), value |-> U16At(f, at - 1 + 4 * n)] = list[n]
    <3> DEFINE k == at + 4 * (n - 1)
               c == list[n]
    <3>1. Value(f, k, parts[n])
      BY <1>5, <2>3
    <3>2. k \in Nat /\ at - 3 + 4 * n = k + 1 /\ at - 1 + 4 * n = k + 3
      BY <1>1, <2>3
    <3>3. c \in Community /\ parts[n] = Pair(c)
      BY <1>1, <1>2
    <3>4. c = [as |-> c.as, value |-> c.value]
      BY <3>3 DEF Community
    <3> HIDE DEF k, c
    <3>5. U16At(f, k + 1) = c.as /\ U16At(f, k + 3) = c.value
      BY <3>1, <3>2, <3>3, PairAt
    <3>6. [as |-> U16At(f, at - 3 + 4 * n), value |-> U16At(f, at - 1 + 4 * n)] = c
      BY <3>2, <3>4, <3>5
    <3> QED BY <3>6 DEF c
  <2> QED BY <1>1, <2>1, <2>2, <2>4
<1>7. Len(x) \in Nat \ 0..3
  BY <1>1, <1>5
<1>8. \A f, h : h.at \in Nat /\ h.length = Len(x) /\ Value(f, h.at, x)
                  => parse_community(f, h) = list
  BY <1>6
<1> QED BY <1>5, <1>7, <1>8, Zenon DEF x

\* Two numbers behind each other, the second an address.
LEMMA Aggregator2 ==
  ASSUME NEW g \in Aggregator
  PROVE  /\ Bytes2(g.as) \o g.origin \in Seq(Int) /\ Len(Bytes2(g.as) \o g.origin) = 6
         /\ \A f : \A at \in Nat : Value(f, at, Bytes2(g.as) \o g.origin) =>
               [as |-> U16At(f, at + 1), origin |-> IpAt(f, at + 3)] = g
<1> DEFINE s == Bytes2(g.as)
           t == g.origin
<1>1. g.as \in Nat /\ t \in Address /\ g = [as |-> g.as, origin |-> t]
  BY DEF Aggregator
<1>2. /\ s \in Seq(Int) /\ Len(s) = 2 /\ t \in Seq(Int) /\ Len(t) = 4
      /\ \A f : \A at \in Nat : Value(f, at, s) => U16At(f, at + 1) = g.as
      /\ \A f : \A at \in Nat : Value(f, at, t) => IpAt(f, at + 1) = t
  BY <1>1, Word2, AddressIs
<1> HIDE DEF s, t
<1>3. s \o t \in Seq(Int) /\ Len(s \o t) = 6
  <2>1. s \o t \in Seq(Int) /\ Len(s \o t) = Len(s) + Len(t)
    BY <1>2, CatLen
  <2> QED BY <1>2, <2>1
<1>4. ASSUME NEW f, NEW at \in Nat, Value(f, at, s \o t)
      PROVE  [as |-> U16At(f, at + 1), origin |-> IpAt(f, at + 3)] = g
  <2>1. Value(f, at, s) /\ Value(f, at + Len(s), t)
    BY <1>2, <1>4, ValueCat
  <2>2. at + Len(s) = at + 2 /\ at + 2 \in Nat /\ (at + 2) + 1 = at + 3
    BY <1>2
  <2>3. U16At(f, at + 1) = g.as /\ IpAt(f, (at + 2) + 1) = t
    BY <1>2, <2>1, <2>2
  <2> QED BY <1>1, <2>2, <2>3
<1> QED BY <1>3, <1>4 DEF s, t

LEMMA Aggregator4 ==
  ASSUME NEW g \in Aggregator
  PROVE  /\ Bytes4(g.as) \o g.origin \in Seq(Int) /\ Len(Bytes4(g.as) \o g.origin) = 8
         /\ \A f : \A at \in Nat : Value(f, at, Bytes4(g.as) \o g.origin) =>
               [as |-> U32At(f, at + 1), origin |-> IpAt(f, at + 5)] = g
<1> DEFINE s == Bytes4(g.as)
           t == g.origin
<1>1. g.as \in Nat /\ t \in Address /\ g = [as |-> g.as, origin |-> t]
  BY DEF Aggregator
<1>2. /\ s \in Seq(Int) /\ Len(s) = 4 /\ t \in Seq(Int) /\ Len(t) = 4
      /\ \A f : \A at \in Nat : Value(f, at, s) => U32At(f, at + 1) = g.as
      /\ \A f : \A at \in Nat : Value(f, at, t) => IpAt(f, at + 1) = t
  BY <1>1, Word4, AddressIs
<1> HIDE DEF s, t
<1>3. s \o t \in Seq(Int) /\ Len(s \o t) = 8
  <2>1. s \o t \in Seq(Int) /\ Len(s \o t) = Len(s) + Len(t)
    BY <1>2, CatLen
  <2> QED BY <1>2, <2>1
<1>4. ASSUME NEW f, NEW at \in Nat, Value(f, at, s \o t)
      PROVE  [as |-> U32At(f, at + 1), origin |-> IpAt(f, at + 5)] = g
  <2>1. Value(f, at, s) /\ Value(f, at + Len(s), t)
    BY <1>2, <1>4, ValueCat
  <2>2. at + Len(s) = at + 4 /\ at + 4 \in Nat /\ (at + 4) + 1 = at + 5
    BY <1>2
  <2>3. U32At(f, at + 1) = g.as /\ IpAt(f, (at + 4) + 1) = t
    BY <1>2, <2>1, <2>2
  <2> QED BY <1>1, <2>2, <2>3
<1> QED BY <1>3, <1>4 DEF s, t

-----------------------------------------------------------------------------
(* What the switch makes of each attribute.                                *)

LEMMA SwitchIs ==
  ASSUME NEW f, NEW u, NEW h
  PROVE  /\ h.code = 6 => SetAttribute(f, u, h) = [u EXCEPT !.atomic_aggregate = 1]
         /\ h.code # 6 /\ h.length = 0 => SetAttribute(f, u, h) = u
         /\ h.length # 0 =>
              /\ h.code = 1 => SetAttribute(f, u, h) = [u EXCEPT !.origin = At(f, h.at + 1)]
              /\ h.code = 2 => SetAttribute(f, u, h) = [u EXCEPT !.as_path = parse_as_path(f, h)]
              /\ h.code = 4 => SetAttribute(f, u, h) = [u EXCEPT !.med = U32At(f, h.at + 1)]
              /\ h.code = 5 => SetAttribute(f, u, h) = [u EXCEPT !.local_pref = U32At(f, h.at + 1)]
              /\ h.code = 8
                   => SetAttribute(f, u, h) = [u EXCEPT !.community = parse_community(f, h)]
              /\ h.code = 17 => SetAttribute(f, u, h) = [u EXCEPT !.as4_path = parse_as4_path(f, h)]
  BY DEF SetAttribute, Code

\* The same, where an address is copied and has its four bytes.
LEMMA NextHopSwitch ==
  ASSUME NEW f, NEW u, NEW h, h.code = 3, h.length = 4
  PROVE  SetAttribute(f, u, h) = [u EXCEPT !.ipv4_next_hop = IpAt(f, h.at + 1)]
<1>1. SetAttribute(f, u, h) =
        [u EXCEPT !.ipv4_next_hop = IpCopied(f, h.at + 1, h.length, u.ipv4_next_hop)]
  BY DEF SetAttribute, Code
<1>2. IpCopied(f, h.at + 1, h.length, u.ipv4_next_hop) = IpAt(f, h.at + 1)
  BY CopiedIs
<1> QED BY <1>1, <1>2, Zenon

LEMMA AggregatorSwitch ==
  ASSUME NEW f, NEW u, NEW h, h.code = 7, h.length = 6
  PROVE  SetAttribute(f, u, h) = [u EXCEPT !.aggregator =
            [as |-> U16At(f, h.at + 1), origin |-> IpAt(f, h.at + 3)]]
<1>1. SetAttribute(f, u, h) = [u EXCEPT !.aggregator =
        [as |-> U16At(f, h.at + 1), origin |-> IpCopied(f, h.at + 3, h.length - 2, NoAddress)]]
  BY DEF SetAttribute, Code
<1>2. IpCopied(f, h.at + 3, h.length - 2, NoAddress) = IpAt(f, h.at + 3)
  BY CopiedIs
<1> QED BY <1>1, <1>2, Zenon

LEMMA As4AggregatorSwitch ==
  ASSUME NEW f, NEW u, NEW h, h.code = 18, h.length = 8
  PROVE  SetAttribute(f, u, h) = [u EXCEPT !.as4_aggregator =
            [as |-> U32At(f, h.at + 1), origin |-> IpAt(f, h.at + 5)]]
<1>1. SetAttribute(f, u, h) = [u EXCEPT !.as4_aggregator =
        [as |-> U32At(f, h.at + 1), origin |-> IpCopied(f, h.at + 5, h.length - 4, NoAddress)]]
  BY DEF SetAttribute, Code
<1>2. IpCopied(f, h.at + 5, h.length - 4, NoAddress) = IpAt(f, h.at + 5)
  BY CopiedIs
<1> QED BY <1>1, <1>2, Zenon

\* What is kept of the attributes a, of which the first k on the wire are set.
Filled(a, k) ==
    [origin |-> IF k >= 1 THEN a.origin ELSE 0,
     as_path |-> IF k >= 2 THEN FirstSegment(a.as_path) ELSE Null,
     as4_path |-> IF k >= 9 THEN FirstSegment(a.as4_path) ELSE Null,
     ipv4_next_hop |-> IF k >= 3 THEN a.ipv4_next_hop ELSE <<0, 0, 0, 0>>,
     med |-> IF k >= 4 THEN a.med ELSE 0,
     local_pref |-> IF k >= 5 THEN a.local_pref ELSE 0,
     atomic_aggregate |-> IF k >= 6 THEN a.atomic_aggregate ELSE 0,
     aggregator |-> IF k >= 7 THEN a.aggregator ELSE Null,
     as4_aggregator |-> IF k >= 10 THEN a.as4_aggregator ELSE Null,
     community |-> IF k >= 8 THEN a.community ELSE Null]

LEMMA FilledIs ==
  ASSUME NEW a \in Attribute
  PROVE  /\ Filled(a, 0) = NoAttributes /\ Filled(a, 10) = Kept(a)
         /\ Filled(a, 1) = [Filled(a, 0) EXCEPT !.origin = a.origin]
         /\ Filled(a, 2) = [Filled(a, 1) EXCEPT !.as_path = FirstSegment(a.as_path)]
         /\ Filled(a, 3) = [Filled(a, 2) EXCEPT !.ipv4_next_hop = a.ipv4_next_hop]
         /\ Filled(a, 4) = [Filled(a, 3) EXCEPT !.med = a.med]
         /\ Filled(a, 5) = [Filled(a, 4) EXCEPT !.local_pref = a.local_pref]
         /\ Filled(a, 6) = [Filled(a, 5) EXCEPT !.atomic_aggregate = a.atomic_aggregate]
         /\ Filled(a, 7) = [Filled(a, 6) EXCEPT !.aggregator = a.aggregator]
         /\ Filled(a, 8) = [Filled(a, 7) EXCEPT !.community = a.community]
         /\ Filled(a, 9) = [Filled(a, 8) EXCEPT !.as4_path = FirstSegment(a.as4_path)]
         /\ Filled(a, 10) = [Filled(a, 9) EXCEPT !.as4_aggregator = a.as4_aggregator]
<1>1. Filled(a, 0) = NoAttributes
  BY DEF Filled, NoAttributes
<1>2. Filled(a, 10) = Kept(a)
  <2> DEFINE p == FirstSegment(a.as_path)
             q == FirstSegment(a.as4_path)
  <2>1. a = [origin |-> a.origin, as_path |-> a.as_path, as4_path |-> a.as4_path,
             ipv4_next_hop |-> a.ipv4_next_hop, med |-> a.med, local_pref |-> a.local_pref,
             atomic_aggregate |-> a.atomic_aggregate, aggregator |-> a.aggregator,
             as4_aggregator |-> a.as4_aggregator, community |-> a.community]
    BY DEF Attribute
  <2>2. Kept(a) = [a EXCEPT !.as_path = p, !.as4_path = q]
    BY DEF Kept
  <2>3. Filled(a, 10) = [origin |-> a.origin, as_path |-> p, as4_path |-> q,
             ipv4_next_hop |-> a.ipv4_next_hop, med |-> a.med, local_pref |-> a.local_pref,
             atomic_aggregate |-> a.atomic_aggregate, aggregator |-> a.aggregator,
             as4_aggregator |-> a.as4_aggregator, community |-> a.community]
    BY DEF Filled
  <2> HIDE DEF p, q
  <2> QED BY <2>1, <2>2, <2>3
<1>3. Filled(a, 1) = [Filled(a, 0) EXCEPT !.origin = a.origin]
  BY DEF Filled
<1>4. Filled(a, 2) = [Filled(a, 1) EXCEPT !.as_path = FirstSegment(a.as_path)]
  BY DEF Filled
<1>5. Filled(a, 3) = [Filled(a, 2) EXCEPT !.ipv4_next_hop = a.ipv4_next_hop]
  BY DEF Filled
<1>6. Filled(a, 4) = [Filled(a, 3) EXCEPT !.med = a.med]
  BY DEF Filled
<1>7. Filled(a, 5) = [Filled(a, 4) EXCEPT !.local_pref = a.local_pref]
  BY DEF Filled
<1>8. Filled(a, 6) = [Filled(a, 5) EXCEPT !.atomic_aggregate = a.atomic_aggregate]
  BY DEF Filled
<1>9. Filled(a, 7) = [Filled(a, 6) EXCEPT !.aggregator = a.aggregator]
  BY DEF Filled
<1>10. Filled(a, 8) = [Filled(a, 7) EXCEPT !.community = a.community]
  BY DEF Filled
<1>11. Filled(a, 9) = [Filled(a, 8) EXCEPT !.as4_path = FirstSegment(a.as4_path)]
  BY DEF Filled
<1>12. Filled(a, 10) = [Filled(a, 9) EXCEPT !.as4_aggregator = a.as4_aggregator]
  BY DEF Filled
<1> QED BY <1>1, <1>2, <1>3, <1>4, <1>5, <1>6, <1>7, <1>8, <1>9, <1>10, <1>11, <1>12, Zenon

\* The switch makes of the update u the update v, whatever the header before the value.
Handled(f, code, value, u, v) ==
    \A h : h.code = code /\ h.length = Len(value) /\ h.at \in Nat /\ Value(f, h.at, value)
              => SetAttribute(f, u, h) = v

\* An attribute with a length of one byte.
Plain(code, value) == EncodeAttribute(code, value, FALSE)

\* The switch takes as many bytes as the length says, and copies none too many.
Whole(code, value) ==
    /\ code \in Int /\ value \in Seq(Int) /\ Taken(code, Len(value)) = Len(value)
    /\ \A h : h.code = code /\ h.length = Len(value) => ~Overruns(h)

\* So does the loop with the bytes x: those of an attribute, or none.
Makes(f, x, u, v) ==
    \/ x = <<>> /\ u = v
    \/ \E code, value : x = Plain(code, value) /\ Whole(code, value)
         /\ Handled(f, code, value, u, v)

LEMMA MakesIs ==
  ASSUME NEW f, NEW code, NEW value, NEW u, NEW v,
         Whole(code, value), Handled(f, code, value, u, v)
  PROVE  Makes(f, Plain(code, value), u, v)
  BY Zenon DEF Makes

LEMMA NothingMakes ==
  ASSUME NEW f, NEW u
  PROVE  Makes(f, <<>>, u, u)
  BY Zenon DEF Makes

\* The bytes of attribute k on the wire.
OnWire(a, k) ==
    CASE k = 1 -> Plain(1, <<a.origin>>)
      [] k = 2 -> Plain(2, IF a.as_path = Null THEN <<>> ELSE EncodePath(a.as_path, 2))
      [] k = 3 -> Plain(3, a.ipv4_next_hop)
      [] k = 4 -> IF a.med # 0 THEN Plain(4, Bytes4(a.med)) ELSE <<>>
      [] k = 5 -> IF a.local_pref # 0 THEN Plain(5, Bytes4(a.local_pref)) ELSE <<>>
      [] k = 6 -> IF a.atomic_aggregate = 1 THEN Plain(6, <<>>) ELSE <<>>
      [] k = 7 -> IF a.aggregator # Null
                  THEN Plain(7, Bytes2(a.aggregator.as) \o a.aggregator.origin)
                  ELSE <<>>
      [] k = 8 -> IF a.community # Null
                  THEN Plain(8, EncodeCommunity(a.community)) ELSE <<>>
      [] k = 9 -> IF a.as4_path # Null
                  THEN Plain(17, EncodePath(a.as4_path, 4)) ELSE <<>>
      [] k = 10 -> IF a.as4_aggregator # Null
                   THEN Plain(18, Bytes4(a.as4_aggregator.as) \o a.as4_aggregator.origin)
                   ELSE <<>>

LEMMA AttributeTypes ==
  ASSUME NEW a \in Attribute
  PROVE  /\ a.origin \in Nat /\ a.med \in Nat /\ a.local_pref \in Nat
         /\ a.ipv4_next_hop \in Address /\ a.atomic_aggregate \in {0, 1}
         /\ a.as_path \in {Null} \cup Path /\ a.as4_path \in {Null} \cup Path
         /\ a.aggregator \in {Null} \cup Aggregator /\ a.as4_aggregator \in {Null} \cup Aggregator
         /\ a.community \in {Null} \cup (Seq(Community) \ {<<>>})
  BY DEF Attribute

LEMMA OriginField ==
  ASSUME NEW f, NEW a \in Attribute
  PROVE  Makes(f, OnWire(a, 1), Filled(a, 0), Filled(a, 1))
<1> DEFINE s == <<a.origin>>
<1>1. s \in Seq(Int) /\ Len(s) = 1 /\ s[1] = a.origin
  BY AttributeTypes
<1> HIDE DEF s
<1>2. ASSUME NEW h, h.code = 1, h.length = Len(s), h.at \in Nat, Value(f, h.at, s)
      PROVE  SetAttribute(f, Filled(a, 0), h) = Filled(a, 1)
  <2>1. At(f, h.at + 1) = a.origin
    <3>1. 1 \in 1..Len(s)
      BY <1>1
    <3> QED BY <1>1, <1>2, <3>1, Zenon DEF Value
  <2>2. SetAttribute(f, Filled(a, 0), h) = [Filled(a, 0) EXCEPT !.origin = At(f, h.at + 1)]
    BY <1>1, <1>2, SwitchIs
  <2> QED BY <2>1, <2>2, FilledIs, Zenon
<1>3. Handled(f, 1, s, Filled(a, 0), Filled(a, 1))
  BY <1>2, Zenon DEF Handled
<1>4. Whole(1, s)
  BY <1>1 DEF Whole, Taken, Code, Overruns
<1>5. Makes(f, Plain(1, s), Filled(a, 0), Filled(a, 1))
  BY <1>1, <1>3, <1>4, MakesIs
<1> QED BY <1>5 DEF s, OnWire

LEMMA AsPathField ==
  ASSUME NEW f, NEW a \in Attribute
  PROVE  Makes(f, OnWire(a, 2), Filled(a, 1), Filled(a, 2))
<1> DEFINE p == a.as_path
           s == IF p = Null THEN <<>> ELSE EncodePath(p, 2)
<1>0. OnWire(a, 2) = Plain(2, s)
  BY DEF OnWire
<1>1. CASE p = Null
  <2>1. s = <<>> /\ s \in Seq(Int) /\ Len(s) = 0
    BY <1>1
  <2>2. Filled(a, 2) = Filled(a, 1)
    BY <1>1 DEF Filled, FirstSegment
  <2> HIDE DEF s
  <2>3. ASSUME NEW h, h.code = 2, h.length = Len(s)
        PROVE  SetAttribute(f, Filled(a, 1), h) = Filled(a, 2)
    BY <2>1, <2>2, <2>3, SwitchIs
  <2>4. Handled(f, 2, s, Filled(a, 1), Filled(a, 2))
    BY <2>3, Zenon DEF Handled
  <2>5. Whole(2, s)
    BY <2>1 DEF Whole, Taken, Code, Overruns
  <2> QED BY <1>0, <2>1, <2>4, <2>5, MakesIs
<1>2. CASE p # Null
  <2>1. p \in Path /\ s = EncodePath(p, 2)
    BY <1>2, AttributeTypes
  <2> HIDE DEF s
  <2>2. s \in Seq(Int) /\ Len(s) # 0
    BY <2>1, EncodePathIs
  <2>3. ASSUME NEW h, h.code = 2, h.length = Len(s), h.at \in Nat, Value(f, h.at, s)
        PROVE  SetAttribute(f, Filled(a, 1), h) = Filled(a, 2)
    <3>1. parse_as_path(f, h) = FirstSegment(p)
      BY <1>2, <2>1, <2>3, AsPathReads DEF FirstSegment
    <3>2. SetAttribute(f, Filled(a, 1), h) = [Filled(a, 1) EXCEPT !.as_path = parse_as_path(f, h)]
      BY <2>2, <2>3, SwitchIs
    <3> QED BY <3>1, <3>2, FilledIs, Zenon
  <2>4. Handled(f, 2, s, Filled(a, 1), Filled(a, 2))
    BY <2>3, Zenon DEF Handled
  <2>5. Whole(2, s)
    BY <2>2 DEF Whole, Taken, Code, Overruns
  <2> QED BY <1>0, <2>2, <2>4, <2>5, MakesIs
<1> QED BY <1>1, <1>2

LEMMA NextHopField ==
  ASSUME NEW f, NEW a \in Attribute
  PROVE  Makes(f, OnWire(a, 3), Filled(a, 2), Filled(a, 3))
<1> DEFINE s == a.ipv4_next_hop
<1>1. /\ s \in Seq(Int) /\ Len(s) = 4
      /\ \A at \in Nat : Value(f, at, s) => IpAt(f, at + 1) = s
  BY AttributeTypes, AddressIs
<1>2. ASSUME NEW h, h.code = 3, h.length = Len(s), h.at \in Nat, Value(f, h.at, s)
      PROVE  SetAttribute(f, Filled(a, 2), h) = Filled(a, 3)
  <2>1. IpAt(f, h.at + 1) = s
    BY <1>1, <1>2
  <2>2. SetAttribute(f, Filled(a, 2), h) = [Filled(a, 2) EXCEPT !.ipv4_next_hop = IpAt(f, h.at + 1)]
    BY <1>1, <1>2, NextHopSwitch
  <2> QED BY <2>1, <2>2, FilledIs, Zenon
<1>3. Handled(f, 3, s, Filled(a, 2), Filled(a, 3))
  BY <1>2, Zenon DEF Handled
<1>4. Whole(3, s)
  BY <1>1 DEF Whole, Taken, Code, Overruns
<1>5. Makes(f, Plain(3, s), Filled(a, 2), Filled(a, 3))
  BY <1>1, <1>3, <1>4, MakesIs
<1> QED BY <1>5 DEF OnWire

LEMMA MedField ==
  ASSUME NEW f, NEW a \in Attribute
  PROVE  Makes(f, OnWire(a, 4), Filled(a, 3), Filled(a, 4))
<1> DEFINE s == Bytes4(a.med)
<1>1. /\ s \in Seq(Int) /\ Len(s) = 4
      /\ \A at \in Nat : Value(f, at, s) => U32At(f, at + 1) = a.med
  BY AttributeTypes, Word4
<1> HIDE DEF s
<1>2. ASSUME NEW h, h.code = 4, h.length = Len(s), h.at \in Nat, Value(f, h.at, s)
      PROVE  SetAttribute(f, Filled(a, 3), h) = Filled(a, 4)
  <2>1. U32At(f, h.at + 1) = a.med
    BY <1>1, <1>2
  <2>2. SetAttribute(f, Filled(a, 3), h) = [Filled(a, 3) EXCEPT !.med = U32At(f, h.at + 1)]
    BY <1>1, <1>2, SwitchIs
  <2> QED BY <2>1, <2>2, FilledIs, Zenon
<1>3. Handled(f, 4, s, Filled(a, 3), Filled(a, 4))
  BY <1>2, Zenon DEF Handled
<1>4. Whole(4, s)
  BY <1>1 DEF Whole, Taken, Code, Overruns
<1>5. Makes(f, Plain(4, s), Filled(a, 3), Filled(a, 4))
  BY <1>1, <1>3, <1>4, MakesIs
<1>6. CASE a.med # 0
  BY <1>5, <1>6 DEF s, OnWire
<1>7. CASE a.med = 0
  <2>1. Filled(a, 3) = Filled(a, 4)
    BY <1>7 DEF Filled
  <2>2. OnWire(a, 4) = <<>>
    BY <1>7 DEF OnWire
  <2> QED BY <2>1, <2>2, NothingMakes
<1> QED BY <1>6, <1>7

LEMMA LocalPrefField ==
  ASSUME NEW f, NEW a \in Attribute
  PROVE  Makes(f, OnWire(a, 5), Filled(a, 4), Filled(a, 5))
<1> DEFINE s == Bytes4(a.local_pref)
<1>1. /\ s \in Seq(Int) /\ Len(s) = 4
      /\ \A at \in Nat : Value(f, at, s) => U32At(f, at + 1) = a.local_pref
  BY AttributeTypes, Word4
<1> HIDE DEF s
<1>2. ASSUME NEW h, h.code = 5, h.length = Len(s), h.at \in Nat, Value(f, h.at, s)
      PROVE  SetAttribute(f, Filled(a, 4), h) = Filled(a, 5)
  <2>1. U32At(f, h.at + 1) = a.local_pref
    BY <1>1, <1>2
  <2>2. SetAttribute(f, Filled(a, 4), h) = [Filled(a, 4) EXCEPT !.local_pref = U32At(f, h.at + 1)]
    BY <1>1, <1>2, SwitchIs
  <2> QED BY <2>1, <2>2, FilledIs, Zenon
<1>3. Handled(f, 5, s, Filled(a, 4), Filled(a, 5))
  BY <1>2, Zenon DEF Handled
<1>4. Whole(5, s)
  BY <1>1 DEF Whole, Taken, Code, Overruns
<1>5. Makes(f, Plain(5, s), Filled(a, 4), Filled(a, 5))
  BY <1>1, <1>3, <1>4, MakesIs
<1>6. CASE a.local_pref # 0
  BY <1>5, <1>6 DEF s, OnWire
<1>7. CASE a.local_pref = 0
  <2>1. Filled(a, 4) = Filled(a, 5)
    BY <1>7 DEF Filled
  <2>2. OnWire(a, 5) = <<>>
    BY <1>7 DEF OnWire
  <2> QED BY <2>1, <2>2, NothingMakes
<1> QED BY <1>6, <1>7

LEMMA AtomicField ==
  ASSUME NEW f, NEW a \in Attribute
  PROVE  Makes(f, OnWire(a, 6), Filled(a, 5), Filled(a, 6))
<1>1. CASE a.atomic_aggregate = 1
  <2>1. ASSUME NEW h, h.code = 6 PROVE SetAttribute(f, Filled(a, 5), h) = Filled(a, 6)
    <3>1. SetAttribute(f, Filled(a, 5), h) = [Filled(a, 5) EXCEPT !.atomic_aggregate = 1]
      BY <2>1, SwitchIs
    <3> QED BY <1>1, <3>1, FilledIs
  <2>2. Handled(f, 6, <<>>, Filled(a, 5), Filled(a, 6))
    BY <2>1, Zenon DEF Handled
  <2>3. Whole(6, <<>>)
    BY DEF Whole, Taken, Code, Overruns
  <2>4. Makes(f, Plain(6, <<>>), Filled(a, 5), Filled(a, 6))
    BY <2>2, <2>3, MakesIs
  <2> QED BY <1>1, <2>4 DEF OnWire
<1>2. CASE a.atomic_aggregate # 1
  <2>1. a.atomic_aggregate = 0
    BY <1>2, AttributeTypes
  <2>2. Filled(a, 5) = Filled(a, 6)
    BY <2>1 DEF Filled
  <2>3. OnWire(a, 6) = <<>>
    BY <1>2 DEF OnWire
  <2> QED BY <2>2, <2>3, NothingMakes
<1> QED BY <1>1, <1>2

LEMMA AggregatorField ==
  ASSUME NEW f, NEW a \in Attribute
  PROVE  Makes(f, OnWire(a, 7), Filled(a, 6), Filled(a, 7))
<1> DEFINE g == a.aggregator
           s == Bytes2(g.as) \o g.origin
<1>1. CASE g # Null
  <2>1. g \in Aggregator
    BY <1>1, AttributeTypes
  <2>2. /\ s \in Seq(Int) /\ Len(s) = 6
        /\ \A at \in Nat : Value(f, at, s)
             => [as |-> U16At(f, at + 1), origin |-> IpAt(f, at + 3)] = g
    BY <2>1, Aggregator2, Zenon
  <2> HIDE DEF s
  <2>3. ASSUME NEW h, h.code = 7, h.length = Len(s), h.at \in Nat, Value(f, h.at, s)
        PROVE  SetAttribute(f, Filled(a, 6), h) = Filled(a, 7)
    <3>1. [as |-> U16At(f, h.at + 1), origin |-> IpAt(f, h.at + 3)] = g
      BY <2>2, <2>3
    <3>2. SetAttribute(f, Filled(a, 6), h)
            = [Filled(a, 6) EXCEPT !.aggregator
              = [as |-> U16At(f, h.at + 1), origin |-> IpAt(f, h.at + 3)]]
      BY <2>2, <2>3, AggregatorSwitch
    <3> QED BY <3>1, <3>2, FilledIs, Zenon
  <2>4. Handled(f, 7, s, Filled(a, 6), Filled(a, 7))
    BY <2>3, Zenon DEF Handled
  <2>5. Whole(7, s)
    BY <2>2 DEF Whole, Taken, Code, Overruns
  <2>6. Makes(f, Plain(7, s), Filled(a, 6), Filled(a, 7))
    BY <2>2, <2>4, <2>5, MakesIs
  <2>7. OnWire(a, 7) = Plain(7, s)
    BY <1>1 DEF OnWire, s
  <2> QED BY <2>6, <2>7
<1>2. CASE g = Null
  <2>1. Filled(a, 6) = Filled(a, 7)
    BY <1>2 DEF Filled
  <2>2. OnWire(a, 7) = <<>>
    BY <1>2 DEF OnWire
  <2> QED BY <2>1, <2>2, NothingMakes
<1> QED BY <1>1, <1>2

LEMMA CommunityField ==
  ASSUME NEW f, NEW a \in Attribute
  PROVE  Makes(f, OnWire(a, 8), Filled(a, 7), Filled(a, 8))
<1> DEFINE g == a.community
           s == EncodeCommunity(g)
<1>1. CASE g # Null
  <2>1. g \in Seq(Community) /\ g # <<>>
    BY <1>1, AttributeTypes
  <2>2. /\ s \in Seq(Int) /\ Len(s) \in Nat \ 0..3
        /\ \A h : h.at \in Nat /\ h.length = Len(s) /\ Value(f, h.at, s)
             => parse_community(f, h) = g
    BY <2>1, CommunityReads
  <2> HIDE DEF s
  <2>3. ASSUME NEW h, h.code = 8, h.length = Len(s), h.at \in Nat, Value(f, h.at, s)
        PROVE  SetAttribute(f, Filled(a, 7), h) = Filled(a, 8)
    <3>1. parse_community(f, h) = g
      BY <2>2, <2>3
    <3>2. SetAttribute(f, Filled(a, 7), h)
            = [Filled(a, 7) EXCEPT !.community = parse_community(f, h)]
      BY <2>2, <2>3, SwitchIs
    <3> QED BY <3>1, <3>2, FilledIs, Zenon
  <2>4. Handled(f, 8, s, Filled(a, 7), Filled(a, 8))
    BY <2>3, Zenon DEF Handled
  <2>5. Whole(8, s)
    <3>0. \A n \in Nat \ 0..3 : n \in Nat /\ ~(n < 4)
      OBVIOUS
    <3>1. Len(s) \in Nat /\ ~(Len(s) < 4)
      BY <2>2, <3>0, Zenon
    <3> QED BY <2>2, <3>1 DEF Whole, Taken, Code, Overruns
  <2>6. Makes(f, Plain(8, s), Filled(a, 7), Filled(a, 8))
    BY <2>2, <2>4, <2>5, MakesIs
  <2>7. OnWire(a, 8) = Plain(8, s)
    BY <1>1 DEF OnWire, s
  <2> QED BY <2>6, <2>7
<1>2. CASE g = Null
  <2>1. Filled(a, 7) = Filled(a, 8)
    BY <1>2 DEF Filled
  <2>2. OnWire(a, 8) = <<>>
    BY <1>2 DEF OnWire
  <2> QED BY <2>1, <2>2, NothingMakes
<1> QED BY <1>1, <1>2

LEMMA As4PathField ==
  ASSUME NEW f, NEW a \in Attribute
  PROVE  Makes(f, OnWire(a, 9), Filled(a, 8), Filled(a, 9))
<1> DEFINE g == a.as4_path
           s == EncodePath(g, 4)
<1>1. CASE g # Null
  <2>1. g \in Path
    BY <1>1, AttributeTypes
  <2>2. /\ s \in Seq(Int) /\ Len(s) # 0
        /\ \A h : h.at \in Nat /\ Value(f, h.at, s) => parse_as4_path(f, h) = FirstSegment(g)
    BY <1>1, <2>1, EncodePathIs, As4PathReads DEF FirstSegment
  <2> HIDE DEF s
  <2>3. ASSUME NEW h, h.code = 17, h.length = Len(s), h.at \in Nat, Value(f, h.at, s)
        PROVE  SetAttribute(f, Filled(a, 8), h) = Filled(a, 9)
    <3>1. parse_as4_path(f, h) = FirstSegment(g)
      BY <2>2, <2>3
    <3>2. SetAttribute(f, Filled(a, 8), h) = [Filled(a, 8) EXCEPT !.as4_path = parse_as4_path(f, h)]
      BY <2>2, <2>3, SwitchIs
    <3> QED BY <3>1, <3>2, FilledIs, Zenon
  <2>4. Handled(f, 17, s, Filled(a, 8), Filled(a, 9))
    BY <2>3, Zenon DEF Handled
  <2>5. Whole(17, s)
    BY <2>2 DEF Whole, Taken, Code, Overruns
  <2>6. Makes(f, Plain(17, s), Filled(a, 8), Filled(a, 9))
    BY <2>2, <2>4, <2>5, MakesIs
  <2>7. OnWire(a, 9) = Plain(17, s)
    BY <1>1 DEF OnWire, s
  <2> QED BY <2>6, <2>7
<1>2. CASE g = Null
  <2>1. Filled(a, 8) = Filled(a, 9)
    BY <1>2 DEF Filled, FirstSegment
  <2>2. OnWire(a, 9) = <<>>
    BY <1>2 DEF OnWire
  <2> QED BY <2>1, <2>2, NothingMakes
<1> QED BY <1>1, <1>2

LEMMA As4AggregatorField ==
  ASSUME NEW f, NEW a \in Attribute
  PROVE  Makes(f, OnWire(a, 10), Filled(a, 9), Filled(a, 10))
<1> DEFINE g == a.as4_aggregator
           s == Bytes4(g.as) \o g.origin
<1>1. CASE g # Null
  <2>1. g \in Aggregator
    BY <1>1, AttributeTypes
  <2>2. /\ s \in Seq(Int) /\ Len(s) = 8
        /\ \A at \in Nat : Value(f, at, s)
             => [as |-> U32At(f, at + 1), origin |-> IpAt(f, at + 5)] = g
    BY <2>1, Aggregator4, Zenon
  <2> HIDE DEF s
  <2>3. ASSUME NEW h, h.code = 18, h.length = Len(s), h.at \in Nat, Value(f, h.at, s)
        PROVE  SetAttribute(f, Filled(a, 9), h) = Filled(a, 10)
    <3>1. [as |-> U32At(f, h.at + 1), origin |-> IpAt(f, h.at + 5)] = g
      BY <2>2, <2>3
    <3>2. SetAttribute(f, Filled(a, 9), h)
            = [Filled(a, 9) EXCEPT !.as4_aggregator
              = [as |-> U32At(f, h.at + 1), origin |-> IpAt(f, h.at + 5)]]
      BY <2>2, <2>3, As4AggregatorSwitch
    <3> QED BY <3>1, <3>2, FilledIs, Zenon
  <2>4. Handled(f, 18, s, Filled(a, 9), Filled(a, 10))
    BY <2>3, Zenon DEF Handled
  <2>5. Whole(18, s)
    BY <2>2 DEF Whole, Taken, Code, Overruns
  <2>6. Makes(f, Plain(18, s), Filled(a, 9), Filled(a, 10))
    BY <2>2, <2>4, <2>5, MakesIs
  <2>7. OnWire(a, 10) = Plain(18, s)
    BY <1>1 DEF OnWire, s
  <2> QED BY <2>6, <2>7
<1>2. CASE g = Null
  <2>1. Filled(a, 9) = Filled(a, 10)
    BY <1>2 DEF Filled
  <2>2. OnWire(a, 10) = <<>>
    BY <1>2 DEF OnWire
  <2> QED BY <2>1, <2>2, NothingMakes
<1> QED BY <1>1, <1>2

\* The loop is where the bytes y are left, with the update u, and will return r; no
\* copy has overrun.
Reached(f, L, w, u, y, r) ==
    \E i : /\ Left(f, L, i, y) /\ AfterAll(f, u, w[i]) = r
           /\ NoOverrun(w[i]) => NoOverrun(w[3])

LEMMA PlainType ==
  ASSUME NEW c, NEW t, Whole(c, t)
  PROVE  Plain(c, t) \in Seq(Int) /\ Wire(Plain(c, t), c, t)
  BY WireType, WireIs DEF Plain, Whole

LEMMA MakesType ==
  ASSUME NEW f, NEW x, NEW u, NEW v, Makes(f, x, u, v)
  PROVE  x \in Seq(Int)
<1>1. CASE x = <<>>
  BY <1>1
<1>2. CASE \E code, value : x = Plain(code, value) /\ Whole(code, value)
  BY <1>2, PlainType
<1> QED BY <1>1, <1>2 DEF Makes

\* The bytes s are those of l and then those of r.
Cut(s, l, r) == l \in Seq(Int) /\ r \in Seq(Int) /\ s = l \o r

LEMMA CutElsewhere ==
  ASSUME NEW s, NEW l, NEW x, NEW r, NEW lx, NEW xr, Cut(s, lx, r), Cut(lx, l, x), Cut(xr, x, r)
  PROVE  Cut(s, l, xr)
<1>1. l \in Seq(Int) /\ x \in Seq(Int) /\ r \in Seq(Int) /\ lx = l \o x /\ xr = x \o r
        /\ s = lx \o r
  BY DEF Cut
<1>2. (l \o x) \o r = l \o (x \o r)
  BY <1>1, CatAssoc, Zenon
<1>3. x \o r \in Seq(Int)
  BY <1>1
<1> QED BY <1>1, <1>2, <1>3 DEF Cut

LEMMA CutIs ==
  ASSUME NEW l \in Seq(Int), NEW r \in Seq(Int), NEW s, s = l \o r
  PROVE  Cut(s, l, r) /\ s \in Seq(Int)
  BY DEF Cut

\* One attribute after the other.
LEMMA FieldTurn ==
  ASSUME NEW f \in Seq(Byte), NEW L \in Nat, NEW w, HeadersFrom(f, L, w),
         NEW x, NEW u, NEW v, Makes(f, x, u, v), NEW s, NEW y, Cut(s, x, y), NEW r,
         Reached(f, L, w, u, s, r)
  PROVE  Reached(f, L, w, v, y, r)
<1>0. y \in Seq(Int) /\ s = x \o y
  BY DEF Cut
<1>1. PICK i : Left(f, L, i, s) /\ AfterAll(f, u, w[i]) = r /\ (NoOverrun(w[i]) => NoOverrun(w[3]))
  BY Zenon DEF Reached
<1>2. CASE x = <<>> /\ u = v
  <2>1. s = y
    BY <1>0, <1>2
  <2> QED BY <1>1, <1>2, <2>1, Zenon DEF Reached
<1>3. ASSUME NEW code, NEW value, x = Plain(code, value), Whole(code, value),
             Handled(f, code, value, u, v)
      PROVE  Reached(f, L, w, v, y, r)
  <2> DEFINE h == HeaderOf(code, value, i + 3)
             k == i + Len(x)
  <2>1. x \in Seq(Int) /\ Wire(x, code, value)
    BY <1>3, PlainType
  <2>2. Value(f, i, x) /\ Left(f, L, k, y)
    BY <1>0, <1>1, <2>1, LeftCat
  <2>3. AtAttribute(f, L, w, code, value, x, i, k)
    <3> DEFINE b == Len(y)
    <3>1. i \in Nat /\ i >= 3
      BY <1>1, Zenon DEF Left
    <3>2. k - 3 + b = L
      BY <2>2, Zenon DEF Left
    <3>3. Len(x) \in Nat /\ b \in Nat
      BY <1>0, <2>1
    <3>4. Taken(code, Len(value)) = Len(value)
      BY <1>3, Zenon DEF Whole
    <3>5. k = i + Len(x)
      OBVIOUS
    <3> HIDE DEF b, k
    <3>6. k - 3 <= L
      BY <3>1, <3>2, <3>3, <3>5
    <3> QED BY <2>1, <2>2, <3>1, <3>4, <3>5, <3>6 DEF AtAttribute
  <2>4. h.code = code /\ h.length = Len(value) /\ h.at = i + 3
    BY HeaderIs
  <2> HIDE DEF k
  <2>5. /\ AfterAll(f, u, w[i]) = AfterAll(f, SetAttribute(f, u, h), w[k])
        /\ i + 3 \in Nat /\ Value(f, i + 3, value)
        /\ NoOverrun(w[k]) /\ ~Overruns(h) => NoOverrun(w[i])
    BY <2>3, AttributeTurn
  <2> HIDE DEF h
  <2>6. SetAttribute(f, u, h) = v
    BY <1>3, <2>4, <2>5, Zenon DEF Handled
  <2>7. ~Overruns(h)
    BY <1>3, <2>4, Zenon DEF Whole
  <2> QED BY <1>1, <2>2, <2>5, <2>6, <2>7, Zenon DEF Reached
<1>4. Makes(f, x, u, v)
  OBVIOUS
<1> QED BY <1>2, <1>3, <1>4, Zenon DEF Makes

\* What a neighbour encodes, attribute by attribute.
LEMMA FieldsAre ==
  ASSUME NEW a, NEW e, ~e
  PROVE  EncodeAttributes(a, e) =
           OnWire(a, 1) \o OnWire(a, 2) \o OnWire(a, 3) \o OnWire(a, 4) \o OnWire(a, 5)
             \o OnWire(a, 6) \o OnWire(a, 7) \o OnWire(a, 8) \o OnWire(a, 9) \o OnWire(a, 10)
<1> DEFINE field(present, code, value) ==
             IF present THEN EncodeAttribute(code, value, e) ELSE <<>>
           segments(path) == IF path = Null THEN <<>> ELSE path
           pair(g) == IF g = Null THEN [as |-> 0, origin |-> <<>>] ELSE g
           list(c) == IF c = Null THEN <<>> ELSE c
           y1 == field(TRUE, Code.origin, <<a.origin>>)
           y2 == field(TRUE, Code.as_path, EncodePath(segments(a.as_path), 2))
           y3 == field(TRUE, Code.next_hop, a.ipv4_next_hop)
           y4 == field(a.med # 0, Code.multi_exit_disc, Bytes4(a.med))
           y5 == field(a.local_pref # 0, Code.local_pref, Bytes4(a.local_pref))
           y6 == field(a.atomic_aggregate = 1, Code.atomic_aggregate, <<>>)
           y7 == field(a.aggregator # Null, Code.aggregator,
                       Bytes2(pair(a.aggregator).as) \o pair(a.aggregator).origin)
           y8 == field(a.community # Null, Code.community, EncodeCommunity(list(a.community)))
           y9 == field(a.as4_path # Null, Code.as4_path, EncodePath(segments(a.as4_path), 4))
           y10 == field(a.as4_aggregator # Null, Code.as4_aggregator,
                        Bytes4(pair(a.as4_aggregator).as) \o pair(a.as4_aggregator).origin)
<1>1. EncodeAttributes(a, e) =
        y1 \o y2 \o y3 \o y4 \o y5 \o y6 \o y7 \o y8 \o y9 \o y10
  BY DEF EncodeAttributes
<1>2. \A c, t : EncodeAttribute(c, t, e) = Plain(c, t)
  BY DEF Plain, EncodeAttribute
<1>3. y1 = OnWire(a, 1) /\ y3 = OnWire(a, 3)
  BY <1>2 DEF OnWire, Code
<1>4. y2 = OnWire(a, 2)
  <2>1. EncodePath(segments(a.as_path), 2) = IF a.as_path
          = Null THEN <<>> ELSE EncodePath(a.as_path, 2)
    <3>1. EncodePath(<<>>, 2) = <<>>
      <4> DEFINE none == [n \in 1..Len(<<>>) |-> EncodeSegment(<<>>[n], 2)]
      <4>1. Len(none) = 0 /\ \A n \in 1..0 : none[n] \in Seq(Int)
        OBVIOUS
      <4>2. EncodePath(<<>>, 2) = Concat(none)
        BY DEF EncodePath
      <4> HIDE DEF none
      <4> QED BY <4>1, <4>2, ConcatBegins
    <3> QED BY <3>1
  <2>2. y2 = Plain(2, EncodePath(segments(a.as_path), 2))
    BY <1>2 DEF Code
  <2> HIDE DEF segments
  <2> QED BY <2>1, <2>2 DEF OnWire
<1>5. y4 = OnWire(a, 4) /\ y5 = OnWire(a, 5) /\ y6 = OnWire(a, 6)
  BY <1>2 DEF OnWire, Code
<1>6. y7 = OnWire(a, 7)
  BY <1>2 DEF OnWire, Code
<1>7. y8 = OnWire(a, 8)
  BY <1>2 DEF OnWire, Code
<1>8. y9 = OnWire(a, 9)
  BY <1>2 DEF OnWire, Code
<1>9. y10 = OnWire(a, 10)
  BY <1>2 DEF OnWire, Code
<1> HIDE DEF y1, y2, y3, y4, y5, y6, y7, y8, y9, y10
<1> QED BY <1>1, <1>3, <1>4, <1>5, <1>6, <1>7, <1>8, <1>9, Zenon

\* Of the ten, those that are still to come.
LEMMA TenTurns ==
  ASSUME NEW f \in Seq(Byte), NEW L \in Nat, NEW w, HeadersFrom(f, L, w), NEW a \in Attribute,
         NEW e, ~e, NEW r, Reached(f, L, w, NoAttributes, EncodeAttributes(a, e), r)
  PROVE  Reached(f, L, w, Kept(a), <<>>, r)
<1> DEFINE X1 == OnWire(a, 1)
           X2 == OnWire(a, 2)
           X3 == OnWire(a, 3)
           X4 == OnWire(a, 4)
           X5 == OnWire(a, 5)
           X6 == OnWire(a, 6)
           X7 == OnWire(a, 7)
           X8 == OnWire(a, 8)
           X9 == OnWire(a, 9)
           X10 == OnWire(a, 10)
           V0 == Filled(a, 0)
           V1 == Filled(a, 1)
           V2 == Filled(a, 2)
           V3 == Filled(a, 3)
           V4 == Filled(a, 4)
           V5 == Filled(a, 5)
           V6 == Filled(a, 6)
           V7 == Filled(a, 7)
           V8 == Filled(a, 8)
           V9 == Filled(a, 9)
           V10 == Filled(a, 10)
<1>1. /\ Makes(f, X1, V0, V1) /\ Makes(f, X2, V1, V2) /\ Makes(f, X3, V2, V3)
      /\ Makes(f, X4, V3, V4) /\ Makes(f, X5, V4, V5) /\ Makes(f, X6, V5, V6)
      /\ Makes(f, X7, V6, V7) /\ Makes(f, X8, V7, V8) /\ Makes(f, X9, V8, V9)
      /\ Makes(f, X10, V9, V10)
  BY OriginField, AsPathField, NextHopField, MedField, LocalPrefField, AtomicField,
     AggregatorField, CommunityField, As4PathField, As4AggregatorField
<1>2. EncodeAttributes(a, e) = X1 \o X2 \o X3 \o X4 \o X5 \o X6 \o X7 \o X8 \o X9 \o X10
  BY FieldsAre
<1>3. V0 = NoAttributes /\ V10 = Kept(a)
  BY FilledIs
<1> HIDE DEF X1, X2, X3, X4, X5, X6, X7, X8, X9, X10,
         V0, V1, V2, V3, V4, V5, V6, V7, V8, V9, V10
<1>4. /\ X1 \in Seq(Int) /\ X2 \in Seq(Int) /\ X3 \in Seq(Int) /\ X4 \in Seq(Int) /\ X5 \in Seq(Int)
      /\ X6 \in Seq(Int) /\ X7 \in Seq(Int) /\ X8 \in Seq(Int) /\ X9 \in Seq(Int)
           /\ X10 \in Seq(Int)
  BY <1>1, MakesType
<1> DEFINE R10 == X10 \o <<>>
           R9 == X9 \o R10
           R8 == X8 \o R9
           R7 == X7 \o R8
           R6 == X6 \o R7
           R5 == X5 \o R6
           R4 == X4 \o R5
           R3 == X3 \o R4
           R2 == X2 \o R3
           L2 == X1 \o X2
           L3 == L2 \o X3
           L4 == L3 \o X4
           L5 == L4 \o X5
           L6 == L5 \o X6
           L7 == L6 \o X7
           L8 == L7 \o X8
           L9 == L8 \o X9
           L10 == L9 \o X10
           E == EncodeAttributes(a, e)
<1>5. /\ <<>> \in Seq(Int) /\ E = L10
      /\ L2 = X1 \o X2 /\ L3 = L2 \o X3 /\ L4 = L3 \o X4 /\ L5 = L4 \o X5 /\ L6 = L5 \o X6
      /\ L7 = L6 \o X7 /\ L8 = L7 \o X8 /\ L9 = L8 \o X9 /\ L10 = L9 \o X10
      /\ R10 = X10 \o <<>> /\ R9 = X9 \o R10 /\ R8 = X8 \o R9 /\ R7 = X7 \o R8 /\ R6 = X6 \o R7
      /\ R5 = X5 \o R6 /\ R4 = X4 \o R5 /\ R3 = X3 \o R4 /\ R2 = X2 \o R3
  BY <1>2
<1> HIDE DEF R10, R9, R8, R7, R6, R5, R4, R3, R2, L2, L3, L4, L5, L6, L7, L8, L9, L10, E
<1>6. /\ Cut(R10, X10, <<>>) /\ Cut(R9, X9, R10) /\ Cut(R8, X8, R9) /\ Cut(R7, X7, R8)
      /\ Cut(R6, X6, R7) /\ Cut(R5, X5, R6) /\ Cut(R4, X4, R5) /\ Cut(R3, X3, R4)
      /\ Cut(R2, X2, R3)
  BY <1>4, <1>5, CutIs
<1>7. /\ Cut(L2, X1, X2) /\ Cut(L3, L2, X3) /\ Cut(L4, L3, X4) /\ Cut(L5, L4, X5)
      /\ Cut(L6, L5, X6) /\ Cut(L7, L6, X7) /\ Cut(L8, L7, X8) /\ Cut(L9, L8, X9)
      /\ Cut(L10, L9, X10)
  BY <1>4, <1>5, CutIs
<1>8. Cut(E, X1, R2)
  <2>1. Cut(E, L10, <<>>)
    <3>1. L10 \in Seq(Int) /\ E = L10 /\ <<>> \in Seq(Int)
      <4>1. L9 \in Seq(Int) /\ X10 \in Seq(Int) /\ L10 = L9 \o X10
        BY <1>7 DEF Cut
      <4>2. L10 \in Seq(Int)
        BY <4>1
      <4> QED BY <1>5, <4>2, Zenon
    <3>2. L10 = L10 \o <<>>
      BY <3>1
    <3> QED BY <3>1, <3>2, Zenon DEF Cut
  <2>2. Cut(E, L9, R10)
    BY <1>6, <1>7, <2>1, CutElsewhere
  <2>3. Cut(E, L8, R9)
    BY <1>6, <1>7, <2>2, CutElsewhere
  <2>4. Cut(E, L7, R8)
    BY <1>6, <1>7, <2>3, CutElsewhere
  <2>5. Cut(E, L6, R7)
    BY <1>6, <1>7, <2>4, CutElsewhere
  <2>6. Cut(E, L5, R6)
    BY <1>6, <1>7, <2>5, CutElsewhere
  <2>7. Cut(E, L4, R5)
    BY <1>6, <1>7, <2>6, CutElsewhere
  <2>8. Cut(E, L3, R4)
    BY <1>6, <1>7, <2>7, CutElsewhere
  <2>9. Cut(E, L2, R3)
    BY <1>6, <1>7, <2>8, CutElsewhere
  <2> QED BY <1>6, <1>7, <2>9, CutElsewhere
<1>9. Reached(f, L, w, V0, E, r)
  BY <1>3 DEF E
<1>10. Reached(f, L, w, V1, R2, r)
  BY <1>1, <1>8, <1>9, FieldTurn
<1>11. Reached(f, L, w, V2, R3, r)
  BY <1>1, <1>6, <1>10, FieldTurn
<1>12. Reached(f, L, w, V3, R4, r)
  BY <1>1, <1>6, <1>11, FieldTurn
<1>13. Reached(f, L, w, V4, R5, r)
  BY <1>1, <1>6, <1>12, FieldTurn
<1>14. Reached(f, L, w, V5, R6, r)
  BY <1>1, <1>6, <1>13, FieldTurn
<1>15. Reached(f, L, w, V6, R7, r)
  BY <1>1, <1>6, <1>14, FieldTurn
<1>16. Reached(f, L, w, V7, R8, r)
  BY <1>1, <1>6, <1>15, FieldTurn
<1>17. Reached(f, L, w, V8, R9, r)
  BY <1>1, <1>6, <1>16, FieldTurn
<1>18. Reached(f, L, w, V9, R10, r)
  BY <1>1, <1>6, <1>17, FieldTurn
<1>19. Reached(f, L, w, V10, <<>>, r)
  BY <1>1, <1>6, <1>18, FieldTurn
<1> QED BY <1>3, <1>19, Zenon

LEMMA LoopEnds ==
  ASSUME NEW f \in Seq(Byte), NEW L \in Nat, NEW w, HeadersFrom(f, L, w), NEW u, NEW r,
         Reached(f, L, w, u, <<>>, r)
  PROVE  r = u /\ NoOverrun(w[3])
<1>1. PICK i : Left(f, L, i, <<>>) /\ AfterAll(f, u, w[i]) = r
             /\ (NoOverrun(w[i]) => NoOverrun(w[3]))
  BY Zenon DEF Reached
<1>2. i \in Nat /\ i >= 3 /\ i - 3 = L
  BY <1>1 DEF Left
<1>3. i \in 3..(L + 261) /\ i - 3 >= L
  BY <1>2
<1>4. w[i] = <<>>
  BY <1>3, Zenon DEF HeadersFrom, HeaderTurn
<1>5. Len(<<>>) = 0
  OBVIOUS
<1>6. PICK z : Turns(f, u, <<>>, z) /\ AfterAll(f, u, <<>>) = z[Len(<<>>)]
  BY <1>5, AfterAllIs
<1>7. AfterAll(f, u, <<>>) = u
  BY <1>5, <1>6 DEF Turns
<1>8. NoOverrun(<<>>)
  BY <1>5 DEF NoOverrun
<1> QED BY <1>1, <1>4, <1>7, <1>8

\* proc_in_q reads the attributes of a message back, but for the segments behind the
\* first, and overruns nothing, if the lengths are not extended.
LEMMA AttributesReturn ==
  ASSUME NEW n \in Neighbor, NEW m \in Message[n],
         m.update # <<>>, m.withdraw = <<>>, ~m.extended
  PROVE  Parsed(m).attributes = Kept(m.attributes) /\ ~PacketOverruns(Encode(m))
<1> DEFINE g == Encode(m)
           A == AttributeBytes(m)
           L == Len(A)
           a == m.attributes
           r == Attributes(g, L)
<1>1. /\ g \in Seq(Byte) /\ L \in Nat /\ U16At(g, 0) = 0 /\ U16At(g, 2) = L
      /\ \A i \in Nat : i < L => At(g, 4 + i) = At(A, i)
  BY EncodeIs
<1>2. A = EncodeAttributes(a, m.extended) /\ A \in Seq(Byte) /\ a \in Attribute
  <2>1. A = EncodeAttributes(a, m.extended)
    BY DEF AttributeBytes
  <2>2. EncodeAttributes(a, m.extended) \in Seq(Byte)
    BY MessageAssumption
  <2>3. a \in Attribute
    BY AttributeAssumption
  <2> QED BY <2>1, <2>2, <2>3
<1>3. Parsed(m) = proc_in_q_packet(g)
  BY DEF Parsed
<1> HIDE DEF g, A
<1>4. Parsed(m).attributes = r
  <2>1. Parsed(m) = [withdraw |-> <<>>, update |-> parse_nlri(g, L + 4), attributes |-> r]
    BY <1>1, <1>3 DEF proc_in_q_packet
  <2> QED BY <2>1
<1>5. PICK w : HeadersFrom(g, L, w)
  BY <1>1, HeadersIs
<1>6. r = AfterAll(g, NoAttributes, w[3])
  BY <1>5, AttributesAre, Zenon DEF HeadersFrom
<1>7. Left(g, L, 3, A)
  <2>1. ASSUME NEW j \in 1..L PROVE At(g, 3 + j) = A[j]
    <3>1. j - 1 \in Nat /\ j - 1 < L /\ 4 + (j - 1) = 3 + j /\ (j - 1) + 1 = j
      BY <1>1
    <3>2. At(g, 4 + (j - 1)) = At(A, j - 1)
      BY <1>1, <3>1
    <3>3. At(A, j - 1) = A[(j - 1) + 1]
      BY <1>2, <3>1, AtIs
    <3> QED BY <3>1, <3>2, <3>3
  <2>2. 3 \in Nat /\ 3 >= 3 /\ 3 - 3 + L = L
    BY <1>1
  <2> QED BY <2>1, <2>2 DEF Left
<1> HIDE DEF L, r
<1>8. Reached(g, L, w, NoAttributes, A, r)
  BY <1>6, <1>7, Zenon DEF Reached
<1>9. Reached(g, L, w, Kept(a), <<>>, r)
  <2> DEFINE e == m.extended
  <2>1. ~e /\ a \in Attribute /\ Reached(g, L, w, NoAttributes, EncodeAttributes(a, e), r)
    BY <1>2, <1>8, Zenon
  <2> HIDE DEF e, a
  <2> QED BY <1>1, <1>5, <2>1, TenTurns
<1>10. r = Kept(a) /\ NoOverrun(w[3])
  BY <1>1, <1>5, <1>9, LoopEnds
<1>11. ~PacketOverruns(g)
  BY <1>1, <1>5, <1>10, Zenon DEF PacketOverruns, HeadersFrom, NoOverrun
<1> QED BY <1>4, <1>10, <1>11 DEF g, a

\* What overruns is a message that announces and has extended lengths.
LEMMA OverrunIsExtended ==
  ASSUME NEW n \in Neighbor, NEW m \in Message[n], PacketOverruns(Encode(m))
  PROVE  m.update # <<>> /\ m.extended
<1> DEFINE g == Encode(m)
           A == AttributeBytes(m)
           L == Len(A)
<1>1. /\ g \in Seq(Byte) /\ L \in Nat
      /\ U16At(g, 0) = 0 <=> m.withdraw = <<>>
      /\ m.withdraw = <<>> => U16At(g, 2) = L
  BY EncodeIs
<1>2. m.withdraw = <<>> /\ U16At(g, 2) = L
  BY <1>1 DEF PacketOverruns
<1>3. m.update # <<>>
  <2> SUFFICES ASSUME m.update = <<>> PROVE FALSE
    OBVIOUS
  <2>1. L = 0
    BY DEF AttributeBytes
  <2>2. PICK w : HeadersFrom(g, L, w)
    BY <1>1, HeadersIs
  <2>3. Headers(g, L) = <<>>
    <3>1. 3 \in 3..(L + 261) /\ 3 - 3 >= L
      BY <2>1
    <3> QED BY <2>2, <3>1, Zenon DEF HeadersFrom, HeaderTurn
  <2> HIDE DEF L, g
  <2>4. \A j \in 1..Len(Headers(g, L)) : FALSE
    BY <2>3
  <2> QED BY <1>2, <2>4 DEF PacketOverruns, g
<1>4. m.extended
  BY <1>2, <1>3, AttributesReturn
<1> QED BY <1>3, <1>4

LEMMA AssignKeeps ==
  ASSUME NEW a \in Attribute
  PROVE  assign(Kept(a)) = Kept(a)
<1> DEFINE b == Kept(a)
<1>1. b.community = a.community /\ [b EXCEPT !.community = b.community] = b
  BY DEF Kept, Attribute
<1> HIDE DEF b
<1>2. CASE a.community = <<>>
  <2>1. Null = <<>>
    BY <1>2, AttributeTypes
  <2> QED BY <1>1, <1>2, <2>1 DEF assign, b
<1>3. CASE a.community # <<>>
  BY <1>1, <1>3 DEF assign, b
<1> QED BY <1>2, <1>3

-----------------------------------------------------------------------------
(* The attributes in the table.                                            *)

\* For every neighbour, message and interleaving with the other threads: once
\* nothing of a neighbour is on its way, the entry of every route it advertises
\* has the attributes of the last message about it, of a path the first segment,
\* unless one of the events of Diverging has happened or the message had extended
\* lengths.
THEOREM RouteAttributes == Spec => []AttributesAreTheLatest
<1>1. IInv /\ ShareInv => AttributesAreTheLatest
  <2> SUFFICES ASSUME IInv, ShareInv, odd \cap Diverging = {}, NEW n \in Neighbor, Settled(n),
                      NEW r \in advertised[n]
               PROVE  r.extended
                        \/ adj_rib_in[<<r.route.prefix, n>>].attributes = Kept(r.attributes)
    BY Zenon DEF AttributesAreTheLatest
  <2> DEFINE p == r.route.prefix
             e == adj_rib_in[<<p, n>>]
  <2>1. /\ in_queue[n] = <<>> /\ flush[n] = "no"
        /\ NoneOf(adj_rib_in_wdraw_q, n) /\ NoneOf(adj_rib_in_q, n)
    BY Zenon DEF Settled, Queued, NoneOf, Members
  <2>2. p \in Prefix
    BY DEF IInv, TypeOK, Prefix
  <2>3. r \in Of(advertised[n], p)
    BY DEF Of
  <2> HIDE DEF p
  <2>4. Shown(n, e, Of(advertised[n], p))
    <3>1. Flow(<<>>, adj_rib_in_wdraw_q, adj_rib_in_q, adj_rib_in, Of(advertised[n], p), n, p)
      BY <2>1, <2>2, Zenon DEF ShareInv, Share, Agree
    <3>2. Quiet(<<>>, p)
      BY DEF Quiet
    <3>3. ~Has(adj_rib_in_wdraw_q, n, p) /\ ~Has(adj_rib_in_q, n, p)
      BY <2>1, NoneHas
    <3>4. Stored(adj_rib_in, Of(advertised[n], p), n, p)
      BY <3>1, <3>2, <3>3, Zenon DEF Flow, Due
    <3> QED BY <2>3, <3>4, Zenon DEF Stored
  <2>5. PICK m \in Message[n] :
           /\ Clean(m) /\ e.route \in Members(m.update)
           /\ e.attributes = assign(Parsed(m).attributes)
           /\ Of(advertised[n], p) = {Record(e.route, m)}
    BY <2>4 DEF Shown
  <2>6. r.extended = m.extended /\ r.attributes = m.attributes
    BY <2>3, <2>5 DEF Record
  <2>7. m.update # <<>> /\ m.withdraw = <<>>
    BY <2>5 DEF Clean, Members
  <2>8. CASE ~m.extended
    <3>1. Parsed(m).attributes = Kept(m.attributes)
      BY <2>7, <2>8, AttributesReturn
    <3>2. m.attributes \in Attribute
      BY <2>7, AttributeAssumption
    <3> QED BY <2>5, <2>6, <3>1, <3>2, AssignKeeps DEF p
  <2> QED BY <2>6, <2>8
<1> QED BY <1>1, Sharing, PTL

-----------------------------------------------------------------------------
(* Searches of routes that no one warned of.                               *)

\* The message has nothing a search does not survive, or o says so.
Warned(m, o) ==
    m.update # <<>> => /\ m.extended => "extended" \in o
                       /\ m.attributes.as_path = Null => "own" \in o
                       /\ BadOrigin(m.attributes) => "origin" \in o
                       /\ JsonFaults(m.attributes) => "as4" \in o
Told(n, o) == {Encode(m) : m \in {x \in Message[n] : Warned(x, o)}}
Sound(o) ==
    {e \in Entry : /\ OriginFaults(e) => "extended" \in o
                   /\ ~HasPath(e) => o \cap {"own", "extended"} # {}
                   /\ BadOrigin(e.attributes) => o \cap {"origin", "extended"} # {}
                   /\ JsonFaults(e.attributes) => o \cap {"as4", "extended"} # {}}

\* Every packet, queued announcement and entry of the table is one of those.
FaultInv ==
    /\ \A n \in Neighbor : in_queue[n] \in Seq(Told(n, odd))
    /\ adj_rib_in_q \in Seq(Sound(odd))
    /\ \A k \in DOMAIN adj_rib_in : adj_rib_in[k] \in Sound(odd)
    /\ FaultsOnlyOnOddMessages

LEMMA SoundEntries ==
  ASSUME NEW n \in Neighbor, NEW m \in Message[n], NEW o, Warned(m, o)
  PROVE  Tagged(Parsed(m).update, n, Parsed(m).attributes) \in Seq(Sound(o))
<1> DEFINE c == Parsed(m)
           t == Tagged(c.update, n, c.attributes)
<1>1. t \in Seq(Entry) /\ t \in [1..Len(t) -> Entry] /\ Len(t) \in Nat
  BY TaggedIs
<1>2. /\ c.update \in Seq(Members(m.update)) /\ Len(c.update) \in Nat
      /\ m.withdraw # <<>> => c.update = <<>>
  BY PacketIs
<1> HIDE DEF c
<1>3. /\ Len(t) = Len(c.update)
      /\ \A j \in 1..Len(c.update) : t[j].attributes = assign(c.attributes)
  BY <1>2, TaggedAll
<1> HIDE DEF t
<1>4. ASSUME NEW j \in 1..Len(t) PROVE t[j] \in Sound(o)
  <2>1. t[j] \in Entry /\ t[j].attributes = assign(c.attributes)
    BY <1>1, <1>3
  <2>2. m.withdraw = <<>> /\ m.update # <<>>
    <3>1. c.update # <<>>
      BY <1>3
    <3>2. m.update # <<>>
      BY <1>2, <3>1 DEF Members
    <3> QED BY <1>2, <3>1, <3>2
  <2>3. CASE m.extended
    <3>1. "extended" \in o
      BY <2>2, <2>3 DEF Warned
    <3> QED BY <2>1, <3>1 DEF Sound
  <2>4. CASE ~m.extended
    <3> DEFINE a == m.attributes
    <3>1. c.attributes = Kept(a)
      BY <2>2, <2>4, AttributesReturn DEF c
    <3>2. a \in Attribute
      BY <2>2, AttributeAssumption
    <3>3. /\ a.as_path = Null => "own" \in o
          /\ BadOrigin(a) => "origin" \in o
          /\ JsonFaults(a) => "as4" \in o
      BY <2>2 DEF Warned
    <3>4. t[j].attributes = Kept(a) /\ a.as_path \in {Null} \cup Path
      BY <2>1, <3>1, <3>2, AssignKeeps, AttributeTypes
    <3> HIDE DEF a
    <3> DEFINE b == Kept(a)
    <3>5. /\ b.as_path = FirstSegment(a.as_path) /\ b.origin = a.origin
          /\ b.aggregator = a.aggregator /\ b.as4_aggregator = a.as4_aggregator
      BY <3>2 DEF Kept, Attribute
    <3> HIDE DEF b
    <3>6. a.as_path # Null => b.as_path \in Segment /\ b.as_path # Null
      <4>1. a.as_path # Null => a.as_path[1] \in Segment
        BY <3>4, EncodePathIs
      <4> QED BY <3>5, <4>1, NullAssumption DEF FirstSegment
    <3>7. ~OriginFaults(t[j])
      BY <3>4, <3>5, <3>6 DEF OriginFaults, HasPath, Segment, FirstSegment, b
    <3>8. ~HasPath(t[j]) => "own" \in o
      BY <3>3, <3>4, <3>6 DEF HasPath, b
    <3>9. /\ BadOrigin(t[j].attributes) => "origin" \in o
          /\ JsonFaults(t[j].attributes) => "as4" \in o
      BY <3>3, <3>4, <3>5 DEF BadOrigin, JsonFaults, b
    <3> QED BY <2>1, <3>7, <3>8, <3>9 DEF Sound
  <2> QED BY <2>3, <2>4
<1>5. t \in [1..Len(t) -> Sound(o)]
  BY <1>1, <1>4
<1>6. t \in Seq(Sound(o))
  BY <1>1, <1>5
<1> QED BY <1>6 DEF t, c

LEMMA WarningsStay ==
  ASSUME NEW o, NEW x, o \subseteq x
  PROVE  Sound(o) \subseteq Sound(x) /\ \A n : Told(n, o) \subseteq Told(n, x)
<1>1. Sound(o) \subseteq Sound(x)
  BY DEF Sound
<1>2. \A m : Warned(m, o) => Warned(m, x)
  BY DEF Warned
<1>3. \A n : Told(n, o) \subseteq Told(n, x)
  BY <1>2 DEF Told
<1> QED BY <1>1, <1>3

LEMMA FaultNext == IInv /\ FaultInv /\ [Next]_vars => FaultInv'
<1> SUFFICES ASSUME IInv, FaultInv, [Next]_vars PROVE FaultInv'
  OBVIOUS
<1> DEFINE T(n) == Told(n, odd')
           S == Sound(odd')
           QueueIs(q) == \A n \in Neighbor : q[n] \in Seq(T(n))
           TableIs(t) == \A k \in DOMAIN t : t[k] \in S
<1>0. odd \subseteq odd'
  BY OddGrows
<1>a. /\ in_queue = [n \in Neighbor |-> in_queue[n]]
      /\ mpc = "entry" => adj_rib_in_q # <<>>
  BY DEF IInv, QueueInv
<1>b. QueueIs(in_queue) /\ adj_rib_in_q \in Seq(S) /\ TableIs(adj_rib_in)
  <2>1. /\ \A n \in Neighbor : in_queue[n] \in Seq(Told(n, odd))
        /\ adj_rib_in_q \in Seq(Sound(odd))
        /\ \A k \in DOMAIN adj_rib_in : adj_rib_in[k] \in Sound(odd)
    BY DEF FaultInv
  <2>2. Sound(odd) \subseteq S /\ \A n : Told(n, odd) \subseteq T(n)
    BY <1>0, WarningsStay
  <2> HIDE DEF S, T
  <2> QED BY <2>1, <2>2, SeqWiden
<1>c. ASSUME QueueIs(in_queue'), adj_rib_in_q' \in Seq(S), TableIs(adj_rib_in'),
             FaultsOnlyOnOddMessages'
      PROVE  FaultInv'
  BY <1>c DEF FaultInv
<1>d. ASSUME UNCHANGED fault PROVE FaultsOnlyOnOddMessages'
  BY <1>0, <1>d DEF FaultInv, FaultsOnlyOnOddMessages
<1>e. ASSUME NEW n \in Neighbor, NEW q \in Seq(T(n)), in_queue' = [in_queue EXCEPT ![n] = q]
      PROVE  QueueIs(in_queue')
  <2> HIDE DEF T
  <2>1. in_queue' = [k \in Neighbor |-> IF k = n THEN q ELSE in_queue[k]]
    BY <1>a, <1>e
  <2> QED BY <1>b, <2>1
<1> HIDE DEF S, T, QueueIs, TableIs
<1>1. ASSUME NEW n \in Neighbor, NEW m \in Message[n], Receive(n, m) PROVE FaultInv'
  <2>1. /\ in_queue' = [in_queue EXCEPT ![n] = Append(in_queue[n], Encode(m))]
        /\ odd' = odd \cup OddMessage(n, m)
        /\ UNCHANGED <<adj_rib_in_q, adj_rib_in, fault>>
    BY <1>1 DEF Receive
  <2>2. Warned(m, odd')
    BY <2>1 DEF OddMessage, When, Warned
  <2>3. Encode(m) \in T(n)
    BY <2>2 DEF Told, T
  <2>4. in_queue[n] \in Seq(T(n))
    BY <1>b DEF QueueIs
  <2>5. Append(in_queue[n], Encode(m)) \in Seq(T(n))
    BY <2>3, <2>4
  <2> QED BY <1>b, <1>c, <1>d, <1>e, <2>1, <2>5
<1>2. ASSUME NEW n \in Neighbor, FlushDone(n) PROVE FaultInv'
  <2>1. /\ in_queue' = [in_queue EXCEPT ![n] = <<>>]
        /\ UNCHANGED <<adj_rib_in_q, adj_rib_in, fault>>
    BY <1>2 DEF FlushDone
  <2>2. <<>> \in Seq(T(n))
    OBVIOUS
  <2> QED BY <1>b, <1>c, <1>d, <1>e, <2>1, <2>2
<1>3. ASSUME NEW n \in Neighbor, Parse(n) PROVE FaultInv'
  <2> DEFINE p == proc_in_q_packet(Head(in_queue[n]))
             t == Tagged(p.update, n, p.attributes)
  <2>1. /\ in_queue[n] # <<>>
        /\ adj_rib_in_q' = adj_rib_in_q \o t
        /\ in_queue' = [in_queue EXCEPT ![n] = Tail(in_queue[n])]
        /\ UNCHANGED <<adj_rib_in, fault>>
    BY <1>3, Zenon DEF Parse
  <2>2. in_queue[n] \in Seq(T(n))
    BY <1>b DEF QueueIs
  <2>3. Tail(in_queue[n]) \in Seq(T(n)) /\ Head(in_queue[n]) \in T(n)
    BY <2>1, <2>2, TailIs
  <2>4. PICK m \in Message[n] : Head(in_queue[n]) = Encode(m) /\ Warned(m, odd')
    BY <2>3 DEF Told, T
  <2>5. t \in Seq(S)
    <3>1. p = Parsed(m)
      BY <2>4 DEF Parsed
    <3> HIDE DEF p
    <3> QED BY <2>4, <3>1, SoundEntries DEF S
  <2> HIDE DEF t, p
  <2>6. adj_rib_in_q' \in Seq(S)
    BY <1>b, <2>1, <2>5, CatIs
  <2>7. QueueIs(in_queue')
    BY <1>e, <2>1, <2>3
  <2>8. TableIs(adj_rib_in')
    BY <1>b, <2>1
  <2> QED BY <1>c, <1>d, <2>1, <2>6, <2>7, <2>8
<1>4. ASSUME PeerEntry PROVE FaultInv'
  <2> DEFINE u == Head(adj_rib_in_q)
  <2>1. /\ adj_rib_in_q # <<>>
        /\ adj_rib_in' = [j \in DOMAIN adj_rib_in \cup {KeyOf(u)} |->
                             IF j = KeyOf(u) THEN u ELSE adj_rib_in[j]]
        /\ adj_rib_in_q' = Tail(adj_rib_in_q)
        /\ UNCHANGED <<in_queue, fault>>
    BY <1>4, <1>a, Zenon DEF PeerEntry
  <2>2. adj_rib_in_q' \in Seq(S) /\ u \in S
    BY <1>b, <2>1, TailIs
  <2> HIDE DEF u
  <2>3. TableIs(adj_rib_in')
    BY <1>b, <2>1, <2>2 DEF TableIs
  <2> QED BY <1>b, <1>c, <1>d, <2>1, <2>2, <2>3
<1>5. ASSUME Withdraw PROVE FaultInv'
  <2>1. /\ UNCHANGED <<in_queue, adj_rib_in_q, fault>>
        /\ \E k : adj_rib_in' = [j \in DOMAIN adj_rib_in \ {k} |-> adj_rib_in[j]]
    BY <1>5 DEF Withdraw
  <2>2. TableIs(adj_rib_in')
    BY <1>b, <2>1 DEF TableIs
  <2> QED BY <1>b, <1>c, <1>d, <2>1, <2>2
<1>6. ASSUME NEW n \in Neighbor, FlushErase(n) PROVE FaultInv'
  <2>1. /\ UNCHANGED <<in_queue, adj_rib_in_q, fault>>
        /\ \E k : adj_rib_in' = [j \in DOMAIN adj_rib_in \ {k} |-> adj_rib_in[j]]
    BY <1>6 DEF FlushErase, queueVars
  <2>2. TableIs(adj_rib_in')
    BY <1>b, <2>1 DEF TableIs
  <2> QED BY <1>b, <1>c, <1>d, <2>1, <2>2
<1>f. ASSUME UNCHANGED <<in_queue, adj_rib_in_q, adj_rib_in>>
      PROVE  QueueIs(in_queue') /\ adj_rib_in_q' \in Seq(S) /\ TableIs(adj_rib_in')
  BY <1>b, <1>f
<1>7. ASSUME Failing PROVE FaultInv'
  <2>1. UNCHANGED <<in_queue, adj_rib_in_q, adj_rib_in, odd>>
    BY <1>7, FailingIs
  <2>2. /\ adj_rib_in_q \in Seq(Sound(odd))
        /\ \A k \in DOMAIN adj_rib_in : adj_rib_in[k] \in Sound(odd)
    BY DEF FaultInv
  <2>3. ASSUME NEW n \in Neighbor, ParseOverrun(n) PROVE FaultsOnlyOnOddMessages'
    <3>1. fault' = "overrun" /\ in_queue[n] # <<>> /\ PacketOverruns(Head(in_queue[n]))
      BY <2>3 DEF ParseOverrun, Fails
    <3>2. in_queue[n] \in Seq(Told(n, odd))
      BY DEF FaultInv
    <3>3. Head(in_queue[n]) \in Told(n, odd)
      BY <3>1, <3>2, TailIs
    <3>4. PICK m \in Message[n] : Head(in_queue[n]) = Encode(m) /\ Warned(m, odd)
      BY <3>3 DEF Told
    <3>5. m.update # <<>> /\ m.extended
      BY <3>1, <3>4, OverrunIsExtended
    <3>6. "extended" \in odd
      BY <3>4, <3>5 DEF Warned
    <3> QED BY <2>1, <3>1, <3>6 DEF FaultsOnlyOnOddMessages
  <2>4. ASSUME LogUpdate PROVE FaultsOnlyOnOddMessages'
    <3>1. fault' = "log"
      BY <2>4 DEF LogUpdate, Fails
    <3>2. \E e \in Sound(odd) : BadOrigin(e.attributes)
      <4>1. CASE adj_rib_in_q # <<>> /\ BadOrigin(Head(adj_rib_in_q).attributes)
        <5>1. Head(adj_rib_in_q) \in Sound(odd)
          BY <2>2, <4>1, TailIs
        <5> QED BY <4>1, <5>1
      <4>2. CASE \E k \in DOMAIN adj_rib_in : BadOrigin(adj_rib_in[k].attributes)
        BY <2>2, <4>2
      <4> QED BY <2>4, <4>1, <4>2 DEF LogUpdate
    <3>3. odd \cap {"origin", "extended"} # {}
      BY <3>2 DEF Sound
    <3> QED BY <2>1, <3>1, <3>3 DEF FaultsOnlyOnOddMessages
  <2>5. ASSUME ShowAdjRibIn PROVE FaultsOnlyOnOddMessages'
    <3>1. fault' = "show" /\ \E k \in DOMAIN adj_rib_in :
             ~HasPath(adj_rib_in[k]) \/ BadOrigin(adj_rib_in[k].attributes)
      BY <2>5 DEF ShowAdjRibIn, Fails
    <3>2. odd \cap {"own", "origin", "extended"} # {}
      BY <2>2, <3>1 DEF Sound
    <3> QED BY <2>1, <3>1, <3>2 DEF FaultsOnlyOnOddMessages
  <2>6. ASSUME ApiOrigin PROVE FaultsOnlyOnOddMessages'
    <3>1. fault' = "api" /\ \E k \in DOMAIN adj_rib_in : OriginFaults(adj_rib_in[k])
      BY <2>6 DEF ApiOrigin, Fails
    <3>2. "extended" \in odd
      BY <2>2, <3>1 DEF Sound
    <3> QED BY <2>1, <3>1, <3>2 DEF FaultsOnlyOnOddMessages
  <2>7. ASSUME ApiPrefix PROVE FaultsOnlyOnOddMessages'
    <3>1. fault' = "json" /\ \E k \in DOMAIN adj_rib_in :
             BadOrigin(adj_rib_in[k].attributes) \/ JsonFaults(adj_rib_in[k].attributes)
      BY <2>7 DEF ApiPrefix, Fails, prefix_matches
    <3>2. odd \cap {"as4", "origin", "extended"} # {}
      BY <2>2, <3>1 DEF Sound
    <3> QED BY <2>1, <3>1, <3>2 DEF FaultsOnlyOnOddMessages
  <2>8. ASSUME ShowPrefix PROVE FaultsOnlyOnOddMessages'
    <3>1. fault' = "display" /\ \E k \in DOMAIN adj_rib_in : BadOrigin(adj_rib_in[k].attributes)
      BY <2>8 DEF ShowPrefix, Fails, prefix_matches
    <3>2. odd \cap {"origin", "extended"} # {}
      BY <2>2, <3>1 DEF Sound
    <3> QED BY <2>1, <3>1, <3>2 DEF FaultsOnlyOnOddMessages
  <2>9. FaultsOnlyOnOddMessages'
    BY <1>7, <2>3, <2>4, <2>5, <2>6, <2>7, <2>8 DEF Failing, Search
  <2> QED BY <1>c, <1>f, <2>1, <2>9
<1>9. ASSUME UNCHANGED <<in_queue, adj_rib_in_q, adj_rib_in, fault>> PROVE FaultInv'
  BY <1>c, <1>d, <1>f, <1>9
<1>10. ASSUME NEW n \in Neighbor, SessionDown(n) \/ FlushLoad(n) \/ FlushStore(n) PROVE FaultInv'
  BY <1>9, <1>10 DEF SessionDown, FlushLoad, FlushStore, queueVars
<1>11. ASSUME ParseDone \/ RibQueueDone \/ WdrawQueueDone \/ PeerEntryBegin \/ WithdrawBegin
              \/ UNCHANGED vars
       PROVE  FaultInv'
  BY <1>9, <1>11 DEF ParseDone, RibQueueDone, WdrawQueueDone, PeerEntryBegin, WithdrawBegin,
                     LoadCount, queueVars, vars
<1> QED BY <1>1, <1>2, <1>3, <1>4, <1>5, <1>6, <1>7, <1>10, <1>11
        DEF Next, MainStep, PeerStep, Failing

\* For all routes, attributes and interleavings: the parser overruns memory only in
\* a message with extended lengths, and the log and the searches follow a null
\* pointer or a bad index only over the routes the property names.
THEOREM RouteFaults == Spec => []FaultsOnlyOnOddMessages
<1>1. Init => IInv /\ FaultInv
  <2>1. Init => FaultInv
    BY DEF Init, FaultInv, FaultsOnlyOnOddMessages
  <2> QED BY <2>1, IInvInit
<1>2. IInv /\ FaultInv /\ [Next]_vars => (IInv /\ FaultInv)'
  BY IInvNext, FaultNext
<1>3. FaultInv => FaultsOnlyOnOddMessages
  BY DEF FaultInv
<1> QED BY <1>1, <1>2, <1>3, PTL DEF Spec

=============================================================================
