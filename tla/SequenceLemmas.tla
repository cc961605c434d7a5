--------------------------- MODULE SequenceLemmas ---------------------------
(***************************************************************************)
(* Facts about sequences that several proofs need: induction on positions, *)
(* and what FlattenSeq makes of a sequence of sequences.                   *)
(***************************************************************************)
EXTENDS Integers, Sequences, SequencesExt, WellFoundedInduction, TLAPS

(* A set of naturals with an element has a least one. *)
LEMMA Least ==
  ASSUME NEW T, T \subseteq Nat, T # {}
  PROVE  \E n \in T : \A m \in T : n <= m
<1> DEFINE R == OpToRel(<, Nat)
<1>1. IsWellFoundedOn(R, Nat)
  BY NatLessThanWellFounded
<1>2. PICK n \in T : \A m \in T : ~(<<m, n>> \in R)
  <2> HIDE DEF R
  <2> QED
    BY <1>1, WFMin, Zenon
<1>3. \A m \in T : ~(m < n)
  BY <1>2 DEF OpToRel
<1> QED
  BY <1>3

(* Induction, without an operator for what is proved of each number. *)
LEMMA NatInduct ==
  ASSUME NEW T, T \subseteq Nat, 0 \in T, \A k \in T : k + 1 \in T
  PROVE  Nat \subseteq T
<1> DEFINE U == Nat \ T
<1> SUFFICES ASSUME U # {} PROVE FALSE
  OBVIOUS
<1>1. PICK x \in U : \A y \in U : x <= y
  <2>1. U \subseteq Nat
    OBVIOUS
  <2> HIDE DEF U
  <2> QED
    BY <2>1, Least, Zenon
<1>2. x \in Nat /\ x # 0 /\ x - 1 \in Nat /\ ~(x <= x - 1)
  OBVIOUS
<1>3. x - 1 \in T
  BY <1>1, <1>2
<1> QED
  BY <1>2, <1>3

(* FlattenSeq glues sequences one by one. *)
Glues(f, s) ==
  f = [x \in 1..Len(s) |-> IF x = 1 THEN s[x] ELSE f[x - 1] \o s[x]]

LEMMA Items ==
  ASSUME NEW A, NEW s \in Seq(A)
  PROVE  Len(s) \in Nat /\ DOMAIN s = 1..Len(s) /\ \A x \in 1..Len(s) : s[x] \in A
OBVIOUS

LEMMA Glued ==
  ASSUME NEW S, NEW s \in Seq(S), NEW t \in Seq(S)
  PROVE  /\ s \o t \in Seq(S) /\ Len(s \o t) = Len(s) + Len(t)
         /\ \A x \in 1..Len(s) : (s \o t)[x] = s[x]
         /\ \A x \in 1..Len(t) : (s \o t)[Len(s) + x] = t[x]
OBVIOUS

LEMMA Flattening ==
  ASSUME NEW s, Len(s) \in Nat, Len(s) # 0
  PROVE  \E f : Glues(f, s) /\ FlattenSeq(s) = f[Len(s)]
<1> DEFINE Part(f, k) ==
             f = [x \in 1..k |-> IF x = 1 THEN s[x] ELSE f[x - 1] \o s[x]]
           T == {k \in Nat : \E f : Part(f, k)}
<1>1. 0 \in T
  <2>1. Part([x \in 1..0 |-> s], 0)
      OBVIOUS
  <2> QED
      BY <2>1
<1>2. ASSUME NEW k \in T PROVE k + 1 \in T
  <2>1. PICK f : Part(f, k)
      OBVIOUS
  <2> DEFINE e == IF k = 0 THEN s[1] ELSE f[k] \o s[k + 1]
             g == [x \in 1..(k + 1) |->
                     IF x = k + 1 THEN e ELSE f[x]]
  <2>2. k \in Nat
      OBVIOUS
  <2>3. \A x \in 1..k : f[x] = IF x = 1 THEN s[x] ELSE f[x - 1] \o s[x]
      BY <2>1
  <2>4. ASSUME NEW x \in 1..(k + 1)
        PROVE  g[x] = IF x = 1 THEN s[x] ELSE g[x - 1] \o s[x]
    <3>g. /\ \A y \in 1..k : g[y] = f[y]
          /\ g[k + 1] = e
      <4> HIDE DEF e
      <4> QED
          BY <2>2
    <3> HIDE DEF g
    <3>1. CASE x = k + 1
      <4>1. CASE k = 0
          BY <3>g, <3>1, <4>1
      <4>2. CASE k # 0
        <5>1. k \in 1..k /\ x - 1 = k /\ x # 1
            BY <2>2, <3>1, <4>2
        <5> QED
            BY <3>g, <3>1, <4>2, <5>1
      <4> QED
          BY <4>1, <4>2
    <3>2. CASE x \in 1..k
      <4>1. x # 1 => x - 1 \in 1..k
          BY <2>2, <3>2
      <4> QED
          BY <2>3, <3>g, <3>2, <4>1
    <3> QED
        BY <2>2, <3>1, <3>2
  <2>5. g = [x \in 1..(k + 1) |-> g[x]]
      OBVIOUS
  <2> HIDE DEF g
  <2>6. Part(g, k + 1)
      BY <2>4, <2>5, Zenon
  <2> HIDE DEF Part
  <2> QED
      BY <2>2, <2>6
<1>3. Nat \subseteq T
  <2>1. T \subseteq Nat
      OBVIOUS
  <2> HIDE DEF T
  <2> QED
      BY <1>1, <1>2, <2>1, NatInduct, Zenon
<1>4. \E f : Glues(f, s)
    BY <1>3 DEF Glues
<1> DEFINE h == CHOOSE f : Glues(f, s)
<1>5. Glues(h, s)
    BY <1>4, Zenon
<1>6. FlattenSeq(s) = h[Len(s)]
    BY Zenon DEF FlattenSeq, Glues
<1> QED
    BY <1>5, <1>6

(* The sums of a prefix are those of the whole. *)
LEMMA GluesAgree ==
  ASSUME NEW s, NEW f, Glues(f, s), Len(s) \in Nat,
         NEW k \in 1..Len(s), NEW t, Len(t) = k, \A x \in 1..k : t[x] = s[x],
         NEW g, Glues(g, t)
  PROVE  g[k] = f[k]
<1> DEFINE n == Len(s)
           T == {x \in Nat : x + 1 <= k => g[x + 1] = f[x + 1]}
<1>1. /\ n \in Nat /\ k \in 1..n
      /\ \A x \in 1..n : f[x] = IF x = 1 THEN s[x] ELSE f[x - 1] \o s[x]
      /\ \A x \in 1..k : g[x] = IF x = 1 THEN s[x] ELSE g[x - 1] \o s[x]
  BY DEF Glues
<1> HIDE DEF n
<1>2. 0 \in T
  <2>1. 1 \in 1..k /\ 1 \in 1..n
    BY <1>1
  <2> QED
    BY <1>1, <2>1
<1>3. ASSUME NEW x \in T PROVE x + 1 \in T
  <2>1. x \in Nat
    OBVIOUS
  <2>2. ASSUME x + 2 <= k PROVE g[x + 2] = f[x + 2]
    <3>1. /\ x + 2 \in 1..k /\ x + 2 \in 1..n /\ x + 2 # 1 /\ x + 1 <= k
          /\ (x + 2) - 1 = x + 1
      BY <1>1, <2>1, <2>2
    <3>2. g[x + 1] = f[x + 1]
      BY <3>1
    <3>3. g[x + 2] = g[x + 1] \o s[x + 2] /\ f[x + 2] = f[x + 1] \o s[x + 2]
      BY <1>1, <3>1
    <3> QED
      BY <3>2, <3>3
  <2>3. (x + 1) + 1 = x + 2
    BY <2>1
  <2> QED
    BY <2>1, <2>2, <2>3
<1>4. Nat \subseteq T
  <2>1. T \subseteq Nat
    OBVIOUS
  <2> HIDE DEF T
  <2> QED
    BY <1>2, <1>3, <2>1, NatInduct, Zenon
<1>5. k - 1 \in T /\ (k - 1) + 1 = k
  <2>1. k - 1 \in Nat /\ (k - 1) + 1 = k
    BY <1>1
  <2> HIDE DEF T
  <2> QED
    BY <1>4, <2>1
<1> QED
  BY <1>1, <1>5

(* The sums are sequences, each the one before it and one element more. *)
LEMMA GluesTypes ==
  ASSUME NEW S, NEW s \in Seq(Seq(S)), NEW f, Glues(f, s)
  PROVE  /\ \A x \in 1..Len(s) : f[x] \in Seq(S)
         /\ Len(s) # 0 => f[1] = s[1]
         /\ \A x \in 1..(Len(s) - 1) : f[x + 1] = f[x] \o s[x + 1]
<1> DEFINE n == Len(s)
           T == {x \in Nat : x + 1 <= n => f[x + 1] \in Seq(S)}
<1>i. n \in Nat /\ \A x \in 1..n : s[x] \in Seq(S)
  BY Items, Zenon
<1>1. /\ n \in Nat /\ \A x \in 1..n : s[x] \in Seq(S)
      /\ \A x \in 1..n : f[x] = IF x = 1 THEN s[x] ELSE f[x - 1] \o s[x]
  BY <1>i, Zenon DEF Glues
<1> HIDE DEF n
<1>2. n # 0 => f[1] = s[1]
  <2>1. n # 0 => 1 \in 1..n
    BY <1>1
  <2> QED
    BY <1>1, <2>1
<1>3. \A x \in 1..(n - 1) : f[x + 1] = f[x] \o s[x + 1]
  <2> SUFFICES ASSUME NEW x \in 1..(n - 1) PROVE f[x + 1] = f[x] \o s[x + 1]
    OBVIOUS
  <2>1. x + 1 \in 1..n /\ x + 1 # 1 /\ (x + 1) - 1 = x
    BY <1>1
  <2> QED
    BY <1>1, <2>1
<1>4. 0 \in T
  <2>1. 1 <= n => 1 \in 1..n /\ n # 0
    BY <1>1
  <2> QED
    BY <1>1, <1>2, <2>1
<1>5. ASSUME NEW x \in T PROVE x + 1 \in T
  <2>1. x \in Nat
    OBVIOUS
  <2>2. ASSUME (x + 1) + 1 <= n PROVE f[(x + 1) + 1] \in Seq(S)
    <3>1. x + 1 <= n /\ x + 1 \in 1..(n - 1) /\ (x + 1) + 1 \in 1..n
      BY <1>1, <2>1, <2>2
    <3>2. f[x + 1] \in Seq(S) /\ s[(x + 1) + 1] \in Seq(S)
      BY <1>1, <3>1
    <3>3. f[(x + 1) + 1] = f[x + 1] \o s[(x + 1) + 1]
      BY <1>3, <3>1
    <3> QED
      BY <3>2, <3>3, Glued
  <2> QED
    BY <2>1, <2>2
<1>6. Nat \subseteq T
  <2>1. T \subseteq Nat
    OBVIOUS
  <2> HIDE DEF T
  <2> QED
    BY <1>4, <1>5, <2>1, NatInduct, Zenon
<1>7. \A x \in 1..n : f[x] \in Seq(S)
  <2> SUFFICES ASSUME NEW x \in 1..n PROVE f[x] \in Seq(S)
    OBVIOUS
  <2>1. x - 1 \in Nat /\ (x - 1) + 1 = x /\ x <= n
    BY <1>1
  <2>2. x - 1 \in T
    <3> HIDE DEF T
    <3> QED
      BY <1>6, <2>1
  <2> QED
    BY <2>1, <2>2
<1> QED
  BY <1>2, <1>3, <1>7 DEF n

(* Each sum is the beginning of every later one. *)
LEMMA GluesGrow ==
  ASSUME NEW S, NEW s \in Seq(Seq(S)), NEW f, Glues(f, s),
         NEW k \in 1..Len(s), NEW l \in k..Len(s)
  PROVE  /\ Len(f[k]) \in Nat /\ Len(f[l]) \in Nat /\ Len(f[k]) <= Len(f[l])
         /\ \A x \in 1..Len(f[k]) : f[l][x] = f[k][x]
<1> DEFINE n == Len(s)
           m == Len(f[k])
           Grown(e) == m <= Len(e) /\ \A x \in 1..m : e[x] = f[k][x]
           T == {d \in Nat : k + d <= n => Grown(f[k + d])}
<1>1. /\ n \in Nat /\ k \in 1..n /\ l \in k..n
      /\ \A x \in 1..n : f[x] \in Seq(S) /\ s[x] \in Seq(S)
      /\ \A x \in 1..(n - 1) : f[x + 1] = f[x] \o s[x + 1]
  BY Items, GluesTypes, Zenon
<1>2. /\ \A x \in 1..n : Len(f[x]) \in Nat /\ m \in Nat
      /\ l \in 1..n
  BY <1>1
<1> HIDE DEF n, m
<1>3. 0 \in T
  <2>1. k + 0 = k
    BY <1>1
  <2>2. Grown(f[k])
    BY <1>1, <1>2 DEF m
  <2> QED
    BY <2>1, <2>2
<1>4. ASSUME NEW d \in T PROVE d + 1 \in T
  <2>1. d \in Nat
    OBVIOUS
  <2>2. ASSUME k + (d + 1) <= n PROVE Grown(f[k + (d + 1)])
    <3> DEFINE y == k + d
    <3>1. y \in 1..(n - 1) /\ y \in 1..n /\ y <= n /\ y + 1 \in 1..n /\ k + (d + 1) = y + 1
      BY <1>1, <2>1, <2>2
    <3>2. Grown(f[y])
      BY <3>1
    <3> HIDE DEF y
    <3>3. f[y + 1] = f[y] \o s[y + 1] /\ f[y] \in Seq(S) /\ s[y + 1] \in Seq(S)
      BY <1>1, <3>1
    <3> DEFINE p == f[y]  q == s[y + 1]
    <3>t. p \in Seq(S) /\ q \in Seq(S)
      BY <3>3
    <3>5. Grown(p)
      BY <3>2
    <3> HIDE DEF p, q
    <3>4. /\ Len(p) \in Nat /\ Len(q) \in Nat /\ Len(p \o q) = Len(p) + Len(q)
          /\ \A x \in 1..Len(p) : (p \o q)[x] = p[x]
      BY <3>t, Glued, Items, Zenon
    <3>6. Grown(p \o q)
      BY <1>2, <3>4, <3>5
    <3> QED
      BY <3>1, <3>3, <3>6 DEF p, q
  <2> QED
    BY <2>1, <2>2
<1>5. Nat \subseteq T
  <2>1. T \subseteq Nat
    OBVIOUS
  <2> HIDE DEF T
  <2> QED
    BY <1>3, <1>4, <2>1, NatInduct, Zenon
<1>6. Grown(f[l])
  <2>1. l - k \in Nat /\ k + (l - k) = l /\ l <= n
    BY <1>1
  <2>2. l - k \in T
    <3> HIDE DEF T
    <3> QED
      BY <1>5, <2>1
  <2> QED
    BY <2>1, <2>2
<1> QED
  BY <1>2, <1>6 DEF m

(* What FlattenSeq has between the ends of element k - 1 and of element k  *)
(* is element k.                                                           *)
Ahead(s, k) == Len(FlattenSeq(SubSeq(s, 1, k)))

LEMMA Nothing ==
  ASSUME NEW s PROVE Ahead(s, 0) = 0
<1>1. SubSeq(s, 1, 0) = <<>> /\ Len(<<>>) = 0
  OBVIOUS
<1>2. FlattenSeq(<<>>) = <<>>
  BY <1>1, Zenon DEF FlattenSeq
<1> QED
  BY <1>1, <1>2, Zenon DEF Ahead

LEMMA Beginning ==
  ASSUME NEW S, NEW s \in Seq(Seq(S)), NEW f, Glues(f, s), NEW k \in 1..Len(s)
  PROVE  FlattenSeq(SubSeq(s, 1, k)) = f[k]
<1> DEFINE t == SubSeq(s, 1, k)
<1>1. Len(t) = k /\ \A x \in 1..k : t[x] = s[x]
  <2> DEFINE SS == Seq(S)
  <2>1. s \in Seq(SS) /\ k \in 1..Len(s)
    OBVIOUS
  <2> HIDE DEF SS
  <2> QED
    BY <2>1
<1>2. k \in Nat /\ k # 0 /\ Len(s) \in Nat
  BY Items
<1> HIDE DEF t
<1>3. PICK g : Glues(g, t) /\ FlattenSeq(t) = g[Len(t)]
  BY <1>1, <1>2, Flattening, Zenon
<1>4. g[k] = f[k]
  <2>1. Glues(g, t) /\ Len(t) = k /\ (\A x \in 1..k : t[x] = s[x]) /\ Len(s) \in Nat
    BY <1>1, <1>2, <1>3
  <2> QED
    BY <2>1, GluesAgree
<1> QED
  BY <1>1, <1>3, <1>4, Zenon DEF t

LEMMA Summing ==
  ASSUME NEW S, NEW s \in Seq(Seq(S)), NEW f, Glues(f, s), NEW k \in 1..Len(s)
  PROVE  Ahead(s, k) = Len(f[k])
BY Beginning, Zenon DEF Ahead

LEMMA Cutting ==
  ASSUME NEW S, NEW s \in Seq(Seq(S)), NEW k \in 1..Len(s)
  PROVE  /\ Ahead(s, k - 1) \in Nat
         /\ Ahead(s, k) = Ahead(s, k - 1) + Len(s[k])
         /\ SubSeq(FlattenSeq(s), Ahead(s, k - 1) + 1, Ahead(s, k)) = s[k]
<1> DEFINE n == Len(s)
           a == Ahead(s, k - 1)
           b == Ahead(s, k)
           e == s[k]
           F == FlattenSeq(s)
<1>1. n \in Nat /\ n # 0 /\ k \in 1..n /\ n \in 1..n /\ n \in k..n
  BY Items
<1>2. PICK f : Glues(f, s) /\ F = f[n]
  BY <1>1, Flattening, Zenon
<1>3. b = Len(f[k])
  BY <1>2, Summing, Zenon
<1>4. e \in Seq(S) /\ f[k] \in Seq(S) /\ F \in Seq(S)
  <2>1. e \in Seq(S)
    BY Items, Zenon
  <2>2. \A x \in 1..n : f[x] \in Seq(S)
    BY <1>2, GluesTypes, Zenon
  <2> HIDE DEF n, e, F
  <2> QED
    BY <1>1, <1>2, <2>1, <2>2
<1>5. /\ Len(f[k]) \in Nat /\ Len(f[k]) <= Len(f[n])
      /\ \A x \in 1..Len(f[k]) : f[n][x] = f[k][x]
  BY <1>1, <1>2, GluesGrow
<1>6. /\ a \in Nat /\ b = a + Len(e) /\ Len(e) \in Nat
      /\ \A x \in 1..Len(e) : f[k][a + x] = e[x]
  <2>1. CASE k = 1
    <3>1. a = 0
      BY <2>1, Nothing
    <3>2. f[k] = e
      BY <1>1, <1>2, <2>1, GluesTypes, Zenon
    <3>3. Len(e) \in Nat
      BY <1>4, Items, Zenon
    <3> HIDE DEF a, b, e
    <3> QED
      BY <1>3, <3>1, <3>2, <3>3
  <2>2. CASE k # 1
    <3> DEFINE j == k - 1
               d == f[j]
    <3>1. j \in 1..n /\ j \in 1..(n - 1) /\ j + 1 = k
      BY <1>1, <2>2
    <3>2. a = Len(d)
      BY <1>2, <3>1, Summing, Zenon
    <3>3. f[k] = d \o e /\ d \in Seq(S)
      BY <1>2, <3>1, GluesTypes, Zenon
    <3> HIDE DEF a, b, e, d
    <3>e. e \in Seq(S) /\ d \in Seq(S)
      BY <1>4, <3>3
    <3>4. /\ Len(d) \in Nat /\ Len(e) \in Nat /\ Len(d \o e) = Len(d) + Len(e)
          /\ \A x \in 1..Len(e) : (d \o e)[Len(d) + x] = e[x]
      <4>1. Len(d) \in Nat /\ Len(e) \in Nat
        BY <3>e, Items, Zenon
      <4>2. Len(d \o e) = Len(d) + Len(e)
        BY <3>e, Glued, Zenon
      <4>3. \A x \in 1..Len(e) : (d \o e)[Len(d) + x] = e[x]
        BY <3>e, Glued
      <4> QED
        BY <4>1, <4>2, <4>3
    <3> QED
      BY <1>3, <3>2, <3>3, <3>4
  <2> QED
    BY <2>1, <2>2
<1>7. SubSeq(F, a + 1, b) = e
  <2> HIDE DEF a, b, e, F, n
  <2>1. Len(F) \in Nat /\ b <= Len(F) /\ \A x \in 1..b : F[x] = f[k][x]
    BY <1>2, <1>3, <1>4, <1>5
  <2>2. SubSeq(F, a + 1, b) = [x \in 1..Len(e) |-> F[x + a]]
    BY <1>4, <1>6, <2>1
  <2>3. \A x \in 1..Len(e) : F[x + a] = e[x]
    <3> SUFFICES ASSUME NEW x \in 1..Len(e) PROVE F[x + a] = e[x]
      OBVIOUS
    <3>1. x + a \in 1..b /\ a + x = x + a
      BY <1>6
    <3> QED
      BY <1>6, <2>1, <3>1
  <2>4. e = [x \in 1..Len(e) |-> e[x]]
    BY <1>4
  <2> QED
    BY <2>2, <2>3, <2>4
<1> QED
  BY <1>6, <1>7

(* What a sequence holds behind o, cut out of it. *)
LEMMA CutIs ==
  ASSUME NEW S, NEW d \in Seq(S), NEW e \in Seq(S), NEW o \in Nat,
         o + Len(e) <= Len(d), \A j \in 1..Len(e) : d[o + j] = e[j]
  PROVE  SubSeq(d, o + 1, o + Len(e)) = e
<1> DEFINE l == Len(e)
<1>1. l \in Nat /\ Len(d) \in Nat
  OBVIOUS
<1>2. e = [j \in 1..l |-> e[j]]
  OBVIOUS
<1>3. SubSeq(d, o + 1, o + l) = [j \in 1..l |-> d[j + o]]
  <2> HIDE DEF l
  <2> QED
    BY <1>1
<1>4. ASSUME NEW j \in 1..l PROVE d[j + o] = e[j]
  <2>1. j + o = o + j
    BY <1>1
  <2> QED
    BY <2>1
<1> HIDE DEF l
<1> QED
  BY <1>2, <1>3, <1>4 DEF l

(* FlattenSeq, one element after the other. *)
LEMMA FlattenNothing ==
  ASSUME NEW s PROVE FlattenSeq(SubSeq(s, 1, 0)) = <<>>
<1>1. SubSeq(s, 1, 0) = <<>> /\ Len(<<>>) = 0
  OBVIOUS
<1> QED
  BY <1>1, Zenon DEF FlattenSeq

LEMMA FlattenStep ==
  ASSUME NEW S, NEW s \in Seq(Seq(S)), NEW k \in 1..Len(s)
  PROVE  /\ FlattenSeq(SubSeq(s, 1, k - 1)) \in Seq(S)
         /\ FlattenSeq(SubSeq(s, 1, k)) = FlattenSeq(SubSeq(s, 1, k - 1)) \o s[k]
<1> DEFINE n == Len(s)
           e == s[k]
<1>1. n \in Nat /\ n # 0 /\ k \in 1..n /\ e \in Seq(S)
  BY Items
<1>2. PICK f : Glues(f, s)
  BY <1>1, Flattening, Zenon
<1>3. FlattenSeq(SubSeq(s, 1, k)) = f[k]
  BY <1>2, Beginning, Zenon
<1>4. CASE k = 1
  <2>1. FlattenSeq(SubSeq(s, 1, k - 1)) = <<>>
    BY <1>4, FlattenNothing
  <2>2. f[k] = e
    BY <1>1, <1>2, <1>4, GluesTypes, Zenon
  <2>3. <<>> \o e = e /\ <<>> \in Seq(S)
    BY <1>1
  <2> HIDE DEF e
  <2> QED
    BY <1>3, <2>1, <2>2, <2>3 DEF e
<1>5. CASE k # 1
  <2>1. k - 1 \in 1..n /\ k - 1 \in 1..(n - 1) /\ (k - 1) + 1 = k
    BY <1>1, <1>5
  <2>2. FlattenSeq(SubSeq(s, 1, k - 1)) = f[k - 1]
    BY <1>2, <2>1, Beginning, Zenon
  <2>3. f[k] = f[k - 1] \o e /\ f[k - 1] \in Seq(S)
    BY <1>2, <2>1, GluesTypes, Zenon
  <2> QED
    BY <1>3, <2>2, <2>3
<1> QED
  BY <1>4, <1>5

LEMMA FlattenWhole ==
  ASSUME NEW S, NEW s \in Seq(Seq(S))
  PROVE  /\ FlattenSeq(s) \in Seq(S)
         /\ FlattenSeq(s) = FlattenSeq(SubSeq(s, 1, Len(s)))
         /\ Len(FlattenSeq(s)) = Ahead(s, Len(s))
<1> DEFINE SS == Seq(S)
           n == Len(s)
<1>1. s \in Seq(SS) /\ n \in Nat
  BY Items
<1>2. SubSeq(s, 1, n) = s
  <2> HIDE DEF SS
  <2> QED
    BY <1>1
<1>3. FlattenSeq(s) \in Seq(S)
  <2>1. CASE n = 0
    <3>1. FlattenSeq(s) = <<>>
      BY <1>2, <2>1, FlattenNothing
    <3> QED
      BY <3>1
  <2>2. CASE n # 0
    <3>1. n \in 1..n /\ s[n] \in Seq(S)
      BY <1>1, <2>2
    <3>2. FlattenSeq(SubSeq(s, 1, n - 1)) \in Seq(S)
          /\ FlattenSeq(SubSeq(s, 1, n)) = FlattenSeq(SubSeq(s, 1, n - 1)) \o s[n]
      BY <3>1, FlattenStep, Zenon
    <3> DEFINE a == FlattenSeq(SubSeq(s, 1, n - 1))
               b == s[n]
    <3>3. a \o b \in Seq(S)
      <4>1. a \in Seq(S) /\ b \in Seq(S)
        BY <3>1, <3>2
      <4> HIDE DEF a, b
      <4> QED
        BY <4>1, Glued, Zenon
    <3> QED
      BY <1>2, <3>2, <3>3, Zenon
  <2> QED
    BY <2>1, <2>2
<1> QED
  BY <1>2, <1>3 DEF Ahead

(* What a sequence with one element more flattens to. *)
LEMMA FlattenMore ==
  ASSUME NEW S, NEW s \in Seq(Seq(S)), NEW e \in Seq(S)
  PROVE  FlattenSeq(Append(s, e)) = FlattenSeq(s) \o e
<1> DEFINE SS == Seq(S)
           t == Append(s, e)
           n == Len(s)
<1>1. s \in Seq(SS) /\ e \in SS
  OBVIOUS
<1>2. /\ t \in Seq(SS) /\ Len(t) = n + 1 /\ t[n + 1] = e /\ n \in Nat
      /\ SubSeq(t, 1, n) = s /\ SubSeq(t, 1, n + 1) = t
  <2> HIDE DEF SS
  <2> QED
    BY <1>1
<1>3. n + 1 \in 1..Len(t) /\ (n + 1) - 1 = n
  BY <1>2
<1> HIDE DEF t, n
<1>4. FlattenSeq(SubSeq(t, 1, n + 1)) = FlattenSeq(SubSeq(t, 1, (n + 1) - 1)) \o t[n + 1]
  BY <1>2, <1>3, FlattenStep, Zenon
<1> QED
  BY <1>2, <1>3, <1>4 DEF t

(* Division by a positive number, and its remainder. *)
LEMMA Quotient ==
  ASSUME NEW x \in Int, NEW d \in Nat, d > 0
  PROVE  x = d * (x \div d) + (x % d) /\ x \div d \in Int /\ x % d \in 0..(d - 1)
BY SMT

LEMMA Remainder ==
  ASSUME NEW x \in Int, NEW d \in Nat, d > 0
  PROVE  /\ x % d \in 0..(d - 1)
         /\ x \in Nat => x % d <= x
         /\ x \in Nat /\ x < d => x % d = x
<1>1. x % d \in 0..(d - 1)
  BY Quotient
<1>2. ASSUME x \in Nat PROVE x % d <= x
  <2>1. x \div d >= 0
    BY <1>2, Quotient
  <2>2. d * (x \div d) >= 0
    BY <2>1, Quotient
  <2> QED
    BY <2>2, Quotient
<1>3. ASSUME x \in Nat, x < d PROVE x % d = x
  BY <1>3, Quotient
<1> QED
  BY <1>1, <1>2, <1>3
=============================================================================
