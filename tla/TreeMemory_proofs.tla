------------------------- MODULE TreeMemory_proofs -------------------------
(***************************************************************************)
(* Proofs about TreeMemory: no block is freed twice or lost, and a tree    *)
(* reported as made is whole, for all types and shapes and whichever       *)
(* allocations fail. First paths, shapes and what a node owns; then each   *)
(* call, with the nodes below it (Tidy) and elsewhere (Apart); then the    *)
(* making of a tree, by induction on how deep its calls nest; then the     *)
(* invariant, and each operation.                                          *)
(***************************************************************************)
EXTENDS TreeMemory, SequenceLemmas, FiniteSetTheorems, TLAPS

---------------------------------------------------------------------------
(* Paths.                                                                  *)

LEMMA PathsEqual ==
  ASSUME NEW p \in Seq(Nat), NEW q \in Seq(Nat), Len(p) = Len(q), \A i \in 1..Len(p) : p[i] = q[i]
  PROVE  p = q
<1>1. p = [i \in 1..Len(p) |-> p[i]] /\ q = [i \in 1..Len(q) |-> q[i]]
  OBVIOUS
<1> QED
  BY <1>1

(* One path leads to another when it is the beginning of it. *)
LEMMA PrefixIs ==
  ASSUME NEW p \in Seq(Nat), NEW q \in Seq(Nat)
  PROVE  IsPrefix(p, q) <=> Len(p) <= Len(q) /\ \A i \in 1..Len(p) : p[i] = q[i]
<1>1. Len(p) \in Nat /\ Len(q) \in Nat
  OBVIOUS
<1>2. SubSeq(p, 1, Len(p)) = p
  OBVIOUS
<1>3. ASSUME Len(p) <= Len(q)
      PROVE  SubSeq(p, 1, Len(p)) = SubSeq(q, 1, Len(p)) <=> \A i \in 1..Len(p) : p[i] = q[i]
  <2>1. /\ Len(SubSeq(q, 1, Len(p))) = Len(p) /\ SubSeq(q, 1, Len(p)) \in Seq(Nat)
        /\ \A i \in 1..Len(p) : SubSeq(q, 1, Len(p))[i] = q[i]
    BY <1>1, <1>3
  <2> DEFINE c == SubSeq(q, 1, Len(p))
  <2>2. (p = c) <=> \A i \in 1..Len(p) : p[i] = c[i]
    <3> HIDE DEF c
    <3> SUFFICES ASSUME c \in Seq(Nat), Len(c) = Len(p), \A i \in 1..Len(p) : p[i] = c[i]
                 PROVE  p = c
      BY <2>1 DEF c
    <3> QED
      BY PathsEqual
  <2> QED
    BY <1>2, <2>1, <2>2
<1> QED
  BY <1>1, <1>3 DEF IsPrefix

LEMMA Extends ==
  ASSUME NEW p \in Seq(Nat), NEW k \in Nat
  PROVE  /\ Append(p, k) \in Seq(Nat) /\ Len(Append(p, k)) = Len(p) + 1 /\ Len(p) \in Nat
         /\ Append(p, k)[Len(p) + 1] = k /\ \A i \in 1..Len(p) : Append(p, k)[i] = p[i]
OBVIOUS

LEMMA PrefixSelf ==
  ASSUME NEW p \in Seq(Nat) PROVE IsPrefix(p, p)
BY PrefixIs

LEMMA PrefixChain ==
  ASSUME NEW p \in Seq(Nat), NEW q \in Seq(Nat), NEW r \in Seq(Nat),
         IsPrefix(p, q), IsPrefix(q, r)
  PROVE  IsPrefix(p, r)
<1>1. Len(p) \in Nat /\ Len(q) \in Nat /\ Len(r) \in Nat
  OBVIOUS
<1>2. Len(p) <= Len(q) /\ \A i \in 1..Len(p) : p[i] = q[i]
  BY PrefixIs
<1>3. Len(q) <= Len(r) /\ \A i \in 1..Len(q) : q[i] = r[i]
  BY PrefixIs
<1>4. Len(p) <= Len(r) /\ \A i \in 1..Len(p) : p[i] = r[i]
  BY <1>1, <1>2, <1>3
<1> QED
  BY <1>4, PrefixIs

LEMMA PrefixBoth ==
  ASSUME NEW p \in Seq(Nat), NEW q \in Seq(Nat), IsPrefix(p, q), IsPrefix(q, p)
  PROVE  p = q
<1>1. Len(p) \in Nat /\ Len(q) \in Nat
  OBVIOUS
<1>2. Len(p) <= Len(q) /\ \A i \in 1..Len(p) : p[i] = q[i]
  BY PrefixIs
<1>3. Len(q) <= Len(p)
  BY PrefixIs
<1>4. Len(p) = Len(q)
  BY <1>1, <1>2, <1>3
<1> QED
  BY <1>2, <1>4, PathsEqual

LEMMA PrefixNext ==
  ASSUME NEW p \in Seq(Nat), NEW k \in Nat
  PROVE  IsPrefix(p, Append(p, k)) /\ ~IsPrefix(Append(p, k), p) /\ Append(p, k) # p
<1>1. Append(p, k) \in Seq(Nat) /\ Len(Append(p, k)) = Len(p) + 1 /\ Len(p) \in Nat
      /\ \A i \in 1..Len(p) : Append(p, k)[i] = p[i]
  BY Extends
<1> DEFINE c == Append(p, k)
<1> HIDE DEF c
<1>2. c \in Seq(Nat) /\ Len(c) = Len(p) + 1 /\ Len(p) \in Nat /\ \A i \in 1..Len(p) : c[i] = p[i]
  BY <1>1 DEF c
<1>3. IsPrefix(p, c) /\ ~IsPrefix(c, p) /\ c # p
  BY <1>2, PrefixIs
<1> QED
  BY <1>3 DEF c

(* Below a node and not the node: below one of those next to it, and below *)
(* no other.                                                               *)
LEMMA PrefixBranch ==
  ASSUME NEW p \in Seq(Nat), NEW q \in Seq(Nat), IsPrefix(p, q), q # p
  PROVE  \E k \in Nat : IsPrefix(Append(p, k), q)
<1>1. Len(p) \in Nat /\ Len(q) \in Nat
  OBVIOUS
<1>2. Len(p) <= Len(q) /\ \A i \in 1..Len(p) : p[i] = q[i]
  BY PrefixIs
<1>3. Len(p) # Len(q)
  BY <1>1, <1>2
<1> DEFINE k == q[Len(p) + 1]
<1>4. k \in Nat
  BY <1>1, <1>2, <1>3
<1> DEFINE c == Append(p, k)
<1>5. /\ c \in Seq(Nat) /\ Len(c) = Len(p) + 1 /\ c[Len(p) + 1] = k
      /\ \A i \in 1..Len(p) : c[i] = p[i]
  BY <1>4, Extends, Zenon
<1>6. Len(c) <= Len(q) /\ \A i \in 1..Len(c) : c[i] = q[i]
  <2> DEFINE m == Len(p) + 1
  <2>1. q[m] = k /\ c[m] = k /\ Len(c) = m /\ m \in Nat /\ m <= Len(q) /\ m = Len(p) + 1
    BY <1>1, <1>2, <1>3, <1>5
  <2> HIDE DEF c, k, m
  <2>2. \A i \in 1..m : i \in 1..Len(p) \/ i = m
    BY <1>1, <2>1
  <2> QED
    BY <1>1, <1>2, <1>5, <2>1, <2>2
<1> HIDE DEF c
<1>7. IsPrefix(c, q)
  BY <1>5, <1>6, PrefixIs
<1> QED
  BY <1>4, <1>7 DEF c

LEMMA PrefixEnd ==
  ASSUME NEW p \in Seq(Nat), NEW q \in Seq(Nat), NEW k \in Nat, IsPrefix(Append(p, k), q)
  PROVE  q[Len(p) + 1] = k /\ Len(p) + 1 <= Len(q)
<1> DEFINE c == Append(p, k)
           m == Len(p) + 1
<1>1. c \in Seq(Nat) /\ Len(c) = m /\ c[m] = k /\ m \in 1..m
  BY Extends
<1>2. IsPrefix(c, q)
  OBVIOUS
<1> HIDE DEF c, m
<1>3. q[m] = k /\ m <= Len(q)
  BY <1>1, <1>2, PrefixIs
<1> QED
  BY <1>3 DEF m

LEMMA PrefixFork ==
  ASSUME NEW p \in Seq(Nat), NEW q \in Seq(Nat), NEW j \in Nat, NEW k \in Nat,
         IsPrefix(Append(p, j), q), IsPrefix(Append(p, k), q)
  PROVE  j = k
<1>1. q[Len(p) + 1] = j
  BY PrefixEnd
<1>2. q[Len(p) + 1] = k
  BY PrefixEnd
<1> QED
  BY <1>1, <1>2

(* What lies above a path is found by cutting it. *)
LEMMA PrefixCut ==
  ASSUME NEW p \in Seq(Nat), NEW q \in Seq(Nat)
  PROVE  /\ \A l \in 0..Len(q) : SubSeq(q, 1, l) \in Seq(Nat) /\ Len(SubSeq(q, 1, l)) = l
                                 /\ IsPrefix(SubSeq(q, 1, l), q)
         /\ IsPrefix(p, q) => SubSeq(q, 1, Len(p)) = p /\ Len(p) \in 0..Len(q)
<1>1. ASSUME NEW l \in 0..Len(q)
      PROVE  SubSeq(q, 1, l) \in Seq(Nat) /\ Len(SubSeq(q, 1, l)) = l
             /\ IsPrefix(SubSeq(q, 1, l), q)
  <2> DEFINE c == SubSeq(q, 1, l)
  <2>1. c \in Seq(Nat) /\ Len(c) = l /\ \A i \in 1..l : c[i] = q[i]
    OBVIOUS
  <2>2. l <= Len(q)
    OBVIOUS
  <2> HIDE DEF c
  <2>3. IsPrefix(c, q)
    BY <2>1, <2>2, PrefixIs
  <2> QED
    BY <2>1, <2>3 DEF c
<1>2. ASSUME IsPrefix(p, q) PROVE SubSeq(q, 1, Len(p)) = p /\ Len(p) \in 0..Len(q)
  <2>1. SubSeq(p, 1, Len(p)) = p /\ Len(p) \in Nat /\ Len(q) \in Nat
    OBVIOUS
  <2> QED
    BY <1>2, <2>1 DEF IsPrefix
<1> QED
  BY <1>1, <1>2

---------------------------------------------------------------------------
(* Shapes.                                                                 *)

LEMMA Programs ==
  /\ DOMAIN Program = {"flat", "list", "map", "run_end_encoded"}
  /\ Program["flat"] = <<>>
  /\ Program["list"] = << <<"children", <<>>, 1>>, <<"init", <<1>>>>, <<"name", <<1>>>> >>
  /\ Program["map"] = << <<"children", <<>>, 1>>, <<"init", <<1>>>>, <<"format", <<1>>>>,
              <<"name", <<1>>>>, <<"children", <<1>>, 2>>, <<"init", <<1, 1>>>>,
              <<"init", <<1, 2>>>>, <<"name", <<1, 1>>>>, <<"name", <<1, 2>>>> >>
  /\ Program["run_end_encoded"] = << <<"children", <<>>, 2>>, <<"init", <<1>>>>, <<"name", <<1>>>>,
              <<"init", <<2>>>>, <<"name", <<2>>>> >>
BY DEF Program

LEMMA MadeList == Initialised("list") = {<<>>, <<1>>}
<1> DEFINE P == Program["list"]
<1>1. DOMAIN P = 1..3 /\ P[1][1] = "children" /\ P[2][1] = "init" /\ P[3][1] = "name" /\ P[2][2] = <<1>>
  BY Programs
<1>2. {l \in DOMAIN P : P[l][1] = "init"} = {2}
  BY <1>1
<1> QED
  BY <1>1, <1>2 DEF Initialised

LEMMA MadeMap == Initialised("map") = {<<>>, <<1>>, <<1, 1>>, <<1, 2>>}
<1> DEFINE P == Program["map"]
<1>1. /\ DOMAIN P = 1..9 /\ P[1][1] = "children" /\ P[2][1] = "init" /\ P[3][1] = "format"
      /\ P[4][1] = "name" /\ P[5][1] = "children" /\ P[6][1] = "init" /\ P[7][1] = "init"
      /\ P[8][1] = "name" /\ P[9][1] = "name"
  BY Programs
<1>2. P[2][2] = <<1>> /\ P[6][2] = <<1, 1>> /\ P[7][2] = <<1, 2>>
  BY Programs
<1> HIDE DEF P
<1>3. {l \in DOMAIN P : P[l][1] = "init"} = {2, 6, 7}
  BY <1>1
<1> QED
  BY <1>2, <1>3 DEF Initialised, P

LEMMA MadeFlat == Initialised("flat") = {<<>>}
<1>1. DOMAIN Program["flat"] = {}
  BY Programs
<1> QED
  BY <1>1 DEF Initialised

LEMMA MadeRunEnd == Initialised("run_end_encoded") = {<<>>, <<1>>, <<2>>}
<1> DEFINE P == Program["run_end_encoded"]
<1>1. /\ DOMAIN P = 1..5 /\ P[1][1] = "children" /\ P[2][1] = "init" /\ P[3][1] = "name"
      /\ P[4][1] = "init" /\ P[5][1] = "name"
  BY Programs
<1>2. P[2][2] = <<1>> /\ P[4][2] = <<2>>
  BY Programs
<1> HIDE DEF P
<1>3. {l \in DOMAIN P : P[l][1] = "init"} = {2, 4}
  BY <1>1
<1> QED
  BY <1>2, <1>3 DEF Initialised, P

(* The children of a node are the numbered nodes next to it. *)
LEMMA ChildIs ==
  ASSUME NEW sh, sh \subseteq Seq(Nat), NEW p \in Seq(Nat)
  PROVE  /\ Children(sh, p) \subseteq Nat \ {0}
         /\ \A k \in Nat \ {0} : k \in Children(sh, p) <=> Append(p, k) \in sh
<1>1. ASSUME NEW k \in Nat \ {0}, Append(p, k) \in sh PROVE k \in Children(sh, p)
  <2> DEFINE q == Append(p, k)
  <2>1. q # <<>> /\ Front(q) = p /\ Last(q) = k
    <3>1. q \in Seq(Nat) /\ Len(q) = Len(p) + 1 /\ Len(p) \in Nat /\ q[Len(p) + 1] = k
          /\ \A i \in 1..Len(p) : q[i] = p[i]
      BY Extends
    <3> HIDE DEF q
    <3>2. Len(q) - 1 = Len(p) /\ q # <<>>
      BY <3>1
    <3>3. SubSeq(q, 1, Len(p)) \in Seq(Nat) /\ Len(SubSeq(q, 1, Len(p))) = Len(p)
          /\ \A i \in 1..Len(p) : SubSeq(q, 1, Len(p))[i] = p[i]
      BY <3>1
    <3> QED
      BY <3>1, <3>2, <3>3, PathsEqual DEF Front, Last
  <2> QED
    BY <1>1, <2>1 DEF Children
<1>2. ASSUME NEW k \in Children(sh, p)
      PROVE  k \in Nat \ {0} /\ Append(p, k) \in sh
  <2>1. PICK q \in sh : q # <<>> /\ Front(q) = p /\ Last(q) = k /\ k # 0
    BY DEF Children
  <2>2. q \in Seq(Nat) /\ Len(q) \in Nat /\ Len(q) # 0 /\ Len(q) \in 1..Len(q)
    BY <2>1
  <2>3. k \in Nat \ {0}
    BY <2>1, <2>2 DEF Last
  <2>4. Append(p, k) = q
    <3> DEFINE m == Len(q) - 1
    <3>1. p = SubSeq(q, 1, m) /\ m \in Nat /\ m <= Len(q) /\ k = q[m + 1] /\ m + 1 = Len(q)
      BY <2>1, <2>2 DEF Front, Last
    <3> HIDE DEF m
    <3>2. Len(p) = m /\ \A i \in 1..m : p[i] = q[i]
      BY <2>2, <3>1
    <3> DEFINE c == Append(p, k)
    <3>3. c \in Seq(Nat) /\ Len(c) = m + 1 /\ c[m + 1] = k /\ \A i \in 1..m : c[i] = p[i]
      BY <2>3, <3>2, Extends, Zenon
    <3> HIDE DEF c
    <3>4. \A i \in 1..(m + 1) : i \in 1..m \/ i = m + 1
      BY <3>1
    <3>5. \A i \in 1..Len(c) : c[i] = q[i]
      BY <3>1, <3>2, <3>3, <3>4
    <3>6. c = q
      BY <2>2, <3>1, <3>3, <3>5, PathsEqual
    <3> QED
      BY <3>6 DEF c
  <2> QED
    BY <2>1, <2>3, <2>4
<1> QED
  BY <1>1, <1>2

LEMMA Counted ==
  ASSUME NEW n \in Nat PROVE Cardinality(1..n) = n /\ IsFiniteSet(1..n)
<1>1. IsFiniteSet(1..n) /\ Cardinality(1..n) = IF 1 > n THEN 0 ELSE n - 1 + 1
  BY FS_Interval
<1> QED
  BY <1>1

LEMMA NumberedFrom ==
  ASSUME NEW sh, NEW p, NEW n \in Nat, Children(sh, p) = 1..n
  PROVE  Children(sh, p) = 1..Arity(sh, p)
BY Counted DEF Arity

LEMMA AppendEqual ==
  ASSUME NEW p \in Seq(Nat), NEW q \in Seq(Nat), NEW j \in Nat, NEW k \in Nat
  PROVE  Append(p, j) = Append(q, k) <=> p = q /\ j = k
<1> SUFFICES ASSUME Append(p, j) = Append(q, k) PROVE p = q /\ j = k
  OBVIOUS
<1>1. Append(p, j) \in Seq(Nat) /\ Len(Append(p, j)) = Len(p) + 1 /\ Append(p, j)[Len(p) + 1] = j
      /\ Len(p) \in Nat /\ \A i \in 1..Len(p) : Append(p, j)[i] = p[i]
  BY Extends
<1>2. Append(q, k) \in Seq(Nat) /\ Len(Append(q, k)) = Len(q) + 1 /\ Append(q, k)[Len(q) + 1] = k
      /\ Len(q) \in Nat /\ \A i \in 1..Len(q) : Append(q, k)[i] = q[i]
  BY Extends
<1>3. Len(p) = Len(q) /\ j = k /\ \A i \in 1..Len(p) : p[i] = q[i]
  BY <1>1, <1>2
<1> QED
  BY <1>3, PathsEqual

LEMMA CutAppend ==
  ASSUME NEW p \in Seq(Nat), NEW k \in Nat, NEW l \in 0..Len(Append(p, k))
  PROVE  SubSeq(Append(p, k), 1, l) = IF l = Len(p) + 1 THEN Append(p, k) ELSE SubSeq(p, 1, l)
<1> DEFINE c == Append(p, k)
<1>1. c \in Seq(Nat) /\ Len(c) = Len(p) + 1 /\ Len(p) \in Nat /\ \A i \in 1..Len(p) : c[i] = p[i]
  BY Extends
<1>2. l \in 0..Len(c)
  OBVIOUS
<1> HIDE DEF c
<1>3. CASE l = Len(p) + 1
  BY <1>1, <1>3 DEF c
<1>4. CASE l # Len(p) + 1
  <2>1. l \in 0..Len(p)
    BY <1>1, <1>2, <1>4
  <2>2. SubSeq(c, 1, l) = [i \in 1..l |-> c[i]] /\ SubSeq(p, 1, l) = [i \in 1..l |-> p[i]]
    BY <1>1, <2>1
  <2>3. \A i \in 1..l : c[i] = p[i]
    BY <1>1, <2>1
  <2> QED
    BY <1>4, <2>2, <2>3 DEF c
<1> QED
  BY <1>3, <1>4

LEMMA ShapeOf ==
  ASSUME NEW sh, IsShape(sh), NEW p \in sh
  PROVE  /\ p \in Seq(Nat) /\ Arity(sh, p) \in Nat
         /\ \A q \in Seq(Nat) : IsPrefix(q, p) => q \in sh
         /\ \A k \in Nat \ {0} : k \in 1..Arity(sh, p) <=> Append(p, k) \in sh
<1>1. p \in Seq(Nat) /\ sh \subseteq Seq(Nat)
  BY DEF IsShape
<1>2. ASSUME NEW q \in Seq(Nat), IsPrefix(q, p) PROVE q \in sh
  <2>1. SubSeq(p, 1, Len(q)) = q /\ Len(q) \in 0..Len(p)
    BY <1>1, <1>2, PrefixCut
  <2> QED
    BY <2>1 DEF IsShape
<1>3. Children(sh, p) = 1..Arity(sh, p)
  BY DEF IsShape
<1>4. \A k \in Nat \ {0} : k \in Children(sh, p) <=> Append(p, k) \in sh
  BY <1>1, ChildIs
<1>5. Arity(sh, p) \in Nat
  <2> DEFINE N == {r \in sh : r # <<>> /\ Front(r) = p}
             f == [q \in N |-> Last(q)]
             S == {Last(q) : q \in N}
  <2>1. IsFiniteSet(sh)
    BY DEF IsShape
  <2>2. IsFiniteSet(N)
    BY <2>1, FS_Subset
  <2>3. IsFiniteSet(S)
    <3>1. f \in Surjection(N, S)
      BY DEF Surjection
    <3> QED
      BY <2>2, <3>1, FS_Surjection
  <2>4. IsFiniteSet(Children(sh, p))
    BY <2>3, FS_Subset DEF Children
  <2> QED
    BY <2>4, FS_CardinalityType DEF Arity
<1> QED
  BY <1>1, <1>2, <1>3, <1>4, <1>5

(* A shape with one more child is a shape. *)
LEMMA ShapeGrows ==
  ASSUME NEW sh, IsShape(sh), NEW p \in sh, NEW n \in Nat, Children(sh, p) = 1..n
  PROVE  LET q == Append(p, n + 1)  new == sh \cup {q} IN
         /\ IsShape(new) /\ Children(new, p) = 1..(n + 1) /\ Children(new, q) = 1..0
         /\ \A r \in sh \ {p} : Children(new, r) = Children(sh, r)
<1> DEFINE q == Append(p, n + 1)
           new == sh \cup {q}
<1>1. p \in Seq(Nat) /\ sh \subseteq Seq(Nat) /\ n + 1 \in Nat \ {0} /\ n + 1 \notin 1..n
  BY DEF IsShape
<1>2. q \in Seq(Nat) /\ new \subseteq Seq(Nat)
  BY <1>1, Extends
<1>3. q \notin sh
  BY <1>1, ChildIs
<1>4. ASSUME NEW r \in new, NEW k \in Nat \ {0}
      PROVE  Append(r, k) \in new <=> \/ r \in sh /\ Append(r, k) \in sh
                                      \/ r = p /\ k = n + 1
  <2>1. r \in Seq(Nat) /\ (Append(r, k) = q <=> r = p /\ k = n + 1)
    <3>1. r \in Seq(Nat)
      BY <1>2
    <3> QED
      BY <1>1, <3>1, AppendEqual
  <2>2. Append(q, k) \notin sh
    <3>1. IsPrefix(q, Append(q, k))
      BY <1>2, PrefixNext
    <3> QED
      BY <1>2, <1>3, <3>1, ShapeOf
  <2> HIDE DEF q
  <2>3. CASE r \in sh
    BY <2>1, <2>3 DEF new
  <2>4. CASE r = q
    <3>1. r # p /\ r \notin sh
      BY <1>3, <2>4
    <3> QED
      BY <2>1, <2>2, <2>4, <3>1
  <2> QED
    BY <2>3, <2>4
<1>5. \A r \in new : Children(new, r) \subseteq Nat \ {0}
                     /\ \A k \in Nat \ {0} : k \in Children(new, r) <=> Append(r, k) \in new
  BY <1>2, ChildIs
<1>6. \A r \in sh : Children(sh, r) \subseteq Nat \ {0}
                     /\ \A k \in Nat \ {0} : k \in Children(sh, r) <=> Append(r, k) \in sh
  BY <1>1, ChildIs
<1>7. Children(new, p) = 1..(n + 1)
  <2>1. \A k \in Nat \ {0} : k \in Children(new, p) <=> k \in 1..n \/ k = n + 1
    BY <1>4, <1>5, <1>6
  <2>2. Children(new, p) \subseteq Nat \ {0}
    BY <1>5
  <2>3. 1..(n + 1) \subseteq Nat \ {0} /\ \A k \in Nat \ {0} : k \in 1..(n + 1) <=> k \in 1..n \/ k = n + 1
    OBVIOUS
  <2> HIDE DEF new
  <2> QED
    BY <2>1, <2>2, <2>3
<1>8. Children(new, q) = 1..0
  <2>1. \A k \in Nat \ {0} : k \notin Children(new, q)
    BY <1>3, <1>4, <1>5
  <2>2. Children(new, q) \subseteq Nat \ {0} /\ 1..0 = {}
    <3>1. q \in new /\ 1..0 = {}
      OBVIOUS
    <3> HIDE DEF q, new
    <3> QED
      BY <1>5, <3>1
  <2> HIDE DEF new, q
  <2> QED
    BY <2>1, <2>2
<1>9. ASSUME NEW r \in sh \ {p} PROVE Children(new, r) = Children(sh, r)
  <2>1. \A k \in Nat \ {0} : k \in Children(new, r) <=> k \in Children(sh, r)
    BY <1>4, <1>5, <1>6
  <2> QED
    BY <1>5, <1>6, <2>1
<1>10. IsFiniteSet(new) /\ <<>> \in new
  BY FS_AddElement DEF IsShape
<1>11. ASSUME NEW r \in new PROVE \A l \in 0..Len(r) : SubSeq(r, 1, l) \in new
  <2>1. CASE r \in sh
    BY <2>1 DEF IsShape
  <2>2. CASE r = q
    <3> SUFFICES ASSUME NEW l \in 0..Len(r) PROVE SubSeq(r, 1, l) \in new
      OBVIOUS
    <3>1. SubSeq(q, 1, l) = IF l = Len(p) + 1 THEN q ELSE SubSeq(p, 1, l)
      BY <1>1, <2>2, CutAppend
    <3>2. l # Len(p) + 1 => l \in 0..Len(p)
      BY <1>1, <2>2, Extends
    <3>3. \A m \in 0..Len(p) : SubSeq(p, 1, m) \in sh
      BY DEF IsShape
    <3> QED
      BY <2>2, <3>1, <3>2, <3>3
  <2> QED
    BY <2>1, <2>2
<1>12. ASSUME NEW r \in new PROVE Children(new, r) = 1..Arity(new, r)
  <2>1. CASE r = p
    BY <1>1, <1>7, <2>1, NumberedFrom
  <2>2. CASE r = q
    BY <1>8, <2>2, NumberedFrom
  <2>3. CASE r \in sh \ {p}
    <3>1. Children(new, r) = 1..Arity(sh, r) /\ Arity(sh, r) \in Nat
      BY <1>9, <2>3, ShapeOf DEF IsShape
    <3> QED
      BY <3>1, NumberedFrom
  <2> QED
    BY <2>1, <2>2, <2>3
<1> QED
  BY <1>2, <1>7, <1>8, <1>9, <1>10, <1>11, <1>12 DEF IsShape

LEMMA ShapeOfOne == IsShape({<<>>}) /\ Children({<<>>}, <<>>) = 1..0
<1> DEFINE sh == {<<>>}
<1>1. sh \subseteq Seq(Nat) /\ <<>> \in Seq(Nat)
  OBVIOUS
<1>2. \A k \in Nat : Append(<<>>, k) # <<>>
  BY <1>1, PrefixNext
<1>3. Children(sh, <<>>) = 1..0
  <2>1. /\ Children(sh, <<>>) \subseteq Nat \ {0}
        /\ \A k \in Nat \ {0} : k \in Children(sh, <<>>) <=> Append(<<>>, k) \in sh
    BY <1>1, ChildIs
  <2>2. \A k \in Nat \ {0} : k \notin Children(sh, <<>>)
    BY <1>2, <2>1
  <2>3. 1..0 = {}
    OBVIOUS
  <2> QED
    BY <2>1, <2>2, <2>3
<1>4. Children(sh, <<>>) = 1..Arity(sh, <<>>)
  BY <1>3, NumberedFrom
<1>5. IsFiniteSet(sh)
  BY FS_Singleton
<1>6. \A l \in 0..Len(<<>>) : SubSeq(<<>>, 1, l) = <<>>
  OBVIOUS
<1> QED
  BY <1>1, <1>3, <1>4, <1>5, <1>6 DEF IsShape

LEMMA ProgramShapes ==
  /\ IsShape(Initialised("flat")) /\ IsShape(Initialised("list"))
  /\ IsShape(Initialised("map")) /\ IsShape(Initialised("run_end_encoded"))
<1> DEFINE e == <<>>  a == <<1>>  b == <<1, 1>>  c == <<1, 2>>  d == <<2>>
<1>1. a = Append(e, 0 + 1) /\ d = Append(e, 1 + 1) /\ b = Append(a, 0 + 1) /\ c = Append(a, 1 + 1)
  OBVIOUS
<1>2. a # e /\ e \in {e} /\ a \in {e, a} /\ b # a
  OBVIOUS
<1> HIDE DEF e, a, b, c, d
<1>3. IsShape({e}) /\ Children({e}, e) = 1..0
  BY ShapeOfOne DEF e
<1>4. IsShape({e} \cup {a}) /\ Children({e} \cup {a}, e) = 1..(0 + 1) /\ Children({e} \cup {a}, a) = 1..0
  BY <1>1, <1>2, <1>3, ShapeGrows
<1>5. {e} \cup {a} = {e, a} /\ 0 + 1 = 1
  OBVIOUS
<1>6. IsShape({e, a}) /\ Children({e, a}, e) = 1..1 /\ Children({e, a}, a) = 1..0
  BY <1>4, <1>5
<1>7. IsShape({e, a} \cup {d})
  BY <1>1, <1>6, ShapeGrows
<1>8. IsShape({e, a} \cup {b}) /\ Children({e, a} \cup {b}, a) = 1..1
  <2>1. a \in {e, a} /\ 0 \in Nat /\ 0 + 1 = 1
    OBVIOUS
  <2>2. LET q == Append(a, 0 + 1)  new == {e, a} \cup {q} IN
          IsShape(new) /\ Children(new, a) = 1..(0 + 1)
    BY <1>6, <2>1, ShapeGrows
  <2> QED
    BY <1>1, <2>1, <2>2
<1>9. IsShape(({e, a} \cup {b}) \cup {c})
  BY <1>1, <1>8, ShapeGrows
<1>10. {e, a} \cup {d} = {e, a, d} /\ ({e, a} \cup {b}) \cup {c} = {e, a, b, c}
  OBVIOUS
<1> QED
  BY <1>3, <1>6, <1>7, <1>9, <1>10, MadeFlat, MadeList, MadeMap, MadeRunEnd DEF e, a, b, c, d

(* The paths are those of shapes: paths, and with each the ones above it. *)
MadeShapes == {{<<>>}} \cup Shapes \cup {Initialised(type) : type \in Types}

LEMMA AreShapes ==
  \A sh \in MadeShapes : IsShape(sh) /\ sh \subseteq Paths
<1>1. \A type \in Types : type \in {"flat", "list", "map", "run_end_encoded"}
  BY TypesAssumption, Programs
<1>2. \A type \in Types : IsShape(Initialised(type))
  BY <1>1, ProgramShapes
<1> QED
  BY <1>2, ShapeOfOne, ShapesAssumption DEF MadeShapes, Paths

LEMMA PathsAre ==
  /\ Paths \subseteq Seq(Nat)
  /\ \A p \in Paths, q \in Seq(Nat) : IsPrefix(q, p) => q \in Paths
<1>1. ASSUME NEW p \in Paths
      PROVE  p \in Seq(Nat) /\ \A q \in Seq(Nat) : IsPrefix(q, p) => q \in Paths
  <2>1. PICK sh \in MadeShapes : p \in sh
    BY DEF Paths, MadeShapes
  <2>2. IsShape(sh) /\ sh \subseteq Paths
    BY AreShapes
  <2> QED
    BY <2>1, <2>2, ShapeOf
<1> QED
  BY <1>1

---------------------------------------------------------------------------
(* What a node owns.                                                       *)

LEMMA OwnsSelf ==
  ASSUME NEW s, NEW t, NEW p \in Seq(Nat) PROVE Owns(s, t, p, p)
<1>1. Len(p) \in Nat /\ Len(p)..(Len(p) - 1) = {}
  OBVIOUS
<1>2. IsPrefix(p, p)
  BY PrefixSelf
<1> QED
  BY <1>1, <1>2 DEF Owns

LEMMA OwnsPrefix ==
  ASSUME NEW s, NEW t, NEW p, NEW q, Owns(s, t, p, q) PROVE IsPrefix(p, q)
BY DEF Owns

LEMMA CutTwice ==
  ASSUME NEW p \in Seq(Nat), NEW q \in Seq(Nat), IsPrefix(p, q), NEW l \in 0..Len(p)
  PROVE  SubSeq(p, 1, l) = SubSeq(q, 1, l)
<1>1. Len(p) \in Nat /\ Len(q) \in Nat /\ Len(p) <= Len(q) /\ \A i \in 1..Len(p) : p[i] = q[i]
  BY PrefixIs
<1>2. SubSeq(p, 1, l) = [i \in 1..l |-> p[i]] /\ SubSeq(q, 1, l) = [i \in 1..l |-> q[i]]
  BY <1>1
<1>3. \A i \in 1..l : p[i] = q[i]
  BY <1>1
<1> QED
  BY <1>2, <1>3

LEMMA OwnsThrough ==
  ASSUME NEW s, NEW t, NEW p \in Seq(Nat), NEW x \in Seq(Nat), NEW q \in Seq(Nat),
         IsPrefix(p, x), IsPrefix(x, q)
  PROVE  Owns(s, t, p, q) <=> Owns(s, t, p, x) /\ Owns(s, t, x, q)
<1> DEFINE At(y, l) == Step(s, t, SubSeq(y, 1, l), y[l + 1])
           a == Len(p)
           b == Len(x)
           c == Len(q)
<1>1. IsPrefix(p, q)
  BY PrefixChain
<1>2. /\ a \in Nat /\ b \in Nat /\ c \in Nat /\ a <= b /\ b <= c
      /\ \A i \in 1..b : x[i] = q[i]
  BY PrefixIs
<1>3. \A l \in a..(b - 1) : At(x, l) = At(q, l)
  <2> SUFFICES ASSUME NEW l \in a..(b - 1) PROVE At(x, l) = At(q, l)
    OBVIOUS
  <2>1. l \in 0..b /\ l + 1 \in 1..b
    BY <1>2
  <2>2. SubSeq(x, 1, l) = SubSeq(q, 1, l) /\ x[l + 1] = q[l + 1]
    BY <1>2, <2>1, CutTwice
  <2> QED
    BY <2>2
<1>4. /\ Owns(s, t, p, q) <=> \A l \in a..(c - 1) : At(q, l)
      /\ Owns(s, t, p, x) <=> \A l \in a..(b - 1) : At(x, l)
      /\ Owns(s, t, x, q) <=> \A l \in b..(c - 1) : At(q, l)
  BY <1>1 DEF Owns
<1>5. \A l \in a..(c - 1) : l \in a..(b - 1) \/ l \in b..(c - 1)
  BY <1>2
<1>6. (\A l \in a..(b - 1) : l \in a..(c - 1)) /\ (\A l \in b..(c - 1) : l \in a..(c - 1))
  BY <1>2
<1> HIDE DEF At, a, b, c
<1> QED
  BY <1>3, <1>4, <1>5, <1>6

LEMMA OwnsNext ==
  ASSUME NEW s, NEW t, NEW p \in Seq(Nat), NEW k \in Nat
  PROVE  Owns(s, t, p, Append(p, k)) <=> Step(s, t, p, k)
<1> DEFINE c == Append(p, k)
<1>1. Len(c) = Len(p) + 1 /\ Len(p) \in Nat /\ c[Len(p) + 1] = k
  BY Extends
<1>2. IsPrefix(p, c) /\ c \in Seq(Nat)
  BY PrefixNext, Extends
<1>3. SubSeq(c, 1, Len(p)) = p
  BY <1>2, PrefixCut
<1>4. Len(p)..(Len(c) - 1) = {Len(p)}
  BY <1>1
<1> HIDE DEF c
<1>5. Owns(s, t, p, c) <=> Step(s, t, p, k)
  BY <1>1, <1>2, <1>3, <1>4 DEF Owns
<1> QED
  BY <1>5 DEF c

LEMMA OwnsBranch ==
  ASSUME NEW s, NEW t, NEW p \in Seq(Nat), NEW k \in Nat, NEW q \in Seq(Nat),
         IsPrefix(Append(p, k), q)
  PROVE  Owns(s, t, p, q) <=> Step(s, t, p, k) /\ Owns(s, t, Append(p, k), q)
<1>1. Append(p, k) \in Seq(Nat) /\ IsPrefix(p, Append(p, k))
  BY PrefixNext, Extends
<1>2. Owns(s, t, p, q) <=> Owns(s, t, p, Append(p, k)) /\ Owns(s, t, Append(p, k), q)
  BY <1>1, OwnsThrough
<1> QED
  BY <1>2, OwnsNext

(* What a node owns depends on the nodes on the way alone. *)
LEMMA OwnsSame ==
  ASSUME NEW s, NEW r, NEW t, NEW p \in Paths, NEW q \in Paths,
         \A x \in Paths, k \in Nat :
           IsPrefix(p, x) /\ IsPrefix(Append(x, k), q) => (Step(r, t, x, k) <=> Step(s, t, x, k))
  PROVE  Owns(r, t, p, q) <=> Owns(s, t, p, q)
<1>1. p \in Seq(Nat) /\ q \in Seq(Nat) /\ Len(p) \in Nat /\ Len(q) \in Nat
  BY PathsAre
<1>2. ASSUME IsPrefix(p, q), NEW l \in Len(p)..(Len(q) - 1)
      PROVE  Step(r, t, SubSeq(q, 1, l), q[l + 1]) <=> Step(s, t, SubSeq(q, 1, l), q[l + 1])
  <2> DEFINE x == SubSeq(q, 1, l)
             y == SubSeq(q, 1, l + 1)
             k == q[l + 1]
  <2>1. l \in 0..Len(q) /\ l + 1 \in 0..Len(q) /\ k \in Nat /\ l \in Nat
    BY <1>1
  <2>2. x \in Seq(Nat) /\ Len(x) = l /\ IsPrefix(x, q) /\ y \in Seq(Nat) /\ Len(y) = l + 1
        /\ IsPrefix(y, q)
    BY <1>1, <2>1, PrefixCut
  <2>3. x \in Paths
    BY <2>2, PathsAre
  <2>4. IsPrefix(p, x)
    <3>1. Len(p) <= Len(q) /\ \A i \in 1..Len(p) : p[i] = q[i]
      BY <1>1, <1>2, PrefixIs
    <3>2. \A i \in 1..l : x[i] = q[i]
      BY <1>1, <2>1
    <3>4. l \in Nat /\ Len(p) <= l /\ \A i \in 1..Len(p) : i \in 1..l
      BY <1>1
    <3>5. Len(x) = l
      BY <2>2
    <3> HIDE DEF x
    <3>3. Len(p) <= Len(x) /\ \A i \in 1..Len(p) : p[i] = x[i]
      BY <3>1, <3>2, <3>4, <3>5
    <3> QED
      BY <1>1, <2>2, <3>3, PrefixIs
  <2>5. Append(x, k) = y
    <3> DEFINE c == Append(x, k)
    <3>1. c \in Seq(Nat) /\ Len(c) = l + 1 /\ c[l + 1] = k /\ \A i \in 1..l : c[i] = x[i]
      BY <2>1, <2>2, Extends
    <3>2. (\A i \in 1..l : x[i] = q[i]) /\ \A i \in 1..(l + 1) : y[i] = q[i]
      BY <1>1, <2>1
    <3> HIDE DEF c, x, y
    <3>3. \A i \in 1..(l + 1) : i \in 1..l \/ i = l + 1
      BY <2>1
    <3>4. c = y
      BY <2>2, <3>1, <3>2, <3>3, PathsEqual DEF k
    <3> QED
      BY <3>4 DEF c
  <2> HIDE DEF x, y, k
  <2>6. Step(r, t, x, k) <=> Step(s, t, x, k)
    BY <2>1, <2>2, <2>3, <2>4, <2>5
  <2> QED
    BY <2>6 DEF x, k
<1> QED
  BY <1>2 DEF Owns

---------------------------------------------------------------------------
(* Memories.                                                               *)

Block == Trees \X Paths \X What

LEMMA Plain ==
  /\ Released \in Nodes /\ Empty \in Nodes
  /\ Empty.up /\ ~Empty.table /\ Empty.kids = {} /\ Empty.n = 0 /\ ~Empty.dict /\ Empty.held = {}
  /\ ~Released.up /\ ~Released.table /\ Released.held = {}
<1>1. Released \in Nodes /\ ~Released.up /\ ~Released.table /\ Released.held = {}
      /\ Released.kids = {} /\ Released.n = 0 /\ ~Released.dict
  BY DEF Released, Nodes
<1>2. Empty \in Nodes
  BY <1>1 DEF Empty, Nodes
<1>3. Empty.up /\ ~Empty.table /\ Empty.kids = {} /\ Empty.n = 0 /\ ~Empty.dict /\ Empty.held = {}
  BY <1>1 DEF Empty, Nodes
<1> QED
  BY <1>1, <1>2, <1>3

LEMMA MemoryIs ==
  ASSUME NEW s \in Memories
  PROVE  /\ s.heap \subseteq Block /\ s.ok \in BOOLEAN /\ s.broken \in BOOLEAN
         /\ \A t \in Trees, p \in Paths : Node(s, t, p) \in Nodes
BY DEF Memories, Node, Block

LEMMA NodeSet ==
  ASSUME NEW s \in Memories, NEW t \in Trees, NEW p \in Paths, NEW node \in Nodes
  PROVE  LET r == SetNode(s, t, p, node) IN
         /\ r \in Memories /\ r.heap = s.heap /\ r.ok = s.ok /\ r.broken = s.broken
         /\ Node(r, t, p) = node
         /\ \A x \in Trees, q \in Paths : x # t \/ q # p => Node(r, x, q) = Node(s, x, q)
BY DEF Memories, SetNode, Node

LEMMA Failed ==
  ASSUME NEW s \in Memories
  PROVE  LET r == Fail(s) IN
         /\ r \in Memories /\ r.heap = s.heap /\ ~r.ok /\ r.broken = s.broken
         /\ \A x \in Trees, q \in Paths : Node(r, x, q) = Node(s, x, q)
BY DEF Memories, Fail, Node

LEMMA Taken ==
  ASSUME NEW s \in Memories, NEW B \in SUBSET Block
  PROVE  LET r == Take(s, B) IN
         /\ r \in Memories /\ r.heap = s.heap \cup B /\ r.ok = s.ok
         /\ ~s.broken /\ B \cap s.heap = {} => ~r.broken
         /\ \A x \in Trees, q \in Paths : Node(r, x, q) = Node(s, x, q)
BY DEF Memories, Take, Node, Block

LEMMA Freed ==
  ASSUME NEW s \in Memories, NEW B
  PROVE  LET r == Free(s, B) IN
         /\ r \in Memories /\ r.heap = s.heap \ B /\ r.ok = s.ok
         /\ ~s.broken /\ B \subseteq s.heap => ~r.broken
         /\ \A x \in Trees, q \in Paths : Node(r, x, q) = Node(s, x, q)
BY DEF Memories, Free, Node

LEMMA ReleasedAll ==
  ASSUME NEW s \in Memories, NEW t \in Trees, NEW p \in Paths
  PROVE  LET r == Release(s, t, p) IN
         /\ r \in Memories /\ r.heap = s.heap \ Blocks(s, t, p) /\ r.ok = s.ok
         /\ ~s.broken /\ Blocks(s, t, p) \subseteq s.heap => ~r.broken
         /\ \A x \in Trees, q \in Paths :
              Node(r, x, q) = IF x = t /\ IsPrefix(p, q) THEN Released ELSE Node(s, x, q)
<1> DEFINE f == Free(s, Blocks(s, t, p))
           r == Release(s, t, p)
<1>1. /\ f \in Memories /\ f.heap = s.heap \ Blocks(s, t, p) /\ f.ok = s.ok
      /\ ~s.broken /\ Blocks(s, t, p) \subseteq s.heap => ~f.broken
      /\ \A x \in Trees, q \in Paths : Node(f, x, q) = Node(s, x, q)
  BY Freed
<1> DEFINE g == [q \in Paths |-> IF IsPrefix(p, q) THEN Released ELSE f.nodes[t][q]]
<1>2. r = [f EXCEPT !.nodes[t] = g]
  BY DEF Release
<1> HIDE DEF f
<1>3. g \in [Paths -> Nodes]
  BY <1>1, Plain DEF Memories
<1>4. \A q \in Paths : g[q] = IF IsPrefix(p, q) THEN Released ELSE Node(f, t, q)
  BY DEF Node
<1> HIDE DEF g
<1>5. /\ r \in Memories /\ r.heap = f.heap /\ r.ok = f.ok /\ r.broken = f.broken
      /\ r.nodes[t] = g /\ \A x \in Trees \ {t} : r.nodes[x] = f.nodes[x]
  BY <1>1, <1>2, <1>3 DEF Memories
<1>6. ASSUME NEW x \in Trees, NEW q \in Paths
      PROVE  Node(r, x, q) = IF x = t /\ IsPrefix(p, q) THEN Released ELSE Node(s, x, q)
  <2> HIDE DEF r
  <2>1. CASE x = t
    BY <1>1, <1>4, <1>5, <2>1 DEF Node
  <2>2. CASE x # t
    BY <1>1, <1>5, <2>2 DEF Node
  <2> QED
    BY <2>1, <2>2
<1> HIDE DEF r
<1> QED
  BY <1>1, <1>5, <1>6 DEF r

(* What follows from what is the same in both. *)
LEMMA StepSame ==
  ASSUME NEW s, NEW r, NEW t, NEW x, Node(r, t, x) = Node(s, t, x)
  PROVE  \A k : Step(r, t, x, k) <=> Step(s, t, x, k)
BY DEF Step


(* A node has a block of its own for each string, array and struct it      *)
(* holds; the struct of a node belongs to the array of the one above it.   *)
Holds(s, t, q, w) ==
  /\ Node(s, t, q).up
  /\ IF w = "children" THEN Node(s, t, q).table ELSE w \in Node(s, t, q).held
OwnsBlock(s, t, p, q, w) ==
  Owns(s, t, p, q) /\ IF w = "struct" THEN q # p ELSE Holds(s, t, q, w)

LEMMA BlocksAre ==
  ASSUME NEW s \in Memories, NEW t \in Trees, NEW p \in Paths
  PROVE  /\ Blocks(s, t, p) \subseteq Block
         /\ \A x \in Trees, q \in Paths, w \in What :
              <<x, q, w>> \in Blocks(s, t, p) <=> x = t /\ OwnsBlock(s, t, p, q, w)
<1> DEFINE reached == {q \in Paths : Owns(s, t, p, q)}
           live == {q \in reached : Node(s, t, q).up}
           A == {<<t, q, "struct">> : q \in reached \ {p}}
           B == {<<t, q, "children">> : q \in {r \in live : Node(s, t, r).table}}
           C == UNION {{<<t, q, what>> : what \in Node(s, t, q).held} : q \in live}
<1>1. Blocks(s, t, p) = A \cup B \cup C
  BY Zenon DEF Blocks
<1>2. \A q \in Paths : Node(s, t, q).held \subseteq What \ {"struct", "children"}
  BY MemoryIs DEF Nodes
<1>3. \A x \in Trees, q \in Paths, w \in What :
        <<x, q, w>> \in A <=> x = t /\ w = "struct" /\ q # p /\ Owns(s, t, p, q)
  OBVIOUS
<1>4. \A x \in Trees, q \in Paths, w \in What :
        <<x, q, w>> \in B
          <=> x = t /\ w = "children" /\ Owns(s, t, p, q) /\ Node(s, t, q).up /\ Node(s, t, q).table
  OBVIOUS
<1>5. \A x \in Trees, q \in Paths, w \in What :
        <<x, q, w>> \in C
          <=> x = t /\ w \in Node(s, t, q).held /\ Owns(s, t, p, q) /\ Node(s, t, q).up
  OBVIOUS
<1>6. A \subseteq Block /\ B \subseteq Block
  BY DEF Block, What
<1>7. C \subseteq Block
  BY <1>2 DEF Block
<1> HIDE DEF A, B, C
<1>8. ASSUME NEW x \in Trees, NEW q \in Paths, NEW w \in What
      PROVE  <<x, q, w>> \in Blocks(s, t, p) <=> x = t /\ OwnsBlock(s, t, p, q, w)
  <2>1. "struct" \notin Node(s, t, q).held /\ "children" \notin Node(s, t, q).held
    BY <1>2
  <2>2. <<x, q, w>> \in Blocks(s, t, p)
          <=> <<x, q, w>> \in A \/ <<x, q, w>> \in B \/ <<x, q, w>> \in C
    BY <1>1
  <2>3. CASE w = "struct"
    BY <1>3, <1>4, <1>5, <2>1, <2>2, <2>3 DEF OwnsBlock
  <2>4. CASE w = "children"
    BY <1>3, <1>4, <1>5, <2>1, <2>2, <2>4 DEF OwnsBlock, Holds
  <2>5. CASE w # "struct" /\ w # "children"
    BY <1>3, <1>4, <1>5, <2>1, <2>2, <2>5 DEF OwnsBlock, Holds
  <2> QED
    BY <2>3, <2>4, <2>5
<1> QED
  BY <1>1, <1>6, <1>7, <1>8


---------------------------------------------------------------------------
(* A tree, or the part of it at a node, is tidy when what it owns is       *)
(* allocated, and nothing else of it is, child structs of an array that    *)
(* could not be made excepted.                                             *)

Has(s, x, q, w) == <<x, q, w>> \in s.heap
Inside(t, p, x, q, w) == x = t /\ IsPrefix(p, q) /\ (q # p \/ w # "struct")
Tidy(s, t, p, lost) ==
  \A q \in Paths, w \in What :
    /\ OwnsBlock(s, t, p, q, w) => Has(s, t, q, w)
    /\ Inside(t, p, t, q, w) /\ Has(s, t, q, w)
         => OwnsBlock(s, t, p, q, w) \/ (lost /\ t = "array" /\ w = "struct")

Intact(s) == s \in Memories /\ ~s.broken

(* What happened between two memories happened at a node or below. *)
Apart(s, r, t, p) ==
  /\ \A x \in Trees, q \in Paths : x # t \/ ~IsPrefix(p, q) => Node(r, x, q) = Node(s, x, q)
  /\ \A x \in Trees, q \in Paths, w \in What :
       ~Inside(t, p, x, q, w) => (Has(r, x, q, w) <=> Has(s, x, q, w))

(* Nothing happened there. *)
Same(s, r, t, p) ==
  \A q \in Paths :
    IsPrefix(p, q) =>
      /\ Node(r, t, q) = Node(s, t, q)
      /\ \A w \in What : Inside(t, p, t, q, w) => (Has(r, t, q, w) <=> Has(s, t, q, w))

LEMMA OwnsInside ==
  ASSUME NEW s, NEW t, NEW p, NEW q, NEW w, OwnsBlock(s, t, p, q, w)
  PROVE  Inside(t, p, t, q, w)
BY OwnsPrefix DEF OwnsBlock, Inside

LEMMA SameOwned ==
  ASSUME NEW s, NEW r, NEW t, NEW p \in Paths, Same(s, r, t, p)
  PROVE  \A q \in Paths :
           /\ Owns(r, t, p, q) <=> Owns(s, t, p, q)
           /\ \A w \in What : OwnsBlock(r, t, p, q, w) <=> OwnsBlock(s, t, p, q, w)
<1>1. \A x \in Paths, k \in Nat : IsPrefix(p, x) => (Step(r, t, x, k) <=> Step(s, t, x, k))
  BY StepSame DEF Same
<1>2. \A q \in Paths : Owns(r, t, p, q) <=> Owns(s, t, p, q)
  BY <1>1, OwnsSame
<1>3. ASSUME NEW q \in Paths, NEW w \in What
      PROVE  OwnsBlock(r, t, p, q, w) <=> OwnsBlock(s, t, p, q, w)
  <2>1. Owns(s, t, p, q) => Node(r, t, q) = Node(s, t, q)
    BY OwnsPrefix DEF Same
  <2> QED
    BY <1>2, <2>1 DEF OwnsBlock, Holds
<1> QED
  BY <1>2, <1>3

LEMMA SameTidy ==
  ASSUME NEW s, NEW r, NEW t, NEW p \in Paths, NEW lost, Same(s, r, t, p), Tidy(s, t, p, lost)
  PROVE  Tidy(r, t, p, lost)
<1> SUFFICES ASSUME NEW q \in Paths, NEW w \in What
             PROVE  /\ OwnsBlock(r, t, p, q, w) => Has(r, t, q, w)
                    /\ Inside(t, p, t, q, w) /\ Has(r, t, q, w)
                         => OwnsBlock(r, t, p, q, w) \/ (lost /\ t = "array" /\ w = "struct")
  BY DEF Tidy
<1>1. OwnsBlock(r, t, p, q, w) <=> OwnsBlock(s, t, p, q, w)
  BY SameOwned
<1>2. Inside(t, p, t, q, w) => (Has(r, t, q, w) <=> Has(s, t, q, w))
  BY DEF Same, Inside
<1>3. OwnsBlock(s, t, p, q, w) => Inside(t, p, t, q, w)
  BY OwnsInside
<1>4. /\ OwnsBlock(s, t, p, q, w) => Has(s, t, q, w)
      /\ Inside(t, p, t, q, w) /\ Has(s, t, q, w)
           => OwnsBlock(s, t, p, q, w) \/ (lost /\ t = "array" /\ w = "struct")
  BY DEF Tidy
<1> QED
  BY <1>1, <1>2, <1>3, <1>4

LEMMA ApartNone ==
  ASSUME NEW s, NEW r, NEW t, NEW p, r.nodes = s.nodes, r.heap = s.heap
  PROVE  Apart(s, r, t, p)
BY DEF Apart, Node, Has

LEMMA ApartChain ==
  ASSUME NEW s, NEW r, NEW u, NEW t, NEW p, Apart(s, r, t, p), Apart(r, u, t, p)
  PROVE  Apart(s, u, t, p)
BY DEF Apart

LEMMA ApartAbove ==
  ASSUME NEW s, NEW r, NEW t, NEW p \in Paths, NEW q \in Paths, IsPrefix(p, q), Apart(s, r, t, q)
  PROVE  Apart(s, r, t, p)
<1>1. p \in Seq(Nat) /\ q \in Seq(Nat) /\ \A x \in Paths : x \in Seq(Nat)
  BY PathsAre
<1>2. \A x \in Paths : IsPrefix(q, x) => IsPrefix(p, x)
  BY <1>1, PrefixChain
<1>3. \A x \in Paths, w \in What : Inside(t, q, t, x, w) => Inside(t, p, t, x, w)
  BY <1>1, <1>2, PrefixBoth DEF Inside
<1> QED
  BY <1>2, <1>3 DEF Apart, Inside

LEMMA ApartTree ==
  ASSUME NEW s, NEW r, NEW t, NEW p, NEW x \in Trees, x # t, NEW q, Apart(s, r, t, p)
  PROVE  Same(s, r, x, q)
BY DEF Apart, Same, Inside

LEMMA ApartBranch ==
  ASSUME NEW s, NEW r, NEW t \in Trees, NEW p \in Paths, NEW j \in Nat, NEW k \in Nat, j # k,
         Append(p, j) \in Paths, Apart(s, r, t, Append(p, k))
  PROVE  Same(s, r, t, Append(p, j))
<1>1. p \in Seq(Nat) /\ \A x \in Paths : x \in Seq(Nat)
  BY PathsAre
<1>2. \A x \in Paths : ~(IsPrefix(Append(p, j), x) /\ IsPrefix(Append(p, k), x))
  BY <1>1, PrefixFork
<1> QED
  BY <1>2 DEF Apart, Same, Inside

(* What leads elsewhere than below a node is not changed at it. *)
LEMMA OwnsElsewhere ==
  ASSUME NEW s, NEW r, NEW t \in Trees, NEW p \in Paths, NEW q \in Paths, Apart(s, r, t, q),
         NEW x \in Paths, x = q \/ ~IsPrefix(q, x)
  PROVE  Owns(r, t, p, x) <=> Owns(s, t, p, x)
<1>0. p \in Seq(Nat) /\ q \in Seq(Nat) /\ \A y \in Paths : y \in Seq(Nat)
  BY PathsAre
<1>1. ASSUME NEW y \in Paths, NEW k \in Nat, IsPrefix(Append(y, k), x)
      PROVE  Step(r, t, y, k) <=> Step(s, t, y, k)
  <2>1. y \in Seq(Nat) /\ x \in Seq(Nat) /\ Append(y, k) \in Seq(Nat)
    BY <1>0, Extends
  <2>2. ~IsPrefix(q, y)
    <3> SUFFICES ASSUME IsPrefix(q, y) PROVE FALSE
      OBVIOUS
    <3>1. IsPrefix(q, Append(y, k)) /\ IsPrefix(y, Append(y, k)) /\ ~IsPrefix(Append(y, k), y)
      BY <1>0, <2>1, PrefixNext, PrefixChain
    <3>2. IsPrefix(q, x)
      BY <1>0, <1>1, <2>1, <3>1, PrefixChain
    <3>3. IsPrefix(Append(y, k), q)
      BY <1>1, <3>2
    <3>4. IsPrefix(Append(y, k), y)
      BY <1>0, <2>1, <3>3, PrefixChain
    <3> QED
      BY <3>1, <3>4
  <2>3. Node(r, t, y) = Node(s, t, y)
    BY <2>2 DEF Apart
  <2> QED
    BY <2>3, StepSame
<1> QED
  BY <1>1, OwnsSame

(* Something happened at an inner node, which is tidy: so is the outer one. *)
LEMMA Graft ==
  ASSUME NEW s, NEW r, NEW t \in Trees, NEW p \in Paths, NEW q \in Paths, NEW lost,
         Owns(s, t, p, q), Tidy(s, t, p, FALSE), Apart(s, r, t, q), Tidy(r, t, q, lost)
  PROVE  Tidy(r, t, p, lost) /\ Owns(r, t, p, q) /\ Apart(s, r, t, p)
<1>1. IsPrefix(p, q) /\ p \in Seq(Nat) /\ q \in Seq(Nat) /\ \A x \in Paths : x \in Seq(Nat)
  BY OwnsPrefix, PathsAre
<1>2. ASSUME NEW x \in Paths, x = q \/ ~IsPrefix(q, x)
      PROVE  Owns(r, t, p, x) <=> Owns(s, t, p, x)
  BY <1>2, OwnsElsewhere
<1>3. Owns(r, t, p, q)
  BY <1>2
<1>4. \A x \in Paths : IsPrefix(q, x) => (Owns(r, t, p, x) <=> Owns(r, t, q, x))
  BY <1>1, <1>3, OwnsThrough
<1>5. ASSUME NEW x \in Paths, NEW w \in What
      PROVE  /\ OwnsBlock(r, t, p, x, w) => Has(r, t, x, w)
             /\ Inside(t, p, t, x, w) /\ Has(r, t, x, w)
                  => OwnsBlock(r, t, p, x, w) \/ (lost /\ t = "array" /\ w = "struct")
  <2>1. CASE Inside(t, q, t, x, w)
    <3>1. OwnsBlock(r, t, q, x, w) <=> OwnsBlock(r, t, p, x, w)
      <4>1. Owns(r, t, p, x) <=> Owns(r, t, q, x)
        BY <1>4, <2>1 DEF Inside
      <4>2. w = "struct" => x # q /\ x # p
        BY <1>1, <2>1, PrefixBoth DEF Inside
      <4> QED
        BY <4>1, <4>2 DEF OwnsBlock
    <3> QED
      BY <2>1, <3>1 DEF Tidy
  <2>2. CASE ~Inside(t, q, t, x, w)
    <3>1. x = q \/ ~IsPrefix(q, x)
      BY <2>2 DEF Inside
    <3>2. x = q => w = "struct"
      BY <1>1, <2>2, PrefixSelf DEF Inside
    <3>3. Has(r, t, x, w) <=> Has(s, t, x, w)
      BY <2>2 DEF Apart
    <3>4. Owns(r, t, p, x) <=> Owns(s, t, p, x)
      BY <1>2, <3>1
    <3>5. w # "struct" => Node(r, t, x) = Node(s, t, x)
      BY <3>1, <3>2 DEF Apart
    <3>6. OwnsBlock(r, t, p, x, w) <=> OwnsBlock(s, t, p, x, w)
      BY <3>4, <3>5 DEF OwnsBlock, Holds
    <3> QED
      BY <3>3, <3>6 DEF Tidy
  <2> QED
    BY <2>1, <2>2
<1>6. Apart(s, r, t, p)
  BY <1>1, ApartAbove
<1> QED
  BY <1>3, <1>5, <1>6 DEF Tidy


(* A node and the nodes next to it: the whole is tidy when the parts are. *)
Leaf(s, t, p) == \A k \in Nat : ~Step(s, t, p, k)
Leftover(r, t, q, w, lost) == Has(r, t, q, w) => lost /\ t = "array" /\ w = "struct"

LEMMA NextBelow ==
  ASSUME NEW p \in Paths, NEW q \in Paths, IsPrefix(p, q), q # p
  PROVE  \E k \in Nat : Append(p, k) \in Paths /\ IsPrefix(Append(p, k), q)
<1>1. p \in Seq(Nat) /\ q \in Seq(Nat)
  BY PathsAre
<1>2. PICK k \in Nat : IsPrefix(Append(p, k), q)
  BY <1>1, PrefixBranch
<1>3. Append(p, k) \in Seq(Nat)
  BY <1>1, Extends
<1> QED
  BY <1>2, <1>3, PathsAre

LEMMA BranchIs ==
  ASSUME NEW s, NEW t, NEW p \in Paths, NEW k \in Nat, Append(p, k) \in Paths,
         NEW q \in Paths, IsPrefix(Append(p, k), q), NEW w
  PROVE  /\ q # p /\ IsPrefix(p, q)
         /\ Owns(s, t, p, q) <=> Step(s, t, p, k) /\ Owns(s, t, Append(p, k), q)
         /\ Inside(t, p, t, q, w)
         /\ Inside(t, Append(p, k), t, q, w) \/ (q = Append(p, k) /\ w = "struct")
         /\ Inside(t, Append(p, k), t, q, w) =>
              (OwnsBlock(s, t, p, q, w) <=> Step(s, t, p, k) /\ OwnsBlock(s, t, Append(p, k), q, w))
<1>1. p \in Seq(Nat) /\ q \in Seq(Nat) /\ Append(p, k) \in Seq(Nat)
  BY PathsAre
<1>2. IsPrefix(p, Append(p, k)) /\ ~IsPrefix(Append(p, k), p)
  BY <1>1, PrefixNext
<1>3. q # p /\ IsPrefix(p, q)
  BY <1>1, <1>2, PrefixChain
<1>4. Owns(s, t, p, q) <=> Step(s, t, p, k) /\ Owns(s, t, Append(p, k), q)
  BY <1>1, OwnsBranch
<1> QED
  BY <1>3, <1>4 DEF Inside, OwnsBlock

LEMMA Assemble ==
  ASSUME NEW r, NEW t \in Trees, NEW p \in Paths, NEW lost,
         \A w \in What \ {"struct"} : Has(r, t, p, w) <=> Holds(r, t, p, w),
         \A k \in Nat : Append(p, k) \in Paths /\ Step(r, t, p, k) =>
                          Has(r, t, Append(p, k), "struct") /\ Tidy(r, t, Append(p, k), lost),
         \A k \in Nat : Append(p, k) \in Paths /\ ~Step(r, t, p, k) =>
                          \A q \in Paths, w \in What :
                            IsPrefix(Append(p, k), q) => Leftover(r, t, q, w, lost)
  PROVE  Tidy(r, t, p, lost)
<1> SUFFICES ASSUME NEW q \in Paths, NEW w \in What, Inside(t, p, t, q, w)
             PROVE  /\ OwnsBlock(r, t, p, q, w) => Has(r, t, q, w)
                    /\ Has(r, t, q, w)
                         => OwnsBlock(r, t, p, q, w) \/ (lost /\ t = "array" /\ w = "struct")
  BY OwnsInside DEF Tidy
<1>1. CASE q = p
  <2>1. w # "struct"
    BY <1>1 DEF Inside
  <2>2. Owns(r, t, p, p)
    BY OwnsSelf, PathsAre
  <2> QED
    BY <1>1, <2>1, <2>2 DEF OwnsBlock
<1>2. CASE q # p
  <2>1. PICK k \in Nat : Append(p, k) \in Paths /\ IsPrefix(Append(p, k), q)
    BY <1>2, NextBelow DEF Inside
  <2> DEFINE c == Append(p, k)
  <2>2. /\ Owns(r, t, p, q) <=> Step(r, t, p, k) /\ Owns(r, t, c, q)
        /\ Inside(t, c, t, q, w) \/ (q = c /\ w = "struct")
        /\ Inside(t, c, t, q, w) =>
              (OwnsBlock(r, t, p, q, w) <=> Step(r, t, p, k) /\ OwnsBlock(r, t, c, q, w))
    BY <2>1, BranchIs
  <2>3. CASE ~Step(r, t, p, k)
    BY <2>1, <2>2, <2>3 DEF Leftover, OwnsBlock
  <2>4. CASE Step(r, t, p, k)
    <3>1. Has(r, t, c, "struct") /\ Tidy(r, t, c, lost)
      BY <2>1, <2>4
    <3>2. CASE q = c /\ w = "struct"
      <4>1. Owns(r, t, c, c)
        BY <2>1, OwnsSelf, PathsAre
      <4> QED
        BY <1>2, <2>2, <2>4, <3>1, <3>2, <4>1 DEF OwnsBlock
    <3>3. CASE Inside(t, c, t, q, w)
      <4> HIDE DEF c
      <4> QED
        BY <2>2, <2>4, <3>1, <3>3 DEF Tidy
    <3> QED
      BY <2>2, <3>2, <3>3
  <2> QED
    BY <2>3, <2>4
<1> QED
  BY <1>1, <1>2

LEMMA Disassemble ==
  ASSUME NEW s, NEW t \in Trees, NEW p \in Paths, Tidy(s, t, p, FALSE)
  PROVE  /\ \A w \in What \ {"struct"} : Has(s, t, p, w) <=> Holds(s, t, p, w)
         /\ \A k \in Nat : Append(p, k) \in Paths /\ Step(s, t, p, k) =>
                             Has(s, t, Append(p, k), "struct") /\ Tidy(s, t, Append(p, k), FALSE)
         /\ \A k \in Nat : Append(p, k) \in Paths /\ ~Step(s, t, p, k) =>
                             \A q \in Paths, w \in What :
                               IsPrefix(Append(p, k), q) => ~Has(s, t, q, w)
<1>1. ASSUME NEW w \in What \ {"struct"} PROVE Has(s, t, p, w) <=> Holds(s, t, p, w)
  <2>1. Owns(s, t, p, p) /\ IsPrefix(p, p)
    BY OwnsSelf, PrefixSelf, PathsAre
  <2> QED
    BY <2>1 DEF Tidy, Inside, OwnsBlock
<1>2. ASSUME NEW k \in Nat, Append(p, k) \in Paths, Step(s, t, p, k)
      PROVE  Has(s, t, Append(p, k), "struct") /\ Tidy(s, t, Append(p, k), FALSE)
  <2> DEFINE c == Append(p, k)
  <2>1. Owns(s, t, c, c) /\ IsPrefix(c, c)
    BY <1>2, OwnsSelf, PrefixSelf, PathsAre
  <2>2. OwnsBlock(s, t, p, c, "struct")
    BY <1>2, <2>1, BranchIs DEF OwnsBlock
  <2>3. "struct" \in What
    BY DEF What
  <2>4. ASSUME NEW q \in Paths, NEW w \in What, Inside(t, c, t, q, w)
        PROVE  OwnsBlock(s, t, c, q, w) <=> Has(s, t, q, w)
    <3>1. IsPrefix(c, q)
      BY <2>4 DEF Inside
    <3>2. Inside(t, p, t, q, w) /\ (OwnsBlock(s, t, p, q, w) <=> OwnsBlock(s, t, c, q, w))
      BY <1>2, <2>4, <3>1, BranchIs
    <3> QED
      BY <3>2 DEF Tidy
  <2> HIDE DEF c
  <2>5. Tidy(s, t, c, FALSE)
    BY <2>4, OwnsInside DEF Tidy
  <2> QED
    BY <1>2, <2>2, <2>3, <2>5 DEF Tidy, c
<1>3. ASSUME NEW k \in Nat, Append(p, k) \in Paths, ~Step(s, t, p, k),
             NEW q \in Paths, NEW w \in What, IsPrefix(Append(p, k), q)
      PROVE  ~Has(s, t, q, w)
  <2>1. Inside(t, p, t, q, w) /\ ~Owns(s, t, p, q)
    BY <1>3, BranchIs
  <2> QED
    BY <2>1 DEF Tidy, OwnsBlock
<1> QED
  BY <1>1, <1>2, <1>3

(* A node that owns no other. *)
LEMMA LeafTidy ==
  ASSUME NEW r, NEW t \in Trees, NEW p \in Paths, NEW lost, Leaf(r, t, p),
         \A w \in What \ {"struct"} : Has(r, t, p, w) <=> Holds(r, t, p, w),
         \A q \in Paths, w \in What : IsPrefix(p, q) /\ q # p => Leftover(r, t, q, w, lost)
  PROVE  Tidy(r, t, p, lost)
<1>1. ASSUME NEW k \in Nat, Append(p, k) \in Paths, NEW q \in Paths, NEW w \in What,
             IsPrefix(Append(p, k), q)
      PROVE  Leftover(r, t, q, w, lost)
  <2>1. IsPrefix(p, q) /\ q # p
    BY <1>1, BranchIs
  <2> QED
    BY <2>1
<1>2. \A k \in Nat : ~Step(r, t, p, k)
  BY DEF Leaf
<1> QED
  BY <1>1, <1>2, Assemble

LEMMA LeafOwns ==
  ASSUME NEW s, NEW t, NEW p \in Paths, Leaf(s, t, p), NEW q \in Paths
  PROVE  Owns(s, t, p, q) <=> q = p
<1>1. Owns(s, t, p, p)
  BY OwnsSelf, PathsAre
<1>2. ASSUME Owns(s, t, p, q), q # p PROVE FALSE
  <2>1. IsPrefix(p, q)
    BY <1>2, OwnsPrefix
  <2>2. PICK k \in Nat : Append(p, k) \in Paths /\ IsPrefix(Append(p, k), q)
    BY <1>2, <2>1, NextBelow
  <2>3. Step(s, t, p, k)
    BY <1>2, <2>2, BranchIs
  <2> QED
    BY <2>3 DEF Leaf
<1> QED
  BY <1>1, <1>2

LEMMA DownOwns ==
  ASSUME NEW s, NEW t, NEW p \in Paths, ~Node(s, t, p).up
  PROVE  Leaf(s, t, p) /\ \A q \in Paths, w \in What : ~OwnsBlock(s, t, p, q, w)
<1>1. Leaf(s, t, p)
  BY DEF Leaf, Step
<1>2. \A q \in Paths : Owns(s, t, p, q) <=> q = p
  BY <1>1, LeafOwns
<1> QED
  BY <1>1, <1>2 DEF OwnsBlock, Holds


---------------------------------------------------------------------------
(* What the calls do.                                                      *)

Views == {"view", "init_view"}
Blank(t) == IF t \in Views THEN Empty ELSE Released
Links(s, r, t, p) ==
  /\ Node(r, t, p).up = Node(s, t, p).up /\ Node(r, t, p).n = Node(s, t, p).n
  /\ Node(r, t, p).table = Node(s, t, p).table /\ Node(r, t, p).kids = Node(s, t, p).kids
  /\ Node(r, t, p).dict = Node(s, t, p).dict
Others(s, r, t, p) ==
  \A x \in Trees, q \in Paths : x # t \/ q # p => Node(r, x, q) = Node(s, x, q)

LEMMA LinksStep ==
  ASSUME NEW s, NEW r, NEW t, NEW p, Links(s, r, t, p)
  PROVE  \A k : Step(r, t, p, k) <=> Step(s, t, p, k)
BY DEF Links, Step

LEMMA LinksOwned ==
  ASSUME NEW s, NEW r, NEW t \in Trees, NEW p \in Paths, Links(s, r, t, p), Others(s, r, t, p)
  PROVE  \A a \in Paths, q \in Paths : Owns(r, t, a, q) <=> Owns(s, t, a, q)
<1>1. \A x \in Paths, k \in Nat : Step(r, t, x, k) <=> Step(s, t, x, k)
  BY LinksStep, StepSame DEF Others
<1> QED
  BY <1>1, OwnsSame

(* A release frees what a node owns and leaves it and all below released. *)
LEMMA Clearing ==
  ASSUME NEW s, Intact(s), NEW t \in Trees, NEW p \in Paths, NEW lost, Tidy(s, t, p, lost)
  PROVE  LET r == Release(s, t, p) IN
         /\ Intact(r) /\ r.ok = s.ok /\ Apart(s, r, t, p)
         /\ ~Node(r, t, p).up /\ Tidy(r, t, p, lost)
<1> DEFINE r == Release(s, t, p)
           B == Blocks(s, t, p)
<1>1. /\ r \in Memories /\ r.heap = s.heap \ B /\ r.ok = s.ok
      /\ B \subseteq s.heap => ~r.broken
      /\ \A x \in Trees, q \in Paths :
           Node(r, x, q) = IF x = t /\ IsPrefix(p, q) THEN Released ELSE Node(s, x, q)
  BY ReleasedAll DEF Intact
<1>2. /\ B \subseteq Block
      /\ \A x \in Trees, q \in Paths, w \in What :
           <<x, q, w>> \in B <=> x = t /\ OwnsBlock(s, t, p, q, w)
  BY BlocksAre DEF Intact
<1> HIDE DEF r, B
<1>3. B \subseteq s.heap
  <2> SUFFICES ASSUME NEW b \in B PROVE b \in s.heap
    OBVIOUS
  <2>1. PICK x \in Trees, q \in Paths, w \in What : b = <<x, q, w>>
    BY <1>2 DEF Block
  <2>2. x = t /\ OwnsBlock(s, t, p, q, w)
    BY <1>2, <2>1
  <2> QED
    BY <2>1, <2>2 DEF Tidy, Has
<1>4. \A x \in Trees, q \in Paths, w \in What :
        Has(r, x, q, w) <=> Has(s, x, q, w) /\ ~(x = t /\ OwnsBlock(s, t, p, q, w))
  BY <1>1, <1>2 DEF Has
<1>5. Apart(s, r, t, p)
  BY <1>1, <1>4, OwnsInside DEF Apart, Inside
<1>6. ~Node(r, t, p).up
  BY <1>1, Plain, PrefixSelf, PathsAre
<1>7. \A q \in Paths, w \in What : ~OwnsBlock(r, t, p, q, w)
  BY <1>6, DownOwns
<1>8. Tidy(r, t, p, lost)
  BY <1>4, <1>7 DEF Tidy
<1> QED
  BY <1>1, <1>3, <1>5, <1>6, <1>8 DEF Intact, r

(* The strings and private data of a node change, and its blocks with them. *)
LEMMA HeldChanged ==
  ASSUME NEW s, NEW r, NEW t \in Trees, NEW p \in Paths, Tidy(s, t, p, FALSE),
         Node(s, t, p).up, Links(s, r, t, p), Others(s, r, t, p),
         \A w \in What \ {"struct", "children"} : Has(r, t, p, w) <=> w \in Node(r, t, p).held,
         \A x \in Trees, q \in Paths, w \in What :
           x # t \/ q # p \/ w \in {"struct", "children"} => (Has(r, x, q, w) <=> Has(s, x, q, w))
  PROVE  Apart(s, r, t, p) /\ Tidy(r, t, p, FALSE)
<1>0. p \in Seq(Nat) /\ IsPrefix(p, p) /\ Owns(s, t, p, p)
  BY PrefixSelf, OwnsSelf, PathsAre
<1>1. Apart(s, r, t, p)
  BY <1>0 DEF Apart, Others, Inside
<1>2. \A q \in Paths : Owns(r, t, p, q) <=> Owns(s, t, p, q)
  BY LinksOwned
<1>3. ASSUME NEW q \in Paths, NEW w \in What, Inside(t, p, t, q, w)
      PROVE  OwnsBlock(r, t, p, q, w) <=> Has(r, t, q, w)
  <2>1. OwnsBlock(s, t, p, q, w) <=> Has(s, t, q, w)
    BY <1>3 DEF Tidy
  <2>2. CASE q # p
    <3>1. Node(r, t, q) = Node(s, t, q) /\ (Has(r, t, q, w) <=> Has(s, t, q, w))
      BY <2>2 DEF Others
    <3> QED
      BY <1>2, <2>1, <3>1 DEF OwnsBlock, Holds
  <2>3. CASE q = p
    <3>1. w # "struct"
      BY <1>3, <2>3 DEF Inside
    <3>2. CASE w = "children"
      BY <1>0, <1>2, <2>1, <2>3, <3>2 DEF OwnsBlock, Holds, Links
    <3>3. CASE w # "children"
      <4>1. Has(r, t, p, w) <=> w \in Node(r, t, p).held
        BY <3>1, <3>3
      <4> QED
        BY <1>0, <1>2, <2>3, <3>1, <3>3, <4>1 DEF OwnsBlock, Holds, Links
    <3> QED
      BY <3>2, <3>3
  <2> QED
    BY <2>2, <2>3
<1> QED
  BY <1>1, <1>3, OwnsInside DEF Tidy

LEMMA StringSet ==
  ASSUME NEW s, Intact(s), NEW t \in Trees, NEW p \in Paths, Tidy(s, t, p, FALSE),
         Node(s, t, p).up, NEW what \in What \ {"struct", "children"},
         NEW r \in SetString(s, t, p, what)
  PROVE  /\ Intact(r) /\ Apart(s, r, t, p) /\ Tidy(r, t, p, FALSE)
         /\ Links(s, r, t, p) /\ Others(s, r, t, p)
<1> DEFINE held == Node(s, t, p).held
           B == {<<t, p, w>> : w \in held \cap {what}}
           f == Free(s, B)
           node == [Node(s, t, p) EXCEPT !.held = @ \ {what}]
           old == SetNode(f, t, p, node)
           more == [Node(old, t, p) EXCEPT !.held = @ \cup {what}]
           set == SetNode(old, t, p, more)
           b == <<t, p, what>>
<1>1. s \in Memories /\ Node(s, t, p) \in Nodes /\ held \subseteq What \ {"struct", "children"}
      /\ ~s.broken
  BY MemoryIs DEF Nodes, Intact
<1>2. \A w \in What \ {"struct"} : Has(s, t, p, w) <=> Holds(s, t, p, w)
  BY Disassemble
<1>3. B \subseteq s.heap
  BY <1>1, <1>2 DEF Has, Holds
<1>4. /\ f \in Memories /\ f.heap = s.heap \ B /\ ~f.broken
      /\ \A x \in Trees, q \in Paths : Node(f, x, q) = Node(s, x, q)
  BY <1>1, <1>3, Freed
<1>5. node \in Nodes /\ node.held = held \ {what} /\ node.up = Node(s, t, p).up
      /\ node.n = Node(s, t, p).n /\ node.table = Node(s, t, p).table
      /\ node.kids = Node(s, t, p).kids /\ node.dict = Node(s, t, p).dict
  BY <1>1 DEF Nodes
<1> HIDE DEF node, f, B
<1>6. /\ old \in Memories /\ old.heap = f.heap /\ ~old.broken /\ Node(old, t, p) = node
      /\ \A x \in Trees, q \in Paths : x # t \/ q # p => Node(old, x, q) = Node(f, x, q)
  BY <1>4, <1>5, NodeSet
<1> HIDE DEF old
<1>7. more \in Nodes /\ more.held = held \cup {what} /\ more.up = Node(s, t, p).up
      /\ more.n = Node(s, t, p).n /\ more.table = Node(s, t, p).table
      /\ more.kids = Node(s, t, p).kids /\ more.dict = Node(s, t, p).dict
  BY <1>5, <1>6 DEF Nodes
<1> HIDE DEF more
<1>8. /\ set \in Memories /\ set.heap = old.heap /\ ~set.broken /\ Node(set, t, p) = more
      /\ \A x \in Trees, q \in Paths : x # t \/ q # p => Node(set, x, q) = Node(old, x, q)
  BY <1>6, <1>7, NodeSet
<1>9. r = Take(set, {b}) \/ r = Fail(old)
  BY DEF SetString, set, more, old, node, f, B, SetNode, Node
<1>10. B = IF what \in held THEN {b} ELSE {}
  BY DEF B
<1>11. \A x \in Trees, q \in Paths, w \in What : <<x, q, w>> = b <=> x = t /\ q = p /\ w = what
  OBVIOUS
<1>12. b \notin old.heap
  <2>1. what \notin held => ~Has(s, t, p, what)
    BY <1>2 DEF Holds
  <2> QED
    BY <1>4, <1>6, <1>10, <2>1 DEF Has
<1>13. b \in Block
  BY DEF Block
<1> HIDE DEF b, set
<1>14. CASE r = Take(set, {b})
  <2>1. /\ r \in Memories /\ r.heap = set.heap \cup {b} /\ ~r.broken
        /\ \A x \in Trees, q \in Paths : Node(r, x, q) = Node(set, x, q)
    <3>1. {b} \in SUBSET Block /\ {b} \cap set.heap = {}
      BY <1>8, <1>12, <1>13
    <3> QED
      BY <1>8, <1>14, <3>1, Taken
  <2>2. Others(s, r, t, p)
    BY <1>4, <1>6, <1>8, <2>1 DEF Others
  <2>3. Node(r, t, p) = more
    BY <1>8, <2>1
  <2>4. Links(s, r, t, p)
    BY <1>7, <2>3 DEF Links
  <2>5. r.heap = (s.heap \ B) \cup {b}
    BY <1>4, <1>6, <1>8, <2>1
  <2>6. \A x \in Trees, q \in Paths, w \in What :
          x # t \/ q # p \/ w \in {"struct", "children"} => (Has(r, x, q, w) <=> Has(s, x, q, w))
    BY <1>10, <1>11, <2>5 DEF Has
  <2>7. ASSUME NEW w \in What \ {"struct", "children"}
        PROVE  Has(r, t, p, w) <=> w \in Node(r, t, p).held
    <3>1. Has(s, t, p, w) <=> w \in held
      BY <1>2 DEF Holds
    <3>2. Has(r, t, p, w) <=> Has(s, t, p, w) \/ w = what
      BY <1>10, <1>11, <2>5 DEF Has
    <3> QED
      BY <1>7, <2>3, <3>1, <3>2
  <2>8. Apart(s, r, t, p) /\ Tidy(r, t, p, FALSE)
    BY <2>2, <2>4, <2>6, <2>7, HeldChanged
  <2> QED
    BY <2>1, <2>2, <2>4, <2>8 DEF Intact
<1>15. CASE r = Fail(old)
  <2>1. /\ r \in Memories /\ r.heap = old.heap /\ ~r.broken
        /\ \A x \in Trees, q \in Paths : Node(r, x, q) = Node(old, x, q)
    BY <1>6, <1>15, Failed
  <2>2. Others(s, r, t, p)
    BY <1>4, <1>6, <2>1 DEF Others
  <2>3. Node(r, t, p) = node
    BY <1>6, <2>1
  <2>4. Links(s, r, t, p)
    BY <1>5, <2>3 DEF Links
  <2>5. r.heap = s.heap \ B
    BY <1>4, <1>6, <2>1
  <2>6. \A x \in Trees, q \in Paths, w \in What :
          x # t \/ q # p \/ w \in {"struct", "children"} => (Has(r, x, q, w) <=> Has(s, x, q, w))
    BY <1>10, <1>11, <2>5 DEF Has
  <2>7. ASSUME NEW w \in What \ {"struct", "children"}
        PROVE  Has(r, t, p, w) <=> w \in Node(r, t, p).held
    <3>1. Has(s, t, p, w) <=> w \in held
      BY <1>2 DEF Holds
    <3>2. Has(r, t, p, w) <=> Has(s, t, p, w) /\ w # what
      BY <1>10, <1>11, <2>5, <3>1 DEF Has
    <3> QED
      BY <1>5, <2>3, <3>1, <3>2
  <2>8. Apart(s, r, t, p) /\ Tidy(r, t, p, FALSE)
    BY <2>2, <2>4, <2>6, <2>7, HeldChanged
  <2> QED
    BY <2>1, <2>2, <2>4, <2>8 DEF Intact
<1> QED
  BY <1>9, <1>14, <1>15


(* Children are allocated for a node that has none. *)
LEMMA BlankIs ==
  ASSUME NEW r, NEW t, NEW q, Node(r, t, q) = Blank(t)
  PROVE  Leaf(r, t, q) /\ \A w : ~Holds(r, t, q, w)
<1>1. ~Node(r, t, q).up \/ (~Node(r, t, q).table /\ ~Node(r, t, q).dict /\ Node(r, t, q).held = {})
  BY Plain DEF Blank
<1> QED
  BY <1>1 DEF Leaf, Step, Holds

WithSome(s, r, t, p, n, got) ==
  /\ Intact(r) /\ Apart(s, r, t, p) /\ Tidy(r, t, p, ~r.ok)
  /\ Node(r, t, p).up /\ Node(r, t, p).held = Node(s, t, p).held
  /\ r.ok => got = n
  /\ r.ok => \A k \in Nat : Step(r, t, p, k) <=> k \in 1..n
  /\ \A k \in 1..got : Node(r, t, Append(p, k)) = Blank(t)
  /\ \A q \in Paths : q # p /\ (\A k \in 1..got : q # Append(p, k)) => Node(r, t, q) = Node(s, t, q)

LEMMA ChildrenGot ==
  ASSUME NEW s, Intact(s), NEW t \in Trees, NEW p \in Paths, Tidy(s, t, p, FALSE),
         Node(s, t, p).up, ~Node(s, t, p).table, Node(s, t, p).n = 0, Leaf(s, t, p),
         NEW n \in Nat, \A k \in 1..n : Append(p, k) \in Paths, NEW got \in 0..n
  PROVE  WithSome(s, WithChildren(s, t, p, n, got), t, p, n, got)
<1> DEFINE node == [Node(s, t, p) EXCEPT
                      !.table = TRUE, !.kids = 1..got,
                      !.n = IF CountsFirst(t) \/ got = n THEN n ELSE @]
           new == {Append(p, k) : k \in 1..got}
           B == {<<t, p, "children">>} \cup {<<t, q, "struct">> : q \in new}
           took == Take(s, B)
           g == [q \in Paths |->
                   IF q = p THEN node
                   ELSE IF q \in new
                   THEN IF t \in {"view", "init_view"} THEN Empty ELSE Released
                   ELSE took.nodes[t][q]]
           r == WithChildren(s, t, p, n, got)
<1>0. /\ s \in Memories /\ Node(s, t, p) \in Nodes /\ ~s.broken /\ n \in Nat /\ got \in Nat /\ got <= n
      /\ \A k \in 1..got : k \in 1..n /\ k \in Nat /\ Append(p, k) \in Paths /\ Append(p, k) # p
  <2>1. \A k \in 1..got : k \in 1..n /\ k \in Nat
    OBVIOUS
  <2>2. \A k \in Nat : Append(p, k) # p
    BY PrefixNext, PathsAre
  <2> QED
    BY <2>1, <2>2, MemoryIs DEF Intact
<1>1. r = [took EXCEPT !.nodes[t] = g, !.ok = (got = n)]
  BY Zenon DEF WithChildren
<1>2. /\ \A w \in What \ {"struct"} : Has(s, t, p, w) <=> Holds(s, t, p, w)
      /\ \A k \in 1..n : \A q \in Paths, w \in What : IsPrefix(Append(p, k), q) => ~Has(s, t, q, w)
  <2>1. /\ \A w \in What \ {"struct"} : Has(s, t, p, w) <=> Holds(s, t, p, w)
        /\ \A k \in Nat : Append(p, k) \in Paths /\ ~Step(s, t, p, k) =>
                             \A q \in Paths, w \in What : IsPrefix(Append(p, k), q) => ~Has(s, t, q, w)
    BY Disassemble
  <2>2. \A k \in 1..n : k \in Nat
    OBVIOUS
  <2> QED
    BY <2>1, <2>2 DEF Leaf
<1>3. node \in Nodes /\ node.up /\ node.held = Node(s, t, p).held /\ node.table /\ node.kids = 1..got
      /\ node.dict = Node(s, t, p).dict /\ node.n = IF t # "array" \/ got = n THEN n ELSE 0
  <2>1. 1..got \in SUBSET Nat
    OBVIOUS
  <2> HIDE DEF new, B, took, g, r
  <2> QED
    BY <1>0, <2>1 DEF Nodes, CountsFirst
<1>4. ~Node(s, t, p).dict
  <2>1. ~Step(s, t, p, 0)
    BY DEF Leaf
  <2> QED
    BY <2>1 DEF Step
<1>5. new \subseteq Paths /\ p \notin new
  BY <1>0
<1>6. \A x \in Trees, q \in Paths, w \in What :
        <<x, q, w>> \in B <=> x = t /\ ((q = p /\ w = "children") \/ (q \in new /\ w = "struct"))
  OBVIOUS
<1>7. B \in SUBSET Block
  BY <1>5 DEF Block, What
<1> HIDE DEF node
<1>8. \A q \in new : \E k \in 1..got : q = Append(p, k)
  OBVIOUS
<1>9. \A k \in 1..got : Append(p, k) \in new
  OBVIOUS
<1> HIDE DEF new, r
<1>10. B \cap s.heap = {}
  <2> SUFFICES ASSUME NEW b \in B PROVE b \notin s.heap
    OBVIOUS
  <2>1. CASE b = <<t, p, "children">>
    <3>1. "children" \in What \ {"struct"}
      BY DEF What
    <3>2. ~Holds(s, t, p, "children")
      BY DEF Holds
    <3> QED
      BY <1>2, <2>1, <3>1, <3>2 DEF Has
  <2>2. CASE b # <<t, p, "children">>
    <3>1. PICK q \in new : b = <<t, q, "struct">>
      BY <2>2
    <3>2. PICK k \in 1..got : q = Append(p, k)
      BY <1>8
    <3>3. IsPrefix(q, q) /\ q \in Paths
      BY <1>5, PrefixSelf, PathsAre
    <3>4. "struct" \in What /\ k \in 1..n
      BY <1>0 DEF What
    <3> QED
      BY <1>2, <3>1, <3>2, <3>3, <3>4 DEF Has
  <2> QED
    BY <2>1, <2>2
<1> HIDE DEF B
<1>11. /\ took \in Memories /\ took.heap = s.heap \cup B /\ took.ok = s.ok /\ ~took.broken
       /\ \A x \in Trees, q \in Paths : Node(took, x, q) = Node(s, x, q)
  BY <1>0, <1>7, <1>10, Taken
<1>12. /\ g \in [Paths -> Nodes] /\ g[p] = node /\ \A q \in new : g[q] = Blank(t)
       /\ \A q \in Paths : q # p /\ q \notin new => g[q] = Node(s, t, q)
  <2>1. \A q \in Paths : Node(took, t, q) = took.nodes[t][q] /\ Node(took, t, q) \in Nodes
    BY <1>11, MemoryIs DEF Node
  <2> HIDE DEF took
  <2>2. g \in [Paths -> Nodes]
    BY <1>3, <2>1, Plain
  <2>3. g[p] = node
    OBVIOUS
  <2>4. \A q \in new : g[q] = Blank(t)
    BY <1>5 DEF Blank, Views
  <2>5. \A q \in Paths : q # p /\ q \notin new => g[q] = Node(s, t, q)
    BY <1>11, <2>1
  <2> QED
    BY <2>2, <2>3, <2>4, <2>5
<1> HIDE DEF took, g
<1>13. /\ r \in Memories /\ r.heap = s.heap \cup B /\ ~r.broken /\ r.ok = (got = n)
       /\ r.nodes[t] = g /\ \A x \in Trees \ {t} : r.nodes[x] = took.nodes[x]
  BY <1>1, <1>11, <1>12 DEF Memories
<1>14. /\ Node(r, t, p) = node
       /\ \A q \in new : Node(r, t, q) = Blank(t)
       /\ \A x \in Trees, q \in Paths : x # t \/ (q # p /\ q \notin new) => Node(r, x, q) = Node(s, x, q)
  <2>1. \A x \in Trees, q \in Paths : Node(r, x, q) = r.nodes[x][q] /\ Node(took, x, q) = took.nodes[x][q]
    BY DEF Node
  <2>2. \A x \in Trees, q \in Paths : x # t => Node(r, x, q) = Node(s, x, q)
    BY <1>11, <1>13, <2>1
  <2>3. \A q \in Paths : Node(r, t, q) = g[q]
    BY <1>13, <2>1
  <2> QED
    BY <1>5, <1>12, <2>2, <2>3
<1>15. \A x \in Trees, q \in Paths, w \in What :
         Has(r, x, q, w) <=> \/ Has(s, x, q, w)
                             \/ x = t /\ ((q = p /\ w = "children") \/ (q \in new /\ w = "struct"))
  BY <1>6, <1>13 DEF Has
<1>16. \A k \in Nat : Step(r, t, p, k) <=> k \in 1..got /\ (t # "array" \/ got = n)
  <2> SUFFICES ASSUME NEW k \in Nat
               PROVE  Step(r, t, p, k) <=> k \in 1..got /\ (t # "array" \/ got = n)
    OBVIOUS
  <2>1. Step(r, t, p, k) <=> k # 0 /\ k \in 1..got /\ k <= node.n
    BY <1>3, <1>4, <1>14 DEF Step
  <2>2. k \in 1..got => k # 0 /\ k <= n /\ ~(k <= 0)
    BY <1>0
  <2> QED
    BY <1>3, <2>1, <2>2
<1>17. Apart(s, r, t, p)
  <2>1. IsPrefix(p, p) /\ \A q \in new : IsPrefix(p, q)
    <3>1. p \in Seq(Nat) /\ IsPrefix(p, p)
      BY PrefixSelf, PathsAre
    <3>2. \A k \in 1..got : IsPrefix(p, Append(p, k))
      BY <1>0, <3>1, PrefixNext
    <3> QED
      BY <1>8, <3>1, <3>2
  <2> QED
    BY <1>5, <1>14, <1>15, <2>1 DEF Apart, Inside
<1>18. ASSUME NEW k \in Nat, Append(p, k) \in Paths, NEW q \in Paths, NEW w \in What,
              IsPrefix(Append(p, k), q), Has(r, t, q, w), ~Has(s, t, q, w)
       PROVE  w = "struct" /\ q = Append(p, k) /\ k \in 1..got
  <2>1. q # p
    BY <1>18, BranchIs
  <2>2. w = "struct" /\ q \in new
    BY <1>15, <1>18, <2>1
  <2>3. PICK j \in 1..got : q = Append(p, j)
    BY <1>8, <2>2
  <2>4. j = k
    <3>1. IsPrefix(Append(p, j), q) /\ j \in Nat
      BY <1>0, <2>3, PrefixSelf, PathsAre
    <3> QED
      BY <1>18, <3>1, PrefixFork, PathsAre
  <2> QED
    BY <2>2, <2>3, <2>4
<1>19. \A k \in 1..got : \A q \in Paths, w \in What : IsPrefix(Append(p, k), q) => ~Has(s, t, q, w)
  BY <1>0, <1>2
<1>20. Tidy(r, t, p, ~r.ok)
  <2>1. ASSUME NEW w \in What \ {"struct"} PROVE Has(r, t, p, w) <=> Holds(r, t, p, w)
    <3>1. Has(r, t, p, w) <=> Has(s, t, p, w) \/ w = "children"
      BY <1>5, <1>15
    <3>2. Has(s, t, p, w) <=> Holds(s, t, p, w)
      BY <1>2
    <3> QED
      BY <1>3, <1>14, <3>1, <3>2 DEF Holds
  <2>2. ASSUME NEW k \in Nat, Append(p, k) \in Paths, Step(r, t, p, k)
        PROVE  Has(r, t, Append(p, k), "struct") /\ Tidy(r, t, Append(p, k), ~r.ok)
    <3> DEFINE c == Append(p, k)
    <3>1. k \in 1..got /\ c \in new /\ c \in Paths
      BY <1>9, <1>16, <2>2
    <3>2. Has(r, t, c, "struct")
      BY <1>15, <3>1 DEF What
    <3>3. Leaf(r, t, c) /\ \A w : ~Holds(r, t, c, w)
      BY <1>14, <3>1, BlankIs
    <3>4. \A w \in What \ {"struct"} : ~Has(r, t, c, w)
      <4>1. \A w \in What : ~Has(s, t, c, w)
        BY <1>19, <3>1, PrefixSelf, PathsAre
      <4>2. c # p
        BY <1>5, <3>1
      <4> QED
        BY <1>15, <3>1, <4>1, <4>2
    <3>5. ASSUME NEW q \in Paths, NEW w \in What, IsPrefix(c, q), q # c
          PROVE  ~Has(r, t, q, w)
      BY <1>18, <1>19, <2>2, <3>1, <3>5
    <3> HIDE DEF c
    <3>6. Tidy(r, t, c, ~r.ok)
      BY <3>1, <3>3, <3>4, <3>5, LeafTidy DEF Leftover
    <3> QED
      BY <3>2, <3>6 DEF c
  <2>3. ASSUME NEW k \in Nat, Append(p, k) \in Paths, ~Step(r, t, p, k),
               NEW q \in Paths, NEW w \in What, IsPrefix(Append(p, k), q)
        PROVE  Leftover(r, t, q, w, ~r.ok)
    <3> SUFFICES ASSUME Has(r, t, q, w) PROVE ~r.ok /\ t = "array" /\ w = "struct"
      BY DEF Leftover
    <3>1. ~Has(s, t, q, w)
      <4>1. ~Step(s, t, p, k)
        BY DEF Leaf
      <4> QED
        BY <2>3, <4>1, Disassemble
    <3>2. w = "struct" /\ k \in 1..got
      BY <1>18, <2>3, <3>1
    <3>3. t = "array" /\ got # n
      BY <1>16, <2>3, <3>2
    <3> QED
      BY <1>13, <3>2, <3>3
  <2> QED
    BY <2>1, <2>2, <2>3, Assemble
<1>21. Intact(r)
  BY <1>13 DEF Intact
<1>22. \A q \in Paths : q # p /\ (\A k \in 1..got : q # Append(p, k)) => Node(r, t, q) = Node(s, t, q)
  BY <1>8, <1>14
<1> QED
  BY <1>3, <1>9, <1>13, <1>14, <1>16, <1>17, <1>20, <1>21, <1>22 DEF r, WithSome


(* A node ready for its children: it holds its strings and no other node. *)
Bare(s, t, p) ==
  /\ Intact(s) /\ Tidy(s, t, p, FALSE) /\ Leaf(s, t, p)
  /\ Node(s, t, p).up /\ ~Node(s, t, p).table /\ Node(s, t, p).n = 0

LEMMA ChildrenAllocated ==
  ASSUME NEW s, s.ok, NEW t \in Trees, NEW p \in Paths, Bare(s, t, p),
         NEW n \in Nat, \A k \in 1..n : Append(p, k) \in Paths, NEW r \in AllocateChildren(s, t, p, n)
  PROVE  /\ Intact(r) /\ Apart(s, r, t, p) /\ Tidy(r, t, p, ~r.ok)
         /\ Node(r, t, p).up /\ Node(r, t, p).held = Node(s, t, p).held
         /\ r.ok => /\ \A k \in Nat : Step(r, t, p, k) <=> k \in 1..n
                    /\ \A k \in 1..n : Node(r, t, Append(p, k)) = Blank(t)
                    /\ \A q \in Paths : q # p /\ (\A k \in 1..n : q # Append(p, k))
                                          => Node(r, t, q) = Node(s, t, q)
<1>1. \/ r = Fail(s)
      \/ n = 0 /\ r = s
      \/ \E got \in 0..n : r = WithChildren(s, t, p, n, got)
  BY DEF AllocateChildren, Bare
<1>2. CASE r = Fail(s)
  <2>1. /\ r \in Memories /\ r.heap = s.heap /\ ~r.ok /\ r.broken = s.broken
        /\ \A x \in Trees, q \in Paths : Node(r, x, q) = Node(s, x, q)
    BY <1>2, Failed DEF Bare, Intact
  <2>2. Apart(s, r, t, p) /\ Same(s, r, t, p)
    BY <2>1 DEF Apart, Same, Has
  <2>3. Tidy(r, t, p, FALSE)
    BY <2>2, SameTidy DEF Bare
  <2>4. Tidy(r, t, p, ~r.ok)
    BY <2>3 DEF Tidy
  <2> QED
    BY <2>1, <2>2, <2>4 DEF Bare, Intact
<1>3. CASE n = 0 /\ r = s
  <2>1. Apart(s, r, t, p)
    BY <1>3, ApartNone
  <2>2. 1..n = {}
    BY <1>3
  <2>3. Tidy(r, t, p, ~r.ok)
    BY <1>3 DEF Bare
  <2> QED
    BY <1>3, <2>1, <2>2, <2>3 DEF Bare, Leaf
<1>4. ASSUME NEW got \in 0..n, r = WithChildren(s, t, p, n, got)
      PROVE  /\ Intact(r) /\ Apart(s, r, t, p) /\ Tidy(r, t, p, ~r.ok)
             /\ Node(r, t, p).up /\ Node(r, t, p).held = Node(s, t, p).held
             /\ r.ok => /\ \A k \in Nat : Step(r, t, p, k) <=> k \in 1..n
                        /\ \A k \in 1..n : Node(r, t, Append(p, k)) = Blank(t)
                        /\ \A q \in Paths : q # p /\ (\A k \in 1..n : q # Append(p, k))
                                              => Node(r, t, q) = Node(s, t, q)
  <2>1. WithSome(s, r, t, p, n, got)
    BY <1>4, ChildrenGot, Zenon DEF Bare
  <2> QED
    BY <2>1 DEF WithSome
<1> QED
  BY <1>1, <1>2, <1>3, <1>4

LEMMA DictionaryAllocated ==
  ASSUME NEW s, Intact(s), NEW t \in Trees, NEW p \in Paths, Tidy(s, t, p, FALSE),
         Node(s, t, p).up, ~Step(s, t, p, 0), Append(p, 0) \in Paths,
         NEW r \in AllocateDictionary(s, t, p)
  PROVE  /\ Intact(r) /\ Apart(s, r, t, p) /\ Tidy(r, t, p, FALSE)
         /\ Node(r, t, p).up /\ Node(r, t, p).held = Node(s, t, p).held
         /\ r.ok => /\ \A k \in Nat : Step(r, t, p, k) <=> k = 0 \/ Step(s, t, p, k)
                    /\ Node(r, t, Append(p, 0)) = Blank(t)
                    /\ \A k \in Nat \ {0} : Append(p, k) \in Paths => Same(s, r, t, Append(p, k))
<1> DEFINE q == Append(p, 0)
           node == [Node(s, t, p) EXCEPT !.dict = TRUE]
           marked == SetNode(s, t, p, node)
           took == Take(marked, {<<t, q, "struct">>})
           b == <<t, q, "struct">>
<1>0. s \in Memories /\ Node(s, t, p) \in Nodes /\ ~s.broken /\ q # p /\ IsPrefix(p, q) /\ q \in Paths
      /\ IsPrefix(p, p) /\ IsPrefix(q, q) /\ p \in Seq(Nat)
  BY MemoryIs, PrefixNext, PrefixSelf, PathsAre DEF Intact
<1>1. r = Fail(s) \/ r = SetNode(took, t, q, Blank(t))
  BY DEF AllocateDictionary, Blank, Views, marked, node, SetNode, Node
<1> HIDE DEF q
<1>2. CASE r = Fail(s)
  <2>1. /\ r \in Memories /\ r.heap = s.heap /\ ~r.ok /\ r.broken = s.broken
        /\ \A x \in Trees, y \in Paths : Node(r, x, y) = Node(s, x, y)
    BY <1>0, <1>2, Failed
  <2>2. Apart(s, r, t, p) /\ Same(s, r, t, p)
    BY <2>1 DEF Apart, Same, Has
  <2>3. Tidy(r, t, p, FALSE)
    BY <2>2, SameTidy
  <2> QED
    BY <1>0, <2>1, <2>2, <2>3 DEF Intact
<1>3. CASE r = SetNode(took, t, q, Blank(t))
  <2>1. node \in Nodes /\ node.dict /\ node.up /\ node.held = Node(s, t, p).held
        /\ node.table = Node(s, t, p).table /\ node.kids = Node(s, t, p).kids
        /\ node.n = Node(s, t, p).n
    BY <1>0 DEF Nodes
  <2> HIDE DEF node
  <2>2. /\ marked \in Memories /\ marked.heap = s.heap /\ ~marked.broken
        /\ Node(marked, t, p) = node
        /\ \A x \in Trees, y \in Paths : x # t \/ y # p => Node(marked, x, y) = Node(s, x, y)
    BY <1>0, <2>1, NodeSet
  <2> HIDE DEF marked
  <2>3. b \in Block /\ "struct" \in What
    BY <1>0 DEF Block, What
  <2>4. \A y \in Paths, w \in What : IsPrefix(q, y) => ~Has(s, t, y, w)
    BY Disassemble DEF q
  <2>5. b \notin s.heap
    BY <1>0, <2>3, <2>4 DEF Has
  <2>6. /\ took \in Memories /\ took.heap = s.heap \cup {b} /\ ~took.broken
        /\ \A x \in Trees, y \in Paths : Node(took, x, y) = Node(marked, x, y)
    <3>1. {b} \in SUBSET Block /\ {b} \cap marked.heap = {}
      BY <2>2, <2>3, <2>5
    <3> HIDE DEF b
    <3>2. LET z == Take(marked, {b}) IN
          /\ z \in Memories /\ z.heap = marked.heap \cup {b}
          /\ ~marked.broken /\ {b} \cap marked.heap = {} => ~z.broken
          /\ \A x \in Trees, y \in Paths : Node(z, x, y) = Node(marked, x, y)
      BY <2>2, <3>1, Taken, Zenon
    <3>3. took = Take(marked, {b})
      BY DEF b
    <3> QED
      BY <2>2, <3>1, <3>2, <3>3
  <2> HIDE DEF took
  <2>7. /\ r \in Memories /\ r.heap = s.heap \cup {b} /\ ~r.broken
        /\ Node(r, t, q) = Blank(t)
        /\ \A x \in Trees, y \in Paths : x # t \/ y # q => Node(r, x, y) = Node(took, x, y)
    <3>1. Blank(t) \in Nodes
      BY Plain DEF Blank
    <3> DEFINE m == Blank(t)
    <3> HIDE DEF m, b
    <3> DEFINE z == SetNode(took, t, q, m)
    <3>2. /\ z \in Memories /\ z.heap = took.heap /\ z.ok = took.ok /\ z.broken = took.broken
          /\ Node(z, t, q) = m
          /\ \A x \in Trees, y \in Paths : x # t \/ y # q => Node(z, x, y) = Node(took, x, y)
      <4>1. m \in Nodes /\ took \in Memories /\ q \in Paths
        BY <1>0, <2>6, <3>1 DEF m
      <4> QED
        BY <4>1, NodeSet
    <3> QED
      BY <1>3, <2>6, <3>2 DEF m
  <2>8. Node(r, t, p) = node
        /\ \A x \in Trees, y \in Paths : x # t \/ (y # p /\ y # q) => Node(r, x, y) = Node(s, x, y)
    BY <1>0, <2>2, <2>6, <2>7
  <2>9. \A x \in Trees, y \in Paths, w \in What :
          Has(r, x, y, w) <=> Has(s, x, y, w) \/ (x = t /\ y = q /\ w = "struct")
    BY <2>7 DEF Has
  <2>10. \A k \in Nat : Step(r, t, p, k) <=> k = 0 \/ Step(s, t, p, k)
    BY <2>1, <2>8 DEF Step
  <2> HIDE DEF b
  <2>11. Apart(s, r, t, p)
    BY <1>0, <2>8, <2>9 DEF Apart, Inside
  <2>12. ASSUME NEW k \in Nat \ {0}, Append(p, k) \in Paths PROVE Same(s, r, t, Append(p, k))
    <3>1. \A y \in Paths : IsPrefix(Append(p, k), y) => y # p /\ y # q
      <4> SUFFICES ASSUME NEW y \in Paths, IsPrefix(Append(p, k), y) PROVE y # p /\ y # q
        OBVIOUS
      <4>1. y # p
        BY <2>12, BranchIs
      <4>2. ASSUME y = q PROVE FALSE
        <5>1. IsPrefix(Append(p, 0), y) /\ y \in Seq(Nat)
          BY <1>0, <4>2, PathsAre DEF q
        <5> QED
          BY <1>0, <5>1, PrefixFork
      <4> QED
        BY <4>1, <4>2
    <3> QED
      BY <2>8, <2>9, <3>1 DEF Same
  <2>13. Tidy(r, t, p, FALSE)
    <3>1. ASSUME NEW w \in What \ {"struct"} PROVE Has(r, t, p, w) <=> Holds(r, t, p, w)
      <4>1. Has(s, t, p, w) <=> Holds(s, t, p, w)
        BY Disassemble
      <4> QED
        BY <1>0, <2>1, <2>8, <2>9, <4>1 DEF Holds
    <3>2. ASSUME NEW k \in Nat, Append(p, k) \in Paths, Step(r, t, p, k)
          PROVE  Has(r, t, Append(p, k), "struct") /\ Tidy(r, t, Append(p, k), FALSE)
      <4>1. CASE k = 0
        <5>1. Has(r, t, q, "struct")
          BY <1>0, <2>3, <2>9
        <5>2. Leaf(r, t, q) /\ \A w : ~Holds(r, t, q, w)
          BY <2>7, BlankIs
        <5>3. \A y \in Paths, w \in What : IsPrefix(q, y) /\ (y # q \/ w # "struct") => ~Has(r, t, y, w)
          BY <2>4, <2>9 DEF q
        <5>4. Tidy(r, t, q, FALSE)
          BY <1>0, <5>2, <5>3, LeafTidy DEF Leftover
        <5> QED
          BY <4>1, <5>1, <5>4 DEF q
      <4>2. CASE k # 0
        <5>1. Step(s, t, p, k)
          BY <2>10, <3>2, <4>2
        <5>2. Has(s, t, Append(p, k), "struct") /\ Tidy(s, t, Append(p, k), FALSE)
          BY <3>2, <5>1, Disassemble
        <5>3. Same(s, r, t, Append(p, k))
          BY <2>12, <3>2, <4>2
        <5>4. Has(r, t, Append(p, k), "struct")
          BY <2>3, <2>9, <3>2, <5>2
        <5>5. Tidy(r, t, Append(p, k), FALSE)
          BY <3>2, <5>2, <5>3, SameTidy
        <5> QED
          BY <5>4, <5>5
      <4> QED
        BY <4>1, <4>2
    <3>3. ASSUME NEW k \in Nat, Append(p, k) \in Paths, ~Step(r, t, p, k),
                 NEW y \in Paths, NEW w \in What, IsPrefix(Append(p, k), y)
          PROVE  Leftover(r, t, y, w, FALSE)
      <4>1. k # 0 /\ ~Step(s, t, p, k)
        BY <2>10, <3>3
      <4>2. ~Has(s, t, y, w)
        BY <3>3, <4>1, Disassemble
      <4>3. Same(s, r, t, Append(p, k))
        BY <2>12, <3>3, <4>1
      <4>4. y # q
        <5> SUFFICES ASSUME y = q PROVE FALSE
          OBVIOUS
        <5>1. IsPrefix(Append(p, 0), y) /\ y \in Seq(Nat)
          BY <1>0, PathsAre DEF q
        <5> QED
          BY <1>0, <3>3, <4>1, <5>1, PrefixFork
      <4> QED
        BY <2>9, <4>2, <4>4 DEF Leftover
    <3> QED
      BY <3>1, <3>2, <3>3, Assemble
  <2> QED
    BY <2>1, <2>7, <2>8, <2>10, <2>11, <2>12, <2>13 DEF Intact, q
<1> QED
  BY <1>1, <1>2, <1>3


(* How a node begins. *)
Vacant(s, t, p) ==
  \A q \in Paths, w \in What : Inside(t, p, t, q, w) => ~Has(s, t, q, w)

LEMMA Begun ==
  ASSUME NEW s, NEW r, Intact(s), Intact(r), NEW t \in Trees, NEW p \in Paths, Vacant(s, t, p),
         Others(s, r, t, p), Leaf(r, t, p),
         \A x \in Trees, q \in Paths, w \in What :
           Has(r, x, q, w) <=> Has(s, x, q, w) \/ (x = t /\ q = p /\ w # "struct" /\ Holds(r, t, p, w))
  PROVE  Apart(s, r, t, p) /\ Tidy(r, t, p, FALSE)
<1>0. IsPrefix(p, p)
  BY PrefixSelf, PathsAre
<1>1. Apart(s, r, t, p)
  BY <1>0 DEF Apart, Inside, Others
<1>2. \A w \in What \ {"struct"} : Has(r, t, p, w) <=> Holds(r, t, p, w)
  BY <1>0 DEF Vacant, Inside
<1>3. \A q \in Paths, w \in What : IsPrefix(p, q) /\ q # p => Leftover(r, t, q, w, FALSE)
  BY DEF Vacant, Inside, Leftover
<1> QED
  BY <1>1, <1>2, <1>3, LeafTidy

LEMMA NodeInit ==
  ASSUME NEW s, Intact(s), NEW t \in Trees, NEW p \in Paths, Vacant(s, t, p)
  PROVE  LET r == InitNode(s, t, p) IN
         /\ Bare(r, t, p) /\ Apart(s, r, t, p) /\ Node(r, t, p) = Empty /\ r.ok = s.ok
         /\ Others(s, r, t, p)
<1> DEFINE r == InitNode(s, t, p)
<1>1. /\ r \in Memories /\ r.heap = s.heap /\ r.ok = s.ok /\ r.broken = s.broken
      /\ Node(r, t, p) = Empty
      /\ \A x \in Trees, q \in Paths : x # t \/ q # p => Node(r, x, q) = Node(s, x, q)
  BY NodeSet, Plain DEF InitNode, Intact
<1> HIDE DEF r
<1>2. Leaf(r, t, p) /\ \A w : w # "children" => ~Holds(r, t, p, w)
  BY <1>1, Plain DEF Leaf, Step, Holds
<1>3. ~Holds(r, t, p, "children")
  BY <1>1, Plain DEF Holds
<1>4. Intact(r) /\ Others(s, r, t, p)
  BY <1>1 DEF Intact, Others
<1>5. Apart(s, r, t, p) /\ Tidy(r, t, p, FALSE)
  BY <1>1, <1>2, <1>3, <1>4, Begun DEF Has
<1> QED
  BY <1>1, <1>2, <1>4, <1>5, Plain DEF Bare, r

LEMMA BareString ==
  ASSUME NEW s, NEW t \in Trees, NEW p \in Paths, Bare(s, t, p),
         NEW what \in What \ {"struct", "children"}, NEW r \in SetString(s, t, p, what)
  PROVE  Bare(r, t, p) /\ Apart(s, r, t, p)
<1>1. /\ Intact(r) /\ Apart(s, r, t, p) /\ Tidy(r, t, p, FALSE)
      /\ Links(s, r, t, p) /\ Others(s, r, t, p)
  BY StringSet DEF Bare
<1>2. \A k : Step(r, t, p, k) <=> Step(s, t, p, k)
  BY <1>1, LinksStep
<1> QED
  BY <1>1, <1>2 DEF Bare, Leaf, Links

(* What making a node needs of the memory, and what it is after a failure. *)
Ready(s, t, p) ==
  /\ Intact(s) /\ s.ok /\ Vacant(s, t, p)
  /\ t \in Views => Node(s, t, p) \in {Released, Empty}

LEMMA NodeBegun ==
  ASSUME NEW s, NEW t \in Trees \ {"schema"}, NEW p \in Paths, Ready(s, t, p),
         NEW r \in BeginNode(s, t, p)
  PROVE  /\ Intact(r) /\ Apart(s, r, t, p) /\ Tidy(r, t, p, FALSE)
         /\ r.ok \/ t = "copy" => Bare(r, t, p)
         /\ r.ok /\ t \in Views => Node(r, t, p).held = {}
         /\ ~r.ok /\ t = "array" => ~Node(r, t, p).up
<1>0. t = "copy" \/ t = "array" \/ t \in Views
  BY DEF Trees, Views
<1>1. CASE t = "copy"
  <2> DEFINE a == InitNode(s, t, p)
  <2>1. Bare(a, t, p) /\ Apart(s, a, t, p) /\ t \in Trees
    BY NodeInit DEF Ready
  <2> HIDE DEF a
  <2>2. r \in Then(Then(SetString(a, t, p, "format"), LAMBDA x : SetString(x, t, p, "name")),
                   LAMBDA x : SetString(x, t, p, "metadata"))
    BY <1>1 DEF BeginNode, a
  <2>3. PICK y \in Then(SetString(a, t, p, "format"), LAMBDA x : SetString(x, t, p, "name")) :
          r = y \/ r \in SetString(y, t, p, "metadata")
    BY <2>2 DEF Then
  <2>4. PICK x \in SetString(a, t, p, "format") : y = x \/ y \in SetString(x, t, p, "name")
    BY <2>3 DEF Then
  <2>5. {"format", "name", "metadata"} \subseteq What \ {"struct", "children"}
    BY DEF What
  <2>6. Bare(x, t, p) /\ Apart(a, x, t, p)
    BY <2>1, <2>5, BareString
  <2>7. Bare(y, t, p) /\ Apart(a, y, t, p)
    BY <2>1, <2>4, <2>5, <2>6, BareString, ApartChain
  <2>8. Bare(r, t, p) /\ Apart(a, r, t, p)
    BY <2>1, <2>3, <2>5, <2>7, BareString, ApartChain
  <2>9. Apart(s, r, t, p)
    BY <2>1, <2>8, ApartChain
  <2> QED
    BY <1>1, <2>8, <2>9 DEF Bare, Views
<1>2. CASE t \in Views
  <2>1. r = Fail(s) \/ r = InitNode(s, t, p)
    BY <1>2 DEF BeginNode, Views
  <2>2. CASE r = InitNode(s, t, p)
    <3>1. Bare(r, t, p) /\ Apart(s, r, t, p) /\ Node(r, t, p) = Empty
      BY <2>2, NodeInit DEF Ready
    <3> QED
      BY <1>2, <3>1, Plain DEF Bare, Views
  <2>3. CASE r = Fail(s)
    <3>1. /\ r \in Memories /\ r.heap = s.heap /\ ~r.ok /\ r.broken = s.broken
          /\ \A x \in Trees, q \in Paths : Node(r, x, q) = Node(s, x, q)
      BY <2>3, Failed DEF Ready, Intact
    <3>2. Leaf(r, t, p) /\ \A w : ~Holds(r, t, p, w)
      BY <1>2, <3>1, Plain DEF Ready, Leaf, Step, Holds
    <3>3. Others(s, r, t, p) /\ Intact(r)
      BY <3>1 DEF Others, Ready, Intact
    <3>4. Apart(s, r, t, p) /\ Tidy(r, t, p, FALSE)
      BY <3>1, <3>2, <3>3, Begun DEF Ready, Has
    <3> QED
      BY <1>2, <3>1, <3>3, <3>4 DEF Views
  <2> QED
    BY <2>1, <2>2, <2>3
<1>3. CASE t = "array"
  <2> DEFINE none == SetNode(s, t, p, Released)
             node == [Empty EXCEPT !.held = {"private_data", "buffer_data"}]
             made == SetNode(s, t, p, node)
             B == {<<t, p, "private_data">>, <<t, p, "buffer_data">>}
  <2>1. r = Fail(none) \/ r = Take(made, B)
    BY <1>3 DEF BeginNode, Views
  <2>2. s \in Memories /\ ~s.broken /\ t \in Trees
    BY DEF Ready, Intact
  <2>3. CASE r = Fail(none)
    <3>1. /\ none \in Memories /\ none.heap = s.heap /\ none.broken = s.broken
          /\ Node(none, t, p) = Released
          /\ \A x \in Trees, q \in Paths : x # t \/ q # p => Node(none, x, q) = Node(s, x, q)
      BY <2>2, NodeSet, Plain
    <3> HIDE DEF none
    <3>2. /\ r \in Memories /\ r.heap = s.heap /\ ~r.ok /\ r.broken = s.broken
          /\ \A x \in Trees, q \in Paths : Node(r, x, q) = Node(none, x, q)
      BY <2>3, <3>1, Failed
    <3>3. Leaf(r, t, p) /\ (\A w : ~Holds(r, t, p, w)) /\ ~Node(r, t, p).up
      BY <3>1, <3>2, Plain DEF Leaf, Step, Holds
    <3>4. Others(s, r, t, p) /\ Intact(r)
      BY <2>2, <3>1, <3>2 DEF Others, Intact
    <3>5. Apart(s, r, t, p) /\ Tidy(r, t, p, FALSE)
      BY <2>2, <3>2, <3>3, <3>4, Begun DEF Ready, Has
    <3> QED
      BY <1>3, <3>2, <3>3, <3>4, <3>5
  <2>4. CASE r = Take(made, B)
    <3>1. /\ node \in Nodes /\ node.held = {"private_data", "buffer_data"} /\ node.up
          /\ ~node.table /\ node.n = 0 /\ ~node.dict /\ node.kids = {}
      BY Plain DEF Nodes, What
    <3> HIDE DEF node
    <3>2. /\ made \in Memories /\ made.heap = s.heap /\ made.broken = s.broken /\ made.ok = s.ok
          /\ Node(made, t, p) = node
          /\ \A x \in Trees, q \in Paths : x # t \/ q # p => Node(made, x, q) = Node(s, x, q)
      BY <2>2, <3>1, NodeSet
    <3> HIDE DEF made
    <3>3. B \in SUBSET Block
      BY <2>2 DEF Block, What
    <3>4. B \cap s.heap = {}
      <4>1. IsPrefix(p, p) /\ {"private_data", "buffer_data"} \subseteq What
        BY PrefixSelf, PathsAre DEF What
      <4>2. \A w \in {"private_data", "buffer_data"} : ~Has(s, t, p, w)
        BY <4>1 DEF Ready, Vacant, Inside
      <4> QED
        BY <4>2 DEF Has
    <3>5. \A x \in Trees, q \in Paths, w \in What :
            <<x, q, w>> \in B <=> x = t /\ q = p /\ w \in {"private_data", "buffer_data"}
      OBVIOUS
    <3> HIDE DEF B
    <3>6. /\ r \in Memories /\ r.heap = s.heap \cup B /\ ~r.broken /\ r.ok = made.ok
          /\ \A x \in Trees, q \in Paths : Node(r, x, q) = Node(made, x, q)
      BY <2>2, <2>4, <3>2, <3>3, <3>4, Taken
    <3>7. Node(r, t, p) = node
      BY <2>2, <3>2, <3>6
    <3>8. Leaf(r, t, p) /\ \A w : Holds(r, t, p, w) <=> w \in {"private_data", "buffer_data"}
      BY <3>1, <3>7 DEF Leaf, Step, Holds
    <3>9. Others(s, r, t, p) /\ Intact(r)
      BY <2>2, <3>2, <3>6 DEF Others, Intact
    <3>10. \A x \in Trees, q \in Paths, w \in What :
             Has(r, x, q, w) <=> Has(s, x, q, w) \/ (x = t /\ q = p /\ w # "struct" /\ Holds(r, t, p, w))
      BY <3>5, <3>6, <3>8 DEF Has
    <3>11. Apart(s, r, t, p) /\ Tidy(r, t, p, FALSE)
      BY <2>2, <3>8, <3>9, <3>10, Begun DEF Ready
    <3>12. Bare(r, t, p)
      BY <3>1, <3>7, <3>8, <3>9, <3>11 DEF Bare
    <3> QED
      BY <1>3, <3>2, <3>6, <3>9, <3>11, <3>12 DEF Views, Ready
  <2> QED
    BY <2>1, <2>3, <2>4
<1> QED
  BY <1>0, <1>1, <1>2, <1>3

(* Only an array loses anything. *)
LEMMA TidyLost ==
  ASSUME NEW s, NEW t, NEW p, NEW lost
  PROVE  /\ Tidy(s, t, p, FALSE) => Tidy(s, t, p, lost)
         /\ t # "array" /\ Tidy(s, t, p, lost) => Tidy(s, t, p, FALSE)
BY DEF Tidy

LEMMA FailedSame ==
  ASSUME NEW s, Intact(s), NEW t \in Trees, NEW p \in Paths
  PROVE  /\ Intact(Fail(s)) /\ ~Fail(s).ok /\ Apart(s, Fail(s), t, p)
         /\ Same(s, Fail(s), t, p) /\ Others(s, Fail(s), t, p) /\ Node(Fail(s), t, p) = Node(s, t, p)
         /\ \A lost : Tidy(s, t, p, lost) => Tidy(Fail(s), t, p, lost)
<1>1. /\ Fail(s) \in Memories /\ Fail(s).heap = s.heap /\ ~Fail(s).ok /\ Fail(s).broken = s.broken
      /\ \A x \in Trees, q \in Paths : Node(Fail(s), x, q) = Node(s, x, q)
  BY Failed DEF Intact
<1>2. Apart(s, Fail(s), t, p) /\ Same(s, Fail(s), t, p)
  BY <1>1 DEF Apart, Same, Has
<1>3. \A lost : Tidy(s, t, p, lost) => Tidy(Fail(s), t, p, lost)
  BY <1>2, SameTidy
<1> QED
  BY <1>1, <1>2, <1>3 DEF Intact, Others

LEMMA ViewReset ==
  ASSUME NEW s, Intact(s), NEW t \in Views, NEW p \in Paths, NEW lost, Tidy(s, t, p, lost)
  PROVE  LET r == Reset(s, t, p) IN
         /\ Intact(r) /\ r.ok = s.ok /\ Apart(s, r, t, p)
         /\ Tidy(r, t, p, FALSE) /\ Node(r, t, p) = Empty /\ Vacant(r, t, p)
<1> DEFINE a == Release(s, t, p)
           r == Reset(s, t, p)
<1>1. t \in Trees /\ t # "array"
  BY DEF Views, Trees
<1>2. /\ Intact(a) /\ a.ok = s.ok /\ Apart(s, a, t, p)
      /\ ~Node(a, t, p).up /\ Tidy(a, t, p, lost)
  BY <1>1, Clearing
<1> HIDE DEF a
<1>3. Vacant(a, t, p)
  BY <1>1, <1>2, TidyLost, DownOwns DEF Vacant, Tidy
<1>4. r = InitNode(a, t, p)
  BY DEF Reset, InitNode, a
<1> HIDE DEF r
<1>5. Bare(r, t, p) /\ Apart(a, r, t, p) /\ Node(r, t, p) = Empty /\ r.ok = a.ok
  BY <1>1, <1>2, <1>3, <1>4, NodeInit
<1>6. r.heap = a.heap
  BY <1>1, <1>2, <1>4, NodeSet, Plain DEF InitNode, Intact
<1>7. Vacant(r, t, p) /\ Apart(s, r, t, p)
  BY <1>2, <1>3, <1>5, <1>6, ApartChain DEF Vacant, Has
<1> QED
  BY <1>2, <1>5, <1>7 DEF r, Bare

LEMMA Undone ==
  ASSUME NEW s, Intact(s), NEW t \in Trees, NEW p \in Paths, NEW lost, Tidy(s, t, p, lost)
  PROVE  LET r == Fail(Undo(s, t, p)) IN
         /\ Intact(r) /\ ~r.ok /\ Apart(s, r, t, p) /\ Tidy(r, t, p, lost)
         /\ t \notin Views => ~Node(r, t, p).up
<1> DEFINE a == Undo(s, t, p)
<1>1. /\ Intact(a) /\ Apart(s, a, t, p) /\ Tidy(a, t, p, lost)
      /\ t \notin Views => ~Node(a, t, p).up
  <2>1. CASE t \in Views
    <3>1. a = Reset(s, t, p)
      BY <2>1 DEF Undo, Views
    <3> QED
      BY <2>1, <3>1, ViewReset, TidyLost
  <2>2. CASE t \notin Views
    <3>1. a = Release(s, t, p)
      BY <2>2 DEF Undo, Views
    <3> QED
      BY <2>2, <3>1, Clearing
  <2> QED
    BY <2>1, <2>2
<1> HIDE DEF a
<1>2. /\ Intact(Fail(a)) /\ ~Fail(a).ok /\ Apart(a, Fail(a), t, p) /\ Tidy(Fail(a), t, p, lost)
      /\ Node(Fail(a), t, p) = Node(a, t, p)
  BY <1>1, FailedSame
<1> QED
  BY <1>1, <1>2, ApartChain DEF a

LEMMA TypeIdMapped ==
  ASSUME NEW s, Intact(s), NEW t \in Trees, NEW p \in Paths, Tidy(s, t, p, FALSE),
         Node(s, t, p).up, t \in Views => Node(s, t, p).held = {}, NEW r \in TypeIdMap(s, t, p)
  PROVE  /\ Intact(r) /\ Apart(s, r, t, p) /\ Tidy(r, t, p, FALSE)
         /\ Links(s, r, t, p) /\ Others(s, r, t, p)
<1> DEFINE made == [s EXCEPT !.nodes[t][p].held = {"union_type_id_map"}]
           B == {<<t, p, "union_type_id_map">>}
<1>1. r = s \/ r = Fail(s) \/ (t \in Views /\ r = Take(made, B))
  BY DEF TypeIdMap, Views
<1>2. CASE r = s
  BY <1>2, ApartNone DEF Links, Others
<1>3. CASE r = Fail(s)
  BY <1>3, FailedSame DEF Links
<1>4. CASE t \in Views /\ r = Take(made, B)
  <2> DEFINE node == [Node(s, t, p) EXCEPT !.held = {"union_type_id_map"}]
  <2>1. s \in Memories /\ ~s.broken /\ Node(s, t, p) \in Nodes
    BY MemoryIs DEF Intact
  <2>2. /\ node \in Nodes /\ node.held = {"union_type_id_map"}
        /\ node.up = Node(s, t, p).up /\ node.n = Node(s, t, p).n /\ node.table = Node(s, t, p).table
        /\ node.kids = Node(s, t, p).kids /\ node.dict = Node(s, t, p).dict
    BY <2>1 DEF Nodes, What
  <2>3. made = SetNode(s, t, p, node)
    BY <2>1 DEF SetNode, Node, Memories
  <2> HIDE DEF node, made
  <2>4. /\ made \in Memories /\ made.heap = s.heap /\ made.broken = s.broken
        /\ Node(made, t, p) = node
        /\ \A x \in Trees, q \in Paths : x # t \/ q # p => Node(made, x, q) = Node(s, x, q)
    BY <2>1, <2>2, <2>3, NodeSet
  <2>5. B \in SUBSET Block
    BY DEF Block, What
  <2>6. \A w \in What \ {"struct", "children"} : ~Has(s, t, p, w)
    BY <1>4, Disassemble DEF Holds
  <2>7. B \cap s.heap = {}
    BY <2>6 DEF Has, What
  <2>8. \A x \in Trees, q \in Paths, w \in What :
          <<x, q, w>> \in B <=> x = t /\ q = p /\ w = "union_type_id_map"
    OBVIOUS
  <2> HIDE DEF B
  <2>9. /\ r \in Memories /\ r.heap = s.heap \cup B /\ ~r.broken
        /\ \A x \in Trees, q \in Paths : Node(r, x, q) = Node(made, x, q)
    BY <1>4, <2>1, <2>4, <2>5, <2>7, Taken
  <2>10. Links(s, r, t, p) /\ Others(s, r, t, p) /\ Intact(r) /\ Node(r, t, p).held = {"union_type_id_map"}
    BY <2>2, <2>4, <2>9 DEF Links, Others, Intact
  <2>11. \A w \in What \ {"struct", "children"} : Has(r, t, p, w) <=> w \in Node(r, t, p).held
    BY <2>6, <2>8, <2>9, <2>10 DEF Has
  <2>12. \A x \in Trees, q \in Paths, w \in What :
           x # t \/ q # p \/ w \in {"struct", "children"} => (Has(r, x, q, w) <=> Has(s, x, q, w))
    BY <2>8, <2>9 DEF Has
  <2> QED
    BY <2>10, <2>11, <2>12, HeldChanged
<1> QED
  BY <1>1, <1>2, <1>3, <1>4


---------------------------------------------------------------------------
(* Making a tree.                                                          *)

(* A loop of calls: what each preserves holds at the end. *)
Turns(f, results, n, do) ==
  f = [k \in 0..n |-> IF k = 0 THEN results ELSE Then(f[k - 1], LAMBDA s : do[k][s])]

LEMMA LoopIs ==
  ASSUME NEW results, NEW n \in Nat, NEW do
  PROVE  \E f : Turns(f, results, n, do) /\ InTurn(results, n, do) = f[n]
<1> DEFINE Next1(S, k) == Then(S, LAMBDA s : do[k][s])
           Part(f, m) == f = [k \in 0..m |-> IF k = 0 THEN results ELSE Next1(f[k - 1], k)]
           T == {m \in Nat : \E f : Part(f, m)}
<1>0. ASSUME NEW f, Part(f, n)
      PROVE  Turns(f, results, n, do)
  BY <1>0 DEF Turns
<1>1. InTurn(results, n, do) = (CHOOSE f : Part(f, n))[n]
  BY Zenon DEF InTurn
<1> HIDE DEF Next1
<1>2. 0 \in T
  <2>1. Part([k \in 0..0 |-> results], 0)
    OBVIOUS
  <2> QED
    BY <2>1
<1>3. ASSUME NEW m \in T PROVE m + 1 \in T
  <2>1. PICK f : Part(f, m)
    OBVIOUS
  <2> DEFINE e == Next1(f[m], m + 1)
             g == [k \in 0..(m + 1) |-> IF k = m + 1 THEN e ELSE f[k]]
  <2>2. m \in Nat
    OBVIOUS
  <2>3. \A k \in 0..m : f[k] = IF k = 0 THEN results ELSE Next1(f[k - 1], k)
    BY <2>1
  <2> HIDE DEF Part
  <2>4. g = [k \in 0..(m + 1) |-> g[k]] /\ g[m + 1] = e /\ \A k \in 0..m : g[k] = f[k]
    <3> HIDE DEF e
    <3> QED
      BY <2>2
  <2> HIDE DEF g
  <2>5. ASSUME NEW k \in 0..(m + 1)
        PROVE  g[k] = IF k = 0 THEN results ELSE Next1(g[k - 1], k)
    <3>1. CASE k = m + 1
      <4>1. k - 1 \in 0..m /\ k - 1 = m /\ k # 0
        BY <2>2, <3>1
      <4> QED
        BY <2>4, <3>1, <4>1
    <3>2. CASE k \in 0..m
      <4>1. k # 0 => k - 1 \in 0..m
        BY <2>2, <3>2
      <4> QED
        BY <2>3, <2>4, <3>2, <4>1
    <3> QED
      BY <2>2, <3>1, <3>2
  <2>6. Part(g, m + 1)
    BY <2>4, <2>5, Zenon DEF Part
  <2> QED
    BY <2>2, <2>6
<1>4. Nat \subseteq T
  <2>1. T \subseteq Nat
    OBVIOUS
  <2> HIDE DEF T
  <2> QED
    BY <1>2, <1>3, <2>1, NatInduct, Zenon
<1>5. \E f : Part(f, n)
  BY <1>4
<1> HIDE DEF Part
<1>6. Part(CHOOSE f : Part(f, n), n)
  BY <1>5, Zenon
<1> QED
  BY <1>0, <1>1, <1>6, Zenon

LEMMA LoopHolds ==
  ASSUME NEW results, NEW n \in Nat, NEW do, NEW J, results \subseteq J[0],
         \A k \in 1..n : \A s \in J[k - 1] :
           (s.ok => do[k][s] \subseteq J[k]) /\ (~s.ok => s \in J[k])
  PROVE  InTurn(results, n, do) \subseteq J[n]
<1>1. PICK f : Turns(f, results, n, do) /\ InTurn(results, n, do) = f[n]
  BY LoopIs, Zenon
<1> DEFINE T == {k \in Nat : k <= n => f[k] \subseteq J[k]}
<1>2. /\ f[0] = results
      /\ \A k \in 1..n : f[k] = UNION {IF s.ok THEN do[k][s] ELSE {s} : s \in f[k - 1]}
  <2>1. \A k \in 0..n : f[k] = IF k = 0 THEN results ELSE Then(f[k - 1], LAMBDA s : do[k][s])
    BY <1>1, Zenon DEF Turns
  <2>2. \A k \in 1..n : Then(f[k - 1], LAMBDA s : do[k][s]) = UNION {IF s.ok THEN do[k][s] ELSE {s} : s \in f[k - 1]}
    BY Zenon DEF Then
  <2>3. \A k \in 1..n : k \in 0..n /\ k # 0
    OBVIOUS
  <2>4. 0 \in 0..n
    OBVIOUS
  <2> QED
    BY <2>1, <2>2, <2>3, <2>4, Zenon
<1>3. 0 \in T
  BY <1>2
<1>4. ASSUME NEW m \in T PROVE m + 1 \in T
  <2>1. m \in Nat
    OBVIOUS
  <2> SUFFICES ASSUME m + 1 <= n PROVE f[m + 1] \subseteq J[m + 1]
    BY <2>1
  <2>2. m + 1 \in 1..n /\ (m + 1) - 1 = m /\ m <= n
    BY <2>1
  <2>3. f[m] \subseteq J[m] /\ f[m + 1] = UNION {IF s.ok THEN do[m + 1][s] ELSE {s} : s \in f[m]}
    BY <1>2, <2>1, <2>2
  <2>4. \A s \in J[m] : (s.ok => do[m + 1][s] \subseteq J[m + 1]) /\ (~s.ok => s \in J[m + 1])
    BY <2>2
  <2>5. ASSUME NEW r \in f[m + 1] PROVE r \in J[m + 1]
    <3>1. PICK s \in f[m] : r \in IF s.ok THEN do[m + 1][s] ELSE {s}
      BY <2>3
    <3> QED
      BY <2>3, <2>4, <3>1
  <2> QED
    BY <2>5
<1>5. Nat \subseteq T
  <2>1. T \subseteq Nat
    OBVIOUS
  <2> HIDE DEF T
  <2> QED
    BY <1>3, <1>4, <2>1, NatInduct, Zenon
<1>6. f[n] \subseteq J[n]
  BY <1>5
<1> QED
  BY <1>1, <1>6, Zenon


(* The nodes initialised at p and below are those of the shape. *)
Whole(s, t, p, sh) ==
  \A q \in Paths : IsPrefix(p, q) => (Owns(s, t, p, q) /\ Node(s, t, q).up <=> q \in sh)

LEMMA WholeSame ==
  ASSUME NEW s, NEW r, NEW t, NEW p \in Paths, NEW sh, Same(s, r, t, p), Whole(s, t, p, sh)
  PROVE  Whole(r, t, p, sh)
BY SameOwned DEF Whole, Same

LEMMA WholeLinks ==
  ASSUME NEW s, NEW r, NEW t \in Trees, NEW p \in Paths, NEW sh,
         Links(s, r, t, p), Others(s, r, t, p), Whole(s, t, p, sh)
  PROVE  Whole(r, t, p, sh)
<1>1. \A q \in Paths : Owns(r, t, p, q) <=> Owns(s, t, p, q)
  BY LinksOwned
<1>2. \A q \in Paths : Node(r, t, q).up = Node(s, t, q).up
  BY DEF Links, Others
<1> QED
  BY <1>1, <1>2 DEF Whole

LEMMA WholeFrom ==
  ASSUME NEW s, NEW t, NEW p \in Paths, NEW sh, IsShape(sh), sh \subseteq Paths, p \in sh,
         Node(s, t, p).up, \A k \in Nat : Step(s, t, p, k) <=> Append(p, k) \in sh,
         \A k \in Nat : Append(p, k) \in sh => Whole(s, t, Append(p, k), sh)
  PROVE  Whole(s, t, p, sh)
<1> SUFFICES ASSUME NEW q \in Paths, IsPrefix(p, q)
             PROVE  Owns(s, t, p, q) /\ Node(s, t, q).up <=> q \in sh
  BY DEF Whole
<1>1. CASE q = p
  BY <1>1, OwnsSelf, PathsAre
<1>2. CASE q # p
  <2>1. PICK k \in Nat : Append(p, k) \in Paths /\ IsPrefix(Append(p, k), q)
    BY <1>2, NextBelow
  <2>2. Owns(s, t, p, q) <=> Step(s, t, p, k) /\ Owns(s, t, Append(p, k), q)
    BY <2>1, BranchIs
  <2>3. CASE Append(p, k) \in sh
    BY <2>1, <2>2, <2>3 DEF Whole
  <2>4. CASE Append(p, k) \notin sh
    <3>1. q \in sh => Append(p, k) \in sh
      BY <2>1, ShapeOf, PathsAre
    <3> QED
      BY <2>2, <2>4, <3>1
  <2> QED
    BY <2>3, <2>4
<1> QED
  BY <1>1, <1>2

(* What making a node and those below it leaves. *)
Made(s, r, t, p, sh) ==
  /\ Intact(r) /\ Apart(s, r, t, p) /\ Tidy(r, t, p, ~r.ok)
  /\ r.ok => Whole(r, t, p, sh)
  /\ ~r.ok /\ t \notin Views => ~Node(r, t, p).up

LEMMA ChildReady ==
  ASSUME NEW s, s.ok, Intact(s), NEW t \in Trees, NEW p \in Paths, Tidy(s, t, p, FALSE),
         NEW k \in Nat, Append(p, k) \in Paths, Step(s, t, p, k),
         Node(s, t, Append(p, k)) = Blank(t)
  PROVE  Ready(s, t, Append(p, k))
<1> DEFINE c == Append(p, k)
<1>1. Tidy(s, t, c, FALSE)
  BY Disassemble
<1>2. Leaf(s, t, c) /\ \A w : ~Holds(s, t, c, w)
  BY BlankIs
<1>3. c \in Paths /\ Node(s, t, c) = Blank(t)
  OBVIOUS
<1> HIDE DEF c
<1>4. \A q \in Paths, w \in What : ~OwnsBlock(s, t, c, q, w)
  BY <1>2, <1>3, LeafOwns DEF OwnsBlock
<1>5. Vacant(s, t, c)
  BY <1>1, <1>4 DEF Vacant, Tidy, Inside
<1>6. Ready(s, t, c)
  BY <1>3, <1>5 DEF Ready, Blank
<1> QED
  BY <1>6 DEF c

LEMMA ChildMade ==
  ASSUME NEW s, NEW t \in Trees, NEW p \in Paths, Tidy(s, t, p, FALSE),
         NEW k \in Nat, Append(p, k) \in Paths, Step(s, t, p, k),
         NEW sh, NEW r, Made(s, r, t, Append(p, k), sh)
  PROVE  /\ Intact(r) /\ Apart(s, r, t, p) /\ Tidy(r, t, p, ~r.ok)
         /\ Node(r, t, p) = Node(s, t, p)
         /\ r.ok => Whole(r, t, Append(p, k), sh)
         /\ \A j \in Nat \ {k} : Append(p, j) \in Paths => Same(s, r, t, Append(p, j))
<1>1. p \in Seq(Nat) /\ ~IsPrefix(Append(p, k), p)
  BY PathsAre, PrefixNext
<1>2. /\ Intact(r) /\ Apart(s, r, t, Append(p, k)) /\ Tidy(r, t, Append(p, k), ~r.ok)
      /\ r.ok => Whole(r, t, Append(p, k), sh)
  BY DEF Made
<1>3. Owns(s, t, p, Append(p, k))
  BY <1>1, OwnsNext
<1>4. Apart(s, r, t, p) /\ Tidy(r, t, p, ~r.ok)
  BY <1>2, <1>3, Graft
<1>5. Node(r, t, p) = Node(s, t, p)
  BY <1>1, <1>2 DEF Apart
<1>6. \A j \in Nat \ {k} : Append(p, j) \in Paths => Same(s, r, t, Append(p, j))
  BY <1>2, ApartBranch
<1> QED
  BY <1>2, <1>4, <1>5, <1>6

(* The calls for the nodes next to p do this. *)
Promised(below, t, p, sh) ==
  \A k \in Nat, s \in Memories :
    Append(p, k) \in sh /\ Ready(s, t, Append(p, k)) =>
      \A r \in below[Append(p, k)][s] : Made(s, r, t, Append(p, k), sh)

(* The children up to k are made, the others are as they were allocated. *)
Reared(b, r, t, p, sh, k) ==
  /\ Intact(r) /\ Apart(b, r, t, p) /\ Tidy(r, t, p, ~r.ok)
  /\ Node(r, t, p).up /\ Node(r, t, p).held = Node(b, t, p).held
  /\ r.ok => \A j \in Nat : Step(r, t, p, j) <=> j \in 1..Arity(sh, p)
  /\ r.ok => \A j \in 1..k : Whole(r, t, Append(p, j), sh)
  /\ r.ok => \A j \in (k + 1)..Arity(sh, p) : Node(r, t, Append(p, j)) = Blank(t)

LEMMA NextReared ==
  ASSUME NEW b, NEW s, s.ok, NEW t \in Trees, NEW p \in Paths,
         NEW sh, IsShape(sh), sh \subseteq Paths, p \in sh, NEW k \in 1..Arity(sh, p),
         Reared(b, s, t, p, sh, k - 1), NEW below, Promised(below, t, p, sh),
         NEW r \in below[Append(p, k)][s]
  PROVE  Reared(b, r, t, p, sh, k)
<1>0. /\ Arity(sh, p) \in Nat /\ k \in Nat
      /\ \A j \in 1..Arity(sh, p) : Append(p, j) \in sh /\ Append(p, j) \in Paths
  <2>1. /\ p \in Seq(Nat) /\ Arity(sh, p) \in Nat
        /\ \A j \in Nat \ {0} : j \in 1..Arity(sh, p) <=> Append(p, j) \in sh
    BY ShapeOf
  <2> HIDE DEF IsShape
  <2> QED
    BY <2>1
<1> DEFINE n == Arity(sh, p)
<1>n. n \in Nat /\ n = Arity(sh, p) /\ k \in 1..n
  BY <1>0
<1> HIDE DEF n
<1>1. /\ Intact(s) /\ Apart(b, s, t, p) /\ Tidy(s, t, p, FALSE)
      /\ Node(s, t, p).up /\ Node(s, t, p).held = Node(b, t, p).held
      /\ \A j \in Nat : Step(s, t, p, j) <=> j \in 1..n
      /\ \A j \in 1..(k - 1) : Whole(s, t, Append(p, j), sh)
      /\ \A j \in k..n : Node(s, t, Append(p, j)) = Blank(t)
  <2>1. (k - 1) + 1 = k
    BY <1>0
  <2> QED
    BY <1>n, <2>1, TidyLost DEF Reared
<1>2. Step(s, t, p, k) /\ Node(s, t, Append(p, k)) = Blank(t)
      /\ Append(p, k) \in Paths /\ Append(p, k) \in sh
  BY <1>0, <1>1, <1>n
<1>3. Ready(s, t, Append(p, k))
  BY <1>0, <1>1, <1>2, ChildReady
<1>4. Made(s, r, t, Append(p, k), sh)
  BY <1>0, <1>1, <1>2, <1>3 DEF Promised, Intact
<1>5. /\ Intact(r) /\ Apart(s, r, t, p) /\ Tidy(r, t, p, ~r.ok)
      /\ Node(r, t, p) = Node(s, t, p)
      /\ r.ok => Whole(r, t, Append(p, k), sh)
      /\ \A j \in Nat \ {k} : Append(p, j) \in Paths => Same(s, r, t, Append(p, j))
  BY <1>0, <1>1, <1>2, <1>4, ChildMade
<1>6. Apart(b, r, t, p)
  BY <1>1, <1>5, ApartChain
<1>7. \A j \in Nat : Step(r, t, p, j) <=> j \in 1..n
  BY <1>1, <1>5, StepSame
<1>8. r.ok => \A j \in 1..k : Whole(r, t, Append(p, j), sh)
  <2> SUFFICES ASSUME r.ok, NEW j \in 1..k, j # k PROVE Whole(r, t, Append(p, j), sh)
    BY <1>5
  <2>1. j \in 1..(k - 1) /\ j \in 1..n /\ j \in Nat \ {k}
    BY <1>n
  <2>2. Append(p, j) \in Paths
    BY <1>0, <1>n, <2>1
  <2>3. Same(s, r, t, Append(p, j)) /\ Whole(s, t, Append(p, j), sh)
    BY <1>1, <1>5, <2>1, <2>2
  <2> QED
    BY <2>2, <2>3, WholeSame
<1>9. \A j \in (k + 1)..n : Node(r, t, Append(p, j)) = Blank(t)
  <2> SUFFICES ASSUME NEW j \in (k + 1)..n PROVE Node(r, t, Append(p, j)) = Blank(t)
    OBVIOUS
  <2>1. j \in k..n /\ j \in 1..n /\ j \in Nat \ {k}
    BY <1>n
  <2>2. Append(p, j) \in Paths
    BY <1>0, <1>n, <2>1
  <2>3. Same(s, r, t, Append(p, j)) /\ Node(s, t, Append(p, j)) = Blank(t)
    BY <1>1, <1>5, <2>1, <2>2
  <2> QED
    BY <2>2, <2>3, PrefixSelf, PathsAre DEF Same
<1> QED
  BY <1>n, <1>1, <1>5, <1>6, <1>7, <1>8, <1>9 DEF Reared


LEMMA ChildrenMade ==
  ASSUME NEW b, b.ok, NEW t \in Trees, NEW p \in Paths, Bare(b, t, p),
         NEW sh, IsShape(sh), sh \subseteq Paths, p \in sh,
         NEW below, Promised(below, t, p, sh), NEW n, n = Arity(sh, p),
         NEW r \in InTurn(AllocateChildren(b, t, p, n), n, [k \in 1..n |-> below[Append(p, k)]])
  PROVE  Reared(b, r, t, p, sh, n)
<1>0. /\ n \in Nat /\ \A j \in 1..n : Append(p, j) \in Paths
  <2>1. /\ p \in Seq(Nat) /\ Arity(sh, p) \in Nat
        /\ \A j \in Nat \ {0} : j \in 1..Arity(sh, p) <=> Append(p, j) \in sh
    BY ShapeOf
  <2> QED
    BY <2>1
<1> DEFINE first == AllocateChildren(b, t, p, n)
           do == [k \in 1..n |-> below[Append(p, k)]]
           J == [k \in 0..n |-> {s \in Memories : Reared(b, s, t, p, sh, k)}]
<1>1. first \subseteq J[0]
  <2> SUFFICES ASSUME NEW s \in first PROVE s \in Memories /\ Reared(b, s, t, p, sh, 0)
    BY <1>0
  <2>1. /\ Intact(s) /\ Apart(b, s, t, p) /\ Tidy(s, t, p, ~s.ok)
        /\ Node(s, t, p).up /\ Node(s, t, p).held = Node(b, t, p).held
        /\ s.ok => /\ \A k \in Nat : Step(s, t, p, k) <=> k \in 1..n
                   /\ \A k \in 1..n : Node(s, t, Append(p, k)) = Blank(t)
    BY <1>0, ChildrenAllocated
  <2> HIDE DEF first
  <2> QED
    BY <2>1 DEF Reared, Intact
<1>2. ASSUME NEW k \in 1..n, NEW s \in J[k - 1]
      PROVE  (s.ok => do[k][s] \subseteq J[k]) /\ (~s.ok => s \in J[k])
  <2>1. s \in Memories /\ Reared(b, s, t, p, sh, k - 1)
    BY <1>0
  <2>2. do[k] = below[Append(p, k)]
    OBVIOUS
  <2>3. k \in 1..Arity(sh, p) /\ k \in 0..n
    OBVIOUS
  <2> HIDE DEF do
  <2>4. ASSUME s.ok, NEW u \in do[k][s] PROVE u \in Memories /\ Reared(b, u, t, p, sh, k)
    <3>1. u \in below[Append(p, k)][s]
      BY <2>2, <2>4
    <3>2. Reared(b, u, t, p, sh, k)
      BY <2>1, <2>3, <2>4, <3>1, NextReared
    <3> QED
      BY <3>2 DEF Reared, Intact
  <2>5. ~s.ok => Reared(b, s, t, p, sh, k)
    BY <2>1 DEF Reared
  <2> QED
    BY <2>1, <2>3, <2>4, <2>5
<1> HIDE DEF J, do, first
<1>3. InTurn(first, n, do) \subseteq J[n]
  BY <1>0, <1>1, <1>2, LoopHolds
<1>4. r \in J[n]
  BY <1>3 DEF first, do
<1> QED
  BY <1>0, <1>4 DEF J

(* The children and the dictionary are made. *)
Extra(s, t, p, sh, below) ==
  IF HasDictionary(sh, p)
  THEN Then(AllocateDictionary(s, t, p), LAMBDA y : below[Append(p, 0)][y])
  ELSE {s}
Nursed(b, r, t, p, sh) ==
  /\ Intact(r) /\ Apart(b, r, t, p) /\ Tidy(r, t, p, ~r.ok)
  /\ Node(r, t, p).up /\ Node(r, t, p).held = Node(b, t, p).held
  /\ r.ok => Whole(r, t, p, sh)

LEMMA DictionaryMade ==
  ASSUME NEW b, NEW s, s.ok, NEW t \in Trees, NEW p \in Paths,
         NEW sh, IsShape(sh), sh \subseteq Paths, p \in sh,
         NEW below, Promised(below, t, p, sh), Reared(b, s, t, p, sh, Arity(sh, p)),
         NEW r \in Extra(s, t, p, sh, below)
  PROVE  Nursed(b, r, t, p, sh)
<1> DEFINE n == Arity(sh, p)
<1>0. /\ p \in Seq(Nat) /\ n \in Nat
      /\ \A j \in Nat \ {0} : j \in 1..n <=> Append(p, j) \in sh
      /\ \A j \in 1..n : j \in Nat \ {0}
  BY ShapeOf
<1>1. /\ Intact(s) /\ Apart(b, s, t, p) /\ Tidy(s, t, p, FALSE)
      /\ Node(s, t, p).up /\ Node(s, t, p).held = Node(b, t, p).held
      /\ \A j \in Nat : Step(s, t, p, j) <=> j \in 1..n
      /\ \A j \in 1..n : Whole(s, t, Append(p, j), sh)
  BY TidyLost DEF Reared
<1> HIDE DEF n
<1>2. CASE ~HasDictionary(sh, p)
  <2>1. r = s
    BY <1>2 DEF Extra
  <2>2. \A k \in Nat : Step(s, t, p, k) <=> Append(p, k) \in sh
    BY <1>0, <1>1, <1>2 DEF HasDictionary
  <2>3. \A k \in Nat : Append(p, k) \in sh => Whole(s, t, Append(p, k), sh)
    BY <1>0, <1>1, <1>2 DEF HasDictionary
  <2>4. Whole(s, t, p, sh)
    BY <1>1, <2>2, <2>3, WholeFrom
  <2> QED
    BY <1>1, <2>1, <2>4, TidyLost DEF Nursed
<1>3. CASE HasDictionary(sh, p)
  <2>1. PICK y \in AllocateDictionary(s, t, p) : IF y.ok THEN r \in below[Append(p, 0)][y] ELSE r = y
    BY <1>3 DEF Then, Extra
  <2>2. Append(p, 0) \in sh /\ Append(p, 0) \in Paths /\ 0 \in Nat /\ ~Step(s, t, p, 0)
    BY <1>0, <1>1, <1>3 DEF HasDictionary
  <2>3. /\ Intact(y) /\ Apart(s, y, t, p) /\ Tidy(y, t, p, FALSE)
        /\ Node(y, t, p).up /\ Node(y, t, p).held = Node(s, t, p).held
        /\ y.ok => /\ \A k \in Nat : Step(y, t, p, k) <=> k = 0 \/ Step(s, t, p, k)
                   /\ Node(y, t, Append(p, 0)) = Blank(t)
                   /\ \A k \in Nat \ {0} : Append(p, k) \in Paths => Same(s, y, t, Append(p, k))
    BY <1>1, <2>2, DictionaryAllocated
  <2>4. Apart(b, y, t, p)
    BY <1>1, <2>3, ApartChain
  <2>5. CASE ~y.ok
    BY <1>1, <2>1, <2>3, <2>4, <2>5, TidyLost DEF Nursed
  <2>6. CASE y.ok
    <3>1. r \in below[Append(p, 0)][y] /\ y \in Memories /\ Step(y, t, p, 0)
      BY <2>1, <2>2, <2>3, <2>6 DEF Intact
    <3>2. Ready(y, t, Append(p, 0))
      BY <2>2, <2>3, <2>6, <3>1, ChildReady
    <3>3. Made(y, r, t, Append(p, 0), sh)
      BY <2>2, <3>1, <3>2 DEF Promised
    <3>4. /\ Intact(r) /\ Apart(y, r, t, p) /\ Tidy(r, t, p, ~r.ok)
          /\ Node(r, t, p) = Node(y, t, p)
          /\ r.ok => Whole(r, t, Append(p, 0), sh)
          /\ \A j \in Nat \ {0} : Append(p, j) \in Paths => Same(y, r, t, Append(p, j))
      BY <2>2, <2>3, <3>1, <3>3, ChildMade
    <3>5. Apart(b, r, t, p)
      BY <2>4, <3>4, ApartChain
    <3>6. \A k \in Nat : Step(r, t, p, k) <=> Append(p, k) \in sh
      <4>1. \A k \in Nat : Step(r, t, p, k) <=> Step(y, t, p, k)
        BY <3>4, StepSame
      <4> QED
        BY <1>0, <1>1, <2>2, <2>3, <2>6, <4>1
    <3>7. ASSUME r.ok, NEW k \in Nat, Append(p, k) \in sh
          PROVE  Whole(r, t, Append(p, k), sh)
      <4>1. CASE k = 0
        BY <3>4, <3>7, <4>1
      <4>2. CASE k # 0
        <5>1. Append(p, k) \in Paths /\ Whole(s, t, Append(p, k), sh)
          BY <1>0, <1>1, <3>7, <4>2
        <5>2. Same(s, y, t, Append(p, k)) /\ Same(y, r, t, Append(p, k))
          BY <2>3, <2>6, <3>4, <4>2, <5>1
        <5>3. Whole(y, t, Append(p, k), sh)
          BY <5>1, <5>2, WholeSame
        <5> QED
          BY <5>1, <5>2, <5>3, WholeSame
      <4> QED
        BY <4>1, <4>2
    <3>8. r.ok => Whole(r, t, p, sh)
      BY <2>3, <3>4, <3>6, <3>7, WholeFrom
    <3> QED
      BY <1>1, <2>3, <3>4, <3>5, <3>8 DEF Nursed
  <2> QED
    BY <2>5, <2>6
<1> QED
  BY <1>2, <1>3


(* The calls a node makes once it has begun. *)
Reach(b, t, p, sh, below) ==
  InTurn(AllocateChildren(b, t, p, Arity(sh, p)), Arity(sh, p),
         [k \in 1..Arity(sh, p) |-> below[Append(p, k)]])
Kept(x, t, p) == IF x.ok THEN x ELSE Fail(Undo(x, t, p))

Makes(s, r, t, p, sh, below) ==
  \E b \in BeginNode(s, t, p) :
    IF ~b.ok THEN r = IF t = "copy" THEN Kept(b, t, p) ELSE b
    ELSE \E y \in Reach(b, t, p, sh, below) :
           \E x \in IF y.ok THEN Extra(y, t, p, sh, below) ELSE {y} :
             IF t = "copy" \/ ~Kept(x, t, p).ok THEN r = Kept(x, t, p)
             ELSE r \in TypeIdMap(Kept(x, t, p), t, p)

LEMMA MakeNodeIs ==
  ASSUME NEW s, NEW t, NEW p, NEW sh, NEW below, NEW r \in MakeNode(s, t, p, sh, below)
  PROVE  Makes(s, r, t, p, sh, below)
<1> DEFINE children(x) == Reach(x, t, p, sh, below)
           dictionary(x) == Extra(x, t, p, sh, below)
<1>1. CASE t = "copy"
  <2>1. r \in OrElse(Then(Then(BeginNode(s, t, p), children), dictionary), LAMBDA x : Undo(x, t, p))
    BY <1>1, Zenon DEF MakeNode, Reach, Extra
  <2>2. PICK x \in Then(Then(BeginNode(s, t, p), children), dictionary) : r = Kept(x, t, p)
    <3> HIDE DEF children, dictionary
    <3> QED
      BY <2>1 DEF OrElse, Kept
  <2>3. PICK y \in Then(BeginNode(s, t, p), children) :
          IF y.ok THEN x \in dictionary(y) ELSE x = y
    <3> HIDE DEF children, dictionary
    <3> QED
      BY DEF Then
  <2>4. PICK b \in BeginNode(s, t, p) : IF b.ok THEN y \in children(b) ELSE y = b
    <3> HIDE DEF children, dictionary
    <3> QED
      BY DEF Then
  <2> QED
    BY <1>1, <2>2, <2>3, <2>4 DEF Makes
<1>2. CASE t # "copy"
  <2>1. r \in Then(BeginNode(s, t, p),
                   LAMBDA b : Then(OrElse(Then(children(b), dictionary), LAMBDA x : Undo(x, t, p)),
                                   LAMBDA x : TypeIdMap(x, t, p)))
    BY <1>2, Zenon DEF MakeNode, Reach, Extra
  <2>2. PICK b \in BeginNode(s, t, p) :
          IF b.ok THEN r \in Then(OrElse(Then(children(b), dictionary), LAMBDA x : Undo(x, t, p)),
                                  LAMBDA x : TypeIdMap(x, t, p))
          ELSE r = b
    <3> HIDE DEF children, dictionary
    <3> QED
      BY <2>1, Zenon DEF Then
  <2>3. CASE ~b.ok
    BY <1>2, <2>2, <2>3 DEF Makes
  <2>4. CASE b.ok
    <3>1. PICK z \in OrElse(Then(children(b), dictionary), LAMBDA x : Undo(x, t, p)) :
            IF z.ok THEN r \in TypeIdMap(z, t, p) ELSE r = z
      <4> HIDE DEF children, dictionary
      <4> QED
        BY <2>2, <2>4 DEF Then
    <3>2. PICK x \in Then(children(b), dictionary) : z = Kept(x, t, p)
      <4> HIDE DEF children, dictionary
      <4> QED
        BY DEF OrElse, Kept
    <3>3. PICK y \in children(b) : IF y.ok THEN x \in dictionary(y) ELSE x = y
      <4> HIDE DEF children, dictionary
      <4> QED
        BY DEF Then
    <3> QED
      BY <1>2, <2>4, <3>1, <3>2, <3>3 DEF Makes
  <2> QED
    BY <2>3, <2>4
<1> QED
  BY <1>1, <1>2

LEMMA KeptIs ==
  ASSUME NEW s, NEW b, NEW x, NEW t \in Trees, NEW p \in Paths, NEW sh,
         Apart(s, b, t, p), Nursed(b, x, t, p, sh)
  PROVE  /\ Made(s, Kept(x, t, p), t, p, sh)
         /\ Kept(x, t, p).ok => Kept(x, t, p) = x
<1>1. CASE x.ok
  BY <1>1, ApartChain DEF Kept, Made, Nursed
<1>2. CASE ~x.ok
  <2> DEFINE r == Fail(Undo(x, t, p))
  <2>1. Intact(x) /\ Apart(b, x, t, p) /\ Tidy(x, t, p, TRUE)
    BY <1>2 DEF Nursed
  <2>2. /\ Intact(r) /\ ~r.ok /\ Apart(x, r, t, p) /\ Tidy(r, t, p, TRUE)
        /\ t \notin Views => ~Node(r, t, p).up
    BY <2>1, Undone
  <2>3. Kept(x, t, p) = r
    BY <1>2 DEF Kept
  <2> HIDE DEF r
  <2>4. Apart(s, r, t, p)
    BY <2>1, <2>2, ApartChain
  <2> QED
    BY <2>2, <2>3, <2>4 DEF Made
<1> QED
  BY <1>1, <1>2

LEMMA NodeMade ==
  ASSUME NEW s, NEW t \in Trees \ {"schema"}, NEW p \in Paths, Ready(s, t, p),
         NEW sh, IsShape(sh), sh \subseteq Paths, p \in sh,
         NEW below, Promised(below, t, p, sh), NEW r \in MakeNode(s, t, p, sh, below)
  PROVE  Made(s, r, t, p, sh)
<1>1. PICK b \in BeginNode(s, t, p) :
           IF ~b.ok THEN r = IF t = "copy" THEN Kept(b, t, p) ELSE b
           ELSE \E y \in Reach(b, t, p, sh, below) :
                  \E x \in IF y.ok THEN Extra(y, t, p, sh, below) ELSE {y} :
                    IF t = "copy" \/ ~Kept(x, t, p).ok THEN r = Kept(x, t, p)
                    ELSE r \in TypeIdMap(Kept(x, t, p), t, p)
  <2>1. Makes(s, r, t, p, sh, below)
    BY MakeNodeIs, Zenon
  <2> QED
    BY <2>1 DEF Makes
<1>2. /\ Intact(b) /\ Apart(s, b, t, p) /\ Tidy(b, t, p, FALSE)
      /\ b.ok \/ t = "copy" => Bare(b, t, p)
      /\ b.ok /\ t \in Views => Node(b, t, p).held = {}
      /\ ~b.ok /\ t = "array" => ~Node(b, t, p).up
  BY NodeBegun
<1>3. CASE ~b.ok
  <2>1. CASE t = "copy"
    <3>1. Nursed(b, b, t, p, sh)
      BY <1>2, <1>3, <2>1, ApartNone, TidyLost DEF Nursed, Bare
    <3> QED
      BY <1>1, <1>2, <1>3, <2>1, <3>1, KeptIs
  <2>2. CASE t # "copy"
    <3>1. t = "array" \/ t \in Views
      BY <2>2 DEF Trees, Views
    <3> QED
      BY <1>1, <1>2, <1>3, <2>2, <3>1, TidyLost DEF Made
  <2> QED
    BY <2>1, <2>2
<1>4. CASE b.ok
  <2>0. PICK y \in Reach(b, t, p, sh, below) :
          \E x \in IF y.ok THEN Extra(y, t, p, sh, below) ELSE {y} :
            IF t = "copy" \/ ~Kept(x, t, p).ok THEN r = Kept(x, t, p)
            ELSE r \in TypeIdMap(Kept(x, t, p), t, p)
    BY <1>1, <1>4
  <2>1. PICK x \in IF y.ok THEN Extra(y, t, p, sh, below) ELSE {y} :
          IF t = "copy" \/ ~Kept(x, t, p).ok THEN r = Kept(x, t, p)
          ELSE r \in TypeIdMap(Kept(x, t, p), t, p)
    BY <2>0
  <2>2. Reared(b, y, t, p, sh, Arity(sh, p))
    BY <1>2, <1>4, ChildrenMade DEF Reach
  <2>3. Nursed(b, x, t, p, sh)
    <3>1. CASE y.ok
      <4>1. x \in Extra(y, t, p, sh, below)
        BY <3>1
      <4> QED
        BY <2>2, <3>1, <4>1, DictionaryMade
    <3>2. CASE ~y.ok
      BY <2>2, <3>2 DEF Reared, Nursed
    <3> QED
      BY <3>1, <3>2
  <2> DEFINE z == Kept(x, t, p)
  <2>4. Made(s, z, t, p, sh) /\ (z.ok => z = x)
    BY <1>2, <2>3, KeptIs
  <2> HIDE DEF z
  <2>5. CASE r = z
    BY <2>4, <2>5
  <2>6. CASE t # "copy" /\ z.ok /\ r \in TypeIdMap(z, t, p)
    <3>1. /\ Intact(z) /\ Apart(s, z, t, p) /\ Tidy(z, t, p, FALSE) /\ Whole(z, t, p, sh)
          /\ Node(z, t, p).up /\ (t \in Views => Node(z, t, p).held = {})
      BY <1>2, <1>4, <2>3, <2>4, <2>6, TidyLost DEF Made, Nursed
    <3>2. /\ Intact(r) /\ Apart(z, r, t, p) /\ Tidy(r, t, p, FALSE)
          /\ Links(z, r, t, p) /\ Others(z, r, t, p)
      BY <2>6, <3>1, TypeIdMapped
    <3>3. Whole(r, t, p, sh) /\ Apart(s, r, t, p) /\ Tidy(r, t, p, ~r.ok)
      BY <3>1, <3>2, WholeLinks, ApartChain, TidyLost
    <3>4. ~r.ok => t \in Views
      BY <2>6, <3>1 DEF TypeIdMap, Views
    <3> QED
      BY <3>2, <3>3, <3>4 DEF Made
  <2> QED
    BY <2>1, <2>5, <2>6 DEF z
<1> QED
  BY <1>3, <1>4


(* The calls by the depth they nest to. *)
Level(f, d, t, sh) ==
  [q \in sh |-> [x \in Memories |-> IF d = 0 THEN {} ELSE MakeNode(x, t, q, sh, f[d - 1])]]
Levels(f, n, t, sh) == f = [d \in 0..n |-> Level(f, d, t, sh)]

LEMMA LevelsAre ==
  ASSUME NEW n \in Nat, NEW t, NEW sh
  PROVE  \E f : Levels(f, n, t, sh)
<1> DEFINE T == {m \in Nat : \E f : Levels(f, m, t, sh)}
<1>1. 0 \in T
  <2> DEFINE f == [d \in 0..0 |-> [q \in sh |-> [x \in Memories |-> {}]]]
  <2>1. f[0] = [q \in sh |-> [x \in Memories |-> {}]]
    OBVIOUS
  <2>2. Levels(f, 0, t, sh)
    BY DEF Levels, Level
  <2> HIDE DEF f
  <2> QED
    BY <2>2
<1>2. ASSUME NEW m \in T PROVE m + 1 \in T
  <2>1. PICK f : Levels(f, m, t, sh)
    OBVIOUS
  <2> DEFINE e == Level(f, m + 1, t, sh)
             g == [d \in 0..(m + 1) |-> IF d = m + 1 THEN e ELSE f[d]]
  <2>2. m \in Nat
    OBVIOUS
  <2>3. \A d \in 0..m : f[d] = Level(f, d, t, sh)
    BY <2>1, Zenon DEF Levels
  <2>4. g = [d \in 0..(m + 1) |-> g[d]] /\ g[m + 1] = e /\ \A d \in 0..m : g[d] = f[d]
    <3> HIDE DEF e
    <3> QED
      BY <2>2
  <2> HIDE DEF g
  <2>5. ASSUME NEW d \in 0..(m + 1) PROVE g[d] = Level(g, d, t, sh)
    <3>1. d = 0 \/ g[d - 1] = f[d - 1]
      <4>1. d # 0 => d - 1 \in 0..m
        BY <2>2
      <4> QED
        BY <2>4, <4>1
    <3>2. Level(g, d, t, sh) = Level(f, d, t, sh)
      <4>1. CASE d = 0
        BY <4>1, Zenon DEF Level
      <4>2. CASE g[d - 1] = f[d - 1]
        BY <4>2, Zenon DEF Level
      <4> QED
        BY <3>1, <4>1, <4>2
    <3>3. CASE d = m + 1
      BY <2>4, <3>2, <3>3
    <3>4. CASE d \in 0..m
      BY <2>3, <2>4, <3>2, <3>4
    <3> QED
      BY <2>2, <3>3, <3>4
  <2>6. Levels(g, m + 1, t, sh)
    BY <2>4, <2>5, Zenon DEF Levels
  <2> QED
    BY <2>2, <2>6
<1>3. Nat \subseteq T
  <2>1. T \subseteq Nat
    OBVIOUS
  <2> HIDE DEF T
  <2> QED
    BY <1>1, <1>2, <2>1, NatInduct, Zenon
<1> QED
  BY <1>3

LEMMA TreeMade ==
  ASSUME NEW s, NEW t \in Trees \ {"schema"}, NEW p, Ready(s, t, p),
         NEW sh, IsShape(sh), sh \subseteq Paths, p \in sh,
         NEW r \in MakeTree(s, t, p, sh)
  PROVE  Made(s, r, t, p, sh)
<1> DEFINE n == Cardinality(sh)
           f == CHOOSE f : Levels(f, n, t, sh)
<1>1. n \in Nat
  BY FS_CardinalityType DEF IsShape
<1>2. r \in f[n][p][s]
  BY Zenon DEF MakeTree, Levels, Level
<1> HIDE DEF n
<1>3. \A d \in 0..n : f[d] = Level(f, d, t, sh)
  <2>1. Levels(f, n, t, sh)
    BY <1>1, LevelsAre, Zenon
  <2> HIDE DEF f
  <2> QED
    BY <2>1, Zenon DEF Levels
<1> HIDE DEF f
<1> DEFINE Good(g) == \A q \in sh, x \in Memories :
                        Ready(x, t, q) => \A y \in g[q][x] : Made(x, y, t, q, sh)
           T == {d \in Nat : d <= n => Good(f[d])}
<1>4. 0 \in T
  <2>1. f[0] = [q \in sh |-> [x \in Memories |-> {}]]
    BY <1>1, <1>3 DEF Level
  <2> QED
    BY <2>1
<1>5. ASSUME NEW m \in T PROVE m + 1 \in T
  <2>1. m \in Nat
    OBVIOUS
  <2> SUFFICES ASSUME m + 1 <= n PROVE Good(f[m + 1])
    BY <2>1
  <2>2. m + 1 \in 0..n /\ (m + 1) - 1 = m /\ m <= n /\ m + 1 # 0
    BY <1>1, <2>1
  <2>3. Good(f[m])
    BY <2>2
  <2>4. f[m + 1] = [q \in sh |-> [x \in Memories |-> MakeNode(x, t, q, sh, f[m])]]
    BY <1>3, <2>2 DEF Level
  <2>5. ASSUME NEW q \in sh, NEW x \in Memories, Ready(x, t, q), NEW y \in f[m + 1][q][x]
        PROVE  Made(x, y, t, q, sh)
    <3>1. y \in MakeNode(x, t, q, sh, f[m]) /\ q \in Paths
      BY <2>4
    <3>2. Promised(f[m], t, q, sh)
      BY <2>3 DEF Promised
    <3> QED
      BY <2>5, <3>1, <3>2, NodeMade
  <2> QED
    BY <2>5
<1>6. Nat \subseteq T
  <2>1. T \subseteq Nat
    OBVIOUS
  <2> HIDE DEF T
  <2> QED
    BY <1>4, <1>5, <2>1, NatInduct, Zenon
<1>7. Good(f[n])
  <2> HIDE DEF Good
  <2> QED
    BY <1>1, <1>6
<1>8. s \in Memories
  BY DEF Ready, Intact
<1> QED
  BY <1>2, <1>7, <1>8


---------------------------------------------------------------------------
(* A schema made from its type, call by call.                              *)

(* A node of a tidy tree is tidy. *)
LEMMA TidyInner ==
  ASSUME NEW s, NEW t \in Trees, NEW p \in Paths, NEW q \in Paths,
         Owns(s, t, p, q), Tidy(s, t, p, FALSE)
  PROVE  Tidy(s, t, q, FALSE)
<1>1. IsPrefix(p, q) /\ p \in Seq(Nat) /\ q \in Seq(Nat) /\ \A x \in Paths : x \in Seq(Nat)
  BY OwnsPrefix, PathsAre
<1>2. \A x \in Paths : IsPrefix(q, x) => (Owns(s, t, p, x) <=> Owns(s, t, q, x)) /\ IsPrefix(p, x)
  BY <1>1, OwnsThrough, PrefixChain
<1>3. ASSUME NEW x \in Paths, NEW w \in What, Inside(t, q, t, x, w)
      PROVE  Inside(t, p, t, x, w) /\ (OwnsBlock(s, t, p, x, w) <=> OwnsBlock(s, t, q, x, w))
  <2>1. IsPrefix(q, x) /\ (x # q \/ w # "struct")
    BY <1>3 DEF Inside
  <2>2. w = "struct" => x # q /\ x # p
    BY <1>1, <2>1, PrefixBoth
  <2> QED
    BY <1>2, <2>1, <2>2 DEF Inside, OwnsBlock
<1>4. \A x \in Paths, w \in What : OwnsBlock(s, t, q, x, w) => Inside(t, q, t, x, w)
  BY OwnsInside
<1> QED
  BY <1>3, <1>4 DEF Tidy

(* The nodes of sh are there, those of up initialised, of which some have  *)
(* children.                                                               *)
Childless(s, q) ==
  /\ Leaf(s, "schema", q)
  /\ Node(s, "schema", q).up /\ ~Node(s, "schema", q).table /\ Node(s, "schema", q).n = 0
Laid(s, sh, up) ==
  /\ \A q \in Paths : Owns(s, "schema", <<>>, q) <=> q \in sh
  /\ \A q \in sh \ up : Node(s, "schema", q) = Released
  /\ \A q \in up : Node(s, "schema", q).up
  /\ \A q \in up : (\A k \in Nat : Append(q, k) \notin sh) => Childless(s, q)
Grown(b, s, sh, up) ==
  /\ Intact(s) /\ Apart(b, s, "schema", <<>>) /\ Tidy(s, "schema", <<>>, FALSE)
  /\ s.ok => Laid(s, sh, up)

LEMMA Root == <<>> \in Paths /\ "schema" \in Trees /\ \A q \in Seq(Nat) : IsPrefix(<<>>, q)
<1>1. <<>> \in Paths /\ "schema" \in Trees
  BY DEF Paths, Trees
<1>2. <<>> \in Seq(Nat) /\ Len(<<>>) = 0
  OBVIOUS
<1>3. ASSUME NEW q \in Seq(Nat) PROVE IsPrefix(<<>>, q)
  <2>1. Len(q) \in Nat
    OBVIOUS
  <2>2. \A i \in 1..0 : <<>>[i] = q[i]
    OBVIOUS
  <2>3. Len(<<>>) <= Len(q) /\ \A i \in 1..Len(<<>>) : <<>>[i] = q[i]
    BY <1>2, <2>1, <2>2
  <2> QED
    BY <1>2, <2>3, PrefixIs, Zenon
<1> QED
  BY <1>1, <1>3

LEMMA StringGrown ==
  ASSUME NEW b, NEW s, s.ok, NEW sh, NEW up, up \subseteq sh, sh \subseteq Paths,
         Grown(b, s, sh, up), NEW p \in up, NEW what \in What \ {"struct", "children"},
         NEW r \in SetString(s, "schema", p, what)
  PROVE  Grown(b, r, sh, up) /\ Laid(r, sh, up)
<1>1. /\ Intact(s) /\ Apart(b, s, "schema", <<>>) /\ Tidy(s, "schema", <<>>, FALSE)
      /\ Laid(s, sh, up) /\ p \in Paths /\ p \in sh
  BY DEF Grown
<1>2. Owns(s, "schema", <<>>, p) /\ Node(s, "schema", p).up
  BY <1>1 DEF Laid
<1>3. Tidy(s, "schema", p, FALSE)
  BY <1>1, <1>2, Root, TidyInner
<1>4. /\ Intact(r) /\ Apart(s, r, "schema", p) /\ Tidy(r, "schema", p, FALSE)
      /\ Links(s, r, "schema", p) /\ Others(s, r, "schema", p)
  BY <1>1, <1>2, <1>3, Root, StringSet
<1>5. Tidy(r, "schema", <<>>, FALSE) /\ Apart(b, r, "schema", <<>>)
  BY <1>1, <1>2, <1>4, Root, Graft, ApartChain
<1>6. \A q \in Paths : Owns(r, "schema", <<>>, q) <=> Owns(s, "schema", <<>>, q)
  BY <1>4, Root, LinksOwned, <1>1
<1>7. \A q \in Paths : q # p => Node(r, "schema", q) = Node(s, "schema", q)
  BY <1>4, Root DEF Others
<1>8. \A q \in Paths : Childless(s, q) => Childless(r, q)
  BY <1>4, <1>7, LinksStep, StepSame DEF Childless, Leaf, Links
<1>9. Laid(r, sh, up)
  <2>1. \A q \in sh \ up : Node(r, "schema", q) = Released
    BY <1>1, <1>7 DEF Laid
  <2>2. \A q \in up : Node(r, "schema", q).up
    BY <1>1, <1>2, <1>4, <1>7 DEF Laid, Links
  <2> QED
    BY <1>1, <1>6, <1>8, <2>1, <2>2 DEF Laid
<1> QED
  BY <1>4, <1>5, <1>9 DEF Grown

LEMMA InitGrown ==
  ASSUME NEW b, NEW s, s.ok, NEW sh, NEW up, up \subseteq sh, sh \subseteq Paths,
         Grown(b, s, sh, up), NEW p \in sh \ up, NEW r, r = InitNode(s, "schema", p)
  PROVE  Grown(b, r, sh, up \cup {p})
<1>1. /\ Intact(s) /\ Apart(b, s, "schema", <<>>) /\ Tidy(s, "schema", <<>>, FALSE)
      /\ Laid(s, sh, up) /\ p \in Paths /\ p \in sh /\ p \in Seq(Nat)
  BY PathsAre DEF Grown
<1>2. Owns(s, "schema", <<>>, p) /\ Node(s, "schema", p) = Released /\ ~Node(s, "schema", p).up
  BY <1>1, Plain DEF Laid
<1>3. Tidy(s, "schema", p, FALSE)
  BY <1>1, <1>2, Root, TidyInner
<1>4. Leaf(s, "schema", p) /\ Vacant(s, "schema", p)
  BY <1>1, <1>2, <1>3, DownOwns DEF Vacant, Tidy
<1>5. /\ Bare(r, "schema", p) /\ Apart(s, r, "schema", p) /\ Node(r, "schema", p) = Empty
      /\ r.ok = s.ok /\ Others(s, r, "schema", p)
  BY <1>1, <1>4, Root, NodeInit
<1>6. Intact(r) /\ Tidy(r, "schema", p, FALSE) /\ Leaf(r, "schema", p)
  BY <1>5 DEF Bare
<1>7. Tidy(r, "schema", <<>>, FALSE) /\ Apart(b, r, "schema", <<>>)
  BY <1>1, <1>2, <1>5, <1>6, Root, Graft, ApartChain
<1>8. ASSUME NEW q \in Paths
      PROVE  Owns(r, "schema", <<>>, q) <=> Owns(s, "schema", <<>>, q)
  <2>1. CASE q = p \/ ~IsPrefix(p, q)
    BY <1>1, <1>5, <2>1, Root, OwnsElsewhere
  <2>2. CASE q # p /\ IsPrefix(p, q)
    <3>1. ~Owns(r, "schema", p, q) /\ ~Owns(s, "schema", p, q)
      BY <1>1, <1>4, <1>6, <2>2, LeafOwns
    <3>2. q \in Seq(Nat) /\ <<>> \in Seq(Nat) /\ IsPrefix(<<>>, p)
      BY <1>1, Root, PathsAre
    <3> QED
      BY <1>1, <2>2, <3>1, <3>2, OwnsThrough
  <2> QED
    BY <2>1, <2>2
<1>9. \A q \in Paths : q # p => Node(r, "schema", q) = Node(s, "schema", q)
  BY <1>5, Root DEF Others
<1>10. Childless(r, p)
  BY <1>5, <1>6, Plain DEF Childless
<1>11. \A q \in Paths : q # p /\ Childless(s, q) => Childless(r, q)
  BY <1>9, StepSame DEF Childless, Leaf
<1>12. Laid(r, sh, up \cup {p})
  <2>1. \A q \in sh \ (up \cup {p}) : Node(r, "schema", q) = Released
    BY <1>1, <1>9 DEF Laid
  <2>2. \A q \in up \cup {p} : Node(r, "schema", q).up
    BY <1>1, <1>5, <1>9, Plain DEF Laid
  <2> QED
    BY <1>1, <1>8, <1>10, <1>11, <2>1, <2>2 DEF Laid
<1> QED
  BY <1>6, <1>7, <1>12 DEF Grown

LEMMA ChildrenGrown ==
  ASSUME NEW b, NEW s, s.ok, NEW sh, NEW up, up \subseteq sh, sh \subseteq Paths,
         Grown(b, s, sh, up), NEW p \in up, \A k \in Nat : Append(p, k) \notin sh,
         NEW n \in Nat \ {0}, \A k \in 1..n : Append(p, k) \in Paths,
         NEW r \in AllocateChildren(s, "schema", p, n)
  PROVE  Grown(b, r, sh \cup {Append(p, k) : k \in 1..n}, up)
<1> DEFINE new == {Append(p, k) : k \in 1..n}
<1>1. /\ Intact(s) /\ Apart(b, s, "schema", <<>>) /\ Tidy(s, "schema", <<>>, FALSE)
      /\ Laid(s, sh, up) /\ p \in Paths /\ p \in sh /\ p \in Seq(Nat)
  BY PathsAre DEF Grown
<1>2. Owns(s, "schema", <<>>, p) /\ Childless(s, p)
  BY <1>1 DEF Laid
<1>3. Bare(s, "schema", p)
  BY <1>1, <1>2, Root, TidyInner DEF Bare, Childless
<1>4. /\ Intact(r) /\ Apart(s, r, "schema", p) /\ Tidy(r, "schema", p, ~r.ok)
      /\ Node(r, "schema", p).up
      /\ r.ok => /\ \A k \in Nat : Step(r, "schema", p, k) <=> k \in 1..n
                 /\ \A k \in 1..n : Node(r, "schema", Append(p, k)) = Blank("schema")
                 /\ \A q \in Paths : q # p /\ (\A k \in 1..n : q # Append(p, k))
                                       => Node(r, "schema", q) = Node(s, "schema", q)
  BY <1>1, <1>3, Root, ChildrenAllocated
<1>5. Tidy(r, "schema", p, FALSE)
  BY <1>4, TidyLost
<1>6. Tidy(r, "schema", <<>>, FALSE) /\ Apart(b, r, "schema", <<>>)
  BY <1>1, <1>2, <1>4, <1>5, Root, Graft, ApartChain
<1>7. ASSUME r.ok PROVE Laid(r, sh \cup new, up)
  <2>0. /\ \A q \in new : \E k \in 1..n : q = Append(p, k)
        /\ \A k \in 1..n : Append(p, k) \in new
        /\ new \cap sh = {} /\ new \subseteq Paths /\ p \notin new
    <3>1. \A k \in 1..n : k \in Nat
      OBVIOUS
    <3> QED
      BY <1>1, <3>1
  <2>1. /\ \A k \in Nat : Step(r, "schema", p, k) <=> k \in 1..n
        /\ \A q \in new : Node(r, "schema", q) = Released
        /\ \A q \in Paths : q # p /\ q \notin new => Node(r, "schema", q) = Node(s, "schema", q)
    BY <1>4, <1>7, <2>0 DEF Blank, Views
  <2> HIDE DEF new
  <2>2. ASSUME NEW q \in Paths
        PROVE  Owns(r, "schema", <<>>, q) <=> q \in sh \cup new
    <3>1. CASE q = p \/ ~IsPrefix(p, q)
      <4>1. Owns(r, "schema", <<>>, q) <=> Owns(s, "schema", <<>>, q)
        BY <1>1, <1>4, <3>1, Root, OwnsElsewhere
      <4>2. q \notin new
        <5> SUFFICES ASSUME NEW k \in 1..n, q = Append(p, k) PROVE FALSE
          BY <2>0
        <5>1. k \in Nat
          OBVIOUS
        <5>2. IsPrefix(p, q) /\ q # p
          BY <1>1, <5>1, PrefixNext
        <5> QED
          BY <3>1, <5>2
      <4> QED
        BY <1>1, <4>1, <4>2 DEF Laid
    <3>2. CASE q # p /\ IsPrefix(p, q)
      <4>1. q \in Seq(Nat) /\ <<>> \in Seq(Nat) /\ IsPrefix(<<>>, p) /\ Owns(r, "schema", <<>>, p)
        BY <1>1, <1>2, <1>4, <1>5, Root, PathsAre, Graft
      <4>2. Owns(r, "schema", <<>>, q) <=> Owns(r, "schema", p, q)
        BY <1>1, <3>2, <4>1, OwnsThrough
      <4>3. q \notin sh
        <5>1. ~Owns(s, "schema", p, q)
          BY <1>1, <1>3, <3>2, LeafOwns DEF Bare, Trees
        <5> QED
          BY <1>1, <3>2, <4>1, <5>1, OwnsThrough DEF Laid
      <4>4. PICK k \in Nat : Append(p, k) \in Paths /\ IsPrefix(Append(p, k), q)
        BY <1>1, <3>2, NextBelow
      <4>5. Owns(r, "schema", p, q) <=> k \in 1..n /\ Owns(r, "schema", Append(p, k), q)
        BY <1>1, <2>1, <4>1, <4>4, OwnsBranch
      <4>6. CASE k \in 1..n
        <5>1. Leaf(r, "schema", Append(p, k))
          BY <2>0, <2>1, <4>4, <4>6, Plain, DownOwns, Root
        <5>2. Owns(r, "schema", Append(p, k), q) <=> q = Append(p, k)
          BY <4>4, <5>1, LeafOwns, Root
        <5>3. q \in new <=> q = Append(p, k)
          <6>1. ASSUME NEW j \in 1..n, q = Append(p, j) PROVE j = k
            <7>1. j \in Nat /\ Append(p, j) \in Seq(Nat)
              BY <1>1, Extends
            <7>2. IsPrefix(Append(p, j), q)
              BY <6>1, <7>1, PrefixSelf
            <7> QED
              BY <1>1, <4>1, <4>4, <7>1, <7>2, PrefixFork
          <6> QED
            BY <2>0, <4>6, <6>1
        <5> QED
          BY <4>2, <4>3, <4>5, <4>6, <5>2, <5>3
      <4>7. CASE k \notin 1..n
        <5>1. q \notin new
          <6> SUFFICES ASSUME NEW j \in 1..n, q = Append(p, j) PROVE FALSE
            BY <2>0
          <6>1. j \in Nat /\ Append(p, j) \in Seq(Nat)
            BY <1>1, Extends
          <6>2. IsPrefix(Append(p, j), q)
            BY <6>1, PrefixSelf
          <6> QED
            BY <1>1, <4>1, <4>4, <4>7, <6>1, <6>2, PrefixFork
        <5> QED
          BY <4>2, <4>3, <4>5, <4>7, <5>1
      <4> QED
        BY <4>6, <4>7
    <3> QED
      BY <3>1, <3>2
  <2>3. \A q \in (sh \cup new) \ up : Node(r, "schema", q) = Released
    BY <1>1, <2>0, <2>1 DEF Laid
  <2>4. \A q \in up : Node(r, "schema", q).up
    BY <1>1, <1>4, <2>0, <2>1 DEF Laid
  <2>5. ASSUME NEW q \in up, \A k \in Nat : Append(q, k) \notin sh \cup new
        PROVE  Childless(r, q)
    <3>1. q # p
      BY <2>0, <2>5
    <3>2. Childless(s, q) /\ Node(r, "schema", q) = Node(s, "schema", q)
      BY <1>1, <2>0, <2>1, <2>5, <3>1 DEF Laid
    <3> QED
      BY <3>2, StepSame DEF Childless, Leaf
  <2> QED
    BY <2>2, <2>3, <2>4, <2>5 DEF Laid
<1> QED
  BY <1>4, <1>6, <1>7 DEF Grown


(* A call of a program, and the nodes before it and after it. *)
Brood(p, n) == {Append(p, k) : k \in 1..n}
Follows(c, sh, up, shNext, upNext) ==
  /\ up \subseteq sh /\ sh \subseteq Paths
  /\ \/ /\ c[1] = "children" /\ c[2] \in up /\ c[3] \in Nat \ {0} /\ upNext = up
        /\ \A k \in Nat : Append(c[2], k) \notin sh
        /\ shNext = sh \cup Brood(c[2], c[3]) /\ shNext \subseteq Paths
     \/ c[1] = "init" /\ c[2] \in sh \ up /\ shNext = sh /\ upNext = up \cup {c[2]}
     \/ c[1] \in {"format", "name"} /\ c[2] \in up /\ shNext = sh /\ upNext = up

LEMMA CallGrown ==
  ASSUME NEW b, NEW s, s.ok, NEW sh, NEW up, Grown(b, s, sh, up), NEW c, NEW shNext, NEW upNext,
         Follows(c, sh, up, shNext, upNext), NEW r \in Call(s, c)
  PROVE  Grown(b, r, shNext, upNext)
<1>0. up \subseteq sh /\ sh \subseteq Paths
  BY DEF Follows
<1>1. CASE c[1] = "children"
  <2>1. /\ c[2] \in up /\ c[3] \in Nat \ {0} /\ upNext = up
        /\ \A k \in Nat : Append(c[2], k) \notin sh
        /\ shNext = sh \cup Brood(c[2], c[3]) /\ shNext \subseteq Paths
    BY <1>1 DEF Follows
  <2>2. r \in AllocateChildren(s, "schema", c[2], c[3])
    BY <1>1 DEF Call
  <2>3. \A k \in 1..c[3] : Append(c[2], k) \in Paths
    BY <2>1 DEF Brood
  <2> DEFINE p == c[2]  n == c[3]  new == sh \cup {Append(p, k) : k \in 1..n}
  <2>4. /\ p \in up /\ n \in Nat \ {0} /\ upNext = up /\ shNext = new
        /\ (\A k \in Nat : Append(p, k) \notin sh) /\ (\A k \in 1..n : Append(p, k) \in Paths)
        /\ r \in AllocateChildren(s, "schema", p, n)
    BY <2>1, <2>2, <2>3, Zenon DEF Brood
  <2> HIDE DEF p, n
  <2>5. Grown(b, r, new, up)
    BY <1>0, <2>4, ChildrenGrown
  <2> QED
    BY <2>4, <2>5, Zenon
<1>2. CASE c[1] = "init"
  <2>1. c[2] \in sh \ up /\ shNext = sh /\ upNext = up \cup {c[2]}
    BY <1>2 DEF Follows
  <2>2. r = InitNode(s, "schema", c[2])
    BY <1>2 DEF Call
  <2> QED
    BY <1>0, <2>1, <2>2, InitGrown
<1>3. CASE c[1] \in {"format", "name"}
  <2>1. c[2] \in up /\ shNext = sh /\ upNext = up
    BY <1>3 DEF Follows
  <2>2. r \in SetString(s, "schema", c[2], c[1]) /\ c[1] \in What \ {"struct", "children"}
    BY <1>3 DEF Call, What
  <2> QED
    BY <1>0, <2>1, <2>2, StringGrown
<1> QED
  BY <1>1, <1>2, <1>3 DEF Follows

LEMMA ProgramGrown ==
  ASSUME NEW b, NEW program, NEW n \in Nat, Len(program) = n, DOMAIN program = 1..n,
         NEW SH, NEW UP,
         \A k \in 1..n : Follows(program[k], SH[k - 1], UP[k - 1], SH[k], UP[k]),
         NEW results, \A s \in results : Grown(b, s, SH[0], UP[0]),
         NEW r \in InTurn(results, Len(program),
                          [k \in DOMAIN program |-> [x \in Memories |-> Call(x, program[k])]])
  PROVE  Grown(b, r, SH[n], UP[n])
<1> DEFINE do == [k \in 1..n |-> [x \in Memories |-> Call(x, program[k])]]
           J == [k \in 0..n |-> {s \in Memories : Grown(b, s, SH[k], UP[k])}]
<1>0. J[0] = {s \in Memories : Grown(b, s, SH[0], UP[0])}
  OBVIOUS
<1>1. results \subseteq J[0]
  <2>1. \A s \in results : s \in Memories
    BY DEF Grown, Intact
  <2> HIDE DEF J
  <2> QED
    BY <1>0, <2>1
<1>2. ASSUME NEW k \in 1..n, NEW s \in J[k - 1]
      PROVE  (s.ok => do[k][s] \subseteq J[k]) /\ (~s.ok => s \in J[k])
  <2>1. s \in Memories /\ Grown(b, s, SH[k - 1], UP[k - 1]) /\ k \in 0..n
    OBVIOUS
  <2>2. do[k][s] = Call(s, program[k])
    BY <2>1
  <2> HIDE DEF do
  <2>3. ASSUME s.ok, NEW u \in Call(s, program[k])
        PROVE  u \in Memories /\ Grown(b, u, SH[k], UP[k])
    <3>1. Grown(b, u, SH[k], UP[k])
      BY <2>1, <2>3, CallGrown
    <3> QED
      BY <3>1 DEF Grown, Intact
  <2>4. ~s.ok => Grown(b, s, SH[k], UP[k])
    BY <2>1 DEF Grown
  <2> QED
    BY <2>1, <2>2, <2>3, <2>4
<1> HIDE DEF J
<1>3. InTurn(results, n, do) \subseteq J[n]
  <2> HIDE DEF do
  <2> QED
    BY <1>1, <1>2, LoopHolds
<1>4. r \in J[n]
  BY <1>3
<1> QED
  BY <1>4 DEF J


LEMMA FollowsChildren ==
  ASSUME NEW sh, NEW up, up \subseteq sh, sh \subseteq Paths, NEW p \in up, NEW n \in Nat \ {0},
         Brood(p, n) \subseteq Paths, \A k \in Nat : Append(p, k) \notin sh
  PROVE  Follows(<<"children", p, n>>, sh, up, sh \cup Brood(p, n), up)
BY DEF Follows

LEMMA FollowsInit ==
  ASSUME NEW sh, NEW up, up \subseteq sh, sh \subseteq Paths, NEW p \in sh \ up
  PROVE  Follows(<<"init", p>>, sh, up, sh, up \cup {p})
BY DEF Follows

LEMMA FollowsString ==
  ASSUME NEW sh, NEW up, up \subseteq sh, sh \subseteq Paths, NEW p \in up,
         NEW what \in {"format", "name"}
  PROVE  Follows(<<what, p>>, sh, up, sh, up)
BY DEF Follows

LEMMA FewPaths ==
  /\ \A k \in Nat : Append(<<>>, k) # <<>>
  /\ \A k \in Nat : Append(<<1>>, k) # <<>> /\ Append(<<1>>, k) # <<1>>
  /\ Brood(<<>>, 1) = {<<1>>} /\ Brood(<<>>, 2) = {<<1>>, <<2>>}
  /\ Brood(<<1>>, 2) = {<<1, 1>>, <<1, 2>>}
  /\ <<1>> # <<>> /\ <<2>> # <<>> /\ <<1>> # <<2>> /\ <<1, 1>> # <<1, 2>>
  /\ \A q \in {<<1, 1>>, <<1, 2>>} : q # <<>> /\ q # <<1>>
<1>1. /\ <<1>> = Append(<<>>, 1) /\ <<2>> = Append(<<>>, 2)
      /\ <<1, 1>> = Append(<<1>>, 1) /\ <<1, 2>> = Append(<<1>>, 2)
  OBVIOUS
<1>2. 1..1 = {1} /\ 1..2 = {1, 2}
  OBVIOUS
<1>3. /\ \A k \in Nat : Len(Append(<<>>, k)) = 1 /\ Len(Append(<<1>>, k)) = 2
      /\ Len(<<>>) = 0 /\ Len(<<1>>) = 1
  OBVIOUS
<1>4. /\ \A k \in Nat : Append(<<>>, k) # <<>>
      /\ \A k \in Nat : Append(<<1>>, k) # <<>> /\ Append(<<1>>, k) # <<1>>
  BY <1>3
<1>5. /\ Brood(<<>>, 1) = {<<1>>} /\ Brood(<<>>, 2) = {<<1>>, <<2>>}
      /\ Brood(<<1>>, 2) = {<<1, 1>>, <<1, 2>>}
  BY <1>1, <1>2 DEF Brood
<1>6. /\ <<1>> # <<>> /\ <<2>> # <<>> /\ <<1>> # <<2>> /\ <<1, 1>> # <<1, 2>>
      /\ \A q \in {<<1, 1>>, <<1, 2>>} : q # <<>> /\ q # <<1>>
  OBVIOUS
<1> QED
  BY <1>4, <1>5, <1>6

(* A program makes the nodes of its type, one call after the other. *)
Planned(program, n, SH, UP, whole) ==
  /\ n \in Nat /\ Len(program) = n /\ DOMAIN program = 1..n
  /\ SH[0] = {<<>>} /\ UP[0] = {<<>>} /\ SH[n] = whole /\ UP[n] = whole
  /\ \A k \in 1..n : Follows(program[k], SH[k - 1], UP[k - 1], SH[k], UP[k])

LEMMA PlannedFlat == \E SH, UP : Planned(Program["flat"], 0, SH, UP, Initialised("flat"))
<1> DEFINE S == [k \in 0..0 |-> {<<>>}]
<1>1. S[0] = {<<>>} /\ Len(<<>>) = 0 /\ DOMAIN <<>> = 1..0
  OBVIOUS
<1> HIDE DEF S
<1>2. Planned(Program["flat"], 0, S, S, Initialised("flat"))
  BY <1>1, Programs, MadeFlat DEF Planned
<1> QED
  BY <1>2

LEMMA PlannedList ==
  ASSUME Initialised("list") \subseteq Paths
  PROVE  \E SH, UP : Planned(Program["list"], 3, SH, UP, Initialised("list"))
<1> DEFINE e == <<>>  a == <<1>>
           Se == {e}
           Sea == {e, a}
           c1 == <<"children", e, 1>>
           c2 == <<"init", a>>
           c3 == <<"name", a>>
           program == Program["list"]
           SH == [k \in 0..3 |-> IF k <= 0 THEN Se ELSE Sea]
           UP == [k \in 0..3 |-> IF k <= 1 THEN Se ELSE Sea]
<1>1. /\ Len(program) = 3 /\ DOMAIN program = 1..3
      /\ program[1] = c1 /\ program[2] = c2 /\ program[3] = c3
  BY Programs
<1>2. Initialised("list") = Sea /\ Sea \subseteq Paths
  BY MadeList
<1>3. /\ SH[0] = Se /\ SH[1] = Sea /\ SH[2] = Sea /\ SH[3] = Sea
      /\ UP[0] = Se /\ UP[1] = Se /\ UP[2] = Sea /\ UP[3] = Sea
  <2> HIDE DEF Se, Sea
  <2> QED
    OBVIOUS
<1>4. /\ Brood(e, 1) = {a}
      /\ \A k \in Nat : Append(e, k) # e
      /\ a # e
  BY FewPaths
<1> HIDE DEF e, a, program, SH, UP, c1, c2, c3
<1>5. /\ Se \subseteq Paths
      /\ Sea \subseteq Paths
  BY <1>2
<1>6. Follows(c1, Se, Se, Sea, Se)
  <2>1. Se \subseteq Se /\ Se \subseteq Paths
    BY <1>5
  <2>2. e \in Se /\ Sea = Se \cup Brood(e, 1) /\ Brood(e, 1) \subseteq Paths
        /\ \A k \in Nat : Append(e, k) \notin Se
    BY <1>4, <1>5
  <2> HIDE DEF Se, Sea
  <2>3. Follows(<<"children", e, 1>>, Se, Se, Se \cup Brood(e, 1), Se)
    BY <2>1, <2>2, FollowsChildren
  <2> QED
    BY <2>2, <2>3 DEF c1
<1>7. Follows(c2, Sea, Se, Sea, Sea)
  <2>1. Se \subseteq Sea /\ Sea \subseteq Paths
    BY <1>5
  <2>2. a \in Sea \ Se /\ Sea = Se \cup {a}
    BY <1>4
  <2> HIDE DEF Se, Sea
  <2> QED
    BY <2>1, <2>2, FollowsInit DEF c2
<1>8. Follows(c3, Sea, Sea, Sea, Sea)
  <2>1. Sea \subseteq Sea /\ Sea \subseteq Paths
    BY <1>5
  <2>2. a \in Sea
    OBVIOUS
  <2> HIDE DEF Sea
  <2> QED
    BY <2>1, <2>2, FollowsString DEF c3
<1> HIDE DEF Se, Sea
<1>9. ASSUME NEW k \in 1..3 PROVE Follows(program[k], SH[k - 1], UP[k - 1], SH[k], UP[k])
  <2>1. (k = 1 /\ k - 1 = 0) \/ (k = 2 /\ k - 1 = 1) \/ (k = 3 /\ k - 1 = 2)
    OBVIOUS
  <2> QED
    BY <1>1, <1>3, <1>6, <1>7, <1>8, <2>1
<1>10. Se = {<<>>}
  BY DEF Se, e
<1> QED
  BY <1>1, <1>2, <1>3, <1>9, <1>10 DEF Planned, program

LEMMA PlannedMap ==
  ASSUME Initialised("map") \subseteq Paths
  PROVE  \E SH, UP : Planned(Program["map"], 9, SH, UP, Initialised("map"))
<1> DEFINE e == <<>>  a == <<1>>  c == <<1, 1>>  g == <<1, 2>>
           Se == {e}
           Sea == {e, a}
           Seacg == {e, a, c, g}
           Seac == {e, a, c}
           c1 == <<"children", e, 1>>
           c2 == <<"init", a>>
           c3 == <<"format", a>>
           c4 == <<"name", a>>
           c5 == <<"children", a, 2>>
           c6 == <<"init", c>>
           c7 == <<"init", g>>
           c8 == <<"name", c>>
           c9 == <<"name", g>>
           program == Program["map"]
           SH == [k \in 0..9 |-> IF k <= 0 THEN Se ELSE IF k <= 4 THEN Sea ELSE Seacg]
           UP == [k \in 0..9 |-> IF k <= 1 THEN Se ELSE IF k <= 5 THEN Sea ELSE IF k <= 6 THEN Seac ELSE Seacg]
<1>1. /\ Len(program) = 9 /\ DOMAIN program = 1..9
      /\ program[1] = c1 /\ program[2] = c2 /\ program[3] = c3 /\ program[4] = c4 /\ program[5] = c5 /\ program[6] = c6 /\ program[7] = c7 /\ program[8] = c8 /\ program[9] = c9
  BY Programs
<1>2. Initialised("map") = Seacg /\ Seacg \subseteq Paths
  BY MadeMap
<1>3. /\ SH[0] = Se /\ SH[1] = Sea /\ SH[2] = Sea /\ SH[3] = Sea /\ SH[4] = Sea /\ SH[5] = Seacg /\ SH[6] = Seacg /\ SH[7] = Seacg /\ SH[8] = Seacg /\ SH[9] = Seacg
      /\ UP[0] = Se /\ UP[1] = Se /\ UP[2] = Sea /\ UP[3] = Sea /\ UP[4] = Sea /\ UP[5] = Sea /\ UP[6] = Seac /\ UP[7] = Seacg /\ UP[8] = Seacg /\ UP[9] = Seacg
  <2> HIDE DEF Se, Sea, Seacg, Seac
  <2> QED
    OBVIOUS
<1>4. /\ Brood(e, 1) = {a} /\ Brood(a, 2) = {c, g}
      /\ \A k \in Nat : Append(e, k) # e /\ Append(a, k) # e /\ Append(a, k) # a
      /\ a # e /\ c # g /\ c # e /\ c # a /\ g # e /\ g # a
  BY FewPaths
<1> HIDE DEF e, a, c, g, program, SH, UP, c1, c2, c3, c4, c5, c6, c7, c8, c9
<1>5. /\ Se \subseteq Paths
      /\ Sea \subseteq Paths
      /\ Seacg \subseteq Paths
      /\ Seac \subseteq Paths
  BY <1>2
<1>6. Follows(c1, Se, Se, Sea, Se)
  <2>1. Se \subseteq Se /\ Se \subseteq Paths
    BY <1>5
  <2>2. e \in Se /\ Sea = Se \cup Brood(e, 1) /\ Brood(e, 1) \subseteq Paths
        /\ \A k \in Nat : Append(e, k) \notin Se
    BY <1>4, <1>5
  <2> HIDE DEF Se, Sea
  <2>3. Follows(<<"children", e, 1>>, Se, Se, Se \cup Brood(e, 1), Se)
    BY <2>1, <2>2, FollowsChildren
  <2> QED
    BY <2>2, <2>3 DEF c1
<1>7. Follows(c2, Sea, Se, Sea, Sea)
  <2>1. Se \subseteq Sea /\ Sea \subseteq Paths
    BY <1>5
  <2>2. a \in Sea \ Se /\ Sea = Se \cup {a}
    BY <1>4
  <2> HIDE DEF Se, Sea
  <2> QED
    BY <2>1, <2>2, FollowsInit DEF c2
<1>8. Follows(c3, Sea, Sea, Sea, Sea)
  <2>1. Sea \subseteq Sea /\ Sea \subseteq Paths
    BY <1>5
  <2>2. a \in Sea
    OBVIOUS
  <2> HIDE DEF Sea
  <2> QED
    BY <2>1, <2>2, FollowsString DEF c3
<1>9. Follows(c4, Sea, Sea, Sea, Sea)
  <2>1. Sea \subseteq Sea /\ Sea \subseteq Paths
    BY <1>5
  <2>2. a \in Sea
    OBVIOUS
  <2> HIDE DEF Sea
  <2> QED
    BY <2>1, <2>2, FollowsString DEF c4
<1>10. Follows(c5, Sea, Sea, Seacg, Sea)
  <2>1. Sea \subseteq Sea /\ Sea \subseteq Paths
    BY <1>5
  <2>2. a \in Sea /\ Seacg = Sea \cup Brood(a, 2) /\ Brood(a, 2) \subseteq Paths
        /\ \A k \in Nat : Append(a, k) \notin Sea
    BY <1>4, <1>5
  <2> HIDE DEF Sea, Seacg
  <2>3. Follows(<<"children", a, 2>>, Sea, Sea, Sea \cup Brood(a, 2), Sea)
    BY <2>1, <2>2, FollowsChildren
  <2> QED
    BY <2>2, <2>3 DEF c5
<1>11. Follows(c6, Seacg, Sea, Seacg, Seac)
  <2>1. Sea \subseteq Seacg /\ Seacg \subseteq Paths
    BY <1>5
  <2>2. c \in Seacg \ Sea /\ Seac = Sea \cup {c}
    BY <1>4
  <2> HIDE DEF Sea, Seac, Seacg
  <2> QED
    BY <2>1, <2>2, FollowsInit DEF c6
<1>12. Follows(c7, Seacg, Seac, Seacg, Seacg)
  <2>1. Seac \subseteq Seacg /\ Seacg \subseteq Paths
    BY <1>5
  <2>2. g \in Seacg \ Seac /\ Seacg = Seac \cup {g}
    BY <1>4
  <2> HIDE DEF Seac, Seacg
  <2> QED
    BY <2>1, <2>2, FollowsInit DEF c7
<1>13. Follows(c8, Seacg, Seacg, Seacg, Seacg)
  <2>1. Seacg \subseteq Seacg /\ Seacg \subseteq Paths
    BY <1>5
  <2>2. c \in Seacg
    OBVIOUS
  <2> HIDE DEF Seacg
  <2> QED
    BY <2>1, <2>2, FollowsString DEF c8
<1>14. Follows(c9, Seacg, Seacg, Seacg, Seacg)
  <2>1. Seacg \subseteq Seacg /\ Seacg \subseteq Paths
    BY <1>5
  <2>2. g \in Seacg
    OBVIOUS
  <2> HIDE DEF Seacg
  <2> QED
    BY <2>1, <2>2, FollowsString DEF c9
<1> HIDE DEF Se, Sea, Seacg, Seac
<1>15. ASSUME NEW k \in 1..9 PROVE Follows(program[k], SH[k - 1], UP[k - 1], SH[k], UP[k])
  <2>1. (k = 1 /\ k - 1 = 0) \/ (k = 2 /\ k - 1 = 1) \/ (k = 3 /\ k - 1 = 2) \/ (k = 4 /\ k - 1 = 3) \/ (k = 5 /\ k - 1 = 4) \/ (k = 6 /\ k - 1 = 5) \/ (k = 7 /\ k - 1 = 6) \/ (k = 8 /\ k - 1 = 7) \/ (k = 9 /\ k - 1 = 8)
    OBVIOUS
  <2> QED
    BY <1>1, <1>3, <1>6, <1>7, <1>8, <1>9, <1>10, <1>11, <1>12, <1>13, <1>14, <2>1
<1>16. Se = {<<>>}
  BY DEF Se, e
<1> QED
  BY <1>1, <1>2, <1>3, <1>15, <1>16 DEF Planned, program

LEMMA PlannedRunEnd ==
  ASSUME Initialised("run_end_encoded") \subseteq Paths
  PROVE  \E SH, UP : Planned(Program["run_end_encoded"], 5, SH, UP, Initialised("run_end_encoded"))
<1> DEFINE e == <<>>  a == <<1>>  d == <<2>>
           Se == {e}
           Sead == {e, a, d}
           Sea == {e, a}
           c1 == <<"children", e, 2>>
           c2 == <<"init", a>>
           c3 == <<"name", a>>
           c4 == <<"init", d>>
           c5 == <<"name", d>>
           program == Program["run_end_encoded"]
           SH == [k \in 0..5 |-> IF k <= 0 THEN Se ELSE Sead]
           UP == [k \in 0..5 |-> IF k <= 1 THEN Se ELSE IF k <= 3 THEN Sea ELSE Sead]
<1>1. /\ Len(program) = 5 /\ DOMAIN program = 1..5
      /\ program[1] = c1 /\ program[2] = c2 /\ program[3] = c3 /\ program[4] = c4 /\ program[5] = c5
  BY Programs
<1>2. Initialised("run_end_encoded") = Sead /\ Sead \subseteq Paths
  BY MadeRunEnd
<1>3. /\ SH[0] = Se /\ SH[1] = Sead /\ SH[2] = Sead /\ SH[3] = Sead /\ SH[4] = Sead /\ SH[5] = Sead
      /\ UP[0] = Se /\ UP[1] = Se /\ UP[2] = Sea /\ UP[3] = Sea /\ UP[4] = Sead /\ UP[5] = Sead
  <2> HIDE DEF Se, Sead, Sea
  <2> QED
    OBVIOUS
<1>4. /\ Brood(e, 1) = {a} /\ Brood(e, 2) = {a, d}
      /\ \A k \in Nat : Append(e, k) # e
      /\ a # e /\ d # e /\ a # d
  BY FewPaths
<1> HIDE DEF e, a, d, program, SH, UP, c1, c2, c3, c4, c5
<1>5. /\ Se \subseteq Paths
      /\ Sead \subseteq Paths
      /\ Sea \subseteq Paths
  BY <1>2
<1>6. Follows(c1, Se, Se, Sead, Se)
  <2>1. Se \subseteq Se /\ Se \subseteq Paths
    BY <1>5
  <2>2. e \in Se /\ Sead = Se \cup Brood(e, 2) /\ Brood(e, 2) \subseteq Paths
        /\ \A k \in Nat : Append(e, k) \notin Se
    BY <1>4, <1>5
  <2> HIDE DEF Se, Sead
  <2>3. Follows(<<"children", e, 2>>, Se, Se, Se \cup Brood(e, 2), Se)
    BY <2>1, <2>2, FollowsChildren
  <2> QED
    BY <2>2, <2>3 DEF c1
<1>7. Follows(c2, Sead, Se, Sead, Sea)
  <2>1. Se \subseteq Sead /\ Sead \subseteq Paths
    BY <1>5
  <2>2. a \in Sead \ Se /\ Sea = Se \cup {a}
    BY <1>4
  <2> HIDE DEF Se, Sea, Sead
  <2> QED
    BY <2>1, <2>2, FollowsInit DEF c2
<1>8. Follows(c3, Sead, Sea, Sead, Sea)
  <2>1. Sea \subseteq Sead /\ Sead \subseteq Paths
    BY <1>5
  <2>2. a \in Sea
    OBVIOUS
  <2> HIDE DEF Sea, Sead
  <2> QED
    BY <2>1, <2>2, FollowsString DEF c3
<1>9. Follows(c4, Sead, Sea, Sead, Sead)
  <2>1. Sea \subseteq Sead /\ Sead \subseteq Paths
    BY <1>5
  <2>2. d \in Sead \ Sea /\ Sead = Sea \cup {d}
    BY <1>4
  <2> HIDE DEF Sea, Sead
  <2> QED
    BY <2>1, <2>2, FollowsInit DEF c4
<1>10. Follows(c5, Sead, Sead, Sead, Sead)
  <2>1. Sead \subseteq Sead /\ Sead \subseteq Paths
    BY <1>5
  <2>2. d \in Sead
    OBVIOUS
  <2> HIDE DEF Sead
  <2> QED
    BY <2>1, <2>2, FollowsString DEF c5
<1> HIDE DEF Se, Sead, Sea
<1>11. ASSUME NEW k \in 1..5 PROVE Follows(program[k], SH[k - 1], UP[k - 1], SH[k], UP[k])
  <2>1. (k = 1 /\ k - 1 = 0) \/ (k = 2 /\ k - 1 = 1) \/ (k = 3 /\ k - 1 = 2) \/ (k = 4 /\ k - 1 = 3) \/ (k = 5 /\ k - 1 = 4)
    OBVIOUS
  <2> QED
    BY <1>1, <1>3, <1>6, <1>7, <1>8, <1>9, <1>10, <2>1
<1>12. Se = {<<>>}
  BY DEF Se, e
<1> QED
  BY <1>1, <1>2, <1>3, <1>11, <1>12 DEF Planned, program

LEMMA TypeGrown ==
  ASSUME NEW b, NEW type \in Types,
         NEW results, \A s \in results : Grown(b, s, {<<>>}, {<<>>}),
         NEW r \in InTurn(results, Len(Program[type]),
                          [k \in DOMAIN Program[type] |->
                             [x \in Memories |-> Call(x, Program[type][k])]])
  PROVE  Grown(b, r, Initialised(type), Initialised(type))
<1>1. Initialised(type) \subseteq Paths
  BY AreShapes DEF MadeShapes
<1>2. \E n, SH, UP : Planned(Program[type], n, SH, UP, Initialised(type))
  <2>1. type = "flat" \/ type = "list" \/ type = "map" \/ type = "run_end_encoded"
    BY TypesAssumption, Programs
  <2> QED
    BY <1>1, <2>1, PlannedFlat, PlannedList, PlannedMap, PlannedRunEnd, Zenon
<1>3. PICK n, SH, UP : Planned(Program[type], n, SH, UP, Initialised(type))
  BY <1>2, Zenon
<1> DEFINE program == Program[type]
<1>4. /\ n \in Nat /\ Len(program) = n /\ DOMAIN program = 1..n
      /\ SH[0] = {<<>>} /\ UP[0] = {<<>>} /\ SH[n] = Initialised(type) /\ UP[n] = Initialised(type)
      /\ \A k \in 1..n : Follows(program[k], SH[k - 1], UP[k - 1], SH[k], UP[k])
  BY <1>3, Zenon DEF Planned
<1>5. \A s \in results : Grown(b, s, SH[0], UP[0])
  BY <1>4
<1>6. r \in InTurn(results, Len(program),
                   [k \in DOMAIN program |-> [x \in Memories |-> Call(x, program[k])]])
  OBVIOUS
<1> HIDE DEF program
<1>7. Grown(b, r, SH[n], UP[n])
  BY <1>4, <1>5, <1>6, ProgramGrown
<1> QED
  BY <1>4, <1>7

(* The whole of ArrowSchemaInitFromType. *)
LEMMA SchemaMade ==
  ASSUME NEW b, Intact(b), b.ok, Vacant(b, "schema", <<>>), NEW type \in Types,
         NEW r \in InitFromType(b, type)
  PROVE  /\ Intact(r) /\ Apart(b, r, "schema", <<>>) /\ Tidy(r, "schema", <<>>, FALSE)
         /\ IF r.ok THEN Grown(b, r, Initialised(type), Initialised(type))
            ELSE ~Node(r, "schema", <<>>).up
<1> DEFINE first == SetString(InitNode(b, "schema", <<>>), "schema", <<>>, "format")
           last == InTurn(first, Len(Program[type]),
                          [k \in DOMAIN Program[type] |->
                             [x \in Memories |-> Call(x, Program[type][k])]])
           a == InitNode(b, "schema", <<>>)
           sh == Initialised(type)
<1>1. r \in OrElse(last, LAMBDA x : Release(x, "schema", <<>>))
  BY Zenon DEF InitFromType
<1>2. PICK x \in last : r = IF x.ok THEN x ELSE Fail(Release(x, "schema", <<>>))
  <2> HIDE DEF last
  <2> QED
    BY <1>1 DEF OrElse
<1>3. ASSUME NEW s \in first PROVE Grown(b, s, {<<>>}, {<<>>})
  <2>1. /\ Bare(a, "schema", <<>>) /\ Apart(b, a, "schema", <<>>) /\ Node(a, "schema", <<>>) = Empty
        /\ a.ok = b.ok
    BY Root, NodeInit
  <2> HIDE DEF a
  <2>2. \A q \in Paths : Owns(a, "schema", <<>>, q) <=> q = <<>>
    BY <2>1, Root, LeafOwns DEF Bare
  <2>3. Grown(b, a, {<<>>}, {<<>>})
    BY <2>1, <2>2 DEF Grown, Bare, Laid, Childless
  <2>4. {<<>>} \subseteq Paths /\ "format" \in What \ {"struct", "children"} /\ a.ok
    BY <2>1, Root DEF What
  <2> QED
    BY <2>3, <2>4, StringGrown DEF a
<1> HIDE DEF first
<1>4. Grown(b, x, sh, sh)
  BY <1>3, TypeGrown
<1> HIDE DEF last, sh
<1>5. CASE x.ok
  BY <1>2, <1>4, <1>5 DEF Grown, sh
<1>6. CASE ~x.ok
  <2> DEFINE u == Release(x, "schema", <<>>)
  <2>1. Intact(x) /\ Apart(b, x, "schema", <<>>) /\ Tidy(x, "schema", <<>>, FALSE)
    BY <1>4 DEF Grown
  <2>2. /\ Intact(u) /\ Apart(x, u, "schema", <<>>)
        /\ ~Node(u, "schema", <<>>).up /\ Tidy(u, "schema", <<>>, FALSE)
    BY <2>1, Root, Clearing
  <2>3. r = Fail(u)
    BY <1>2, <1>6
  <2> HIDE DEF u
  <2>4. /\ Intact(r) /\ ~r.ok /\ Apart(u, r, "schema", <<>>)
        /\ Node(r, "schema", <<>>) = Node(u, "schema", <<>>) /\ Tidy(r, "schema", <<>>, FALSE)
    BY <2>2, <2>3, Root, FailedSame
  <2>5. Apart(b, r, "schema", <<>>)
    BY <2>1, <2>2, <2>4, ApartChain
  <2> QED
    BY <2>2, <2>4, <2>5
<1> QED
  BY <1>5, <1>6


---------------------------------------------------------------------------
(* The invariant.                                                          *)

(* The heap is what the trees own and, after a failure of ArrayInit, what  *)
(* that lost. Views own nothing between two calls: of the one that         *)
(* ArrayInit makes this is known when it is idle.                          *)
Owned == {"schema", "copy", "array"}
HeapIsOwned(s, lost) ==
  /\ Intact(s)
  /\ \A t \in Owned : Tidy(s, t, <<>>, lost)
  /\ \A t \in Trees : ~Has(s, t, <<>>, "struct")
ViewsAreEmpty(s, idle) ==
  /\ Vacant(s, "view", <<>>)
  /\ idle => Vacant(s, "init_view", <<>>) /\ Node(s, "init_view", <<>>) \in {Released, Empty}
AreMade(s, shp, rdy) ==
  /\ shp \in [Owned -> MadeShapes]
  /\ \A t \in Owned : Node(s, t, <<>>).up /\ (t = "schema" => rdy) => Whole(s, t, <<>>, shp[t])
Accounted(s, lost, idle, shp, rdy) ==
  HeapIsOwned(s, lost) /\ ViewsAreEmpty(s, idle) /\ AreMade(s, shp, rdy)

Sound(s, f, shp, rdy) ==
  s.ok /\ Accounted(s, "array_init" \in f, "array_init" \notin f, shp, rdy)

TreeInv == Sound(mem, failed, shape, ready)

(* What happened to one tree did not happen to another. *)
LEMMA Elsewhere ==
  ASSUME NEW s, NEW r, NEW t \in Trees, Apart(s, r, t, <<>>), NEW x \in Trees \ {t}
  PROVE  /\ Node(r, x, <<>>) = Node(s, x, <<>>)
         /\ \A lost : Tidy(s, x, <<>>, lost) => Tidy(r, x, <<>>, lost)
         /\ Vacant(s, x, <<>>) => Vacant(r, x, <<>>)
         /\ \A sh : Whole(s, x, <<>>, sh) => Whole(r, x, <<>>, sh)
<1>1. Same(s, r, x, <<>>) /\ <<>> \in Paths
  BY ApartTree, Root
<1>2. Node(r, x, <<>>) = Node(s, x, <<>>)
  BY <1>1 DEF Apart
<1>3. Vacant(s, x, <<>>) => Vacant(r, x, <<>>)
  BY <1>1 DEF Vacant, Same, Inside
<1>4. \A lost : Tidy(s, x, <<>>, lost) => Tidy(r, x, <<>>, lost)
  BY <1>1, SameTidy
<1>5. \A sh : Whole(s, x, <<>>, sh) => Whole(r, x, <<>>, sh)
  BY <1>1, WholeSame
<1> QED
  BY <1>2, <1>3, <1>4, <1>5

LEMMA HeapMoved ==
  ASSUME NEW s, NEW r, NEW lost, HeapIsOwned(s, lost), Intact(r), NEW t \in Trees,
         Apart(s, r, t, <<>>), t \in Owned => Tidy(r, t, <<>>, lost)
  PROVE  HeapIsOwned(r, lost)
<1>1. ASSUME NEW x \in Owned \ {t} PROVE Tidy(r, x, <<>>, lost)
  <2>1. x \in Trees \ {t} /\ Tidy(s, x, <<>>, lost)
    BY DEF HeapIsOwned, Owned, Trees
  <2> QED
    BY <2>1, Elsewhere
<1>2. ASSUME NEW x \in Trees PROVE ~Has(r, x, <<>>, "struct")
  <2>1. ~Inside(t, <<>>, x, <<>>, "struct") /\ "struct" \in What /\ <<>> \in Paths
    BY Root DEF Inside, What
  <2> QED
    BY <2>1 DEF Apart, HeapIsOwned
<1> QED
  BY <1>1, <1>2 DEF HeapIsOwned

(* Nothing has changed but whether a call has failed. *)
LEMMA Unmoved ==
  ASSUME NEW s, NEW lost, NEW idle, NEW shp, NEW rdy, Accounted(s, lost, idle, shp, rdy),
         NEW r, Intact(r), r.nodes = s.nodes, r.heap = s.heap
  PROVE  Accounted(r, lost, idle, shp, rdy)
<1>1. /\ \A x : Same(s, r, x, <<>>) /\ Node(r, x, <<>>) = Node(s, x, <<>>)
      /\ \A x, q, w : Has(r, x, q, w) <=> Has(s, x, q, w)
  BY DEF Same, Node, Has
<1>2. <<>> \in Paths /\ Owned \subseteq Trees
  BY Root DEF Owned, Trees
<1>3. HeapIsOwned(r, lost)
  BY <1>1, <1>2, SameTidy DEF HeapIsOwned, Accounted
<1>4. ViewsAreEmpty(r, idle)
  BY <1>1 DEF ViewsAreEmpty, Vacant, Accounted
<1>5. AreMade(r, shp, rdy)
  BY <1>1, <1>2, WholeSame DEF AreMade, Accounted
<1> QED
  BY <1>3, <1>4, <1>5 DEF Accounted

(* The error has been reported. *)
LEMMA Settled ==
  ASSUME NEW s, NEW lost, NEW idle, NEW shp, NEW rdy, Accounted(s, lost, idle, shp, rdy)
  PROVE  LET r == [s EXCEPT !.ok = TRUE] IN r.ok /\ Accounted(r, lost, idle, shp, rdy)
<1> DEFINE r == [s EXCEPT !.ok = TRUE]
<1>1. Intact(s)
  BY DEF Accounted, HeapIsOwned
<1>2. /\ r \in Memories /\ r.ok /\ r.broken = s.broken /\ r.nodes = s.nodes /\ r.heap = s.heap
  BY <1>1 DEF Intact, Memories
<1> HIDE DEF r
<1>3. Intact(r)
  BY <1>1, <1>2 DEF Intact
<1>4. Accounted(r, lost, idle, shp, rdy)
  BY <1>2, <1>3, Unmoved, Zenon
<1> QED
  BY <1>2, <1>4 DEF r

(* A tree that is not there may be given any shape. *)
LEMMA Reshaped ==
  ASSUME NEW s, NEW lost, NEW idle, NEW shp, NEW rdy, Accounted(s, lost, idle, shp, rdy),
         NEW t \in Owned, ~Node(s, t, <<>>).up, NEW sh \in MadeShapes
  PROVE  Accounted(s, lost, idle, [shp EXCEPT ![t] = sh], rdy)
BY DEF Accounted, AreMade

LEMMA DownVacant ==
  ASSUME NEW s, NEW t \in Trees, NEW p \in Paths, Tidy(s, t, p, FALSE), ~Node(s, t, p).up
  PROVE  Vacant(s, t, p)
BY DownOwns DEF Vacant, Tidy

LEMMA ShapeIs ==
  ASSUME NEW shp \in [Owned -> MadeShapes], NEW t \in Owned
  PROVE  shp[t] \in MadeShapes /\ IsShape(shp[t]) /\ shp[t] \subseteq Paths /\ <<>> \in shp[t]
BY AreShapes DEF IsShape

LEMMA TreeInvInit == Init => TreeInv
<1> SUFFICES ASSUME Init PROVE TreeInv
  OBVIOUS
<1>1. /\ mem \in Memories /\ mem.ok /\ ~mem.broken /\ mem.heap = {}
      /\ \A t \in Trees, p \in Paths : Node(mem, t, p) = Released
  BY Plain DEF Init, Clear, Memories, Node
<1>2. \A t \in Trees : ~Node(mem, t, <<>>).up
  BY <1>1, Root, Plain
<1>3. \A t \in Trees, q \in Paths : \A w : ~Has(mem, t, q, w)
  BY <1>1 DEF Has
<1>4. ASSUME NEW t \in Trees PROVE Tidy(mem, t, <<>>, FALSE) /\ Vacant(mem, t, <<>>)
  <2>1. \A q \in Paths, w \in What : ~OwnsBlock(mem, t, <<>>, q, w)
    BY <1>2, DownOwns, Root
  <2> QED
    BY <1>3, <2>1 DEF Tidy, Vacant
<1>5. HeapIsOwned(mem, FALSE)
  BY <1>1, <1>3, <1>4, Root DEF HeapIsOwned, Intact, Owned, Trees
<1>6. ViewsAreEmpty(mem, TRUE)
  BY <1>1, <1>4, Root DEF ViewsAreEmpty, Trees
<1>7. AreMade(mem, shape, ready)
  <2>1. shape \in [Owned -> MadeShapes]
    BY DEF Init, Owned, MadeShapes
  <2> QED
    BY <1>2, <2>1 DEF AreMade, Owned, Trees
<1>8. ("array_init" \in failed) = FALSE /\ ("array_init" \notin failed) = TRUE
  BY DEF Init
<1>9. Accounted(mem, FALSE, TRUE, shape, ready)
  BY <1>5, <1>6, <1>7 DEF Accounted
<1> QED
  BY <1>1, <1>8, <1>9, Zenon DEF TreeInv, Sound

(* Between two memories one tree has changed. *)
LEMMA OwnedMoved ==
  ASSUME NEW s, NEW lost, NEW idle, NEW shp, NEW rdy, Accounted(s, lost, idle, shp, rdy),
         NEW r, Intact(r), NEW t \in Owned, Apart(s, r, t, <<>>), Tidy(r, t, <<>>, lost),
         NEW shpNow \in [Owned -> MadeShapes], \A x \in Owned \ {t} : shpNow[x] = shp[x],
         NEW rdyNow, t # "schema" /\ rdyNow => rdy,
         Node(r, t, <<>>).up /\ (t = "schema" => rdyNow) => Whole(r, t, <<>>, shpNow[t])
  PROVE  Accounted(r, lost, idle, shpNow, rdyNow)
<1>1. t \in Trees /\ t # "view" /\ t # "init_view" /\ {"view", "init_view"} \subseteq Trees
  BY DEF Owned, Trees
<1>2. HeapIsOwned(r, lost)
  BY <1>1, HeapMoved DEF Accounted
<1>3. ViewsAreEmpty(r, idle)
  BY <1>1, Elsewhere DEF ViewsAreEmpty, Accounted
<1>4. AreMade(r, shpNow, rdyNow)
  <2>1. ASSUME NEW x \in Owned \ {t}, Node(r, x, <<>>).up, x = "schema" => rdyNow
        PROVE  Whole(r, x, <<>>, shpNow[x])
    <3>1. x \in Trees \ {t} /\ shpNow[x] = shp[x]
      BY DEF Owned, Trees
    <3>2. Node(r, x, <<>>) = Node(s, x, <<>>)
      BY <1>1, <3>1, Elsewhere
    <3>3. Whole(s, x, <<>>, shp[x])
      BY <2>1, <3>2 DEF AreMade, Accounted
    <3> QED
      BY <1>1, <3>1, <3>3, Elsewhere
  <2> QED
    BY <2>1 DEF AreMade
<1> QED
  BY <1>2, <1>3, <1>4 DEF Accounted

LEMMA MadeMoved ==
  ASSUME NEW s, NEW r, NEW t \in Trees \ Owned, Apart(s, r, t, <<>>),
         NEW shp, NEW rdy, AreMade(s, shp, rdy)
  PROVE  AreMade(r, shp, rdy)
<1>1. ASSUME NEW x \in Owned
      PROVE  /\ Node(r, x, <<>>) = Node(s, x, <<>>)
             /\ Whole(s, x, <<>>, shp[x]) => Whole(r, x, <<>>, shp[x])
  <2>1. x \in Trees \ {t}
    BY DEF Owned, Trees
  <2> QED
    BY <2>1, Elsewhere
<1> QED
  BY <1>1 DEF AreMade

LEMMA ViewMoved ==
  ASSUME NEW s, NEW lost, NEW idle, NEW shp, NEW rdy, Accounted(s, lost, idle, shp, rdy),
         NEW r, Intact(r), Apart(s, r, "view", <<>>), Vacant(r, "view", <<>>)
  PROVE  Accounted(r, lost, idle, shp, rdy)
<1>1. "view" \in Trees \ Owned /\ "init_view" \in Trees \ {"view"}
  BY DEF Owned, Trees
<1>2. HeapIsOwned(r, lost)
  BY <1>1, HeapMoved DEF Accounted
<1>3. ViewsAreEmpty(r, idle)
  BY <1>1, Elsewhere DEF ViewsAreEmpty, Accounted
<1>4. AreMade(r, shp, rdy)
  BY <1>1, MadeMoved DEF Accounted
<1> QED
  BY <1>2, <1>3, <1>4 DEF Accounted

LEMMA InitViewMoved ==
  ASSUME NEW s, NEW lost, NEW idle, NEW shp, NEW rdy, Accounted(s, lost, idle, shp, rdy),
         NEW r, Intact(r), Apart(s, r, "init_view", <<>>), NEW idleNow,
         idleNow => Vacant(r, "init_view", <<>>) /\ Node(r, "init_view", <<>>) \in {Released, Empty}
  PROVE  Accounted(r, lost, idleNow, shp, rdy)
<1>1. "init_view" \in Trees \ Owned /\ "view" \in Trees \ {"init_view"}
  BY DEF Owned, Trees
<1>2. HeapIsOwned(r, lost)
  BY <1>1, HeapMoved DEF Accounted
<1>3. ViewsAreEmpty(r, idleNow)
  BY <1>1, Elsewhere DEF ViewsAreEmpty, Accounted
<1>4. AreMade(r, shp, rdy)
  BY <1>1, MadeMoved DEF Accounted
<1> QED
  BY <1>2, <1>3, <1>4 DEF Accounted

(* A call that has failed may have lost something, and left its view. *)
LEMMA Lost ==
  ASSUME NEW s, NEW lost, NEW idle, NEW shp, NEW rdy, Accounted(s, FALSE, idle, shp, rdy)
  PROVE  Accounted(s, lost, FALSE, shp, rdy)
<1>1. HeapIsOwned(s, lost)
  BY TidyLost DEF HeapIsOwned, Accounted
<1> QED
  BY <1>1 DEF Accounted, ViewsAreEmpty

(* A schema that no call has made yet may have any nodes. *)
LEMMA Unready ==
  ASSUME NEW s, NEW lost, NEW idle, NEW shp, NEW rdy, Accounted(s, lost, idle, shp, rdy)
  PROVE  Accounted(s, lost, idle, shp, FALSE)
BY DEF Accounted, AreMade

---------------------------------------------------------------------------
(* The operations, one by one.                                             *)

LEMMA SoundIs ==
  ASSUME NEW s, NEW f, NEW shp, NEW rdy, Sound(s, f, shp, rdy)
  PROVE  /\ Intact(s) /\ s.ok /\ shp \in [Owned -> MadeShapes] /\ Vacant(s, "view", <<>>)
         /\ \A t \in Owned : t \in Trees /\ Tidy(s, t, <<>>, "array_init" \in f)
         /\ \A t \in Owned \ {"array"} : Tidy(s, t, <<>>, FALSE)
         /\ "array_init" \notin f =>
              /\ \A t \in Owned : Tidy(s, t, <<>>, FALSE)
              /\ Vacant(s, "init_view", <<>>) /\ Node(s, "init_view", <<>>) \in {Released, Empty}
<1>1. Owned \subseteq Trees
  BY DEF Owned, Trees
<1>2. \A t \in Owned : Tidy(s, t, <<>>, "array_init" \in f)
  BY DEF Sound, Accounted, HeapIsOwned
<1>3. \A t \in Owned \ {"array"} : Tidy(s, t, <<>>, FALSE)
  BY <1>2, TidyLost
<1>4. ASSUME "array_init" \notin f PROVE \A t \in Owned : Tidy(s, t, <<>>, FALSE)
  <2>1. ("array_init" \in f) = FALSE
    BY <1>4
  <2> QED
    BY <1>2, <2>1, Zenon
<1>5. /\ s.ok /\ Intact(s) /\ shp \in [Owned -> MadeShapes] /\ Vacant(s, "view", <<>>)
      /\ "array_init" \notin f =>
           Vacant(s, "init_view", <<>>) /\ Node(s, "init_view", <<>>) \in {Released, Empty}
  BY DEF Sound, Accounted, HeapIsOwned, ViewsAreEmpty, AreMade
<1> QED
  BY <1>1, <1>2, <1>3, <1>4, <1>5

(* The memory after a call, and the failures after it. *)
LEMMA SoundAfter ==
  ASSUME NEW s, NEW f, NEW shp, NEW rdy, NEW what, what # "array_init",
         Accounted(s, "array_init" \in f, "array_init" \notin f, shp, rdy)
  PROVE  Sound([s EXCEPT !.ok = TRUE], IF s.ok THEN f ELSE f \cup {what}, shp, rdy)
<1> DEFINE g == IF s.ok THEN f ELSE f \cup {what}
           r == [s EXCEPT !.ok = TRUE]
<1>1. ("array_init" \in g) = ("array_init" \in f) /\ ("array_init" \notin g) = ("array_init" \notin f)
  OBVIOUS
<1>2. r.ok /\ Accounted(r, "array_init" \in f, "array_init" \notin f, shp, rdy)
  BY Settled, Zenon
<1> HIDE DEF g, r
<1>3. Sound(r, g, shp, rdy)
  BY <1>1, <1>2, Zenon DEF Sound
<1> QED
  BY <1>3 DEF g, r

LEMMA ShapeGiven ==
  ASSUME NEW shp \in [Owned -> MadeShapes], NEW t \in Owned, NEW sh \in MadeShapes
  PROVE  LET new == [shp EXCEPT ![t] = sh] IN
         new \in [Owned -> MadeShapes] /\ new[t] = sh /\ \A x \in Owned \ {t} : new[x] = shp[x]
OBVIOUS

LEMMA GrownWhole ==
  ASSUME NEW s, NEW sh, sh \subseteq Paths, Laid(s, sh, sh)
  PROVE  Whole(s, "schema", <<>>, sh)
BY DEF Laid, Whole

(* nanoarrow_c_schema_init. *)
LEMMA SchemaInitSound ==
  ASSUME NEW b, NEW f, NEW shp, NEW rdy, Sound(b, f, shp, rdy), ~Node(b, "schema", <<>>).up,
         NEW type \in Types,
         NEW r \in Then(InitFromType(b, type), LAMBDA x : SetString(x, "schema", <<>>, "name"))
  PROVE  Sound([r EXCEPT !.ok = TRUE], IF r.ok THEN f ELSE f \cup {"schema_init"},
               [shp EXCEPT !["schema"] = Initialised(type)], r.ok)
<1> DEFINE sh == Initialised(type)
           new == [shp EXCEPT !["schema"] = sh]
<1>1. /\ Intact(b) /\ b.ok /\ shp \in [Owned -> MadeShapes]
      /\ "schema" \in Owned /\ Tidy(b, "schema", <<>>, FALSE)
  <2>1. "schema" \in Owned \ {"array"}
    BY DEF Owned
  <2> QED
    BY <2>1, SoundIs
<1>2. Vacant(b, "schema", <<>>)
  BY <1>1, DownVacant, Root
<1>3. sh \in MadeShapes /\ sh \subseteq Paths /\ <<>> \in sh
  BY AreShapes DEF MadeShapes, IsShape
<1>4. PICK x \in InitFromType(b, type) : IF x.ok THEN r \in SetString(x, "schema", <<>>, "name") ELSE r = x
  BY DEF Then
<1> HIDE DEF sh
<1>5. /\ Intact(x) /\ Apart(b, x, "schema", <<>>) /\ Tidy(x, "schema", <<>>, FALSE)
      /\ IF x.ok THEN Grown(b, x, sh, sh) ELSE ~Node(x, "schema", <<>>).up
  BY <1>1, <1>2, <1>4, SchemaMade DEF sh
<1>6. /\ Intact(r) /\ Apart(b, r, "schema", <<>>) /\ Tidy(r, "schema", <<>>, FALSE)
      /\ Node(r, "schema", <<>>).up /\ r.ok => Whole(r, "schema", <<>>, sh)
  <2>1. CASE ~x.ok
    BY <1>4, <1>5, <2>1
  <2>2. CASE x.ok
    <3>1. "name" \in What \ {"struct", "children"} /\ r \in SetString(x, "schema", <<>>, "name")
      BY <1>4, <2>2 DEF What
    <3>2. Grown(b, r, sh, sh) /\ Laid(r, sh, sh)
      BY <1>3, <1>5, <2>2, <3>1, StringGrown
    <3> QED
      BY <1>3, <3>2, GrownWhole DEF Grown
  <2> QED
    BY <2>1, <2>2
<1>7. new \in [Owned -> MadeShapes] /\ new["schema"] = sh /\ \A t \in Owned \ {"schema"} : new[t] = shp[t]
  BY <1>1, <1>3, ShapeGiven
<1> HIDE DEF new
<1>8. Tidy(r, "schema", <<>>, "array_init" \in f)
  BY <1>6, TidyLost
<1>9. Accounted(r, "array_init" \in f, "array_init" \notin f, new, r.ok)
  <2> DEFINE lost == "array_init" \in f
             idle == "array_init" \notin f
  <2>1. Accounted(b, lost, idle, shp, rdy) /\ Tidy(r, "schema", <<>>, lost)
    BY <1>8 DEF Sound
  <2>2. Node(r, "schema", <<>>).up /\ ("schema" = "schema" => r.ok) => Whole(r, "schema", <<>>, new["schema"])
    BY <1>6, <1>7
  <2>3. "schema" # "schema" /\ r.ok => rdy
    OBVIOUS
  <2> HIDE DEF lost, idle
  <2>4. Accounted(r, lost, idle, new, r.ok)
    BY <1>1, <1>6, <1>7, <2>1, <2>2, <2>3, OwnedMoved, Zenon
  <2> QED
    BY <2>4 DEF lost, idle
<1>10. Sound([r EXCEPT !.ok = TRUE], IF r.ok THEN f ELSE f \cup {"schema_init"}, new, r.ok)
  BY <1>9, SoundAfter, Zenon
<1> QED
  BY <1>10 DEF new, sh

LEMMA OwnedUnmade ==
  ASSUME NEW s, NEW lost, NEW idle, NEW shp, NEW rdy, Accounted(s, lost, idle, shp, rdy),
         NEW r, Intact(r), NEW t \in Owned \ {"schema"}, Apart(s, r, t, <<>>), Tidy(r, t, <<>>, lost),
         NEW sh \in MadeShapes, Node(r, t, <<>>).up => Whole(r, t, <<>>, sh)
  PROVE  Accounted(r, lost, idle, [shp EXCEPT ![t] = sh], rdy)
<1> DEFINE new == [shp EXCEPT ![t] = sh]
<1>1. new \in [Owned -> MadeShapes] /\ new[t] = sh /\ \A x \in Owned \ {t} : new[x] = shp[x]
  BY ShapeGiven DEF Accounted, AreMade
<1> HIDE DEF new
<1>2. Node(r, t, <<>>).up /\ (t = "schema" => rdy) => Whole(r, t, <<>>, new[t])
  BY <1>1
<1>3. t # "schema" /\ rdy => rdy
  OBVIOUS
<1>4. t \in Owned
  OBVIOUS
<1>5. Accounted(r, lost, idle, new, rdy)
  BY <1>1, <1>2, <1>3, <1>4, OwnedMoved, Zenon
<1> QED
  BY <1>5 DEF new

(* ArrowSchemaDeepCopy. *)
LEMMA SchemaDeepCopySound ==
  ASSUME NEW b, NEW f, NEW shp, NEW rdy, Sound(b, f, shp, rdy), ~Node(b, "copy", <<>>).up,
         NEW r \in MakeTree(b, "copy", <<>>, shp["schema"])
  PROVE  Sound([r EXCEPT !.ok = TRUE], IF r.ok THEN f ELSE f \cup {"copy"},
               [shp EXCEPT !["copy"] = shp["schema"]], rdy)
<1> DEFINE sh == shp["schema"]
           new == [shp EXCEPT !["copy"] = sh]
<1>1. /\ "schema" \in Owned /\ "copy" \in Owned \ {"schema"} /\ "copy" \in Owned \ {"array"}
      /\ "copy" \in Trees \ {"schema"} /\ "copy" \notin Views /\ "copy" # "array"
  BY DEF Owned, Trees, Views
<1>2. /\ Intact(b) /\ b.ok /\ Tidy(b, "copy", <<>>, FALSE)
      /\ sh \in MadeShapes /\ IsShape(sh) /\ sh \subseteq Paths /\ <<>> \in sh
  BY <1>1, SoundIs, ShapeIs
<1>3. Ready(b, "copy", <<>>)
  BY <1>1, <1>2, DownVacant, Root DEF Ready
<1>4. r \in MakeTree(b, "copy", <<>>, sh)
  OBVIOUS
<1> HIDE DEF sh
<1>5. Made(b, r, "copy", <<>>, sh)
  BY <1>1, <1>2, <1>3, <1>4, TreeMade
<1>6. /\ Intact(r) /\ Apart(b, r, "copy", <<>>) /\ Tidy(r, "copy", <<>>, ~r.ok)
      /\ Node(r, "copy", <<>>).up => Whole(r, "copy", <<>>, sh)
  BY <1>1, <1>5 DEF Made
<1>7. Tidy(r, "copy", <<>>, "array_init" \in f)
  BY <1>1, <1>6, TidyLost
<1>8. Accounted(b, "array_init" \in f, "array_init" \notin f, shp, rdy)
  BY DEF Sound
<1>9. Accounted(r, "array_init" \in f, "array_init" \notin f, new, rdy)
  BY <1>1, <1>2, <1>6, <1>7, <1>8, OwnedUnmade, Zenon
<1> HIDE DEF new
<1>10. Sound([r EXCEPT !.ok = TRUE], IF r.ok THEN f ELSE f \cup {"copy"}, new, rdy)
  BY <1>9, SoundAfter, Zenon
<1> QED
  BY <1>10 DEF new, sh

(* nanoarrow_c_array_set_schema. *)
LEMMA SetSchemaSound ==
  ASSUME NEW b, NEW f, NEW shp, NEW rdy, Sound(b, f, shp, rdy),
         NEW r \in MakeTree([b EXCEPT !.nodes["view"][<<>>] = Released], "view", <<>>, shp["schema"]),
         NEW u, u = IF r.ok \/ Node(r, "view", <<>>).up THEN Reset(r, "view", <<>>) ELSE r
  PROVE  Sound([u EXCEPT !.ok = TRUE], IF r.ok THEN f ELSE f \cup {"set_schema"}, shp, rdy)
<1> DEFINE sh == shp["schema"]
           s == SetNode(b, "view", <<>>, Released)
           lost == "array_init" \in f
           idle == "array_init" \notin f
<1>1. /\ "schema" \in Owned /\ "view" \in Trees \ {"schema"} /\ "view" \in Trees /\ "view" \in Views
      /\ "view" # "array" /\ <<>> \in Paths
  BY Root DEF Owned, Trees, Views
<1>2. /\ Intact(b) /\ b.ok /\ Vacant(b, "view", <<>>)
      /\ sh \in MadeShapes /\ IsShape(sh) /\ sh \subseteq Paths /\ <<>> \in sh
  BY <1>1, SoundIs, ShapeIs
<1>3. r \in MakeTree(s, "view", <<>>, sh)
  BY DEF SetNode
<1>4. Accounted(b, lost, idle, shp, rdy)
  BY DEF Sound
<1> HIDE DEF sh, lost, idle
<1>5. /\ s \in Memories /\ s.heap = b.heap /\ s.ok = b.ok /\ s.broken = b.broken
      /\ Node(s, "view", <<>>) = Released
      /\ \A x \in Trees, q \in Paths : x # "view" \/ q # <<>> => Node(s, x, q) = Node(b, x, q)
  <2>1. b \in Memories /\ Released \in Nodes
    BY <1>2, Plain DEF Intact
  <2> QED
    BY <1>1, <2>1, NodeSet
<1> HIDE DEF s
<1>6. Intact(s) /\ Apart(b, s, "view", <<>>) /\ Vacant(s, "view", <<>>)
  <2>1. IsPrefix(<<>>, <<>>)
    BY Root, PathsAre
  <2> QED
    BY <1>2, <1>5, <2>1 DEF Intact, Apart, Has, Vacant
<1>7. Ready(s, "view", <<>>)
  BY <1>2, <1>5, <1>6 DEF Ready
<1>8. Made(s, r, "view", <<>>, sh)
  BY <1>1, <1>2, <1>3, <1>7, TreeMade
<1>9. Intact(r) /\ Apart(s, r, "view", <<>>) /\ Tidy(r, "view", <<>>, FALSE)
  BY <1>1, <1>8, TidyLost DEF Made
<1>10. Intact(u) /\ Apart(r, u, "view", <<>>) /\ Vacant(u, "view", <<>>) /\ u.ok = r.ok
  <2>1. CASE r.ok \/ Node(r, "view", <<>>).up
    BY <1>1, <1>9, <2>1, ViewReset
  <2>2. CASE ~(r.ok \/ Node(r, "view", <<>>).up)
    <3>1. u = r
      BY <2>2
    <3>2. Vacant(r, "view", <<>>)
      BY <1>1, <1>9, <2>2, DownVacant
    <3> QED
      BY <1>9, <3>1, <3>2, ApartNone
  <2> QED
    BY <2>1, <2>2
<1>11. Apart(b, u, "view", <<>>)
  BY <1>6, <1>9, <1>10, ApartChain
<1>12. Accounted(u, lost, idle, shp, rdy)
  BY <1>4, <1>10, <1>11, ViewMoved, Zenon
<1>13. Sound([u EXCEPT !.ok = TRUE], IF u.ok THEN f ELSE f \cup {"set_schema"}, shp, rdy)
  BY ONLY <1>12, SoundAfter, Zenon DEF lost, idle
<1> QED
  BY <1>10, <1>13, Zenon

(* The releases. *)
LEMMA ReleaseSound ==
  ASSUME NEW b, NEW f, NEW shp, NEW rdy, Sound(b, f, shp, rdy), NEW t \in Owned,
         NEW rdyNow, t # "schema" /\ rdyNow => rdy
  PROVE  Sound(Release(b, t, <<>>), f, shp, rdyNow)
<1> DEFINE r == Release(b, t, <<>>)
           lost == "array_init" \in f
           idle == "array_init" \notin f
<1>1. /\ Intact(b) /\ b.ok /\ t \in Trees /\ Tidy(b, t, <<>>, lost) /\ <<>> \in Paths
      /\ shp \in [Owned -> MadeShapes]
  BY SoundIs, Root
<1>2. Accounted(b, lost, idle, shp, rdy)
  BY DEF Sound
<1> HIDE DEF lost, idle
<1>3. Intact(r) /\ r.ok = b.ok /\ Apart(b, r, t, <<>>) /\ ~Node(r, t, <<>>).up /\ Tidy(r, t, <<>>, lost)
  BY <1>1, Clearing
<1> HIDE DEF r
<1>4. /\ Node(r, t, <<>>).up /\ (t = "schema" => rdyNow) => Whole(r, t, <<>>, shp[t])
      /\ \A x \in Owned \ {t} : shp[x] = shp[x]
  BY <1>3
<1>5. Accounted(r, lost, idle, shp, rdyNow)
  BY <1>1, <1>2, <1>3, <1>4, OwnedMoved, Zenon
<1>6. r.ok
  BY <1>1, <1>3
<1> QED
  BY <1>5, <1>6, Zenon DEF Sound, r, lost, idle

LEMMA Flags ==
  ASSUME NEW f
  PROVE  /\ "array_init" \notin f =>
              ("array_init" \in f) = FALSE /\ ("array_init" \notin f) = TRUE
         /\ \A ok \in BOOLEAN : "array_init" \notin f =>
              LET g == IF ok THEN f ELSE f \cup {"array_init"} IN
              ("array_init" \in g) = (~ok) /\ ("array_init" \notin g) = ok
OBVIOUS

(* ArrowArrayInitFromSchema. *)
LEMMA ArrayInitSound ==
  ASSUME NEW b, NEW f, NEW shp, NEW rdy, Sound(b, f, shp, rdy), ~Node(b, "array", <<>>).up,
         "array_init" \notin f,
         NEW r \in Then(MakeTree(b, "init_view", <<>>, shp["schema"]),
                        LAMBDA v : Then(MakeTree(v, "array", <<>>, shp["schema"]),
                                        LAMBDA a : {Reset(a, "init_view", <<>>)}))
  PROVE  Sound([r EXCEPT !.ok = TRUE], IF r.ok THEN f ELSE f \cup {"array_init"},
               [shp EXCEPT !["array"] = shp["schema"]], rdy)
<1> DEFINE sh == shp["schema"]
           new == [shp EXCEPT !["array"] = sh]
           g == IF r.ok THEN f ELSE f \cup {"array_init"}
<1>1. /\ "schema" \in Owned /\ "array" \in Owned \ {"schema"} /\ "array" \in Owned
      /\ "array" \in Trees \ {"schema"} /\ "array" \notin Views /\ "array" \in Trees \ {"init_view"}
      /\ "init_view" \in Trees \ {"schema"} /\ "init_view" \in Trees /\ "init_view" \in Views
      /\ "init_view" # "array" /\ "init_view" \in Trees \ {"array"} /\ <<>> \in Paths
  BY Root DEF Owned, Trees, Views
<1>2. /\ Intact(b) /\ b.ok /\ shp \in [Owned -> MadeShapes]
      /\ sh \in MadeShapes /\ IsShape(sh) /\ sh \subseteq Paths /\ <<>> \in sh
      /\ Vacant(b, "init_view", <<>>) /\ Node(b, "init_view", <<>>) \in {Released, Empty}
      /\ Tidy(b, "array", <<>>, FALSE)
  BY <1>1, SoundIs, ShapeIs
<1>3. Ready(b, "init_view", <<>>)
  BY <1>2 DEF Ready
<1>4. Accounted(b, FALSE, TRUE, shp, rdy)
  <2>1. ("array_init" \in f) = FALSE /\ ("array_init" \notin f) = TRUE
    BY Flags, Zenon
  <2>2. Accounted(b, "array_init" \in f, "array_init" \notin f, shp, rdy)
    BY DEF Sound
  <2> QED
    BY ONLY <2>1, <2>2, Zenon
<1>5. PICK v \in MakeTree(b, "init_view", <<>>, sh) :
        IF ~v.ok THEN r = v
        ELSE \E a \in MakeTree(v, "array", <<>>, sh) :
               r = IF a.ok THEN Reset(a, "init_view", <<>>) ELSE a
  <2> DEFINE T(v) == Then(MakeTree(v, "array", <<>>, sh), LAMBDA a : {Reset(a, "init_view", <<>>)})
  <2>1. PICK v \in MakeTree(b, "init_view", <<>>, sh) : r \in IF v.ok THEN T(v) ELSE {v}
    BY DEF Then
  <2>2. ASSUME v.ok
        PROVE  \E a \in MakeTree(v, "array", <<>>, sh) :
                 r = IF a.ok THEN Reset(a, "init_view", <<>>) ELSE a
    BY <2>1, <2>2 DEF Then
  <2> QED
    BY <2>1, <2>2
<1> HIDE DEF sh
<1>6. Made(b, v, "init_view", <<>>, sh)
  BY <1>1, <1>2, <1>3, <1>5, TreeMade
<1>7. Intact(v) /\ Apart(b, v, "init_view", <<>>) /\ Tidy(v, "init_view", <<>>, ~v.ok)
  BY <1>6 DEF Made
<1>8. Accounted(v, FALSE, FALSE, shp, rdy)
  <2>1. FALSE => Vacant(v, "init_view", <<>>) /\ Node(v, "init_view", <<>>) \in {Released, Empty}
    OBVIOUS
  <2> QED
    BY ONLY <1>4, <1>7, <2>1, InitViewMoved, Zenon
<1>9. Node(v, "array", <<>>) = Node(b, "array", <<>>) /\ Tidy(v, "array", <<>>, FALSE)
  <2>1. /\ "init_view" \in Trees /\ "array" \in Trees \ {"init_view"}
        /\ Apart(b, v, "init_view", <<>>) /\ Tidy(b, "array", <<>>, FALSE)
    BY ONLY <1>1, <1>2, <1>7
  <2> QED
    BY ONLY <2>1, Elsewhere
<1>10. Accounted(r, ~r.ok, r.ok, new, rdy)
  <2>1. CASE ~v.ok
    <3>1. Accounted(v, TRUE, FALSE, shp, rdy)
      BY <1>8, Lost, Zenon
    <3>2. Accounted(v, TRUE, FALSE, new, rdy)
      BY <1>1, <1>2, <1>9, <3>1, Reshaped, Zenon
    <3>3. r = v /\ (~r.ok) = TRUE /\ r.ok = FALSE
      BY <1>5, <1>7, <2>1 DEF Intact, Memories
    <3> QED
      BY ONLY <3>2, <3>3, Zenon
  <2>2. CASE v.ok
    <3>1. PICK a \in MakeTree(v, "array", <<>>, sh) :
            r = IF a.ok THEN Reset(a, "init_view", <<>>) ELSE a
      BY <1>5, <2>2
    <3>2. Ready(v, "array", <<>>)
      BY <1>1, <1>7, <1>9, <2>2, DownVacant DEF Ready
    <3>3. Made(v, a, "array", <<>>, sh)
      BY <1>1, <1>2, <3>1, <3>2, TreeMade
    <3>4. /\ Intact(a) /\ Apart(v, a, "array", <<>>) /\ Tidy(a, "array", <<>>, ~a.ok)
          /\ Node(a, "array", <<>>).up => Whole(a, "array", <<>>, sh)
      BY <1>1, <3>3 DEF Made
    <3>5. CASE ~a.ok
      <4>1. Accounted(v, TRUE, FALSE, shp, rdy) /\ Tidy(a, "array", <<>>, TRUE)
        <5>1. (~a.ok) = TRUE
          BY <3>5
        <5> QED
          BY ONLY <1>8, <3>4, <5>1, Lost, Zenon
      <4>2. Accounted(a, TRUE, FALSE, new, rdy)
        BY ONLY <1>1, <1>2, <3>4, <4>1, OwnedUnmade, Zenon DEF new
      <4>3. r = a /\ (~r.ok) = TRUE /\ r.ok = FALSE
        BY <3>1, <3>4, <3>5 DEF Intact, Memories
      <4> QED
        BY ONLY <4>2, <4>3, Zenon
    <3>6. CASE a.ok
      <4>1. Tidy(a, "array", <<>>, FALSE)
        <5>1. (~a.ok) = FALSE
          BY <3>6
        <5> QED
          BY ONLY <3>4, <5>1, Zenon
      <4>2. Accounted(a, FALSE, FALSE, new, rdy)
        BY ONLY <1>1, <1>2, <1>8, <3>4, <4>1, OwnedUnmade, Zenon DEF new
      <4>3. Tidy(v, "init_view", <<>>, FALSE)
        BY <1>1, <1>7, TidyLost
      <4>4. Tidy(a, "init_view", <<>>, FALSE)
        BY <1>1, <3>4, <4>3, Elsewhere
      <4>5. r = Reset(a, "init_view", <<>>)
        BY <3>1, <3>6
      <4>6. /\ Intact(r) /\ r.ok = a.ok /\ Apart(a, r, "init_view", <<>>)
            /\ Vacant(r, "init_view", <<>>) /\ Node(r, "init_view", <<>>) = Empty
        BY ONLY <1>1, <3>4, <4>4, <4>5, ViewReset
      <4>7. TRUE => Vacant(r, "init_view", <<>>) /\ Node(r, "init_view", <<>>) \in {Released, Empty}
        BY <4>6
      <4>8. Accounted(r, FALSE, TRUE, new, rdy)
        BY ONLY <4>2, <4>6, <4>7, InitViewMoved, Zenon
      <4>9. (~r.ok) = FALSE /\ r.ok = TRUE
        BY <3>6, <4>6 DEF Intact, Memories
      <4> QED
        BY ONLY <4>8, <4>9, Zenon
    <3> QED
      BY <3>5, <3>6
  <2> QED
    BY <2>1, <2>2
<1> HIDE DEF new
<1>11. r.ok \in BOOLEAN
  BY <1>10 DEF Accounted, HeapIsOwned, Intact, Memories
<1>12. ("array_init" \in g) = (~r.ok) /\ ("array_init" \notin g) = r.ok
  BY <1>11, Flags, Zenon
<1>13. LET x == [r EXCEPT !.ok = TRUE] IN x.ok /\ Accounted(x, ~r.ok, r.ok, new, rdy)
  BY <1>10, Settled, Zenon
<1> HIDE DEF g
<1>14. Sound([r EXCEPT !.ok = TRUE], g, new, rdy)
  BY ONLY <1>12, <1>13, Zenon DEF Sound
<1> QED
  BY <1>14 DEF g, new, sh

(* A schema that R imports. *)
LEMMA CutNext ==
  ASSUME NEW q \in Seq(Nat), NEW l \in 0..(Len(q) - 1)
  PROVE  /\ SubSeq(q, 1, l) \in Seq(Nat) /\ q[l + 1] \in Nat
         /\ Append(SubSeq(q, 1, l), q[l + 1]) = SubSeq(q, 1, l + 1)
<1>1. /\ Len(q) \in Nat /\ l \in 0..Len(q) /\ l + 1 \in 0..Len(q) /\ l + 1 \in 1..Len(q) /\ l \in Nat
  OBVIOUS
<1>2. /\ SubSeq(q, 1, l) \in Seq(Nat) /\ Len(SubSeq(q, 1, l)) = l
      /\ SubSeq(q, 1, l + 1) \in Seq(Nat) /\ Len(SubSeq(q, 1, l + 1)) = l + 1
  BY <1>1, PrefixCut
<1>3. /\ \A i \in 1..l : SubSeq(q, 1, l)[i] = q[i]
      /\ \A i \in 1..(l + 1) : SubSeq(q, 1, l + 1)[i] = q[i]
  BY <1>1
<1>4. q[l + 1] \in Nat
  BY <1>1
<1> DEFINE c == SubSeq(q, 1, l)
           d == SubSeq(q, 1, l + 1)
           e == Append(c, q[l + 1])
<1> HIDE DEF c, d
<1>5. /\ e \in Seq(Nat) /\ Len(e) = l + 1 /\ e[l + 1] = q[l + 1] /\ \A i \in 1..l : e[i] = c[i]
  BY <1>2, <1>4, Extends DEF c
<1> HIDE DEF e
<1>6. ASSUME NEW i \in 1..(l + 1) PROVE e[i] = d[i]
  <2>1. d[i] = q[i]
    BY <1>3 DEF d
  <2>2. CASE i = l + 1
    BY <1>5, <2>1, <2>2
  <2>3. CASE i # l + 1
    <3>1. i \in 1..l
      BY <1>1, <2>3
    <3>2. c[i] = q[i]
      BY <1>3, <3>1 DEF c
    <3> QED
      BY <1>5, <2>1, <3>1, <3>2
  <2> QED
    BY <2>2, <2>3
<1>7. e = d
  BY <1>2, <1>5, <1>6, PathsEqual DEF d
<1> QED
  BY <1>2, <1>4, <1>7 DEF e, c, d

ImportedNode(sh, p) ==
  [up |-> TRUE, held |-> {"format"}, n |-> Arity(sh, p), table |-> Arity(sh, p) > 0,
   kids |-> 1..Arity(sh, p), dict |-> HasDictionary(sh, p)]
Imported(b, sh) ==
  [b EXCEPT !.nodes["schema"] = [p \in Paths |-> IF p \in sh THEN ImportedNode(sh, p) ELSE Released]]

LEMMA ImportedSteps ==
  ASSUME NEW s, NEW sh, IsShape(sh), NEW p \in sh, Node(s, "schema", p) = ImportedNode(sh, p), NEW k \in Nat
  PROVE  Step(s, "schema", p, k) <=> Append(p, k) \in sh
<1> DEFINE n == Arity(sh, p)
           node == Node(s, "schema", p)
<1>1. n \in Nat /\ \A j \in Nat \ {0} : j \in 1..n <=> Append(p, j) \in sh
  BY ShapeOf
<1>2. node.up /\ (node.table <=> n > 0) /\ node.kids = 1..n /\ node.n = n /\ (node.dict <=> Append(p, 0) \in sh)
  <2>1. node.up /\ node.kids = 1..n /\ node.n = n
    BY DEF ImportedNode
  <2> DEFINE several == Arity(sh, p) > 0
             dictionary == HasDictionary(sh, p)
  <2>a. node = [up |-> TRUE, held |-> {"format"}, n |-> Arity(sh, p), table |-> several,
                kids |-> 1..Arity(sh, p), dict |-> dictionary]
    BY Zenon DEF ImportedNode
  <2> HIDE DEF several, dictionary, node
  <2>b. node.table = several /\ node.dict = dictionary
    BY <2>a
  <2>2. node.table <=> n > 0
    BY <2>b DEF several
  <2>3. node.dict <=> Append(p, 0) \in sh
    BY <2>b DEF dictionary, HasDictionary
  <2> QED
    BY <2>1, <2>2, <2>3
<1> HIDE DEF n, node
<1>3. Step(s, "schema", p, k)
        <=> node.up /\ IF k = 0 THEN node.dict ELSE node.table /\ k \in node.kids /\ k <= node.n
  BY DEF Step, node
<1> QED
  BY <1>1, <1>2, <1>3

LEMMA ImportedOwns ==
  ASSUME NEW s, NEW sh, IsShape(sh), sh \subseteq Paths,
         \A p \in Paths : Node(s, "schema", p) = IF p \in sh THEN ImportedNode(sh, p) ELSE Released,
         NEW q \in Paths
  PROVE  Owns(s, "schema", <<>>, q) <=> q \in sh
<1>1. /\ q \in Seq(Nat) /\ Len(q) \in Nat /\ IsPrefix(<<>>, q) /\ Len(<<>>) = 0
      /\ \A x \in Seq(Nat) : IsPrefix(x, q) => x \in Paths
  BY PathsAre, Root
<1>2. Owns(s, "schema", <<>>, q)
        <=> \A l \in 0..(Len(q) - 1) : Step(s, "schema", SubSeq(q, 1, l), q[l + 1])
  BY <1>1 DEF Owns
<1>3. \A l \in 0..(Len(q) - 1) :
        /\ SubSeq(q, 1, l) \in Seq(Nat) /\ SubSeq(q, 1, l) \in Paths /\ q[l + 1] \in Nat
        /\ Append(SubSeq(q, 1, l), q[l + 1]) = SubSeq(q, 1, l + 1)
  <2> TAKE l \in 0..(Len(q) - 1)
  <2>1. l \in 0..Len(q)
    BY <1>1
  <2>2. SubSeq(q, 1, l) \in Seq(Nat) /\ IsPrefix(SubSeq(q, 1, l), q)
    BY <1>1, <2>1, PrefixCut
  <2> QED
    BY <1>1, <2>2, CutNext
<1>4. \A l \in 0..Len(q) : q \in sh => SubSeq(q, 1, l) \in sh
  BY DEF IsShape
<1>5. SubSeq(q, 1, Len(q)) = q
  BY <1>1, PrefixSelf, PrefixCut
<1>6. ASSUME q \in sh, NEW l \in 0..(Len(q) - 1) PROVE Step(s, "schema", SubSeq(q, 1, l), q[l + 1])
  <2> DEFINE c == SubSeq(q, 1, l)
  <2>1. c \in sh /\ SubSeq(q, 1, l + 1) \in sh
    BY <1>1, <1>4, <1>6
  <2>2. c \in Paths /\ q[l + 1] \in Nat /\ Append(c, q[l + 1]) \in sh
    BY <1>3, <2>1
  <2> HIDE DEF c
  <2>3. Node(s, "schema", c) = ImportedNode(sh, c)
    BY <2>1, <2>2
  <2> QED
    BY <2>1, <2>2, <2>3, ImportedSteps DEF c
<1>7. ASSUME \A l \in 0..(Len(q) - 1) : Step(s, "schema", SubSeq(q, 1, l), q[l + 1]) PROVE q \in sh
  <2>1. CASE Len(q) = 0
    <3>1. q = <<>>
      BY <1>1, <2>1
    <3> QED
      BY <3>1 DEF IsShape
  <2>2. CASE Len(q) # 0
    <3> DEFINE l == Len(q) - 1
               c == SubSeq(q, 1, l)
               k == q[l + 1]
    <3>1. l \in 0..(Len(q) - 1) /\ l + 1 = Len(q)
      BY <1>1, <2>2
    <3>2. c \in Paths /\ k \in Nat /\ Append(c, k) = q /\ Step(s, "schema", c, k)
      <4>1. Step(s, "schema", SubSeq(q, 1, l), q[l + 1])
        BY <1>7, <3>1
      <4>2. /\ SubSeq(q, 1, l) \in Paths /\ q[l + 1] \in Nat
            /\ Append(SubSeq(q, 1, l), q[l + 1]) = SubSeq(q, 1, l + 1)
        BY <1>3, <3>1
      <4>3. SubSeq(q, 1, l + 1) = q
        BY <1>5, <3>1
      <4> QED
        BY <4>1, <4>2, <4>3
    <3> HIDE DEF l, c, k
    <3>3. Node(s, "schema", c).up
      BY <3>2 DEF Step
    <3>4. c \in sh
      BY <3>2, <3>3, Plain
    <3>5. Node(s, "schema", c) = ImportedNode(sh, c)
      BY <3>2, <3>4
    <3> QED
      BY <3>2, <3>4, <3>5, ImportedSteps
  <2> QED
    BY <2>1, <2>2
<1> QED
  BY <1>2, <1>6, <1>7

LEMMA ImportedIs ==
  ASSUME NEW b \in Memories, NEW sh, IsShape(sh), sh \subseteq Paths
  PROVE  LET m == Imported(b, sh) IN
         /\ m \in Memories /\ m.heap = b.heap /\ m.ok = b.ok /\ m.broken = b.broken
         /\ \A p \in Paths : Node(m, "schema", p) = IF p \in sh THEN ImportedNode(sh, p) ELSE Released
         /\ \A x \in Trees \ {"schema"}, p \in Paths : Node(m, x, p) = Node(b, x, p)
<1> DEFINE node(p) == IF p \in sh THEN ImportedNode(sh, p) ELSE Released
           all == [p \in Paths |-> node(p)]
           m == [b EXCEPT !.nodes["schema"] = all]
<1>1. ASSUME NEW p \in sh PROVE ImportedNode(sh, p) \in Nodes
  <2> DEFINE several == Arity(sh, p) > 0
             dictionary == HasDictionary(sh, p)
  <2>1. Arity(sh, p) \in Nat
    BY ShapeOf
  <2>2. several \in BOOLEAN /\ dictionary \in BOOLEAN
    BY <2>1 DEF HasDictionary
  <2>3. {"format"} \in SUBSET (What \ {"struct", "children"}) /\ 1..Arity(sh, p) \in SUBSET Nat
    BY <2>1 DEF What
  <2>4. ImportedNode(sh, p) =
          [up |-> TRUE, held |-> {"format"}, n |-> Arity(sh, p), table |-> several,
           kids |-> 1..Arity(sh, p), dict |-> dictionary]
    BY Zenon DEF ImportedNode
  <2> HIDE DEF several, dictionary
  <2> QED
    BY <2>1, <2>2, <2>3, <2>4 DEF Nodes
<1>2. \A p \in Paths : node(p) \in Nodes
  BY <1>1, Plain
<1> HIDE DEF node
<1>3. all \in [Paths -> Nodes] /\ \A p \in Paths : all[p] = node(p)
  BY <1>2
<1> HIDE DEF all
<1>4. /\ m \in Memories /\ m.heap = b.heap /\ m.ok = b.ok /\ m.broken = b.broken
      /\ m.nodes["schema"] = all /\ \A x \in Trees \ {"schema"} : m.nodes[x] = b.nodes[x]
  BY <1>3, Root DEF Memories
<1>5. m = Imported(b, sh)
  BY DEF Imported, all, node
<1> HIDE DEF m
<1>6. /\ \A p \in Paths : Node(m, "schema", p) = node(p)
      /\ \A x \in Trees \ {"schema"}, p \in Paths : Node(m, x, p) = Node(b, x, p)
  BY <1>3, <1>4 DEF Node
<1> QED
  BY <1>4, <1>5, <1>6 DEF node

LEMMA SchemaImportSound ==
  ASSUME NEW b, NEW f, NEW shp, NEW rdy, Sound(b, f, shp, rdy), ~Node(b, "schema", <<>>).up,
         NEW sh \in Shapes
  PROVE  Sound(Take(Imported(b, sh), Blocks(Imported(b, sh), "schema", <<>>)), f,
               [shp EXCEPT !["schema"] = sh], TRUE)
<1> DEFINE m == Imported(b, sh)
           B == Blocks(m, "schema", <<>>)
           r == Take(m, B)
           new == [shp EXCEPT !["schema"] = sh]
           lost == "array_init" \in f
           idle == "array_init" \notin f
<1>1. /\ "schema" \in Owned /\ "schema" \in Trees /\ <<>> \in Paths /\ \A q \in Paths : IsPrefix(<<>>, q)
      /\ sh \in MadeShapes /\ IsShape(sh) /\ sh \subseteq Paths /\ <<>> \in sh
  BY Root, PathsAre, AreShapes DEF Owned, MadeShapes, IsShape
<1>2. /\ Intact(b) /\ b \in Memories /\ b.ok /\ ~b.broken /\ shp \in [Owned -> MadeShapes]
      /\ Tidy(b, "schema", <<>>, FALSE)
  <2>1. "schema" \in Owned \ {"array"}
    BY DEF Owned
  <2> QED
    BY <2>1, SoundIs DEF Intact
<1>3. Vacant(b, "schema", <<>>)
  BY <1>1, <1>2, DownVacant
<1>4. Accounted(b, lost, idle, shp, rdy)
  BY DEF Sound
<1> HIDE DEF lost, idle
<1>5. /\ m \in Memories /\ m.heap = b.heap /\ m.ok = b.ok /\ m.broken = b.broken
      /\ \A p \in Paths : Node(m, "schema", p) = IF p \in sh THEN ImportedNode(sh, p) ELSE Released
      /\ \A x \in Trees \ {"schema"}, p \in Paths : Node(m, x, p) = Node(b, x, p)
  BY <1>1, <1>2, ImportedIs
<1> HIDE DEF m
<1>6. /\ B \subseteq Block
      /\ \A x \in Trees, q \in Paths, w \in What :
           <<x, q, w>> \in B <=> x = "schema" /\ OwnsBlock(m, "schema", <<>>, q, w)
  BY <1>1, <1>5, BlocksAre
<1> HIDE DEF B
<1>7. B \cap m.heap = {}
  <2> SUFFICES ASSUME NEW e \in B, e \in m.heap PROVE FALSE
    OBVIOUS
  <2>1. PICK x \in Trees, q \in Paths, w \in What : e = <<x, q, w>>
    BY <1>6 DEF Block
  <2>2. x = "schema" /\ OwnsBlock(m, "schema", <<>>, q, w)
    BY <1>6, <2>1
  <2>3. Inside("schema", <<>>, "schema", q, w) /\ Has(b, "schema", q, w)
    BY <1>5, <2>1, <2>2, OwnsInside DEF Has
  <2> QED
    BY <1>3, <2>3 DEF Vacant
<1>8. /\ r \in Memories /\ r.heap = m.heap \cup B /\ r.ok = m.ok /\ ~r.broken
      /\ \A x \in Trees, q \in Paths : Node(r, x, q) = Node(m, x, q)
  BY <1>2, <1>5, <1>6, <1>7, Taken
<1> HIDE DEF r
<1>9. Intact(r) /\ r.ok
  BY <1>2, <1>5, <1>8 DEF Intact
<1>10. \A p \in Paths : Node(r, "schema", p) = IF p \in sh THEN ImportedNode(sh, p) ELSE Released
  BY <1>1, <1>5, <1>8
<1>11. \A q \in Paths : /\ Owns(r, "schema", <<>>, q) <=> q \in sh
                        /\ Owns(m, "schema", <<>>, q) <=> q \in sh
  BY <1>1, <1>5, <1>10, ImportedOwns
<1>12. \A q \in Paths, w \in What : OwnsBlock(r, "schema", <<>>, q, w) <=> OwnsBlock(m, "schema", <<>>, q, w)
  BY <1>1, <1>5, <1>10, <1>11 DEF OwnsBlock, Holds
<1>13. \A x \in Trees, q \in Paths, w \in What :
         Has(r, x, q, w) <=> Has(b, x, q, w) \/ (x = "schema" /\ OwnsBlock(m, "schema", <<>>, q, w))
  BY <1>5, <1>6, <1>8 DEF Has
<1>14. Tidy(r, "schema", <<>>, lost)
  <2>1. Tidy(r, "schema", <<>>, FALSE)
    BY <1>1, <1>3, <1>12, <1>13 DEF Tidy, Vacant
  <2> QED
    BY <2>1, TidyLost
<1>15. Apart(b, r, "schema", <<>>)
  <2>1. \A q \in Paths, w \in What :
          OwnsBlock(m, "schema", <<>>, q, w) => Inside("schema", <<>>, "schema", q, w)
    BY OwnsInside
  <2> QED
    BY <1>1, <1>5, <1>8, <1>13, <2>1 DEF Apart
<1>16. Whole(r, "schema", <<>>, sh)
  <2>1. \A q \in sh : Node(r, "schema", q).up
    BY <1>1, <1>10 DEF ImportedNode
  <2> QED
    BY <1>11, <2>1 DEF Whole
<1>17. new \in [Owned -> MadeShapes] /\ new["schema"] = sh /\ \A x \in Owned \ {"schema"} : new[x] = shp[x]
  BY <1>1, <1>2, ShapeGiven
<1> HIDE DEF new
<1>18. /\ Node(r, "schema", <<>>).up /\ ("schema" = "schema" => TRUE) => Whole(r, "schema", <<>>, new["schema"])
       /\ "schema" # "schema" /\ TRUE => rdy
  BY <1>16, <1>17
<1>19. Accounted(r, lost, idle, new, TRUE)
  BY ONLY <1>1, <1>4, <1>9, <1>14, <1>15, <1>17, <1>18, OwnedMoved, Zenon
<1> QED
  BY ONLY <1>9, <1>19, Zenon DEF Sound, new, lost, idle, r, B, m

---------------------------------------------------------------------------
(* Every step preserves the invariant: one lemma above for each action.    *)
LEMMA TreeInvNext == TreeInv /\ [Next]_vars => TreeInv'
<1> SUFFICES ASSUME Sound(mem, failed, shape, ready), [Next]_vars
             PROVE  Sound(mem', failed', shape', ready')
  BY DEF TreeInv
<1>1. CASE SchemaInit
  <2>0. PICK type \in Types :
          \E r \in Then(InitFromType(mem, type), LAMBDA x : SetString(x, "schema", <<>>, "name")) :
            /\ mem' = [r EXCEPT !.ok = TRUE] /\ ready' = r.ok /\ failed' = Failing(r, "schema_init")
            /\ shape' = [shape EXCEPT !["schema"] = Initialised(type)]
    BY ONLY <1>1, Zenon DEF SchemaInit
  <2>1. PICK r \in Then(InitFromType(mem, type), LAMBDA x : SetString(x, "schema", <<>>, "name")) :
          /\ mem' = [r EXCEPT !.ok = TRUE] /\ ready' = r.ok /\ failed' = Failing(r, "schema_init")
          /\ shape' = [shape EXCEPT !["schema"] = Initialised(type)]
    BY ONLY <2>0, Zenon
  <2>2. ~Node(mem, "schema", <<>>).up
    BY <1>1, Zenon DEF SchemaInit, Up
  <2>3. Sound([r EXCEPT !.ok = TRUE], IF r.ok THEN failed ELSE failed \cup {"schema_init"},
              [shape EXCEPT !["schema"] = Initialised(type)], r.ok)
    BY <2>2, SchemaInitSound, Zenon
  <2> QED
    BY ONLY <2>1, <2>3, Zenon DEF Failing
<1>2. CASE SchemaImport
  <2>1. PICK sh \in Shapes :
          /\ mem' = Take(Imported(mem, sh), Blocks(Imported(mem, sh), "schema", <<>>))
          /\ shape' = [shape EXCEPT !["schema"] = sh]
    BY ONLY <1>2, Zenon DEF SchemaImport, Imported, ImportedNode
  <2>2. ~Node(mem, "schema", <<>>).up /\ ready' = TRUE /\ failed' = failed
    BY ONLY <1>2, Zenon DEF SchemaImport, Up
  <2>3. Sound(Take(Imported(mem, sh), Blocks(Imported(mem, sh), "schema", <<>>)), failed,
              [shape EXCEPT !["schema"] = sh], TRUE)
    BY <2>2, SchemaImportSound, Zenon
  <2> QED
    BY ONLY <2>1, <2>2, <2>3, Zenon
<1>3. CASE SchemaDeepCopy
  <2>1. PICK r \in MakeTree(mem, "copy", <<>>, shape["schema"]) :
          mem' = [r EXCEPT !.ok = TRUE] /\ failed' = Failing(r, "copy")
    BY ONLY <1>3, Zenon DEF SchemaDeepCopy
  <2>2. /\ ~Node(mem, "copy", <<>>).up /\ ready' = ready
        /\ shape' = [shape EXCEPT !["copy"] = shape["schema"]]
    BY ONLY <1>3, Zenon DEF SchemaDeepCopy, Up
  <2>3. Sound([r EXCEPT !.ok = TRUE], IF r.ok THEN failed ELSE failed \cup {"copy"},
              [shape EXCEPT !["copy"] = shape["schema"]], ready)
    BY <2>2, SchemaDeepCopySound, Zenon
  <2> QED
    BY ONLY <2>1, <2>2, <2>3, Zenon DEF Failing
<1>4. CASE ArrayInit
  <2>1. PICK r \in Then(MakeTree(mem, "init_view", <<>>, shape["schema"]),
                        LAMBDA v : Then(MakeTree(v, "array", <<>>, shape["schema"]),
                                        LAMBDA a : {Reset(a, "init_view", <<>>)})) :
          mem' = [r EXCEPT !.ok = TRUE] /\ failed' = Failing(r, "array_init")
    BY ONLY <1>4, Zenon DEF ArrayInit
  <2>2. /\ ~Node(mem, "array", <<>>).up /\ "array_init" \notin failed /\ ready' = ready
        /\ shape' = [shape EXCEPT !["array"] = shape["schema"]]
    BY ONLY <1>4, Zenon DEF ArrayInit, Up
  <2>3. Sound([r EXCEPT !.ok = TRUE], IF r.ok THEN failed ELSE failed \cup {"array_init"},
              [shape EXCEPT !["array"] = shape["schema"]], ready)
    BY <2>2, ArrayInitSound, Zenon
  <2> QED
    BY ONLY <2>1, <2>2, <2>3, Zenon DEF Failing
<1>5. CASE SetSchema
  <2>1. PICK r \in MakeTree([mem EXCEPT !.nodes["view"][<<>>] = Released], "view", <<>>, shape["schema"]) :
          /\ IF r.ok \/ Node(r, "view", <<>>).up
             THEN mem' = [Reset(r, "view", <<>>) EXCEPT !.ok = TRUE]
             ELSE mem' = [r EXCEPT !.ok = TRUE]
          /\ failed' = Failing(r, "set_schema")
    BY ONLY <1>5, Zenon DEF SetSchema
  <2>2. ready' = ready /\ shape' = shape
    BY ONLY <1>5, Zenon DEF SetSchema
  <2> DEFINE u == IF r.ok \/ Node(r, "view", <<>>).up THEN Reset(r, "view", <<>>) ELSE r
  <2>3. Sound([u EXCEPT !.ok = TRUE], IF r.ok THEN failed ELSE failed \cup {"set_schema"}, shape, ready)
    BY SetSchemaSound, Zenon
  <2>4. mem' = [u EXCEPT !.ok = TRUE]
    BY ONLY <2>1, Zenon
  <2> HIDE DEF u
  <2> QED
    BY ONLY <2>1, <2>2, <2>3, <2>4, Zenon DEF Failing
<1>6. CASE SetSchemaUnchecked
  <2>1. mem' = mem /\ failed' = failed /\ shape' = shape /\ ready' = ready
    BY ONLY <1>6, Zenon DEF SetSchemaUnchecked
  <2> QED
    BY ONLY <2>1, Sound(mem, failed, shape, ready), Zenon
<1>7. CASE ReleaseTree
  <2>1. PICK t \in {"schema", "copy", "array"} :
          mem' = Release(mem, t, <<>>) /\ ready' = (ready /\ t # "schema")
    BY ONLY <1>7, Zenon DEF ReleaseTree
  <2>2. failed' = failed /\ shape' = shape
    BY ONLY <1>7, Zenon DEF ReleaseTree
  <2> DEFINE rdy == ready /\ t # "schema"
  <2>3. t \in Owned /\ (t # "schema" /\ rdy => ready)
    BY DEF Owned
  <2> HIDE DEF rdy
  <2>4. Sound(Release(mem, t, <<>>), failed, shape, rdy)
    BY <2>3, ReleaseSound, Zenon
  <2> QED
    BY ONLY <2>1, <2>2, <2>4, Zenon DEF rdy
<1>8. CASE UNCHANGED vars
  <2>1. mem' = mem /\ failed' = failed /\ shape' = shape /\ ready' = ready
    BY ONLY <1>8, Zenon DEF vars
  <2> QED
    BY ONLY <2>1, Sound(mem, failed, shape, ready), Zenon
<1> QED
  BY <1>1, <1>2, <1>3, <1>4, <1>5, <1>6, <1>7, <1>8, Zenon DEF Next

LEMMA TreeInvAlways == Spec => []TreeInv
BY TreeInvInit, TreeInvNext, PTL DEF Spec

(* What the trees of the owners hold is what can be reached. *)
LEMMA ReachableIs ==
  ASSUME TreeInv
  PROVE  /\ Reachable \subseteq Block /\ mem.heap \subseteq Block
         /\ \A t \in Trees, q \in Paths, w \in What :
              <<t, q, w>> \in Reachable <=> t \in Owned /\ OwnsBlock(mem, t, <<>>, q, w)
<1>1. mem \in Memories /\ <<>> \in Paths /\ \A t \in {"schema", "copy", "array"} : t \in Trees
  BY SoundIs, Root DEF TreeInv, Intact, Trees
<1>2. \A t \in {"schema", "copy", "array"} :
        /\ Blocks(mem, t, <<>>) \subseteq Block
        /\ \A x \in Trees, q \in Paths, w \in What :
             <<x, q, w>> \in Blocks(mem, t, <<>>) <=> x = t /\ OwnsBlock(mem, t, <<>>, q, w)
  BY <1>1, BlocksAre
<1>3. mem.heap \subseteq Block
  BY <1>1, MemoryIs
<1> QED
  BY <1>2, <1>3 DEF Reachable, Owned

LEMMA HeapIs == TreeInv => NothingLost
<1> SUFFICES ASSUME TreeInv PROVE NothingLost
  OBVIOUS
<1> DEFINE lost == "array_init" \in failed
<1>1. /\ Reachable \subseteq Block /\ mem.heap \subseteq Block
      /\ \A t \in Trees, q \in Paths, w \in What :
           <<t, q, w>> \in Reachable <=> t \in Owned /\ OwnsBlock(mem, t, <<>>, q, w)
  BY ReachableIs
<1>2. /\ \A t \in Owned : t \in Trees /\ Tidy(mem, t, <<>>, lost)
      /\ Vacant(mem, "view", <<>>)
      /\ ~lost => Vacant(mem, "init_view", <<>>)
  BY SoundIs, Zenon DEF TreeInv
<1>3. /\ \A t \in Trees : ~Has(mem, t, <<>>, "struct")
      /\ \A q \in Paths : IsPrefix(<<>>, q)
  BY Root, PathsAre DEF TreeInv, Sound, Accounted, HeapIsOwned
<1> HIDE DEF lost
<1>4. ASSUME NEW e \in Reachable PROVE e \in mem.heap
  <2>1. PICK t \in Trees, q \in Paths, w \in What : e = <<t, q, w>>
    BY <1>1 DEF Block
  <2>2. t \in Owned /\ OwnsBlock(mem, t, <<>>, q, w)
    BY <1>1, <2>1
  <2>3. Has(mem, t, q, w)
    BY <1>2, <2>2 DEF Tidy
  <2> QED
    BY <2>1, <2>3 DEF Has
<1>5. ASSUME NEW e \in mem.heap \ Reachable PROVE lost /\ LostByInit(e)
  <2>1. PICK t \in Trees, q \in Paths, w \in What : e = <<t, q, w>>
    BY <1>1 DEF Block
  <2>2. Has(mem, t, q, w) /\ ~(t \in Owned /\ OwnsBlock(mem, t, <<>>, q, w))
    BY <1>1, <2>1 DEF Has
  <2>3. Inside(t, <<>>, t, q, w)
    BY <1>3, <2>2 DEF Inside
  <2>4. e[1] = t /\ e[3] = w
    BY <2>1
  <2>5. CASE t \in Owned
    <3>1. lost /\ t = "array" /\ w = "struct"
      BY <1>2, <2>2, <2>3, <2>5 DEF Tidy
    <3> QED
      BY <2>4, <3>1 DEF LostByInit
  <2>6. CASE t = "view"
    BY <1>2, <2>2, <2>3, <2>6 DEF Vacant
  <2>7. CASE t = "init_view"
    <3>1. lost
      BY <1>2, <2>2, <2>3, <2>7 DEF Vacant
    <3> QED
      BY <2>4, <2>7, <3>1 DEF LostByInit
  <2> QED
    BY <2>5, <2>6, <2>7 DEF Trees, Owned
<1> QED
  BY <1>4, <1>5 DEF NothingLost, lost

LEMMA WholesAre == TreeInv => TreesAreWhole
<1> SUFFICES ASSUME TreeInv, NEW t \in Owned, Node(mem, t, <<>>).up, t = "schema" => ready
             PROVE  {p \in Paths : Owns(mem, t, <<>>, p) /\ Node(mem, t, p).up} = shape[t]
  BY DEF TreesAreWhole, Owned, Up
<1>1. shape \in [Owned -> MadeShapes] /\ Whole(mem, t, <<>>, shape[t])
  BY DEF TreeInv, Sound, Accounted, AreMade
<1>2. shape[t] \subseteq Paths /\ \A q \in Paths : IsPrefix(<<>>, q)
  BY <1>1, ShapeIs, Root, PathsAre
<1> QED
  BY <1>1, <1>2 DEF Whole

(* No block is freed twice, and no pointer to one is overwritten while it  *)
(* is allocated: the cleanups after a failed ArrowMalloc in borrowed.cpp   *)
(* and nanoarrow.c, which release a tree whose inner nodes may have been   *)
(* released already, never hand ArrowFree what is not there.               *)
THEOREM TreesFreedOnce == Spec => []NothingFreedTwice
<1>1. TreeInv => NothingFreedTwice
  BY SoundIs DEF TreeInv, NothingFreedTwice, Intact
<1> QED
  BY <1>1, TreeInvAlways, PTL

(* What is allocated can be reached from a schema, a copy or an array that *)
(* its owner releases, but for what ArrowArrayInitFromSchema loses when it *)
(* fails: its view, and child structs of the array.                        *)
THEOREM TreesLoseNothing == Spec => []NothingLost
BY HeapIs, TreeInvAlways, PTL

(* A tree of which ArrowSchemaInitFromType, ArrowSchemaDeepCopy or         *)
(* ArrowArrayInitFromSchema says that it was made has the nodes of its     *)
(* schema, all initialised, and no others.                                 *)
THEOREM TreesMadeWhole == Spec => []TreesAreWhole
BY WholesAre, TreeInvAlways, PTL

=============================================================================
