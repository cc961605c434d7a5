--------------------------- MODULE Columns_proofs ---------------------------
(***************************************************************************)
(* Proofs about what says how a column is read, in two sections:           *)
(*                                                                         *)
(*   FactorLevels: for every set of strings, whatever the lengths of       *)
(*   arrays and columns, the map and the vector of levels agree, and the   *)
(*   codes are the ranks of the strings.                                   *)
(*                                                                         *)
(*   SchemaFormat: for every table of numerals, every stack depth, every   *)
(*   set of setter calls and of nodes from elsewhere:                      *)
(*     ViewsAreFresh            what ArrowSchemaViewInit says depends on   *)
(*                              the schema alone, never on what the view   *)
(*                              held;                                      *)
(*     AcceptedSchemasAreUsable an accepted schema has the children and    *)
(*                              the arguments its type needs, at every     *)
(*                              depth of dictionaries;                     *)
(*     SettersAreViewed         what a setter was asked for is what is     *)
(*                              read.                                      *)
(*   The first two are inductions on the depth of nested dictionaries (the *)
(*   functions node and below of ViewInit); the third reads back each      *)
(*   setter's format letter by letter, and rests on the invariant          *)
(*   SchemaInv: a setter called on a new schema leaves there what that     *)
(*   setter makes.                                                         *)
(***************************************************************************)
EXTENDS FactorLevels, SchemaFormat, SequenceLemmas, FiniteSetTheorems, TLAPS

---------------------------------------------------------------------------
(* FactorLevels                                                            *)

(* What makes LevelsAgree inductive: a vector that is one, which is empty  *)
(* until the second loop fills it.                                         *)
IsSeq(s) == Len(s) \in Nat /\ \E S : s \in Seq(S)
Shape ==
  /\ IsSeq(levels) /\ i \in Nat
  /\ pc \in {"array", "error", "read", "levels", "renumber", "encode"}
  /\ pc = "read" => levels = <<>> /\ level_map = <<>>
Settled == \A x \in 1..Len(levels) : level_map[levels[x]] = x - 1
Numbered(n) == \A x \in 1..Len(levels) : x <= n => level_map[levels[x]] = x - 1
OneEach(s)  == \A x, y \in 1..Len(s) : s[x] = s[y] => x = y
Elements(s) == {s[x] : x \in 1..Len(s)}
SameLevels ==
  /\ OneEach(levels)
  /\ level_map = [str \in Elements(levels) |-> level_map[str]]
Numbers ==
  /\ pc # "renumber" => Settled
  /\ pc = "renumber" => Numbered(i)

IInv == Shape /\ SameLevels /\ Numbers

---------------------------------------------------------------------------
(* Facts about sequences of whatever there is.                             *)

LEMMA Empty == IsSeq(<<>>) /\ Len(<<>>) = 0
<1>1. <<>> \in Seq({})
  OBVIOUS
<1> QED
  BY <1>1 DEF IsSeq

LEMMA Positions ==
  ASSUME NEW s, IsSeq(s)
  PROVE  DOMAIN s = 1..Len(s) /\ Len(s) \in Nat
BY DEF IsSeq

LEMMA OneMore ==
  ASSUME NEW s, IsSeq(s), NEW e
  PROVE  /\ IsSeq(Append(s, e)) /\ Len(Append(s, e)) = Len(s) + 1
         /\ \A x \in 1..Len(s) : Append(s, e)[x] = s[x]
         /\ Append(s, e)[Len(s) + 1] = e
<1>1. PICK S : s \in Seq(S)
  BY DEF IsSeq
<1>2. s \in Seq(S \cup {e}) /\ e \in S \cup {e}
  BY <1>1
<1>3. Append(s, e) \in Seq(S \cup {e}) /\ Len(Append(s, e)) = Len(s) + 1
  BY <1>2
<1>4. /\ \A x \in 1..Len(s) : Append(s, e)[x] = s[x]
      /\ Append(s, e)[Len(s) + 1] = e
  BY <1>2
<1>5. IsSeq(Append(s, e))
  BY <1>3, <1>2 DEF IsSeq
<1> QED
  BY <1>3, <1>4, <1>5

(* std::sort loses no level and makes none.                                *)
LEMMA SortedKeeps ==
  ASSUME NEW s, IsSeq(s), OneEach(s), NEW t, t \in Sorted(s)
  PROVE  IsSeq(t) /\ Len(t) = Len(s) /\ OneEach(t) /\ Elements(t) = Elements(s)
<1>1. DOMAIN s = 1..Len(s) /\ Len(s) \in Nat
  BY Positions
<1>2. PICK p \in Bijection(DOMAIN s, DOMAIN s) : t = [x \in DOMAIN s |-> s[p[x]]]
  BY DEF Sorted
<1>3. /\ \A x \in 1..Len(s) : p[x] \in 1..Len(s)
      /\ \A x, y \in 1..Len(s) : p[x] = p[y] => x = y
      /\ \A y \in 1..Len(s) : \E x \in 1..Len(s) : p[x] = y
  BY <1>1, <1>2 DEF Bijection, Injection, Surjection, IsInjective
<1>4. PICK S : s \in Seq(S)
  BY DEF IsSeq
<1>5. t \in Seq(S)
  BY <1>1, <1>2, <1>3, <1>4
<1>6. Len(t) = Len(s)
  BY <1>1, <1>2, <1>5
<1>7. \A x \in 1..Len(s) : t[x] = s[p[x]]
  BY <1>1, <1>2
<1>8. OneEach(t)
  <2> SUFFICES ASSUME NEW x \in 1..Len(s), NEW y \in 1..Len(s), t[x] = t[y] PROVE x = y
    BY <1>6 DEF OneEach
  <2>1. s[p[x]] = s[p[y]] /\ p[x] \in 1..Len(s) /\ p[y] \in 1..Len(s)
    BY <1>3, <1>7
  <2>2. p[x] = p[y]
    BY <2>1 DEF OneEach
  <2> QED
    BY <1>3, <2>2
<1>9. Elements(t) = Elements(s)
  <2>1. ASSUME NEW x \in 1..Len(s) PROVE t[x] \in Elements(s)
    BY <1>3, <1>7 DEF Elements
  <2>2. ASSUME NEW y \in 1..Len(s) PROVE s[y] \in Elements(t)
    <3>1. PICK x \in 1..Len(s) : p[x] = y
      BY <1>3
    <3>2. s[y] = t[x]
      BY <1>7, <3>1
    <3> QED
      BY <1>6, <3>2 DEF Elements
  <2> QED
    BY <1>6, <2>1, <2>2 DEF Elements
<1>10. IsSeq(t)
  BY <1>1, <1>5, <1>6 DEF IsSeq
<1> QED
  BY <1>6, <1>8, <1>9, <1>10

---------------------------------------------------------------------------
LEMMA InitIInv == Init => IInv
BY Empty DEF Init, IInv, Shape, SameLevels, OneEach, Elements, Numbers, Settled

(* A string that is new becomes the last level, one the map holds changes  *)
(* nothing.                                                                *)
LEMMA Adding == IInv /\ AddLevel => IInv'
<1> SUFFICES ASSUME IInv, AddLevel PROVE IInv'
  OBVIOUS
<1> DEFINE str == strings[i + 1]
<1>1. pc = "levels" /\ pc' = "levels" /\ i' = i + 1 /\ i \in Nat /\ IsSeq(levels) /\ Settled
  BY DEF AddLevel, IInv, Shape, Numbers
<1>2. Len(levels) \in Nat
  BY <1>1, Positions
<1>3. CASE Known(str)
  <2>1. UNCHANGED <<level_map, levels>>
    BY <1>3 DEF AddLevel
  <2> QED
    BY <1>1, <2>1 DEF IInv, Shape, SameLevels, OneEach, Elements, Numbers, Settled, IsSeq
<1>4. CASE ~Known(str)
  <2>1. level_map' = [l \in DOMAIN level_map \cup {str} |-> IF l = str THEN Len(levels) ELSE level_map[l]]
          /\ levels' = Append(levels, str)
    BY <1>4 DEF AddLevel
  <2> HIDE DEF str
  <2>2. /\ IsSeq(levels') /\ Len(levels') = Len(levels) + 1
        /\ \A x \in 1..Len(levels) : levels'[x] = levels[x]
        /\ levels'[Len(levels) + 1] = str
    BY <1>1, <2>1, OneMore
  <2>3. \A x \in 1..Len(levels) : levels[x] # str /\ levels[x] \in DOMAIN level_map
    BY <1>4 DEF Known, IInv, SameLevels, OneEach, Elements
  <2>4. DOMAIN level_map = {levels[x] : x \in 1..Len(levels)}
    BY DEF IInv, SameLevels, OneEach, Elements
  <2>5. level_map' = [e \in DOMAIN level_map \cup {str} |->
                        IF e \in DOMAIN level_map THEN level_map[e] ELSE Len(levels)]
    BY <1>4, <2>1 DEF Known, str
  <2>6. \A x, y \in 1..Len(levels') : levels'[x] = levels'[y] => x = y
    BY <1>2, <2>2, <2>3 DEF IInv, SameLevels, OneEach, Elements
  <2>7. {levels'[x] : x \in 1..Len(levels')} = DOMAIN level_map \cup {str}
    BY <1>2, <2>2, <2>4
  <2>8. \A x \in 1..Len(levels') : level_map'[levels'[x]] = x - 1
    <3>1. ASSUME NEW x \in 1..Len(levels)
          PROVE  level_map'[levels'[x]] = x - 1
      BY <1>1, <2>2, <2>3, <2>5 DEF Settled
    <3>2. level_map'[levels'[Len(levels) + 1]] = Len(levels)
      BY <1>4, <2>2, <2>5 DEF Known
    <3> QED
      BY <1>2, <2>2, <3>1, <3>2
  <2>9. SameLevels'
    BY <2>5, <2>6, <2>7 DEF SameLevels, OneEach, Elements
  <2> QED
    BY <1>1, <2>2, <2>8, <2>9 DEF IInv, Shape, Numbers, Settled
<1> QED
  BY <1>3, <1>4

LEMMA Sorting == IInv /\ SortLevels => IInv'
<1> SUFFICES ASSUME IInv, SortLevels PROVE IInv'
  OBVIOUS
<1>1. levels' \in Sorted(levels) /\ level_map' = level_map /\ pc' = "renumber" /\ i' = 0
  BY DEF SortLevels
<1>2. IsSeq(levels') /\ OneEach(levels)' /\ Elements(levels)' = Elements(levels)
  <2>1. IsSeq(levels) /\ OneEach(levels)
    BY DEF IInv, Shape, SameLevels
  <2> QED
    BY <1>1, <2>1, SortedKeeps
<1>3. SameLevels'
  BY <1>1, <1>2 DEF IInv, SameLevels
<1>4. Numbers'
  BY <1>1 DEF Numbers, Numbered
<1> QED
  BY <1>1, <1>2, <1>3, <1>4 DEF IInv, Shape

(* The next level gets its number, which is no other level's place.        *)
LEMMA Renumbering == IInv /\ Renumber => IInv'
<1> SUFFICES ASSUME IInv, Renumber PROVE IInv'
  OBVIOUS
<1>1. /\ pc = "renumber" /\ i \in Nat /\ i < Len(levels) /\ IsSeq(levels) /\ Len(levels) \in Nat
      /\ level_map' = [level_map EXCEPT ![levels[i + 1]] = i]
      /\ i' = i + 1 /\ UNCHANGED <<levels, pc>>
  BY Positions DEF Renumber, IInv, Shape
<1>2. DOMAIN level_map = {levels[x] : x \in 1..Len(levels)}
  BY DEF IInv, SameLevels, OneEach, Elements
<1>3. \A x \in 1..Len(levels) :
        level_map'[levels[x]] = IF x = i + 1 THEN i ELSE level_map[levels[x]]
  BY <1>1, <1>2 DEF IInv, SameLevels, OneEach, Elements
<1>4. Numbered(i)
  BY <1>1 DEF IInv, Numbers
<1>5. \A x \in 1..Len(levels') : x <= i' => level_map'[levels'[x]] = x - 1
  BY <1>1, <1>3, <1>4 DEF Numbered
<1>6. SameLevels'
  <2>1. level_map = [str \in {levels[x] : x \in 1..Len(levels)} |-> level_map[str]]
    BY DEF IInv, SameLevels, OneEach, Elements
  <2>2. level_map' = [str \in {levels[x] : x \in 1..Len(levels)} |-> level_map'[str]]
    BY <1>1, <2>1
  <2> QED
    BY <1>1, <2>2 DEF IInv, SameLevels, OneEach, Elements
<1> QED
  BY <1>1, <1>5, <1>6 DEF IInv, Shape, Numbers, Numbered

LEMMA NextIInv == IInv /\ [Next]_vars => IInv'
<1> SUFFICES ASSUME IInv, [Next]_vars PROVE IInv'
  OBVIOUS
<1> USE DEF IInv, Shape, SameLevels, OneEach, Elements, Numbers, Settled
<1>1. CASE SetArray
  BY <1>1, Empty DEF SetArray
<1>2. CASE ReadString
  BY <1>2 DEF ReadString
<1>3. CASE ReadAll
  BY <1>3 DEF ReadAll
<1>4. CASE AllocateFactors
  BY <1>4 DEF AllocateFactors, Numbered
<1>5. CASE Encode
  BY <1>5 DEF Encode
<1>6. CASE Deliver
  BY <1>6 DEF Deliver
<1>7. CASE UNCHANGED vars
  BY <1>7 DEF vars, Numbered
<1> QED
  BY <1>1, <1>2, <1>3, <1>4, <1>5, <1>6, <1>7, Adding, Sorting, Renumbering DEF Next

(* The map finds each level where the vector has it, and no two strings of *)
(* an array share a code: for every set of strings, in whatever order the  *)
(* array has them, at both offset widths.                                  *)
THEOREM MapAndVectorAgree == Spec => []LevelsAgree
<1>1. IInv => LevelsAgree
  <2> SUFFICES ASSUME IInv PROVE LevelsAgree
    OBVIOUS
  <2>1. DOMAIN levels = 1..Len(levels)
    BY Positions DEF IInv, Shape
  <2>2. IsInjective(levels)
    BY <2>1 DEF IInv, SameLevels, OneEach, Elements, IsInjective
  <2>3. DOMAIN level_map = ToSet(levels)
    BY <2>1 DEF IInv, SameLevels, OneEach, Elements, ToSet
  <2>4. \A x \in DOMAIN levels :
          pc \in {"levels", "encode"} \/ x <= i => level_map[levels[x]] = x - 1
    BY <2>1 DEF IInv, Numbers, Settled, Numbered
  <2> QED
    BY <2>2, <2>3, <2>4 DEF LevelsAgree
<1> QED
  BY <1>1, InitIInv, NextIInv, PTL DEF Spec

---------------------------------------------------------------------------
(* The order of strings.                                                   *)

LEMMA NotItself ==
  ASSUME NEW s \in Seq(Nat) PROVE ~Precedes(s, s)
BY DEF Precedes

(* Of two strings one precedes the other: at the first place where they    *)
(* differ, or because one is the beginning of the other.                   *)
LEMMA EitherPrecedes ==
  ASSUME NEW s \in Seq(Nat), NEW t \in Seq(Nat), s # t
  PROVE  Precedes(s, t) \/ Precedes(t, s)
<1> DEFINE Differ == {k \in 1..Len(s) \cap 1..Len(t) : s[k] # t[k]}
<1>1. /\ Len(s) \in Nat /\ Len(t) \in Nat
      /\ s = [x \in 1..Len(s) |-> s[x]] /\ t = [x \in 1..Len(t) |-> t[x]]
  OBVIOUS
<1>2. CASE Differ = {}
  <2>1. \A x \in 1..Len(s) \cap 1..Len(t) : s[x] = t[x]
    BY <1>2
  <2>2. CASE Len(s) = Len(t)
    BY <1>1, <2>1, <2>2
  <2>3. CASE Len(s) < Len(t)
    <3>1. SubSeq(t, 1, Len(s)) = [x \in 1..Len(s) |-> t[x]]
      BY <1>1, <2>3
    <3>2. \A x \in 1..Len(s) : s[x] = t[x]
      BY <1>1, <2>1, <2>3
    <3> QED
      BY <1>1, <2>3, <3>1, <3>2 DEF Precedes
  <2>4. CASE Len(t) < Len(s)
    <3>1. SubSeq(s, 1, Len(t)) = [x \in 1..Len(t) |-> s[x]]
      BY <1>1, <2>4
    <3>2. \A x \in 1..Len(t) : s[x] = t[x]
      BY <1>1, <2>1, <2>4
    <3> QED
      BY <1>1, <2>4, <3>1, <3>2 DEF Precedes
  <2>5. Len(s) = Len(t) \/ Len(s) < Len(t) \/ Len(t) < Len(s)
    OBVIOUS
  <2> QED
    BY <2>2, <2>3, <2>4, <2>5, Zenon
<1>3. CASE Differ # {}
  <2>1. PICK k \in Differ : \A l \in Differ : k <= l
    <3>1. Differ \subseteq Nat
      BY <1>1
    <3> HIDE DEF Differ
    <3> QED
      BY <1>3, <3>1, Least, Zenon
  <2>2. k \in 1..Len(s) /\ k \in 1..Len(t) /\ s[k] # t[k] /\ s[k] \in Nat /\ t[k] \in Nat
    BY <1>1
  <2>3. \A x \in 1..(k - 1) : s[x] = t[x]
    <3> SUFFICES ASSUME NEW x \in 1..(k - 1), s[x] # t[x] PROVE FALSE
      OBVIOUS
    <3>1. x \in 1..Len(s) /\ x \in 1..Len(t) /\ ~(k <= x)
      BY <1>1, <2>2
    <3> QED
      BY <2>1, <3>1
  <2>4. /\ SubSeq(s, 1, k - 1) = [x \in 1..(k - 1) |-> s[x]]
        /\ SubSeq(t, 1, k - 1) = [x \in 1..(k - 1) |-> t[x]]
    BY <1>1, <2>2
  <2>5. SubSeq(s, 1, k - 1) = SubSeq(t, 1, k - 1)
    BY <2>3, <2>4
  <2>6. s[k] < t[k] \/ t[k] < s[k]
    BY <2>2
  <2> QED
    BY <2>2, <2>5, <2>6 DEF Precedes
<1> QED
  BY <1>2, <1>3

(* In order and each once, strings have their rank as their place.         *)
Ascending(s) == \A x, y \in 1..Len(s) : x < y => ~Precedes(s[y], s[x])

LEMMA RankIsPlace ==
  ASSUME NEW s \in Seq(Seq(Nat)), OneEach(s), Ascending(s), NEW x \in 1..Len(s)
  PROVE  Rank(s[x], Elements(s)) = x
<1> DEFINE n == Len(s)
           before == {e \in Elements(s) : Precedes(e, s[x])}
           f == [y \in 1..(x - 1) |-> s[y]]
<1>1. n \in Nat /\ x \in 1..n /\ x - 1 \in Nat /\ \A y \in 1..n : s[y] \in Seq(Nat)
  BY Items
<1>2. \A y \in 1..n : Precedes(s[y], s[x]) <=> y < x
  <2> SUFFICES ASSUME NEW y \in 1..n PROVE Precedes(s[y], s[x]) <=> y < x
    OBVIOUS
  <2>1. CASE y = x
    BY <1>1, <2>1, NotItself
  <2>2. CASE y > x
    BY <2>2 DEF Ascending
  <2>3. CASE y < x
    <3>1. s[y] # s[x]
      BY <1>1, <2>3 DEF OneEach
    <3>2. ~Precedes(s[x], s[y])
      BY <2>3 DEF Ascending
    <3> QED
      BY <1>1, <2>3, <3>1, <3>2, EitherPrecedes, Zenon
  <2> QED
    BY <1>1, <2>1, <2>2, <2>3
<1>3. before = {s[y] : y \in 1..(x - 1)}
  <2>1. before = {s[y] : y \in {z \in 1..n : Precedes(s[z], s[x])}}
    BY DEF Elements
  <2>2. {z \in 1..n : Precedes(s[z], s[x])} = 1..(x - 1)
    <3>1. {z \in 1..n : Precedes(s[z], s[x])} = {z \in 1..n : z < x}
      BY <1>2
    <3>2. {z \in 1..n : z < x} = 1..(x - 1)
      <4> HIDE DEF n
      <4> QED
        BY <1>1
    <3> QED
      BY <3>1, <3>2, Zenon
  <2> QED
    BY <2>1, <2>2, Zenon
<1>4. f \in Bijection(1..(x - 1), before)
  <2>1. \A y \in 1..(x - 1) : y \in 1..n /\ f[y] = s[y]
    BY <1>1
  <2>2. f \in [1..(x - 1) -> before]
    BY <1>3
  <2>3. \A y, z \in 1..(x - 1) : f[y] = f[z] => y = z
    BY <2>1 DEF OneEach
  <2>4. \A e \in before : \E y \in 1..(x - 1) : f[y] = e
    BY <1>3
  <2> HIDE DEF f, before
  <2> QED
    BY <2>2, <2>3, <2>4 DEF Bijection, Injection, Surjection, IsInjective
<1>5. Cardinality(before) = x - 1
  <2> HIDE DEF f, before
  <2>1. ExistsBijection(1..(x - 1), before)
    BY <1>4 DEF ExistsBijection
  <2> QED
    BY <1>1, <2>1, FS_CountingElements, Zenon
<1>6. Rank(s[x], Elements(s)) = 1 + Cardinality(before)
  BY DEF Rank
<1> QED
  BY <1>1, <1>5, <1>6

---------------------------------------------------------------------------
(* The codes of a column whose format is the one the view assumes: the     *)
(* strings are read as the array shows them, the levels are the distinct   *)
(* ones, and each code is the place of a sorted level.                     *)

Shown   == Strings(Array)
Upto(n) == {strings[x] : x \in 1..n}
Coded(a) ==
  [r \in DOMAIN Strings(a) |-> Rank(Strings(a)[r], ToSet(Strings(a)))]

OfColumn ==
  /\ Len(chunks) \in Nat /\ \A k \in 1..Len(chunks) : chunks[k] \in Arrays
  /\ c \in 0..Len(chunks)
  /\ pc \notin {"array", "error"} => c < Len(chunks)
Reading ==
  /\ pc = "read" => i <= Array.length /\ strings = [x \in 1..i |-> Shown[x]]
  /\ pc \in {"levels", "renumber", "encode"} => strings = Shown
Levelling ==
  /\ pc = "levels" => i <= Len(strings) /\ Elements(levels) = Upto(i)
  /\ pc \in {"renumber", "encode"} =>
       Elements(levels) = Upto(Len(strings)) /\ Ascending(levels)
Encoding ==
  pc = "encode" =>
    /\ i <= Len(strings)
    /\ factors \in [1..Len(strings) -> Nat]
    /\ \A r \in 1..i : factors[r] = Rank(strings[r], Elements(strings))
Delivered ==
  /\ IsSeq(column) /\ Len(column) = c
  /\ \A k \in 1..c : column[k] = Coded(chunks[k])

CodesInv == OfColumn /\ Reading /\ Levelling /\ Encoding /\ Delivered

LEMMA ArrayTypes ==
  ASSUME NEW a \in Arrays
  PROVE  /\ a.data \in Seq(Seq(Nat)) /\ a.offset \in Nat /\ a.length \in Nat
         /\ Len(a.data) \in Nat /\ a.offset + a.length <= Len(a.data)
         /\ Strings(a) \in Seq(Seq(Nat)) /\ Len(Strings(a)) = a.length
         /\ \A x \in 1..a.length : Strings(a)[x] = a.data[a.offset + x]
<1> DEFINE SS == Seq(Nat)
           d == a.data
           o == a.offset
           n == a.length
<1>1. PICK l \in 0..MaxLen : /\ a \in [data : [1..l -> Texts], offset : 0..l, length : 0..l]
                            /\ o + n <= Len(d)
  BY DEF Arrays
<1>2. l \in Nat /\ d \in [1..l -> Texts] /\ o \in 0..l /\ n \in 0..l
  BY <1>1, BoundsAssumption
<1>3. d \in [1..l -> SS]
  BY <1>2, TextsAssumption
<1>s. Strings(a) = SubSeq(d, o + 1, o + n)
  BY DEF Strings
<1> HIDE DEF SS, d, o, n
<1>4. d \in Seq(SS) /\ Len(d) = l
  BY <1>2, <1>3
<1>5. o \in Nat /\ n \in Nat /\ o + n <= l
  BY <1>1, <1>2, <1>4
<1>6. SubSeq(d, o + 1, o + n) = [x \in 1..n |-> d[o + x]]
  BY <1>2, <1>4, <1>5
<1>7. ASSUME NEW x \in 1..n PROVE d[o + x] \in SS
  <2>1. o + x \in 1..l
    BY <1>2, <1>5
  <2> QED
    BY <1>3, <2>1
<1>8. Strings(a) \in Seq(SS) /\ Len(Strings(a)) = n /\ \A x \in 1..n : Strings(a)[x] = d[o + x]
  BY <1>5, <1>6, <1>7, <1>s
<1> QED
  BY <1>1, <1>2, <1>4, <1>5, <1>8 DEF SS, d, o, n

(* The view finds the strings of the slice, none of negative size.         *)
LEMMA ReadsShown ==
  ASSUME format = "u", Array \in Arrays, NEW k \in Nat, k < Array.length
  PROVE  Size(k) \in Nat /\ Item(k) = Shown[k + 1]
<1> DEFINE d == Array.data
           o == Array.offset
           n == Array.length
           q == o + k + 1
<1>1. /\ d \in Seq(Seq(Nat)) /\ o \in Nat /\ n \in Nat /\ Len(d) \in Nat /\ o + n <= Len(d)
      /\ \A x \in 1..n : Shown[x] = d[o + x]
  BY ArrayTypes, Zenon DEF Shown
<1>2. Begin(k) = Ahead(d, o + k) /\ Size(k) = Ahead(d, q) - Ahead(d, o + k)
  BY DEF Begin, Size, Word, Offset, Ahead
<1>3. Item(k) = SubSeq(FlattenSeq(d), Begin(k) + 1, Begin(k) + Size(k))
  BY DEF Item, DataBuffer
<1>n. k < n
  OBVIOUS
<1> HIDE DEF d, o, n
<1>4. q \in 1..Len(d) /\ q - 1 = o + k /\ k + 1 \in 1..n /\ o + (k + 1) = q
  BY <1>1, <1>n
<1> HIDE DEF q
<1>5. /\ Ahead(d, q - 1) \in Nat
      /\ Ahead(d, q) = Ahead(d, q - 1) + Len(d[q])
      /\ SubSeq(FlattenSeq(d), Ahead(d, q - 1) + 1, Ahead(d, q)) = d[q]
  BY <1>1, <1>4, Cutting, Zenon
<1>6. d[q] \in Seq(Nat)
  BY <1>1, <1>4, Items, Zenon
<1>7. Len(d[q]) \in Nat
  BY <1>6, Items, Zenon
<1>8. Size(k) = Len(d[q]) /\ Begin(k) + Size(k) = Ahead(d, q)
  BY <1>2, <1>4, <1>5, <1>7
<1>9. Item(k) = d[q]
  BY <1>2, <1>3, <1>4, <1>5, <1>8
<1> QED
  BY <1>1, <1>4, <1>7, <1>8, <1>9

LEMMA InitCodes == Init => CodesInv
<1> SUFFICES ASSUME Init PROVE CodesInv
  OBVIOUS
<1>1. PICK l \in 0..MaxChunks : chunks \in [1..l -> Arrays]
  BY DEF Init
<1>2. l \in Nat
  BY <1>1, BoundsAssumption
<1>3. Len(chunks) = l
  BY <1>1, <1>2
<1>4. OfColumn
  BY <1>1, <1>2, <1>3 DEF Init, OfColumn
<1> QED
  BY <1>4, Empty DEF Init, CodesInv, Reading, Levelling, Encoding, Delivered

(* Within an array, what was delivered and what is shown stay. *)
LEMMA SameArray ==
  ASSUME CodesInv, UNCHANGED <<chunks, c, column>>,
         pc' \notin {"array", "error"} => c < Len(chunks)
  PROVE  OfColumn' /\ Delivered' /\ Array' = Array /\ Shown' = Shown
<1>1. OfColumn'
  BY DEF CodesInv, OfColumn
<1>2. Delivered'
  BY DEF CodesInv, Delivered
<1> QED
  BY <1>1, <1>2 DEF Shown, Array

LEMMA InArray ==
  ASSUME CodesInv, c < Len(chunks)
  PROVE  /\ Array \in Arrays /\ Shown \in Seq(Seq(Nat)) /\ Len(Shown) = Array.length
         /\ Array.length \in Nat /\ \A x \in 1..Array.length : Shown[x] \in Seq(Nat)
<1>1. c + 1 \in 1..Len(chunks)
  BY DEF CodesInv, OfColumn
<1>2. Array \in Arrays
  BY <1>1 DEF CodesInv, OfColumn, Array
<1>3. Shown \in Seq(Seq(Nat)) /\ Len(Shown) = Array.length
  BY <1>2, ArrayTypes, Zenon DEF Shown
<1>4. Array.length \in Nat /\ \A x \in 1..Array.length : Shown[x] \in Seq(Nat)
  BY <1>3, Items, Zenon
<1> QED
  BY <1>2, <1>3, <1>4

LEMMA CodesRead == IInv /\ CodesInv /\ format = "u" /\ ReadString => CodesInv'
<1> SUFFICES ASSUME IInv, CodesInv, format = "u", ReadString PROVE CodesInv'
  OBVIOUS
<1>1. /\ pc = "read" /\ i < Array.length /\ i \in Nat /\ c < Len(chunks)
      /\ strings = [x \in 1..i |-> Shown[x]]
  BY DEF ReadString, IInv, Shape, CodesInv, Reading, OfColumn
<1>2. Array.length \in Nat /\ \A x \in 1..Array.length : Shown[x] \in Seq(Nat)
  BY <1>1, InArray
<1>3. Size(i) \in Nat /\ Item(i) = Shown[i + 1]
  BY <1>1, InArray, ReadsShown
<1>4. strings' = Append(strings, Shown[i + 1]) /\ i' = i + 1 /\ pc' = pc
  BY <1>3 DEF ReadString
<1>5. OfColumn' /\ Delivered' /\ Array' = Array /\ Shown' = Shown
  BY <1>1, <1>4, SameArray DEF ReadString, input
<1>6. strings' = [x \in 1..(i + 1) |-> Shown[x]] /\ i + 1 <= Array.length
  <2> DEFINE n == Array.length
             g == Shown
             SS == Seq(Nat)
  <2>1. n \in Nat /\ i < n /\ i \in Nat /\ \A x \in 1..n : g[x] \in SS
    BY <1>1, <1>2
  <2> HIDE DEF n, g, SS
  <2>2. [x \in 1..i |-> g[x]] \in Seq(SS) /\ i + 1 <= n
    BY <2>1
  <2>3. Append([x \in 1..i |-> g[x]], g[i + 1]) = [x \in 1..(i + 1) |-> g[x]]
    BY <2>1, <2>2
  <2> QED
    BY <1>1, <1>4, <2>2, <2>3 DEF n, g
<1>7. Reading'
  BY <1>1, <1>4, <1>5, <1>6 DEF Reading
<1> QED
  BY <1>1, <1>4, <1>5, <1>7 DEF CodesInv, Levelling, Encoding

LEMMA CodesReadAll == IInv /\ CodesInv /\ ReadAll => CodesInv'
<1> SUFFICES ASSUME IInv, CodesInv, ReadAll PROVE CodesInv'
  OBVIOUS
<1>1. /\ pc = "read" /\ i = Array.length /\ c < Len(chunks) /\ levels = <<>>
      /\ strings = [x \in 1..i |-> Shown[x]] /\ pc' = "levels" /\ i' = 0
      /\ strings' = strings /\ levels' = levels
  BY DEF ReadAll, IInv, Shape, CodesInv, Reading, OfColumn
<1>2. OfColumn' /\ Delivered' /\ Shown' = Shown
  BY <1>1, SameArray DEF ReadAll, input
<1>3. Shown \in Seq(Seq(Nat)) /\ Len(Shown) = i /\ i \in Nat
  BY <1>1, InArray
<1>4. strings = Shown
  BY <1>1, <1>3
<1>5. Elements(levels)' = {} /\ Upto(i)' = {}
  BY <1>1, Empty DEF Elements, Upto
<1>6. Reading' /\ Encoding'
  BY <1>1, <1>2, <1>4 DEF Reading, Encoding
<1>7. Levelling'
  <2>1. pc' = "levels" /\ i' = 0 /\ strings' = strings
    BY <1>1
  <2>2. Len(strings) \in Nat
    BY <1>3, <1>4
  <2> QED
    BY <1>5, <2>1, <2>2 DEF Levelling
<1> QED
  BY <1>2, <1>6, <1>7 DEF CodesInv

LEMMA CodesAdd == IInv /\ CodesInv /\ AddLevel => CodesInv'
<1> SUFFICES ASSUME IInv, CodesInv, AddLevel PROVE CodesInv'
  OBVIOUS
<1> DEFINE str == strings[i + 1]
<1>1. /\ pc = "levels" /\ pc' = pc /\ i < Len(strings) /\ i' = i + 1 /\ i \in Nat /\ c < Len(chunks)
      /\ strings = Shown /\ strings' = strings /\ Elements(levels) = Upto(i) /\ IsSeq(levels)
      /\ UNCHANGED <<chunks, c, column>>
  BY DEF AddLevel, IInv, Shape, CodesInv, Reading, Levelling, OfColumn, input
<1>2. OfColumn' /\ Delivered' /\ Shown' = Shown
  BY <1>1, SameArray
<1>3. Len(strings) \in Nat
  BY <1>1, InArray
<1>4. Upto(i + 1) = Upto(i) \cup {str}
  BY <1>1 DEF Upto
<1>5. Elements(levels') = Elements(levels) \cup {str}
  <2>1. CASE Known(str)
    <3>1. levels' = levels /\ str \in Elements(levels)
      BY <2>1 DEF AddLevel, Known, IInv, SameLevels
    <3> QED
      BY <3>1
  <2>2. CASE ~Known(str)
    <3>1. levels' = Append(levels, str)
      BY <2>2 DEF AddLevel
    <3> HIDE DEF str
    <3>2. /\ Len(levels') = Len(levels) + 1 /\ Len(levels) \in Nat
          /\ \A x \in 1..Len(levels) : levels'[x] = levels[x]
          /\ levels'[Len(levels) + 1] = str
      BY <1>1, <3>1, OneMore, Positions
    <3> QED
      BY <3>2 DEF Elements
  <2> QED
    BY <2>1, <2>2
<1>6. Elements(levels)' = Upto(i + 1) /\ Upto(i + 1) = Upto(i)'
  <2>1. Elements(levels)' = Elements(levels')
    BY DEF Elements
  <2> QED
    BY <1>1, <1>4, <1>5, <2>1 DEF Upto
<1>7. Reading' /\ Encoding'
  BY <1>1, <1>2 DEF Reading, Encoding
<1>8. Levelling'
  BY <1>1, <1>3, <1>6 DEF Levelling
<1> QED
  BY <1>2, <1>7, <1>8 DEF CodesInv

LEMMA CodesSort == IInv /\ CodesInv /\ SortLevels => CodesInv'
<1> SUFFICES ASSUME IInv, CodesInv, SortLevels PROVE CodesInv'
  OBVIOUS
<1>1. /\ pc = "levels" /\ pc' = "renumber" /\ i = Len(strings) /\ c < Len(chunks)
      /\ strings = Shown /\ strings' = strings /\ Elements(levels) = Upto(Len(strings))
      /\ IsSeq(levels) /\ OneEach(levels) /\ levels' \in Sorted(levels)
      /\ UNCHANGED <<chunks, c, column>>
  BY DEF SortLevels, IInv, Shape, SameLevels, CodesInv, Reading, Levelling, OfColumn, input
<1>2. OfColumn' /\ Delivered' /\ Shown' = Shown
  BY <1>1, SameArray
<1>3. Len(levels') = Len(levels) /\ Elements(levels') = Elements(levels)
  BY <1>1, SortedKeeps
<1>4. Ascending(levels')
  <2>1. DOMAIN levels = 1..Len(levels)
    BY <1>1, Positions
  <2> QED
    BY <1>1, <1>3, <2>1 DEF Sorted, Ascending
<1>5. Elements(levels)' = Upto(Len(strings))' /\ Ascending(levels)'
  BY <1>1, <1>3, <1>4 DEF Elements, Upto, Ascending, Precedes
<1> QED
  BY <1>1, <1>2, <1>5 DEF CodesInv, Reading, Levelling, Encoding

LEMMA CodesAllocate == IInv /\ CodesInv /\ AllocateFactors => CodesInv'
<1> SUFFICES ASSUME IInv, CodesInv, AllocateFactors PROVE CodesInv'
  OBVIOUS
<1>1. /\ pc = "renumber" /\ pc' = "encode" /\ i' = 0 /\ c < Len(chunks) /\ strings = Shown
      /\ Elements(levels) = Upto(Len(strings)) /\ Ascending(levels)
      /\ UNCHANGED <<chunks, c, column, strings, levels>>
  BY DEF AllocateFactors, CodesInv, Reading, Levelling, OfColumn, input
<1>2. OfColumn' /\ Delivered' /\ Shown' = Shown
  BY <1>1, SameArray
<1>3. Len(strings) \in Nat
  BY <1>1, InArray
<1>4. Reading' /\ Levelling'
  <2>1. Elements(levels)' = Elements(levels) /\ Upto(Len(strings))' = Upto(Len(strings))
        /\ Ascending(levels)'
    BY <1>1 DEF Elements, Upto, Ascending
  <2> QED
    BY <1>1, <1>2, <2>1 DEF Reading, Levelling
<1>5. Encoding'
  <2>1. factors' = [r \in 1..Len(strings) |-> 0]
    BY DEF AllocateFactors
  <2>2. factors' \in [1..Len(strings) -> Nat]
    BY <2>1
  <2>3. i' = 0 /\ strings' = strings
    BY <1>1
  <2> QED
    BY <1>3, <2>2, <2>3 DEF Encoding
<1> QED
  BY <1>2, <1>4, <1>5 DEF CodesInv

(* The code of a string is the place of its level. *)
LEMMA CodesEncode == IInv /\ CodesInv /\ Encode => CodesInv'
<1> SUFFICES ASSUME IInv, CodesInv, Encode PROVE CodesInv'
  OBVIOUS
<1> DEFINE str == strings[i + 1]
<1>1. /\ pc = "encode" /\ pc' = pc /\ i < Len(strings) /\ i \in Nat /\ i' = i + 1
      /\ c < Len(chunks) /\ strings = Shown
      /\ Elements(levels) = Upto(Len(strings)) /\ Ascending(levels)
      /\ UNCHANGED <<chunks, c, column, strings, levels>>
      /\ IsSeq(levels) /\ OneEach(levels) /\ Settled
      /\ factors \in [1..Len(strings) -> Nat]
      /\ \A r \in 1..i : factors[r] = Rank(strings[r], Elements(strings))
      /\ factors' = [factors EXCEPT ![i + 1] = Code(str)]
  BY DEF Encode, IInv, Shape, SameLevels, Numbers, CodesInv, Reading, Levelling, Encoding, OfColumn, input
<1>2. OfColumn' /\ Delivered' /\ Shown' = Shown
  BY <1>1, SameArray
<1>3. strings \in Seq(Seq(Nat))
  BY <1>1, InArray
<1>4. Len(strings) \in Nat /\ \A x \in 1..Len(strings) : strings[x] \in Seq(Nat)
  BY <1>3, Items, Zenon
<1>5. Elements(strings) = Elements(levels)
  BY <1>1 DEF Elements, Upto
<1>6. levels \in Seq(Seq(Nat))
  <2>1. PICK S : levels \in Seq(S)
    BY <1>1 DEF IsSeq
  <2>2. ASSUME NEW x \in 1..Len(levels) PROVE levels[x] \in Seq(Nat)
    <3>1. levels[x] \in Upto(Len(strings))
      BY <1>1 DEF Elements
    <3>2. PICK y \in 1..Len(strings) : levels[x] = strings[y]
      BY <3>1 DEF Upto
    <3> QED
      BY <1>4, <3>2
  <2>3. levels = [x \in 1..Len(levels) |-> levels[x]] /\ Len(levels) \in Nat
    BY <2>1
  <2> DEFINE SS == Seq(Nat)
  <2> HIDE DEF SS
  <2>4. levels \in Seq(SS)
    BY <2>2, <2>3 DEF SS
  <2> QED
    BY <2>4 DEF SS
<1>7. Code(str) = Rank(str, Elements(strings)) /\ Code(str) \in Nat
  <2>1. str \in Elements(levels)
    BY <1>1, <1>4 DEF Upto
  <2>2. PICK x \in 1..Len(levels) : levels[x] = str
    BY <2>1 DEF Elements
  <2>3. level_map[str] = x - 1 /\ x \in Nat
    BY <1>1, <1>6, <2>2 DEF Settled
  <2>4. Rank(levels[x], Elements(levels)) = x
    BY <1>1, <1>6, <2>2, RankIsPlace, Zenon
  <2> HIDE DEF str
  <2>5. Code(str) = x /\ x \in Nat
    BY <2>3 DEF Code
  <2> QED
    BY <1>5, <2>2, <2>4, <2>5
<1>8. Reading' /\ Levelling'
  <2>1. Elements(levels)' = Elements(levels) /\ Upto(Len(strings))' = Upto(Len(strings))
        /\ Ascending(levels)'
    BY <1>1 DEF Elements, Upto, Ascending
  <2> QED
    BY <1>1, <1>2, <2>1 DEF Reading, Levelling
<1>9. Encoding'
  <2> DEFINE n == Len(strings)
             code == Code(str)
  <2>1. /\ n \in Nat /\ i \in Nat /\ i < n
        /\ factors \in [1..n -> Nat] /\ code \in Nat
        /\ factors' = [factors EXCEPT ![i + 1] = code]
    BY <1>1, <1>4, <1>7
  <2> HIDE DEF n, code
  <2>2. /\ factors' \in [1..n -> Nat] /\ i + 1 <= n
        /\ \A r \in 1..i : factors'[r] = factors[r]
        /\ factors'[i + 1] = code
    BY <2>1
  <2>3. \A r \in 1..(i + 1) : factors'[r] = Rank(strings[r], Elements(strings))
    <3> SUFFICES ASSUME NEW r \in 1..(i + 1)
                 PROVE  factors'[r] = Rank(strings[r], Elements(strings))
      OBVIOUS
    <3>1. CASE r = i + 1
      BY <1>7, <2>2, <3>1 DEF code
    <3>2. CASE r # i + 1
      <4>1. r \in 1..i
        BY <2>1, <3>2
      <4> QED
        BY <1>1, <2>2, <4>1
    <3> QED
      BY <3>1, <3>2
  <2>4. strings' = strings /\ i' = i + 1 /\ Elements(strings)' = Elements(strings)
    BY <1>1 DEF Elements
  <2> QED
    BY <2>2, <2>3, <2>4 DEF Encoding, n
<1> QED
  BY <1>2, <1>8, <1>9 DEF CodesInv

LEMMA CodesDeliver == IInv /\ CodesInv /\ Deliver => CodesInv'
<1> SUFFICES ASSUME IInv, CodesInv, Deliver PROVE CodesInv'
  OBVIOUS
<1>1. /\ pc = "encode" /\ pc' = "array" /\ i = Len(strings) /\ c \in 0..Len(chunks)
      /\ c < Len(chunks) /\ Len(chunks) \in Nat /\ strings = Shown
      /\ factors \in [1..Len(strings) -> Nat]
      /\ \A r \in 1..Len(strings) : factors[r] = Rank(strings[r], Elements(strings))
      /\ IsSeq(column) /\ Len(column) = c /\ column' = Append(column, factors)
      /\ \A k \in 1..c : column[k] = Coded(chunks[k])
      /\ c' = c + 1 /\ chunks' = chunks
  BY DEF Deliver, CodesInv, Reading, Encoding, Delivered, OfColumn, input
<1>2. factors = Coded(Array)
  <2>1. strings \in Seq(Seq(Nat))
    BY <1>1, InArray
  <2>2. DOMAIN strings = 1..Len(strings)
    BY <2>1, Items, Zenon
  <2>3. ToSet(strings) = Elements(strings)
    BY <2>2 DEF ToSet, Elements
  <2>4. Coded(Array) = [r \in DOMAIN strings |-> Rank(strings[r], ToSet(strings))]
    BY <1>1, Zenon DEF Coded, Shown
  <2>5. Coded(Array) = [r \in 1..Len(strings) |-> Rank(strings[r], Elements(strings))]
    BY <2>2, <2>3, <2>4, Zenon
  <2> QED
    BY <1>1, <2>5
<1>3. /\ IsSeq(column') /\ Len(column') = c + 1
      /\ \A k \in 1..c : column'[k] = column[k]
      /\ column'[c + 1] = factors
  BY <1>1, OneMore
<1>4. OfColumn'
  BY <1>1 DEF CodesInv, OfColumn
<1>5. Delivered'
  <2>1. \A k \in 1..(c + 1) : column'[k] = Coded(chunks[k])
    <3> SUFFICES ASSUME NEW k \in 1..(c + 1) PROVE column'[k] = Coded(chunks[k])
      OBVIOUS
    <3>1. CASE k = c + 1
      BY <1>2, <1>3, <3>1 DEF Array
    <3>2. CASE k # c + 1
      <4>1. k \in 1..c
        BY <1>1, <3>2
      <4> QED
        BY <1>1, <1>3, <4>1
    <3> QED
      BY <3>1, <3>2
  <2> QED
    BY <1>1, <1>3, <2>1 DEF Delivered, IsSeq
<1> QED
  BY <1>1, <1>4, <1>5 DEF CodesInv, Reading, Levelling, Encoding

LEMMA NextCodes == IInv /\ CodesInv /\ format = "u" /\ [Next]_vars => CodesInv'
<1> SUFFICES ASSUME IInv, CodesInv, format = "u", [Next]_vars PROVE CodesInv'
  OBVIOUS
<1>1. CASE SetArray
  <2>1. /\ c < Len(chunks) /\ pc' \in {"read", "error"} /\ i' = 0 /\ strings' = <<>>
        /\ UNCHANGED <<chunks, c, column>>
    BY <1>1 DEF SetArray, input
  <2>2. OfColumn' /\ Delivered' /\ Array' = Array
    BY <2>1, SameArray
  <2>3. Array.length \in Nat
    BY <2>1, InArray
  <2>4. Reading'
    BY <2>1, <2>2, <2>3 DEF Reading
  <2> QED
    BY <2>1, <2>2, <2>4 DEF CodesInv, Levelling, Encoding
<1>2. CASE Renumber
  <2>1. /\ pc = "renumber" /\ pc' = pc /\ c < Len(chunks)
        /\ UNCHANGED <<chunks, c, column, strings, levels>>
    BY <1>2 DEF Renumber, CodesInv, OfColumn, input
  <2>2. OfColumn' /\ Delivered' /\ Shown' = Shown
    BY <2>1, SameArray
  <2>3. /\ Elements(levels)' = Elements(levels) /\ Upto(Len(strings))' = Upto(Len(strings))
        /\ Ascending(levels)' = Ascending(levels)
    BY <2>1 DEF Elements, Upto, Ascending
  <2>4. Reading' /\ Levelling'
    BY <2>1, <2>2, <2>3 DEF CodesInv, Reading, Levelling
  <2> QED
    BY <2>1, <2>2, <2>4 DEF CodesInv, Encoding
<1>3. CASE UNCHANGED vars
  <2>1. OfColumn' /\ Delivered' /\ Shown' = Shown /\ Array' = Array
    BY <1>3, SameArray DEF vars, input, CodesInv, OfColumn
  <2>2. UNCHANGED <<i, strings, levels, factors, pc>>
    BY <1>3 DEF vars
  <2>3. /\ Elements(levels)' = Elements(levels) /\ Upto(Len(strings))' = Upto(Len(strings))
        /\ Upto(i)' = Upto(i) /\ Elements(strings)' = Elements(strings)
        /\ Ascending(levels)' = Ascending(levels)
    BY <2>2 DEF Elements, Upto, Ascending
  <2>4. Reading'
    BY <2>1, <2>2 DEF CodesInv, Reading
  <2>5. Levelling'
    BY <2>2, <2>3 DEF CodesInv, Levelling
  <2>6. Encoding'
    BY <2>2, <2>3 DEF CodesInv, Encoding
  <2> QED
    BY <2>1, <2>4, <2>5, <2>6 DEF CodesInv
<1> QED
  BY <1>1, <1>2, <1>3, CodesRead, CodesReadAll, CodesAdd, CodesSort, CodesAllocate,
     CodesEncode, CodesDeliver DEF Next

(* Where the view's offsets have the width of the array's, the codes are   *)
(* those of R's factor(): each is the rank of its string among the         *)
(* distinct strings of its array, whatever the strings, slices and number  *)
(* of arrays. (For 64-bit offsets the run factor_large_strings refutes it.) *)
THEOREM CodesOfStrings == Spec => [](format = "u" => CodesAreRanks)
<1> DEFINE Inv == IInv /\ (format = "u" => CodesInv)
<1>1. Init => Inv
  BY InitIInv, InitCodes
<1>2. Inv /\ [Next]_vars => Inv'
  <2>1. [Next]_vars => format' = format
    BY DEF Next, vars, input, SetArray, ReadString, ReadAll, AddLevel, SortLevels,
           Renumber, AllocateFactors, Encode, Deliver
  <2> QED
    BY <2>1, NextIInv, NextCodes
<1>3. Inv => (format = "u" => CodesAreRanks)
  <2> SUFFICES ASSUME CodesInv PROVE CodesAreRanks
    OBVIOUS
  <2>1. DOMAIN column = 1..c
    BY Positions DEF CodesInv, Delivered
  <2> QED
    BY <2>1 DEF CodesInv, Delivered, CodesAreRanks, Coded
<1> QED
  BY <1>1, <1>2, <1>3, PTL DEF Spec

---------------------------------------------------------------------------
(* SchemaFormat                                                            *)

Decimals == {"decimal32", "decimal64", "decimal128", "decimal256"}
Sized    == {"fixed_size_binary", "fixed_size_list"}
Timed    == {"time32", "time64", "duration", "timestamp"}
Unions   == {"sparse_union", "dense_union"}
Plain(type) == type \notin Decimals \cup Sized \cup Timed \cup Unions \cup {"dictionary"}

LEMMA SelfStoredIsPlain ==
  ASSUME NEW h \in DOMAIN SelfStored
  PROVE  Plain(SelfStored[h])
BY DEF SelfStored, Plain, Decimals, Sized, Timed, Unions

LEMMA NestedIsPlain ==
  ASSUME NEW h \in DOMAIN Nested
  PROVE  Plain(Nested[h])
BY DEF Nested, Plain, Decimals, Sized, Timed, Unions

LEMMA DateTimeIs ==
  ASSUME NEW h \in DOMAIN DateTime
  PROVE  /\ DateTime[h][1] \in Timed \cup {"date32", "date64"}
         /\ DateTime[h][2] \in {"int32", "int64"}
         /\ DateTime[h][1] \in Timed <=> DateTime[h][3] # ""
<1>1. h \in {"tdD", "tdm", "tts", "ttm", "ttu", "ttn", "tDs", "tDm", "tDu", "tDn",
             "tss", "tsm", "tsu", "tsn"}
  BY DEF DateTime
<1>2. CASE h = "tdD"
  BY <1>2 DEF DateTime, Timed
<1>3. CASE h = "tdm"
  BY <1>3 DEF DateTime, Timed
<1>4. CASE h = "tts"
  BY <1>4 DEF DateTime, Timed
<1>5. CASE h = "ttm"
  BY <1>5 DEF DateTime, Timed
<1>6. CASE h = "ttu"
  BY <1>6 DEF DateTime, Timed
<1>7. CASE h = "ttn"
  BY <1>7 DEF DateTime, Timed
<1>8. CASE h = "tDs"
  BY <1>8 DEF DateTime, Timed
<1>9. CASE h = "tDm"
  BY <1>9 DEF DateTime, Timed
<1>10. CASE h = "tDu"
  BY <1>10 DEF DateTime, Timed
<1>11. CASE h = "tDn"
  BY <1>11 DEF DateTime, Timed
<1>12. CASE h = "tss"
  BY <1>12 DEF DateTime, Timed
<1>13. CASE h = "tsm"
  BY <1>13 DEF DateTime, Timed
<1>14. CASE h = "tsu"
  BY <1>14 DEF DateTime, Timed
<1>15. CASE h = "tsn"
  BY <1>15 DEF DateTime, Timed
<1> QED
  BY <1>1, <1>2, <1>3, <1>4, <1>5, <1>6, <1>7, <1>8, <1>9, <1>10, <1>11, <1>12, <1>13, <1>14, <1>15

LEMMA DecimalIs ==
  ASSUME NEW n
  PROVE  DecimalOf(n) \in Decimals \cup {"none"}
BY DEF DecimalOf, Decimals

LEMMA PrimitiveIs ==
  ASSUME NEW v, IsView(v), NEW type
  PROVE  LET w == SetPrimitive(v, type) IN
           IsView(w) /\ w.type = type /\ w.storage = type
BY DEF IsView, ViewMembers, SetPrimitive

(* Two views that a reader cannot tell apart. *)
Alike(v, w) ==
  /\ IsView(v) /\ IsView(w)
  /\ v.type = w.type /\ v.storage = w.storage
  /\ v.type \in Decimals => v.precision = w.precision /\ v.scale = w.scale /\ v.bitwidth = w.bitwidth
  /\ v.type \in Sized \/ v.storage \in Sized => v.fixed_size = w.fixed_size
  /\ v.type \in Timed => v.unit = w.unit
  /\ v.type = "timestamp" => v.timezone = w.timezone
  /\ v.type \in Unions => v.type_ids = w.type_ids

(* Two results of which the same can be said. *)
SameResult(p, q) ==
  /\ p.error = q.error /\ p.next = q.next
  /\ IsView(p.view) /\ IsView(q.view)
  /\ p.error = "ok" => Alike(p.view, q.view)

LEMMA RefusedAlike ==
  ASSUME NEW v, NEW w, IsView(v), IsView(w)
  PROVE  SameResult(Refused(v), Refused(w))
BY DEF SameResult, Refused

LEMMA ParsedAlike ==
  ASSUME NEW v, NEW w, Alike(v, w), NEW next
  PROVE  SameResult(Parsed(v, next), Parsed(w, next))
BY DEF SameResult, Parsed, Alike

LEMMA PlainAlike ==
  ASSUME NEW v, NEW w, IsView(v), IsView(w), NEW type, Plain(type)
  PROVE  Alike(SetPrimitive(v, type), SetPrimitive(w, type))
<1>1. type # "timestamp"
  BY DEF Plain, Timed
<1> QED
  BY <1>1, PrimitiveIs DEF Alike, Plain

LEMMA DateTimesAlike ==
  ASSUME NEW v, NEW w, IsView(v), IsView(w), NEW f, f[1] \in DOMAIN DateTime
  PROVE  SameResult(ParseDateTime(v, f), ParseDateTime(w, f))
<1> DEFINE d == DateTime[f[1]]
           With(u) == [u EXCEPT !.type = d[1], !.storage = d[2], !.unit = IF d[3] = "" THEN @ ELSE d[3]]
           zone == SubSeq(f, 3, Len(f))
           Zoned(u) == [u EXCEPT !.timezone = zone]
<1>1. /\ d[1] \in Timed \cup {"date32", "date64"} /\ d[2] \in {"int32", "int64"}
      /\ d[1] \in Timed <=> d[3] # ""
  BY DateTimeIs
<1>2. ASSUME NEW u PROVE ParseDateTime(u, f) =
          IF d[1] # "timestamp" THEN Parsed(With(u), 2)
          ELSE IF At(f, 2) # ":" THEN Refused(u) ELSE Parsed(Zoned(With(u)), Len(f) + 1)
  BY DEF ParseDateTime
<1> HIDE DEF d, zone
<1>3. ASSUME NEW u, IsView(u)
      PROVE  /\ IsView(With(u)) /\ With(u).type = d[1] /\ With(u).storage = d[2]
             /\ d[3] # "" => With(u).unit = d[3]
  BY <1>3 DEF IsView, ViewMembers
<1>4. ASSUME NEW u, IsView(u)
      PROVE  /\ IsView(Zoned(u)) /\ Zoned(u).type = u.type /\ Zoned(u).storage = u.storage
             /\ Zoned(u).unit = u.unit /\ Zoned(u).timezone = zone
  BY <1>4 DEF IsView, ViewMembers
<1> HIDE DEF With, Zoned
<1>5. d[1] \notin Decimals \cup Sized \cup Unions /\ d[2] \notin Sized
  BY <1>1 DEF Timed, Decimals, Sized, Unions
<1>6. CASE d[1] # "timestamp"
  <2>1. Alike(With(v), With(w))
    BY <1>1, <1>3, <1>5, <1>6 DEF Alike
  <2> QED
    BY <1>2, <1>6, <2>1, ParsedAlike
<1>7. CASE d[1] = "timestamp" /\ At(f, 2) # ":"
  BY <1>2, <1>7, RefusedAlike
<1>8. CASE d[1] = "timestamp" /\ At(f, 2) = ":"
  <2>1. IsView(With(v)) /\ IsView(With(w)) /\ d[1] \in Timed
    BY <1>3, <1>8 DEF Timed
  <2>2. Alike(Zoned(With(v)), Zoned(With(w)))
    BY <1>1, <1>3, <1>4, <1>5, <2>1 DEF Alike
  <2> QED
    BY <1>2, <1>8, <2>2, ParsedAlike
<1> QED
  BY <1>6, <1>7, <1>8

LEMMA DecimalsAlike ==
  ASSUME NEW v, NEW w, IsView(v), IsView(w), NEW f
  PROVE  SameResult(ParseDecimal(v, f), ParseDecimal(w, f))
<1> DEFINE precision == Strtol(f, 3)
           scale == Strtol(f, precision.next + 1)
           width == Strtol(f, scale.next + 1)
           given == At(f, scale.next) = ","
           bits  == IF given THEN ToInt32(width.value) ELSE 128
           bad   == \/ At(f, 2) # ":" \/ precision.next = 3 \/ At(f, precision.next) # ","
                    \/ scale.next = precision.next + 1
                    \/ (given /\ width.next = scale.next + 1)
                    \/ DecimalOf(bits) = "none"
           a == ToInt32(precision.value)
           b == ToInt32(scale.value)
           o == DecimalOf(bits)
           With(u) == [SetPrimitive(u, o) EXCEPT !.precision = a, !.scale = b, !.bitwidth = bits]
           next == IF given THEN width.next ELSE scale.next
<1>1. ASSUME NEW u
      PROVE  ParseDecimal(u, f) = IF bad THEN Refused(u) ELSE Parsed(With(u), next)
  BY DEF ParseDecimal, DefaultBitWidth
<1>2. ~bad => o \in Decimals
  BY DecimalIs
<1> HIDE DEF bad, a, b, o, bits, next
<1>3. ASSUME NEW u, IsView(u)
      PROVE  /\ IsView(With(u)) /\ With(u).type = o /\ With(u).storage = o
             /\ With(u).precision = a /\ With(u).scale = b /\ With(u).bitwidth = bits
  <2> DEFINE x == SetPrimitive(u, o)
  <2>1. IsView(x) /\ x.type = o /\ x.storage = o
    BY <1>3, PrimitiveIs
  <2> HIDE DEF x
  <2>2. LET y == [x EXCEPT !.precision = a, !.scale = b, !.bitwidth = bits] IN
          /\ IsView(y) /\ y.type = o /\ y.storage = o
          /\ y.precision = a /\ y.scale = b /\ y.bitwidth = bits
    BY <2>1 DEF IsView, ViewMembers
  <2> QED
    BY <2>2 DEF x
<1> HIDE DEF With
<1>4. CASE bad
  BY <1>1, <1>4, RefusedAlike
<1>5. CASE ~bad
  <2>1. o \notin Sized \cup Timed \cup Unions
    BY <1>2, <1>5 DEF Decimals, Sized, Timed, Unions
  <2>2. Alike(With(v), With(w))
    BY <1>3, <2>1 DEF Alike, Timed
  <2> QED
    BY <1>1, <1>5, <2>2, ParsedAlike
<1> QED
  BY <1>4, <1>5

LEMMA FixedSizesAlike ==
  ASSUME NEW v, NEW w, IsView(v), IsView(w), NEW f
  PROVE  SameResult(ParseFixedSize(v, f), ParseFixedSize(w, f))
<1> DEFINE bad == At(f, 2) # ":" \/ Len(f) < 3
           n == ToInt32(Strtol(f, 3).value)
           o == IF f[1] = "w" THEN "fixed_size_binary" ELSE "fixed_size_list"
           With(u) == [SetPrimitive(u, o) EXCEPT !.fixed_size = n]
           next == Strtol(f, 3).next
<1>1. ASSUME NEW u
      PROVE  ParseFixedSize(u, f) = IF bad THEN Refused(u) ELSE Parsed(With(u), next)
  BY DEF ParseFixedSize
<1>2. o \in Sized
  BY DEF Sized
<1> HIDE DEF bad, n, o, next
<1>3. ASSUME NEW u, IsView(u)
      PROVE  /\ IsView(With(u)) /\ With(u).type = o /\ With(u).storage = o
             /\ With(u).fixed_size = n
  <2> DEFINE x == SetPrimitive(u, o)
  <2>1. IsView(x) /\ x.type = o /\ x.storage = o
    BY <1>3, PrimitiveIs
  <2> HIDE DEF x
  <2>2. LET y == [x EXCEPT !.fixed_size = n] IN
          IsView(y) /\ y.type = o /\ y.storage = o /\ y.fixed_size = n
    BY <2>1 DEF IsView, ViewMembers
  <2> QED
    BY <2>2 DEF x
<1> HIDE DEF With
<1>4. CASE bad
  BY <1>1, <1>4, RefusedAlike
<1>5. CASE ~bad
  <2>1. o \notin Decimals \cup Timed \cup Unions
    BY <1>2 DEF Decimals, Sized, Timed, Unions
  <2>2. Alike(With(v), With(w))
    BY <1>3, <2>1 DEF Alike, Timed
  <2> QED
    BY <1>1, <1>5, <2>2, ParsedAlike
<1> QED
  BY <1>4, <1>5

LEMMA UnionsAlike ==
  ASSUME NEW v, NEW w, IsView(v), IsView(w), NEW f, NEW many
  PROVE  SameResult(ParseUnion(v, f, many), ParseUnion(w, f, many))
<1> DEFINE ids == SubSeq(f, 3, Len(f))
           bad == At(f, 2) # ":" \/ ~CountFits(ids, many)
           o == IF f[1] = "+ud" THEN "dense_union" ELSE "sparse_union"
           With(u) == [SetPrimitive(u, o) EXCEPT !.type_ids = ids]
<1>1. ASSUME NEW u
      PROVE  ParseUnion(u, f, many) = IF bad THEN Refused(u) ELSE Parsed(With(u), Len(f) + 1)
  BY DEF ParseUnion
<1>2. o \in Unions
  BY DEF Unions
<1> HIDE DEF bad, ids, o
<1>3. ASSUME NEW u, IsView(u)
      PROVE  /\ IsView(With(u)) /\ With(u).type = o /\ With(u).storage = o
             /\ With(u).type_ids = ids
  <2> DEFINE x == SetPrimitive(u, o)
  <2>1. IsView(x) /\ x.type = o /\ x.storage = o
    BY <1>3, PrimitiveIs
  <2> HIDE DEF x
  <2>2. LET y == [x EXCEPT !.type_ids = ids] IN
          IsView(y) /\ y.type = o /\ y.storage = o /\ y.type_ids = ids
    BY <2>1 DEF IsView, ViewMembers
  <2> QED
    BY <2>2 DEF x
<1> HIDE DEF With
<1>4. CASE bad
  BY <1>1, <1>4, RefusedAlike
<1>5. CASE ~bad
  <2>1. o \notin Decimals \cup Timed \cup Sized
    BY <1>2 DEF Decimals, Sized, Timed, Unions
  <2>2. Alike(With(v), With(w))
    BY <1>3, <2>1 DEF Alike, Timed
  <2> QED
    BY <1>1, <1>5, <2>2, ParsedAlike
<1> QED
  BY <1>4, <1>5

(* No two kinds of formats begin alike. *)
SelfHeads  == {"n", "b", "c", "C", "s", "S", "i", "I", "l", "L", "e", "f", "g", "z", "u", "Z", "U",
               "tiM", "tiD", "tin", "vu", "vz"}
NestHeads  == {"+l", "+L", "+r", "+s", "+m"}
TimeHeads  == {"tdD", "tdm", "tts", "ttm", "ttu", "ttn", "tDs", "tDm", "tDu", "tDn",
               "tss", "tsm", "tsu", "tsn"}
LEMMA HeadsAre ==
  /\ DOMAIN SelfStored = SelfHeads /\ DOMAIN Nested = NestHeads /\ DOMAIN DateTime = TimeHeads
  /\ SelfHeads \cap (NestHeads \cup TimeHeads \cup {"d", "w", "+w", "+ud", "+us"}) = {}
  /\ NestHeads \cap (TimeHeads \cup {"d", "w", "+w", "+ud", "+us"}) = {}
  /\ TimeHeads \cap {"d", "w", "+w", "+ud", "+us"} = {}
<1>1. DOMAIN SelfStored = SelfHeads
  BY DEF SelfStored, SelfHeads
<1>2. DOMAIN Nested = NestHeads
  BY DEF Nested, NestHeads
<1>3. DOMAIN DateTime = TimeHeads
  BY DEF DateTime, TimeHeads
<1>4. /\ SelfHeads \cap (NestHeads \cup TimeHeads \cup {"d", "w", "+w", "+ud", "+us"}) = {}
      /\ NestHeads \cap (TimeHeads \cup {"d", "w", "+w", "+ud", "+us"}) = {}
      /\ TimeHeads \cap {"d", "w", "+w", "+ud", "+us"} = {}
  BY DEF SelfHeads, NestHeads, TimeHeads
<1> QED
  BY <1>1, <1>2, <1>3, <1>4

LEMMA ParseIs ==
  ASSUME NEW v, NEW s, NEW head, head = s.format[1]
  PROVE  /\ head \in SelfHeads => Parse(v, s) = Parsed(SetPrimitive(v, SelfStored[head]), 2)
         /\ head \in NestHeads => Parse(v, s) = Parsed(SetPrimitive(v, Nested[head]), 2)
         /\ head \in TimeHeads => Parse(v, s) = ParseDateTime(v, s.format)
         /\ head = "d" => Parse(v, s) = ParseDecimal(v, s.format)
         /\ head \in {"w", "+w"} => Parse(v, s) = ParseFixedSize(v, s.format)
         /\ head \in {"+ud", "+us"} => Parse(v, s) = ParseUnion(v, s.format, Len(s.children))
         /\ head \notin SelfHeads \cup NestHeads \cup TimeHeads \cup {"d", "w", "+w", "+ud", "+us"}
              => Parse(v, s) = Refused(v)
<1> DEFINE A == Parsed(SetPrimitive(v, SelfStored[head]), 2)
           B == Parsed(SetPrimitive(v, Nested[head]), 2)
           C == ParseDateTime(v, s.format)
           D == ParseDecimal(v, s.format)
           E == ParseFixedSize(v, s.format)
           F == ParseUnion(v, s.format, Len(s.children))
           G == Refused(v)
<1>1. Parse(v, s) =
        CASE head \in SelfHeads -> A
          [] head \in NestHeads -> B
          [] head \in TimeHeads -> C
          [] head = "d" -> D
          [] head \in {"w", "+w"} -> E
          [] head \in {"+ud", "+us"} -> F
          [] OTHER -> G
  BY HeadsAre, Zenon DEF Parse
<1> HIDE DEF A, B, C, D, E, F, G
<1>2. /\ head \in SelfHeads => head \notin NestHeads /\ head \notin TimeHeads
                              /\ head \notin {"d", "w", "+w", "+ud", "+us"}
      /\ head \in NestHeads => head \notin TimeHeads /\ head \notin {"d", "w", "+w", "+ud", "+us"}
      /\ head \in TimeHeads => head \notin {"d", "w", "+w", "+ud", "+us"}
  BY HeadsAre
<1>3. /\ head \in SelfHeads => Parse(v, s) = A
      /\ head \in NestHeads => Parse(v, s) = B
      /\ head \in TimeHeads => Parse(v, s) = C
      /\ head = "d" => Parse(v, s) = D
      /\ head \in {"w", "+w"} => Parse(v, s) = E
      /\ head \in {"+ud", "+us"} => Parse(v, s) = F
      /\ head \notin SelfHeads \cup NestHeads \cup TimeHeads \cup {"d", "w", "+w", "+ud", "+us"}
              => Parse(v, s) = G
  BY <1>1, <1>2
<1> QED
  BY <1>3, Zenon DEF A, B, C, D, E, F, G

(* What a format says does not depend on the view it is read into. *)
LEMMA ParsesAlike ==
  ASSUME NEW v, NEW w, IsView(v), IsView(w), NEW s
  PROVE  SameResult(Parse(v, s), Parse(w, s))
<1> DEFINE f == s.format  head == f[1]
<1>1. CASE head \in SelfHeads
  BY <1>1, ParseIs, HeadsAre, SelfStoredIsPlain, PlainAlike, ParsedAlike
<1>2. CASE head \in NestHeads
  BY <1>2, ParseIs, HeadsAre, NestedIsPlain, PlainAlike, ParsedAlike
<1>3. CASE head \in TimeHeads
  BY <1>3, ParseIs, HeadsAre, DateTimesAlike
<1>4. CASE head = "d"
  BY <1>4, ParseIs, DecimalsAlike
<1>5. CASE head \in {"w", "+w"}
  BY <1>5, ParseIs, FixedSizesAlike
<1>6. CASE head \in {"+ud", "+us"}
  BY <1>6, ParseIs, UnionsAlike
<1>7. CASE head \notin SelfHeads \cup NestHeads \cup TimeHeads \cup {"d", "w", "+w", "+ud", "+us"}
  BY <1>7, ParseIs, RefusedAlike
<1> QED
  BY <1>1, <1>2, <1>3, <1>4, <1>5, <1>6, <1>7

(* A view as wide as its arguments: what Layout makes of it. *)
LEMMA LayoutIs ==
  ASSUME NEW v, IsView(v), NEW x
  PROVE  LET w == [Layout(v) EXCEPT !.extension = x] IN
           /\ IsView(w) /\ w.extension = x
           /\ \A m \in ViewMembers \ {"element_bits", "child_size", "extension"} : w[m] = v[m]
           /\ w.element_bits = IF v.storage = "fixed_size_binary" THEN ToInt32(v.fixed_size * 8) ELSE 0
           /\ w.child_size = IF v.storage = "fixed_size_list" THEN v.fixed_size ELSE 0
<1> DEFINE a == IF v.storage = "fixed_size_binary" THEN ToInt32(v.fixed_size * 8) ELSE 0
           b == IF v.storage = "fixed_size_list" THEN v.fixed_size ELSE 0
           u == [v EXCEPT !.element_bits = a, !.child_size = b]
           w == [u EXCEPT !.extension = x]
<1>1. u = Layout(v)
  BY DEF Layout
<1> HIDE DEF a, b
<1>2. IsView(u) /\ u.element_bits = a /\ u.child_size = b
      /\ \A m \in ViewMembers \ {"element_bits", "child_size"} : u[m] = v[m]
  BY DEF IsView, ViewMembers
<1> HIDE DEF u
<1>3. IsView(w) /\ w.extension = x /\ \A m \in ViewMembers \ {"extension"} : w[m] = u[m]
  BY <1>2 DEF IsView, ViewMembers
<1>4. w.element_bits = u.element_bits /\ w.child_size = u.child_size
  BY <1>3 DEF ViewMembers
<1> HIDE DEF w
<1>5. /\ IsView(w) /\ w.extension = x
      /\ \A m \in ViewMembers \ {"element_bits", "child_size", "extension"} : w[m] = v[m]
      /\ w.element_bits = a /\ w.child_size = b
  BY <1>2, <1>3, <1>4
<1> QED
  BY <1>1, <1>5 DEF w, a, b

(* Alike and laid out alike, two views hold the same members for a reader. *)
LEMMA SameMembers ==
  ASSUME NEW v, NEW w, Alike(v, w), NEW x
  PROVE  Members([Layout(v) EXCEPT !.extension = x]) = Members([Layout(w) EXCEPT !.extension = x])
<1> DEFINE a == [Layout(v) EXCEPT !.extension = x]
           b == [Layout(w) EXCEPT !.extension = x]
<1>0. IsView(v) /\ IsView(w)
  BY DEF Alike
<1>1. /\ a.extension = x /\ a.type = v.type /\ a.storage = v.storage
      /\ a.precision = v.precision /\ a.scale = v.scale /\ a.bitwidth = v.bitwidth
      /\ a.fixed_size = v.fixed_size /\ a.unit = v.unit /\ a.timezone = v.timezone
      /\ a.type_ids = v.type_ids
      /\ a.element_bits = IF v.storage = "fixed_size_binary" THEN ToInt32(v.fixed_size * 8) ELSE 0
      /\ a.child_size = IF v.storage = "fixed_size_list" THEN v.fixed_size ELSE 0
  <2>1. /\ IsView(v) /\ a.extension = x
        /\ \A m \in ViewMembers \ {"element_bits", "child_size", "extension"} : a[m] = v[m]
        /\ a.element_bits = IF v.storage = "fixed_size_binary" THEN ToInt32(v.fixed_size * 8) ELSE 0
        /\ a.child_size = IF v.storage = "fixed_size_list" THEN v.fixed_size ELSE 0
    BY <1>0, LayoutIs
  <2> HIDE DEF a
  <2> QED
    BY <2>1 DEF ViewMembers
<1>2. /\ b.extension = x /\ b.type = w.type /\ b.storage = w.storage
      /\ b.precision = w.precision /\ b.scale = w.scale /\ b.bitwidth = w.bitwidth
      /\ b.fixed_size = w.fixed_size /\ b.unit = w.unit /\ b.timezone = w.timezone
      /\ b.type_ids = w.type_ids
      /\ b.element_bits = IF w.storage = "fixed_size_binary" THEN ToInt32(w.fixed_size * 8) ELSE 0
      /\ b.child_size = IF w.storage = "fixed_size_list" THEN w.fixed_size ELSE 0
  <2>1. /\ IsView(w) /\ b.extension = x
        /\ \A m \in ViewMembers \ {"element_bits", "child_size", "extension"} : b[m] = w[m]
        /\ b.element_bits = IF w.storage = "fixed_size_binary" THEN ToInt32(w.fixed_size * 8) ELSE 0
        /\ b.child_size = IF w.storage = "fixed_size_list" THEN w.fixed_size ELSE 0
    BY <1>0, LayoutIs
  <2> HIDE DEF b
  <2> QED
    BY <2>1 DEF ViewMembers
<1> HIDE DEF a, b
<1>3. DOMAIN BitWidthArgument = Decimals
  BY DEF BitWidthArgument, Decimals
<1>4. a.type = b.type /\ a.storage = b.storage /\ a.extension = b.extension
      /\ a.element_bits = b.element_bits /\ a.child_size = b.child_size
  BY <1>1, <1>2 DEF Alike, Sized
<1> DEFINE Arguments(u) ==
     CASE u.type \in Decimals -> <<u.precision, u.scale, u.bitwidth>>
       [] u.type \in {"fixed_size_binary", "fixed_size_list"} -> <<u.fixed_size>>
       [] u.type \in {"time32", "time64", "duration"} -> <<u.unit>>
       [] u.type = "timestamp" -> <<u.unit, u.timezone>>
       [] u.type \in {"sparse_union", "dense_union"} -> u.type_ids
       [] OTHER -> <<>>
<1>5. Arguments(a) = Arguments(b)
  <2>1. /\ a.type \in Decimals => a.precision = b.precision /\ a.scale = b.scale /\ a.bitwidth = b.bitwidth
        /\ a.type \in Sized => a.fixed_size = b.fixed_size
        /\ a.type \in Timed => a.unit = b.unit
        /\ a.type = "timestamp" => a.timezone = b.timezone
        /\ a.type \in Unions => a.type_ids = b.type_ids
    BY <1>1, <1>2 DEF Alike
  <2>2. CASE a.type \in Decimals
    BY <1>4, <2>1, <2>2 DEF Decimals
  <2>3. CASE a.type \in Sized
    BY <1>4, <2>1, <2>3 DEF Decimals, Sized
  <2>4. CASE a.type \in Timed
    BY <1>4, <2>1, <2>4 DEF Decimals, Timed
  <2>5. CASE a.type \in Unions
    BY <1>4, <2>1, <2>5 DEF Decimals, Unions
  <2>6. CASE a.type \notin Decimals \cup Sized \cup Timed \cup Unions
    BY <1>4, <2>6 DEF Sized, Timed, Unions
  <2> QED
    BY <2>2, <2>3, <2>4, <2>5, <2>6
<1>6. ASSUME NEW u
      PROVE  Members(u) = [type |-> u.type, storage |-> u.storage, extension |-> u.extension,
                           element_bits |-> u.element_bits, child_size |-> u.child_size,
                           arguments |-> Arguments(u)]
  BY <1>3, Zenon DEF Members
<1> HIDE DEF Arguments
<1>7. Members(a) = Members(b)
  BY <1>4, <1>5, <1>6
<1> QED
  BY <1>7 DEF a, b

LEMMA DictionariesAlike ==
  ASSUME NEW v, NEW w, Alike(v, w)
  PROVE  Alike([v EXCEPT !.type = "dictionary"], [w EXCEPT !.type = "dictionary"])
<1> DEFINE x == [v EXCEPT !.type = "dictionary"]
           y == [w EXCEPT !.type = "dictionary"]
<1>1. IsView(x) /\ x.type = "dictionary" /\ x.storage = v.storage /\ x.fixed_size = v.fixed_size
  BY DEF Alike, IsView, ViewMembers
<1>2. IsView(y) /\ y.type = "dictionary" /\ y.storage = w.storage /\ y.fixed_size = w.fixed_size
  BY DEF Alike, IsView, ViewMembers
<1> HIDE DEF x, y
<1>3. x.type \notin Decimals \cup Sized \cup Timed \cup Unions
  BY <1>1 DEF Decimals, Sized, Timed, Unions
<1>4. x.type # "timestamp" /\ v.storage = w.storage /\ (v.storage \in Sized => v.fixed_size = w.fixed_size)
  BY <1>1 DEF Alike
<1>5. Alike(x, y)
  BY <1>1, <1>2, <1>3, <1>4 DEF Alike
<1> QED
  BY <1>5 DEF x, y

LEMMA ValidatesAlike ==
  ASSUME NEW v, NEW w, Alike(v, w), NEW s, NEW inner, NEW type \in {v.storage, v.type}
  PROVE  Validate(v, s, type, inner) = Validate(w, s, type, inner)
<1>1. v.storage = w.storage /\ (type = "fixed_size_binary" => v.fixed_size = w.fixed_size)
  BY DEF Alike, Sized
<1>2. ValidateDictionary(v, inner) = ValidateDictionary(w, inner)
  BY <1>1 DEF ValidateDictionary
<1>3. (type = "fixed_size_binary" /\ v.fixed_size <= 0) = (type = "fixed_size_binary" /\ w.fixed_size <= 0)
  BY <1>1
<1> QED
  BY <1>2, <1>3 DEF Validate

(* The parts of ArrowSchemaViewInit.                                       *)
LEMMA LevelIs ==
  ASSUME NEW v, NEW s, NEW inner
  PROVE  ViewLevel(v, s, inner) =
           IF ~s.live \/ s.format = <<>> THEN Refused(v)
           ELSE IF Unreadable(Parse(v, s), s) THEN Refused(v)
           ELSE IF Verdict(Typed(Parse(v, s), s), s, inner) # "ok"
                THEN [Refused(v) EXCEPT !.error = Verdict(Typed(Parse(v, s), s), s, inner)]
           ELSE IF ~FlagsFit(s, Typed(Parse(v, s), s).type) THEN Refused(v)
           ELSE Parsed([Layout(Typed(Parse(v, s), s)) EXCEPT !.extension = s.extension], Parse(v, s).next)
BY Zenon DEF ViewLevel, Checked

LEMMA VerdictsAlike ==
  ASSUME NEW v, NEW w, Alike(v, w), NEW s, NEW inner
  PROVE  Verdict(v, s, inner) = Verdict(w, s, inner)
<1>1. v.storage = w.storage /\ v.type = w.type
  BY DEF Alike
<1>2. /\ Validate(v, s, v.storage, inner) = Validate(w, s, v.storage, inner)
      /\ Validate(v, s, v.type, inner) = Validate(w, s, v.type, inner)
  BY ValidatesAlike
<1> QED
  BY <1>1, <1>2 DEF Verdict

Tells(r, q) ==
  /\ r.error = q.error
  /\ IsView(r.view) /\ IsView(q.view)
  /\ r.error = "ok" => Members(r.view) = Members(q.view)

LEMMA RefusalTells ==
  ASSUME NEW v, NEW w, IsView(v), IsView(w)
  PROVE  Tells(Refused(v), Refused(w))
BY DEF Tells, Refused

LEMMA RefusedTells ==
  ASSUME NEW v, NEW w, IsView(v), IsView(w), NEW error, error # "ok"
  PROVE  Tells([Refused(v) EXCEPT !.error = error], [Refused(w) EXCEPT !.error = error])
BY DEF Tells, Refused

LEMMA LevelsAlike ==
  ASSUME NEW v, NEW w, IsView(v), IsView(w), NEW s, NEW inner
  PROVE  Tells(ViewLevel(v, s, inner), ViewLevel(w, s, inner))
<1> DEFINE p == Parse(v, s)  q == Parse(w, s)
           x == Typed(p, s)  y == Typed(q, s)
<1>1. SameResult(p, q)
  BY ParsesAlike
<1> HIDE DEF p, q
<1>2. p.error = "ok" => Alike(x, y)
  BY <1>1, DictionariesAlike DEF SameResult, Typed
<1>3. Unreadable(p, s) = Unreadable(q, s) /\ p.next = q.next
  BY <1>1 DEF SameResult, Unreadable
<1> DEFINE L(u, r, t) ==
             IF ~s.live \/ s.format = <<>> THEN Refused(u)
             ELSE IF Unreadable(r, s) THEN Refused(u)
             ELSE IF Verdict(t, s, inner) # "ok" THEN [Refused(u) EXCEPT !.error = Verdict(t, s, inner)]
             ELSE IF ~FlagsFit(s, t.type) THEN Refused(u)
             ELSE Parsed([Layout(t) EXCEPT !.extension = s.extension], r.next)
<1>4. ViewLevel(v, s, inner) = L(v, p, x) /\ ViewLevel(w, s, inner) = L(w, q, y)
  BY LevelIs, Zenon DEF p, q
<1> HIDE DEF x, y
<1>5. Tells(L(v, p, x), L(w, q, y))
  <2>1. CASE ~s.live \/ s.format = <<>> \/ Unreadable(p, s)
    <3>1. L(v, p, x) = Refused(v) /\ L(w, q, y) = Refused(w)
      BY <1>3, <2>1
    <3> HIDE DEF L
    <3> QED
      BY <3>1, RefusalTells
  <2>2. CASE s.live /\ s.format # <<>> /\ ~Unreadable(p, s)
    <3>1. Alike(x, y) /\ x.type = y.type /\ Verdict(x, s, inner) = Verdict(y, s, inner)
      BY <1>2, <2>2, VerdictsAlike DEF Unreadable, Alike
    <3>2. CASE Verdict(x, s, inner) # "ok"
      <4>1. L(v, p, x) = [Refused(v) EXCEPT !.error = Verdict(x, s, inner)]
            /\ L(w, q, y) = [Refused(w) EXCEPT !.error = Verdict(x, s, inner)]
        BY <1>3, <2>2, <3>1, <3>2
      <4> HIDE DEF L
      <4> QED
        BY <3>2, <4>1, RefusedTells
    <3>3. CASE Verdict(x, s, inner) = "ok" /\ ~FlagsFit(s, x.type)
      <4>1. L(v, p, x) = Refused(v) /\ L(w, q, y) = Refused(w)
        BY <1>3, <2>2, <3>1, <3>3
      <4> HIDE DEF L
      <4> QED
        BY <4>1, RefusalTells
    <3>4. CASE Verdict(x, s, inner) = "ok" /\ FlagsFit(s, x.type)
      <4> DEFINE a == [Layout(x) EXCEPT !.extension = s.extension]
                 b == [Layout(y) EXCEPT !.extension = s.extension]
      <4>1. L(v, p, x) = Parsed(a, p.next) /\ L(w, q, y) = Parsed(b, q.next)
        BY <1>3, <2>2, <3>1, <3>4
      <4>2. Members(a) = Members(b)
        BY <3>1, SameMembers
      <4>3. IsView(a) /\ IsView(b)
        BY <3>1, LayoutIs DEF Alike
      <4> HIDE DEF a, b, L
      <4> QED
        BY <4>1, <4>2, <4>3 DEF Parsed, Tells
    <3> QED
      BY <3>2, <3>3, <3>4
  <2> QED
    BY <2>1, <2>2
<1> QED
  BY <1>4, <1>5, Zenon

(* The schemas below s, and what their check comes to.                     *)
Nodes(s, g) == g = [k \in 0..StackDepth |-> IF k = 0 THEN s ELSE g[k - 1].dictionary[1]]
NodeOf(s)   == CHOOSE g : Nodes(s, g)
Checks(u, s, g) ==
  g = [room \in 0..StackDepth |->
         IF room = 0 THEN "wild" ELSE ViewLevel(u, NodeOf(s)[StackDepth - room + 1], g[room - 1]).error]
BelowOf(u, s) == CHOOSE g : Checks(u, s, g)

LEMMA ViewInitIs ==
  ASSUME NEW u, NEW s
  PROVE  ViewInit(u, s) = ViewLevel(u, s, BelowOf(u, s)[StackDepth])
BY Zenon DEF ViewInit, BelowOf, Checks, NodeOf, Nodes

(* The check of the dictionaries below a schema is the same for both views.*)
LEMMA ViewsAlike ==
  ASSUME NEW v, NEW w, IsView(v), IsView(w), NEW s
  PROVE  Tells(ViewInit(v, s), ViewInit(w, s))
<1>1. \A g : Checks(v, s, g) <=> Checks(w, s, g)
  <2> SUFFICES ASSUME NEW g PROVE Checks(v, s, g) <=> Checks(w, s, g)
    BY Zenon
  <2> DEFINE node == NodeOf(s)
             a == [room \in 0..StackDepth |->
                     IF room = 0 THEN "wild" ELSE ViewLevel(v, node[StackDepth - room + 1], g[room - 1]).error]
             b == [room \in 0..StackDepth |->
                     IF room = 0 THEN "wild" ELSE ViewLevel(w, node[StackDepth - room + 1], g[room - 1]).error]
  <2>1. \A room \in 0..StackDepth : ViewLevel(v, node[StackDepth - room + 1], g[room - 1]).error
                                   = ViewLevel(w, node[StackDepth - room + 1], g[room - 1]).error
    BY LevelsAlike DEF Tells
  <2>2. a = b
    BY <2>1
  <2> QED
    BY <2>2, Zenon DEF Checks
<1>2. BelowOf(v, s) = BelowOf(w, s)
  BY <1>1 DEF BelowOf
<1> QED
  BY <1>2, ViewInitIs, LevelsAlike

(* A view that was filled in was filled in from the schema there is.       *)
FilledIn ==
  /\ IsView(view)
  /\ viewed => \E old : /\ IsView(old) /\ ViewInit(old, schema).error = "ok"
                         /\ view = ViewInit(old, schema).view

LEMMA BlankIsView == IsView(Blank)
BY DEF IsView, ViewMembers, Blank

LEMMA FilledInFirst == SchemaInit => FilledIn
BY ViewsAssumption DEF SchemaInit, FilledIn

LEMMA FilledInNext == FilledIn /\ [SchemaNext]_schemaVars => FilledIn'
<1> SUFFICES ASSUME FilledIn, [SchemaNext]_schemaVars PROVE FilledIn'
  OBVIOUS
<1>1. ASSUME NEW p, NEW call, NEW args, NEW r, Changes(p, call, args, r) PROVE FilledIn'
  BY <1>1 DEF FilledIn, Changes
<1>2. CASE View
  <2>1. IsView(view) /\ IsView(ViewInit(view, schema).view)
    BY ViewsAlike DEF FilledIn, Tells
  <2>2. view' = ViewInit(view, schema).view /\ viewed' = (ViewInit(view, schema).error = "ok")
        /\ schema' = schema
    BY <1>2 DEF View
  <2>3. IsView(view')
    BY <2>1, <2>2
  <2>4. ASSUME viewed' PROVE \E old : /\ IsView(old) /\ ViewInit(old, schema').error = "ok"
                                      /\ view' = ViewInit(old, schema').view
    <3>1. ViewInit(view, schema').error = "ok" /\ view' = ViewInit(view, schema').view
      BY <2>2, <2>4, Zenon
    <3> QED
      BY <2>1, <3>1, Zenon
  <2> QED
    BY <2>3, <2>4, Zenon DEF FilledIn
<1>3. CASE UNCHANGED schemaVars
  BY <1>3 DEF FilledIn, schemaVars
<1>4. ASSUME NEW p \in Paths, Set(p) PROVE FilledIn'
  BY <1>1, <1>4, Zenon DEF Set
<1>5. ASSUME NEW p \in Paths, Allocate(p) PROVE FilledIn'
  BY <1>1, <1>5, Zenon DEF Allocate
<1>6. ASSUME NEW p \in Paths, InitNode(p) PROVE FilledIn'
  BY <1>1, <1>6, Zenon DEF InitNode
<1>7. ASSUME NEW p \in Paths, SetFlags(p) PROVE FilledIn'
  BY <1>1, <1>7, Zenon DEF SetFlags
<1>8. CASE AllocateDict
  BY <1>1, <1>8, Zenon DEF AllocateDict
<1>9. CASE SetMetadata
  BY <1>1, <1>9, Zenon DEF SetMetadata
<1> QED
  BY <1>2, <1>3, <1>4, <1>5, <1>6, <1>7, <1>8, <1>9 DEF SchemaNext

(* A view tells nothing of the schemas it was used for before, whatever    *)
(* memory it began in and however deep the dictionaries of the schema go   *)
(* (ArrowSchemaViewInit, src/src/nanoarrow/nanoarrow.c).                   *)
THEOREM ViewsAreFresh == SchemaSpec => []ViewIsFresh
<1>1. FilledIn => ViewIsFresh
  <2> SUFFICES ASSUME FilledIn, viewed, NEW r \in Outcome(schema)
               PROVE  Members(view) = Members(r.view)
    BY DEF ViewIsFresh
  <2>1. PICK old : /\ IsView(old) /\ ViewInit(old, schema).error = "ok"
                   /\ view = ViewInit(old, schema).view
    BY Zenon DEF FilledIn
  <2>2. r = ViewInit(Blank, schema)
    BY DEF Outcome
  <2> QED
    BY <2>1, <2>2, BlankIsView, ViewsAlike DEF Tells
<1> QED
  BY <1>1, FilledInFirst, FilledInNext, PTL DEF SchemaSpec

---------------------------------------------------------------------------
(* What an accepted schema is.                                             *)

(* Accepted, every check went well.                                        *)
LEMMA AcceptedIs ==
  ASSUME NEW v, NEW s, NEW inner, ViewLevel(v, s, inner).error = "ok"
  PROVE  LET p == Parse(v, s)
             w == Typed(p, s) IN
           /\ s.live /\ s.format # <<>>
           /\ p.error = "ok" /\ p.next = Len(s.format) + 1
           /\ Verdict(w, s, inner) = "ok" /\ FlagsFit(s, w.type)
           /\ ViewLevel(v, s, inner) = Parsed([Layout(w) EXCEPT !.extension = s.extension], p.next)
<1> DEFINE p == Parse(v, s)
           w == Typed(p, s)
           r == ViewLevel(v, s, inner)
           good == Parsed([Layout(w) EXCEPT !.extension = s.extension], p.next)
           bad == [Refused(v) EXCEPT !.error = Verdict(w, s, inner)]
<1>1. r = IF ~s.live \/ s.format = <<>> THEN Refused(v)
          ELSE IF Unreadable(p, s) THEN Refused(v)
          ELSE IF Verdict(w, s, inner) # "ok" THEN bad
          ELSE IF ~FlagsFit(s, w.type) THEN Refused(v)
          ELSE good
  BY LevelIs, Zenon
<1>2. Refused(v).error # "ok" /\ bad.error = Verdict(w, s, inner)
  BY DEF Refused
<1>3. r.error = "ok"
  OBVIOUS
<1> HIDE DEF p, w, r, good, bad
<1>4. /\ s.live /\ s.format # <<>> /\ ~Unreadable(p, s) /\ Verdict(w, s, inner) = "ok"
      /\ FlagsFit(s, w.type) /\ r = good
  BY <1>1, <1>2, <1>3
<1>5. p.error = "ok" /\ p.next = Len(s.format) + 1
  BY <1>4 DEF Unreadable
<1> QED
  BY <1>4, <1>5, Zenon DEF p, w, r, good

LEMMA MoreIsAccepted ==
  ASSUME NEW v, NEW s, NEW z, NEW j, z = "ok" => j = "ok", ViewLevel(v, s, z).error = "ok"
  PROVE  ViewLevel(v, s, j).error = "ok"
<1> DEFINE w == Typed(Parse(v, s), s)
<1>1. ASSUME NEW type, Validate(w, s, type, z) = "ok" PROVE Validate(w, s, type, j) = "ok"
  <2> HIDE DEF w
  <2>1. ValidateDictionary(w, z) = "ok" => ValidateDictionary(w, j) = "ok"
    BY DEF ValidateDictionary
  <2>2. CASE type = "fixed_size_binary" /\ w.fixed_size <= 0
    BY <1>1, <2>2 DEF Validate
  <2>3. CASE type = "map"
    BY <1>1, <2>3 DEF Validate
  <2>4. CASE type = "dictionary"
    BY <1>1, <2>1, <2>4 DEF Validate
  <2>5. CASE ~(type = "fixed_size_binary" /\ w.fixed_size <= 0) /\ type # "map" /\ type # "dictionary"
    BY <1>1, <2>5 DEF Validate
  <2> QED
    BY <2>2, <2>3, <2>4, <2>5
<1>2. /\ s.live /\ s.format # <<>> /\ ~Unreadable(Parse(v, s), s)
      /\ Verdict(w, s, z) = "ok" /\ FlagsFit(s, w.type)
  BY AcceptedIs DEF Unreadable
<1>3. Verdict(w, s, j) = "ok"
  <2> HIDE DEF w
  <2>1. Validate(w, s, w.storage, z) = "ok" /\ (w.type # w.storage => Validate(w, s, w.type, z) = "ok")
    BY <1>2 DEF Verdict
  <2>2. Validate(w, s, w.storage, j) = "ok" /\ (w.type # w.storage => Validate(w, s, w.type, j) = "ok")
    BY <1>1, <2>1
  <2> QED
    BY <2>2 DEF Verdict
<1>4. ViewLevel(v, s, j) = Parsed([Layout(w) EXCEPT !.extension = s.extension], Parse(v, s).next)
  BY <1>2, <1>3, LevelIs
<1> HIDE DEF w
<1> QED
  BY <1>4 DEF Parsed

(* The nodes and the checks of the dictionaries there is room for.         *)
LEMMA NodesAre ==
  ASSUME NEW s
  PROVE  \A k \in 0..StackDepth : NodeOf(s)[k] = IF k = 0 THEN s ELSE NodeOf(s)[k - 1].dictionary[1]
<1> DEFINE Steps(f, k) == f = [z \in 0..k |-> IF z = 0 THEN s ELSE f[z - 1].dictionary[1]]
           T == {k \in Nat : \E f : Steps(f, k)}
<1>1. 0 \in T
  <2> DEFINE g == [z \in 0..0 |-> s]
  <2>1. g = [z \in 0..0 |-> IF z = 0 THEN s ELSE g[z - 1].dictionary[1]]
    OBVIOUS
  <2> HIDE DEF g
  <2> QED
    BY <2>1
<1>2. ASSUME NEW k \in T PROVE k + 1 \in T
  <2>1. k \in Nat
    OBVIOUS
  <2>2. PICK f : Steps(f, k)
    OBVIOUS
  <2> DEFINE e == f[k].dictionary[1]
             g == [z \in 0..(k + 1) |-> IF z = k + 1 THEN e ELSE f[z]]
  <2>3. \A z \in 0..k : f[z] = IF z = 0 THEN s ELSE f[z - 1].dictionary[1]
    BY <2>2
  <2>4. (\A z \in 0..k : g[z] = f[z]) /\ g[k + 1] = e /\ g = [z \in 0..(k + 1) |-> g[z]]
    <3> HIDE DEF e
    <3> QED
      BY <2>1
  <2>5. e = g[k].dictionary[1]
    BY <2>1, <2>4
  <2> HIDE DEF e, g, Steps
  <2>6. ASSUME NEW z \in 0..(k + 1)
        PROVE  g[z] = IF z = 0 THEN s ELSE g[z - 1].dictionary[1]
    <3>1. CASE z = k + 1
      <4>1. z # 0 /\ z - 1 = k
        BY <2>1, <3>1
      <4> QED
        BY <2>4, <2>5, <3>1, <4>1
    <3>2. CASE z # k + 1
      <4>1. z \in 0..k /\ (z # 0 => z - 1 \in 0..k)
        BY <2>1, <3>2
      <4> QED
        BY <2>3, <2>4, <4>1
    <3> QED
      BY <3>1, <3>2
  <2>7. Steps(g, k + 1)
    BY <2>4, <2>6 DEF Steps
  <2> QED
    BY <2>1, <2>7
<1>3. Nat \subseteq T
  <2>1. T \subseteq Nat
    OBVIOUS
  <2> HIDE DEF T
  <2> QED
    BY <1>1, <1>2, <2>1, NatInduct, Zenon
<1>4. \E f : Nodes(s, f)
  BY <1>3, StackAssumption DEF Nodes
<1>5. Nodes(s, NodeOf(s))
  BY <1>4, Zenon DEF NodeOf
<1> QED
  BY <1>5 DEF Nodes

LEMMA ChecksAre ==
  ASSUME NEW u, NEW s
  PROVE  \A room \in 0..StackDepth :
           BelowOf(u, s)[room] =
             IF room = 0 THEN "wild"
             ELSE ViewLevel(u, NodeOf(s)[StackDepth - room + 1], BelowOf(u, s)[room - 1]).error
<1> DEFINE E(z, x) == ViewLevel(u, NodeOf(s)[StackDepth - z + 1], x).error
           Steps(f, k) == f = [z \in 0..k |-> IF z = 0 THEN "wild" ELSE E(z, f[z - 1])]
           T == {k \in Nat : \E f : Steps(f, k)}
<1>0. \A f : Checks(u, s, f) <=> Steps(f, StackDepth)
  BY Zenon DEF Checks
<1> HIDE DEF E
<1>1. 0 \in T
  <2> DEFINE g == [z \in 0..0 |-> "wild"]
  <2>1. g = [z \in 0..0 |-> IF z = 0 THEN "wild" ELSE E(z, g[z - 1])]
    OBVIOUS
  <2> HIDE DEF g
  <2> QED
    BY <2>1
<1>2. ASSUME NEW k \in T PROVE k + 1 \in T
  <2>1. k \in Nat
    OBVIOUS
  <2>2. PICK f : Steps(f, k)
    OBVIOUS
  <2> DEFINE e == E(k + 1, f[k])
             g == [z \in 0..(k + 1) |-> IF z = k + 1 THEN e ELSE f[z]]
  <2>3. \A z \in 0..k : f[z] = IF z = 0 THEN "wild" ELSE E(z, f[z - 1])
    BY <2>2
  <2>4. (\A z \in 0..k : g[z] = f[z]) /\ g[k + 1] = e /\ g = [z \in 0..(k + 1) |-> g[z]]
    <3> HIDE DEF e
    <3> QED
      BY <2>1
  <2>5. e = E(k + 1, g[k])
    BY <2>1, <2>4
  <2> HIDE DEF e, g, Steps
  <2>6. ASSUME NEW z \in 0..(k + 1)
        PROVE  g[z] = IF z = 0 THEN "wild" ELSE E(z, g[z - 1])
    <3>1. CASE z = k + 1
      <4>1. z # 0 /\ z - 1 = k
        BY <2>1, <3>1
      <4> QED
        BY <2>4, <2>5, <3>1, <4>1
    <3>2. CASE z # k + 1
      <4>1. z \in 0..k /\ (z # 0 => z - 1 \in 0..k)
        BY <2>1, <3>2
      <4> QED
        BY <2>3, <2>4, <4>1
    <3> QED
      BY <3>1, <3>2
  <2>7. Steps(g, k + 1)
    BY <2>4, <2>6 DEF Steps
  <2> QED
    BY <2>1, <2>7
<1>3. Nat \subseteq T
  <2>1. T \subseteq Nat
    OBVIOUS
  <2> HIDE DEF T
  <2> QED
    BY <1>1, <1>2, <2>1, NatInduct, Zenon
<1>4. \E f : Checks(u, s, f)
  <2>1. StackDepth \in T
    BY <1>3, StackAssumption
  <2> HIDE DEF Steps
  <2> QED
    BY <1>0, <2>1
<1>5. Checks(u, s, BelowOf(u, s))
  BY <1>4, Zenon DEF BelowOf
<1>6. Steps(BelowOf(u, s), StackDepth)
  BY <1>0, <1>5, Zenon
<1>7. \A room \in 0..StackDepth :
        BelowOf(u, s)[room] = IF room = 0 THEN "wild" ELSE E(room, BelowOf(u, s)[room - 1])
  BY <1>6
<1> QED
  BY <1>7, Zenon DEF E

(* A dictionary that was accepted below its schema is accepted by itself,  *)
(* when there is more room on the stack.                                   *)
LEMMA NodesBelow ==
  ASSUME NEW s, NEW k \in Nat, k < StackDepth
  PROVE  NodeOf(s.dictionary[1])[k] = NodeOf(s)[k + 1]
<1> DEFINE d == s.dictionary[1]
           T == {z \in Nat : z < StackDepth => NodeOf(d)[z] = NodeOf(s)[z + 1]}
<1>1. /\ \A z \in 0..StackDepth : NodeOf(s)[z] = IF z = 0 THEN s ELSE NodeOf(s)[z - 1].dictionary[1]
      /\ \A z \in 0..StackDepth : NodeOf(d)[z] = IF z = 0 THEN d ELSE NodeOf(d)[z - 1].dictionary[1]
  BY NodesAre
<1>2. StackDepth \in Nat
  BY StackAssumption
<1>3. 0 \in T
  <2>1. ASSUME 0 < StackDepth PROVE NodeOf(d)[0] = NodeOf(s)[0 + 1]
    <3>1. 0 \in 0..StackDepth /\ 1 \in 0..StackDepth /\ 1 - 1 = 0 /\ 0 + 1 = 1 /\ 1 # 0
      BY <1>2, <2>1
    <3> QED
      BY <1>1, <3>1
  <2> HIDE DEF d
  <2> QED
    BY <2>1
<1>4. ASSUME NEW z \in T PROVE z + 1 \in T
  <2>1. z \in Nat
    OBVIOUS
  <2>2. ASSUME z + 1 < StackDepth PROVE NodeOf(d)[z + 1] = NodeOf(s)[z + 1 + 1]
    <3>1. NodeOf(d)[z] = NodeOf(s)[z + 1]
      BY <1>2, <2>1, <2>2
    <3>2. /\ z + 1 \in 0..StackDepth /\ z + 1 + 1 \in 0..StackDepth /\ z + 1 # 0 /\ z + 1 + 1 # 0
          /\ (z + 1) - 1 = z /\ (z + 1 + 1) - 1 = z + 1
      BY <1>2, <2>1, <2>2
    <3>3. NodeOf(d)[z + 1] = NodeOf(d)[z].dictionary[1]
      BY <1>1, <3>2
    <3>4. NodeOf(s)[z + 1 + 1] = NodeOf(s)[z + 1].dictionary[1]
      BY <1>1, <3>2
    <3> QED
      BY <3>1, <3>3, <3>4, Zenon
  <2> HIDE DEF d
  <2> QED
    BY <2>1, <2>2
<1>5. Nat \subseteq T
  <2>1. T \subseteq Nat
    OBVIOUS
  <2> HIDE DEF T
  <2> QED
    BY <1>3, <1>4, <2>1, NatInduct, Zenon
<1>6. k \in T
  BY <1>5
<1> HIDE DEF d
<1>7. NodeOf(d)[k] = NodeOf(s)[k + 1]
  BY <1>6
<1> QED
  BY <1>7 DEF d

LEMMA DictionaryIsAccepted ==
  ASSUME NEW u, NEW s, BelowOf(u, s)[StackDepth] = "ok"
  PROVE  ViewInit(u, s.dictionary[1]).error = "ok"
<1> DEFINE d == s.dictionary[1]
           N == StackDepth
           above == BelowOf(u, s)
           own == BelowOf(u, d)
           T == {z \in Nat : z < N /\ above[z] = "ok" => own[z + 1] = "ok"}
<1>1. /\ \A z \in 0..N : above[z] = IF z = 0 THEN "wild"
                                     ELSE ViewLevel(u, NodeOf(s)[N - z + 1], above[z - 1]).error
      /\ \A z \in 0..N : own[z] = IF z = 0 THEN "wild"
                                   ELSE ViewLevel(u, NodeOf(d)[N - z + 1], own[z - 1]).error
  BY ChecksAre
<1>2. N \in Nat
  BY StackAssumption
<1>3. \A k \in Nat : k < N => NodeOf(d)[k] = NodeOf(s)[k + 1]
  BY NodesBelow
<1>4. ViewInit(u, d) = ViewLevel(u, d, own[N])
  BY ViewInitIs
<1>5. above[N] = "ok"
  OBVIOUS
<1>6. N # 0 => NodeOf(s)[1] = d
  <2>1. ASSUME N # 0 PROVE NodeOf(s)[1] = d
    <3>1. 0 \in 0..StackDepth /\ 1 \in 0..StackDepth /\ 1 - 1 = 0 /\ 1 # 0
      BY <1>2, <2>1
    <3> QED
      BY <3>1, NodesAre
  <2> QED
    BY <2>1
<1> HIDE DEF d, N, above, own
<1>7. N # 0
  <2>1. 0 \in 0..N
    BY <1>2
  <2>2. above[0] = "wild"
    BY <1>1, <2>1
  <2> QED
    BY <1>5, <2>2
<1>8. 0 \in T
  <2>1. 0 \in 0..N
    BY <1>2
  <2>2. above[0] # "ok"
    BY <1>1, <2>1
  <2> QED
    BY <2>2
<1>9. ASSUME NEW z \in T PROVE z + 1 \in T
  <2>1. z \in Nat
    OBVIOUS
  <2>2. ASSUME z + 1 < N, above[z + 1] = "ok" PROVE own[z + 1 + 1] = "ok"
    <3>1. /\ z + 1 \in 0..N /\ z + 1 + 1 \in 0..N /\ z + 1 # 0 /\ z + 1 + 1 # 0
          /\ (z + 1) - 1 = z /\ (z + 1 + 1) - 1 = z + 1
          /\ N - (z + 1) + 1 = N - z /\ N - (z + 1 + 1) + 1 = N - z - 1
          /\ N - z - 1 \in Nat /\ N - z - 1 < N /\ N - z - 1 + 1 = N - z /\ z < N
      BY <1>2, <2>1, <2>2
    <3>2. above[z] = "ok" => own[z + 1] = "ok"
      BY <2>1, <3>1
    <3>3. ViewLevel(u, NodeOf(s)[N - z], above[z]).error = "ok"
      <4>1. above[z + 1] = ViewLevel(u, NodeOf(s)[N - z], above[z]).error
        BY <1>1, <3>1
      <4> QED
        BY <2>2, <4>1, Zenon
    <3>4. own[z + 1 + 1] = ViewLevel(u, NodeOf(d)[N - z - 1], own[z + 1]).error
      BY <1>1, <3>1
    <3>5. NodeOf(d)[N - z - 1] = NodeOf(s)[N - z]
      BY <1>3, <3>1
    <3> QED
      BY <3>2, <3>3, <3>4, <3>5, MoreIsAccepted
  <2> QED
    BY <2>1, <2>2
<1>10. Nat \subseteq T
  <2>1. T \subseteq Nat
    OBVIOUS
  <2> HIDE DEF T
  <2> QED
    BY <1>8, <1>9, <2>1, NatInduct, Zenon
<1>11. ViewLevel(u, d, above[N - 1]).error = "ok"
  <2>1. N \in 0..N /\ N - N + 1 = 1
    BY <1>2
  <2>2. above[N] = ViewLevel(u, NodeOf(s)[1], above[N - 1]).error
    BY <1>1, <1>7, <2>1
  <2> QED
    BY <1>5, <1>6, <1>7, <2>2
<1>12. above[N - 1] = "ok" => own[N] = "ok"
  <2>1. N - 1 \in T /\ N - 1 < N /\ N - 1 + 1 = N
    BY <1>2, <1>7, <1>10
  <2> QED
    BY <2>1
<1>13. ViewLevel(u, d, own[N]).error = "ok"
  BY <1>11, <1>12, MoreIsAccepted
<1> QED
  BY <1>4, <1>13 DEF d

(* What a format that was read says of the type.                           *)
LEMMA ParsedIs ==
  ASSUME NEW v, IsView(v), NEW s, Parse(v, s).error = "ok"
  PROVE  LET w == Parse(v, s).view IN
           /\ IsView(w)
           /\ w.type # "dictionary" /\ w.storage # "dictionary"
           /\ w.storage # w.type => w.storage \in {"int32", "int64"}
           /\ w.storage \in Sized => w.fixed_size = ToInt32(Strtol(s.format, 3).value)
           /\ w.storage \in Unions => /\ w.type_ids = SubSeq(s.format, 3, Len(s.format))
                                      /\ CountTypeIds(w.type_ids) = Len(s.children)
<1> DEFINE f == s.format
           head == f[1]
           p == Parse(v, s)
           w == p.view
           Goal == /\ IsView(w)
                   /\ w.type # "dictionary" /\ w.storage # "dictionary"
                   /\ w.storage # w.type => w.storage \in {"int32", "int64"}
                   /\ w.storage \in Sized => w.fixed_size = ToInt32(Strtol(f, 3).value)
                   /\ w.storage \in Unions => /\ w.type_ids = SubSeq(f, 3, Len(f))
                                              /\ CountTypeIds(w.type_ids) = Len(s.children)
<1> SUFFICES Goal
  BY Zenon
<1>0. p.error = "ok"
  OBVIOUS
<1>1. ASSUME NEW type, Plain(type), p = Parsed(SetPrimitive(v, type), 2) PROVE Goal
  <2>1. IsView(w) /\ w.type = type /\ w.storage = type
    BY <1>1, PrimitiveIs DEF Parsed
  <2> HIDE DEF p
  <2> QED
    BY <1>1, <2>1 DEF Plain
<1>2. CASE head \in SelfHeads
  BY <1>1, <1>2, ParseIs, HeadsAre, SelfStoredIsPlain
<1>3. CASE head \in NestHeads
  BY <1>1, <1>3, ParseIs, HeadsAre, NestedIsPlain
<1>4. CASE head \in TimeHeads
  <2> DEFINE e == DateTime[head]
             x == [v EXCEPT !.type = e[1], !.storage = e[2], !.unit = IF e[3] = "" THEN @ ELSE e[3]]
             zone == SubSeq(f, 3, Len(f))
             y == [x EXCEPT !.timezone = zone]
  <2>1. e[1] \in Timed \cup {"date32", "date64"} /\ e[2] \in {"int32", "int64"}
    BY <1>4, HeadsAre, DateTimeIs
  <2>2. p = IF e[1] # "timestamp" THEN Parsed(x, 2)
            ELSE IF At(f, 2) # ":" THEN Refused(v) ELSE Parsed(y, Len(f) + 1)
    BY <1>4, ParseIs DEF ParseDateTime
  <2> HIDE DEF e, zone
  <2>3. IsView(x) /\ x.type = e[1] /\ x.storage = e[2]
    BY DEF IsView, ViewMembers
  <2> HIDE DEF x
  <2>4. IsView(y) /\ y.type = e[1] /\ y.storage = e[2]
    BY <2>3 DEF IsView, ViewMembers
  <2> HIDE DEF y, p
  <2>5. w = x \/ w = y
    BY <1>0, <2>2 DEF Parsed, Refused
  <2>6. IsView(w) /\ w.type = e[1] /\ w.storage = e[2]
    BY <2>3, <2>4, <2>5
  <2> QED
    BY <2>1, <2>6 DEF Timed, Sized, Unions
<1>5. CASE head = "d"
  <2> DEFINE precision == Strtol(f, 3)
             scale == Strtol(f, precision.next + 1)
             width == Strtol(f, scale.next + 1)
             given == At(f, scale.next) = ","
             bits  == IF given THEN ToInt32(width.value) ELSE 128
             bad   == \/ At(f, 2) # ":" \/ precision.next = 3 \/ At(f, precision.next) # ","
                      \/ scale.next = precision.next + 1
                      \/ (given /\ width.next = scale.next + 1)
                      \/ DecimalOf(bits) = "none"
             a == ToInt32(precision.value)
             b == ToInt32(scale.value)
             o == DecimalOf(bits)
             x == SetPrimitive(v, o)
             y == [x EXCEPT !.precision = a, !.scale = b, !.bitwidth = bits]
             next == IF given THEN width.next ELSE scale.next
  <2>1. p = IF bad THEN Refused(v) ELSE Parsed(y, next)
    <3>1. p = ParseDecimal(v, f)
      BY <1>5, ParseIs
    <3> HIDE DEF p
    <3> QED
      BY <3>1 DEF ParseDecimal, DefaultBitWidth
  <2>2. o \in Decimals \cup {"none"}
    BY DecimalIs
  <2>3. ~bad => o # "none"
    OBVIOUS
  <2> HIDE DEF bad, a, b, bits, next, o
  <2>4. IsView(x) /\ x.type = o /\ x.storage = o
    BY PrimitiveIs
  <2> HIDE DEF x
  <2>5. IsView(y) /\ y.type = o /\ y.storage = o
    BY <2>4 DEF IsView, ViewMembers
  <2> HIDE DEF y, p
  <2>6. w = y /\ o \in Decimals
    BY <1>0, <2>1, <2>2, <2>3 DEF Parsed, Refused
  <2> QED
    BY <2>5, <2>6 DEF Decimals, Sized, Unions
<1>6. CASE head \in {"w", "+w"}
  <2> DEFINE bad == At(f, 2) # ":" \/ Len(f) < 3
             a == ToInt32(Strtol(f, 3).value)
             o == IF f[1] = "w" THEN "fixed_size_binary" ELSE "fixed_size_list"
             x == SetPrimitive(v, o)
             y == [x EXCEPT !.fixed_size = a]
             next == Strtol(f, 3).next
  <2>1. p = IF bad THEN Refused(v) ELSE Parsed(y, next)
    BY <1>6, ParseIs DEF ParseFixedSize
  <2>2. o \in Sized
    BY DEF Sized
  <2>4. IsView(x) /\ x.type = o /\ x.storage = o
    BY PrimitiveIs
  <2> HIDE DEF bad, a, next, o, x
  <2>5. IsView(y) /\ y.type = o /\ y.storage = o /\ y.fixed_size = a
    BY <2>4 DEF IsView, ViewMembers
  <2> HIDE DEF y, p
  <2>6. w = y
    BY <1>0, <2>1 DEF Parsed, Refused
  <2> QED
    BY <2>2, <2>5, <2>6 DEF Sized, Unions, a
<1>7. CASE head \in {"+ud", "+us"}
  <2> DEFINE ids == SubSeq(f, 3, Len(f))
             bad == At(f, 2) # ":" \/ ~CountFits(ids, Len(s.children))
             o == IF f[1] = "+ud" THEN "dense_union" ELSE "sparse_union"
             x == SetPrimitive(v, o)
             y == [x EXCEPT !.type_ids = ids]
             next == Len(f) + 1
  <2>1. p = IF bad THEN Refused(v) ELSE Parsed(y, next)
    BY <1>7, ParseIs DEF ParseUnion
  <2>2. o \in Unions
    BY DEF Unions
  <2>3. ~bad => CountTypeIds(ids) = Len(s.children)
    BY DEF CountFits
  <2>4. IsView(x) /\ x.type = o /\ x.storage = o
    BY PrimitiveIs
  <2> HIDE DEF bad, ids, next, o, x
  <2>5. IsView(y) /\ y.type = o /\ y.storage = o /\ y.type_ids = ids
    BY <2>4 DEF IsView, ViewMembers
  <2> HIDE DEF y, p
  <2>6. w = y /\ CountTypeIds(ids) = Len(s.children)
    BY <1>0, <2>1, <2>3 DEF Parsed, Refused
  <2> QED
    BY <2>2, <2>5, <2>6 DEF Sized, Unions, ids
<1>8. CASE head \notin SelfHeads \cup NestHeads \cup TimeHeads \cup {"d", "w", "+w", "+ud", "+us"}
  <2>1. p = Refused(v)
    BY <1>8, ParseIs
  <2> HIDE DEF p
  <2> QED
    BY <1>0, <2>1 DEF Refused
<1> HIDE DEF Goal
<1> QED
  BY <1>2, <1>3, <1>4, <1>5, <1>6, <1>7, <1>8

(* Integers of 32 bits.                                                    *)
LEMMA ToInt32Is ==
  ASSUME NEW n \in Int
  PROVE  /\ ToInt32(n) \in -(IntMax + 1)..IntMax
         /\ n \in -(IntMax + 1)..IntMax => ToInt32(n) = n
<1> DEFINE w == 2 * (IntMax + 1)
           a == n + IntMax + 1
<1>1. w \in Nat /\ w > 0 /\ a \in Int /\ IntMax \in Nat
  BY IntMaxAssumption
<1>2. a % w \in 0..(w - 1) /\ (a \in 0..(w - 1) => a % w = a)
  <2> HIDE DEF w, a
  <2> QED
    BY <1>1
<1>3. ToInt32(n) = (a % w) - IntMax - 1
  BY DEF ToInt32
<1> DEFINE m == a % w
<1> HIDE DEF m
<1>4. m \in 0..(w - 1) /\ (a \in 0..(w - 1) => m = a) /\ ToInt32(n) = m - IntMax - 1
  BY <1>2, <1>3 DEF m
<1> QED
  BY <1>1, <1>4

LEMMA StrtolIs ==
  ASSUME NEW f, NEW z
  PROVE  Strtol(f, z).value \in Int
BY NumeralAssumption DEF Strtol

LEMMA OddIs ==
  /\ \A k \in Nat : k % 2 = 1 => (k + 1) \div 2 \in Nat \ {0} /\ k = 2 * ((k + 1) \div 2) - 1
  /\ \A q \in Nat \ {0} : 2 * q - 1 \in Nat /\ (2 * q - 1) % 2 = 1
OBVIOUS

(* Type ids that can be counted are numbers from 0 to 127 at the odd       *)
(* positions, as many as were counted.                                     *)
LEMMA TypeIdsAre ==
  ASSUME NEW S, NEW ids \in Seq(S), NEW n \in Nat, CountTypeIds(ids) = n
  PROVE  /\ {k \in DOMAIN ids : k % 2 = 1} = {2 * q - 1 : q \in 1..n}
         /\ \A q \in 1..n : Numeral[ids[2 * q - 1]] \in 0..127
         /\ ids # <<>> => Len(ids) = 2 * n - 1
<1>1. CASE ids = <<>>
  <2>1. n = 0
    BY <1>1 DEF CountTypeIds
  <2>2. 1..n = {} /\ DOMAIN ids = {}
    BY <1>1, <2>1
  <2> QED
    BY <1>1, <2>2
<1>2. CASE ids # <<>>
  <2> DEFINE l == Len(ids)
             Alternate == \A z \in DOMAIN ids : IF z % 2 = 1 THEN IsTypeId(ids[z]) ELSE ids[z] = ","
  <2>1. l \in Nat /\ DOMAIN ids = 1..l
    OBVIOUS
  <2>2b. n = CASE ids = <<>> -> 0
               [] l % 2 = 1 /\ Alternate -> (l + 1) \div 2
               [] OTHER -> -1
    BY DEF CountTypeIds
  <2> HIDE DEF Alternate, l
  <2>2. l % 2 = 1 /\ Alternate /\ n = (l + 1) \div 2
    <3>1. n # -1
      OBVIOUS
    <3> QED
      BY <1>2, <2>2b, <3>1
  <2>2a. \A z \in DOMAIN ids : z % 2 = 1 => IsTypeId(ids[z])
    BY <2>2 DEF Alternate
  <2>3. l = 2 * n - 1
    BY <2>1, <2>2, OddIs
  <2>4. \A q \in 1..n : 2 * q - 1 \in 1..l /\ (2 * q - 1) % 2 = 1
    BY <2>3, OddIs
  <2>5. \A k \in 1..l : k % 2 = 1 => \E q \in 1..n : k = 2 * q - 1
    <3> SUFFICES ASSUME NEW k \in 1..l, k % 2 = 1 PROVE \E q \in 1..n : k = 2 * q - 1
      OBVIOUS
    <3> DEFINE q == (k + 1) \div 2
    <3>1. q \in Nat \ {0} /\ k = 2 * q - 1
      <4>1. k \in Nat /\ k % 2 = 1
        BY <2>1
      <4>2. (k + 1) \div 2 \in Nat \ {0} /\ k = 2 * ((k + 1) \div 2) - 1
        BY <4>1, OddIs, Zenon
      <4> QED
        BY <4>2
    <3> HIDE DEF q
    <3>2. q \in 1..n
      BY <2>1, <2>3, <3>1
    <3> QED
      BY <3>1, <3>2
  <2>6. {k \in DOMAIN ids : k % 2 = 1} = {2 * q - 1 : q \in 1..n}
    <3> DEFINE Odd == {k \in DOMAIN ids : k % 2 = 1}
               Ids == {2 * q - 1 : q \in 1..n}
    <3>1. ASSUME NEW k \in Odd PROVE k \in Ids
      <4>1. \E q \in 1..n : k = 2 * q - 1
        BY <2>1, <2>5
      <4> QED
        BY <4>1
    <3>2. ASSUME NEW k \in Ids PROVE k \in Odd
      <4>1. PICK q \in 1..n : k = 2 * q - 1
        OBVIOUS
      <4> QED
        BY <2>1, <2>4, <4>1
    <3> QED
      BY <3>1, <3>2
  <2>7. \A q \in 1..n : IsTypeId(ids[2 * q - 1])
    BY <2>1, <2>2a, <2>4
  <2>8. \A q \in 1..n : Numeral[ids[2 * q - 1]] \in 0..127
    BY <2>7 DEF IsTypeId
  <2> QED
    BY <2>3, <2>6, <2>8 DEF l
<1> QED
  BY <1>1, <1>2

(* What the checks of a type that was read ask of the schema.              *)
LEMMA StorageIsChecked ==
  ASSUME NEW v, NEW s, NEW inner, Verdict(v, s, inner) = "ok", v.storage # "dictionary"
  PROVE  /\ \A z \in DOMAIN s.children : s.children[z].live
         /\ v.storage = "fixed_size_binary" => ~(v.fixed_size <= 0)
         /\ v.storage = "map" => Len(s.children) = 1 /\ Len(s.children[1].children) = 2
         /\ v.storage # "map" => NChildren(v.storage) \in {-1, Len(s.children)}
         /\ v.type = "dictionary" => v.storage \in Integers /\ inner = "ok"
<1> DEFINE type == v.storage
<1>1. Validate(v, s, type, inner) = "ok" /\ (v.type # type => Validate(v, s, v.type, inner) = "ok")
  BY DEF Verdict
<1>2. ~(type = "fixed_size_binary" /\ v.fixed_size <= 0)
  BY <1>1 DEF Validate
<1>3. ASSUME NEW n, ValidateNChildren(s, n) = "ok"
      PROVE  n \in {-1, Len(s.children)} /\ \A z \in DOMAIN s.children : s.children[z].live
  BY <1>3 DEF ValidateNChildren
<1>4. CASE type = "map"
  <2>1. ValidateMap(s) = "ok"
    BY <1>1, <1>4 DEF Validate
  <2>2. ValidateNChildren(s, 1) = "ok"
    BY <2>1 DEF ValidateMap
  <2>3. Len(s.children[1].children) = 2
    BY <2>1, <2>2 DEF ValidateMap
  <2>4. Len(s.children) = 1 /\ \A z \in DOMAIN s.children : s.children[z].live
    <3>1. 1 \in {-1, Len(s.children)} /\ \A z \in DOMAIN s.children : s.children[z].live
      BY <1>3, <2>2
    <3>2. 1 # -1
      OBVIOUS
    <3> QED
      BY <3>1, <3>2
  <2> QED
    BY <1>1, <1>4, <2>3, <2>4 DEF Validate, ValidateDictionary
<1>5. CASE type # "map"
  <2>1. ValidateNChildren(s, NChildren(type)) = "ok"
    BY <1>1, <1>2, <1>5 DEF Validate
  <2>2. v.type = "dictionary" => v.storage \in Integers /\ inner = "ok"
    BY <1>1 DEF Validate, ValidateDictionary
  <2> QED
    BY <1>2, <1>3, <1>5, <2>1, <2>2
<1> QED
  BY <1>4, <1>5

Laid(w, x) == [Layout(w) EXCEPT !.extension = x]

LEMMA LaidOut ==
  ASSUME NEW w, IsView(w), NEW x, NEW v, v = Laid(w, x)
  PROVE  /\ v.type = w.type /\ v.storage = w.storage /\ v.fixed_size = w.fixed_size
         /\ v.type_ids = w.type_ids
         /\ v.element_bits = IF w.storage = "fixed_size_binary" THEN ToInt32(w.fixed_size * 8) ELSE 0
<1> DEFINE y == [Layout(w) EXCEPT !.extension = x]
<1>1. /\ \A m \in ViewMembers \ {"element_bits", "child_size", "extension"} : y[m] = w[m]
      /\ y.element_bits = IF w.storage = "fixed_size_binary" THEN ToInt32(w.fixed_size * 8) ELSE 0
  BY LayoutIs
<1>2. v = y
  BY DEF Laid
<1> HIDE DEF y
<1> QED
  BY <1>1, <1>2 DEF ViewMembers

LEMMA UsableIs ==
  ASSUME NEW s, Len(s.children) \in Nat, DOMAIN s.children = 1..Len(s.children),
         NEW S, s.format \in Seq(S), NEW v \in Accepted(s)
  PROVE  /\ \A z \in DOMAIN s.children : s.children[z].live
         /\ Len(s.children) =
              CASE v.storage \in {"list", "large_list", "fixed_size_list", "map"} -> 1
                [] v.storage = "run_end_encoded" -> 2
                [] v.storage \in {"struct", "sparse_union", "dense_union"} -> Len(s.children)
                [] OTHER -> 0
         /\ v.storage = "map" => Len(s.children[1].children) = 2
         /\ v.storage \in {"sparse_union", "dense_union"} =>
              /\ {k \in DOMAIN v.type_ids : k % 2 = 1} = {2 * q - 1 : q \in DOMAIN s.children}
              /\ \A q \in DOMAIN s.children : Numeral[v.type_ids[2 * q - 1]] \in 0..127
              /\ v.type_ids # <<>> => Len(v.type_ids) = 2 * Len(s.children) - 1
         /\ v.storage = "fixed_size_binary" => v.element_bits > 0 \/ v.fixed_size > IntMax \div 8
         /\ (v.type = "dictionary") = (s.dictionary # <<>>)
         /\ v.type = "dictionary" =>
              v.storage \in Integers /\ Accepted(s.dictionary[1]) # {}
<1> DEFINE inner == BelowOf(Blank, s)[StackDepth]
           p == Parse(Blank, s)
           w == Typed(p, s)
           u == p.view
<1>1. ViewLevel(Blank, s, inner).error = "ok" /\ v = ViewLevel(Blank, s, inner).view
  BY ViewInitIs DEF Accepted, Outcome
<1>2. p.error = "ok" /\ Verdict(w, s, inner) = "ok"
      /\ v = [Layout(w) EXCEPT !.extension = s.extension]
  <2> DEFINE x == [Layout(w) EXCEPT !.extension = s.extension]
  <2>1. p.error = "ok" /\ Verdict(w, s, inner) = "ok" /\ ViewLevel(Blank, s, inner) = Parsed(x, p.next)
    BY <1>1, AcceptedIs
  <2> HIDE DEF x, p, w, inner
  <2> QED
    BY <1>1, <2>1 DEF Parsed, x
<1>3. /\ IsView(u)
      /\ u.type # "dictionary" /\ u.storage # "dictionary"
      /\ u.storage \in Sized => u.fixed_size = ToInt32(Strtol(s.format, 3).value)
      /\ u.storage \in Unions => /\ CountTypeIds(u.type_ids) = Len(s.children)
                                 /\ u.type_ids = SubSeq(s.format, 3, Len(s.format))
  BY <1>2, BlankIsView, ParsedIs
<1>4. s.dictionary # <<>> /\ inner = "ok" => ViewInit(Blank, s.dictionary[1]).error = "ok"
  BY DictionaryIsAccepted
<1>4a. w = IF s.dictionary # <<>> THEN [u EXCEPT !.type = "dictionary"] ELSE u
  BY DEF Typed
<1> HIDE DEF inner, p, w, u
<1>5. /\ IsView(w) /\ w.storage = u.storage /\ w.fixed_size = u.fixed_size /\ w.type_ids = u.type_ids
      /\ (w.type = "dictionary") = (s.dictionary # <<>>)
  BY <1>3, <1>4a DEF IsView, ViewMembers
<1>6. /\ v.type = w.type /\ v.storage = w.storage /\ v.fixed_size = w.fixed_size
      /\ v.type_ids = w.type_ids
      /\ v.element_bits = IF w.storage = "fixed_size_binary" THEN ToInt32(w.fixed_size * 8) ELSE 0
  <2>1. v = Laid(w, s.extension)
    BY <1>2 DEF Laid
  <2> QED
    BY <1>5, <2>1, LaidOut
<1>7. /\ \A z \in DOMAIN s.children : s.children[z].live
      /\ w.storage = "fixed_size_binary" => ~(w.fixed_size <= 0)
      /\ w.storage = "map" => Len(s.children) = 1 /\ Len(s.children[1].children) = 2
      /\ w.storage # "map" => NChildren(w.storage) \in {-1, Len(s.children)}
      /\ w.type = "dictionary" => w.storage \in Integers /\ inner = "ok"
  BY <1>2, <1>3, <1>5, StorageIsChecked
<1>8. Len(s.children) =
        CASE v.storage \in {"list", "large_list", "fixed_size_list", "map"} -> 1
          [] v.storage = "run_end_encoded" -> 2
          [] v.storage \in {"struct", "sparse_union", "dense_union"} -> Len(s.children)
          [] OTHER -> 0
  <2> DEFINE n == Len(s.children)
             t == v.storage
  <2>1. /\ t = w.storage /\ (t = "map" => n = 1)
        /\ t # "map" => NChildren(t) = -1 \/ NChildren(t) = n
    BY <1>6, <1>7
  <2> HIDE DEF n, t
  <2>2. CASE t \in {"list", "large_list", "fixed_size_list"}
    <3>1. NChildren(t) = 1
      BY <2>2 DEF NChildren
    <3>2. n = 1
      BY <2>1, <2>2, <3>1
    <3> QED
      BY <2>2, <3>2 DEF n, t
  <2>3. CASE t = "run_end_encoded"
    <3>1. NChildren(t) = 2
      BY <2>3 DEF NChildren
    <3>2. n = 2
      BY <2>1, <2>3, <3>1
    <3> QED
      BY <2>3, <3>2 DEF n, t
  <2>4. CASE t = "map"
    BY <2>1, <2>4 DEF n, t
  <2>5. CASE t \in {"struct", "sparse_union", "dense_union"}
    BY <2>5 DEF t
  <2>6. CASE t \notin {"list", "large_list", "fixed_size_list", "run_end_encoded", "map", "struct",
                       "sparse_union", "dense_union"}
    <3>1. NChildren(t) = 0
      BY <2>6 DEF NChildren
    <3>2. n = 0
      BY <2>1, <2>6, <3>1
    <3> QED
      BY <2>6, <3>2 DEF n, t
  <2> QED
    BY <2>2, <2>3, <2>4, <2>5, <2>6
<1>9. v.storage \in Unions =>
        /\ {k \in DOMAIN v.type_ids : k % 2 = 1} = {2 * q - 1 : q \in DOMAIN s.children}
        /\ \A q \in DOMAIN s.children : Numeral[v.type_ids[2 * q - 1]] \in 0..127
        /\ v.type_ids # <<>> => Len(v.type_ids) = 2 * Len(s.children) - 1
  <2> SUFFICES ASSUME v.storage \in Unions
               PROVE  /\ {k \in DOMAIN v.type_ids : k % 2 = 1} = {2 * q - 1 : q \in DOMAIN s.children}
                      /\ \A q \in DOMAIN s.children : Numeral[v.type_ids[2 * q - 1]] \in 0..127
                      /\ v.type_ids # <<>> => Len(v.type_ids) = 2 * Len(s.children) - 1
    OBVIOUS
  <2> DEFINE ids == v.type_ids
             n == Len(s.children)
  <2>1. CountTypeIds(ids) = n /\ ids = SubSeq(s.format, 3, Len(s.format))
    BY <1>3, <1>5, <1>6
  <2>2. ids \in Seq(S) /\ n \in Nat /\ DOMAIN s.children = 1..n
    BY <2>1
  <2> HIDE DEF ids, n
  <2>3. /\ {k \in DOMAIN ids : k % 2 = 1} = {2 * q - 1 : q \in 1..n}
        /\ \A q \in 1..n : Numeral[ids[2 * q - 1]] \in 0..127
        /\ ids # <<>> => Len(ids) = 2 * n - 1
    BY <2>1, <2>2, TypeIdsAre
  <2> QED
    BY <2>2, <2>3 DEF ids, n
<1>10. v.storage = "fixed_size_binary" => v.element_bits > 0 \/ v.fixed_size > IntMax \div 8
  <2> SUFFICES ASSUME v.storage = "fixed_size_binary", ~(v.fixed_size > IntMax \div 8)
               PROVE  v.element_bits > 0
    OBVIOUS
  <2> DEFINE n == v.fixed_size
  <2>1. n \in Int
    BY <1>3, <1>5, <1>6, ToInt32Is, StrtolIs DEF Sized
  <2>2. ~(n <= 0) /\ v.element_bits = ToInt32(n * 8)
    BY <1>6, <1>7
  <2>3. n <= IntMax \div 8 /\ IntMax \in Nat
    BY <2>1, IntMaxAssumption
  <2> HIDE DEF n
  <2>4. n * 8 \in -(IntMax + 1)..IntMax /\ n * 8 > 0 /\ n * 8 \in Int
    BY <2>1, <2>2, <2>3
  <2> QED
    BY <2>2, <2>4, ToInt32Is
<1>11. v.type = "dictionary" => v.storage \in Integers /\ Accepted(s.dictionary[1]) # {}
  BY <1>4, <1>5, <1>6, <1>7 DEF Accepted, Outcome
<1> QED
  BY <1>5, <1>6, <1>7, <1>8, <1>9, <1>10, <1>11 DEF Unions

---------------------------------------------------------------------------
(* Every call leaves a node with an array of children.                     *)

LEMMA FormatIsSet ==
  ASSUME NEW s, IsNode(s), NEW f
  PROVE  IsNode(SetFormat(s, f)) /\ SetFormat(s, f).children = s.children
BY DEF IsNode, NodeMembers, SetFormat

LEMMA ChildrenAreSet ==
  ASSUME NEW s, IsNode(s), NEW n \in Nat, NEW o, DOMAIN o = 1..n
  PROVE  IsNode([s EXCEPT !.children = o])
<1> DEFINE t == [s EXCEPT !.children = o]
<1>1. t = [m \in NodeMembers |-> t[m]] /\ t.children = o
  BY DEF IsNode, NodeMembers
<1>2. Len(o) = n
  OBVIOUS
<1> HIDE DEF t
<1> QED
  BY <1>1, <1>2 DEF IsNode

LEMMA FreshIsNode == IsNode(Fresh) /\ Fresh.children = <<>>
<1>1. Fresh = [m \in NodeMembers |-> Fresh[m]] /\ Fresh.children = <<>>
  BY DEF Fresh, NodeMembers
<1>2. Len(<<>>) = 0 /\ DOMAIN <<>> = 1..0
  OBVIOUS
<1> QED
  BY <1>1, <1>2 DEF IsNode

LEMMA ChildrenAreAllocated ==
  ASSUME NEW s, IsNode(s), NEW n \in Nat
  PROVE  IsNode(AllocateChildren(s, n).node)
<1> DEFINE o == [z \in 1..n |-> Unset]
           t == [s EXCEPT !.children = o]
<1>1. DOMAIN o = 1..n
  OBVIOUS
<1>2. AllocateChildren(s, n) = IF s.children # <<>> THEN Fails("EEXIST", s) ELSE Done(t)
  BY DEF AllocateChildren
<1> HIDE DEF o
<1>3. IsNode(t)
  BY <1>1, ChildrenAreSet
<1> HIDE DEF t
<1> QED
  BY <1>2, <1>3 DEF Fails, Done

LEMMA ChildrenAreAdded ==
  ASSUME NEW s, IsNode(s), NEW n \in Nat, NEW child
  PROVE  IsNode(AddChildren(s, n, child).node)
<1> DEFINE r == AllocateChildren(s, n)
           q == r.node
           o == [z \in 1..n |-> child[z]]
           t == [q EXCEPT !.children = o]
<1>1. DOMAIN o = 1..n
  OBVIOUS
<1>2. AddChildren(s, n, child) = IF r.error = "ok" THEN Done(t) ELSE r
  BY DEF AddChildren
<1>3. IsNode(q)
  BY ChildrenAreAllocated
<1> HIDE DEF o, q
<1>4. IsNode(t)
  BY <1>1, <1>3, ChildrenAreSet
<1> HIDE DEF t, r
<1> QED
  BY <1>2, <1>3, <1>4 DEF Done, q

LEMMA ChildrenAreInitialised ==
  ASSUME NEW s, IsNode(s), NEW type
  PROVE  IsNode(InitChildrenIfNeeded(s, type).node)
<1> DEFINE a == <<Fresh>>
           b == <<[NonNull(Fresh) EXCEPT !.format = <<"+s">>, !.children = <<NonNull(Fresh), Fresh>>]>>
           o == <<NonNull(Fresh), Fresh>>
           r == InitChildrenIfNeeded(s, type)
<1>1. r = AddChildren(s, 1, a) \/ r = AddChildren(s, 1, b) \/ r = AddChildren(s, 2, o) \/ r = Done(s)
  BY DEF InitChildrenIfNeeded
<1> HIDE DEF a, b, o, r
<1>2. /\ IsNode(AddChildren(s, 1, a).node) /\ IsNode(AddChildren(s, 1, b).node)
      /\ IsNode(AddChildren(s, 2, o).node)
  BY ChildrenAreAdded
<1>3. IsNode(Done(s).node)
  BY DEF Done
<1>4. IsNode(r.node)
  BY <1>1, <1>2, <1>3, Zenon
<1> QED
  BY <1>4 DEF r

LEMMA TypeIsSet ==
  ASSUME NEW s, IsNode(s), NEW type
  PROVE  IsNode(SetType(s, type).node)
<1> DEFINE f == FormatTemplate[type]
           r == SetType(s, type)
<1>1. \/ r = Done(SetFormat(s, <<>>))
      \/ r = InitChildrenIfNeeded(SetFormat(s, f), type)
      \/ r = Fails("EINVAL", s)
  BY DEF SetType
<1> HIDE DEF r, f
<1>2. /\ IsNode(SetFormat(s, <<>>)) /\ IsNode(SetFormat(s, f))
  BY FormatIsSet
<1>3. IsNode(InitChildrenIfNeeded(SetFormat(s, f), type).node)
  BY <1>2, ChildrenAreInitialised
<1>4. IsNode(Done(SetFormat(s, <<>>)).node) /\ IsNode(Fails("EINVAL", s).node)
  BY <1>2 DEF Done, Fails
<1>5. IsNode(r.node)
  BY <1>1, <1>3, <1>4, Zenon
<1> QED
  BY <1>5 DEF r

LEMMA RunEndsAreSet ==
  ASSUME NEW s, IsNode(s), NEW type
  PROVE  IsNode(SetTypeRunEndEncoded(s, type).node)
<1> DEFINE r == InitChildrenIfNeeded(SetFormat(s, <<"+r">>), "run_end_encoded")
           q == r.node
           o == <<SetType(q.children[1], type).node, SetType(q.children[2], "uninitialized").node>>
           t == [q EXCEPT !.children = o]
<1>1. IsNode(q)
  BY FormatIsSet, ChildrenAreInitialised
<1>2. SetTypeRunEndEncoded(s, type) =
        IF type \notin {"int16", "int32", "int64"} THEN Fails("EINVAL", s)
        ELSE IF r.error # "ok" THEN r ELSE Done(t)
  BY DEF SetTypeRunEndEncoded
<1>3. DOMAIN o = 1..2
  OBVIOUS
<1> HIDE DEF r, q, o
<1>4. IsNode(t)
  BY <1>1, <1>3, ChildrenAreSet
<1> HIDE DEF t
<1> QED
  BY <1>1, <1>2, <1>4 DEF Fails, Done, q

(* The setters by their names.                                             *)
LEMMA ResultIs ==
  ASSUME NEW a, NEW s
  PROVE  /\ Result("SetType", a, s) = SetType(s, a[1])
         /\ Result("SetTypeStruct", a, s) = SetTypeStruct(s, a[1])
         /\ Result("SetTypeFixedSize", a, s) = SetTypeFixedSize(s, a[1], a[2])
         /\ Result("SetTypeDecimal", a, s) = SetTypeDecimal(s, a[1], a[2], a[3])
         /\ Result("SetTypeRunEndEncoded", a, s) = SetTypeRunEndEncoded(s, a[1])
         /\ Result("SetTypeDateTime", a, s) = SetTypeDateTime(s, a[1], a[2], a[3])
         /\ Result("SetTypeUnion", a, s) = SetTypeUnion(s, a[1], a[2])
<1>1. Result("SetType", a, s) = SetType(s, a[1])
  BY DEF Result
<1>2. Result("SetTypeStruct", a, s) = SetTypeStruct(s, a[1])
  BY DEF Result
<1>3. Result("SetTypeFixedSize", a, s) = SetTypeFixedSize(s, a[1], a[2])
  BY DEF Result
<1>4. Result("SetTypeDecimal", a, s) = SetTypeDecimal(s, a[1], a[2], a[3])
  BY DEF Result
<1>5. Result("SetTypeRunEndEncoded", a, s) = SetTypeRunEndEncoded(s, a[1])
  BY DEF Result
<1>6. Result("SetTypeDateTime", a, s) = SetTypeDateTime(s, a[1], a[2], a[3])
  BY DEF Result
<1>7. Result("SetTypeUnion", a, s) = SetTypeUnion(s, a[1], a[2])
  BY DEF Result
<1> QED
  BY <1>1, <1>2, <1>3, <1>4, <1>5, <1>6, <1>7

LEMMA SettersKeepNodes ==
  ASSUME NEW s, IsNode(s), NEW call, NEW a, IsCall(call, a)
  PROVE  IsNode(Result(call, a, s).node)
<1> DEFINE Kept(r) == IsNode(r.node)
<1>1. ASSUME NEW f PROVE Kept(Done(SetFormat(s, f)))
  BY FormatIsSet DEF Done
<1>2. ASSUME NEW e PROVE Kept(Fails(e, s))
  BY DEF Fails
<1>3. Kept(SetType(s, a[1]))
  BY TypeIsSet
<1>4. ASSUME a[1] \in Nat PROVE Kept(SetTypeStruct(s, a[1]))
  <2> DEFINE r == SetType(s, "struct")
             q == r.node
             child == [z \in 1..a[1] |-> Fresh]
  <2>1. SetTypeStruct(s, a[1]) = IF r.error = "ok" THEN AddChildren(q, a[1], child) ELSE r
    BY DEF SetTypeStruct
  <2>2. IsNode(q)
    BY TypeIsSet
  <2> HIDE DEF child, q
  <2>3. Kept(AddChildren(q, a[1], child))
    BY <1>4, <2>2, ChildrenAreAdded
  <2> HIDE DEF r
  <2> QED
    BY <2>1, <2>2, <2>3 DEF q
<1>5. Kept(SetTypeFixedSize(s, a[1], a[2]))
  <2> DEFINE f == <<IF a[1] = "fixed_size_binary" THEN "w" ELSE "+w", ":", Digits(a[2])>>
             bad == a[2] <= 0 \/ a[1] \notin {"fixed_size_binary", "fixed_size_list"}
  <2>1. SetTypeFixedSize(s, a[1], a[2]) =
          IF bad THEN Fails("EINVAL", s) ELSE InitChildrenIfNeeded(SetFormat(s, f), a[1])
    BY DEF SetTypeFixedSize
  <2> HIDE DEF f, bad
  <2>2. Kept(InitChildrenIfNeeded(SetFormat(s, f), a[1]))
    BY FormatIsSet, ChildrenAreInitialised
  <2> HIDE DEF Kept
  <2> QED
    BY <1>2, <2>1, <2>2
<1>6. Kept(SetTypeDecimal(s, a[1], a[2], a[3]))
  <2> DEFINE f == <<"d", ":", Digits(a[2]), ",", Digits(a[3])>> \o BitWidthArgument[a[1]]
             bad == a[2] <= 0 \/ a[1] \notin DOMAIN BitWidthArgument
  <2>1. SetTypeDecimal(s, a[1], a[2], a[3]) = IF bad THEN Fails("EINVAL", s) ELSE Done(SetFormat(s, f))
    BY DEF SetTypeDecimal
  <2> HIDE DEF f, bad, Kept
  <2> QED
    BY <1>1, <1>2, <2>1
<1>7. Kept(SetTypeRunEndEncoded(s, a[1]))
  BY RunEndsAreSet
<1>8. Kept(SetTypeDateTime(s, a[1], a[2], a[3]))
  <2> DEFINE f == <<DateTimeHead[a[1]][a[2]]>> \o
                  (IF a[1] = "timestamp" THEN <<":">> \o Zone(a[3]) ELSE <<>>)
             bad == \/ a[1] \notin DOMAIN DateTimeHead \/ (a[1] # "timestamp" /\ a[3] # NoZone)
                    \/ a[2] \notin DOMAIN DateTimeHead[a[1]]
             long == a[1] = "timestamp" /\ a[3] \in LongZones
  <2>1. SetTypeDateTime(s, a[1], a[2], a[3]) =
          IF bad THEN Fails("EINVAL", s) ELSE IF long THEN Fails("ERANGE", s) ELSE Done(SetFormat(s, f))
    BY Zenon DEF SetTypeDateTime
  <2> HIDE DEF f, bad, long, Kept
  <2> QED
    BY <1>1, <1>2, <2>1
<1>9. Kept(SetTypeUnion(s, a[1], a[2]))
  <2> DEFINE f == <<IF a[1] = "sparse_union" THEN "+us" ELSE "+ud", ":">> \o TypeIds(a[2])
             bad == a[2] \notin 0..127 \/ a[1] \notin {"sparse_union", "dense_union"}
             child == [z \in 1..a[2] |-> Fresh]
  <2>1. SetTypeUnion(s, a[1], a[2]) =
          IF bad THEN Fails("EINVAL", s) ELSE AddChildren(SetFormat(s, f), a[2], child)
    BY DEF SetTypeUnion
  <2>2. ~bad => a[2] \in Nat
    OBVIOUS
  <2> HIDE DEF f, bad, child
  <2>3. ~bad => Kept(AddChildren(SetFormat(s, f), a[2], child))
    BY <2>2, FormatIsSet, ChildrenAreAdded
  <2> HIDE DEF Kept
  <2> QED
    BY <1>2, <2>1, <2>3
<1> HIDE DEF Kept
<1>10. Kept(Result(call, a, s))
  <2>1. CASE call = "SetTypeStruct"
    <3>1. a[1] \in Nat
      BY <2>1 DEF IsCall
    <3> QED
      BY <1>4, <2>1, <3>1, ResultIs
  <2>2. CASE call # "SetTypeStruct"
    <3>1. call \in {"SetType", "SetTypeFixedSize", "SetTypeDecimal", "SetTypeRunEndEncoded",
                    "SetTypeDateTime", "SetTypeUnion"}
      BY <2>2 DEF IsCall
    <3> QED
      BY <1>3, <1>5, <1>6, <1>7, <1>8, <1>9, <3>1, ResultIs
  <2> QED
    BY <2>1, <2>2
<1> QED
  BY <1>10 DEF Kept

(* The numerals of the setters' arguments.                                 *)
LEMMA WrittenIs ==
  ASSUME NEW n, IsWritten(n)
  PROVE  /\ n \in Int /\ ToInt32(n) = n
         /\ Digits(n) \in DOMAIN Numeral /\ Numeral[Digits(n)] = n /\ Digits(n) \in STRING
<1>1. n \in Int /\ n \in -(IntMax + 1)..IntMax
  BY IntMaxAssumption DEF IsWritten
<1>2. \E t \in DOMAIN Numeral : Numeral[t] = n
  BY DEF IsWritten
<1>3. Digits(n) \in DOMAIN Numeral /\ Numeral[Digits(n)] = n
  BY <1>2 DEF Digits
<1>4. ToInt32(n) = n
  BY <1>1, ToInt32Is
<1> QED
  BY <1>1, <1>3, <1>4, NumeralAssumption

(* Formats, put together.                                                  *)
LEMMA JoinIs ==
  ASSUME NEW S, NEW g \in Seq(S), NEW t \in Seq(S), NEW n, Len(g) = n, NEW f, f = g \o t
  PROVE  /\ f \in Seq(S) /\ Len(f) = n + Len(t) /\ n \in Nat /\ Len(t) \in Nat
         /\ \A z \in 1..n : f[z] = g[z]
         /\ \A z \in 1..Len(t) : f[n + z] = t[z]
<1>1. f \in Seq(S) /\ n \in Nat /\ Len(t) \in Nat
  BY Glued
<1>2. Len(f) = n + Len(t)
  BY Glued
<1>3. \A z \in 1..n : f[z] = g[z]
  BY Glued
<1>4. \A z \in 1..Len(t) : f[n + z] = t[z]
  BY Glued
<1> QED
  BY <1>1, <1>2, <1>3, <1>4

LEMMA ArrayIs ==
  ASSUME NEW n \in Nat, NEW S, NEW f, DOMAIN f = 1..n, f = [z \in 1..n |-> f[z]],
         \A z \in 1..n : f[z] \in S
  PROVE  f \in Seq(S) /\ Len(f) = n
OBVIOUS

(* The type ids of a union.                                                *)
LEMMA TypeIdsAreCounted ==
  ASSUME NEW n \in Nat, n <= 127, \A k \in 0..(n - 1) : IsWritten(k)
  PROVE  /\ TypeIds(n) \in Seq(STRING \cup {","})
         /\ CountTypeIds(TypeIds(n)) = n
<1> DEFINE l == IF n = 0 THEN 0 ELSE 2 * n - 1
           ids == TypeIds(n)
<1>1. l \in Nat /\ (n = 0 => l = 0) /\ (n # 0 => l = 2 * n - 1)
  OBVIOUS
<1>2. ids = [z \in 1..l |-> IF z % 2 = 1 THEN Digits(z \div 2) ELSE ","]
  BY Zenon DEF TypeIds
<1> HIDE DEF l, ids
<1>2a. /\ \A z \in 1..l : z % 2 = 1 => ids[z] = Digits(z \div 2)
       /\ \A z \in 1..l : z % 2 # 1 => ids[z] = ","
  BY <1>2
<1>2b. DOMAIN ids = 1..l /\ ids = [z \in 1..l |-> ids[z]]
  BY <1>2
<1>3. ASSUME NEW z \in 1..l, z % 2 = 1
      PROVE  ids[z] \in STRING /\ IsTypeId(ids[z])
  <2> DEFINE k == z \div 2
  <2>1. k \in 0..(n - 1) /\ k \in 0..127
    BY <1>1, <1>3
  <2>2. ids[z] = Digits(k)
    BY <1>2a, <1>3
  <2> HIDE DEF k
  <2>3. IsWritten(k)
    BY <2>1
  <2>4. Digits(k) \in STRING /\ Digits(k) \in DOMAIN Numeral /\ Numeral[Digits(k)] = k
    BY <2>3, WrittenIs
  <2> QED
    BY <2>1, <2>2, <2>4 DEF IsTypeId
<1>4. ids \in Seq(STRING \cup {","}) /\ Len(ids) = l
  <2> DEFINE S == STRING \cup {","}
  <2>1. \A z \in 1..l : ids[z] \in S
    BY <1>2a, <1>3
  <2> HIDE DEF S
  <2>2. ids \in Seq(S) /\ Len(ids) = l
    BY ONLY <1>1, <1>2b, <2>1, ArrayIs
  <2> QED
    BY <2>2 DEF S
<1>5. CountTypeIds(ids) = n
  <2> DEFINE S == STRING \cup {","}
  <2>0. ids \in Seq(S) /\ Len(ids) = l
    BY <1>4
  <2> HIDE DEF S
  <2>1. CASE n = 0
    <3>1. ids = <<>>
      BY <1>1, <2>0, <2>1
    <3> QED
      BY <2>1, <3>1 DEF CountTypeIds
  <2>2. CASE n # 0
    <3>1. ids # <<>> /\ Len(ids) % 2 = 1 /\ (Len(ids) + 1) \div 2 = n
      <4>1. l % 2 = 1 /\ (l + 1) \div 2 = n /\ l # 0
        BY <1>1, <2>2
      <4> QED
        BY <2>0, <4>1
    <3>2. \A z \in DOMAIN ids : IF z % 2 = 1 THEN IsTypeId(ids[z]) ELSE ids[z] = ","
      BY <1>2a, <1>2b, <1>3
    <3> QED
      BY <3>1, <3>2 DEF CountTypeIds
  <2> QED
    BY <2>1, <2>2
<1> QED
  BY <1>4, <1>5 DEF ids

LEMMA ZoneIs ==
  ASSUME NEW zone \in Seq(STRING)
  PROVE  Zone(zone) \in Seq(STRING)
<1>1. CASE zone = NoZone
  <2>1. Zone(zone) = << >>
    BY <1>1 DEF Zone
  <2> QED
    BY <2>1
<1>2. CASE zone # NoZone
  BY <1>2 DEF Zone
<1> QED
  BY <1>1, <1>2

---------------------------------------------------------------------------
(* What a setter writes and ArrowSchemaViewInit reads.                     *)

(* A new schema with a format and n children.                              *)
Made(s, f, n) ==
  /\ s.live /\ s.format = f /\ s.flags = {"nullable"} /\ s.dictionary = <<>>
  /\ Len(s.children) = n /\ DOMAIN s.children = 1..n /\ n \in Nat
  /\ \A z \in 1..n : s.children[z].live

Arguments(u) ==
  CASE u.type \in Decimals -> <<u.precision, u.scale, u.bitwidth>>
    [] u.type \in {"fixed_size_binary", "fixed_size_list"} -> <<u.fixed_size>>
    [] u.type \in {"time32", "time64", "duration"} -> <<u.unit>>
    [] u.type = "timestamp" -> <<u.unit, u.timezone>>
    [] u.type \in {"sparse_union", "dense_union"} -> u.type_ids
    [] OTHER -> <<>>

LEMMA ArgumentsAre ==
  ASSUME NEW u
  PROVE  Members(u).arguments = Arguments(u)
<1>1. DOMAIN BitWidthArgument = Decimals
  BY DEF BitWidthArgument, Decimals
<1>2. Members(u) = [type |-> u.type, storage |-> u.storage, extension |-> u.extension,
                    element_bits |-> u.element_bits, child_size |-> u.child_size,
                    arguments |-> Arguments(u)]
  BY <1>1, Zenon DEF Members, Arguments
<1> QED
  BY <1>2

LEMMA ArgumentsStay ==
  ASSUME NEW w, IsView(w), NEW x
  PROVE  LET v == Laid(w, x) IN v.type = w.type /\ Arguments(v) = Arguments(w)
<1> DEFINE v == Laid(w, x)
<1>1. \A m \in ViewMembers \ {"element_bits", "child_size", "extension"} : v[m] = w[m]
  BY LayoutIs DEF Laid
<1> HIDE DEF v
<1>2. /\ v.type = w.type /\ v.precision = w.precision /\ v.scale = w.scale /\ v.bitwidth = w.bitwidth
      /\ v.fixed_size = w.fixed_size /\ v.unit = w.unit /\ v.timezone = w.timezone
      /\ v.type_ids = w.type_ids
  BY <1>1 DEF ViewMembers
<1>3. v.type = w.type /\ Arguments(v) = Arguments(w)
  BY <1>2 DEF Arguments
<1> QED
  BY <1>3 DEF v

LEMMA ValidIs ==
  ASSUME NEW w, NEW s, NEW f, NEW n, Made(s, f, n), NEW type, type # "map", type # "dictionary",
         NChildren(type) = -1 \/ NChildren(type) = n,
         type = "fixed_size_binary" => ~(w.fixed_size <= 0), NEW inner
  PROVE  Validate(w, s, type, inner) = "ok"
<1>1. ValidateNChildren(s, NChildren(type)) = "ok"
  BY DEF ValidateNChildren, Made
<1>2. ~(type = "fixed_size_binary" /\ w.fixed_size <= 0)
  OBVIOUS
<1> QED
  BY <1>1, <1>2 DEF Validate

LEMMA ReadIs ==
  ASSUME NEW v, NEW s, NEW f, NEW n, Made(s, f, n), f # <<>>,
         NEW w, IsView(w), Parse(v, s) = Parsed(w, Len(f) + 1), w.type # "dictionary",
         \A inner : /\ Validate(w, s, w.storage, inner) = "ok"
                    /\ w.type # w.storage => Validate(w, s, w.type, inner) = "ok"
  PROVE  LET r == ViewInit(v, s) IN
           r.error = "ok" /\ r.view.type = w.type /\ Members(r.view).arguments = Arguments(w)
<1> DEFINE p == Parse(v, s)
           inner == BelowOf(v, s)[StackDepth]
           u == Laid(w, s.extension)
<1>1. ViewInit(v, s) =
        IF ~s.live \/ s.format = <<>> THEN Refused(v)
        ELSE IF Unreadable(p, s) THEN Refused(v)
        ELSE IF Verdict(Typed(p, s), s, inner) # "ok"
             THEN [Refused(v) EXCEPT !.error = Verdict(Typed(p, s), s, inner)]
        ELSE IF ~FlagsFit(s, Typed(p, s).type) THEN Refused(v)
        ELSE Parsed(Laid(Typed(p, s), s.extension), p.next)
  BY ViewInitIs, LevelIs, Zenon DEF Laid
<1>2. p = Parsed(w, Len(f) + 1)
  OBVIOUS
<1> HIDE DEF p, inner
<1>3. p.error = "ok" /\ p.next = Len(f) + 1 /\ p.view = w
  BY <1>2 DEF Parsed
<1>4. s.live /\ s.format # <<>> /\ ~Unreadable(p, s) /\ Typed(p, s) = w
  BY <1>3 DEF Made, Unreadable, Typed
<1>5. Verdict(w, s, inner) = "ok"
  BY DEF Verdict
<1>6. FlagsFit(s, w.type)
  BY DEF FlagsFit, Made
<1>7. ViewInit(v, s) = Parsed(u, p.next)
  BY <1>1, <1>4, <1>5, <1>6, Zenon
<1>8. u.type = w.type /\ Arguments(u) = Arguments(w)
  BY ArgumentsStay
<1> HIDE DEF u
<1>9. ViewInit(v, s).error = "ok" /\ ViewInit(v, s).view = u
  BY <1>7 DEF Parsed
<1> QED
  BY <1>8, <1>9, ArgumentsAre

(* A new schema that is given a format, and then children.                 *)
LEMMA FormatIsMade ==
  ASSUME NEW f
  PROVE  LET s == SetFormat(Fresh, f) IN
           IsNode(s) /\ s.children = <<>> /\ Made(s, f, 0)
<1> DEFINE s == SetFormat(Fresh, f)
<1>1. IsNode(s) /\ s.children = <<>>
  BY FreshIsNode, FormatIsSet
<1>2. s.live /\ s.format = f /\ s.flags = {"nullable"} /\ s.dictionary = <<>>
  BY DEF SetFormat, Fresh
<1>3. Len(<<>>) = 0 /\ DOMAIN <<>> = 1..0 /\ 0 \in Nat /\ 1..0 = {}
  OBVIOUS
<1> HIDE DEF s
<1>4. Made(s, f, 0)
  BY <1>1, <1>2, <1>3 DEF Made
<1> QED
  BY <1>1, <1>4 DEF s

LEMMA ChildrenAreMade ==
  ASSUME NEW f, NEW n \in Nat, NEW child, \A z \in 1..n : child[z].live
  PROVE  LET r == AddChildren(SetFormat(Fresh, f), n, child) IN
           /\ r.error = "ok" /\ Made(r.node, f, n) /\ IsNode(r.node)
           /\ \A z \in 1..n : r.node.children[z] = child[z]
<1> DEFINE s == SetFormat(Fresh, f)
           b == [z \in 1..n |-> Unset]
           q == [s EXCEPT !.children = b]
           o == [z \in 1..n |-> child[z]]
           t == [q EXCEPT !.children = o]
           r == AddChildren(s, n, child)
<1>1. IsNode(s) /\ s.children = <<>> /\ Made(s, f, 0)
  BY FormatIsMade
<1>2. AllocateChildren(s, n) = Done(q)
  BY <1>1 DEF AllocateChildren
<1>3. r = Done(t)
  <2>1. r = IF AllocateChildren(s, n).error = "ok"
            THEN Done([AllocateChildren(s, n).node EXCEPT !.children = o])
            ELSE AllocateChildren(s, n)
    BY DEF AddChildren
  <2>2. Done(q).error = "ok" /\ Done(q).node = q
    BY DEF Done
  <2> HIDE DEF q, o, r, s
  <2> QED
    BY <1>2, <2>1, <2>2
<1>4. (\A z \in 1..n : o[z] = child[z]) /\ DOMAIN o = 1..n /\ Len(o) = n
  OBVIOUS
<1> HIDE DEF s, b, o
<1>5. /\ t.children = o /\ t.live = s.live /\ t.format = s.format /\ t.flags = s.flags
      /\ t.dictionary = s.dictionary /\ t = [m \in NodeMembers |-> t[m]]
  BY <1>1 DEF IsNode, NodeMembers
<1> HIDE DEF q, t, r
<1>6. r.error = "ok" /\ r.node = t
  BY <1>3 DEF Done
<1>7. Made(t, f, n)
  BY <1>1, <1>4, <1>5 DEF Made
<1>8. IsNode(t)
  BY <1>4, <1>5 DEF IsNode
<1> QED
  BY <1>4, <1>5, <1>6, <1>7, <1>8 DEF r, s

(* A view is filled in with a type and its arguments.                      *)
Reads(v, s, type, arguments) ==
  /\ ViewInit(v, s).error = "ok"
  /\ ViewInit(v, s).view.type = type
  /\ Members(ViewInit(v, s).view).arguments = arguments

LEMMA PlainIsRead ==
  ASSUME NEW v, IsView(v), NEW s, NEW h, NEW n, Made(s, <<h>>, n), NEW type, Plain(type),
         \/ h \in SelfHeads /\ type = SelfStored[h]
         \/ h \in NestHeads /\ type = Nested[h],
         type = "map" => ValidateMap(s) = "ok",
         type # "map" => NChildren(type) = -1 \/ NChildren(type) = n
  PROVE  Reads(v, s, type, <<>>)
<1> DEFINE w == SetPrimitive(v, type)
           f == <<h>>
<1>1. f # <<>> /\ f[1] = h /\ Len(f) + 1 = 2
  OBVIOUS
<1>2. s.format = f
  BY DEF Made
<1>3. Parse(v, s) = Parsed(w, 2)
  BY <1>1, <1>2, ParseIs
<1>4. IsView(w) /\ w.type = type /\ w.storage = type
  BY PrimitiveIs
<1>5. type # "dictionary" /\ type # "fixed_size_binary"
  BY DEF Plain, Sized
<1> HIDE DEF w, f
<1>6. ASSUME NEW inner PROVE Validate(w, s, type, inner) = "ok"
  <2>1. CASE type = "map"
    BY <2>1 DEF Validate
  <2>2. CASE type # "map"
    BY <1>5, <2>2, ValidIs DEF f
  <2> QED
    BY <2>1, <2>2
<1>7. Made(s, f, n)
  BY DEF f
<1>8. ViewInit(v, s).error = "ok" /\ ViewInit(v, s).view.type = w.type
      /\ Members(ViewInit(v, s).view).arguments = Arguments(w)
  BY <1>1, <1>3, <1>4, <1>5, <1>6, <1>7, ReadIs
<1>9. Arguments(w) = <<>>
  <2>1. type \notin Decimals \cup Sized \cup Timed \cup Unions
    BY DEF Plain
  <2> QED
    BY <1>4, <2>1 DEF Arguments, Sized, Timed, Unions
<1> QED
  BY <1>4, <1>8, <1>9 DEF Reads

LEMMA DateIsRead ==
  ASSUME NEW v, IsView(v), NEW s, NEW h \in {"tdD", "tdm"}, Made(s, <<h>>, 0)
  PROVE  Reads(v, s, IF h = "tdD" THEN "date32" ELSE "date64", <<>>)
<1> DEFINE type == IF h = "tdD" THEN "date32" ELSE "date64"
           storage == IF h = "tdD" THEN "int32" ELSE "int64"
           d == DateTime[h]
           w == [v EXCEPT !.type = d[1], !.storage = d[2], !.unit = IF d[3] = "" THEN @ ELSE d[3]]
           f == <<h>>
<1>1. f # <<>> /\ f[1] = h /\ Len(f) + 1 = 2
  OBVIOUS
<1>2. s.format = f
  BY DEF Made
<1>3. d[1] = type /\ d[2] = storage /\ d[3] = ""
  <2>1. CASE h = "tdD"
    BY <2>1 DEF DateTime
  <2>2. CASE h = "tdm"
    BY <2>2 DEF DateTime
  <2> QED
    BY <2>1, <2>2
<1>4. type \in {"date32", "date64"} /\ storage \in {"int32", "int64"}
  OBVIOUS
<1>5. Parse(v, s) = Parsed(w, 2)
  <2>1. h \in TimeHeads
    BY DEF TimeHeads
  <2>2. Parse(v, s) = ParseDateTime(v, f)
    BY <1>1, <1>2, <2>1, ParseIs
  <2>3. ParseDateTime(v, f) = IF d[1] # "timestamp" THEN Parsed(w, 2)
                              ELSE IF At(f, 2) # ":" THEN Refused(v)
                              ELSE Parsed([w EXCEPT !.timezone = SubSeq(f, 3, Len(f))], Len(f) + 1)
    BY <1>1, Zenon DEF ParseDateTime
  <2> HIDE DEF type, storage, d, w, f
  <2> QED
    BY <1>3, <1>4, <2>2, <2>3
<1> HIDE DEF d, type, storage
<1>6. IsView(w) /\ w.type = type /\ w.storage = storage
  BY <1>3 DEF IsView, ViewMembers
<1> HIDE DEF w, f
<1>7. Made(s, f, 0)
  BY DEF f
<1>8. ASSUME NEW inner, NEW t \in {type, storage} PROVE Validate(w, s, t, inner) = "ok"
  <2>1. NChildren(t) = 0 /\ t # "map" /\ t # "dictionary" /\ t # "fixed_size_binary"
    BY <1>4 DEF NChildren
  <2> QED
    BY <1>7, <2>1, ValidIs
<1>9. ViewInit(v, s).error = "ok" /\ ViewInit(v, s).view.type = w.type
      /\ Members(ViewInit(v, s).view).arguments = Arguments(w)
  <2>1. \A inner : /\ Validate(w, s, w.storage, inner) = "ok"
                   /\ w.type # w.storage => Validate(w, s, w.type, inner) = "ok"
    BY <1>6, <1>8
  <2>2. w.type # "dictionary"
    BY <1>4, <1>6
  <2> QED
    BY <1>1, <1>5, <1>6, <1>7, <2>1, <2>2, ReadIs
<1>10. Arguments(w) = <<>>
  BY <1>4, <1>6 DEF Arguments, Decimals
<1>11. Reads(v, s, type, <<>>)
  BY <1>6, <1>9, <1>10 DEF Reads
<1> QED
  BY <1>11 DEF type

(* Which children a new schema of each type is given.                      *)
MapEntries == [NonNull(Fresh) EXCEPT !.format = <<"+s">>, !.children = <<NonNull(Fresh), Fresh>>]

LEMMA EntriesAre ==
  /\ Fresh.live /\ NonNull(Fresh).live /\ MapEntries.live
  /\ Len(MapEntries.children) = 2 /\ MapEntries.format = <<"+s">>
  /\ "nullable" \notin MapEntries.flags
  /\ MapEntries.children[1].live /\ "nullable" \notin MapEntries.children[1].flags
<1>1. NonNull(Fresh).live /\ "nullable" \notin NonNull(Fresh).flags /\ Fresh.live
  BY DEF NonNull, Fresh
<1>2. IsNode(Fresh)
  BY FreshIsNode
<1> DEFINE a == NonNull(Fresh)
           o == <<a, Fresh>>
           b == <<"+s">>
           m == [a EXCEPT !.format = b, !.children = o]
<1>3. a = [x \in NodeMembers |-> a[x]]
  BY DEF NonNull, Fresh, NodeMembers
<1>4. Len(o) = 2 /\ o[1] = a
  OBVIOUS
<1> HIDE DEF a, b, o
<1>5. m.live = a.live /\ m.format = b /\ m.flags = a.flags /\ m.children = o
  BY <1>3 DEF NodeMembers
<1>6. m = MapEntries
  BY DEF MapEntries, a, b, o
<1> HIDE DEF m
<1> QED
  BY <1>1, <1>4, <1>5, <1>6 DEF a, b

LEMMA NestedIsMade ==
  ASSUME NEW f, NEW type
  PROVE  LET r == InitChildrenIfNeeded(SetFormat(Fresh, f), type)
             n == IF type \in {"list", "large_list", "fixed_size_list", "map"} THEN 1
                  ELSE IF type = "run_end_encoded" THEN 2 ELSE 0 IN
           /\ r.error = "ok" /\ Made(r.node, f, n) /\ IsNode(r.node)
           /\ type = "map" => r.node.children[1] = MapEntries
           /\ type = "run_end_encoded" => r.node.children[1] = NonNull(Fresh) /\ r.node.children[2] = Fresh
<1> DEFINE a == <<Fresh>>
           b == <<MapEntries>>
           o == <<NonNull(Fresh), Fresh>>
           s == SetFormat(Fresh, f)
           r == InitChildrenIfNeeded(s, type)
<1>1. r = CASE type \in {"list", "large_list", "fixed_size_list"} -> AddChildren(s, 1, a)
            [] type = "map" -> AddChildren(s, 1, b)
            [] type = "run_end_encoded" -> AddChildren(s, 2, o)
            [] OTHER -> Done(s)
  BY Zenon DEF InitChildrenIfNeeded, MapEntries
<1>2. /\ \A z \in 1..1 : a[z].live
      /\ \A z \in 1..1 : b[z].live
      /\ b[1] = MapEntries /\ o[1] = NonNull(Fresh) /\ o[2] = Fresh
      /\ \A z \in 1..2 : o[z].live
  BY EntriesAre
<1> HIDE DEF a, b, o, r
<1>3. CASE type \in {"list", "large_list", "fixed_size_list"}
  <2>1. r = AddChildren(s, 1, a)
    BY <1>1, <1>3
  <2> QED
    BY <1>2, <1>3, <2>1, ChildrenAreMade DEF r
<1>4. CASE type = "map"
  <2>1. r = AddChildren(s, 1, b)
    BY <1>1, <1>4
  <2>2. r.error = "ok" /\ Made(r.node, f, 1) /\ IsNode(r.node) /\ r.node.children[1] = b[1]
    <3>1. 1 \in Nat /\ 1 \in 1..1
      OBVIOUS
    <3>2. /\ r.error = "ok" /\ Made(r.node, f, 1) /\ IsNode(r.node)
          /\ \A z \in 1..1 : r.node.children[z] = b[z]
      <4> DEFINE q == AddChildren(SetFormat(Fresh, f), 1, b)
      <4>1. \A z \in 1..1 : b[z].live
        BY <1>2
      <4>2. /\ q.error = "ok" /\ Made(q.node, f, 1) /\ IsNode(q.node)
            /\ \A z \in 1..1 : q.node.children[z] = b[z]
        BY ONLY <3>1, <4>1, ChildrenAreMade
      <4> QED
        BY <2>1, <4>2, Zenon
    <3> QED
      BY <3>1, <3>2
  <2> QED
    BY <1>2, <1>4, <2>2 DEF r
<1>5. CASE type = "run_end_encoded"
  <2>1. r = AddChildren(s, 2, o)
    BY <1>1, <1>5
  <2>2. 2 \in Nat /\ 1 \in 1..2 /\ 2 \in 1..2
    OBVIOUS
  <2> DEFINE q == AddChildren(SetFormat(Fresh, f), 2, o)
  <2>3. \A z \in 1..2 : o[z].live
    BY <1>2
  <2>4. /\ q.error = "ok" /\ Made(q.node, f, 2) /\ IsNode(q.node)
        /\ \A z \in 1..2 : q.node.children[z] = o[z]
    BY ONLY <2>2, <2>3, ChildrenAreMade
  <2>5. /\ r.error = "ok" /\ Made(r.node, f, 2) /\ IsNode(r.node)
        /\ \A z \in 1..2 : r.node.children[z] = o[z]
    BY <2>1, <2>4, Zenon
  <2> QED
    BY <1>2, <1>5, <2>2, <2>5 DEF r
<1>6. CASE type \notin {"list", "large_list", "fixed_size_list", "map", "run_end_encoded"}
  <2>1. r = Done(s)
    BY <1>1, <1>6
  <2>2. r.error = "ok" /\ r.node = s
    BY <2>1 DEF Done
  <2> QED
    BY <1>6, <2>2, FormatIsMade DEF r
<1> QED
  BY <1>3, <1>4, <1>5, <1>6

(* The table the formats of ArrowSchemaSetType come from, read backwards.  *)
Letter(type, h) ==
  /\ FormatTemplate[type] = <<h>>
  /\ \/ h \in SelfHeads /\ SelfStored[h] = type
     \/ h \in NestHeads /\ Nested[h] = type
     \/ h = "tdD" /\ type = "date32"
     \/ h = "tdm" /\ type = "date64"
LEMMA TemplateIs ==
  ASSUME NEW type \in DOMAIN FormatTemplate
  PROVE  \E h : Letter(type, h)
<1>0. type \in {"na", "bool", "uint8", "int8", "uint16", "int16", "uint32",
              "int32", "uint64", "int64", "half_float", "float",
              "double", "string", "large_string", "string_view",
              "binary", "binary_view", "large_binary", "date32",
              "date64", "interval_months", "interval_day_time",
              "interval_month_day_nano", "list", "large_list", "struct",
              "map", "run_end_encoded"}
  BY DEF FormatTemplate
<1>1. CASE type = "na"
  <2>1. Letter(type, "n")
    BY <1>1 DEF Letter, FormatTemplate, SelfStored, SelfHeads
  <2> QED
    BY <2>1
<1>2. CASE type = "bool"
  <2>1. Letter(type, "b")
    BY <1>2 DEF Letter, FormatTemplate, SelfStored, SelfHeads
  <2> QED
    BY <2>1
<1>3. CASE type = "uint8"
  <2>1. Letter(type, "C")
    BY <1>3 DEF Letter, FormatTemplate, SelfStored, SelfHeads
  <2> QED
    BY <2>1
<1>4. CASE type = "int8"
  <2>1. Letter(type, "c")
    BY <1>4 DEF Letter, FormatTemplate, SelfStored, SelfHeads
  <2> QED
    BY <2>1
<1>5. CASE type = "uint16"
  <2>1. Letter(type, "S")
    BY <1>5 DEF Letter, FormatTemplate, SelfStored, SelfHeads
  <2> QED
    BY <2>1
<1>6. CASE type = "int16"
  <2>1. Letter(type, "s")
    BY <1>6 DEF Letter, FormatTemplate, SelfStored, SelfHeads
  <2> QED
    BY <2>1
<1>7. CASE type = "uint32"
  <2>1. Letter(type, "I")
    BY <1>7 DEF Letter, FormatTemplate, SelfStored, SelfHeads
  <2> QED
    BY <2>1
<1>8. CASE type = "int32"
  <2>1. Letter(type, "i")
    BY <1>8 DEF Letter, FormatTemplate, SelfStored, SelfHeads
  <2> QED
    BY <2>1
<1>9. CASE type = "uint64"
  <2>1. Letter(type, "L")
    BY <1>9 DEF Letter, FormatTemplate, SelfStored, SelfHeads
  <2> QED
    BY <2>1
<1>10. CASE type = "int64"
  <2>1. Letter(type, "l")
    BY <1>10 DEF Letter, FormatTemplate, SelfStored, SelfHeads
  <2> QED
    BY <2>1
<1>11. CASE type = "half_float"
  <2>1. Letter(type, "e")
    BY <1>11 DEF Letter, FormatTemplate, SelfStored, SelfHeads
  <2> QED
    BY <2>1
<1>12. CASE type = "float"
  <2>1. Letter(type, "f")
    BY <1>12 DEF Letter, FormatTemplate, SelfStored, SelfHeads
  <2> QED
    BY <2>1
<1>13. CASE type = "double"
  <2>1. Letter(type, "g")
    BY <1>13 DEF Letter, FormatTemplate, SelfStored, SelfHeads
  <2> QED
    BY <2>1
<1>14. CASE type = "string"
  <2>1. Letter(type, "u")
    BY <1>14 DEF Letter, FormatTemplate, SelfStored, SelfHeads
  <2> QED
    BY <2>1
<1>15. CASE type = "large_string"
  <2>1. Letter(type, "U")
    BY <1>15 DEF Letter, FormatTemplate, SelfStored, SelfHeads
  <2> QED
    BY <2>1
<1>16. CASE type = "string_view"
  <2>1. Letter(type, "vu")
    BY <1>16 DEF Letter, FormatTemplate, SelfStored, SelfHeads
  <2> QED
    BY <2>1
<1>17. CASE type = "binary"
  <2>1. Letter(type, "z")
    BY <1>17 DEF Letter, FormatTemplate, SelfStored, SelfHeads
  <2> QED
    BY <2>1
<1>18. CASE type = "binary_view"
  <2>1. Letter(type, "vz")
    BY <1>18 DEF Letter, FormatTemplate, SelfStored, SelfHeads
  <2> QED
    BY <2>1
<1>19. CASE type = "large_binary"
  <2>1. Letter(type, "Z")
    BY <1>19 DEF Letter, FormatTemplate, SelfStored, SelfHeads
  <2> QED
    BY <2>1
<1>20. CASE type = "date32"
  <2>1. Letter(type, "tdD")
    BY <1>20 DEF Letter, FormatTemplate
  <2> QED
    BY <2>1
<1>21. CASE type = "date64"
  <2>1. Letter(type, "tdm")
    BY <1>21 DEF Letter, FormatTemplate
  <2> QED
    BY <2>1
<1>22. CASE type = "interval_months"
  <2>1. Letter(type, "tiM")
    BY <1>22 DEF Letter, FormatTemplate, SelfStored, SelfHeads
  <2> QED
    BY <2>1
<1>23. CASE type = "interval_day_time"
  <2>1. Letter(type, "tiD")
    BY <1>23 DEF Letter, FormatTemplate, SelfStored, SelfHeads
  <2> QED
    BY <2>1
<1>24. CASE type = "interval_month_day_nano"
  <2>1. Letter(type, "tin")
    BY <1>24 DEF Letter, FormatTemplate, SelfStored, SelfHeads
  <2> QED
    BY <2>1
<1>25. CASE type = "list"
  <2>1. Letter(type, "+l")
    BY <1>25 DEF Letter, FormatTemplate, Nested, NestHeads
  <2> QED
    BY <2>1
<1>26. CASE type = "large_list"
  <2>1. Letter(type, "+L")
    BY <1>26 DEF Letter, FormatTemplate, Nested, NestHeads
  <2> QED
    BY <2>1
<1>27. CASE type = "struct"
  <2>1. Letter(type, "+s")
    BY <1>27 DEF Letter, FormatTemplate, Nested, NestHeads
  <2> QED
    BY <2>1
<1>28. CASE type = "map"
  <2>1. Letter(type, "+m")
    BY <1>28 DEF Letter, FormatTemplate, Nested, NestHeads
  <2> QED
    BY <2>1
<1>29. CASE type = "run_end_encoded"
  <2>1. Letter(type, "+r")
    BY <1>29 DEF Letter, FormatTemplate, Nested, NestHeads
  <2> QED
    BY <2>1
<1> QED
  BY <1>0, <1>1, <1>2, <1>3, <1>4, <1>5, <1>6, <1>7, <1>8, <1>9, <1>10, <1>11,
     <1>12, <1>13, <1>14, <1>15, <1>16, <1>17, <1>18, <1>19, <1>20,
     <1>21, <1>22, <1>23, <1>24, <1>25, <1>26, <1>27, <1>28, <1>29

LEMMA ChildrenFit ==
  ASSUME NEW type, type # "map"
  PROVE  LET n == IF type \in {"list", "large_list", "fixed_size_list", "map"} THEN 1
                  ELSE IF type = "run_end_encoded" THEN 2 ELSE 0 IN
           NChildren(type) = -1 \/ NChildren(type) = n
BY DEF NChildren

(* ArrowSchemaSetType, of a new schema.                                    *)
LEMMA SetTypeIsRead ==
  ASSUME NEW v, IsView(v), NEW type, SetType(Fresh, type).error = "ok",
         SetType(Fresh, type).node.format # <<>>
  PROVE  /\ Reads(v, SetType(Fresh, type).node, type, <<>>)
         /\ type \in DOMAIN FormatTemplate
<1> DEFINE r == SetType(Fresh, type)
           f == FormatTemplate[type]
           n == IF type \in {"list", "large_list", "fixed_size_list", "map"} THEN 1
                ELSE IF type = "run_end_encoded" THEN 2 ELSE 0
<1>1. type \in DOMAIN FormatTemplate /\ r = InitChildrenIfNeeded(SetFormat(Fresh, f), type)
  <2>1. CASE type = "uninitialized"
    <3>1. "uninitialized" \notin DOMAIN FormatTemplate
      BY DEF FormatTemplate
    <3>2. r = Done(SetFormat(Fresh, <<>>))
      BY <2>1, <3>1 DEF SetType
    <3>3. r.node.format = <<>>
      BY <3>2, FormatIsMade DEF Done, Made
    <3> QED
      BY <3>3
  <2>2. CASE type # "uninitialized" /\ type \notin DOMAIN FormatTemplate
    <3>1. r = Fails("EINVAL", Fresh)
      BY <2>2 DEF SetType
    <3> QED
      BY <3>1 DEF Fails
  <2>3. CASE type # "uninitialized" /\ type \in DOMAIN FormatTemplate
    BY <2>3 DEF SetType
  <2> QED
    BY <2>1, <2>2, <2>3
<1> HIDE DEF r
<1>2. PICK h : Letter(type, h)
  BY <1>1, TemplateIs
<1>3. f = <<h>>
  BY <1>2 DEF Letter
<1> HIDE DEF f
<1>4. Made(r.node, <<h>>, n) /\ (type = "map" => r.node.children[1] = MapEntries)
  BY <1>1, <1>3, NestedIsMade
<1>5. CASE h \in SelfHeads \cup NestHeads
  <2>1. \/ h \in SelfHeads /\ type = SelfStored[h]
        \/ h \in NestHeads /\ type = Nested[h]
    <3>1. h # "tdD" /\ h # "tdm"
      BY <1>5 DEF SelfHeads, NestHeads
    <3> QED
      BY <1>2, <3>1 DEF Letter
  <2>2. Plain(type)
    BY <2>1, HeadsAre, SelfStoredIsPlain, NestedIsPlain
  <2>3. type = "map" => ValidateMap(r.node) = "ok"
    <3> SUFFICES ASSUME type = "map" PROVE ValidateMap(r.node) = "ok"
      OBVIOUS
    <3>1. Len(r.node.children) = 1 /\ DOMAIN r.node.children = 1..1 /\ r.node.children[1] = MapEntries
      BY <1>4 DEF Made
    <3>2. ValidateNChildren(r.node, 1) = "ok"
      BY <3>1, EntriesAre DEF ValidateNChildren
    <3>3. \A k \in 1..1 : k = 1
      OBVIOUS
    <3> HIDE DEF n
    <3> QED
      BY <3>1, <3>2, EntriesAre DEF ValidateMap
  <2>4. type # "map" => NChildren(type) = -1 \/ NChildren(type) = n
    BY ChildrenFit
  <2> HIDE DEF n
  <2> QED
    BY <1>1, <1>4, <2>1, <2>2, <2>3, <2>4, PlainIsRead DEF r
<1>6. CASE h \notin SelfHeads \cup NestHeads
  <2>1. h \in {"tdD", "tdm"} /\ type = IF h = "tdD" THEN "date32" ELSE "date64"
    BY <1>2, <1>6 DEF Letter
  <2>2. n = 0
    BY <2>1
  <2> HIDE DEF n
  <2>3. Made(r.node, <<h>>, 0)
    BY <1>4, <2>2
  <2>4. Reads(v, r.node, IF h = "tdD" THEN "date32" ELSE "date64", <<>>)
    BY <2>1, <2>3, DateIsRead
  <2> QED
    BY <1>1, <2>1, <2>4 DEF r
<1> QED
  BY <1>5, <1>6

(* ArrowSchemaSetTypeStruct.                                               *)
LEMMA SetTypeStructIsRead ==
  ASSUME NEW v, IsView(v), NEW n \in Nat
  PROVE  Reads(v, SetTypeStruct(Fresh, n).node, "struct", <<>>)
<1> DEFINE f == <<"+s">>
           s == SetFormat(Fresh, f)
           child == [z \in 1..n |-> Fresh]
           r == AddChildren(s, n, child)
<1>1. SetType(Fresh, "struct") = Done(s)
  <2>1. "struct" \in DOMAIN FormatTemplate /\ FormatTemplate["struct"] = f
    BY DEF FormatTemplate
  <2>2. SetType(Fresh, "struct") = InitChildrenIfNeeded(s, "struct")
    BY <2>1 DEF SetType
  <2> HIDE DEF s
  <2>3. InitChildrenIfNeeded(s, "struct") = Done(s)
    BY DEF InitChildrenIfNeeded
  <2> QED
    BY <2>2, <2>3
<1>2. SetTypeStruct(Fresh, n) = r
  <2>1. Done(s).error = "ok" /\ Done(s).node = s
    BY DEF Done
  <2> QED
    BY <1>1, <2>1, Zenon DEF SetTypeStruct
<1>3. \A z \in 1..n : child[z].live
  BY EntriesAre
<1> HIDE DEF child
<1>4. Made(r.node, f, n)
  BY <1>3, ChildrenAreMade
<1> HIDE DEF r
<1>5. "+s" \in NestHeads /\ Nested["+s"] = "struct" /\ Plain("struct") /\ NChildren("struct") = -1
  BY DEF NestHeads, Nested, Plain, Decimals, Sized, Timed, Unions, NChildren
<1>6. Reads(v, r.node, "struct", <<>>)
  BY <1>4, <1>5, PlainIsRead
<1> QED
  BY <1>2, <1>6 DEF r

(* ArrowSchemaSetTypeRunEndEncoded.                                        *)
LEMMA SetTypeRunEndEncodedIsRead ==
  ASSUME NEW v, IsView(v), NEW type, SetTypeRunEndEncoded(Fresh, type).error = "ok"
  PROVE  Reads(v, SetTypeRunEndEncoded(Fresh, type).node, "run_end_encoded", <<>>)
<1> DEFINE f == <<"+r">>
           q == InitChildrenIfNeeded(SetFormat(Fresh, f), "run_end_encoded")
           s == q.node
           x == SetType(s.children[1], type).node
           y == SetType(s.children[2], "uninitialized").node
           o == <<x, y>>
           t == [s EXCEPT !.children = o]
           r == SetTypeRunEndEncoded(Fresh, type)
<1>1. q.error = "ok" /\ Made(s, f, 2) /\ IsNode(s)
      /\ s.children[1] = NonNull(Fresh) /\ s.children[2] = Fresh
  BY NestedIsMade
<1>2. r = IF type \notin {"int16", "int32", "int64"} THEN Fails("EINVAL", Fresh)
          ELSE IF q.error # "ok" THEN q ELSE Done(t)
  BY Zenon DEF SetTypeRunEndEncoded
<1>3. Fails("EINVAL", Fresh).error # "ok"
  BY DEF Fails
<1> HIDE DEF q, t
<1>4. type \in {"int16", "int32", "int64"} /\ r = Done(t)
  BY <1>1, <1>2, <1>3
<1>5. x.live
  <2>0. "int16" \in DOMAIN FormatTemplate /\ "int32" \in DOMAIN FormatTemplate /\ "int64" \in DOMAIN FormatTemplate
    BY DEF FormatTemplate
  <2> DEFINE b == s.children[1]
             g == FormatTemplate[type]
  <2>1. SetFormat(b, g).live
    <3> HIDE DEF g
    <3> QED
      BY <1>1 DEF SetFormat, NonNull, Fresh
  <2>2. SetType(b, type) = InitChildrenIfNeeded(SetFormat(b, g), type)
    BY <1>4, <2>0 DEF SetType
  <2> HIDE DEF b, g
  <2>3. InitChildrenIfNeeded(SetFormat(b, g), type) = Done(SetFormat(b, g))
    BY <1>4 DEF InitChildrenIfNeeded
  <2>4. x = SetFormat(b, g)
    BY <2>2, <2>3 DEF Done, b
  <2> QED
    BY <2>1, <2>4
<1>6. y.live
  <2> DEFINE b == s.children[2]
  <2>1. SetFormat(b, <<>>).live
    BY <1>1, FormatIsMade DEF Made
  <2> HIDE DEF b
  <2>2. "uninitialized" \notin DOMAIN FormatTemplate
    BY DEF FormatTemplate
  <2>3. SetType(b, "uninitialized") = Done(SetFormat(b, <<>>))
    BY <2>2 DEF SetType
  <2>4. y = SetFormat(b, <<>>)
    BY <2>3 DEF Done, b
  <2> QED
    BY <2>1, <2>4
<1> HIDE DEF x, y
<1>7. Len(o) = 2 /\ DOMAIN o = 1..2 /\ \A z \in 1..2 : o[z].live
  BY <1>5, <1>6
<1> HIDE DEF s, o
<1>8. /\ t.children = o /\ t.live = s.live /\ t.format = s.format /\ t.flags = s.flags
      /\ t.dictionary = s.dictionary
  BY <1>1 DEF t, IsNode, NodeMembers
<1>9. Made(t, f, 2)
  BY <1>1, <1>7, <1>8 DEF Made
<1>10. /\ "+r" \in NestHeads /\ Nested["+r"] = "run_end_encoded" /\ Plain("run_end_encoded")
       /\ NChildren("run_end_encoded") = 2
  BY DEF NestHeads, Nested, Plain, Decimals, Sized, Timed, Unions, NChildren
<1>11. Reads(v, t, "run_end_encoded", <<>>)
  BY <1>9, <1>10, PlainIsRead
<1>12. r.node = t
  BY <1>4 DEF Done
<1> QED
  BY <1>11, <1>12 DEF r

LEMMA NumberIs ==
  ASSUME NEW f, NEW z, z \in DOMAIN f, f[z] \in DOMAIN Numeral
  PROVE  Strtol(f, z).value = Numeral[f[z]] /\ Strtol(f, z).next = z + 1
BY DEF Strtol, At

(* ArrowSchemaSetTypeFixedSize.                                            *)
LEMMA SetTypeFixedSizeIsRead ==
  ASSUME NEW v, IsView(v), NEW type, NEW size \in Int, size > 0 => IsWritten(size),
         SetTypeFixedSize(Fresh, type, size).error = "ok"
  PROVE  Reads(v, SetTypeFixedSize(Fresh, type, size).node, type, <<size>>)
<1> DEFINE head == IF type = "fixed_size_binary" THEN "w" ELSE "+w"
           digits == Digits(size)
           f == <<head, ":", digits>>
           q == InitChildrenIfNeeded(SetFormat(Fresh, f), type)
           s == q.node
           n == IF type = "fixed_size_list" THEN 1 ELSE 0
           r == SetTypeFixedSize(Fresh, type, size)
           x == SetPrimitive(v, type)
           w == [x EXCEPT !.fixed_size = size]
<1>1. size > 0 /\ type \in Sized /\ r = q
  <2>1. r = IF size <= 0 \/ type \notin Sized THEN Fails("EINVAL", Fresh) ELSE q
    BY Zenon DEF SetTypeFixedSize, Sized
  <2>2. Fails("EINVAL", Fresh).error # "ok"
    BY DEF Fails
  <2> HIDE DEF q
  <2> QED
    BY <2>1, <2>2
<1>2. size \in Int /\ ToInt32(size) = size /\ digits \in DOMAIN Numeral /\ Numeral[digits] = size
  BY <1>1, WrittenIs
<1>3. Made(s, f, n)
  <2>1. n = IF type \in {"list", "large_list", "fixed_size_list", "map"} THEN 1
            ELSE IF type = "run_end_encoded" THEN 2 ELSE 0
    BY <1>1 DEF Sized
  <2> HIDE DEF f, n
  <2> QED
    BY <2>1, NestedIsMade
<1> HIDE DEF digits
<1>4. f # <<>> /\ Len(f) = 3 /\ f[1] = head /\ f[2] = ":" /\ f[3] = digits /\ DOMAIN f = 1..3
  OBVIOUS
<1>5. s.format = f
  BY <1>3 DEF Made
<1> HIDE DEF f, q
<1>6. Strtol(f, 3).value = size /\ Strtol(f, 3).next = 4 /\ At(f, 2) = ":"
  <2>1. 3 \in DOMAIN f /\ 2 \in DOMAIN f /\ 3 + 1 = 4
    BY <1>4
  <2> QED
    BY <1>2, <1>4, <2>1, NumberIs DEF At
<1>7. Parse(v, s) = Parsed(w, 4)
  <2>1. Parse(v, s) = ParseFixedSize(v, f)
    BY <1>4, <1>5, ParseIs
  <2> DEFINE kind == IF f[1] = "w" THEN "fixed_size_binary" ELSE "fixed_size_list"
  <2>2. kind = type
    BY <1>1, <1>4 DEF Sized
  <2>3. ParseFixedSize(v, f) =
          IF At(f, 2) # ":" \/ Len(f) < 3 THEN Refused(v)
          ELSE Parsed([SetPrimitive(v, kind) EXCEPT !.fixed_size = ToInt32(Strtol(f, 3).value)], Strtol(f, 3).next)
    BY Zenon DEF ParseFixedSize
  <2> HIDE DEF kind, w, s
  <2>4. ~(At(f, 2) # ":" \/ Len(f) < 3)
    BY <1>4, <1>6
  <2>5. [SetPrimitive(v, kind) EXCEPT !.fixed_size = ToInt32(Strtol(f, 3).value)] = w
    BY <1>2, <1>6, <2>2, Zenon DEF w
  <2> QED
    BY <1>6, <2>1, <2>3, <2>4, <2>5, Zenon
<1>8. IsView(x) /\ x.type = type /\ x.storage = type
  BY PrimitiveIs
<1> HIDE DEF x
<1>9. IsView(w) /\ w.type = type /\ w.storage = type /\ w.fixed_size = size
  BY <1>8 DEF IsView, ViewMembers
<1> HIDE DEF w, s
<1>10. ASSUME NEW inner PROVE Validate(w, s, type, inner) = "ok"
  <2>1. NChildren(type) = n /\ type # "map" /\ type # "dictionary"
    BY <1>1 DEF NChildren, Sized
  <2>2. ~(w.fixed_size <= 0)
    BY <1>1, <1>9
  <2> QED
    BY <1>3, <2>1, <2>2, ValidIs
<1>11. ViewInit(v, s).error = "ok" /\ ViewInit(v, s).view.type = w.type
       /\ Members(ViewInit(v, s).view).arguments = Arguments(w)
  <2>1. w.type # "dictionary" /\ Len(f) + 1 = 4
    BY <1>1, <1>4, <1>9 DEF Sized
  <2>2. Parse(v, s) = Parsed(w, Len(f) + 1)
    BY <1>7, <2>1
  <2>3. \A inner : /\ Validate(w, s, w.storage, inner) = "ok"
                   /\ w.type # w.storage => Validate(w, s, w.type, inner) = "ok"
    BY <1>9, <1>10
  <2>4. Made(s, f, n) /\ f # <<>> /\ IsView(w)
    BY <1>3, <1>4, <1>9
  <2> HIDE DEF n, r
  <2> QED
    BY ONLY <2>1, <2>2, <2>3, <2>4, ReadIs
<1>12. Arguments(w) = <<size>>
  BY <1>1, <1>9 DEF Arguments, Decimals, Sized
<1> QED
  BY <1>1, <1>9, <1>11, <1>12 DEF Reads, s

(* The heads of date-time formats, read backwards.                         *)
TimeHead(h, type, unit) ==
  /\ h \in TimeHeads /\ type \in Timed /\ unit # ""
  /\ DateTime[h][1] = type /\ DateTime[h][2] \in {"int32", "int64"} /\ DateTime[h][3] = unit
LEMMA TimeHeadIs ==
  ASSUME NEW type \in DOMAIN DateTimeHead, NEW unit \in DOMAIN DateTimeHead[type]
  PROVE  TimeHead(DateTimeHead[type][unit], type, unit)
<1>0. type \in {"time32", "time64", "timestamp", "duration"}
  BY DEF DateTimeHead
<1>1. CASE type = "time32"
  <2>0. unit \in {"s", "m"}
    BY <1>1 DEF DateTimeHead
  <2>1. CASE unit = "s"
    <3>1. DateTimeHead[type][unit] = "tts"
      BY <1>1, <2>1 DEF DateTimeHead
    <3>2. TimeHead("tts", "time32", "s")
      BY DEF TimeHead, TimeHeads, Timed, DateTime
    <3> QED
      BY <1>1, <2>1, <3>1, <3>2
  <2>2. CASE unit = "m"
    <3>1. DateTimeHead[type][unit] = "ttm"
      BY <1>1, <2>2 DEF DateTimeHead
    <3>2. TimeHead("ttm", "time32", "m")
      BY DEF TimeHead, TimeHeads, Timed, DateTime
    <3> QED
      BY <1>1, <2>2, <3>1, <3>2
  <2> QED
    BY <2>0, <2>1, <2>2
<1>2. CASE type = "time64"
  <2>0. unit \in {"u", "n"}
    BY <1>2 DEF DateTimeHead
  <2>1. CASE unit = "u"
    <3>1. DateTimeHead[type][unit] = "ttu"
      BY <1>2, <2>1 DEF DateTimeHead
    <3>2. TimeHead("ttu", "time64", "u")
      BY DEF TimeHead, TimeHeads, Timed, DateTime
    <3> QED
      BY <1>2, <2>1, <3>1, <3>2
  <2>2. CASE unit = "n"
    <3>1. DateTimeHead[type][unit] = "ttn"
      BY <1>2, <2>2 DEF DateTimeHead
    <3>2. TimeHead("ttn", "time64", "n")
      BY DEF TimeHead, TimeHeads, Timed, DateTime
    <3> QED
      BY <1>2, <2>2, <3>1, <3>2
  <2> QED
    BY <2>0, <2>1, <2>2
<1>3. CASE type = "timestamp"
  <2>0. unit \in {"s", "m", "u", "n"}
    BY <1>3 DEF DateTimeHead
  <2>1. CASE unit = "s"
    <3>1. DateTimeHead[type][unit] = "tss"
      BY <1>3, <2>1 DEF DateTimeHead
    <3>2. TimeHead("tss", "timestamp", "s")
      BY DEF TimeHead, TimeHeads, Timed, DateTime
    <3> QED
      BY <1>3, <2>1, <3>1, <3>2
  <2>2. CASE unit = "m"
    <3>1. DateTimeHead[type][unit] = "tsm"
      BY <1>3, <2>2 DEF DateTimeHead
    <3>2. TimeHead("tsm", "timestamp", "m")
      BY DEF TimeHead, TimeHeads, Timed, DateTime
    <3> QED
      BY <1>3, <2>2, <3>1, <3>2
  <2>3. CASE unit = "u"
    <3>1. DateTimeHead[type][unit] = "tsu"
      BY <1>3, <2>3 DEF DateTimeHead
    <3>2. TimeHead("tsu", "timestamp", "u")
      BY DEF TimeHead, TimeHeads, Timed, DateTime
    <3> QED
      BY <1>3, <2>3, <3>1, <3>2
  <2>4. CASE unit = "n"
    <3>1. DateTimeHead[type][unit] = "tsn"
      BY <1>3, <2>4 DEF DateTimeHead
    <3>2. TimeHead("tsn", "timestamp", "n")
      BY DEF TimeHead, TimeHeads, Timed, DateTime
    <3> QED
      BY <1>3, <2>4, <3>1, <3>2
  <2> QED
    BY <2>0, <2>1, <2>2, <2>3, <2>4
<1>4. CASE type = "duration"
  <2>0. unit \in {"s", "m", "u", "n"}
    BY <1>4 DEF DateTimeHead
  <2>1. CASE unit = "s"
    <3>1. DateTimeHead[type][unit] = "tDs"
      BY <1>4, <2>1 DEF DateTimeHead
    <3>2. TimeHead("tDs", "duration", "s")
      BY DEF TimeHead, TimeHeads, Timed, DateTime
    <3> QED
      BY <1>4, <2>1, <3>1, <3>2
  <2>2. CASE unit = "m"
    <3>1. DateTimeHead[type][unit] = "tDm"
      BY <1>4, <2>2 DEF DateTimeHead
    <3>2. TimeHead("tDm", "duration", "m")
      BY DEF TimeHead, TimeHeads, Timed, DateTime
    <3> QED
      BY <1>4, <2>2, <3>1, <3>2
  <2>3. CASE unit = "u"
    <3>1. DateTimeHead[type][unit] = "tDu"
      BY <1>4, <2>3 DEF DateTimeHead
    <3>2. TimeHead("tDu", "duration", "u")
      BY DEF TimeHead, TimeHeads, Timed, DateTime
    <3> QED
      BY <1>4, <2>3, <3>1, <3>2
  <2>4. CASE unit = "n"
    <3>1. DateTimeHead[type][unit] = "tDn"
      BY <1>4, <2>4 DEF DateTimeHead
    <3>2. TimeHead("tDn", "duration", "n")
      BY DEF TimeHead, TimeHeads, Timed, DateTime
    <3> QED
      BY <1>4, <2>4, <3>1, <3>2
  <2> QED
    BY <2>0, <2>1, <2>2, <2>3, <2>4
<1> QED
  BY <1>0, <1>1, <1>2, <1>3, <1>4

(* ArrowSchemaSetTypeDateTime.                                             *)
LEMMA SetTypeDateTimeIsRead ==
  ASSUME NEW v, IsView(v), NEW type, NEW unit, NEW given \in Seq(STRING),
         SetTypeDateTime(Fresh, type, unit, given).error = "ok"
  PROVE  Reads(v, SetTypeDateTime(Fresh, type, unit, given).node, type,
               IF type = "timestamp" THEN <<unit, Zone(given)>> ELSE <<unit>>)
<1> DEFINE zone == Zone(given)
           h == DateTimeHead[type][unit]
           tail == IF type = "timestamp" THEN <<":">> \o zone ELSE <<>>
           f == <<h>> \o tail
           s == SetFormat(Fresh, f)
           bad == \/ type \notin DOMAIN DateTimeHead \/ (type # "timestamp" /\ given # NoZone)
                  \/ unit \notin DOMAIN DateTimeHead[type]
           long == type = "timestamp" /\ given \in LongZones
           r == SetTypeDateTime(Fresh, type, unit, given)
           storage == DateTime[h][2]
           x == [v EXCEPT !.type = type, !.storage = storage, !.unit = unit]
           y == [x EXCEPT !.timezone = zone]
           w == IF type = "timestamp" THEN y ELSE x
<1>0. zone \in Seq(STRING)
  BY ZoneIs
<1>1. ~bad /\ r = Done(s)
  <2>1. r = IF bad THEN Fails("EINVAL", Fresh)
            ELSE IF long THEN Fails("ERANGE", Fresh) ELSE Done(s)
    BY Zenon DEF SetTypeDateTime
  <2>2. Fails("EINVAL", Fresh).error # "ok" /\ Fails("ERANGE", Fresh).error # "ok"
    BY DEF Fails
  <2> HIDE DEF bad, long, s
  <2> QED
    BY <2>1, <2>2
<1>2. TimeHead(h, type, unit)
  BY <1>1, TimeHeadIs
<1>3. Made(s, f, 0) /\ s.format = f
  BY FormatIsMade DEF Made
<1>4. r.node = s
  BY <1>1 DEF Done
<1> HIDE DEF h, s, bad, long, zone
<1>5. /\ h \in TimeHeads /\ type \in Timed /\ unit # ""
      /\ DateTime[h][1] = type /\ DateTime[h][3] = unit /\ storage \in {"int32", "int64"}
  BY <1>2 DEF TimeHead
<1> HIDE DEF storage, r
<1>6. /\ f # <<>> /\ f[1] = h
      /\ type = "timestamp" => At(f, 2) = ":" /\ SubSeq(f, 3, Len(f)) = zone
      /\ type # "timestamp" => Len(f) + 1 = 2
  <2>1. CASE type = "timestamp"
    <3> DEFINE S == STRING \cup {h, ":"}
               g == <<":">> \o zone
    <3>1. f = <<h>> \o g
      BY <2>1
    <3>2. <<h>> \in Seq(S) /\ <<":">> \in Seq(S) /\ zone \in Seq(S)
      BY <1>0
    <3>3. /\ f \in Seq(S) /\ Len(zone) \in Nat /\ Len(f) = 2 + Len(zone) /\ f[1] = h /\ f[2] = ":"
          /\ \A z \in 1..Len(zone) : f[2 + z] = zone[z]
      <4> HIDE DEF S
      <4>1. /\ Len(<<":">>) = 1 /\ <<":">>[1] = ":" /\ Len(<<h>>) = 1 /\ <<h>>[1] = h
            /\ Len(zone) \in Nat
        OBVIOUS
      <4>2. /\ g \in Seq(S) /\ Len(g) = 1 + Len(zone) /\ g[1] = ":"
            /\ \A z \in 1..Len(zone) : g[1 + z] = zone[z]
        BY <3>2, <4>1, Glued
      <4> HIDE DEF f, g
      <4>3. /\ f \in Seq(S) /\ Len(f) = 1 + Len(g) /\ f[1] = h
            /\ \A z \in 1..Len(g) : f[1 + z] = g[z]
        BY <3>1, <3>2, <4>1, <4>2, Glued
      <4>4. f[2] = g[1] /\ \A z \in 1..Len(zone) : f[2 + z] = g[1 + z]
        <5>1. 1 \in 1..Len(g) /\ 1 + 1 = 2
          BY <4>1, <4>2
        <5>2. \A z \in 1..Len(zone) : 1 + z \in 1..Len(g) /\ 1 + (1 + z) = 2 + z
          BY <4>1, <4>2
        <5> QED
          BY <4>3, <5>1, <5>2
      <4> QED
        BY <4>1, <4>2, <4>3, <4>4
    <3> HIDE DEF S, f
    <3>4. f # <<>> /\ 2 \in DOMAIN f
      BY <3>3
    <3>5. SubSeq(f, 2 + 1, 2 + Len(zone)) = zone
      <4>1. 2 \in Nat /\ 2 + Len(zone) <= Len(f)
        BY <3>3
      <4> QED
        BY <3>2, <3>3, <4>1, CutIs
    <3> QED
      BY <2>1, <3>3, <3>4, <3>5 DEF At
  <2>2. CASE type # "timestamp"
    <3>1. f = <<h>> \o <<>>
      BY <2>2
    <3>2. f = <<h>>
      BY <3>1
    <3> HIDE DEF f
    <3> QED
      BY <2>2, <3>2
  <2> QED
    BY <2>1, <2>2
<1> HIDE DEF f
<1>7. Parse(v, s) = Parsed(w, Len(f) + 1)
  <2> DEFINE d == DateTime[h]
             a == [v EXCEPT !.type = d[1], !.storage = d[2], !.unit = IF d[3] = "" THEN @ ELSE d[3]]
  <2>1. Parse(v, s) = ParseDateTime(v, f)
    BY <1>3, <1>5, <1>6, ParseIs
  <2>2. ParseDateTime(v, f) =
          IF d[1] # "timestamp" THEN Parsed(a, 2)
          ELSE IF At(f, 2) # ":" THEN Refused(v)
          ELSE Parsed([a EXCEPT !.timezone = SubSeq(f, 3, Len(f))], Len(f) + 1)
    BY <1>6, Zenon DEF ParseDateTime
  <2>3. d[1] = type /\ d[2] = storage /\ d[3] = unit
    BY <1>5 DEF storage
  <2> HIDE DEF d
  <2>4. a = x
    BY <1>5, <2>3
  <2> HIDE DEF a, x
  <2>5. CASE type = "timestamp"
    <3>1. w = y
      BY <2>5
    <3> HIDE DEF w
    <3> QED
      BY <1>6, <2>1, <2>2, <2>3, <2>4, <2>5, <3>1
  <2>6. CASE type # "timestamp"
    <3>1. w = x
      BY <2>6
    <3> HIDE DEF w
    <3> QED
      BY <1>6, <2>1, <2>2, <2>3, <2>4, <2>6, <3>1
  <2> QED
    BY <2>5, <2>6
<1>8. IsView(w) /\ w.type = type /\ w.storage = storage /\ w.unit = unit
      /\ (type = "timestamp" => w.timezone = zone)
  <2>1. IsView(x) /\ x.type = type /\ x.storage = storage /\ x.unit = unit
    BY DEF IsView, ViewMembers
  <2> HIDE DEF x
  <2>2. IsView(y) /\ y.type = type /\ y.storage = storage /\ y.unit = unit /\ y.timezone = zone
    BY <2>1 DEF IsView, ViewMembers
  <2> HIDE DEF y
  <2> QED
    BY <2>1, <2>2
<1> HIDE DEF w
<1>9. ASSUME NEW inner, NEW t \in {type, storage} PROVE Validate(w, s, t, inner) = "ok"
  <2>1. NChildren(t) = 0 /\ t # "map" /\ t # "dictionary" /\ t # "fixed_size_binary"
    BY <1>5 DEF NChildren, Timed
  <2> QED
    BY <1>3, <2>1, ValidIs
<1>10. ViewInit(v, s).error = "ok" /\ ViewInit(v, s).view.type = w.type
       /\ Members(ViewInit(v, s).view).arguments = Arguments(w)
  <2>1. \A inner : /\ Validate(w, s, w.storage, inner) = "ok"
                   /\ w.type # w.storage => Validate(w, s, w.type, inner) = "ok"
    BY <1>8, <1>9
  <2>2. w.type # "dictionary"
    BY <1>5, <1>8 DEF Timed
  <2>3. Made(s, f, 0) /\ f # <<>> /\ IsView(w)
    BY <1>3, <1>6, <1>8
  <2> QED
    BY ONLY <1>7, <2>1, <2>2, <2>3, ReadIs
<1>11. Arguments(w) = IF type = "timestamp" THEN <<unit, zone>> ELSE <<unit>>
  BY <1>5, <1>8 DEF Arguments, Timed, Decimals
<1> QED
  BY <1>4, <1>8, <1>10, <1>11 DEF Reads, r, zone

LEMMA MoreTokens ==
  ASSUME NEW S, NEW T, S \subseteq T, NEW f \in Seq(S)
  PROVE  f \in Seq(T) /\ Len(f) \in Nat
OBVIOUS

LEMMA UnionFormatIs ==
  ASSUME NEW S, NEW h \in S, NEW o \in S, NEW t \in Seq(S), NEW f, f = <<h, o>> \o t
  PROVE  /\ f \in Seq(S) /\ Len(f) = 2 + Len(t) /\ Len(t) \in Nat
         /\ f[1] = h /\ f[2] = o
         /\ \A z \in 1..Len(t) : f[2 + z] = t[z]
<1> DEFINE g == <<h, o>>
<1>0. f = g \o t
  OBVIOUS
<1>1. g \in Seq(S) /\ Len(g) = 2 /\ g[1] = h /\ g[2] = o
  OBVIOUS
<1> HIDE DEF g
<1>2. /\ f \in Seq(S) /\ Len(f) = 2 + Len(t) /\ Len(t) \in Nat
      /\ \A z \in 1..2 : f[z] = g[z]
      /\ \A z \in 1..Len(t) : f[2 + z] = t[z]
  BY <1>0, <1>1, JoinIs
<1>3. 1 \in 1..2 /\ 2 \in 1..2
  OBVIOUS
<1> QED
  BY <1>1, <1>2, <1>3

(* ArrowSchemaSetTypeUnion.                                                *)
LEMMA SetTypeUnionIsRead ==
  ASSUME NEW v, IsView(v), NEW type, NEW n \in Int, \A k \in 0..(n - 1) : IsWritten(k),
         SetTypeUnion(Fresh, type, n).error = "ok"
  PROVE  Reads(v, SetTypeUnion(Fresh, type, n).node, type, TypeIds(n))
<1> DEFINE h == IF type = "sparse_union" THEN "+us" ELSE "+ud"
           ids == TypeIds(n)
           g == <<h, ":">>
           f == g \o ids
           child == [z \in 1..n |-> Fresh]
           q == AddChildren(SetFormat(Fresh, f), n, child)
           s == q.node
           bad == n \notin 0..127 \/ type \notin {"sparse_union", "dense_union"}
           r == SetTypeUnion(Fresh, type, n)
           x == SetPrimitive(v, type)
           w == [x EXCEPT !.type_ids = ids]
<1>1. n \in Nat /\ n <= 127 /\ type \in Unions /\ r = q
  <2>1. r = IF bad THEN Fails("EINVAL", Fresh) ELSE q
    BY Zenon DEF SetTypeUnion
  <2>2. Fails("EINVAL", Fresh).error # "ok"
    BY DEF Fails
  <2>3. ~bad => n \in Nat /\ n <= 127 /\ type \in Unions
    BY DEF Unions
  <2> HIDE DEF bad, q
  <2> QED
    BY <2>1, <2>2, <2>3
<1>2. ids \in Seq(STRING \cup {","}) /\ CountTypeIds(ids) = n
  BY <1>1, TypeIdsAreCounted
<1>3. \A z \in 1..n : child[z].live
  BY EntriesAre
<1> HIDE DEF child, ids, bad
<1>4. Made(s, f, n)
  BY <1>1, <1>3, ChildrenAreMade
<1>5. s.format = f /\ Len(s.children) = n
  BY <1>4 DEF Made
<1>6. f # <<>> /\ f[1] = h /\ At(f, 2) = ":" /\ SubSeq(f, 3, Len(f)) = ids
  <2> DEFINE S == STRING \cup {",", h, ":"}
  <2> HIDE DEF h
  <2>1. ids \in Seq(S)
    <3>1. STRING \cup {","} \subseteq S
      OBVIOUS
    <3> HIDE DEF S
    <3> QED
      BY <1>2, <3>1, MoreTokens
  <2>2. h \in S /\ ":" \in S
    OBVIOUS
  <2>2a. f = <<h, ":">> \o ids
    OBVIOUS
  <2> HIDE DEF S, h, f
  <2>3. /\ f \in Seq(S) /\ Len(f) = 2 + Len(ids) /\ Len(ids) \in Nat /\ f[1] = h /\ f[2] = ":"
        /\ \A z \in 1..Len(ids) : f[2 + z] = ids[z]
    BY <2>1, <2>2, <2>2a, UnionFormatIs
  <2>4. f # <<>> /\ 2 \in DOMAIN f /\ 2 \in Nat /\ 2 + Len(ids) <= Len(f)
    BY <2>3
  <2>5. SubSeq(f, 2 + 1, 2 + Len(ids)) = ids
    BY <2>1, <2>3, <2>4, CutIs
  <2> QED
    BY <2>3, <2>4, <2>5 DEF At
<1> HIDE DEF g, f, q, r
<1>7. Parse(v, s) = Parsed(w, Len(f) + 1)
  <2>1. h \in {"+ud", "+us"}
    OBVIOUS
  <2>2. Parse(v, s) = ParseUnion(v, f, n)
    BY <1>5, <1>6, <2>1, ParseIs
  <2> DEFINE kind == IF f[1] = "+ud" THEN "dense_union" ELSE "sparse_union"
  <2>3. kind = type
    BY <1>1, <1>6 DEF Unions
  <2>4. ParseUnion(v, f, n) =
          IF At(f, 2) # ":" \/ ~CountFits(SubSeq(f, 3, Len(f)), n) THEN Refused(v)
          ELSE Parsed([SetPrimitive(v, kind) EXCEPT !.type_ids = SubSeq(f, 3, Len(f))], Len(f) + 1)
    BY Zenon DEF ParseUnion
  <2> HIDE DEF kind, w, s, h
  <2>5. ~(At(f, 2) # ":" \/ ~CountFits(SubSeq(f, 3, Len(f)), n))
    BY <1>2, <1>6 DEF CountFits
  <2>6. [SetPrimitive(v, kind) EXCEPT !.type_ids = SubSeq(f, 3, Len(f))] = w
    BY <1>6, <2>3, Zenon DEF w
  <2> QED
    BY <2>2, <2>4, <2>5, <2>6, Zenon
<1>8. IsView(x) /\ x.type = type /\ x.storage = type
  BY PrimitiveIs
<1> HIDE DEF x, h
<1>9. IsView(w) /\ w.type = type /\ w.storage = type /\ w.type_ids = ids
  BY <1>8 DEF IsView, ViewMembers
<1> HIDE DEF w, s
<1>10. ASSUME NEW inner PROVE Validate(w, s, type, inner) = "ok"
  <2>1. NChildren(type) = -1 /\ type # "map" /\ type # "dictionary" /\ type # "fixed_size_binary"
    BY <1>1 DEF NChildren, Unions
  <2> QED
    BY <1>4, <2>1, ValidIs
<1>11. ViewInit(v, s).error = "ok" /\ ViewInit(v, s).view.type = w.type
       /\ Members(ViewInit(v, s).view).arguments = Arguments(w)
  <2>1. \A inner : /\ Validate(w, s, w.storage, inner) = "ok"
                   /\ w.type # w.storage => Validate(w, s, w.type, inner) = "ok"
    BY <1>9, <1>10
  <2>2. w.type # "dictionary"
    BY <1>1, <1>9 DEF Unions
  <2>3. Made(s, f, n) /\ f # <<>> /\ IsView(w)
    BY <1>4, <1>6, <1>9
  <2> QED
    BY ONLY <1>7, <2>1, <2>2, <2>3, ReadIs
<1>12. Arguments(w) = ids
  BY <1>1, <1>9 DEF Arguments, Decimals, Unions
<1> QED
  BY <1>1, <1>9, <1>11, <1>12 DEF Reads, s, ids, r

(* ArrowSchemaSetTypeDecimal.                                              *)
LEMMA DecimalFormatIs ==
  ASSUME NEW S, NEW a \in S, NEW b \in S, NEW o \in S, NEW d \in S, NEW e \in S, NEW t \in Seq(S),
         NEW f, f = <<a, b, o, d, e>> \o t
  PROVE  /\ DOMAIN f = 1..(5 + Len(t)) /\ Len(f) = 5 + Len(t) /\ Len(t) \in Nat
         /\ f[1] = a /\ f[2] = b /\ f[3] = o /\ f[4] = d /\ f[5] = e
         /\ \A z \in 1..Len(t) : f[5 + z] = t[z]
<1> DEFINE g == <<a, b, o, d, e>>
<1>1. g \in Seq(S) /\ Len(g) = 5 /\ g[1] = a /\ g[2] = b /\ g[3] = o /\ g[4] = d /\ g[5] = e
  OBVIOUS
<1>2. f = g \o t
  OBVIOUS
<1> HIDE DEF g
<1>3. /\ f \in Seq(S) /\ Len(f) = 5 + Len(t) /\ Len(t) \in Nat
      /\ \A z \in 1..5 : f[z] = g[z]
      /\ \A z \in 1..Len(t) : f[5 + z] = t[z]
  BY <1>1, <1>2, JoinIs
<1>4. DOMAIN f = 1..(5 + Len(t))
  BY <1>3
<1>5. 1 \in 1..5 /\ 2 \in 1..5 /\ 3 \in 1..5 /\ 4 \in 1..5 /\ 5 \in 1..5
  OBVIOUS
<1>6. f[1] = a /\ f[2] = b /\ f[3] = o /\ f[4] = d /\ f[5] = e
  BY <1>1, <1>3, <1>5
<1> QED
  BY <1>3, <1>4, <1>6

(* The SMT backend cannot read the string "," : it stays a name.           *)
Comma == ","

(* How the width of each decimal is written.                               *)
Width(t, bits) ==
  \/ t = <<>> /\ bits = 128
  \/ \E e \in DOMAIN Numeral : t = <<Comma, e>> /\ Numeral[e] = bits
WidthOf(type) == [decimal32 |-> 32, decimal64 |-> 64, decimal128 |-> 128, decimal256 |-> 256][type]

LEMMA WidthIs ==
  ASSUME NEW type \in DOMAIN BitWidthArgument
  PROVE  /\ Width(BitWidthArgument[type], WidthOf(type))
         /\ DecimalOf(WidthOf(type)) = type /\ type \in Decimals
         /\ ToInt32(WidthOf(type)) = WidthOf(type)
<1>a. BitWidthArgument = [decimal32 |-> <<Comma, "32">>, decimal64 |-> <<Comma, "64">>,
                          decimal128 |-> <<>>, decimal256 |-> <<Comma, "256">>]
  BY Zenon DEF BitWidthArgument, Comma
<1>0. type \in Decimals
  BY <1>a DEF Decimals
<1>1. CASE type = "decimal32"
  <2>1. BitWidthArgument[type] = <<Comma, "32">> /\ WidthOf(type) = 32
    BY <1>a, <1>1 DEF WidthOf
  <2>2. Width(<<Comma, "32">>, 32)
    BY NumeralAssumption DEF Width
  <2>3. DecimalOf(32) = type
    BY <1>1 DEF DecimalOf
  <2>4. ToInt32(32) = 32
    BY IntMaxAssumption, ToInt32Is
  <2> QED
    BY <1>0, <2>1, <2>2, <2>3, <2>4
<1>2. CASE type = "decimal64"
  <2>1. BitWidthArgument[type] = <<Comma, "64">> /\ WidthOf(type) = 64
    BY <1>a, <1>2 DEF WidthOf
  <2>2. Width(<<Comma, "64">>, 64)
    BY NumeralAssumption DEF Width
  <2>3. DecimalOf(64) = type
    BY <1>2 DEF DecimalOf
  <2>4. ToInt32(64) = 64
    BY IntMaxAssumption, ToInt32Is
  <2> QED
    BY <1>0, <2>1, <2>2, <2>3, <2>4
<1>3. CASE type = "decimal128"
  <2>1. BitWidthArgument[type] = <<>> /\ WidthOf(type) = 128
    BY <1>a, <1>3 DEF WidthOf
  <2>2. Width(<<>>, 128)
    BY <1>3 DEF Width
  <2>3. DecimalOf(128) = type
    BY <1>3 DEF DecimalOf
  <2>4. ToInt32(128) = 128
    BY IntMaxAssumption, ToInt32Is
  <2> QED
    BY <1>0, <2>1, <2>2, <2>3, <2>4
<1>4. CASE type = "decimal256"
  <2>1. BitWidthArgument[type] = <<Comma, "256">> /\ WidthOf(type) = 256
    BY <1>a, <1>4 DEF WidthOf
  <2>2. Width(<<Comma, "256">>, 256)
    BY NumeralAssumption DEF Width
  <2>3. DecimalOf(256) = type
    BY <1>4 DEF DecimalOf
  <2>4. ToInt32(256) = 256
    BY IntMaxAssumption, ToInt32Is
  <2> QED
    BY <1>0, <2>1, <2>2, <2>3, <2>4
<1> QED
  BY <1>0, <1>1, <1>2, <1>3, <1>4 DEF Decimals

(* The letters of a decimal format, one by one.                            *)
LEMMA DecimalIsWritten ==
  ASSUME NEW t, NEW bits, Width(t, bits), NEW a \in STRING, NEW b \in STRING,
         NEW f, f = <<"d", ":", a, Comma, b>> \o t
  PROVE  /\ DOMAIN f = 1..(5 + Len(t)) /\ Len(f) = 5 + Len(t) /\ Len(t) \in Nat
         /\ f[1] = "d" /\ f[2] = ":" /\ f[3] = a /\ f[4] = Comma /\ f[5] = b
         /\ \A z \in 1..Len(t) : f[5 + z] = t[z]
<1> DEFINE S == STRING \cup {Comma, ":", "d"}
<1>1. "d" \in S /\ ":" \in S /\ Comma \in S /\ a \in S /\ b \in S
  OBVIOUS
<1>2. t \in Seq(S)
  <2>1. ASSUME NEW e, t = <<Comma, e>>, e \in DOMAIN Numeral PROVE t \in Seq(S)
    <3>1. e \in S
      BY <2>1, NumeralAssumption
    <3> HIDE DEF S
    <3> QED
      BY ONLY <1>1, <2>1, <3>1
  <2>2. ASSUME t = <<>> PROVE t \in Seq(S)
    <3> HIDE DEF S
    <3> QED
      BY ONLY <2>2
  <2> HIDE DEF S
  <2> QED
    BY <2>1, <2>2, Zenon DEF Width
<1> HIDE DEF S
<1> QED
  BY ONLY <1>1, <1>2, f = <<"d", ":", a, Comma, b>> \o t, DecimalFormatIs

(* A decimal format: its letters, and the numbers written in it.           *)
SaysDecimal(f, type, t, bits, p, o, a, b) ==
  /\ type \in Decimals /\ Width(t, bits) /\ DecimalOf(bits) = type
  /\ ToInt32(bits) = bits /\ ToInt32(p) = p /\ ToInt32(o) = o
  /\ a \in DOMAIN Numeral /\ Numeral[a] = p /\ b \in DOMAIN Numeral /\ Numeral[b] = o
  /\ DOMAIN f = 1..(5 + Len(t)) /\ Len(f) = 5 + Len(t) /\ Len(t) \in Nat
  /\ f[2] = ":" /\ f[3] = a /\ f[4] = Comma /\ f[5] = b
  /\ \A z \in 1..Len(t) : f[5 + z] = t[z]

DecimalView(v, type, p, o, bits) ==
  [SetPrimitive(v, type) EXCEPT !.precision = p, !.scale = o, !.bitwidth = bits]

(* The numbers ArrowSchemaViewParse finds in it.                           *)
LEMMA DecimalIsParsed ==
  ASSUME NEW v, NEW f, NEW type, NEW t, NEW bits, NEW p, NEW o, NEW a, NEW b,
         SaysDecimal(f, type, t, bits, p, o, a, b)
  PROVE  ParseDecimal(v, f) =
           Parsed(DecimalView(v, type, p, o, bits), Len(f) + 1)
<1> USE DEF SaysDecimal
<1>0. Comma # "end"
  BY Zenon DEF Comma
<1>1. 2 \in DOMAIN f /\ 3 \in DOMAIN f /\ 4 \in DOMAIN f /\ 5 \in DOMAIN f
  OBVIOUS
<1>2. At(f, 2) = ":" /\ At(f, 4) = Comma
  BY <1>1 DEF At
<1>3. Strtol(f, 3).value = p /\ Strtol(f, 3).next = 4
  <2>1. 3 + 1 = 4
    OBVIOUS
  <2> QED
    BY <1>1, <2>1, NumberIs
<1>4. Strtol(f, 5).value = o /\ Strtol(f, 5).next = 6
  <2>1. 5 + 1 = 6
    OBVIOUS
  <2> QED
    BY <1>1, <2>1, NumberIs
<1> DEFINE given == At(f, 6) = Comma
<1>5. /\ given => Strtol(f, 7).value = bits /\ Strtol(f, 7).next = 8 /\ Len(f) + 1 = 8
      /\ ~given => bits = 128 /\ Len(f) + 1 = 6
  <2>1. ASSUME t = <<>>, bits = 128 PROVE ~given /\ bits = 128 /\ Len(f) + 1 = 6
    <3>1. Len(t) = 0
      BY <2>1
    <3>2. 6 \notin DOMAIN f /\ Len(f) + 1 = 6
      BY <3>1
    <3> QED
      BY <1>0, <2>1, <3>2 DEF At
  <2>2. ASSUME NEW e, t = <<Comma, e>>, e \in DOMAIN Numeral, Numeral[e] = bits
        PROVE  given /\ Strtol(f, 7).value = bits /\ Strtol(f, 7).next = 8 /\ Len(f) + 1 = 8
    <3>1. Len(t) = 2 /\ t[1] = Comma /\ t[2] = e
      BY <2>2
    <3>2. 1 \in 1..Len(t) /\ 2 \in 1..Len(t) /\ 5 + 1 = 6 /\ 5 + 2 = 7 /\ 7 + 1 = 8
      BY <3>1
    <3>3. 6 \in DOMAIN f /\ 7 \in DOMAIN f /\ Len(f) + 1 = 8
      BY <3>1
    <3>4. f[6] = Comma /\ f[7] = e
      BY <3>1, <3>2
    <3>5. given
      BY <3>3, <3>4 DEF At
    <3>6. Strtol(f, 7).value = bits /\ Strtol(f, 7).next = 8
      BY <2>2, <3>2, <3>3, <3>4, NumberIs
    <3> QED
      BY <3>3, <3>5, <3>6
  <2>3. \/ t = <<>> /\ bits = 128
        \/ \E e : t = <<Comma, e>> /\ e \in DOMAIN Numeral /\ Numeral[e] = bits
    BY DEF Width
  <2> QED
    BY <2>1, <2>2, <2>3, Zenon
<1> DEFINE precision == Strtol(f, 3)
           scale == Strtol(f, precision.next + 1)
           width == Strtol(f, scale.next + 1)
           said == At(f, scale.next) = Comma
           asked == IF said THEN ToInt32(width.value) ELSE 128
           bad == \/ At(f, 2) # ":" \/ precision.next = 3 \/ At(f, precision.next) # Comma
                  \/ scale.next = precision.next + 1
                  \/ (said /\ width.next = scale.next + 1)
                  \/ DecimalOf(asked) = "none"
           y == [SetPrimitive(v, DecimalOf(asked)) EXCEPT !.precision = ToInt32(precision.value),
                   !.scale = ToInt32(scale.value), !.bitwidth = asked]
           next == IF said THEN width.next ELSE scale.next
           w == DecimalView(v, type, p, o, bits)
<1>6. ParseDecimal(v, f) = IF bad THEN Refused(v) ELSE Parsed(y, next)
  BY Zenon DEF ParseDecimal, DefaultBitWidth, Comma
<1> HIDE DEF w, given
<1>7. precision.next = 4 /\ precision.value = p /\ precision.next + 1 = 5
  <2> HIDE DEF scale, width, said, asked, bad, y, next
  <2>1. precision.next = 4 /\ precision.value = p
    BY ONLY <1>3
  <2> HIDE DEF precision
  <2> QED
    BY ONLY <2>1
<1> HIDE DEF precision
<1>8. scale = Strtol(f, 5)
  BY ONLY <1>7
<1>9. scale.next = 6 /\ scale.value = o /\ scale.next + 1 = 7
  <2> HIDE DEF scale
  <2> QED
    BY ONLY <1>4, <1>8
<1> HIDE DEF scale
<1>10. width = Strtol(f, 7) /\ said = given
  BY ONLY <1>9 DEF given
<1> HIDE DEF width, said
<1>11. asked = bits
  <2>1. said => width.value = bits
    BY ONLY <1>5, <1>10
  <2>2. ~said => bits = 128
    BY ONLY <1>5, <1>10
  <2> QED
    BY ONLY <2>1, <2>2, SaysDecimal(f, type, t, bits, p, o, a, b)
<1>12. next = Len(f) + 1
  BY ONLY <1>5, <1>9, <1>10
<1> HIDE DEF asked, next
<1>13. ~bad
  <2>1. DecimalOf(asked) # "none"
    BY <1>11 DEF Decimals
  <2>2. said => width.next = 8
    BY ONLY <1>5, <1>10
  <2>3. At(f, precision.next) = Comma /\ At(f, 2) = ":"
    BY ONLY <1>2, <1>7
  <2> QED
    BY ONLY <1>7, <1>9, <2>1, <2>2, <2>3
<1>14. y = w
  <2>1. SetPrimitive(v, DecimalOf(asked)) = SetPrimitive(v, type)
    BY <1>11
  <2>2. ToInt32(precision.value) = p /\ ToInt32(scale.value) = o
    BY <1>7, <1>9
  <2> QED
    BY <1>11, <2>1, <2>2, Zenon DEF w, DecimalView
<1> HIDE DEF bad, y
<1> QED
  BY ONLY <1>6, <1>12, <1>13, <1>14 DEF w

LEMMA SetTypeDecimalIsRead ==
  ASSUME NEW v, IsView(v), NEW type, NEW p \in Int, p > 0 => IsWritten(p), NEW o, IsWritten(o),
         SetTypeDecimal(Fresh, type, p, o).error = "ok"
  PROVE  Reads(v, SetTypeDecimal(Fresh, type, p, o).node, type, <<p, o, WidthOf(type)>>)
<1> DEFINE t == BitWidthArgument[type]
           bits == WidthOf(type)
           a == Digits(p)
           b == Digits(o)
           f == <<"d", ":", a, Comma, b>> \o t
           s == SetFormat(Fresh, f)
           r == SetTypeDecimal(Fresh, type, p, o)
           x == SetPrimitive(v, type)
           w == DecimalView(v, type, p, o, bits)
<1>1. p > 0 /\ type \in DOMAIN BitWidthArgument /\ r = Done(s)
  <2>1. r = IF p <= 0 \/ type \notin DOMAIN BitWidthArgument THEN Fails("EINVAL", Fresh) ELSE Done(s)
    BY Zenon DEF SetTypeDecimal, Comma
  <2>2. Fails("EINVAL", Fresh).error # "ok"
    BY DEF Fails
  <2> HIDE DEF s, r
  <2> QED
    BY <2>1, <2>2 DEF r
<1>2. Width(t, bits) /\ DecimalOf(bits) = type /\ type \in Decimals /\ ToInt32(bits) = bits
  BY <1>1, WidthIs
<1>3. /\ ToInt32(p) = p /\ a \in DOMAIN Numeral /\ Numeral[a] = p /\ a \in STRING
      /\ ToInt32(o) = o /\ b \in DOMAIN Numeral /\ Numeral[b] = o /\ b \in STRING
  BY <1>1, WrittenIs
<1>4. Made(s, f, 0) /\ s.format = f
  BY FormatIsMade DEF Made
<1>5. r.node = s
  BY <1>1 DEF Done
<1>6. f = <<"d", ":", a, Comma, b>> \o t
  OBVIOUS
<1>0. w = DecimalView(v, type, p, o, bits)
  OBVIOUS
<1> HIDE DEF t, bits, a, b, s, r, x, w, f
<1>7. /\ DOMAIN f = 1..(5 + Len(t)) /\ Len(f) = 5 + Len(t) /\ Len(t) \in Nat
      /\ f[1] = "d" /\ f[2] = ":" /\ f[3] = a /\ f[4] = Comma /\ f[5] = b
      /\ \A z \in 1..Len(t) : f[5 + z] = t[z]
  BY ONLY <1>2, <1>3, <1>6, DecimalIsWritten
<1>8. 1 \in DOMAIN f
  BY ONLY <1>7
<1>9. ParseDecimal(v, f) = Parsed(w, Len(f) + 1)
  <2>1. ParseDecimal(v, f) =
          Parsed(DecimalView(v, type, p, o, bits), Len(f) + 1)
    <3>1. SaysDecimal(f, type, t, bits, p, o, a, b)
      BY ONLY <1>2, <1>3, <1>7, Zenon DEF SaysDecimal
    <3> QED
      BY ONLY <3>1, DecimalIsParsed
  <2> QED
    BY ONLY <1>0, <2>1
<1>10. Parse(v, s) = Parsed(w, Len(f) + 1)
  <2>1. Parse(v, s) = ParseDecimal(v, f)
    BY <1>4, <1>7, <1>8, ParseIs
  <2> QED
    BY ONLY <1>9, <2>1
<1>11. IsView(x) /\ x.type = type /\ x.storage = type
  BY PrimitiveIs DEF x
<1>12. /\ IsView(w) /\ w.type = type /\ w.storage = type
       /\ w.precision = p /\ w.scale = o /\ w.bitwidth = bits
  BY <1>11 DEF w, x, DecimalView, IsView, ViewMembers
<1>13. ASSUME NEW inner PROVE Validate(w, s, type, inner) = "ok"
  <2>1. NChildren(type) = 0 /\ type # "map" /\ type # "dictionary" /\ type # "fixed_size_binary"
    BY <1>2 DEF NChildren, Decimals
  <2> QED
    BY <1>4, <2>1, ValidIs
<1>14. ViewInit(v, s).error = "ok" /\ ViewInit(v, s).view.type = w.type
       /\ Members(ViewInit(v, s).view).arguments = Arguments(w)
  <2>1. \A inner : /\ Validate(w, s, w.storage, inner) = "ok"
                   /\ w.type # w.storage => Validate(w, s, w.type, inner) = "ok"
    BY <1>12, <1>13
  <2>2. w.type # "dictionary"
    BY <1>2, <1>12 DEF Decimals
  <2>3. Made(s, f, 0) /\ f # <<>> /\ IsView(w)
    BY <1>4, <1>8, <1>12
  <2> QED
    BY ONLY <1>10, <2>1, <2>2, <2>3, ReadIs
<1>15. Arguments(w) = <<p, o, bits>>
  BY <1>2, <1>12 DEF Arguments, Decimals
<1> QED
  BY <1>5, <1>12, <1>14, <1>15 DEF Reads, r, bits

---------------------------------------------------------------------------
(* Every call leaves a format that is a sequence of tokens.                *)

(* The tokens of the formats the setters write, beside the numerals, the   *)
(* time zones and what another library may write.                          *)
Tokens == STRING \cup SelfHeads \cup NestHeads \cup TimeHeads
                 \cup {"d", "w", "+w", "+ud", "+us", ":", Comma}
Formatted(f) == f \in Seq(Tokens)

LEMMA ShortFormats ==
  /\ Formatted(<< >>)
  /\ \A x \in Tokens : Formatted(<<x>>)
  /\ \A x, y \in Tokens : Formatted(<<x, y>>)
  /\ \A x, y, z \in Tokens : Formatted(<<x, y, z>>)
BY DEF Formatted

LEMMA TemplatesAreFormats ==
  ASSUME NEW type \in DOMAIN FormatTemplate
  PROVE  Formatted(FormatTemplate[type])
<1>1. PICK h : Letter(type, h)
  BY TemplateIs
<1>2. h \in Tokens /\ FormatTemplate[type] = <<h>>
  BY <1>1 DEF Letter, Tokens, TimeHeads
<1> QED
  BY <1>2, ShortFormats

LEMMA FormatStays ==
  ASSUME NEW s, IsNode(s), NEW type, NEW n \in Nat, NEW child
  PROVE  /\ AddChildren(s, n, child).node.format = s.format
         /\ InitChildrenIfNeeded(s, type).node.format = s.format
<1>1. ASSUME NEW m \in Nat, NEW o PROVE AddChildren(s, m, o).node.format = s.format
  <2> DEFINE q == AllocateChildren(s, m).node
             t == [q EXCEPT !.children = [z \in 1..m |-> o[z]]]
  <2>1. q.format = s.format
    BY DEF AllocateChildren, Done, Fails, IsNode, NodeMembers
  <2>2. t.format = q.format
    <3>1. IsNode(q)
      BY ChildrenAreAllocated
    <3> HIDE DEF q
    <3> QED
      BY <3>1 DEF IsNode, NodeMembers
  <2>3. AddChildren(s, m, o).node = t \/ AddChildren(s, m, o).node = q
    BY DEF AddChildren, Done
  <2> HIDE DEF t, q
  <2> QED
    BY <2>1, <2>2, <2>3
<1>2. InitChildrenIfNeeded(s, type).node.format = s.format
  <2> DEFINE r == InitChildrenIfNeeded(s, type)
             a == <<Fresh>>
             b == <<[NonNull(Fresh) EXCEPT !.format = <<"+s">>, !.children = <<NonNull(Fresh), Fresh>>]>>
             o == <<NonNull(Fresh), Fresh>>
  <2>1. r = AddChildren(s, 1, a) \/ r = AddChildren(s, 1, b) \/ r = AddChildren(s, 2, o) \/ r = Done(s)
    BY DEF InitChildrenIfNeeded
  <2> HIDE DEF a, b, o, r
  <2>2. /\ AddChildren(s, 1, a).node.format = s.format /\ AddChildren(s, 1, b).node.format = s.format
        /\ AddChildren(s, 2, o).node.format = s.format
    BY <1>1
  <2>3. Done(s).node.format = s.format
    BY DEF Done
  <2>4. r.node.format = s.format
    BY <2>1, <2>2, <2>3, Zenon
  <2> QED
    BY <2>4 DEF r
<1> QED
  BY <1>1, <1>2

LEMMA SettersWriteFormats ==
  ASSUME NEW s, IsNode(s), Formatted(s.format), NEW call, NEW a, IsCall(call, a)
  PROVE  Formatted(Result(call, a, s).node.format)
<1> DEFINE Kept(r) == Formatted(r.node.format)
<1>0. ASSUME NEW f, Formatted(f)
      PROVE  IsNode(SetFormat(s, f)) /\ SetFormat(s, f).format = f /\ Kept(Done(SetFormat(s, f)))
  <2>1. IsNode(SetFormat(s, f))
    BY FormatIsSet
  <2>2. SetFormat(s, f).format = f
    BY DEF SetFormat, IsNode, NodeMembers
  <2> QED
    BY <1>0, <2>1, <2>2 DEF Done
<1>1. ASSUME NEW f, Formatted(f), NEW type PROVE Kept(InitChildrenIfNeeded(SetFormat(s, f), type))
  <2>1. IsNode(SetFormat(s, f)) /\ SetFormat(s, f).format = f /\ 1 \in Nat
    BY <1>0, <1>1
  <2> QED
    BY <1>1, <2>1, FormatStays
<1>2. ASSUME NEW e PROVE Kept(Fails(e, s))
  BY DEF Fails
<1>3. ASSUME NEW type PROVE Kept(SetType(s, type))
  <2> DEFINE r == SetType(s, type)
             f == FormatTemplate[type]
  <2>1. \/ r = Done(SetFormat(s, << >>))
        \/ type \in DOMAIN FormatTemplate /\ r = InitChildrenIfNeeded(SetFormat(s, f), type)
        \/ r = Fails("EINVAL", s)
    BY DEF SetType
  <2>2. Formatted(<< >>) /\ (type \in DOMAIN FormatTemplate => Formatted(f))
    BY ShortFormats, TemplatesAreFormats
  <2> HIDE DEF r, f, Kept
  <2>3. Kept(r)
    BY <1>0, <1>1, <1>2, <2>1, <2>2
  <2> QED
    BY <2>3 DEF r
<1>4. CASE call = "SetType"
  BY <1>3, <1>4, ResultIs
<1>5. CASE call = "SetTypeStruct"
  <2> DEFINE r == SetType(s, "struct")
             child == [z \in 1..a[1] |-> Fresh]
  <2>1. SetTypeStruct(s, a[1]) = IF r.error = "ok" THEN AddChildren(r.node, a[1], child) ELSE r
    BY DEF SetTypeStruct
  <2>2. IsNode(r.node) /\ Kept(r) /\ a[1] \in Nat
    BY <1>3, <1>5, TypeIsSet DEF IsCall
  <2> HIDE DEF r, child
  <2>3. Kept(AddChildren(r.node, a[1], child))
    BY <2>2, FormatStays
  <2>4. Kept(SetTypeStruct(s, a[1]))
    BY <2>1, <2>2, <2>3
  <2> QED
    BY <1>5, <2>4, ResultIs
<1>6. CASE call = "SetTypeFixedSize"
  <2> DEFINE f == <<IF a[1] = "fixed_size_binary" THEN "w" ELSE "+w", ":", Digits(a[2])>>
             bad == a[2] <= 0 \/ a[1] \notin {"fixed_size_binary", "fixed_size_list"}
  <2>1. SetTypeFixedSize(s, a[1], a[2]) =
          IF bad THEN Fails("EINVAL", s) ELSE InitChildrenIfNeeded(SetFormat(s, f), a[1])
    BY DEF SetTypeFixedSize
  <2>2. ~bad => IsWritten(a[2])
    BY <1>6 DEF IsCall
  <2>3. ~bad => Formatted(f)
    <3> DEFINE x == IF a[1] = "fixed_size_binary" THEN "w" ELSE "+w"
    <3>1. x \in Tokens /\ ":" \in Tokens
      BY DEF Tokens
    <3>2. ~bad => Digits(a[2]) \in Tokens
      BY <2>2, WrittenIs DEF Tokens
    <3> HIDE DEF x
    <3> QED
      BY <3>1, <3>2, ShortFormats DEF x
  <2> HIDE DEF f, bad, Kept
  <2>4. Kept(SetTypeFixedSize(s, a[1], a[2]))
    BY <1>1, <1>2, <2>1, <2>3
  <2> QED
    BY <1>6, <2>4, ResultIs DEF Kept
<1>7. CASE call = "SetTypeDecimal"
  <2> DEFINE g == <<"d", ":", Digits(a[2]), ",", Digits(a[3])>>
             h == BitWidthArgument[a[1]]
             f == g \o h
             bad == a[2] <= 0 \/ a[1] \notin DOMAIN BitWidthArgument
  <2>1. SetTypeDecimal(s, a[1], a[2], a[3]) = IF bad THEN Fails("EINVAL", s) ELSE Done(SetFormat(s, f))
    BY DEF SetTypeDecimal
  <2>2. ~bad => IsWritten(a[2]) /\ IsWritten(a[3])
    BY <1>7 DEF IsCall
  <2>3. ~bad => Formatted(g)
    <3>1. /\ ":" \in Tokens /\ "," \in Tokens /\ "d" \in Tokens
          /\ ~bad => Digits(a[2]) \in Tokens /\ Digits(a[3]) \in Tokens
      BY <2>2, WrittenIs DEF Tokens, Comma
    <3>2. \A x, y, z, u, w \in Tokens : <<x, y, z, u, w>> \in Seq(Tokens)
      OBVIOUS
    <3> HIDE DEF bad
    <3> QED
      BY <3>1, <3>2 DEF Formatted
  <2>4. ~bad => Formatted(h)
    <3>1. SUFFICES ASSUME a[1] \in DOMAIN BitWidthArgument PROVE Formatted(h)
      OBVIOUS
    <3>2. Width(h, WidthOf(a[1]))
      BY <3>1, WidthIs
    <3> HIDE DEF h
    <3>3. Comma \in Tokens /\ DOMAIN Numeral \subseteq Tokens
      BY NumeralAssumption DEF Tokens
    <3> QED
      BY <3>2, <3>3, ShortFormats DEF Width
  <2> HIDE DEF g, h, bad, Kept
  <2>5. ~bad => Formatted(f)
    BY <2>3, <2>4 DEF Formatted
  <2> HIDE DEF f
  <2>6. Kept(SetTypeDecimal(s, a[1], a[2], a[3]))
    BY <1>0, <1>2, <2>1, <2>5
  <2> QED
    BY <1>7, <2>6, ResultIs DEF Kept
<1>8. CASE call = "SetTypeRunEndEncoded"
  <2> DEFINE r == InitChildrenIfNeeded(SetFormat(s, <<"+r">>), "run_end_encoded")
             q == r.node
             t == [q EXCEPT !.children = <<SetType(q.children[1], a[1]).node,
                                           SetType(q.children[2], "uninitialized").node>>]
  <2>1. SetTypeRunEndEncoded(s, a[1]) =
          IF a[1] \notin {"int16", "int32", "int64"} THEN Fails("EINVAL", s)
          ELSE IF r.error # "ok" THEN r ELSE Done(t)
    BY DEF SetTypeRunEndEncoded
  <2>2. Kept(r) /\ IsNode(q)
    <3>1. "+r" \in Tokens
      BY DEF Tokens, NestHeads
    <3>2. Formatted(<<"+r">>)
      BY <3>1, ShortFormats
    <3> QED
      BY <1>0, <1>1, <3>2, ChildrenAreInitialised
  <2> HIDE DEF r
  <2>3. t.format = q.format
    <3> HIDE DEF q
    <3> QED
      BY <2>2 DEF IsNode, NodeMembers
  <2> HIDE DEF t
  <2>4. Kept(Done(t))
    BY <2>2, <2>3 DEF Done
  <2> HIDE DEF Kept
  <2>5. Kept(SetTypeRunEndEncoded(s, a[1]))
    BY <1>2, <2>1, <2>2, <2>4
  <2> QED
    BY <1>8, <2>5, ResultIs DEF Kept
<1>9. CASE call = "SetTypeDateTime"
  <2> DEFINE h == DateTimeHead[a[1]][a[2]]
             f == <<h>> \o (IF a[1] = "timestamp" THEN <<":">> \o Zone(a[3]) ELSE <<>>)
             bad == \/ a[1] \notin DOMAIN DateTimeHead \/ (a[1] # "timestamp" /\ a[3] # NoZone)
                    \/ a[2] \notin DOMAIN DateTimeHead[a[1]]
             long == a[1] = "timestamp" /\ a[3] \in LongZones
  <2>1. SetTypeDateTime(s, a[1], a[2], a[3]) =
          IF bad THEN Fails("EINVAL", s) ELSE IF long THEN Fails("ERANGE", s) ELSE Done(SetFormat(s, f))
    BY Zenon DEF SetTypeDateTime
  <2>2. Formatted(Zone(a[3]))
    <3>1. Zone(a[3]) \in Seq(STRING)
      BY <1>9, ZoneIs DEF IsCall
    <3> QED
      BY <3>1 DEF Formatted, Tokens
  <2>3. ~bad => h \in Tokens
    <3>1. ~bad => TimeHead(h, a[1], a[2])
      BY TimeHeadIs
    <3> QED
      BY <3>1 DEF TimeHead, Tokens
  <2> HIDE DEF h, bad, long, Kept
  <2>4. ~bad => Formatted(f)
    <3>1. Formatted(<< >>) /\ Formatted(<<":">>) /\ (~bad => Formatted(<<h>>))
      <4>1. ":" \in Tokens
        BY DEF Tokens
      <4> QED
        BY <2>3, <4>1, ShortFormats
    <3>2. \A x, y : Formatted(x) /\ Formatted(y) => Formatted(x \o y)
      BY DEF Formatted
    <3>3. Formatted(<<":">> \o Zone(a[3]))
      BY <2>2, <3>1, <3>2
    <3> QED
      BY <3>1, <3>2, <3>3
  <2> HIDE DEF f
  <2>5. Kept(SetTypeDateTime(s, a[1], a[2], a[3]))
    BY <1>0, <1>2, <2>1, <2>4
  <2> QED
    BY <1>9, <2>5, ResultIs DEF Kept
<1>10. CASE call = "SetTypeUnion"
  <2> DEFINE g == <<IF a[1] = "sparse_union" THEN "+us" ELSE "+ud", ":">>
             f == g \o TypeIds(a[2])
             bad == a[2] \notin 0..127 \/ a[1] \notin {"sparse_union", "dense_union"}
             child == [z \in 1..a[2] |-> Fresh]
  <2>1. SetTypeUnion(s, a[1], a[2]) =
          IF bad THEN Fails("EINVAL", s) ELSE AddChildren(SetFormat(s, f), a[2], child)
    BY DEF SetTypeUnion
  <2>2. \A k \in 0..(a[2] - 1) : IsWritten(k)
    BY <1>10 DEF IsCall
  <2>3. ~bad => a[2] \in Nat /\ Formatted(TypeIds(a[2]))
    <3>1. SUFFICES ASSUME ~bad PROVE a[2] \in Nat /\ Formatted(TypeIds(a[2]))
      BY Zenon
    <3>2. a[2] \in Nat /\ a[2] <= 127
      BY <3>1
    <3>3. TypeIds(a[2]) \in Seq(STRING \cup {","}) /\ STRING \cup {","} \subseteq Tokens
      BY <2>2, <3>2, TypeIdsAreCounted DEF Tokens, Comma
    <3>4. TypeIds(a[2]) \in Seq(Tokens)
      BY <3>3, MoreTokens
    <3> QED
      BY <3>2, <3>4 DEF Formatted
  <2>4. Formatted(g)
    <3> DEFINE x == IF a[1] = "sparse_union" THEN "+us" ELSE "+ud"
    <3>1. x \in Tokens /\ ":" \in Tokens
      BY DEF Tokens
    <3> HIDE DEF x
    <3> QED
      BY <3>1, ShortFormats DEF x
  <2> HIDE DEF g, bad, child, Kept
  <2>5. ~bad => Formatted(f)
    BY <2>3, <2>4 DEF Formatted
  <2> HIDE DEF f
  <2>6. ~bad => Kept(AddChildren(SetFormat(s, f), a[2], child))
    <3>1. SUFFICES ASSUME ~bad PROVE Kept(AddChildren(SetFormat(s, f), a[2], child))
      OBVIOUS
    <3>2. IsNode(SetFormat(s, f)) /\ SetFormat(s, f).format = f
      BY <1>0, <2>5, <3>1
    <3> QED
      BY <2>3, <2>5, <3>1, <3>2, FormatStays DEF Kept
  <2>7. Kept(SetTypeUnion(s, a[1], a[2]))
    BY <1>2, <2>1, <2>6
  <2> QED
    BY <1>10, <2>7, ResultIs DEF Kept
<1> QED
  BY <1>4, <1>5, <1>6, <1>7, <1>8, <1>9, <1>10 DEF IsCall

LEMMA PathIs ==
  /\ Len(<<0>>) = 1 /\ Len(<<1>>) = 1 /\ Len(<<1, 1>>) = 2 /\ Len(<<>>) = 0
  /\ <<1>> # <<0>> /\ <<1, 1>> # <<0>>
  /\ \A z : <<>> # <<z>> /\ <<>> # <<z, 1>>
OBVIOUS

(* A call on a child or the dictionary leaves the schema a node.           *)
LEMMA NodesAreReplaced ==
  ASSUME NEW p \in Paths, NEW node, IsNode(schema), p = <<>> => IsNode(node)
  PROVE  IsNode(Replaced(p, node))
<1> DEFINE o == schema.children
<1>1. CASE p = <<>>
  BY <1>1, PathIs DEF Replaced
<1>2. CASE p = <<0>>
  <2> DEFINE d == [schema.dictionary EXCEPT ![1] = node]
             t == [schema EXCEPT !.dictionary = d]
  <2>1. Replaced(p, node) = t
    BY <1>2, PathIs DEF Replaced
  <2> HIDE DEF d
  <2>2. t = [m \in NodeMembers |-> t[m]] /\ t.children = schema.children
    BY DEF IsNode, NodeMembers
  <2> HIDE DEF t
  <2> QED
    BY <2>1, <2>2 DEF IsNode
<1>3. CASE p = <<1>>
  <2> DEFINE e == [o EXCEPT ![1] = node]
             t == [schema EXCEPT !.children = e]
  <2>1. Replaced(p, node) = t
    <3>1. p # <<>> /\ p # <<0>> /\ Len(p) = 1 /\ p[1] = 1
      BY <1>3, PathIs
    <3> QED
      BY <3>1 DEF Replaced
  <2>2. DOMAIN e = 1..Len(o) /\ Len(o) \in Nat
    BY DEF IsNode
  <2> HIDE DEF e, t, o
  <2>3. IsNode([schema EXCEPT !.children = e])
    BY <2>2, ChildrenAreSet
  <2> QED
    BY <2>1, <2>3 DEF t
<1>4. CASE p = <<1, 1>>
  <2> DEFINE b == o[1]
             g == [b EXCEPT !.children = [@ EXCEPT ![1] = node]]
             e == [o EXCEPT ![1] = g]
             t == [schema EXCEPT !.children = e]
  <2>1. Replaced(p, node) = t
    <3>1. p # <<>> /\ p # <<0>> /\ Len(p) # 1 /\ p[1] = 1 /\ p[2] = 1
      BY <1>4, PathIs
    <3>2. Replaced(p, node) = [schema EXCEPT !.children[p[1]].children[p[2]] = node]
      BY <3>1 DEF Replaced
    <3> QED
      BY <3>1, <3>2
  <2>2. DOMAIN e = 1..Len(o) /\ Len(o) \in Nat
    BY DEF IsNode
  <2> HIDE DEF e, t, o
  <2>3. IsNode([schema EXCEPT !.children = e])
    BY <2>2, ChildrenAreSet
  <2> QED
    BY <2>1, <2>3 DEF t
<1> QED
  BY <1>1, <1>2, <1>3, <1>4 DEF Paths

LEMMA FormatsAreReplaced ==
  ASSUME NEW p \in Paths, NEW node, IsNode(schema), Formatted(schema.format),
         p = <<>> => Formatted(node.format)
  PROVE  Formatted(Replaced(p, node).format)
<1>1. CASE p = <<>>
  BY <1>1, PathIs DEF Replaced
<1>2. CASE p # <<>>
  <2>1. \E m \in {"children", "dictionary"} : \E x : Replaced(p, node) = [schema EXCEPT ![m] = x]
    <3>1. CASE p = <<0>>
      <4> DEFINE x == [schema.dictionary EXCEPT ![1] = node]
      <4>1. Replaced(p, node) = [schema EXCEPT !["dictionary"] = x]
        BY <3>1, PathIs DEF Replaced
      <4> HIDE DEF x
      <4> QED
        BY <4>1
    <3>2. CASE p = <<1>>
      <4> DEFINE x == [schema.children EXCEPT ![1] = node]
      <4>1. p # <<>> /\ p # <<0>> /\ Len(p) = 1 /\ p[1] = 1
        BY <3>2, PathIs
      <4>2. Replaced(p, node) = [schema EXCEPT !["children"] = x]
        BY <4>1 DEF Replaced
      <4> HIDE DEF x
      <4> QED
        BY <4>2
    <3>3. CASE p = <<1, 1>>
      <4> DEFINE x == [schema.children EXCEPT ![1].children[1] = node]
      <4>1. p # <<>> /\ p # <<0>> /\ Len(p) # 1 /\ p[1] = 1 /\ p[2] = 1
        BY <3>3, PathIs
      <4>2. Replaced(p, node) = [schema EXCEPT !.children[p[1]].children[p[2]] = node]
        BY <4>1 DEF Replaced
      <4>3. Replaced(p, node) = [schema EXCEPT !["children"] = x]
        BY <4>1, <4>2
      <4> HIDE DEF x
      <4> QED
        BY <4>3
    <3> QED
      BY <1>2, <3>1, <3>2, <3>3 DEF Paths
  <2> QED
    BY <2>1 DEF IsNode, NodeMembers
<1> QED
  BY <1>1, <1>2

---------------------------------------------------------------------------
(* The inductive invariant: the schema is a node, and after a setter on a  *)
(* new schema it is what that setter makes of one.                         *)
SetterNames == {"SetType", "SetTypeStruct", "SetTypeFixedSize", "SetTypeDecimal",
                "SetTypeRunEndEncoded", "SetTypeDateTime", "SetTypeUnion"}
SetAsCalled ==
  last.fresh /\ last.path = <<>> /\ last.call \in SetterNames =>
    /\ IsCall(last.call, last.args)
    /\ schema = Result(last.call, last.args, Fresh).node
    /\ last.error = Result(last.call, last.args, Fresh).error
SchemaInv == IsNode(schema) /\ Formatted(schema.format) /\ SetAsCalled

LEMMA SchemaInvFirst == SchemaInit => SchemaInv
<1> SUFFICES ASSUME SchemaInit PROVE SchemaInv
  OBVIOUS
<1>1. IsNode(schema) /\ Formatted(schema.format)
  <2>1. CASE schema = Fresh
    BY <2>1, FreshIsNode, ShortFormats DEF Fresh
  <2>2. CASE schema \in ForeignNodes
    <3>1. IsNode(schema) /\ schema.format \in Seq(STRING)
      BY <2>2, NodesAssumption
    <3> QED
      BY <3>1 DEF Formatted, Tokens
  <2> QED
    BY <2>1, <2>2 DEF SchemaInit
<1>2. SetAsCalled
  BY DEF SchemaInit, NoCall, SetAsCalled
<1> QED
  BY <1>1, <1>2 DEF SchemaInv

LEMMA CallKeepsSchemaInv ==
  ASSUME SchemaInv, NEW p \in Paths, NEW call, NEW args, NEW r, Changes(p, call, args, r),
         p = <<>> => IsNode(r.node) /\ Formatted(r.node.format),
         call \notin SetterNames \/ (IsCall(call, args) /\ r = Result(call, args, NodeAt(p)))
  PROVE  SchemaInv'
<1>1. /\ schema' = Replaced(p, r.node)
      /\ last' = [call |-> call, args |-> args, path |-> p, error |-> r.error, fresh |-> NodeAt(p) = Fresh]
  BY DEF Changes
<1>2. IsNode(schema') /\ Formatted(schema'.format)
  BY <1>1, NodesAreReplaced, FormatsAreReplaced DEF SchemaInv
<1>3. SetAsCalled'
  <2>1. last'.call = call /\ last'.args = args /\ last'.path = p /\ last'.error = r.error
        /\ last'.fresh = (NodeAt(p) = Fresh)
    BY <1>1
  <2>2. SUFFICES ASSUME NodeAt(p) = Fresh, p = <<>>, call \in SetterNames
                 PROVE  /\ IsCall(call, args)
                        /\ schema' = Result(call, args, Fresh).node
                        /\ r.error = Result(call, args, Fresh).error
    BY <2>1, Zenon DEF SetAsCalled
  <2>3. IsCall(call, args) /\ r = Result(call, args, Fresh)
    BY <2>2, Zenon
  <2>4. schema' = r.node
    BY <1>1, <2>2, PathIs DEF Replaced
  <2> QED
    BY <2>3, <2>4
<1> QED
  BY <1>2, <1>3 DEF SchemaInv

LEMMA SchemaInvNext == SchemaInv /\ [SchemaNext]_schemaVars => SchemaInv'
<1> SUFFICES ASSUME SchemaInv, [SchemaNext]_schemaVars PROVE SchemaInv'
  OBVIOUS
<1>0. NodeAt(<<>>) = schema /\ IsNode(schema) /\ Formatted(schema.format)
  BY DEF NodeAt, SchemaInv
<1>1. ASSUME NEW p \in Paths, Set(p) PROVE SchemaInv'
  <2>1. PICK o \in SetterCalls : Changes(p, o[1], o[2], Result(o[1], o[2], NodeAt(p)))
    BY <1>1, Zenon DEF Set
  <2>2. IsCall(o[1], o[2])
    BY CallsAssumption
  <2>3. p = <<>> => /\ IsNode(Result(o[1], o[2], NodeAt(p)).node)
                    /\ Formatted(Result(o[1], o[2], NodeAt(p)).node.format)
    BY <1>0, <2>2, SettersKeepNodes, SettersWriteFormats
  <2> QED
    BY <2>1, <2>2, <2>3, CallKeepsSchemaInv
<1>2. ASSUME NEW p \in Paths, Allocate(p) PROVE SchemaInv'
  <2>1. PICK n \in 1..2 : Changes(p, "AllocateChildren", <<n>>, AllocateChildren(NodeAt(p), n))
    BY <1>2, Zenon DEF Allocate
  <2>2. p = <<>> => /\ IsNode(AllocateChildren(NodeAt(p), n).node)
                    /\ Formatted(AllocateChildren(NodeAt(p), n).node.format)
    <3>1. n \in Nat
      OBVIOUS
    <3>2. AllocateChildren(schema, n).node.format = schema.format
      BY <1>0 DEF AllocateChildren, Done, Fails, IsNode, NodeMembers
    <3> QED
      BY <1>0, <3>1, <3>2, ChildrenAreAllocated
  <2>3. "AllocateChildren" \notin SetterNames
    BY DEF SetterNames
  <2> QED
    BY <2>1, <2>2, <2>3, CallKeepsSchemaInv
<1>3. ASSUME NEW p \in Paths, InitNode(p) PROVE SchemaInv'
  <2>1. PICK type \in {"struct", "string", "int32"} : Changes(p, "InitFromType", <<type>>, InitFromType(type))
    BY <1>3, Zenon DEF InitNode
  <2>2. IsNode(InitFromType(type).node) /\ Formatted(InitFromType(type).node.format)
    <3>1. IsNode(SetType(Fresh, type).node) /\ Formatted(SetType(Fresh, type).node.format)
      <4> DEFINE a == <<type>>
      <4>1. a[1] = type /\ IsCall("SetType", a) /\ Formatted(Fresh.format)
        BY ShortFormats DEF IsCall, Fresh
      <4> HIDE DEF a
      <4> QED
        BY <4>1, FreshIsNode, TypeIsSet, SettersWriteFormats, ResultIs
    <3>2. InitFromType(type).node = SetType(Fresh, type).node
      BY DEF InitFromType
    <3> QED
      BY <3>1, <3>2, Zenon
  <2>3. "InitFromType" \notin SetterNames
    BY DEF SetterNames
  <2> QED
    BY <2>1, <2>2, <2>3, CallKeepsSchemaInv
<1>4. ASSUME NEW p \in Paths, SetFlags(p) PROVE SchemaInv'
  <2>1. PICK flags \in FlagSets : Changes(p, "flags", <<>>, Done([NodeAt(p) EXCEPT !.flags = flags]))
    BY <1>4, Zenon DEF SetFlags
  <2>2. p = <<>> => /\ IsNode(Done([NodeAt(p) EXCEPT !.flags = flags]).node)
                    /\ Formatted(Done([NodeAt(p) EXCEPT !.flags = flags]).node.format)
    <3> DEFINE t == [schema EXCEPT !.flags = flags]
    <3>1. t = [m \in NodeMembers |-> t[m]] /\ t.children = schema.children /\ t.format = schema.format
      BY <1>0 DEF IsNode, NodeMembers
    <3> HIDE DEF t
    <3>2. IsNode(t) /\ Formatted(t.format)
      BY <1>0, <3>1 DEF IsNode
    <3>3. p = <<>> => Done([NodeAt(p) EXCEPT !.flags = flags]).node = t
      BY <1>0 DEF Done, t
    <3> QED
      BY <3>2, <3>3
  <2>3. "flags" \notin SetterNames
    BY DEF SetterNames
  <2> QED
    BY <2>1, <2>2, <2>3, CallKeepsSchemaInv
<1>5. CASE AllocateDict
  <2>1. Changes(<<>>, "AllocateDictionary", <<>>, AllocateDictionary(schema))
    BY <1>5, Zenon DEF AllocateDict
  <2>2. /\ IsNode(AllocateDictionary(schema).node)
        /\ Formatted(AllocateDictionary(schema).node.format)
    <3> DEFINE d == <<Unset>>
               t == [schema EXCEPT !.dictionary = d]
    <3>1. AllocateDictionary(schema) = IF schema.dictionary # <<>> THEN Fails("EEXIST", schema) ELSE Done(t)
      BY DEF AllocateDictionary
    <3> HIDE DEF d
    <3>2. t = [m \in NodeMembers |-> t[m]] /\ t.children = schema.children /\ t.format = schema.format
      BY <1>0 DEF IsNode, NodeMembers
    <3> HIDE DEF t
    <3>3. IsNode(t) /\ Formatted(t.format)
      BY <1>0, <3>2 DEF IsNode
    <3> QED
      BY <1>0, <3>1, <3>3 DEF Fails, Done
  <2>3. "AllocateDictionary" \notin SetterNames /\ <<>> \in Paths
    BY DEF SetterNames, Paths
  <2> QED
    BY <2>1, <2>2, <2>3, CallKeepsSchemaInv
<1>6. CASE SetMetadata
  <2>1. PICK name \in ExtensionNames :
          Changes(<<>>, "SetMetadata", <<>>, Done([schema EXCEPT !.extension = name]))
    BY <1>6, Zenon DEF SetMetadata
  <2>2. /\ IsNode(Done([schema EXCEPT !.extension = name]).node)
        /\ Formatted(Done([schema EXCEPT !.extension = name]).node.format)
    <3> DEFINE t == [schema EXCEPT !.extension = name]
    <3>1. t = [m \in NodeMembers |-> t[m]] /\ t.children = schema.children /\ t.format = schema.format
      BY <1>0 DEF IsNode, NodeMembers
    <3> HIDE DEF t
    <3>2. IsNode(t) /\ Formatted(t.format)
      BY <1>0, <3>1 DEF IsNode
    <3>3. Done([schema EXCEPT !.extension = name]).node = t
      BY DEF Done, t
    <3> QED
      BY <3>2, <3>3
  <2>3. "SetMetadata" \notin SetterNames /\ <<>> \in Paths
    BY DEF SetterNames, Paths
  <2> QED
    BY <2>1, <2>2, <2>3, CallKeepsSchemaInv
<1>7. CASE View \/ UNCHANGED schemaVars
  <2>1. schema' = schema /\ last' = last
    BY <1>7 DEF View, schemaVars
  <2> QED
    BY <2>1, Zenon DEF SchemaInv, SetAsCalled
<1> QED
  BY <1>1, <1>2, <1>3, <1>4, <1>5, <1>6, <1>7 DEF SchemaNext

(* However a schema came about, one that is accepted has what the array    *)
(* functions take from it without a look: for every schema of another      *)
(* library, every sequence of calls and every depth of dictionaries        *)
(* (ArrowSchemaViewInit and its checks, src/src/nanoarrow/nanoarrow.c).    *)
THEOREM AcceptedSchemasAreUsable == SchemaSpec => []AcceptedIsUsable
<1>1. SchemaInv => AcceptedIsUsable
  <2> SUFFICES ASSUME SchemaInv PROVE AcceptedIsUsable
    OBVIOUS
  <2>1. /\ Len(schema.children) \in Nat /\ DOMAIN schema.children = 1..Len(schema.children)
        /\ schema.format \in Seq(Tokens)
    BY DEF SchemaInv, IsNode, Formatted
  <2> QED
    BY <2>1, UsableIs, Zenon DEF AcceptedIsUsable
<1> QED
  BY <1>1, SchemaInvFirst, SchemaInvNext, PTL DEF SchemaSpec

(* Whatever setter is called on a new schema, what it is asked for is what *)
(* is read.                                                                *)
LEMMA SettersAreRead ==
  ASSUME NEW v, IsView(v), NEW call, NEW a, IsCall(call, a),
         Result(call, a, Fresh).error = "ok", Result(call, a, Fresh).node.format # <<>>
  PROVE  /\ Reads(v, Result(call, a, Fresh).node, Asked(call, a)[1], Asked(call, a)[2])
         /\ Asked(call, a) = <<Asked(call, a)[1], Asked(call, a)[2]>>
<1> DEFINE Goal == /\ Reads(v, Result(call, a, Fresh).node, Asked(call, a)[1], Asked(call, a)[2])
                   /\ Asked(call, a) = <<Asked(call, a)[1], Asked(call, a)[2]>>
<1>0. ASSUME NEW type, NEW arguments, NEW r, Result(call, a, Fresh) = r, Reads(v, r.node, type, arguments),
             Asked(call, a) = <<type, arguments>>
      PROVE  Goal
  <2>1. Asked(call, a)[1] = type /\ Asked(call, a)[2] = arguments
    BY <1>0
  <2> QED
    BY <1>0, <2>1, Zenon
<1>1. CASE call = "SetType"
  <2>1. Result(call, a, Fresh) = SetType(Fresh, a[1])
    BY <1>1, ResultIs, Zenon
  <2>2. Reads(v, SetType(Fresh, a[1]).node, a[1],
              <<>>)
    BY <1>1, <2>1, SetTypeIsRead
  <2>3. Asked(call, a) = <<a[1], <<>>>>
    BY <1>1 DEF Asked
  <2> QED
    BY <1>0, <2>1, <2>2, <2>3, Zenon
<1>2. CASE call = "SetTypeStruct"
  <2>1. Result(call, a, Fresh) = SetTypeStruct(Fresh, a[1])
    BY <1>2, ResultIs, Zenon
  <2>2. Reads(v, SetTypeStruct(Fresh, a[1]).node, "struct",
              <<>>)
    BY <1>2, <2>1, SetTypeStructIsRead DEF IsCall
  <2>3. Asked(call, a) = <<"struct", <<>>>>
    BY <1>2 DEF Asked
  <2> QED
    BY <1>0, <2>1, <2>2, <2>3, Zenon
<1>3. CASE call = "SetTypeFixedSize"
  <2>1. Result(call, a, Fresh) = SetTypeFixedSize(Fresh, a[1], a[2])
    BY <1>3, ResultIs, Zenon
  <2>2. Reads(v, SetTypeFixedSize(Fresh, a[1], a[2]).node, a[1],
              <<a[2]>>)
    BY <1>3, <2>1, SetTypeFixedSizeIsRead DEF IsCall
  <2>3. Asked(call, a) = <<a[1], <<a[2]>>>>
    BY <1>3 DEF Asked
  <2> QED
    BY <1>0, <2>1, <2>2, <2>3, Zenon
<1>4. CASE call = "SetTypeDecimal"
  <2>1. Result(call, a, Fresh) = SetTypeDecimal(Fresh, a[1], a[2], a[3])
    BY <1>4, ResultIs, Zenon
  <2>2. Reads(v, SetTypeDecimal(Fresh, a[1], a[2], a[3]).node, a[1],
              <<a[2], a[3], WidthOf(a[1])>>)
    BY <1>4, <2>1, SetTypeDecimalIsRead DEF IsCall
  <2>3. Asked(call, a) = <<a[1], <<a[2], a[3], WidthOf(a[1])>>>>
    BY <1>4 DEF Asked, WidthOf
  <2> QED
    BY <1>0, <2>1, <2>2, <2>3, Zenon
<1>5. CASE call = "SetTypeRunEndEncoded"
  <2>1. Result(call, a, Fresh) = SetTypeRunEndEncoded(Fresh, a[1])
    BY <1>5, ResultIs, Zenon
  <2>2. Reads(v, SetTypeRunEndEncoded(Fresh, a[1]).node, "run_end_encoded",
              <<>>)
    BY <1>5, <2>1, SetTypeRunEndEncodedIsRead
  <2>3. Asked(call, a) = <<"run_end_encoded", <<>>>>
    BY <1>5 DEF Asked
  <2> QED
    BY <1>0, <2>1, <2>2, <2>3, Zenon
<1>6. CASE call = "SetTypeDateTime"
  <2>1. Result(call, a, Fresh) = SetTypeDateTime(Fresh, a[1], a[2], a[3])
    BY <1>6, ResultIs, Zenon
  <2>2. Reads(v, SetTypeDateTime(Fresh, a[1], a[2], a[3]).node, a[1],
              IF a[1] = "timestamp" THEN <<a[2], Zone(a[3])>> ELSE <<a[2]>>)
    BY <1>6, <2>1, SetTypeDateTimeIsRead DEF IsCall
  <2>3. Asked(call, a) = <<a[1], IF a[1] = "timestamp" THEN <<a[2], Zone(a[3])>> ELSE <<a[2]>>>>
    BY <1>6 DEF Asked
  <2> QED
    BY <1>0, <2>1, <2>2, <2>3, Zenon
<1>7. CASE call = "SetTypeUnion"
  <2>1. Result(call, a, Fresh) = SetTypeUnion(Fresh, a[1], a[2])
    BY <1>7, ResultIs, Zenon
  <2>2. Reads(v, SetTypeUnion(Fresh, a[1], a[2]).node, a[1],
              TypeIds(a[2]))
    BY <1>7, <2>1, SetTypeUnionIsRead DEF IsCall
  <2>3. Asked(call, a) = <<a[1], TypeIds(a[2])>>
    BY <1>7 DEF Asked
  <2> QED
    BY <1>0, <2>1, <2>2, <2>3, Zenon
<1>8. call \in SetterNames
  BY DEF IsCall, SetterNames
<1> QED
  BY <1>1, <1>2, <1>3, <1>4, <1>5, <1>6, <1>7, <1>8 DEF SetterNames

(* A setter that succeeds on a new schema has written a format, and        *)
(* children, from which ArrowSchemaViewInit reads the same type and        *)
(* arguments: for every setter and every argument of 32 bits, and          *)
(* whatever the view held (ArrowSchemaSetType..., ArrowSchemaViewInit,     *)
(* src/src/nanoarrow/nanoarrow.c).                                         *)
THEOREM SettersAreViewed == SchemaSpec => []SetterIsViewed
<1>1. SchemaInv => SetterIsViewed
  <2> SUFFICES ASSUME SchemaInv, last.fresh, last.error = "ok", last.path = <<>>,
                      last.call \in {o[1] : o \in SetterCalls}, schema.format # <<>>,
                      NEW old \in OldViews
               PROVE  LET r == ViewInit(old, schema) IN
                        /\ r.error = "ok"
                        /\ <<r.view.type, Members(r.view).arguments>> = Asked(last.call, last.args)
    BY DEF SetterIsViewed
  <2> DEFINE call == last.call
             a == last.args
             asked == Asked(call, a)
  <2>1. call \in SetterNames
    BY CallsAssumption DEF IsCall, SetterNames
  <2>2. /\ IsCall(call, a) /\ schema = Result(call, a, Fresh).node
        /\ Result(call, a, Fresh).error = "ok"
    BY <2>1, Zenon DEF SchemaInv, SetAsCalled
  <2>3. IsView(old)
    BY ViewsAssumption
  <2>4. Reads(old, schema, asked[1], asked[2])
    BY <2>2, <2>3, SettersAreRead
  <2>5. asked = <<asked[1], asked[2]>>
    BY <2>2, <2>3, SettersAreRead
  <2> HIDE DEF asked
  <2> QED
    BY <2>4, <2>5, Zenon DEF Reads, asked
<1> QED
  BY <1>1, SchemaInvFirst, SchemaInvNext, PTL DEF SchemaSpec
=============================================================================
