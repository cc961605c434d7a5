--------------------------- MODULE Streams_proofs ---------------------------
(***************************************************************************)
(* Proofs about BasicArrayStream: types, who owns each array, and how long *)
(* the private data lives, for every number of arrays and slots, with and  *)
(* without failing allocations. Then about CppStreams: who owns the        *)
(* arrays, and what a callback may read, for every number of arrays,       *)
(* structs and exports.                                                    *)
(***************************************************************************)
EXTENDS BasicArrayStream, CppStreams, SequenceTheorems, FiniteSetTheorems, TLAPS

(* What makes the properties inductive: a position inside the slots, no    *)
(* slots before Init, and at most one struct that can release, the one of  *)
(* the phase.                                                              *)
SlotsFit    == Len(slots) <= N
NoneYet     == phase = "new" => slots = <<>>
OneReleaser ==
  /\ phase = "new" => ~release["producer"] /\ ~release["consumer"] /\ private = "none"
  /\ phase = "building" => release["producer"] /\ ~release["consumer"]
  /\ phase = "exported" => ~release["producer"]

IInv == TypeOK /\ SlotsFit /\ NoneYet /\ OneReleaser /\ ArraysConserved /\ PrivateReachable

---------------------------------------------------------------------------
LEMMA InitIInv == Init => IInv
<1> SUFFICES ASSUME Init PROVE IInv
  OBVIOUS
<1> USE BoundsAssumption DEF Init, Structs, Arrays
<1>1. TypeOK
  BY DEF TypeOK
<1>2. SlotsFit /\ NoneYet /\ OneReleaser
  BY DEF SlotsFit, NoneYet, OneReleaser
<1>3. ArraysConserved
  BY DEF ArraysConserved, InSlot
<1>4. PrivateReachable
  BY DEF PrivateReachable
<1> QED
  BY <1>1, <1>2, <1>3, <1>4 DEF IInv

(* Types, and a position no further than the slots go.                     *)
LEMMA TypeStep == TypeOK /\ SlotsFit /\ [Next]_vars => TypeOK' /\ SlotsFit'
<1> SUFFICES ASSUME TypeOK, SlotsFit, [Next]_vars PROVE TypeOK' /\ SlotsFit'
  OBVIOUS
<1> USE BoundsAssumption DEF TypeOK, SlotsFit, Arrays, Structs
<1>1. CASE InitFails
  BY <1>1 DEF InitFails, stream, outside
<1>2. CASE InitFailsLate
  BY <1>2 DEF InitFailsLate, outside
<1>3. CASE InitOK
  <2>1. PICK n \in 0..N : slots' = [k \in 1..n |-> 0]
    BY <1>3 DEF InitOK
  <2>2. slots' \in Seq(Arrays \cup {0}) /\ Len(slots') = n
    BY <2>1
  <2> QED
    BY <1>3, <2>2 DEF InitOK, outside
<1>4. CASE SetArray
  <2>1. PICK k \in DOMAIN slots, a \in mine :
          slots' = [slots EXCEPT ![k] = a] /\ mine' = mine \ {a}
    BY <1>4 DEF SetArray
  <2>2. slots' \in Seq(Arrays \cup {0}) /\ Len(slots') = Len(slots)
    BY <2>1
  <2> QED
    BY <1>4, <2>1, <2>2 DEF SetArray
<1>5. CASE Export
  BY <1>5 DEF Export, MovedStream, outside
<1>6. CASE ReleaseMine
  <2>1. PICK a \in mine : mine' = mine \ {a} /\ freed' = [freed EXCEPT ![a] = @ + 1]
    BY <1>6 DEF ReleaseMine
  <2>2. freed' \in [Arrays -> Nat]
    BY <2>1
  <2> QED
    BY <1>6, <2>1, <2>2 DEF ReleaseMine, stream
<1>7. CASE GetSchema
  BY <1>7 DEF GetSchema, stream
<1>8. CASE GetNextReleased
  BY <1>8 DEF GetNextReleased, stream, outside
<1>9. CASE GetNextEnd
  BY <1>9 DEF GetNextEnd, stream, outside
<1>10. CASE GetNextArray
  <2>1. NextSlot \in DOMAIN slots /\ slots[NextSlot] \in Arrays \cup {0}
    BY <1>10 DEF GetNextArray, NextSlot
  <2>2. slots' \in Seq(Arrays \cup {0}) /\ Len(slots') = Len(slots)
    BY <1>10, <2>1 DEF GetNextArray, MovedSlot
  <2>3. arrays_i' \in 0..N
    BY <1>10 DEF GetNextArray
  <2>4. yours' \subseteq Arrays /\ reply' \in {"none", "array", "end", "error"} \X (Arrays \cup {0})
    BY <1>10, <2>1 DEF GetNextArray
  <2> QED
    BY <1>10, <2>2, <2>3, <2>4 DEF GetNextArray
<1>11. CASE Release
  <2>1. release' \in [Structs -> BOOLEAN]
    BY <1>11 DEF Release, NoCallback
  <2>2. freed' \in [Arrays -> Nat]
    BY <1>11 DEF Release
  <2>3. slots' \in Seq(Arrays \cup {0}) /\ Len(slots') <= N
    BY <1>11 DEF Release
  <2> QED
    BY <1>11, <2>1, <2>2, <2>3 DEF Release
<1>12. CASE ReleaseYours
  <2>1. PICK a \in yours : yours' = yours \ {a} /\ freed' = [freed EXCEPT ![a] = @ + 1]
    BY <1>12 DEF ReleaseYours
  <2>2. freed' \in [Arrays -> Nat]
    BY <2>1
  <2> QED
    BY <1>12, <2>1, <2>2 DEF ReleaseYours, stream
<1>13. CASE ReleaseCopy
  BY <1>13 DEF ReleaseCopy, stream
<1>14. CASE UNCHANGED vars
  BY <1>14 DEF vars, stream, outside
<1> QED
  BY <1>1, <1>2, <1>3, <1>4, <1>5, <1>6, <1>7, <1>8, <1>9, <1>10, <1>11, <1>12, <1>13, <1>14 DEF Next

(* Who can release, and what there is to release.                          *)
LEMMA ReleaserStep ==
  ASSUME TypeOK, NoneYet, OneReleaser, PrivateReachable, [Next]_vars
  PROVE  NoneYet' /\ OneReleaser' /\ PrivateReachable'
<1> USE DEF TypeOK, NoneYet, OneReleaser, PrivateReachable, Structs
<1>1. CASE InitFails
  BY <1>1 DEF InitFails, stream, outside
<1>2. CASE InitFailsLate
  BY <1>2 DEF InitFailsLate
<1>3. CASE InitOK
  BY <1>3 DEF InitOK
<1>4. CASE SetArray
  BY <1>4 DEF SetArray
<1>5. CASE Export
  BY <1>5 DEF Export, MovedStream
<1>6. CASE ReleaseMine
  BY <1>6 DEF ReleaseMine, stream
<1>7. CASE GetSchema
  BY <1>7 DEF GetSchema, stream
<1>8. CASE GetNextReleased
  BY <1>8 DEF GetNextReleased, stream
<1>9. CASE GetNextEnd
  BY <1>9 DEF GetNextEnd, stream
<1>10. CASE GetNextArray
  BY <1>10 DEF GetNextArray
<1>11. CASE Release
  BY <1>11 DEF Release, NoCallback
<1>12. CASE ReleaseYours
  BY <1>12 DEF ReleaseYours, stream
<1>13. CASE ReleaseCopy
  BY <1>13 DEF ReleaseCopy, stream
<1>14. CASE UNCHANGED vars
  BY <1>14 DEF vars, stream
<1> QED
  BY <1>1, <1>2, <1>3, <1>4, <1>5, <1>6, <1>7, <1>8, <1>9, <1>10, <1>11, <1>12, <1>13, <1>14 DEF Next

---------------------------------------------------------------------------
(* The ways an array moves.                                                *)

(* Into a slot that was empty.                                             *)
LEMMA Setting ==
  ASSUME TypeOK, ArraysConserved, NEW k \in DOMAIN slots, NEW a \in mine, slots[k] = 0,
         slots' = [slots EXCEPT ![k] = a], mine' = mine \ {a}, UNCHANGED <<yours, freed>>
  PROVE  ArraysConserved'
<1> USE DEF TypeOK, Arrays
<1>1. a \in Arrays /\ a # 0 /\ 0 \notin Arrays
  BY BoundsAssumption
<1>2. DOMAIN slots' = DOMAIN slots /\ \A l \in DOMAIN slots : slots'[l] = IF l = k THEN a ELSE slots[l]
  OBVIOUS
<1>3. ASSUME NEW b \in Arrays
      PROVE  InSlot(b)' <=> InSlot(b) \/ b = a
  BY <1>1, <1>2, <1>3 DEF InSlot
<1>4. a \notin yours /\ ~InSlot(a)
  BY DEF ArraysConserved
<1>5. \A b \in Arrays : freed'[b] = IF b \in mine' \/ b \in yours' \/ InSlot(b)' THEN 0 ELSE 1
  BY <1>1, <1>3 DEF ArraysConserved
<1>6. \A b \in mine' : b \notin yours' /\ ~InSlot(b)'
  BY <1>3 DEF ArraysConserved
<1>7. \A b \in yours' : ~InSlot(b)'
  BY <1>3, <1>4 DEF ArraysConserved
<1>8. \A l, r \in DOMAIN slots' : slots'[l] = slots'[r] /\ slots'[l] # 0 => l = r
  BY <1>2, <1>4 DEF ArraysConserved, InSlot
<1> QED
  BY <1>5, <1>6, <1>7, <1>8 DEF ArraysConserved

(* Out of the next slot, to the consumer.                                  *)
LEMMA Delivering ==
  ASSUME TypeOK, ArraysConserved, NEW k \in DOMAIN slots,
         slots' = [slots EXCEPT ![k] = 0], yours' = yours \cup ({slots[k]} \ {0}),
         UNCHANGED <<mine, freed>>
  PROVE  ArraysConserved'
<1> USE DEF TypeOK, Arrays
<1>1. 0 \notin Arrays
  BY BoundsAssumption
<1>2. DOMAIN slots' = DOMAIN slots /\ \A l \in DOMAIN slots : slots'[l] = IF l = k THEN 0 ELSE slots[l]
  OBVIOUS
<1>3. ASSUME NEW b \in Arrays
      PROVE  InSlot(b)' <=> InSlot(b) /\ b # slots[k]
  BY <1>1, <1>2, <1>3 DEF InSlot, ArraysConserved
<1>4. slots[k] # 0 => InSlot(slots[k])
  BY DEF InSlot
<1>5. \A b \in Arrays : freed'[b] = IF b \in mine' \/ b \in yours' \/ InSlot(b)' THEN 0 ELSE 1
  BY <1>1, <1>3, <1>4 DEF ArraysConserved
<1>6. \A b \in mine' : b \notin yours' /\ ~InSlot(b)'
  BY <1>1, <1>3, <1>4 DEF ArraysConserved
<1>7. \A b \in yours' : ~InSlot(b)'
  BY <1>1, <1>2, <1>3, <1>4 DEF ArraysConserved
<1>8. \A l, r \in DOMAIN slots' : slots'[l] = slots'[r] /\ slots'[l] # 0 => l = r
  BY <1>2 DEF ArraysConserved
<1> QED
  BY <1>5, <1>6, <1>7, <1>8 DEF ArraysConserved

(* With the stream: what is left in the slots is released, and the slots   *)
(* are gone.                                                               *)
LEMMA Dropping ==
  ASSUME TypeOK, ArraysConserved, slots' = <<>>, UNCHANGED <<mine, yours>>,
         freed' = [a \in Arrays |-> IF a \in ReleasedSlots THEN freed[a] + 1 ELSE freed[a]]
  PROVE  ArraysConserved'
<1> USE DEF TypeOK
<1>1. 0 \notin Arrays
  BY BoundsAssumption DEF Arrays
<1>2. \A b : ~InSlot(b)'
  BY DEF InSlot
<1>3. \A b \in Arrays : b \in ReleasedSlots <=> InSlot(b)
  BY <1>1 DEF ReleasedSlots, InSlot
<1>4. \A b \in Arrays : freed'[b] = IF b \in mine' \/ b \in yours' \/ InSlot(b)' THEN 0 ELSE 1
  BY <1>2, <1>3 DEF ArraysConserved
<1> QED
  BY <1>2, <1>4 DEF ArraysConserved

(* By its owner, one at a time.                                            *)
LEMMA Releasing ==
  ASSUME TypeOK, ArraysConserved, NEW a \in mine \cup yours,
         mine' = mine \ {a}, yours' = yours \ {a}, UNCHANGED slots,
         freed' = [freed EXCEPT ![a] = @ + 1]
  PROVE  ArraysConserved'
<1> USE DEF TypeOK
<1>1. a \in Arrays /\ freed[a] = 0 /\ ~InSlot(a)
  BY DEF ArraysConserved
<1>2. \A b : InSlot(b)' <=> InSlot(b)
  BY DEF InSlot
<1>3. \A b \in Arrays : freed'[b] = IF b \in mine' \/ b \in yours' \/ InSlot(b)' THEN 0 ELSE 1
  BY <1>1, <1>2 DEF ArraysConserved
<1> QED
  BY <1>2, <1>3 DEF ArraysConserved

LEMMA ConservedStep ==
  ASSUME TypeOK, NoneYet, ArraysConserved, [Next]_vars
  PROVE  ArraysConserved'
<1>1. ASSUME UNCHANGED <<slots, mine, yours, freed>> PROVE ArraysConserved'
  BY <1>1 DEF ArraysConserved, InSlot
<1>2. CASE InitFails \/ InitFailsLate \/ Export \/ GetSchema \/ GetNextReleased \/ GetNextEnd
           \/ ReleaseCopy \/ UNCHANGED vars
  BY <1>1, <1>2 DEF InitFails, InitFailsLate, Export, GetSchema, GetNextReleased, GetNextEnd,
                    ReleaseCopy, vars, stream, outside
<1>3. CASE InitOK
  <2>1. \A a \in Arrays : ~InSlot(a) /\ ~InSlot(a)'
    BY <1>3, BoundsAssumption DEF InitOK, NoneYet, InSlot, Arrays
  <2>2. \A l \in DOMAIN slots' : slots'[l] = 0
    BY <1>3 DEF InitOK
  <2> QED
    BY <1>3, <2>1, <2>2 DEF InitOK, outside, ArraysConserved, TypeOK
<1>4. CASE SetArray
  <2>1. PICK k \in DOMAIN slots, a \in mine :
          slots[k] = 0 /\ slots' = [slots EXCEPT ![k] = a] /\ mine' = mine \ {a}
    BY <1>4 DEF SetArray, Settable
  <2> QED
    BY <1>4, <2>1, Setting DEF SetArray
<1>5. CASE ReleaseMine
  <2>1. PICK a \in mine : mine' = mine \ {a} /\ freed' = [freed EXCEPT ![a] = @ + 1]
    BY <1>5 DEF ReleaseMine
  <2>2. yours' = yours \ {a} /\ slots' = slots
    BY <1>5, <2>1 DEF ReleaseMine, stream, ArraysConserved
  <2> QED
    BY <2>1, <2>2, Releasing
<1>6. CASE GetNextArray
  <2>1. NextSlot \in DOMAIN slots
    BY <1>6 DEF GetNextArray, NextSlot, TypeOK
  <2> QED
    BY <1>6, <2>1, Delivering DEF GetNextArray, MovedSlot
<1>7. CASE Release
  BY <1>7, Dropping DEF Release
<1>8. CASE ReleaseYours
  <2>1. PICK a \in yours : yours' = yours \ {a} /\ freed' = [freed EXCEPT ![a] = @ + 1]
    BY <1>8 DEF ReleaseYours
  <2>2. mine' = mine \ {a} /\ slots' = slots
    BY <1>8, <2>1 DEF ReleaseYours, stream, ArraysConserved
  <2> QED
    BY <2>1, <2>2, Releasing
<1> QED
  BY <1>2, <1>3, <1>4, <1>5, <1>6, <1>7, <1>8 DEF Next

---------------------------------------------------------------------------
THEOREM Invariance == Spec => []IInv
<1>1. IInv /\ [Next]_vars => IInv'
  BY TypeStep, ReleaserStep, ConservedStep DEF IInv
<1> QED
  BY <1>1, InitIInv, PTL DEF Spec

(* Every variable keeps its type, and the position stays inside the slots, *)
(* for every number of arrays.                                             *)
THEOREM StreamTypes == Spec => []TypeOK
BY Invariance, PTL DEF IInv

(* However ArrowBasicArrayStream's arrays are set, delivered and released, *)
(* in whatever order the structs are called: each has one owner or was     *)
(* released once.                                                          *)
THEOREM StreamArraysConserved == Spec => []ArraysConserved
BY Invariance, PTL DEF IInv

(* The private data lives exactly as long as some struct can release it,   *)
(* unless ArrowBasicArrayStreamInit failed.                                *)
THEOREM PrivateIsReachable == Spec => []PrivateReachable
BY Invariance, PTL DEF IInv

---------------------------------------------------------------------------
(* BasicArrayStream implements ArrowStream.                                *)

Slots == Seq(Arrays \cup {0})

(* The slots that have an array are those from the position on, up to the  *)
(* last one the producer set.                                              *)
FilledTo(s, i, m) ==
  /\ m \in i..Len(s)
  /\ \A k \in 1..Len(s) : s[k] # 0 <=> i < k /\ k <= m
InOrder ==
  /\ slots # <<>> => \E m \in Nat : FilledTo(slots, arrays_i, m)
  /\ phase = "building" => arrays_i = 0

LEMMA NoneLeft ==
  ASSUME NEW i \in Nat
  PROVE  Left(<<>>, i) = <<>>
<1> DEFINE Set == {k \in DOMAIN <<>> : <<>>[k] # 0}
<1>1. Set = {}
  OBVIOUS
<1>2. Cardinality(Set) = 0
  BY <1>1, FS_EmptySet
<1>3. i + Cardinality(Set) = i
  BY <1>2
<1>4. Left(<<>>, i) = SubSeq(<<>>, i + 1, i)
  BY <1>3 DEF Left
<1> QED
  BY <1>4, SubSeqEmpty

LEMMA LeftIs ==
  ASSUME NEW s \in Slots, NEW i \in Nat, NEW m \in Nat, FilledTo(s, i, m)
  PROVE  Left(s, i) = SubSeq(s, i + 1, m)
<1> DEFINE Set == {k \in DOMAIN s : s[k] # 0}
<1>1. Len(s) \in Nat /\ DOMAIN s = 1..Len(s)
  BY LenProperties DEF Slots
<1>2. i <= m /\ m <= Len(s)
  BY <1>1 DEF FilledTo
<1>3. Set = (i + 1)..m
  BY <1>1, <1>2 DEF FilledTo
<1>4. Cardinality((i + 1)..m) = m - i
  <2>1. Cardinality((i + 1)..m) = IF i + 1 > m THEN 0 ELSE m - (i + 1) + 1
    BY FS_Interval
  <2> QED
    BY <1>2, <2>1
<1>5. Cardinality(Set) = m - i
  BY <1>3, <1>4
<1>6. i + Cardinality(Set) = m
  BY <1>5
<1> QED
  BY <1>6 DEF Left

(* One more slot set, and the next one emptied.                            *)
LEMMA OneSlot ==
  ASSUME NEW s \in Slots, NEW k \in 1..Len(s), NEW a \in Arrays \cup {0}
  PROVE  /\ [s EXCEPT ![k] = a] \in Slots
         /\ Len([s EXCEPT ![k] = a]) = Len(s)
         /\ \A x \in 1..Len(s) : [s EXCEPT ![k] = a][x] = IF x = k THEN a ELSE s[x]
BY ExceptSeq DEF Slots

LEMMA SettingNext ==
  ASSUME NEW s \in Slots, NEW m \in Nat, FilledTo(s, 0, m), NEW a \in Arrays,
         NEW k \in 1..Len(s), s[k] = 0, \A x \in 1..(k - 1) : s[x] # 0
  PROVE  FilledTo([s EXCEPT ![k] = a], 0, k)
<1>1. Len(s) \in Nat
  BY LenProperties DEF Slots
<1>2. a # 0
  BY BoundsAssumption DEF Arrays
<1>3. k = m + 1
  <2>1. k > m
    BY <1>1 DEF FilledTo
  <2>2. k - 1 <= m
    BY <1>1, <2>1 DEF FilledTo
  <2> QED
    BY <1>1, <2>1, <2>2
<1> QED
  BY <1>1, <1>2, <1>3, OneSlot DEF FilledTo

LEMMA EmptyingNext ==
  ASSUME NEW s \in Slots, NEW i \in Nat, NEW m \in Nat, FilledTo(s, i, m), i < Len(s)
  PROVE  /\ s[i + 1] = 0 => FilledTo([s EXCEPT ![i + 1] = 0], i + 1, i + 1)
                            /\ Left(s, i) = <<>> /\ Left([s EXCEPT ![i + 1] = 0], i + 1) = <<>>
         /\ s[i + 1] # 0 => FilledTo([s EXCEPT ![i + 1] = 0], i + 1, m)
                            /\ Left(s, i) # <<>> /\ Head(Left(s, i)) = s[i + 1]
                            /\ Tail(Left(s, i)) = Left([s EXCEPT ![i + 1] = 0], i + 1)
<1> DEFINE t == [s EXCEPT ![i + 1] = 0]
<1>1. Len(s) \in Nat /\ i + 1 \in 1..Len(s)
  BY LenProperties DEF Slots
<1>2. /\ t \in Slots /\ Len(t) = Len(s)
      /\ \A x \in 1..Len(s) : t[x] = IF x = i + 1 THEN 0 ELSE s[x]
  BY <1>1, OneSlot
<1>3. Left(s, i) = SubSeq(s, i + 1, m)
  BY LeftIs
<1> HIDE DEF t
<1>4. ASSUME s[i + 1] = 0
      PROVE  FilledTo(t, i + 1, i + 1) /\ Left(s, i) = <<>> /\ Left(t, i + 1) = <<>>
  <2>1. m = i
    BY <1>1, <1>4 DEF FilledTo
  <2>2. FilledTo(t, i + 1, i + 1)
    BY <1>1, <1>2, <1>4, <2>1 DEF FilledTo
  <2>3. Left(t, i + 1) = SubSeq(t, (i + 1) + 1, i + 1)
    BY <1>2, <2>2, LeftIs
  <2>4. SubSeq(s, i + 1, i) = <<>> /\ SubSeq(t, (i + 1) + 1, i + 1) = <<>>
    BY SubSeqEmpty
  <2> QED
    BY <1>3, <2>1, <2>2, <2>3, <2>4
<1>5. ASSUME s[i + 1] # 0
      PROVE  /\ FilledTo(t, i + 1, m) /\ Left(s, i) # <<>> /\ Head(Left(s, i)) = s[i + 1]
             /\ Tail(Left(s, i)) = Left(t, i + 1)
  <2>1. m \in (i + 1)..Len(s)
    BY <1>1, <1>5 DEF FilledTo
  <2>2. FilledTo(t, i + 1, m)
    BY <1>1, <1>2, <2>1 DEF FilledTo
  <2>3. Left(t, i + 1) = SubSeq(t, (i + 1) + 1, m)
    BY <1>2, <2>2, LeftIs
  <2>4. SubSeq(t, (i + 1) + 1, m) = SubSeq(s, (i + 1) + 1, m)
    BY <1>1, <1>2, <2>1
  <2>5. /\ Head(SubSeq(s, i + 1, m)) = s[i + 1]
        /\ Tail(SubSeq(s, i + 1, m)) = SubSeq(s, (i + 1) + 1, m)
    BY <1>1, <2>1, HeadTailOfSubSeq DEF Slots
  <2>6. SubSeq(s, i + 1, m) # <<>>
    <3>1. \A k \in (i + 1)..m : s[k] \in Arrays \cup {0}
      BY <1>1, <2>1 DEF Slots
    <3>2. Len(SubSeq(s, i + 1, m)) = m - (i + 1) + 1
      BY <2>1, <3>1, SubSeqProperties
    <3>3. Len(SubSeq(s, i + 1, m)) # 0
      BY <1>1, <2>1, <3>2
    <3> QED
      BY <3>3
  <2> QED
    BY <1>3, <2>2, <2>3, <2>4, <2>5, <2>6
<1> QED
  BY <1>4, <1>5 DEF t

LEMMA InOrderStep ==
  ASSUME TypeOK, SlotsFit, InOrder, [Next]_vars
  PROVE  InOrder'
<1>1. arrays_i \in Nat /\ slots \in Slots
  BY BoundsAssumption DEF TypeOK, Slots
<1>2. DOMAIN slots = 1..Len(slots) /\ Len(slots) \in Nat
  BY <1>1, LenProperties DEF Slots
<1>3. CASE InitOK
  <2>1. PICK l \in 0..N : slots' = [k \in 1..l |-> 0]
    BY <1>3 DEF InitOK
  <2>2. Len(slots') = l /\ l \in Nat /\ arrays_i' = 0
    BY <1>3, <2>1, BoundsAssumption DEF InitOK
  <2>3. FilledTo(slots', arrays_i', 0)
    BY <2>1, <2>2 DEF FilledTo
  <2> QED
    BY <2>2, <2>3 DEF InOrder
<1>4. CASE SetArray
  <2>1. PICK k \in DOMAIN slots, a \in mine :
          Settable(k) /\ slots' = [slots EXCEPT ![k] = a]
    BY <1>4 DEF SetArray
  <2>2. arrays_i = 0 /\ arrays_i' = 0 /\ a \in Arrays /\ slots # <<>>
    BY <1>4, <2>1 DEF SetArray, InOrder, TypeOK
  <2>3. PICK m \in Nat : FilledTo(slots, 0, m)
    BY <2>2 DEF InOrder
  <2>4. k \in 1..Len(slots) /\ slots[k] = 0 /\ \A x \in 1..(k - 1) : slots[x] # 0
    BY <1>2, <2>1 DEF Settable
  <2>5. FilledTo(slots', 0, k)
    BY <1>1, <2>1, <2>2, <2>3, <2>4, SettingNext
  <2> QED
    BY <2>2, <2>4, <2>5 DEF InOrder
<1>5. CASE GetNextArray
  <2>1. /\ slots' = [slots EXCEPT ![arrays_i + 1] = 0] /\ arrays_i' = arrays_i + 1
        /\ arrays_i < Len(slots) /\ phase' = "exported"
    BY <1>5 DEF GetNextArray, MovedSlot, NextSlot
  <2>2. slots # <<>>
    BY <1>1, <2>1
  <2>3. PICK m \in Nat : FilledTo(slots, arrays_i, m)
    BY <2>2 DEF InOrder
  <2>4. FilledTo(slots', arrays_i + 1, arrays_i + 1) \/ FilledTo(slots', arrays_i + 1, m)
    BY <1>1, <2>1, <2>3, EmptyingNext
  <2>5. arrays_i + 1 \in Nat
    BY <1>1
  <2> QED
    BY <2>1, <2>4, <2>5 DEF InOrder
<1>6. CASE Release
  BY <1>6 DEF Release, InOrder
<1>7. ASSUME UNCHANGED <<slots, arrays_i>>, phase' = "building" => phase = "building"
      PROVE  InOrder'
  BY <1>7 DEF InOrder
<1>8. CASE InitFails \/ InitFailsLate \/ Export \/ ReleaseMine \/ GetSchema \/ GetNextReleased
           \/ GetNextEnd \/ ReleaseYours \/ ReleaseCopy \/ UNCHANGED vars
  BY <1>7, <1>8 DEF InitFails, InitFailsLate, Export, ReleaseMine, GetSchema, GetNextReleased,
                    GetNextEnd, ReleaseYours, ReleaseCopy, vars, stream
<1> QED
  BY <1>3, <1>4, <1>5, <1>6, <1>8 DEF Next

(* Steps of the stream are steps of an ArrowStream, or change nothing of   *)
(* what its consumer sees.                                                 *)
LEMMA SeenStep ==
  ASSUME TypeOK, OneReleaser, InOrder, [Next]_vars
  PROVE  [Seen!Next]_(Seen!vars)
<1> USE DEF Seen!Next, Seen!vars
<1>1. arrays_i \in Nat /\ slots \in Slots
  BY BoundsAssumption DEF TypeOK, Slots
<1>2. Len(slots) \in Nat
  BY <1>1, LenProperties DEF Slots
<1>3. CASE InitFails \/ InitFailsLate \/ InitOK \/ SetArray
  BY <1>3 DEF InitFails, InitFailsLate, InitOK, SetArray, stream
<1>4. CASE Export
  <2>1. Left(slots, arrays_i) \in Seq(Nat \ {0})
    <3>1. CASE slots = <<>>
      <4>1. Left(slots, arrays_i) = <<>> /\ <<>> \in Seq(Nat \ {0})
        BY <1>1, <3>1, NoneLeft
      <4> QED
        BY <4>1
    <3>2. CASE slots # <<>>
      <4>1. PICK m \in Nat : FilledTo(slots, arrays_i, m)
        BY <3>2 DEF InOrder
      <4>2. \A k \in 1..Len(slots) : slots[k] \in Nat
        BY <1>1, BoundsAssumption DEF Arrays, Slots
      <4>3. \A k \in (arrays_i + 1)..m : k \in 1..Len(slots) /\ arrays_i < k /\ k <= m
        BY <1>1, <1>2, <4>1 DEF FilledTo
      <4>4. \A k \in (arrays_i + 1)..m : slots[k] \in Nat \ {0}
        BY <4>1, <4>2, <4>3 DEF FilledTo
      <4>5. SubSeq(slots, arrays_i + 1, m) \in Seq(Nat \ {0})
        BY <1>1, <4>4, SubSeqProperties
      <4> QED
        BY <1>1, <4>1, <4>5, LeftIs
    <3> QED
      BY <3>1, <3>2
  <2>2. /\ phase = "building" /\ phase' = "exported" /\ reply' = reply /\ release'["consumer"]
        /\ UNCHANGED <<slots, arrays_i>>
    BY <1>4 DEF Export, MovedStream, Structs
  <2> QED
    BY <2>1, <2>2 DEF Seen!Export, Structs
<1>5. CASE ReleaseMine \/ GetSchema \/ ReleaseYours \/ ReleaseCopy \/ UNCHANGED vars
  BY <1>5 DEF ReleaseMine, GetSchema, ReleaseYours, ReleaseCopy, vars, stream
<1>6. CASE GetNextReleased
  BY <1>6 DEF GetNextReleased, stream, Seen!Refuse
<1>7. CASE GetNextEnd
  <2>1. Left(slots, arrays_i) = <<>>
    <3>1. CASE slots = <<>>
      BY <1>1, <3>1, NoneLeft
    <3>2. CASE slots # <<>>
      <4>1. PICK m \in Nat : FilledTo(slots, arrays_i, m)
        BY <3>2 DEF InOrder
      <4>2. m = arrays_i
        BY <1>1, <1>2, <1>7, <4>1 DEF FilledTo, GetNextEnd
      <4>3. Left(slots, arrays_i) = SubSeq(slots, arrays_i + 1, arrays_i)
        BY <1>1, <4>1, <4>2, LeftIs
      <4> QED
        BY <1>1, <4>3, SubSeqEmpty
    <3> QED
      BY <3>1, <3>2
  <2> QED
    BY <1>7, <2>1 DEF GetNextEnd, stream, Seen!End
<1>8. CASE GetNextArray
  <2>1. /\ slots' = [slots EXCEPT ![arrays_i + 1] = 0] /\ arrays_i' = arrays_i + 1
        /\ arrays_i < Len(slots) /\ phase = "exported" /\ phase' = "exported"
        /\ release' = release /\ \E s \in Structs : release[s]
        /\ reply' = IF slots[arrays_i + 1] = 0 THEN <<"end", 0>>
                                               ELSE <<"array", slots[arrays_i + 1]>>
    BY <1>8 DEF GetNextArray, MovedSlot, NextSlot
  <2>2. PICK m \in Nat : FilledTo(slots, arrays_i, m)
    <3>1. slots # <<>>
      BY <1>1, <2>1
    <3> QED
      BY <3>1 DEF InOrder
  <2>3. CASE slots[arrays_i + 1] = 0
    <3>1. Left(slots, arrays_i) = <<>> /\ Left(slots', arrays_i') = <<>>
      BY <1>1, <2>1, <2>2, <2>3, EmptyingNext
    <3> QED
      BY <2>1, <2>3, <3>1 DEF Seen!End
  <2>4. CASE slots[arrays_i + 1] # 0
    <3>1. /\ Left(slots, arrays_i) # <<>> /\ Head(Left(slots, arrays_i)) = slots[arrays_i + 1]
          /\ Tail(Left(slots, arrays_i)) = Left(slots', arrays_i')
      BY <1>1, <2>1, <2>2, <2>4, EmptyingNext
    <3> QED
      BY <2>1, <2>4, <3>1 DEF Seen!Deliver
  <2> QED
    BY <2>3, <2>4
<1>9. CASE Release
  <2>1. Left(slots', arrays_i') = <<>>
    BY <1>1, <1>9, NoneLeft DEF Release
  <2>2. \A s \in Structs : release[s] => s = "consumer"
    BY <1>9 DEF Release, OneReleaser, Structs
  <2>3. \A s \in Structs : ~release'[s]
    BY <1>9, <2>2 DEF Release, NoCallback, TypeOK
  <2>4. /\ phase = "exported" /\ phase' = "exported" /\ reply' = reply
        /\ \E s \in Structs : release[s]
    BY <1>9 DEF Release
  <2> QED
    BY <2>1, <2>3, <2>4 DEF Seen!Release
<1> QED
  BY <1>3, <1>4, <1>5, <1>6, <1>7, <1>8, <1>9 DEF Next

(* IsStream: whatever the producer set and whoever calls, an exported      *)
(* stream delivers each array once and in order, then says it has ended,   *)
(* and refuses when it was moved from or released.                         *)
THEOREM ImplementsArrowStream == Spec => IsStream
<1>1. Init => Seen!Init
  BY DEF Init, Seen!Init
<1>2. Init => InOrder
  BY DEF Init, InOrder
<1>3. IInv /\ InOrder /\ [Next]_vars => InOrder'
  BY InOrderStep DEF IInv
<1>4. IInv /\ InOrder /\ [Next]_vars => [Seen!Next]_(Seen!vars)
  BY SeenStep DEF IInv
<1> QED
  BY <1>1, <1>2, <1>3, <1>4, Invariance, PTL DEF Spec, IsStream

---------------------------------------------------------------------------
(* The streams in C++.                                                     *)

Instances == [alive : BOOLEAN, offset : Nat, arrays : Seq(Nat)]

(* At most one instance has arrays: those not delivered yet, which are     *)
(* behind its offset; the object's own are never delivered from.           *)
HasArrays(impl) == instances[impl].arrays # <<>>
Undelivered == [k \in 1..given |-> IF k <= Len(got) THEN 0 ELSE k]
Vectors ==
  /\ instances # <<>> /\ instances[1].offset = 0
  /\ \A x \in 1..Len(instances) : HasArrays(x) =>
       /\ instances[x].alive /\ instances[x].offset = Len(got)
       /\ instances[x].arrays = Undelivered
  /\ \A x, y \in 1..Len(instances) : HasArrays(x) /\ HasArrays(y) => x = y

(* A struct that can release names an instance, alone, and that is alive.  *)
Owners ==
  /\ \A s \in 1..NStructs :
       /\ structs[s].impl = NoInstance \/ structs[s].impl \in 2..Len(instances)
       /\ structs[s].set => structs[s].impl # NoInstance /\ instances[structs[s].impl].alive
  /\ \A s, t \in 1..NStructs :
       structs[s].set /\ structs[t].set /\ structs[s].impl = structs[t].impl => s = t

(* The schema is the object's until the first export, then instance 2's.   *)
Schema ==
  IF Exports = 0
  THEN schemaOwner = IF Object.alive THEN 1 ELSE NoInstance
  ELSE schemaOwner = IF instances[2].alive THEN 2 ELSE NoInstance

(* What is neither kept nor undelivered was released once.                 *)
Waiting == \E x \in 1..Len(instances) : HasArrays(x)
Releases ==
  /\ kept \subseteq 1..Len(got)
  /\ got = [k \in 1..Len(got) |-> k]
  /\ \A a \in 1..given :
       dropped[a] = IF a \in kept \/ (Waiting /\ a > Len(got)) THEN 0 ELSE 1

Types ==
  /\ given \in 0..NVector
  /\ instances \in Seq(Instances)
  /\ structs \in [1..NStructs -> [set : BOOLEAN, impl : Int]]
  /\ got \in Seq(Nat) /\ Len(got) <= given
  /\ dropped \in [1..NVector -> Nat]

CppInv == Types /\ Vectors /\ Owners /\ Schema /\ Releases /\ LiveCallsReadLive

---------------------------------------------------------------------------
(* A sequence of instances with one changed, or with one more.             *)
LEMMA OneChanged ==
  ASSUME NEW s \in Seq(Instances), NEW i \in 1..Len(s), NEW e \in Instances
  PROVE  /\ [s EXCEPT ![i] = e] \in Seq(Instances)
         /\ Len([s EXCEPT ![i] = e]) = Len(s)
         /\ \A x \in 1..Len(s) : [s EXCEPT ![i] = e][x] = IF x = i THEN e ELSE s[x]
<1>1. [s EXCEPT ![i] = e] \in Seq(Instances) /\ Len([s EXCEPT ![i] = e]) = Len(s)
    BY ExceptSeq
<1>2. \A x \in 1..Len(s) : [s EXCEPT ![i] = e][x] = IF x = i THEN e ELSE s[x]
    BY LenProperties
<1> QED
    BY <1>1, <1>2

LEMMA OneMore ==
  ASSUME NEW s \in Seq(Instances), NEW e \in Instances
  PROVE  /\ Append(s, e) \in Seq(Instances)
         /\ Len(Append(s, e)) = Len(s) + 1
         /\ \A x \in 1..Len(s) + 1 : Append(s, e)[x] = IF x = Len(s) + 1 THEN e ELSE s[x]
<1>1. Append(s, e) \in Seq(Instances) /\ Len(Append(s, e)) = Len(s) + 1
    BY AppendProperties
<1>2. \A x \in 1..Len(s) : Append(s, e)[x] = s[x]
    BY AppendProperties
<1>3. Append(s, e)[Len(s) + 1] = e
    BY AppendProperties
<1>4. Len(s) \in Nat
    BY LenProperties
<1> QED
    BY <1>1, <1>2, <1>3, <1>4

(* What a callback read stays as it was while no instance comes back.      *)
LEMMA ReadsStay ==
  ASSUME CppInv, UNCHANGED touched, Len(instances') \in Nat, Len(instances) <= Len(instances'),
         \A x \in 1..Len(instances) : instances'[x].alive => instances[x].alive
  PROVE  LiveCallsReadLive'
<1>1. Len(instances) \in Nat
    BY LenProperties DEF CppInv, Types
<1>2. SUFFICES ASSUME touched.through = "set", touched.memory = "freed schema"
               PROVE  touched.impl \in LaterExports' /\ ~instances'[2].alive
    BY DEF CppInv, LiveCallsReadLive
<1>3. touched.impl \in 3..Len(instances) /\ ~instances[2].alive
    BY <1>2 DEF CppInv, LiveCallsReadLive, LaterExports
<1>4. 2 \in 1..Len(instances) /\ touched.impl \in 3..Len(instances')
    BY <1>1, <1>3
<1> QED
    BY <1>3, <1>4 DEF LaterExports

LEMMA InitCpp == CppInit => CppInv
<1> SUFFICES ASSUME CppInit PROVE CppInv
    OBVIOUS
<1> DEFINE all == [k \in 1..given |-> k]
           one == [alive |-> TRUE, offset |-> 0, arrays |-> all]
<1>1. given \in Nat /\ given \in 0..NVector
    BY StreamsAssumption DEF CppInit
<1>2. all \in Seq(Nat) /\ Len(all) = given
    BY <1>1
<1>3. one \in Instances
    BY <1>2 DEF Instances
<1>4. instances = <<one>>
    BY DEF CppInit, NewInstance
<1> HIDE DEF one
<1>5. instances \in Seq(Instances) /\ Len(instances) = 1 /\ instances[1] = one
    BY <1>3, <1>4
<1>6. one.alive /\ one.offset = 0 /\ one.arrays = all
    BY DEF one
<1>7. got \in Seq(Nat) /\ Len(got) = 0 /\ 1..0 = {}
    BY DEF CppInit
<1>8. Types
  <2>1. structs \in [1..NStructs -> [set : BOOLEAN, impl : Int]]
      BY DEF CppInit, NoInstance
  <2>2. dropped \in [1..NVector -> Nat]
      BY DEF CppInit
  <2> QED
      BY <1>1, <1>5, <1>7, <2>1, <2>2 DEF Types
<1>9. Vectors
  <2>1. all = Undelivered
      BY <1>1, <1>7 DEF Undelivered
  <2>2. \A x \in 1..Len(instances) : x = 1
      BY <1>5
  <2> HIDE DEF all
  <2> QED
      BY <1>4, <1>5, <1>6, <1>7, <2>1, <2>2 DEF Vectors
<1>10. Owners
    BY DEF CppInit, Owners, NoInstance
<1>11. Schema
    BY <1>5, <1>6 DEF CppInit, Schema, Exports, Object
<1>12. Releases
  <2>1. \A a \in 1..given : Waiting /\ a > Len(got)
    <3> SUFFICES ASSUME NEW a \in 1..given PROVE Waiting /\ a > Len(got)
        OBVIOUS
    <3>1. all[a] = a /\ a > 0
        BY <1>1
    <3>2. Len(all) > 0
        BY <1>1, <1>2
    <3> HIDE DEF all
    <3>3. all # <<>>
        BY <3>2
    <3> QED
        BY <1>5, <1>6, <1>7, <3>1, <3>3 DEF Waiting, HasArrays
  <2>2. kept = {} /\ got = <<>> /\ \A a \in 1..given : dropped[a] = 0
      BY <1>1, StreamsAssumption DEF CppInit
  <2>3. got = [k \in 1..Len(got) |-> k]
      BY <1>7, <2>2
  <2> QED
      BY <2>1, <2>2, <2>3 DEF Releases
<1>13. LiveCallsReadLive
    BY DEF CppInit, LiveCallsReadLive, NoCalls
<1> QED
    BY <1>8, <1>9, <1>10, <1>11, <1>12, <1>13 DEF CppInv

---------------------------------------------------------------------------
(* ToArrayStream: the object's arrays, if it still has them, become those  *)
(* of the new instance, which no other struct names.                       *)
LEMMA Exporting == CppInv /\ ToArrayStream /\ UNCHANGED given => CppInv'
<1> SUFFICES ASSUME CppInv, ToArrayStream, UNCHANGED given PROVE CppInv'
    OBVIOUS
<1> DEFINE new == Len(instances) + 1
           object == [instances[1] EXCEPT !.arrays = <<>>]
           heap == [alive |-> TRUE, offset |-> 0, arrays |-> instances[1].arrays]
<1>1. PICK out \in 1..NStructs :
        /\ ~structs[out].set
        /\ structs' = [structs EXCEPT ![out] = [set |-> TRUE, impl |-> new]]
    BY DEF ToArrayStream
<1>2. /\ instances \in Seq(Instances) /\ instances # <<>>
      /\ instances[1].offset = 0 /\ instances[1].alive
    BY DEF CppInv, Types, Vectors, ToArrayStream, Object
<1>3. Len(instances) \in Nat \ {0} /\ 1 \in 1..Len(instances) /\ new \in Nat \ {0, 1}
  <2>1. Len(instances) \in Nat \ {0}
      BY <1>2, EmptySeq
  <2> QED
      BY <2>1
<1>4. instances[1] \in Instances
    BY <1>2, <1>3, ElementOfSeq
<1>5. object \in Instances /\ heap \in Instances
  <2>1. <<>> \in Seq(Nat)
      OBVIOUS
  <2> QED
      BY <1>2, <1>4, <2>1 DEF Instances
<1>6. instances' = Append([instances EXCEPT ![1] = object], heap)
    BY DEF ToArrayStream, GivesArrays, NewInstance, Object
<1>7. /\ object.alive /\ object.offset = 0 /\ object.arrays = <<>>
      /\ heap.alive /\ heap.offset = 0 /\ heap.arrays = instances[1].arrays
    BY <1>2, <1>4 DEF Instances
<1> HIDE DEF object, heap
<1>8. /\ instances' \in Seq(Instances) /\ Len(instances') = new
      /\ \A x \in 1..new : instances'[x] = IF x = new THEN heap
                                           ELSE IF x = 1 THEN object ELSE instances[x]
  <2>1. /\ [instances EXCEPT ![1] = object] \in Seq(Instances)
        /\ Len([instances EXCEPT ![1] = object]) = Len(instances)
        /\ \A x \in 1..Len(instances) :
             [instances EXCEPT ![1] = object][x] = IF x = 1 THEN object ELSE instances[x]
      BY <1>2, <1>3, <1>5, OneChanged
  <2> HIDE DEF new
  <2>2. /\ instances' \in Seq(Instances) /\ Len(instances') = Len(instances) + 1
        /\ \A x \in 1..Len(instances) + 1 :
             instances'[x] = IF x = Len(instances) + 1 THEN heap
                             ELSE [instances EXCEPT ![1] = object][x]
      BY <1>5, <1>6, <2>1, OneMore
  <2>3. \A x \in 1..new : x = new \/ x \in 1..Len(instances)
      BY <1>3 DEF new
  <2> QED
      BY <2>1, <2>2, <2>3 DEF new
<1> HIDE DEF new
<1>9. new = Len(instances) + 1
    BY DEF new
<1>10. UNCHANGED <<given, got, kept, dropped, touched>>
    BY DEF ToArrayStream
<1>11. Types'
    BY <1>1, <1>3, <1>8, <1>10 DEF CppInv, Types
<1>12. \A x \in 1..new : HasArrays(x)' <=> IF x = new THEN HasArrays(1) ELSE x # 1 /\ HasArrays(x)
    BY <1>3, <1>7, <1>8 DEF HasArrays
<1>13. Undelivered' = Undelivered
    BY <1>10 DEF Undelivered
<1>14. \A x \in 1..new : x = new \/ x \in 1..Len(instances)
    BY <1>3, <1>9
<1>15. Vectors'
  <2>1. instances' # <<>> /\ instances'[1].offset = 0
      BY <1>3, <1>7, <1>8, EmptySeq
  <2>2. \A x, y \in 1..new : HasArrays(x)' /\ HasArrays(y)' => x = y
      BY <1>3, <1>12, <1>14 DEF CppInv, Vectors
  <2>3. ASSUME NEW x \in 1..new, HasArrays(x)'
        PROVE  instances'[x].alive /\ instances'[x].offset = Len(got)
               /\ instances'[x].arrays = Undelivered
    <3>1. CASE x = new
        BY <1>2, <1>3, <1>7, <1>8, <1>12, <2>3, <3>1 DEF CppInv, Vectors
    <3>2. CASE x # new
        BY <1>8, <1>12, <1>14, <2>3, <3>2 DEF CppInv, Vectors
    <3> QED
        BY <3>1, <3>2
  <2> QED
      BY <1>8, <1>10, <1>13, <2>1, <2>2, <2>3 DEF Vectors
<1>16. Owners'
  <2>1. \A s \in 1..NStructs : structs'[s] = IF s = out THEN [set |-> TRUE, impl |-> new]
                                             ELSE structs[s]
      BY <1>1 DEF CppInv, Types
  <2>2. \A s \in 1..NStructs : structs[s].impl # new
      BY <1>3, <1>9 DEF CppInv, Owners, NoInstance
  <2>3. \A x \in 2..Len(instances) : x \in 2..new /\ instances'[x] = instances[x]
      BY <1>3, <1>8, <1>9
  <2>4. new \in 2..new /\ instances'[new].alive
      BY <1>3, <1>7, <1>8
  <2>5. ASSUME NEW s \in 1..NStructs
        PROVE  /\ structs'[s].impl = NoInstance \/ structs'[s].impl \in 2..new
               /\ structs'[s].set =>
                    structs'[s].impl # NoInstance /\ instances'[structs'[s].impl].alive
    <3>1. CASE s = out
        BY <1>3, <2>1, <2>4, <3>1 DEF NoInstance
    <3>2. CASE s # out
        BY <2>1, <2>3, <3>2 DEF CppInv, Owners
    <3> QED
        BY <3>1, <3>2
  <2>6. \A s, t \in 1..NStructs :
          structs'[s].set /\ structs'[t].set /\ structs'[s].impl = structs'[t].impl => s = t
      BY <2>1, <2>2 DEF CppInv, Owners
  <2> QED
      BY <1>8, <2>5, <2>6 DEF Owners
<1>17. Schema'
  <2>1. CASE Exports = 0
    <3>1. schemaOwner = 1 /\ schemaOwner' = Len(instances) + 1
        BY <2>1 DEF CppInv, Schema, ToArrayStream
    <3>2. Len(instances) = 1
        BY <1>3, <2>1 DEF Exports
    <3>3. schemaOwner' = 2 /\ Exports' = 1 /\ instances'[2].alive
        BY <1>7, <1>8, <1>9, <3>1, <3>2 DEF Exports
    <3> QED
        BY <3>3 DEF Schema
  <2>2. CASE Exports # 0
    <3>1. Len(instances) # 1 /\ Exports' = Len(instances)
        BY <1>3, <1>8, <1>9, <2>2 DEF Exports
    <3>2. 2 \in 1..new /\ 2 # new /\ Exports' # 0
        BY <1>3, <1>9, <3>1
    <3>3. instances'[2] = instances[2]
        BY <1>8, <3>2
    <3>4. schemaOwner' = schemaOwner
        BY <2>2 DEF CppInv, Schema, ToArrayStream, NoInstance
    <3> QED
        BY <2>2, <3>2, <3>3, <3>4 DEF CppInv, Schema
  <2> QED
      BY <2>1, <2>2
<1>18. Releases'
  <2>1. Waiting' <=> Waiting
    <3>1. Waiting => Waiting'
        BY <1>3, <1>8, <1>9, <1>12 DEF Waiting
    <3>2. \A x \in 1..new : HasArrays(x)' => \E y \in 1..Len(instances) : HasArrays(y)
        BY <1>3, <1>12, <1>14
    <3>3. Waiting' => Waiting
        BY <1>8, <3>2 DEF Waiting
    <3> QED
        BY <3>1, <3>3
  <2>2. Releases
      BY DEF CppInv
  <2> HIDE DEF Waiting
  <2> QED
      BY <1>10, <2>1, <2>2 DEF Releases
<1>19. LiveCallsReadLive'
  <2>1. \A x \in 1..Len(instances) : x \in 1..new /\ x # new
      BY <1>3, <1>9
  <2>2. \A x \in 1..Len(instances) : instances'[x].alive => instances[x].alive
      BY <1>2, <1>8, <2>1
  <2>3. Len(instances') \in Nat /\ Len(instances) <= Len(instances')
      BY <1>3, <1>8, <1>9
  <2>4. UNCHANGED touched
      BY <1>10
  <2> QED
      BY <2>2, <2>3, <2>4, ReadsStay
<1> QED
    BY <1>11, <1>15, <1>16, <1>17, <1>18, <1>19 DEF CppInv

---------------------------------------------------------------------------
(* The arrays of a vector are those not delivered, or none.                *)
LEMMA Holding ==
  ASSUME CppInv, NEW x \in 1..Len(instances), NEW a \in 1..given
  PROVE  a \in InVector(x) <=> HasArrays(x) /\ a > Len(got)
<1>1. CASE HasArrays(x)
  <2>1. instances[x].arrays = Undelivered
      BY <1>1 DEF CppInv, Vectors
  <2>2. DOMAIN Undelivered = 1..given
        /\ \A k \in 1..given : Undelivered[k] = IF k <= Len(got) THEN 0 ELSE k
      BY DEF Undelivered
  <2>3. given \in Nat /\ Len(got) \in Nat
      BY StreamsAssumption DEF CppInv, Types
  <2>4. a \in InVector(x) <=> \E k \in 1..given : Undelivered[k] = a
      BY <2>1, <2>2 DEF InVector
  <2> QED
      BY <1>1, <2>2, <2>3, <2>4
<1>2. CASE ~HasArrays(x)
  <2>1. instances[x].arrays = <<>> /\ DOMAIN <<>> = {}
      BY <1>2 DEF HasArrays
  <2> QED
      BY <1>2, <2>1 DEF InVector
<1> QED
    BY <1>1, <1>2

(* The end of an instance: its arrays are released, and its schema, and    *)
(* the others stay as they are.                                            *)
LEMMA Destroying ==
  ASSUME CppInv, NEW impl \in 1..Len(instances), instances[impl].alive, Destroys(impl),
         UNCHANGED <<given, got, kept, touched>>
  PROVE  /\ instances' \in Seq(Instances) /\ Len(instances') = Len(instances)
         /\ \A x \in 1..Len(instances) : x # impl => instances'[x] = instances[x]
         /\ dropped' \in [1..NVector -> Nat]
         /\ Vectors' /\ Schema' /\ Releases' /\ LiveCallsReadLive'
<1> DEFINE ended == [instances[impl] EXCEPT !.alive = FALSE, !.arrays = <<>>]
<1>1. instances \in Seq(Instances) /\ instances # <<>>
    BY DEF CppInv, Types, Vectors
<1>2. Len(instances) \in Nat \ {0}
    BY <1>1, EmptySeq
<1>3. instances[impl] \in Instances
    BY <1>1, ElementOfSeq
<1>4. ended \in Instances
  <2>1. <<>> \in Seq(Nat)
      OBVIOUS
  <2> QED
      BY <1>3, <2>1 DEF Instances
<1>5. ~ended.alive /\ ended.arrays = <<>> /\ ended.offset = instances[impl].offset
    BY <1>3 DEF Instances
<1>6. instances' = [instances EXCEPT ![impl] = ended]
    BY DEF Destroys
<1> HIDE DEF ended
<1>7. /\ instances' \in Seq(Instances) /\ Len(instances') = Len(instances)
      /\ \A x \in 1..Len(instances) : instances'[x] = IF x = impl THEN ended ELSE instances[x]
    BY <1>1, <1>4, <1>6, OneChanged
<1>8. \A x \in 1..Len(instances) : HasArrays(x)' <=> x # impl /\ HasArrays(x)
    BY <1>5, <1>7 DEF HasArrays
<1>9. Undelivered' = Undelivered
    BY DEF Undelivered
<1>10. Vectors'
  <2>1. 1 \in 1..Len(instances) /\ instances' # <<>>
      BY <1>7, <1>2, EmptySeq
  <2>2. instances'[1].offset = 0
      BY <1>5, <1>7, <2>1 DEF CppInv, Vectors
  <2>3. \A x \in 1..Len(instances) : HasArrays(x)' =>
          instances'[x].alive /\ instances'[x].offset = Len(got)
          /\ instances'[x].arrays = Undelivered
      BY <1>7, <1>8 DEF CppInv, Vectors
  <2>4. \A x, y \in 1..Len(instances) : HasArrays(x)' /\ HasArrays(y)' => x = y
      BY <1>8 DEF CppInv, Vectors
  <2> QED
      BY <1>7, <1>9, <2>1, <2>2, <2>3, <2>4 DEF Vectors
<1>11. Exports' = Exports
    BY <1>7 DEF Exports
<1>12. Schema'
  <2>1. schemaOwner' = IF schemaOwner = impl THEN NoInstance ELSE schemaOwner
      BY DEF Destroys
  <2>2. impl # NoInstance
      BY DEF NoInstance
  <2>3. CASE Exports = 0
    <3>1. Len(instances) = 1 /\ impl = 1
      <4>1. Len(instances) = 1
          BY <1>2, <2>3 DEF Exports
      <4> QED
          BY <4>1
    <3>2. ~instances'[1].alive /\ schemaOwner = 1
        BY <1>5, <1>7, <2>3, <3>1 DEF CppInv, Schema, Object
    <3> QED
        BY <1>11, <2>1, <2>3, <3>1, <3>2 DEF Schema, Object
  <2>4. CASE Exports # 0
    <3>1. 2 \in 1..Len(instances)
      <4>1. Len(instances) # 1
          BY <1>2, <2>4 DEF Exports
      <4> QED
          BY <1>2, <4>1
    <3>2. instances'[2].alive <=> instances[2].alive /\ impl # 2
        BY <1>5, <1>7, <3>1
    <3>3. schemaOwner = IF instances[2].alive THEN 2 ELSE NoInstance
        BY <2>4 DEF CppInv, Schema
    <3>4. schemaOwner' = IF instances'[2].alive THEN 2 ELSE NoInstance
        BY <2>1, <2>2, <3>2, <3>3
    <3> QED
        BY <1>11, <2>4, <3>4 DEF Schema
  <2> QED
      BY <2>3, <2>4
<1>13. dropped' = [a \in 1..NVector |-> IF a \in InVector(impl) THEN dropped[a] + 1
                                                                ELSE dropped[a]]
    BY DEF Destroys, Drops
<1>14. dropped' \in [1..NVector -> Nat]
    BY <1>13 DEF CppInv, Types
<1>15. Releases'
  <2>1. \A a \in 1..given : a \in 1..NVector /\ (a \in InVector(impl) <=> HasArrays(impl) /\ a > Len(got))
      BY Holding, StreamsAssumption DEF CppInv, Types
  <2>2. Waiting' <=> Waiting /\ ~HasArrays(impl)
    <3>1. \A x \in 1..Len(instances) : HasArrays(x) /\ HasArrays(impl) => x = impl
        BY DEF CppInv, Vectors
    <3> QED
        BY <1>7, <1>8, <3>1 DEF Waiting
  <2>3. HasArrays(impl) => Waiting
      BY DEF Waiting
  <2>4. kept \subseteq 1..Len(got) /\ Len(got) \in Nat
      BY DEF CppInv, Releases, Types
  <2>5. ASSUME NEW a \in 1..given
        PROVE  dropped'[a] = IF a \in kept \/ (Waiting' /\ a > Len(got)) THEN 0 ELSE 1
    <3>1. dropped[a] = IF a \in kept \/ (Waiting /\ a > Len(got)) THEN 0 ELSE 1
        BY DEF CppInv, Releases
    <3>2. a > Len(got) => a \notin kept
        BY <2>4
    <3>3. dropped'[a] = IF HasArrays(impl) /\ a > Len(got) THEN dropped[a] + 1 ELSE dropped[a]
        BY <1>13, <2>1
    <3> QED
        BY <2>2, <2>3, <3>1, <3>2, <3>3
  <2> QED
      BY <2>5 DEF CppInv, Releases
<1>16. LiveCallsReadLive'
  <2>1. \A x \in 1..Len(instances) : instances'[x].alive => instances[x].alive
      BY <1>5, <1>7
  <2> QED
      BY <1>2, <1>7, <2>1, ReadsStay
<1> QED
    BY <1>7, <1>10, <1>12, <1>14, <1>15, <1>16

LEMMA DestroyingObject == CppInv /\ DestroyObject /\ UNCHANGED given => CppInv'
<1> SUFFICES ASSUME CppInv, DestroyObject, UNCHANGED given PROVE CppInv'
    OBVIOUS
<1>1. 1 \in 1..Len(instances)
  <2>1. Len(instances) \in Nat \ {0}
      BY EmptySeq DEF CppInv, Types, Vectors
  <2> QED
      BY <2>1
<1>2. instances[1].alive /\ Destroys(1) /\ UNCHANGED <<given, got, kept, touched, structs>>
    BY DEF DestroyObject, Object
<1>3. /\ instances' \in Seq(Instances) /\ Len(instances') = Len(instances)
      /\ \A x \in 1..Len(instances) : x # 1 => instances'[x] = instances[x]
      /\ dropped' \in [1..NVector -> Nat]
      /\ Vectors' /\ Schema' /\ Releases' /\ LiveCallsReadLive'
    BY <1>1, <1>2, Destroying
<1>4. Types'
    BY <1>2, <1>3 DEF CppInv, Types
<1>5. \A x \in 2..Len(instances) : instances'[x] = instances[x]
  <2>1. \A x \in 2..Len(instances) : x \in 1..Len(instances) /\ x # 1
      BY <1>1
  <2> QED
      BY <1>3, <2>1
<1>6. Owners'
    BY <1>2, <1>3, <1>5 DEF CppInv, Owners
<1> QED
    BY <1>3, <1>4, <1>6 DEF CppInv

(* No other struct that can release names the instance that is deleted.    *)
LEMMA ReleasingStream == CppInv /\ WrapperRelease /\ UNCHANGED given => CppInv'
<1> SUFFICES ASSUME CppInv, WrapperRelease, UNCHANGED given PROVE CppInv'
    OBVIOUS
<1>1. PICK s \in 1..NStructs :
        structs[s].set /\ Destroys(structs[s].impl) /\ structs' = NoOwner(s)
    BY DEF WrapperRelease
<1> DEFINE impl == structs[s].impl
<1>2. impl \in 2..Len(instances) /\ instances[impl].alive
    BY <1>1 DEF CppInv, Owners
<1>3. impl \in 1..Len(instances)
  <2>1. Len(instances) \in Nat
      BY LenProperties DEF CppInv, Types
  <2> QED
      BY <1>2, <2>1
<1>4. UNCHANGED <<given, got, kept, touched>>
    BY DEF WrapperRelease
<1>5. /\ instances' \in Seq(Instances) /\ Len(instances') = Len(instances)
      /\ \A x \in 1..Len(instances) : x # impl => instances'[x] = instances[x]
      /\ dropped' \in [1..NVector -> Nat]
      /\ Vectors' /\ Schema' /\ Releases' /\ LiveCallsReadLive'
  <2> HIDE DEF impl
  <2>1. Destroys(impl)
      BY <1>1 DEF impl
  <2> QED
      BY <1>2, <1>3, <1>4, <2>1, Destroying
<1>6. structs' = [structs EXCEPT ![s] = [set |-> FALSE, impl |-> NoInstance]]
    BY <1>1 DEF NoOwner
<1>7. Types'
    BY <1>4, <1>5, <1>6 DEF CppInv, Types, NoInstance
<1>8. Owners'
  <2>1. \A t \in 1..NStructs : structs'[t] = IF t = s THEN [set |-> FALSE, impl |-> NoInstance]
                                             ELSE structs[t]
      BY <1>6 DEF CppInv, Types
  <2>2. \A t \in 1..NStructs : t # s /\ structs[t].set => structs[t].impl # impl
      BY <1>1 DEF CppInv, Owners
  <2>3. \A x \in 2..Len(instances) : x \in 1..Len(instances)
      BY <1>3
  <2>4. \A t \in 1..NStructs :
          /\ structs'[t].impl = NoInstance \/ structs'[t].impl \in 2..Len(instances)
          /\ structs'[t].set => structs'[t].impl # NoInstance /\ instances'[structs'[t].impl].alive
      BY <1>5, <2>1, <2>2, <2>3 DEF CppInv, Owners
  <2>5. \A t, u \in 1..NStructs :
          structs'[t].set /\ structs'[u].set /\ structs'[t].impl = structs'[u].impl => t = u
      BY <2>1 DEF CppInv, Owners
  <2> QED
      BY <1>5, <2>4, <2>5 DEF Owners
<1> QED
    BY <1>5, <1>7, <1>8 DEF CppInv

---------------------------------------------------------------------------
(* A move: the target names the instance, the source can no longer release.*)
LEMMA Moving == CppInv /\ MoveStruct /\ UNCHANGED given => CppInv'
<1> SUFFICES ASSUME CppInv, MoveStruct, UNCHANGED given PROVE CppInv'
    OBVIOUS
<1>1. PICK s, t \in 1..NStructs :
        /\ s # t /\ structs[s].set
        /\ structs' = [structs EXCEPT ![t] = structs[s], ![s].set = FALSE]
    BY DEF MoveStruct, MovedStruct
<1>2. UNCHANGED <<given, instances, schemaOwner, got, kept, dropped, touched>>
    BY <1>1 DEF MoveStruct
<1>3. Types'
    BY <1>1, <1>2 DEF CppInv, Types
<1>4. Owners'
  <2>1. \A u \in 1..NStructs :
          /\ structs'[u].impl = IF u = t THEN structs[s].impl ELSE structs[u].impl
          /\ structs'[u].set = IF u = t THEN structs[s].set ELSE u # s /\ structs[u].set
      BY <1>1 DEF CppInv, Types
  <2>2. structs[s].impl # NoInstance /\ instances[structs[s].impl].alive
      BY <1>1 DEF CppInv, Owners
  <2>3. ASSUME NEW u \in 1..NStructs
        PROVE  /\ structs'[u].impl = NoInstance \/ structs'[u].impl \in 2..Len(instances)
               /\ structs'[u].set =>
                    structs'[u].impl # NoInstance /\ instances[structs'[u].impl].alive
      BY <2>1, <2>2 DEF CppInv, Owners
  <2>4. \A u, v \in 1..NStructs :
          structs'[u].set /\ structs'[v].set /\ structs'[u].impl = structs'[v].impl => u = v
    <3> DEFINE Before(u) == IF u = t THEN s ELSE u
    <3>1. \A u \in 1..NStructs : structs'[u].set =>
            /\ Before(u) \in 1..NStructs /\ structs[Before(u)].set
            /\ structs'[u].impl = structs[Before(u)].impl
        BY <1>1, <2>1
    <3>2. \A u, v \in 1..NStructs :
            structs'[u].set /\ structs'[v].set /\ Before(u) = Before(v) => u = v
        BY <1>1, <2>1
    <3> QED
        BY <3>1, <3>2 DEF CppInv, Owners
  <2> QED
      BY <1>2, <2>3, <2>4 DEF Owners
<1>5. Vectors' /\ Schema' /\ Releases' /\ LiveCallsReadLive'
    BY <1>2 DEF CppInv, Vectors, Schema, Releases, LiveCallsReadLive, LaterExports, HasArrays, Undelivered,
                Exports, Object, Waiting
<1> QED
    BY <1>3, <1>4, <1>5 DEF CppInv

(* get_schema through a struct that is set: its instance is alive, and the *)
(* schema is there unless another instance owned it.                       *)
LEMMA GettingSchema == CppInv /\ WrapperGetSchema /\ UNCHANGED given => CppInv'
<1> SUFFICES ASSUME CppInv, WrapperGetSchema, UNCHANGED given PROVE CppInv'
    OBVIOUS
<1>1. PICK s \in 1..NStructs :
        structs[s].impl # NoInstance /\ Touches(s, SchemaRead(structs[s].impl))
    BY DEF WrapperGetSchema
<1>2. UNCHANGED <<given, instances, structs, schemaOwner, got, kept, dropped>>
    BY DEF WrapperGetSchema
<1>3. Types' /\ Vectors' /\ Schema' /\ Releases' /\ Owners'
    BY <1>2 DEF CppInv, Types, Vectors, Schema, Releases, Owners, HasArrays, Undelivered,
                Exports, Object, Waiting
<1>4. LiveCallsReadLive'
  <2>1. SUFFICES ASSUME structs[s].set
                 PROVE  /\ SchemaRead(structs[s].impl) # "freed instance"
                        /\ SchemaRead(structs[s].impl) = "freed schema" =>
                             structs[s].impl \in LaterExports /\ ~instances[2].alive
      BY <1>1, <1>2 DEF Touches, LiveCallsReadLive, LaterExports
  <2>2. structs[s].impl \in 2..Len(instances) /\ instances[structs[s].impl].alive
      BY <1>1, <2>1 DEF CppInv, Owners
  <2>3. Len(instances) \in Nat
      BY LenProperties DEF CppInv, Types
  <2>4. Exports # 0
      BY <2>2, <2>3 DEF Exports
  <2>5. schemaOwner = NoInstance => ~instances[2].alive
      BY <2>4 DEF CppInv, Schema, NoInstance
  <2>6. schemaOwner = NoInstance => structs[s].impl \in 3..Len(instances)
    <3>1. \A n \in Nat : \A x \in 2..n : x # 2 => x \in 3..n
        OBVIOUS
    <3> QED
        BY <2>2, <2>3, <2>5, <3>1
  <2> QED
      BY <2>2, <2>5, <2>6 DEF SchemaRead, InstanceRead, LaterExports
<1> QED
    BY <1>3, <1>4 DEF CppInv

(* get_next: the array at the offset is the first that is not delivered.   *)
LEMMA CppDelivering ==
  ASSUME CppInv, NEW impl \in 1..Len(instances), impl # 1, instances[impl].alive,
         instances[impl].offset < Len(instances[impl].arrays),
         instances' = [instances EXCEPT ![impl] = NextMoves(@)],
         got' = Append(got, instances[impl].arrays[instances[impl].offset + 1]),
         kept' = kept \cup {instances[impl].arrays[instances[impl].offset + 1]},
         UNCHANGED <<given, schemaOwner, dropped>>
  PROVE  /\ instances' \in Seq(Instances) /\ Len(instances') = Len(instances)
         /\ \A x \in 1..Len(instances) : instances'[x].alive = instances[x].alive
         /\ got' \in Seq(Nat) /\ Len(got') <= given
         /\ Vectors' /\ Schema' /\ Releases'
<1> DEFINE next == Len(got) + 1
           moved == [instances[impl] EXCEPT !.offset = next, !.arrays = Undelivered']
<1>1. instances \in Seq(Instances) /\ instances # <<>> /\ instances[impl] \in Instances
    BY ElementOfSeq DEF CppInv, Types, Vectors
<1>2. Len(instances) \in Nat \ {0}
    BY <1>1, EmptySeq
<1>3. given \in Nat /\ got \in Seq(Nat)
    BY StreamsAssumption DEF CppInv, Types
<1>4. Len(got) \in Nat /\ next \in Nat
    BY <1>3, LenProperties
<1>5. HasArrays(impl)
  <2>1. instances[impl].offset \in Nat
      BY <1>1 DEF Instances
  <2>2. Len(<<>>) = 0
      OBVIOUS
  <2> QED
      BY <2>1, <2>2 DEF HasArrays
<1>6. instances[impl].offset = Len(got) /\ instances[impl].arrays = Undelivered
    BY <1>5 DEF CppInv, Vectors
<1>7. Undelivered \in Seq(Nat) /\ Len(Undelivered) = given
      /\ \A k \in 1..given : Undelivered[k] = IF k <= Len(got) THEN 0 ELSE k
    BY <1>3, <1>4 DEF Undelivered
<1>8. next \in 1..given /\ Undelivered[next] = next
    BY <1>3, <1>4, <1>6, <1>7
<1>9. got' = Append(got, next) /\ kept' = kept \cup {next}
    BY <1>6, <1>8
<1>10. /\ got' \in Seq(Nat) /\ Len(got') = next
       /\ \A k \in 1..Len(got) : got'[k] = got[k]
       /\ got'[Len(got) + 1] = next
    BY <1>3, <1>4, <1>9, AppendProperties
<1>11. Undelivered' = [Undelivered EXCEPT ![next] = 0]
  <2>1. Undelivered' = [k \in 1..given |-> IF k <= next THEN 0 ELSE k]
      BY <1>10 DEF Undelivered
  <2>2. \A k \in 1..given : k <= next <=> k <= Len(got) \/ k = next
      BY <1>3, <1>4
  <2> HIDE DEF next
  <2> QED
      BY <2>1, <2>2 DEF Undelivered
<1>12. Undelivered' \in Seq(Nat)
    BY <1>7, <1>8, <1>11, ExceptSeq
<1>13. moved \in Instances /\ moved.alive /\ moved.offset = next /\ moved.arrays = Undelivered'
    BY <1>1, <1>4, <1>12 DEF Instances
<1>14. NextMoves(instances[impl]) = moved
    BY <1>1, <1>6, <1>11 DEF NextMoves, Instances
<1> HIDE DEF moved
<1>15. /\ instances' \in Seq(Instances) /\ Len(instances') = Len(instances)
       /\ \A x \in 1..Len(instances) : instances'[x] = IF x = impl THEN moved ELSE instances[x]
    BY <1>1, <1>13, <1>14, OneChanged
<1>16. \A x \in 1..Len(instances) : instances'[x].alive = instances[x].alive
    BY <1>13, <1>15, <1>1 DEF Instances
<1>17. \A x \in 1..Len(instances) : HasArrays(x)' => x = impl
    BY <1>5, <1>15 DEF CppInv, Vectors, HasArrays
<1>18. Vectors'
  <2>1. 1 \in 1..Len(instances) /\ instances' # <<>>
      BY <1>2, <1>15, EmptySeq
  <2>2. instances'[1].offset = 0
      BY <1>15, <2>1 DEF CppInv, Vectors
  <2> QED
      BY <1>10, <1>13, <1>15, <1>17, <2>1, <2>2 DEF Vectors
<1>19. Schema'
  <2>1. 1 \in 1..Len(instances) /\ Exports' = Exports
      BY <1>2, <1>15 DEF Exports
  <2>2. CASE Exports = 0
      BY <1>16, <2>1, <2>2 DEF CppInv, Schema, Object
  <2>3. CASE Exports # 0
    <3>1. Len(instances) # 1
        BY <1>2, <2>3 DEF Exports
    <3>2. 2 \in 1..Len(instances)
        BY <1>2, <3>1
    <3>3. instances'[2].alive = instances[2].alive
        BY <1>16, <3>2
    <3> QED
        BY <2>1, <2>3, <3>3 DEF CppInv, Schema
  <2> QED
      BY <2>2, <2>3
<1>20. Releases'
  <2>1. got = [k \in 1..Len(got) |-> k] /\ kept \subseteq 1..Len(got)
      BY DEF CppInv, Releases
  <2>2. kept' \subseteq 1..Len(got')
      BY <1>4, <1>9, <1>10, <2>1
  <2>3. got' = [k \in 1..Len(got') |-> k]
    <3>1. got' \in [1..next -> Nat]
        BY <1>10, LenProperties
    <3>2. \A k \in 1..next : got'[k] = k
      <4>1. \A k \in 1..next : k \in 1..Len(got) \/ k = next
          BY <1>4
      <4> QED
          BY <1>10, <2>1, <4>1
    <3> QED
        BY <1>10, <3>1, <3>2
  <2>4. Waiting
      BY <1>5 DEF Waiting
  <2>5. ASSUME NEW a \in 1..given, a > next PROVE Waiting'
    <3>1. (Undelivered')[a] = a
        BY <1>4, <1>7, <1>8, <1>11, <2>5
    <3>2. Undelivered' # <<>>
      <4>1. Len(Undelivered') = given /\ given > 0
          BY <1>3, <1>7, <1>8, <1>11, ExceptSeq
      <4> QED
          BY <4>1
    <3> QED
        BY <1>13, <1>15, <3>2 DEF Waiting, HasArrays
  <2>6. ASSUME NEW a \in 1..given
        PROVE  dropped'[a] = IF a \in kept' \/ (Waiting' /\ a > next) THEN 0 ELSE 1
    <3>1. dropped'[a] = IF a \in kept \/ a > Len(got) THEN 0 ELSE 1
        BY <2>4 DEF CppInv, Releases
    <3>2. a > Len(got) <=> a > next \/ a = next
        BY <1>4
    <3> QED
        BY <1>9, <2>5, <3>1, <3>2
  <2>7. \A a \in 1..given' :
          dropped'[a] = IF a \in kept' \/ (Waiting' /\ a > Len(got')) THEN 0 ELSE 1
      BY <1>10, <2>6
  <2> HIDE DEF next
  <2> QED
      BY <2>2, <2>3, <2>7 DEF Releases
<1>21. Len(got') <= given
    BY <1>8, <1>10
<1> QED
    BY <1>10, <1>15, <1>16, <1>18, <1>19, <1>20, <1>21

LEMMA GettingNext == CppInv /\ WrapperGetNext /\ UNCHANGED given => CppInv'
<1> SUFFICES ASSUME CppInv, WrapperGetNext, UNCHANGED given PROVE CppInv'
    OBVIOUS
<1>1. PICK s \in 1..NStructs :
        /\ structs[s].impl # NoInstance
        /\ Touches(s, InstanceRead(structs[s].impl))
        /\ IF /\ instances[structs[s].impl].alive
              /\ instances[structs[s].impl].offset < Len(instances[structs[s].impl].arrays)
           THEN /\ instances' = [instances EXCEPT ![structs[s].impl] = NextMoves(@)]
                /\ got' = Append(got, instances[structs[s].impl].arrays[
                                        instances[structs[s].impl].offset + 1])
                /\ kept' = kept \cup {instances[structs[s].impl].arrays[
                                        instances[structs[s].impl].offset + 1]}
           ELSE UNCHANGED <<instances, got, kept>>
    BY DEF WrapperGetNext
<1> DEFINE impl == structs[s].impl
<1>2. UNCHANGED <<given, structs, schemaOwner, dropped>>
    BY DEF WrapperGetNext
<1>3. impl \in 2..Len(instances)
    BY <1>1 DEF CppInv, Owners
<1>4. impl \in 1..Len(instances) /\ impl # 1
  <2>1. Len(instances) \in Nat
      BY LenProperties DEF CppInv, Types
  <2> QED
      BY <1>3, <2>1
<1>5. structs[s].set => instances[impl].alive
    BY DEF CppInv, Owners
<1>6. touched'.through = "set" => touched'.memory = "live"
    BY <1>1, <1>5 DEF Touches, InstanceRead
<1>7. LiveCallsReadLive'
    BY <1>6 DEF LiveCallsReadLive
<1>8. CASE instances[impl].alive /\ instances[impl].offset < Len(instances[impl].arrays)
  <2>1. /\ instances' \in Seq(Instances) /\ Len(instances') = Len(instances)
        /\ \A x \in 1..Len(instances) : instances'[x].alive = instances[x].alive
        /\ got' \in Seq(Nat) /\ Len(got') <= given
        /\ Vectors' /\ Schema' /\ Releases'
    <3>1. /\ instances' = [instances EXCEPT ![impl] = NextMoves(@)]
          /\ got' = Append(got, instances[impl].arrays[instances[impl].offset + 1])
          /\ kept' = kept \cup {instances[impl].arrays[instances[impl].offset + 1]}
        BY <1>1, <1>8
    <3> HIDE DEF impl
    <3> QED
        BY <1>2, <1>4, <1>8, <3>1, CppDelivering
  <2>2. Types'
      BY <1>2, <2>1 DEF CppInv, Types
  <2>3. Owners'
    <3>1. \A x \in 2..Len(instances) : instances'[x].alive = instances[x].alive
      <4>1. \A x \in 2..Len(instances) : x \in 1..Len(instances)
          BY <1>4
      <4> QED
          BY <2>1, <4>1
    <3> QED
        BY <1>2, <2>1, <3>1 DEF CppInv, Owners
  <2> QED
      BY <1>7, <2>1, <2>2, <2>3 DEF CppInv
<1>9. CASE ~(instances[impl].alive /\ instances[impl].offset < Len(instances[impl].arrays))
  <2>1. UNCHANGED <<instances, got, kept>>
      BY <1>1, <1>9
  <2>2. Types' /\ Vectors' /\ Schema' /\ Releases' /\ Owners'
      BY <1>2, <2>1 DEF CppInv, Types, Vectors, Schema, Releases, Owners, HasArrays, Undelivered,
                        Exports, Object, Waiting
  <2> QED
      BY <1>7, <2>2 DEF CppInv
<1> QED
    BY <1>8, <1>9

(* The consumer's release: the array was kept, and not released before.    *)
LEMMA ReleasingOne == CppInv /\ ReleaseDelivered /\ UNCHANGED given => CppInv'
<1> SUFFICES ASSUME CppInv, ReleaseDelivered, UNCHANGED given PROVE CppInv'
    OBVIOUS
<1>1. PICK b \in kept :
        /\ kept' = kept \ {b}
        /\ dropped' = [a \in 1..NVector |-> IF a \in {b} THEN dropped[a] + 1 ELSE dropped[a]]
    BY DEF ReleaseDelivered, Drops
<1>2. UNCHANGED <<given, instances, structs, schemaOwner, got, touched>>
    BY DEF ReleaseDelivered
<1>3. Types'
    BY <1>1, <1>2 DEF CppInv, Types
<1>4. Vectors' /\ Schema' /\ Owners' /\ LiveCallsReadLive'
    BY <1>2 DEF CppInv, Vectors, Schema, Owners, LiveCallsReadLive, LaterExports, HasArrays, Undelivered,
                Exports, Object
<1>5. Releases'
  <2>1. b \in 1..Len(got) /\ Len(got) \in Nat /\ kept \subseteq 1..Len(got)
      BY DEF CppInv, Releases, Types
  <2>2. \A a \in 1..given : a \in 1..NVector
      BY StreamsAssumption DEF CppInv, Types
  <2>3. Waiting' = Waiting
      BY <1>2 DEF Waiting, HasArrays
  <2>4. ASSUME NEW a \in 1..given
        PROVE  dropped'[a] = IF a \in kept' \/ (Waiting /\ a > Len(got)) THEN 0 ELSE 1
    <3>1. dropped[a] = IF a \in kept \/ (Waiting /\ a > Len(got)) THEN 0 ELSE 1
        BY DEF CppInv, Releases
    <3>2. dropped'[a] = IF a = b THEN dropped[a] + 1 ELSE dropped[a]
        BY <1>1, <2>2
    <3>3. a = b => a \in kept /\ ~(a > Len(got))
        BY <2>1
    <3> QED
        BY <1>1, <3>1, <3>2, <3>3
  <2>5. kept' \subseteq 1..Len(got)
      BY <1>1, <2>1
  <2> QED
      BY <1>2, <2>3, <2>4, <2>5 DEF CppInv, Releases
<1> QED
    BY <1>3, <1>4, <1>5 DEF CppInv

---------------------------------------------------------------------------
LEMMA CppInvariant == CppSpec => []CppInv
<1>1. CppInit => CppInv
    BY InitCpp
<1>2. CppInv /\ [CppNext]_cppVars => CppInv'
  <2> SUFFICES ASSUME CppInv, [CppNext]_cppVars PROVE CppInv'
      OBVIOUS
  <2>1. CASE CppNext
      BY <2>1, Exporting, DestroyingObject, Moving, GettingSchema, GettingNext,
         ReleasingStream, ReleasingOne DEF CppNext
  <2>2. CASE UNCHANGED cppVars
      BY <2>2 DEF cppVars, CppInv, Types, Vectors, Schema, Releases, Owners,
                  LiveCallsReadLive, LaterExports, HasArrays, Undelivered, Exports, Object, Waiting
  <2> QED
      BY <2>1, <2>2
<1> QED
    BY <1>1, <1>2, PTL DEF CppSpec

(* VectorsConserved: each array of a C++ stream is in one vector, with the *)
(* consumer, or released once, and they come in the order they were given, *)
(* whatever is exported, moved, called and destroyed in which order.       *)
THEOREM VectorsAreConserved == CppSpec => []VectorsConserved
<1>1. CppInv => VectorsConserved
  <2> SUFFICES ASSUME CppInv PROVE VectorsConserved
      OBVIOUS
  <2>1. DOMAIN instances = 1..Len(instances) /\ DOMAIN got = 1..Len(got)
      BY LenProperties DEF CppInv, Types
  <2>2. \A x \in 1..Len(instances), a \in 1..given : a \in InVector(x) <=> HasArrays(x) /\ a > Len(got)
      BY Holding
  <2>3. given \in Nat /\ Len(got) \in Nat /\ Len(got) <= given
      BY StreamsAssumption, LenProperties DEF CppInv, Types
  <2>4. kept \subseteq 1..Len(got) /\ kept \subseteq 1..given
      BY <2>3 DEF CppInv, Releases
  <2>5. \A a \in 1..given :
          (\E x \in 1..Len(instances) : a \in InVector(x)) <=> Waiting /\ a > Len(got)
      BY <2>2 DEF Waiting
  <2>6. \A a \in 1..given :
          dropped[a] = IF a \in kept \/ \E x \in 1..Len(instances) : a \in InVector(x)
                       THEN 0 ELSE 1
      BY <2>5 DEF CppInv, Releases
  <2>7. \A a \in kept, x \in 1..Len(instances) : a \notin InVector(x)
    <3>1. \A a \in kept : a \in 1..given /\ ~(a > Len(got))
        BY <2>3, <2>4
    <3> QED
        BY <2>2, <3>1
  <2>8. \A x, y \in 1..Len(instances) : InVector(x) \cap InVector(y) \subseteq {0} \/ x = y
    <3> SUFFICES ASSUME NEW x \in 1..Len(instances), NEW y \in 1..Len(instances), x # y
                 PROVE  InVector(x) \cap InVector(y) = {}
        OBVIOUS
    <3>1. ~HasArrays(x) \/ ~HasArrays(y)
        BY DEF CppInv, Vectors
    <3>2. \A z \in 1..Len(instances) : ~HasArrays(z) => InVector(z) = {}
      <4>1. DOMAIN <<>> = {}
          OBVIOUS
      <4> QED
          BY <4>1 DEF HasArrays, InVector
    <3> QED
        BY <3>1, <3>2
  <2>9. got = [k \in 1..Len(got) |-> k]
      BY DEF CppInv, Releases
  <2> QED
      BY <2>1, <2>6, <2>7, <2>8, <2>9 DEF VectorsConserved
<1> QED
    BY <1>1, CppInvariant, PTL

(* LiveCallsReadLive: a callback through a struct that is not released     *)
(* always finds its instance, and the schema, but for get_schema of a      *)
(* later export whose first one is gone.                                   *)
THEOREM CallsReadLive == CppSpec => []LiveCallsReadLive
<1>1. CppInv => LiveCallsReadLive
    BY DEF CppInv
<1> QED
    BY <1>1, CppInvariant, PTL

=============================================================================
