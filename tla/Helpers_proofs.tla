--------------------------- MODULE Helpers_proofs ---------------------------
(***************************************************************************)
(* Proofs about three of the parts that do not call one another, in three  *)
(* sections:                                                               *)
(*                                                                         *)
(*   ChunkSearch: the search ends at the chunk that holds the element, for *)
(*   all offsets.                                                          *)
(*                                                                         *)
(*   Bits and Bitmap: for buffers of any size and whatever runs and rows   *)
(*   are appended, what the operations do to every bit of a buffer, what   *)
(*   they count and unpack, and that a bitmap holds the bits asked for.    *)
(*                                                                         *)
(*   Metadata: for all keys and values and however memory runs out, the    *)
(*   block of a builder is the encoding of the pairs it was given.         *)
(***************************************************************************)
EXTENDS ChunkSearch, Bitmap, Metadata, SequenceLemmas, FiniteSetTheorems, FunctionTheorems, TLAPS

---------------------------------------------------------------------------
(* ChunkSearch                                                             *)

(* The element is in the chunks that are left, of which there is one at    *)
(* least, and one only when the loop has ended.                            *)
SearchInv ==
  /\ offsets \in OffsetArrays
  /\ hi \in DOMAIN offsets
  /\ lo \in Nat /\ n \in Nat /\ n >= 1 /\ lo + n <= hi
  /\ index \in Int /\ offsets[lo] <= index /\ index < offsets[lo + n]
  /\ ~searching => n = 1

LEMMA OffsetFacts ==
  ASSUME NEW array \in OffsetArrays, NEW j \in DOMAIN array, NEW i \in Int, 0 <= i, i <= j
  PROVE  /\ j \in Nat /\ i \in DOMAIN array
         /\ array[i] \in Int /\ array[j] \in Int /\ array[i] <= array[j]
<1>1. IsOffsets(array)
  BY OffsetsAssumption
<1>2. j \in Nat /\ 0..j \subseteq DOMAIN array /\ \A k \in 0..j : array[k] <= array[j]
  BY <1>1 DEF IsOffsets
<1>3. i \in 0..j
  BY <1>2
<1>4. i \in DOMAIN array
  BY <1>2, <1>3
<1> QED
  BY <1>1, <1>2, <1>3, <1>4 DEF IsOffsets

LEMMA SearchStarts == SearchInit => SearchInv
<1> SUFFICES ASSUME SearchInit PROVE SearchInv
  OBVIOUS
<1>1. hi \in Nat
  BY OffsetFacts, OffsetsAssumption DEF SearchInit, IsOffsets
<1>2. lo \in Nat /\ lo < hi
  BY <1>1 DEF SearchInit
<1>3. offsets[lo] \in Int /\ offsets[hi] \in Int
  BY <1>1, <1>2, OffsetFacts DEF SearchInit
<1> QED
  BY <1>1, <1>2, <1>3 DEF SearchInit, SearchInv

(* Half of the chunks that are left is less than all of them, and the half *)
(* that is kept is the one with the element.                               *)
LEMMA SearchSteps == SearchInv /\ [Probe]_searchVars => SearchInv'
<1> SUFFICES ASSUME SearchInv, [Probe]_searchVars PROVE SearchInv'
  OBVIOUS
<1>1. CASE Probe
  <2> DEFINE m == Half(n)
  <2>0. offsets' = offsets /\ index' = index /\ hi' = hi /\ searching' = (n' > 1)
    BY <1>1 DEF Probe
  <2>1. m \in Nat /\ m <= n - m /\ m < n /\ (n >= 2 => m >= 1) /\ (n = 1 => m = 0)
    BY DEF SearchInv, Half
  <2>2. hi \in Nat
    BY OffsetsAssumption DEF SearchInv, IsOffsets
  <2>3. lo + m \in DOMAIN offsets /\ offsets[lo + m] \in Int
    BY <2>1, <2>2, OffsetFacts DEF SearchInv
  <2>4. CASE Beyond(lo + m)
    <3>1. lo' = lo + m /\ n' = n - m /\ searching' = (n' > 1)
      BY <1>1, <2>4 DEF Probe
    <3>2. lo' + n' = lo + n /\ n' >= 1 /\ lo' \in Nat /\ n' \in Nat
      BY <2>1, <3>1 DEF SearchInv
    <3>3. offsets[lo'] <= index
      BY <2>3, <2>4, <3>1 DEF Beyond, SearchInv
    <3>4. index < offsets[lo' + n']
      BY <3>2 DEF SearchInv
    <3>5. ~searching' => n' = 1
      <4>1. ~searching' => ~(n' > 1)
        BY <2>0, Zenon
      <4> QED
        BY <4>1, <3>2
    <3> HIDE DEF m
    <3> QED
      BY <2>0, <3>2, <3>3, <3>4, <3>5 DEF SearchInv
  <2>5. CASE ~Beyond(lo + m)
    <3>1. lo' = lo /\ n' = m /\ searching' = (n' > 1)
      BY <1>1, <2>5 DEF Probe
    <3>2. index < offsets[lo + m]
      BY <2>3, <2>5 DEF Beyond, SearchInv
    <3>3. m # 0
      BY <3>2, <2>3 DEF SearchInv
    <3>4. n' \in Nat /\ n' >= 1 /\ lo' + n' <= hi
      BY <2>1, <2>2, <3>1, <3>3 DEF SearchInv
    <3>5. ~searching' => n' = 1
      <4>1. ~searching' => ~(n' > 1)
        BY <2>0, Zenon
      <4> QED
        BY <4>1, <3>4
    <3> HIDE DEF m
    <3> QED
      BY <2>0, <3>1, <3>2, <3>4, <3>5 DEF SearchInv
  <2> QED
    BY <2>4, <2>5
<1>2. CASE UNCHANGED searchVars
  BY <1>2 DEF SearchInv, searchVars
<1> QED
  BY <1>1, <1>2

(* ArrowResolveChunk64's promise (src/src/nanoarrow/nanoarrow.h:1370), for *)
(* all offsets and all ranges of them: the chunk returned has the element. *)
THEOREM FindsTheChunk == SearchSpec => []ChunkIsFound
<1>1. SearchInv => ChunkIsFound
  <2> SUFFICES ASSUME SearchInv, ~searching PROVE ChunkIsFound
    BY DEF ChunkIsFound
  <2>1. hi \in Nat /\ n = 1
    BY OffsetsAssumption DEF SearchInv, IsOffsets
  <2> QED
    BY <2>1 DEF SearchInv, ChunkIsFound
<1> QED
  BY <1>1, SearchStarts, SearchSteps, PTL DEF SearchSpec

---------------------------------------------------------------------------
(* Bits and Bitmap                                                         *)

(* A buffer of size bytes.                                                 *)
Buffers(size) == [0..(size - 1) -> SUBSET Positions]

LEMMA ByteAndBit ==
  ASSUME NEW i \in Nat
  PROVE  /\ i \div 8 \in Nat /\ i % 8 \in Positions
         /\ i = 8 * (i \div 8) + (i % 8)
  BY DEF Positions

(* A range within one byte, one that ends with its byte, and one over more *)
(* bytes: the bits of the range are what was asked for, and no other bit   *)
(* of the buffer changes (src/src/nanoarrow/nanoarrow.h:1832).             *)
THEOREM SetsTheRange ==
  ASSUME NEW size \in Nat, NEW bytes \in Buffers(size),
         NEW start \in Nat, NEW length \in Nat, start + length <= 8 * size,
         NEW bit \in {0, 1},
         NEW i \in Nat, i < 8 * size
  PROVE  BitGet(BitsSetTo(bytes, start, length, bit), i)
           = IF start <= i /\ i < start + length THEN bit ELSE BitGet(bytes, i)
<1> DEFINE end == start + length
           b == start \div 8
           s == start % 8
           e == end \div 8
           t == end % 8
           k == i \div 8
           p == i % 8
           fill == IF bit # 0 THEN Positions ELSE {}
<1>1. end \in Nat /\ b \in Nat /\ s \in Positions /\ start = 8 * b + s
  BY ByteAndBit
<1>2. e \in Nat /\ t \in Positions /\ end = 8 * e + t
  BY <1>1, ByteAndBit
<1>3. k \in Nat /\ p \in Positions /\ i = 8 * k + p
  BY ByteAndBit
<1>4. k \in DOMAIN bytes /\ k < size
  BY <1>3 DEF Buffers, Positions
<1>a. PrecedingBitmask(s) \subseteq Positions /\ TrailingBitmask(t) \subseteq Positions
      /\ (p \in PrecedingBitmask(s) <=> p < s) /\ (p \in TrailingBitmask(t) <=> p >= t)
  BY <1>3 DEF PrecedingBitmask, TrailingBitmask
<1>b. p \in fill <=> bit = 1
  BY <1>3
<1> DEFINE result == BitsSetTo(bytes, start, length, bit)
<1>c. BitGet(result, i) = (IF p \in result[k] THEN 1 ELSE 0)
      /\ BitGet(bytes, i) = (IF p \in bytes[k] THEN 1 ELSE 0)
  BY DEF BitGet
<1> DEFINE Right == p \in result[k] <=> (IF start <= i /\ i < end THEN bit = 1 ELSE p \in bytes[k])
<1>d. bit \in {0, 1} /\ (Right => BitGet(result, i) = IF start <= i /\ i < end THEN bit ELSE BitGet(bytes, i))
  BY <1>c
<1> HIDE DEF end, b, s, e, t, k, p, fill, result
<1> SUFFICES Right
  BY <1>d DEF result, end
<1>5. CASE length = 0
  <2>1. result = bytes
    BY <1>5 DEF result, BitsSetTo
  <2>2. ~(start <= i /\ i < end)
    BY <1>5 DEF end
  <2> QED
    BY <2>1, <2>2
<1>6. CASE length # 0 /\ e = b
  <2> DEFINE mask == PrecedingBitmask(s) \cup TrailingBitmask(t)
  <2>1. t # 0 /\ s < t
    BY <1>1, <1>2, <1>6 DEF Positions, end
  <2>2. result = [bytes EXCEPT ![b] = Filled(mask, @, fill)]
    BY <1>1, <1>2, <1>6, <2>1 DEF BitsSetTo, result, fill, end, b, s, e, t
  <2>3. result[k] = IF k = b THEN (bytes[k] \cap mask) \cup (fill \ mask) ELSE bytes[k]
    BY <1>4, <2>2 DEF Filled, KeepsOther
  <2>4. start <= i /\ i < end <=> k = b /\ ~(p < s) /\ ~(p >= t)
    BY <1>1, <1>2, <1>3, <1>6 DEF Positions
  <2> QED
    BY <1>a, <1>b, <1>c, <2>3, <2>4
<1>7. CASE length # 0 /\ e # b
  <2>1. e > b
    BY <1>1, <1>2, <1>7 DEF Positions, end
  <2>2. result = [j \in DOMAIN bytes |->
                    CASE j = b -> Filled(PrecedingBitmask(s), bytes[j], fill)
                      [] j > b /\ j < e + 1 - 1 -> fill
                      [] j = e + 1 - 1 /\ t # 0 -> Filled(TrailingBitmask(t), bytes[j], fill)
                      [] OTHER -> bytes[j]]
    <3>1. e + 1 # b + 1
      BY <1>1, <1>2, <1>7
    <3> QED
      BY <3>1, <1>7 DEF BitsSetTo, result, fill, end, b, s, e, t
  <2>3. k < b \/ k = b \/ (k > b /\ k < e) \/ k = e \/ k > e
    BY <1>1, <1>2, <1>3
  <2>4. start <= i <=> k > b \/ (k = b /\ ~(p < s))
    BY <1>1, <1>3 DEF Positions
  <2>5. i < end <=> k < e \/ (k = e /\ ~(p >= t))
    BY <1>2, <1>3 DEF Positions
  <2>6. CASE k = b
    <3>1. result[k] = (bytes[k] \cap PrecedingBitmask(s)) \cup (fill \ PrecedingBitmask(s))
      BY <1>1, <1>2, <1>4, <2>1, <2>2, <2>6 DEF Filled, KeepsOther
    <3>2. k < e /\ ~(k > b)
      BY <1>1, <1>2, <2>1, <2>6
    <3> QED
      BY <1>a, <1>b, <1>c, <2>4, <2>5, <2>6, <3>1, <3>2
  <2>7. CASE k > b /\ k < e
    <3>1. result[k] = fill
      BY <1>1, <1>2, <1>3, <1>4, <2>2, <2>7
    <3> QED
      BY <1>b, <1>c, <2>4, <2>5, <2>7, <3>1
  <2>8. CASE k = e
    <3>1. k > b /\ ~(k < e) /\ k # b
      BY <1>1, <1>2, <2>1, <2>8
    <3>2. t = 0 => result[k] = bytes[k] /\ p >= t
      <4>1. t = 0 => p >= t
        BY <1>3 DEF Positions
      <4>2. t = 0 => result[k] = bytes[k]
        BY <1>1, <1>2, <1>4, <2>2, <2>8, <3>1
      <4> QED
        BY <4>1, <4>2
    <3>3. t # 0 => result[k] = (bytes[k] \cap TrailingBitmask(t)) \cup (fill \ TrailingBitmask(t))
      BY <1>1, <1>2, <1>4, <2>2, <2>8, <3>1 DEF Filled, KeepsOther
    <3> QED
      BY <1>a, <1>b, <1>c, <2>4, <2>5, <2>8, <3>1, <3>2, <3>3
  <2>9. CASE k < b \/ k > e
    <3>1. result[k] = bytes[k]
      BY <1>1, <1>2, <1>3, <1>4, <2>1, <2>2, <2>9
    <3>2. ~(k > b \/ k = b) \/ ~(k < e \/ k = e)
      BY <1>1, <1>2, <1>3, <2>9
    <3> QED
      BY <1>c, <2>4, <2>5, <3>1, <3>2
  <2> QED
    BY <2>3, <2>6, <2>7, <2>8, <2>9
<1> QED
  BY <1>5, <1>6, <1>7

---------------------------------------------------------------------------
(* Buffers and sizes.                                                      *)

LEMMA BytesHave ==
  ASSUME NEW size \in Nat, NEW bytes \in Buffers(size)
  PROVE  DOMAIN bytes = 0..(size - 1) /\ Cardinality(DOMAIN bytes) = size
<1>1. DOMAIN bytes = 0..(size - 1)
  BY DEF Buffers
<1>2. Cardinality(0..(size - 1)) = size
  BY FS_Interval
<1> QED
  BY <1>1, <1>2

(* bytes bytes take bits bits just when they have the room. *)
LEMMA BytesTake ==
  ASSUME NEW bits \in Nat
  PROVE  /\ BytesForBits(bits) \in Nat
         /\ \A bytes \in Nat : BytesForBits(bits) <= bytes <=> bits <= 8 * bytes
<1> DEFINE q == bits \div 8
           r == bits % 8
<1>1. q \in Nat /\ r \in 0..7 /\ bits = 8 * q + r
  BY ByteAndBit DEF Positions
<1>2. BytesForBits(bits) = q + (IF r # 0 THEN 1 ELSE 0)
  BY DEF BytesForBits
<1> HIDE DEF q, r
<1> QED
  BY <1>1, <1>2

LEMMA BitIs ==
  ASSUME NEW size \in Nat, NEW bytes \in Buffers(size), NEW i \in Nat, i < 8 * size
  PROVE  /\ BitGet(bytes, i) \in {0, 1} /\ i \div 8 \in DOMAIN bytes
         /\ BitGet(bytes, i) = 1 <=> i % 8 \in bytes[i \div 8]
<1> DEFINE k == i \div 8
           p == i % 8
<1>1. k \in Nat /\ p \in 0..7 /\ i = 8 * k + p
  BY ByteAndBit DEF Positions
<1>2. BitGet(bytes, i) = IF p \in bytes[k] THEN 1 ELSE 0
  BY DEF BitGet
<1> HIDE DEF k, p
<1>3. k \in 0..(size - 1)
  BY <1>1
<1> QED
  BY <1>2, <1>3, BytesHave DEF k, p

(* The byte and the position of a bit are the only ones. *)
LEMMA ByteIs ==
  ASSUME NEW k \in Nat, NEW p \in Positions
  PROVE  (8 * k + p) \div 8 = k /\ (8 * k + p) % 8 = p /\ 8 * k + p \in Nat
BY DEF Positions

LEMMA SetsType ==
  ASSUME NEW size \in Nat, NEW bytes \in Buffers(size),
         NEW start \in Nat, NEW length \in Nat, NEW bit \in {0, 1}
  PROVE  BitsSetTo(bytes, start, length, bit) \in Buffers(size)
<1> DEFINE fill == IF bit # 0 THEN Positions ELSE {}
           first == PrecedingBitmask(start % 8)
           last == TrailingBitmask((start + length) % 8)
<1>1. fill \subseteq Positions /\ first \subseteq Positions /\ last \subseteq Positions
  BY DEF PrecedingBitmask, TrailingBitmask
<1> HIDE DEF fill, first, last
<1>2. \A byte \in SUBSET Positions, kept \in SUBSET Positions :
        Filled(kept, byte, fill) \in SUBSET Positions
  BY <1>1 DEF Filled, KeepsOther
<1>3. first \cup last \in SUBSET Positions
  BY <1>1
<1> QED
  BY <1>1, <1>2, <1>3 DEF BitsSetTo, Buffers, fill, first, last

(* Setting bits one by one sets those and no other. *)
LEMMA SetsEach ==
  ASSUME NEW size \in Nat, NEW bytes \in Buffers(size), NEW start \in Nat,
         NEW values \in Seq({0, 1})
  PROVE  /\ SetEach(bytes, start, values) \in Buffers(size)
         /\ \A i \in Nat : i < 8 * size =>
              BitGet(SetEach(bytes, start, values), i)
                = IF start <= i /\ i < start + Len(values) THEN values[i - start + 1]
                  ELSE BitGet(bytes, i)
<1> DEFINE result == SetEach(bytes, start, values)
<1>2. result \in Buffers(size)
  BY BytesHave DEF SetEach, Buffers
<1> SUFFICES ASSUME NEW i \in Nat, i < 8 * size
             PROVE  BitGet(result, i)
                      = IF start <= i /\ i < start + Len(values) THEN values[i - start + 1]
                        ELSE BitGet(bytes, i)
  BY <1>2
<1> DEFINE k == i \div 8
           p == i % 8
           l == i - start + 1
<1>1. k \in DOMAIN bytes /\ p \in Positions /\ i = 8 * k + p /\ k \in Nat
  BY BitIs, ByteAndBit
<1>3. Len(values) \in Nat /\ DOMAIN values = 1..Len(values)
      /\ \A x \in 1..Len(values) : values[x] \in {0, 1}
  BY Items
<1>4. p \in result[k] <=> IF 8 * k + p - start + 1 \in DOMAIN values
                         THEN values[8 * k + p - start + 1] # 0 ELSE p \in bytes[k]
  BY <1>1 DEF SetEach
<1>5. BitGet(result, i) = (IF p \in result[k] THEN 1 ELSE 0)
      /\ BitGet(bytes, i) = (IF p \in bytes[k] THEN 1 ELSE 0)
  BY DEF BitGet
<1> HIDE DEF k, p, result
<1>6. 8 * k + p - start + 1 = l /\ (l \in DOMAIN values <=> start <= i /\ i < start + Len(values))
  <2> DEFINE L == Len(values)
  <2>1. L \in Nat /\ DOMAIN values = 1..L
    BY <1>3
  <2>2. k \in Nat /\ p \in 0..7 /\ i = 8 * k + p
    BY <1>1 DEF Positions
  <2> HIDE DEF L
  <2>3. 8 * k + p - start + 1 = l
    BY <2>2
  <2>4. l \in 1..L <=> start <= i /\ i < start + L
    BY <2>1
  <2> QED
    BY <2>1, <2>3, <2>4 DEF L
<1> HIDE DEF l
<1> QED
  BY <1>3, <1>4, <1>5, <1>6 DEF result, l

LEMMA PacksType ==
  ASSUME NEW size \in Nat, NEW bytes \in Buffers(size), NEW k, NEW values
  PROVE  PackBytes(bytes, k, values) \in Buffers(size)
BY BytesHave DEF PackBytes, PackByte, Buffers

(* Packing writes eight values to a byte, as many bytes as they fill. *)
LEMMA Packs ==
  ASSUME NEW size \in Nat, NEW bytes \in Buffers(size), NEW k \in Nat,
         NEW values \in Seq({0, 1})
  PROVE  \A i \in Nat : i < 8 * size =>
           BitGet(PackBytes(bytes, k, values), i)
             = IF 8 * k <= i /\ i < 8 * (k + Len(values) \div 8) THEN values[i - 8 * k + 1]
               ELSE BitGet(bytes, i)
<1> SUFFICES ASSUME NEW i \in Nat, i < 8 * size
             PROVE  BitGet(PackBytes(bytes, k, values), i)
                      = IF 8 * k <= i /\ i < 8 * (k + Len(values) \div 8)
                        THEN values[i - 8 * k + 1] ELSE BitGet(bytes, i)
  OBVIOUS
<1> DEFINE j == i \div 8
           p == i % 8
           result == PackBytes(bytes, k, values)
           L == Len(values)
           full == L \div 8
           eight == SubSeq(values, 8 * (j - k) + 1, 8 * (j - k) + 8)
<1>1. j \in DOMAIN bytes /\ p \in Positions /\ p \in 0..7 /\ i = 8 * j + p /\ j \in Nat
  BY BitIs, ByteAndBit DEF Positions
<1>2. L \in Nat /\ full \in Nat /\ 8 * full <= L /\ \A x \in 1..L : values[x] \in {0, 1}
  BY Items, ByteAndBit DEF Positions
<1>3. result[j] = IF j \in k..(k + full - 1) THEN PackByte(eight) ELSE bytes[j]
  BY <1>1 DEF PackBytes
<1>4. BitGet(result, i) = (IF p \in result[j] THEN 1 ELSE 0)
      /\ BitGet(bytes, i) = (IF p \in bytes[j] THEN 1 ELSE 0)
  BY DEF BitGet
<1>5. p \in PackByte(eight) <=> eight[p + 1] # 0
  BY <1>1 DEF PackByte
<1> HIDE DEF j, p, result, full, L
<1>6. 8 * k <= i /\ i < 8 * (k + full) <=> j \in k..(k + full - 1)
  BY <1>1, <1>2
<1>7. CASE j \in k..(k + full - 1)
  <2> DEFINE a == 8 * (j - k) + 1
             b == 8 * (j - k) + 8
  <2>1. a \in 1..L /\ b \in 1..L /\ p + 1 \in 1..(b - a + 1) /\ a + (p + 1) - 1 = i - 8 * k + 1
        /\ i - 8 * k + 1 \in 1..L
    <3> DEFINE d == j - k
    <3>1. d \in Nat /\ d + 1 <= full /\ p \in 0..7 /\ i = 8 * j + p /\ j = k + d /\ j \in Nat
          /\ L \in Nat /\ 8 * full <= L /\ full \in Nat
      BY <1>1, <1>2, <1>7
    <3>2. a = 8 * d + 1 /\ b = 8 * d + 8
      OBVIOUS
    <3> HIDE DEF d, a, b
    <3>3. i - 8 * k = 8 * d + p
      BY <3>1
    <3> QED
      BY <3>1, <3>2, <3>3
  <2>2. eight = SubSeq(values, a, b)
    OBVIOUS
  <2> HIDE DEF a, b
  <2>3. SubSeq(values, a, b)[p + 1] = values[a + (p + 1) - 1]
    BY <2>1 DEF L
  <2> QED
    BY <1>2, <1>3, <1>4, <1>5, <1>6, <1>7, <2>1, <2>2, <2>3 DEF result, L, full
<1>8. CASE j \notin k..(k + full - 1)
  BY <1>3, <1>4, <1>6, <1>8 DEF result, L, full
<1> QED
  BY <1>7, <1>8

---------------------------------------------------------------------------
(* What a bitmap holds: a buffer of size bytes with the bits that were     *)
(* asked for, or one too small for them after a failed allocation, when no *)
(* bit is promised.                                                        *)
Bitmaps(size) == [bytes : Buffers(size), size_bits : Nat, size_bytes : 0..size]
Asked == {0, 1, AnyBit}
Holds(size, b, w) ==
  /\ b \in Bitmaps(size) /\ w \in Seq(Asked) /\ b.size_bits = Len(w)
  /\ size = 0 \/ Len(w) <= 8 * size
  /\ \A i \in 1..Len(w) :
       w[i] # AnyBit => Len(w) <= 8 * size /\ BitGet(b.bytes, i - 1) = w[i]
Agrees(b, w) == \E size \in Nat : Holds(size, b, w)

LEMMA CapacityIs ==
  ASSUME NEW size \in Nat, NEW b \in Bitmaps(size)
  PROVE  Capacity(b) = size
BY BytesHave DEF Bitmaps, Capacity

LEMMA ReallocKeeps ==
  ASSUME NEW size \in Nat, NEW bytes \in Buffers(size), NEW more \in Nat,
         NEW left \in SUBSET Positions
  PROVE  /\ Realloc(bytes, more, left) \in Buffers(more)
         /\ \A k \in 0..(size - 1) : k < more => Realloc(bytes, more, left)[k] = bytes[k]
BY BytesHave DEF Realloc, Buffers

(* Equal bytes have equal bits. *)
LEMMA SameBit ==
  ASSUME NEW old, NEW new, NEW i \in Nat, new[i \div 8] = old[i \div 8]
  PROVE  BitGet(new, i) = BitGet(old, i)
BY DEF BitGet

(* A reserve makes the room and keeps the bits, whatever malloc left. *)
LEMMA Reserving ==
  ASSUME NEW size \in Nat, NEW b, NEW w, Holds(size, b, w), NEW more \in Nat,
         NEW left \in SUBSET Positions
  PROVE  \E z \in Nat : /\ Holds(z, BitmapReserve(b, more, left), w)
                        /\ Len(w) + more <= 8 * z
<1> DEFINE s == Len(w)
           needed == BytesForBits(s + more)
           grown == Larger(2 * size, needed)
           moved == Realloc(b.bytes, grown, left)
           bytes == [moved EXCEPT ![grown - 1] = {}]
           r == BitmapReserve(b, more, left)
<1>1. s \in Nat /\ b \in Bitmaps(size) /\ b.bytes \in Buffers(size) /\ b.size_bits = s
      /\ Capacity(b) = size
  BY Items, CapacityIs DEF Holds, Bitmaps
<1>2. needed \in Nat /\ \A z \in Nat : needed <= z <=> s + more <= 8 * z
  <2>1. s + more \in Nat
    BY <1>1
  <2> HIDE DEF s
  <2> QED
    BY <2>1, BytesTake
<1>3. r = IF needed <= size THEN b ELSE [b EXCEPT !.bytes = bytes]
  BY <1>1 DEF BitmapReserve
<1>4. CASE needed <= size
  BY <1>2, <1>3, <1>4
<1>5. CASE ~(needed <= size)
  <2>1. grown \in Nat /\ grown >= needed /\ grown > size
    <3>1. grown = IF 2 * size > needed THEN 2 * size ELSE needed
      BY DEF Larger
    <3>2. needed \in Nat /\ ~(needed <= size)
      BY <1>2, <1>5
    <3> HIDE DEF needed, grown
    <3> QED
      BY <3>1, <3>2
  <2>2. moved \in Buffers(grown) /\ \A k \in 0..(size - 1) : k < grown => moved[k] = b.bytes[k]
    BY <1>1, <2>1, ReallocKeeps
  <2> HIDE DEF grown, moved, needed
  <2>3. bytes \in Buffers(grown) /\ \A k \in 0..(size - 1) : bytes[k] = b.bytes[k]
    BY <2>1, <2>2 DEF Buffers
  <2>4. r = [b EXCEPT !.bytes = bytes]
    BY <1>3, <1>5
  <2> HIDE DEF bytes, r
  <2>5. r \in Bitmaps(grown) /\ r.bytes = bytes /\ r.size_bits = s
    BY <1>1, <2>1, <2>3, <2>4 DEF Bitmaps
  <2>6. s <= 8 * grown /\ s + more <= 8 * grown
    BY <1>1, <1>2, <2>1
  <2>7. ASSUME NEW i \in 1..s, w[i] # AnyBit PROVE BitGet(bytes, i - 1) = w[i]
    <3>1. s <= 8 * size /\ BitGet(b.bytes, i - 1) = w[i]
      BY <2>7 DEF Holds
    <3>2. i - 1 \in Nat /\ i - 1 < 8 * size
      BY <1>1, <3>1
    <3>3. (i - 1) \div 8 \in 0..(size - 1)
      BY <1>1, <3>2, BitIs, BytesHave
    <3>4. bytes[(i - 1) \div 8] = b.bytes[(i - 1) \div 8]
      BY <2>3, <3>3
    <3> QED
      BY <3>1, <3>2, <3>4, SameBit
  <2>8. Holds(grown, r, w)
    BY <2>5, <2>6, <2>7 DEF Holds
  <2>9. r = BitmapReserve(b, more, left) /\ Len(w) + more <= 8 * grown
    BY <2>6 DEF r
  <2> QED
    BY <2>1, <2>8, <2>9, Zenon
<1> QED
  BY <1>4, <1>5

(* New bits behind the old ones. *)
LEMMA PieceAppended ==
  ASSUME NEW size \in Nat, NEW b, NEW w, Holds(size, b, w),
         NEW v \in Seq({0, 1}), Len(w) + Len(v) <= 8 * size,
         NEW r \in Bitmaps(size), r.size_bits = Len(w) + Len(v),
         \A i \in Nat : i < Len(w) + Len(v) =>
           BitGet(r.bytes, i) = IF i < Len(w) THEN BitGet(b.bytes, i) ELSE v[i - Len(w) + 1]
  PROVE  Holds(size, r, w \o v)
<1> DEFINE s == Len(w)
           total == Len(v)
<1>1. s \in Nat /\ total \in Nat /\ s + total <= 8 * size
  BY Items DEF Holds
<1>2. w \in Seq(Asked) /\ v \in Seq(Asked)
  BY DEF Holds, Asked
<1>3. w \o v \in Seq(Asked) /\ Len(w \o v) = s + total
  BY <1>2
<1>4. \A i \in 1..s : (w \o v)[i] = w[i]
  BY <1>2
<1>5. \A i \in 1..total : (w \o v)[s + i] = v[i]
  BY <1>2
<1> DEFINE x == w \o v
<1>6. \A i \in Nat : i < s + total =>
        BitGet(r.bytes, i) = IF i < s THEN BitGet(b.bytes, i) ELSE v[i - s + 1]
  OBVIOUS
<1>7. \A i \in 1..s : w[i] # AnyBit => BitGet(b.bytes, i - 1) = w[i]
  BY DEF Holds
<1> HIDE DEF s, total, x
<1>8. ASSUME NEW i \in 1..(s + total), x[i] # AnyBit
      PROVE  BitGet(r.bytes, i - 1) = x[i]
  <2>1. i - 1 \in Nat /\ i - 1 < s + total
    BY <1>1
  <2>2. CASE i \in 1..s
    <3>1. i - 1 < s
      BY <1>1, <2>2
    <3> QED
      BY <1>4, <1>6, <1>7, <1>8, <2>1, <2>2, <3>1 DEF x
  <2>3. CASE i \notin 1..s
    <3>1. i - s \in 1..total /\ s + (i - s) = i /\ ~(i - 1 < s) /\ (i - 1) - s + 1 = i - s
      BY <1>1, <2>3
    <3>2. x[i] = v[i - s]
      BY <1>5, <3>1 DEF x
    <3> QED
      BY <1>6, <2>1, <3>1, <3>2
  <2> QED
    BY <2>2, <2>3
<1>9. r.size_bits = Len(x) /\ Len(x) = s + total /\ x \in Seq(Asked)
  BY <1>3 DEF x, s, total
<1> QED
  BY <1>1, <1>8, <1>9 DEF Holds, x

(* A run of one value at the end. *)
LEMMA RunAppended ==
  ASSUME NEW size \in Nat, NEW b, NEW w, Holds(size, b, w),
         NEW length \in Nat, NEW bit \in {0, 1}, Len(w) + length <= 8 * size
  PROVE  Holds(size, BitmapAppendUnsafe(b, bit, length), w \o Wanted(length, bit))
<1> DEFINE s == Len(w)
           v == Wanted(length, bit)
           bytes == BitsSetTo(b.bytes, s, length, bit)
           r == BitmapAppendUnsafe(b, bit, length)
<1>1. s \in Nat /\ b.bytes \in Buffers(size) /\ b.size_bits = s
  BY Items DEF Holds, Bitmaps
<1>2. v \in Seq({0, 1}) /\ Len(v) = length /\ \A i \in 1..length : v[i] = bit
  BY DEF Wanted
<1>3. bytes \in Buffers(size)
  BY <1>1, SetsType
<1>4. BytesForBits(s + length) \in 0..size
  BY <1>1, BytesTake
<1>5. r = [bytes |-> bytes, size_bits |-> s + length, size_bytes |-> BytesForBits(s + length)]
  BY <1>1 DEF BitmapAppendUnsafe
<1>6. \A i \in Nat : i < 8 * size =>
        BitGet(bytes, i) = IF s <= i /\ i < s + length THEN bit ELSE BitGet(b.bytes, i)
  BY <1>1, SetsTheRange
<1> HIDE DEF bytes, v, r
<1>7. r \in Bitmaps(size) /\ r.bytes = bytes /\ r.size_bits = s + length
  BY <1>1, <1>3, <1>4, <1>5 DEF Bitmaps
<1>8. s + Len(v) <= 8 * size /\ r.size_bits = s + Len(v)
  BY <1>2, <1>7
<1>9. ASSUME NEW i \in Nat, i < s + Len(v)
      PROVE  BitGet(r.bytes, i) = IF i < s THEN BitGet(b.bytes, i) ELSE v[i - s + 1]
  <2> HIDE DEF s
  <2>1. i < s + length /\ i < 8 * size
    BY <1>1, <1>2, <1>9, <1>8
  <2>2. ~(i < s) => s <= i /\ i - s + 1 \in 1..length
    BY <1>1, <2>1
  <2>3. i < s => ~(s <= i)
    BY <1>1
  <2> QED
    BY <1>2, <1>6, <1>7, <2>1, <2>2, <2>3
<1> QED
  BY <1>2, <1>7, <1>8, <1>9, PieceAppended DEF r, v

(* A piece of a sequence. *)
LEMMA Piece ==
  ASSUME NEW A, NEW s \in Seq(A), NEW a \in Nat, NEW b \in Nat, a <= b, b <= Len(s)
  PROVE  /\ SubSeq(s, a + 1, b) \in Seq(A) /\ Len(SubSeq(s, a + 1, b)) = b - a
         /\ \A x \in 1..(b - a) : SubSeq(s, a + 1, b)[x] = s[a + x]
<1> DEFINE l == Len(s)
           t == SubSeq(s, a + 1, b)
<1>1. l \in Nat /\ a \in Nat /\ b \in Nat /\ a <= b /\ b <= l
  BY Items
<1>2. t \in Seq(A)
  <2>1. \A x \in (a + 1)..b : s[x] \in A
    BY Items, <1>1
  <2> QED
    BY <1>1
<1>3. Len(t) = b - a
  <2> HIDE DEF l
  <2>1. Len(t) = IF a + 1 <= b THEN b - (a + 1) + 1 ELSE 0
    BY <1>1
  <2> QED
    BY <1>1, <2>1
<1>4. ASSUME NEW x \in 1..(b - a) PROVE t[x] = s[a + x]
  <2>1. x \in 1..(b - (a + 1) + 1) /\ (a + 1) + x - 1 = a + x
    BY <1>1
  <2>2. t[x] = s[(a + 1) + x - 1]
    BY <1>1, <2>1
  <2> QED
    BY <2>1, <2>2
<1> QED
  BY <1>2, <1>3, <1>4

(* Rounding up fills the byte, and no more than the byte. *)
LEMMA Rounding ==
  ASSUME NEW bits \in Nat
  PROVE  \E k \in Nat : /\ RoundUpToMultipleOf8(bits) = 8 * k /\ (8 * k) \div 8 = k
                        /\ 8 * k - bits \in 0..7
<1> DEFINE q == (bits + 7) \div 8
           r == (bits + 7) % 8
<1>1. q \in Nat /\ r \in 0..7 /\ bits + 7 = 8 * q + r
  BY ByteAndBit DEF Positions
<1>2. RoundUpToMultipleOf8(bits) = 8 * q
  BY DEF RoundUpToMultipleOf8
<1> HIDE DEF q, r
<1>3. (8 * q + 0) \div 8 = q
  BY <1>1, ByteIs DEF Positions
<1>4. 8 * q + 0 = 8 * q /\ 8 * q - bits \in 0..7
  BY <1>1
<1> QED
  BY <1>1, <1>2, <1>3, <1>4

(* Rows: the byte that was begun, whole bytes, and the begin of another.   *)
(* Wherever the rows end, the bits before them stay, and what lay behind   *)
(* the values shows in no bit that was asked for.                          *)
LEMMA RowsAppended ==
  ASSUME NEW size \in Nat, NEW b, NEW w, Holds(size, b, w),
         NEW values \in Seq({0, 1}), NEW beyond \in {0, 1}, Len(w) + Len(values) <= 8 * size
  PROVE  Holds(size, AppendRowsUnsafe(b, values, beyond), w \o values)
<1> DEFINE s == Len(w)
           total == Len(values)
<1>1. s \in Nat /\ total \in Nat /\ s + total <= 8 * size /\ b.bytes \in Buffers(size) /\ b.size_bits = s
      /\ \A x \in 1..total : values[x] \in {0, 1}
  BY Items DEF Holds, Bitmaps
<1>2. CASE values = <<>>
  <2>1. AppendRowsUnsafe(b, values, beyond) = b
    BY <1>2 DEF AppendRowsUnsafe
  <2>2. w \o values = w
    BY <1>2 DEF Holds
  <2> QED
    BY <2>1, <2>2
<1>3. CASE values # <<>>
  <2> DEFINE first == RoundUpToMultipleOf8(s) - s
             k == (s + first) \div 8
             padded == [i \in 1..first |-> IF i <= total THEN values[i] ELSE beyond]
             partial == SetEach(b.bytes, s, padded)
             others == IF first >= total THEN <<>> ELSE SubSeq(values, first + 1, total)
             m == Len(others)
             full == m \div 8
             packed == PackBytes(partial, k, others)
             rest == SubSeq(others, 8 * full + 1, m)
             l == Len(rest)
             j == k + full
             cleared == [packed EXCEPT ![j] = {}]
             bytes == IF rest = <<>> THEN packed ELSE SetEach(cleared, 8 * j, rest)
             used == j + (IF rest = <<>> THEN 0 ELSE 1)
             r == AppendRowsUnsafe(b, values, beyond)
  <2>2. r = [bytes |-> bytes, size_bits |-> s + total, size_bytes |-> used]
    BY <1>1, <1>3 DEF AppendRowsUnsafe
  <2>3. first \in 0..7 /\ first \in Nat /\ s + first = 8 * k /\ k \in Nat /\ k <= size
    <3>1. PICK c \in Nat : RoundUpToMultipleOf8(s) = 8 * c /\ (8 * c) \div 8 = c /\ 8 * c - s \in 0..7
      BY <1>1, Rounding
    <3>2. first = 8 * c - s /\ s + first = 8 * c
      BY <1>1, <3>1
    <3>3. total # 0
      BY <1>3
    <3>4. k = c
      BY <3>1, <3>2
    <3> HIDE DEF total, s, first, k
    <3> QED
      BY <1>1, <3>1, <3>2, <3>3, <3>4
  <2> HIDE DEF first, k
  <2>4. padded \in Seq({0, 1}) /\ Len(padded) = first
        /\ \A x \in 1..first : x <= total => padded[x] = values[x]
    BY <1>1, <2>3
  <2> HIDE DEF padded
  <2>5. /\ partial \in Buffers(size)
        /\ \A i \in Nat : i < 8 * size =>
             BitGet(partial, i) = IF s <= i /\ i < s + first THEN padded[i - s + 1]
                                  ELSE BitGet(b.bytes, i)
    <3>1. b.bytes \in Buffers(size) /\ s \in Nat /\ padded \in Seq({0, 1})
      BY <1>1, <2>4
    <3>2. partial \in Buffers(size)
      BY <3>1, SetsEach, Zenon
    <3>3. \A i \in Nat : i < 8 * size =>
            BitGet(partial, i) = IF s <= i /\ i < s + Len(padded) THEN padded[i - s + 1]
                                 ELSE BitGet(b.bytes, i)
      BY <3>1, SetsEach, Zenon
    <3> QED
      BY <2>4, <3>2, <3>3, Zenon
  <2>6. /\ others \in Seq({0, 1}) /\ m \in Nat
        /\ m = IF first >= total THEN 0 ELSE total - first
        /\ \A x \in 1..m : others[x] = values[first + x]
    <3>1. CASE first >= total
      BY <3>1
    <3>2. CASE ~(first >= total)
      <4>1. first <= total /\ total <= Len(values)
        BY <1>1, <2>3, <3>2
      <4> QED
        BY <1>1, <2>3, <3>2, <4>1, Piece
    <3> QED
      BY <3>1, <3>2
  <2> HIDE DEF partial, others
  <2>7. full \in Nat /\ 8 * full <= m /\ m < 8 * full + 8 /\ m - 8 * full \in Nat
    <3> DEFINE over == m % 8
    <3>1. m \in Nat /\ full \in Nat /\ over \in 0..7 /\ m = 8 * full + over
      BY <2>6, ByteAndBit DEF Positions
    <3> HIDE DEF m, full, over
    <3> QED
      BY <3>1
  <2>8. /\ packed \in Buffers(size)
        /\ \A i \in Nat : i < 8 * size =>
             BitGet(packed, i) = IF 8 * k <= i /\ i < 8 * j THEN others[i - 8 * k + 1]
                                 ELSE BitGet(partial, i)
    <3>1. packed \in Buffers(size)
      BY <2>5, PacksType
    <3>2. 8 * j = 8 * (k + full)
      OBVIOUS
    <3> HIDE DEF full, j
    <3>3. \A i \in Nat : i < 8 * size =>
            BitGet(packed, i) = IF 8 * k <= i /\ i < 8 * (k + full) THEN others[i - 8 * k + 1]
                                ELSE BitGet(partial, i)
      <4>1. partial \in Buffers(size) /\ k \in Nat /\ others \in Seq({0, 1})
        BY <2>3, <2>5, <2>6
      <4> QED
        BY <4>1, Packs, Zenon DEF full
    <3> QED
      BY <3>1, <3>2, <3>3, Zenon
  <2>9. /\ rest \in Seq({0, 1}) /\ l = m - 8 * full /\ l \in Nat /\ (rest = <<>> <=> l = 0)
        /\ \A x \in 1..l : rest[x] = others[8 * full + x]
    <3>1. 8 * full \in Nat /\ m \in Nat /\ 8 * full <= m /\ m <= Len(others)
      BY <2>6, <2>7
    <3> DEFINE f == 8 * full
    <3>2. f \in Nat /\ f <= m
      BY <3>1
    <3> HIDE DEF f
    <3>3. /\ SubSeq(others, f + 1, m) \in Seq({0, 1}) /\ Len(SubSeq(others, f + 1, m)) = m - f
          /\ \A x \in 1..(m - f) : SubSeq(others, f + 1, m)[x] = others[f + x]
      BY <2>6, <3>1, <3>2, Piece
    <3>4. rest = SubSeq(others, f + 1, m) /\ m - f \in Nat /\ m - f = m - 8 * full
          /\ \A x \in 1..l : f + x = 8 * full + x
      BY <3>1, <3>2 DEF f
    <3>5. rest \in Seq({0, 1}) /\ l = m - f
      BY <3>3, <3>4
    <3>6. \A x \in 1..l : rest[x] = others[f + x]
      BY <3>3, <3>4, <3>5
    <3>7. rest = <<>> <=> l = 0
      <4> HIDE DEF rest
      <4> QED
        BY <3>5
    <3> HIDE DEF m, full, rest, l
    <3> QED
      BY <3>4, <3>5, <3>6, <3>7 DEF f
  <2> HIDE DEF packed, rest, l, full, m, total, s
  <2>10. j \in Nat /\ 8 * j = 8 * k + 8 * full /\ used \in 0..size
         /\ (rest # <<>> => j < size /\ 8 * j + l <= 8 * size)
    BY <1>1, <2>3, <2>6, <2>7, <2>9
  <2>11. (first >= total => 8 * j = s + first /\ l = 0 /\ 8 * j >= s + total) /\ (~(first >= total) => 8 * j + l = s + total)
    BY <1>1, <2>3, <2>6, <2>7, <2>9
  <2> HIDE DEF j, used
  <2>12. cleared \in Buffers(size) /\ \A i \in Nat : i < 8 * j => BitGet(cleared, i) = BitGet(packed, i)
    <3>1. cleared \in Buffers(size)
      BY <2>8 DEF Buffers
    <3>2. ASSUME NEW i \in Nat, i < 8 * j PROVE BitGet(cleared, i) = BitGet(packed, i)
      <4>1. i \div 8 \in Nat /\ i % 8 \in 0..7 /\ i = 8 * (i \div 8) + (i % 8)
        BY ByteAndBit DEF Positions
      <4> DEFINE q == i \div 8
                 p == i % 8
      <4>2. q # j
        <5>1. q \in Nat /\ p \in 0..7 /\ i = 8 * q + p
          BY <4>1
        <5> HIDE DEF q, p
        <5> QED
          BY <2>10, <3>2, <5>1
      <4>3. cleared[q] = packed[q]
        BY <2>8, <4>2 DEF Buffers
      <4> QED
        BY <4>3, SameBit
    <3> QED
      BY <3>1, <3>2
  <2> HIDE DEF cleared
  <2>13. /\ bytes \in Buffers(size)
         /\ \A i \in Nat : i < 8 * j /\ i < 8 * size => BitGet(bytes, i) = BitGet(packed, i)
         /\ \A i \in Nat : 8 * j <= i /\ i < 8 * j + l => BitGet(bytes, i) = rest[i - 8 * j + 1]
    <3>1. CASE rest = <<>>
      <4>1. l = 0 /\ bytes = packed
        BY <2>9, <3>1
      <4> QED
        BY <2>8, <2>10, <4>1
    <3>2. CASE rest # <<>>
      <4>1. bytes = SetEach(cleared, 8 * j, rest) /\ 8 * j \in Nat
            /\ cleared \in Buffers(size) /\ rest \in Seq({0, 1})
        BY <2>9, <2>10, <2>12, <3>2
      <4>2. bytes \in Buffers(size)
        BY <4>1, SetsEach
      <4>3. \A i \in Nat : i < 8 * size =>
              BitGet(bytes, i) = IF 8 * j <= i /\ i < 8 * j + l THEN rest[i - 8 * j + 1]
                                 ELSE BitGet(cleared, i)
        <5>1. \A i \in Nat : i < 8 * size =>
                BitGet(SetEach(cleared, 8 * j, rest), i)
                  = IF 8 * j <= i /\ i < 8 * j + Len(rest) THEN rest[i - 8 * j + 1]
                    ELSE BitGet(cleared, i)
          BY <4>1, SetsEach, Zenon
        <5> QED
          BY <4>1, <5>1, Zenon DEF l
      <4> HIDE DEF bytes
      <4>4. \A i \in Nat : i < 8 * j => ~(8 * j <= i)
        BY <2>10
      <4>5. \A i \in Nat : i < 8 * j + l => i < 8 * size
        BY <2>9, <2>10, <3>2
      <4> QED
        BY <2>12, <4>2, <4>3, <4>4, <4>5
    <3> QED
      BY <3>1, <3>2
  <2> HIDE DEF bytes, r
  <2>14. r \in Bitmaps(size) /\ r.bytes = bytes /\ r.size_bits = s + total
    BY <1>1, <2>2, <2>10, <2>13 DEF Bitmaps
  <2>15. ASSUME NEW i \in Nat, i < s + total
         PROVE  BitGet(r.bytes, i) = IF i < s THEN BitGet(b.bytes, i) ELSE values[i - s + 1]
    <3>1. i < 8 * size
      BY <1>1, <2>15
    <3>2. CASE i < s
      <4>1. i < 8 * j /\ ~(8 * k <= i) /\ ~(s <= i)
        BY <1>1, <2>3, <2>7, <2>10, <3>2
      <4> QED
        BY <2>5, <2>8, <2>13, <2>14, <3>1, <3>2, <4>1
    <3>3. CASE s <= i /\ i < s + first
      <4>1. i < 8 * j /\ ~(8 * k <= i) /\ ~(i < s) /\ i - s + 1 \in 1..first /\ i - s + 1 <= total
        BY <1>1, <2>3, <2>7, <2>10, <2>15, <3>3
      <4> QED
        BY <2>4, <2>5, <2>8, <2>13, <2>14, <3>1, <3>3, <4>1
    <3>4. CASE s + first <= i /\ i < 8 * j
      <4>1. 8 * k <= i /\ ~(i < s) /\ i - 8 * k + 1 \in 1..m /\ first + (i - 8 * k + 1) = i - s + 1
        <5>1. 8 * k <= i /\ ~(i < s) /\ i - 8 * k + 1 = i - s - first + 1
          BY <1>1, <2>3, <3>4
        <5>2. i - 8 * k + 1 >= 1 /\ i - 8 * k + 1 <= 8 * full
          BY <1>1, <2>3, <2>7, <2>10, <3>4
        <5> QED
          BY <1>1, <2>3, <2>6, <2>7, <5>1, <5>2
      <4> QED
        BY <2>6, <2>8, <2>13, <2>14, <3>1, <3>4, <4>1
    <3>5. CASE 8 * j <= i
      <4>1. ~(i < s) /\ i < 8 * j + l /\ i - 8 * j + 1 \in 1..l
            /\ 8 * full + (i - 8 * j + 1) \in 1..m /\ first + (8 * full + (i - 8 * j + 1)) = i - s + 1
        BY <1>1, <2>3, <2>6, <2>7, <2>9, <2>10, <2>11, <2>15, <3>5
      <4> QED
        BY <2>6, <2>9, <2>13, <2>14, <3>5, <4>1
    <3>6. i < s \/ (s <= i /\ i < s + first) \/ (s + first <= i /\ i < 8 * j) \/ 8 * j <= i
      BY <1>1, <2>3, <2>10
    <3> QED
      BY <3>2, <3>3, <3>4, <3>5, <3>6
  <2> QED
    BY <1>1, <2>14, <2>15, PieceAppended DEF r, s, total
<1> QED
  BY <1>2, <1>3

(* A new size: the bits up to it stay, those beyond the old one are any,   *)
(* also where the buffer moves or shrinks.                                 *)
LEMMA Resized ==
  ASSUME NEW size \in Nat, NEW b, NEW w, Holds(size, b, w), NEW total \in Nat,
         NEW shrink \in BOOLEAN, NEW left \in SUBSET Positions
  PROVE  Agrees(BitmapResize(b, total, shrink, left),
                IF total <= Len(w) THEN SubSeq(w, 1, total) ELSE w \o Wanted(total - Len(w), AnyBit))
<1> DEFINE s == Len(w)
           needed == BytesForBits(total)
           moved == needed > size \/ (shrink /\ needed < size)
           z == IF moved THEN needed ELSE size
           bytes == IF moved THEN Realloc(b.bytes, needed, left) ELSE b.bytes
           r == BitmapResize(b, total, shrink, left)
           v == IF total <= s THEN SubSeq(w, 1, total) ELSE w \o Wanted(total - s, AnyBit)
<1>1. s \in Nat /\ b \in Bitmaps(size) /\ b.bytes \in Buffers(size) /\ b.size_bits = s
      /\ Capacity(b) = size /\ w \in Seq(Asked)
  BY Items, CapacityIs DEF Holds, Bitmaps
<1>2. needed \in Nat /\ \A x \in Nat : needed <= x <=> total <= 8 * x
  BY BytesTake
<1>3. r = [bytes |-> bytes, size_bits |-> total, size_bytes |-> needed]
  BY <1>1 DEF BitmapResize
<1>4. Realloc(b.bytes, needed, left) \in Buffers(needed)
      /\ \A k \in 0..(size - 1) : k < needed => Realloc(b.bytes, needed, left)[k] = b.bytes[k]
  BY <1>1, <1>2, ReallocKeeps
<1> HIDE DEF needed
<1>5. z \in Nat /\ needed <= z /\ total <= 8 * z
  BY <1>2
<1>6. bytes \in Buffers(z) /\ \A k \in 0..(size - 1) : k < z => bytes[k] = b.bytes[k]
  BY <1>1, <1>4
<1> HIDE DEF z, bytes, r
<1>7. r \in Bitmaps(z) /\ r.bytes = bytes /\ r.size_bits = total
  BY <1>2, <1>3, <1>5, <1>6 DEF Bitmaps
<1>8. v \in Seq(Asked) /\ Len(v) = total
      /\ \A i \in 1..total : v[i] # AnyBit => i \in 1..s /\ v[i] = w[i]
  <2>1. CASE total <= s
    <3>1. v = SubSeq(w, 0 + 1, total) /\ total - 0 = total
      BY <2>1
    <3>2. SubSeq(w, 0 + 1, total) \in Seq(Asked) /\ Len(SubSeq(w, 0 + 1, total)) = total - 0
          /\ \A x \in 1..(total - 0) : SubSeq(w, 0 + 1, total)[x] = w[0 + x]
      BY <1>1, <2>1, Piece
    <3> HIDE DEF v, s
    <3> QED
      BY <1>1, <2>1, <3>1, <3>2
  <2>2. CASE ~(total <= s)
    <3> DEFINE d == total - s
               u == Wanted(d, AnyBit)
    <3>1. d \in Nat /\ total = s + d /\ v = w \o u
      BY <1>1, <2>2
    <3> HIDE DEF d
    <3>2. u \in Seq(Asked) /\ Len(u) = d /\ \A i \in 1..d : u[i] = AnyBit
      BY <3>1 DEF Wanted, Asked
    <3> HIDE DEF u
    <3>3. w \o u \in Seq(Asked) /\ Len(w \o u) = s + d
      BY <1>1, <3>2
    <3>4. \A i \in 1..s : (w \o u)[i] = w[i]
      BY <1>1, <3>2
    <3>5. \A i \in 1..d : (w \o u)[s + i] = u[i]
      BY <1>1, <3>2
    <3> HIDE DEF v, s
    <3>6. ASSUME NEW i \in 1..total, v[i] # AnyBit PROVE i \in 1..s /\ v[i] = w[i]
      <4>1. CASE i \in 1..s
        BY <3>1, <3>4, <4>1
      <4>2. CASE i \notin 1..s
        <5>1. i - s \in 1..d /\ s + (i - s) = i
          BY <1>1, <3>1, <4>2
        <5> QED
          BY <3>1, <3>2, <3>5, <3>6, <5>1
      <4> QED
        BY <4>1, <4>2
    <3> QED
      BY <3>1, <3>3, <3>6
  <2> QED
    BY <2>1, <2>2
<1> HIDE DEF v
<1>9. ASSUME NEW i \in 1..Len(v), v[i] # AnyBit PROVE BitGet(bytes, i - 1) = v[i]
  <2>1. i \in 1..total /\ i \in 1..s /\ v[i] = w[i]
    BY <1>8, <1>9
  <2>2. s <= 8 * size /\ BitGet(b.bytes, i - 1) = w[i]
    BY <1>9, <2>1 DEF Holds
  <2> HIDE DEF s
  <2>3. i - 1 \in Nat /\ i - 1 < 8 * size /\ i - 1 < 8 * z
    BY <1>1, <1>5, <2>1, <2>2
  <2> DEFINE k == (i - 1) \div 8
  <2>4. k \in 0..(size - 1) /\ k \in 0..(z - 1)
    <3> DEFINE p == (i - 1) % 8
    <3>1. k \in Nat /\ p \in 0..7 /\ i - 1 = 8 * k + p
      BY <2>3, ByteAndBit DEF Positions
    <3> HIDE DEF k, p
    <3> QED
      BY <1>5, <2>3, <3>1
  <2> HIDE DEF k
  <2>5. bytes[k] = b.bytes[k]
    BY <1>5, <1>6, <2>4
  <2> QED
    BY <2>1, <2>2, <2>3, <2>5, SameBit DEF k
<1>10. Holds(z, r, v)
  BY <1>5, <1>7, <1>8, <1>9 DEF Holds
<1> QED
  BY <1>5, <1>10 DEF Agrees, r, v

(* A range set to one value: those bits, and no other. *)
InRange(b, start, length, bit) == [b EXCEPT !.bytes = BitsSetTo(@, start, length, bit)]
Overwritten(w, start, length, bit) ==
  [i \in 1..Len(w) |-> IF i \in (start + 1)..(start + length) THEN bit ELSE w[i]]

LEMMA RangeSet ==
  ASSUME NEW size \in Nat, NEW b, NEW w, Holds(size, b, w), size # 0,
         NEW start \in Nat, NEW length \in Nat, start + length <= Len(w), NEW bit \in {0, 1}
  PROVE  Holds(size, InRange(b, start, length, bit), Overwritten(w, start, length, bit))
<1> DEFINE s == Len(w)
           bytes == BitsSetTo(b.bytes, start, length, bit)
           r == InRange(b, start, length, bit)
           v == Overwritten(w, start, length, bit)
<1>1. s \in Nat /\ s <= 8 * size /\ start + length <= 8 * size /\ b \in Bitmaps(size)
      /\ b.bytes \in Buffers(size) /\ b.size_bits = s /\ \A i \in 1..s : w[i] \in Asked
  BY Items DEF Holds, Bitmaps
<1>2. bytes \in Buffers(size)
  BY <1>1, SetsType
<1>3. \A i \in Nat : i < 8 * size =>
        BitGet(bytes, i) = IF start <= i /\ i < start + length THEN bit ELSE BitGet(b.bytes, i)
  BY <1>1, SetsTheRange
<1>4. r = [b EXCEPT !.bytes = bytes]
  BY DEF InRange
<1> HIDE DEF bytes, r
<1>5. r \in Bitmaps(size) /\ r.bytes = bytes /\ r.size_bits = s
  BY <1>1, <1>2, <1>4 DEF Bitmaps
<1>6. v \in Seq(Asked) /\ Len(v) = s
  BY <1>1 DEF Asked, Overwritten
<1>7. \A i \in 1..s : v[i] = IF i \in (start + 1)..(start + length) THEN bit ELSE w[i]
  BY DEF Overwritten
<1>8. \A i \in 1..s : w[i] # AnyBit => BitGet(b.bytes, i - 1) = w[i]
  BY DEF Holds
<1> HIDE DEF s, v
<1>9. ASSUME NEW i \in 1..s, v[i] # AnyBit PROVE BitGet(bytes, i - 1) = v[i]
  <2>1. i - 1 \in Nat /\ i - 1 < 8 * size
        /\ (i \in (start + 1)..(start + length) <=> start <= i - 1 /\ i - 1 < start + length)
    BY <1>1
  <2> QED
    BY <1>3, <1>7, <1>8, <1>9, <2>1
<1> QED
  BY <1>1, <1>5, <1>6, <1>9 DEF Holds, s, r, v

(* No bit is promised of a bitmap whose allocation failed. *)
LEMMA NothingHeld ==
  ASSUME NEW b, NEW size \in Nat, b \in Bitmaps(size), NEW total \in Nat, b.size_bits = total
  PROVE  Holds(0, Lost(b), Wanted(total, AnyBit))
<1>1. Lost(b) \in Bitmaps(0) /\ Lost(b).size_bits = total
  <2>1. NoBytes \in Buffers(0)
    BY DEF NoBytes, Buffers
  <2> QED
    BY <2>1 DEF Lost, Bitmaps
<1>2. Wanted(total, AnyBit) \in Seq(Asked) /\ Len(Wanted(total, AnyBit)) = total
      /\ \A i \in 1..total : Wanted(total, AnyBit)[i] = AnyBit
  BY DEF Wanted, Asked
<1> QED
  BY <1>1, <1>2 DEF Holds

LEMMA NothingYet == Holds(0, EmptyBitmap, <<>>)
<1>1. EmptyBitmap \in Bitmaps(0) /\ EmptyBitmap.size_bits = 0
  BY DEF EmptyBitmap, NoBytes, Bitmaps, Buffers
<1> QED
  BY <1>1 DEF Holds

---------------------------------------------------------------------------
(* The bitmap agrees with what was asked for, whatever the calls.          *)

BitsHeld == Agrees(bitmap, content)

LEMMA HeldFirst == BitmapInit => BitsHeld
BY NothingYet DEF BitmapInit, BitsHeld, Agrees

LEMMA HeldNext == BitsHeld /\ [BitmapNext]_bitmapVars => BitsHeld'
<1> SUFFICES ASSUME BitsHeld, [BitmapNext]_bitmapVars PROVE BitsHeld'
  OBVIOUS
<1>1. PICK size \in Nat : Holds(size, bitmap, content)
  BY DEF BitsHeld, Agrees
<1>2. bitmap \in Bitmaps(size) /\ bitmap.size_bits = Len(content) /\ Len(content) \in Nat
  BY <1>1, Items DEF Holds
<1>3. CASE AppendRun
  <2>1. PICK length \in Runs, bit \in {0, 1}, left \in Leftovers :
          /\ bitmap' = BitmapAppendUnsafe(BitmapReserve(bitmap, length, left), bit, length)
          /\ content' = content \o Wanted(length, bit)
    BY <1>3 DEF AppendRun
  <2>2. length \in Nat /\ left \in SUBSET Positions
    BY BitsAssumption
  <2>3. PICK z \in Nat : /\ Holds(z, BitmapReserve(bitmap, length, left), content)
                         /\ Len(content) + length <= 8 * z
    BY <1>1, <2>2, Reserving
  <2> QED
    BY <2>1, <2>2, <2>3, RunAppended DEF BitsHeld, Agrees
<1>4. CASE AllocationFails
  <2>1. bitmap' = Lost(bitmap) /\ content' = Wanted(Len(content), AnyBit)
    BY <1>2, <1>4 DEF AllocationFails
  <2> QED
    BY <1>2, <2>1, NothingHeld DEF BitsHeld, Agrees
<1>5. CASE AppendRows
  <2>1. PICK values \in BitRows, beyond \in {0, 1}, left \in Leftovers :
          /\ bitmap' = AppendRowsUnsafe(BitmapReserve(bitmap, Len(values), left), values, beyond)
          /\ content' = content \o values
    BY <1>5 DEF AppendRows
  <2>2. values \in Seq({0, 1}) /\ Len(values) \in Nat /\ left \in SUBSET Positions
    BY BitsAssumption
  <2>3. PICK z \in Nat : /\ Holds(z, BitmapReserve(bitmap, Len(values), left), content)
                         /\ Len(content) + Len(values) <= 8 * z
    BY <1>1, <2>2, Reserving
  <2>4. Holds(z, AppendRowsUnsafe(BitmapReserve(bitmap, Len(values), left), values, beyond),
              content \o values)
    BY <2>2, <2>3, RowsAppended
  <2> QED
    BY <2>1, <2>4 DEF BitsHeld, Agrees
<1>6. CASE Resize
  <2>1. PICK total \in Runs, shrink \in BOOLEAN, left \in Leftovers :
          /\ bitmap' = BitmapResize(bitmap, total, shrink, left)
          /\ content' = IF total <= Len(content) THEN SubSeq(content, 1, total)
                        ELSE content \o Wanted(total - Len(content), AnyBit)
    BY <1>6 DEF Resize
  <2>2. total \in Nat /\ left \in SUBSET Positions
    BY BitsAssumption
  <2> QED
    BY <1>1, <2>1, <2>2, Resized DEF BitsHeld
<1>7. CASE SetRange
  <2>1. PICK start \in 0..bitmap.size_bits, length \in Runs, bit \in {0, 1} :
          /\ DOMAIN bitmap.bytes # {} /\ start + length <= bitmap.size_bits
          /\ bitmap' = [bitmap EXCEPT !.bytes = BitsSetTo(@, start, length, bit)]
          /\ content' = [i \in 1..Len(content) |->
                           IF i \in (start + 1)..(start + length) THEN bit ELSE content[i]]
    BY <1>7 DEF SetRange
  <2>2. start \in Nat /\ length \in Nat /\ start + length <= Len(content)
    BY <1>2, <2>1, BitsAssumption
  <2>3. size # 0
    BY <1>2, <2>1, BytesHave DEF Bitmaps
  <2>4. bitmap' = InRange(bitmap, start, length, bit)
        /\ content' = Overwritten(content, start, length, bit)
    BY <2>1 DEF InRange, Overwritten
  <2>5. Holds(size, InRange(bitmap, start, length, bit), Overwritten(content, start, length, bit))
    BY <1>1, <2>2, <2>3, RangeSet
  <2> QED
    BY <2>4, <2>5 DEF BitsHeld, Agrees
<1>8. CASE ResetBitmap
  BY <1>8, NothingYet DEF ResetBitmap, BitsHeld, Agrees
<1>9. CASE UNCHANGED bitmapVars
  BY <1>1, <1>9 DEF bitmapVars, BitsHeld, Agrees
<1> QED
  BY <1>3, <1>4, <1>5, <1>6, <1>7, <1>8, <1>9 DEF BitmapNext

---------------------------------------------------------------------------
(* Reading a range.                                                        *)

Bit == {0, 1}
(* A sequence that is the d bits from at on. *)
ReadsBits(e, bytes, at, d) ==
  e \in Seq(Bit) /\ Len(e) = d /\ \A total \in 1..d : e[total] = BitGet(bytes, at + total - 1)

(* The bit at a byte and a position. *)
LEMMA BitAt ==
  ASSUME NEW bytes, NEW k \in Nat, NEW p \in Positions
  PROVE  BitGet(bytes, 8 * k + p) = IF p \in bytes[k] THEN 1 ELSE 0
BY ByteIs DEF BitGet

LEMMA UnpacksByte ==
  ASSUME NEW bytes, NEW k \in Nat, NEW from \in Nat, NEW to \in Nat, from <= to, to <= 8
  PROVE  ReadsBits(UnpackByte(bytes[k], from, to), bytes, 8 * k + from, to - from)
<1> DEFINE d == to - from
           e == UnpackByte(bytes[k], from, to)
<1>1. d \in Nat /\ d + from = to
  OBVIOUS
<1>2. e = [total \in 1..d |-> IF (from + total - 1) \in bytes[k] THEN 1 ELSE 0]
  BY DEF UnpackByte
<1> HIDE DEF d, e
<1>3. e \in Seq(Bit) /\ Len(e) = d
  BY <1>1, <1>2 DEF Bit
<1>4. ASSUME NEW total \in 1..d PROVE e[total] = BitGet(bytes, 8 * k + from + total - 1)
  <2> DEFINE p == from + total - 1
  <2>1. e[total] = IF p \in bytes[k] THEN 1 ELSE 0
    BY <1>2
  <2>2. p \in Positions /\ 8 * k + from + total - 1 = 8 * k + p
    BY <1>1 DEF Positions
  <2> HIDE DEF p
  <2> QED
    BY <2>1, <2>2, BitAt
<1> QED
  BY <1>3, <1>4 DEF ReadsBits, d, e

LEMMA UnpacksBytes ==
  ASSUME NEW bytes, NEW from \in Nat, NEW to \in Int, from <= to + 1
  PROVE  ReadsBits(UnpackBytes(bytes, from, to), bytes, 8 * from, 8 * (to - from + 1))
<1> DEFINE d == 8 * (to - from + 1)
           u == UnpackBytes(bytes, from, to)
           item(total) == UnpackByte(bytes[from + (total - 1) \div 8], 0, 8)[((total - 1) % 8) + 1]
<1>1. d \in Nat
  OBVIOUS
<1>2. u = [total \in 1..d |-> item(total)]
  BY DEF UnpackBytes
<1>3. ASSUME NEW total \in 1..d PROVE item(total) = BitGet(bytes, 8 * from + total - 1)
  <2> DEFINE k == from + (total - 1) \div 8
             p == (total - 1) % 8
             e == UnpackByte(bytes[k], 0, 8)
             o == p + 1
  <2>1. k \in Nat /\ p \in 0..7 /\ 8 * from + total - 1 = 8 * k + p
    <3> DEFINE q == (total - 1) \div 8
    <3>1. q \in Nat /\ p \in 0..7 /\ total - 1 = 8 * q + p /\ k = from + q
      BY ByteAndBit DEF Positions
    <3> HIDE DEF q, p, k, d
    <3> QED
      BY <3>1
  <2>2. item(total) = e[o]
    OBVIOUS
  <2> HIDE DEF k
  <2>3. ReadsBits(e, bytes, 8 * k + 0, 8 - 0)
    BY <2>1, UnpacksByte
  <2> HIDE DEF p, d, item, e
  <2>4. o \in 1..(8 - 0) /\ 8 * k + 0 + o - 1 = 8 * from + total - 1
    BY <2>1
  <2> HIDE DEF o
  <2>5. e[o] = BitGet(bytes, 8 * k + 0 + o - 1)
    BY <2>3, <2>4, Zenon DEF ReadsBits
  <2> QED
    BY <2>2, <2>4, <2>5
<1>4. ASSUME NEW i PROVE BitGet(bytes, i) \in Bit
  BY DEF BitGet, Bit
<1> HIDE DEF d, item, u
<1>5. u \in Seq(Bit) /\ Len(u) = d
  BY <1>1, <1>2, <1>3, <1>4
<1>6. \A total \in 1..d : u[total] = BitGet(bytes, 8 * from + total - 1)
  BY <1>2, <1>3
<1> QED
  BY <1>5, <1>6 DEF d, u, ReadsBits

(* Bits and the bits behind them. *)
LEMMA Joined ==
  ASSUME NEW bytes, NEW at \in Nat, NEW d \in Nat, NEW c \in Nat,
         NEW e, ReadsBits(e, bytes, at, d), NEW f, ReadsBits(f, bytes, at + d, c)
  PROVE  ReadsBits(e \o f, bytes, at, d + c)
<1>1. e \in Seq(Bit) /\ Len(e) = d /\ f \in Seq(Bit) /\ Len(f) = c
  BY DEF ReadsBits
<1>2. e \o f \in Seq(Bit) /\ Len(e \o f) = d + c
  BY <1>1
<1>3. \A total \in 1..d : (e \o f)[total] = e[total]
  BY <1>1
<1>4. \A total \in 1..c : (e \o f)[d + total] = f[total]
  BY <1>1
<1>5. ASSUME NEW total \in 1..(d + c) PROVE (e \o f)[total] = BitGet(bytes, at + total - 1)
  <2>1. CASE total \in 1..d
    <3>1. e[total] = BitGet(bytes, at + total - 1)
      BY <2>1 DEF ReadsBits
    <3> QED
      BY <1>3, <2>1, <3>1
  <2>2. CASE total \notin 1..d
    <3> DEFINE m == total - d
    <3>1. m \in 1..c /\ d + m = total /\ at + d + m - 1 = at + total - 1
      BY <2>2
    <3> HIDE DEF m
    <3>2. f[m] = BitGet(bytes, at + d + m - 1)
      BY <3>1 DEF ReadsBits
    <3> QED
      BY <1>4, <3>1, <3>2
  <2> QED
    BY <2>1, <2>2
<1> QED
  BY <1>2, <1>5 DEF ReadsBits

(* Where a range begins and ends.                                          *)
LEMMA RangeIn ==
  ASSUME NEW start \in Nat, NEW length \in Nat, length # 0
  PROVE  LET l == (start + length - 1) \div 8
             t == (start + length) % 8
             q == IF t = 0 THEN 8 ELSE t IN
           /\ start \div 8 \in Nat /\ start % 8 \in 0..7
           /\ start = 8 * (start \div 8) + (start % 8)
           /\ l \in Nat /\ start \div 8 <= l /\ q \in 1..8 /\ start + length = 8 * l + q
<1> DEFINE b == start \div 8
           s == start % 8
           last == start + length - 1
           l == last \div 8
           o == last % 8
           t == (start + length) % 8
           q == IF t = 0 THEN 8 ELSE t
           f == (start + length) \div 8
<1>1. b \in Nat /\ s \in 0..7 /\ start = 8 * b + s
  BY ByteAndBit DEF Positions
<1>2. last \in Nat
  OBVIOUS
<1>3. l \in Nat /\ o \in 0..7 /\ last = 8 * l + o /\ last + 1 = start + length
  BY <1>2, ByteAndBit DEF Positions
<1>4. f \in Nat /\ t \in 0..7 /\ start + length = 8 * f + t
  BY ByteAndBit DEF Positions
<1>5. q \in 1..8 /\ (q = 8 => t = 0) /\ (q # 8 => q = t)
  BY <1>4
<1> SUFFICES b \in Nat /\ s \in 0..7 /\ start = 8 * b + s
             /\ l \in Nat /\ b <= l /\ q \in 1..8 /\ start + length = 8 * l + q
  OBVIOUS
<1> HIDE DEF b, s, last, l, o, t, q, f
<1>6. b <= l
  BY <1>1, <1>3
<1>7. start + length = 8 * l + q
  BY <1>3, <1>4, <1>5
<1> QED
  BY <1>1, <1>3, <1>5, <1>6, <1>7

(* A range unpacks as its bits, in order. *)
LEMMA Unpacks ==
  ASSUME NEW bytes, NEW start \in Nat, NEW length \in Nat
  PROVE  ReadsBits(BitsUnpack(bytes, start, length), bytes, start, length)
<1> DEFINE u == BitsUnpack(bytes, start, length)
           b == start \div 8
           s == start % 8
           l == (start + length - 1) \div 8
           t == (start + length) % 8
           q == IF t = 0 THEN 8 ELSE t
<1>1. CASE length = 0
  <2>1. u = <<>>
    BY <1>1 DEF BitsUnpack
  <2> HIDE DEF u
  <2>2. u \in Seq(Bit) /\ Len(u) = length
    BY <1>1, <2>1
  <2>3. \A total \in 1..length : FALSE
    BY <1>1
  <2> QED
    BY <2>2, <2>3 DEF u, ReadsBits
<1>2. CASE length # 0
  <2>1. b \in Nat /\ s \in 0..7 /\ start = 8 * b + s
        /\ l \in Nat /\ b <= l /\ q \in 1..8 /\ start + length = 8 * l + q
    BY <1>2, RangeIn
  <2> DEFINE e1 == UnpackByte(bytes[b], s, 8)
             e2 == UnpackBytes(bytes, b + 1, l - 1)
             e3 == UnpackByte(bytes[l], 0, q)
             e == UnpackByte(bytes[b], s, s + length)
  <2>2. (b = l => u = e) /\ (b # l => u = (e1 \o e2) \o e3)
    BY <1>2 DEF BitsUnpack
  <2> HIDE DEF b, s, l, t, q, u
  <2>3. CASE b = l
    <3> DEFINE to == s + length
    <3>1. to \in Nat /\ s \in Nat /\ s <= to /\ to <= 8 /\ to - s = length /\ 8 * b + s = start
      BY <2>1, <2>3
    <3>2. e = UnpackByte(bytes[b], s, to)
      OBVIOUS
    <3> HIDE DEF to, e
    <3>3. ReadsBits(UnpackByte(bytes[b], s, to), bytes, 8 * b + s, to - s)
      BY <2>1, <3>1, UnpacksByte
    <3> QED
      BY <2>2, <2>3, <3>1, <3>2, <3>3 DEF u
  <2>4. CASE b # l
    <3> DEFINE l1 == 8 - s
               l2 == 8 * ((l - 1) - (b + 1) + 1)
    <3>1. l1 \in Nat /\ l2 \in Nat /\ (l1 + l2) + q = length /\ b + 1 <= (l - 1) + 1
          /\ s \in Nat /\ s <= 8 /\ b + 1 \in Nat /\ l - 1 \in Int /\ q \in Nat /\ 0 <= q /\ q <= 8
          /\ 8 * b + s = start /\ 8 * (b + 1) = start + l1 /\ 8 * l + 0 = start + (l1 + l2)
          /\ l1 + l2 \in Nat /\ q - 0 = q
      BY <2>1, <2>4
    <3>2. ReadsBits(e1, bytes, start, l1)
      <4>1. ReadsBits(e1, bytes, 8 * b + s, 8 - s)
        BY <2>1, <3>1, UnpacksByte
      <4> QED
        BY <3>1, <4>1
    <3>3. ReadsBits(e2, bytes, start + l1, l2)
      <4>1. ReadsBits(e2, bytes, 8 * (b + 1), l2)
        BY <3>1, UnpacksBytes
      <4> QED
        BY <3>1, <4>1
    <3>4. ReadsBits(e3, bytes, start + (l1 + l2), q)
      <4>1. ReadsBits(e3, bytes, 8 * l + 0, q - 0)
        BY <2>1, <3>1, UnpacksByte
      <4> QED
        BY <3>1, <4>1
    <3> HIDE DEF e1, e2, e3, l1, l2
    <3>5. ReadsBits(e1 \o e2, bytes, start, l1 + l2)
      BY <3>1, <3>2, <3>3, Joined
    <3>6. ReadsBits((e1 \o e2) \o e3, bytes, start, (l1 + l2) + q)
      BY <3>1, <3>4, <3>5, Joined
    <3> QED
      BY <2>2, <2>4, <3>1, <3>6 DEF u
  <2> QED
    BY <2>3, <2>4
<1> QED
  BY <1>1, <1>2

(* Sets of bits, by byte and position. *)
LEMMA Apart ==
  ASSUME NEW S, NEW T, IsFiniteSet(S), IsFiniteSet(T), S \cap T = {}
  PROVE  IsFiniteSet(S \cup T) /\ Cardinality(S \cup T) = Cardinality(S) + Cardinality(T)
<1>1. Cardinality(S) \in Nat /\ Cardinality(T) \in Nat /\ Cardinality(S \cap T) = 0
  BY FS_CardinalityType, FS_EmptySet
<1>2. IsFiniteSet(S \cup T)
  BY FS_Union, Zenon
<1>3. Cardinality(S \cup T) = Cardinality(S) + Cardinality(T) - Cardinality(S \cap T)
  BY FS_Union, Zenon
<1> QED
  BY <1>1, <1>2, <1>3

LEMMA InOneByte ==
  ASSUME NEW k, NEW X, X \subseteq Positions
  PROVE  IsFiniteSet({k} \X X) /\ Cardinality({k} \X X) = Cardinality(X)
<1>1. IsFiniteSet(Positions)
  <2>1. 0 \in Int /\ 7 \in Int
    OBVIOUS
  <2>2. IsFiniteSet(0..7)
    BY <2>1, FS_Interval, Zenon
  <2> QED
    BY <2>2 DEF Positions
<1>2. IsFiniteSet(X) /\ Cardinality(X) \in Nat
  BY <1>1, FS_Subset, FS_CardinalityType
<1>3. IsFiniteSet({k}) /\ Cardinality({k}) = 1
  BY FS_Singleton
<1>4. IsFiniteSet({k} \X X) /\ Cardinality({k} \X X) = 1 * Cardinality(X)
  BY <1>2, <1>3, FS_Product
<1> QED
  BY <1>2, <1>4

(* The set bits of a range: by position in the range, and by byte.         *)
SetIn(bytes, start, length) == {total \in 1..length : BitGet(bytes, start + total - 1) = 1}
SetAt(bytes, start, length, b, l) ==
  {at \in (b..l) \X Positions :
     /\ start <= 8 * at[1] + at[2] /\ 8 * at[1] + at[2] < start + length
     /\ at[2] \in bytes[at[1]]}

LEMMA SameBits ==
  ASSUME NEW bytes, NEW start \in Nat, NEW length \in Nat, NEW b \in Nat, NEW l \in Nat,
         8 * b <= start, start + length <= 8 * l + 8
  PROVE  /\ IsFiniteSet(SetIn(bytes, start, length))
         /\ Cardinality(SetIn(bytes, start, length)) = Cardinality(SetAt(bytes, start, length, b, l))
<1> DEFINE S == SetIn(bytes, start, length)
           T == SetAt(bytes, start, length, b, l)
           byte(total) == (start + total - 1) \div 8
           bit(total) == (start + total - 1) % 8
           F == [total \in S |-> <<byte(total), bit(total)>>]
<1>1. ASSUME NEW total \in 1..length
      PROVE  byte(total) \in b..l /\ bit(total) \in Positions /\ start + total - 1 = 8 * byte(total) + bit(total)
             /\ byte(total) \in Nat /\ bit(total) \in Nat
  <2> DEFINE i == start + total - 1
             k == i \div 8
             p == i % 8
  <2>1. i \in Nat /\ i < start + length /\ i >= start
    OBVIOUS
  <2> HIDE DEF i
  <2>2. k \in Nat /\ p \in 0..7 /\ i = 8 * k + p
    BY <2>1, ByteAndBit DEF Positions
  <2> HIDE DEF k, p
  <2>3. k \in b..l /\ p \in Positions /\ i = 8 * k + p /\ k \in Nat /\ p \in Nat
    BY <2>1, <2>2 DEF Positions
  <2> QED
    BY <2>3 DEF i, k, p
<1>2. \A total \in S : total \in 1..length /\ bit(total) \in bytes[byte(total)]
  BY DEF SetIn, BitGet
<1>3. IsFiniteSet(S)
  <2>1. S \subseteq 1..length /\ IsFiniteSet(1..length)
    BY FS_Interval DEF SetIn
  <2> QED
    BY <2>1, FS_Subset
<1>4. F \in [S -> T]
  <2> SUFFICES ASSUME NEW total \in S PROVE <<byte(total), bit(total)>> \in T
    OBVIOUS
  <2>1. total \in 1..length /\ bit(total) \in bytes[byte(total)]
    BY <1>2
  <2>2. byte(total) \in b..l /\ bit(total) \in Positions /\ start + total - 1 = 8 * byte(total) + bit(total)
        /\ start <= start + total - 1 /\ start + total - 1 < start + length
    BY <1>1, <2>1
  <2> HIDE DEF byte, bit
  <2> QED
    BY <2>1, <2>2 DEF SetAt
<1>5. \A total, m \in S : F[total] = F[m] => total = m
  <2> SUFFICES ASSUME NEW total \in S, NEW m \in S, F[total] = F[m] PROVE total = m
    OBVIOUS
  <2>1. byte(total) = byte(m) /\ bit(total) = bit(m)
    OBVIOUS
  <2>2. total \in 1..length /\ m \in 1..length
    BY <1>2
  <2>3. start + total - 1 = 8 * byte(total) + bit(total) /\ start + m - 1 = 8 * byte(m) + bit(m)
        /\ byte(total) \in Nat /\ bit(total) \in Nat
    BY <1>1, <2>2
  <2> HIDE DEF byte, bit
  <2> QED
    BY <2>1, <2>2, <2>3
<1>6. \A at \in T : \E total \in S : F[total] = at
  <2> SUFFICES ASSUME NEW at \in T PROVE \E total \in S : F[total] = at
    OBVIOUS
  <2> DEFINE k == at[1]
             p == at[2]
             total == 8 * k + p - start + 1
  <2>1. at = <<k, p>> /\ k \in b..l /\ p \in Positions /\ p \in bytes[k]
        /\ start <= 8 * k + p /\ 8 * k + p < start + length
    BY DEF SetAt
  <2> HIDE DEF k, p
  <2>2. k \in Nat /\ p \in Nat /\ total \in 1..length /\ start + total - 1 = 8 * k + p
    BY <2>1 DEF Positions
  <2>3. (8 * k + p) \div 8 = k /\ (8 * k + p) % 8 = p
    BY <2>1, <2>2, ByteIs
  <2> HIDE DEF total
  <2>4. byte(total) = k /\ bit(total) = p
    BY <2>2, <2>3
  <2>5. total \in S
    BY <2>1, <2>2, <2>4 DEF SetIn, BitGet
  <2>6. F[total] = at
    BY <2>1, <2>4, <2>5
  <2> QED
    BY <2>5, <2>6
<1> HIDE DEF F, S, T
<1>7. F \in Bijection(S, T)
  BY <1>4, <1>5, <1>6, Fun_IsBij
<1>8. ExistsBijection(S, T)
  BY <1>7, Fun_ExistsBij
<1> QED
  BY <1>3, <1>8, FS_Bijection DEF S, T

(* A range counts the bits that are set in it. *)
LEMMA Counts ==
  ASSUME NEW size \in Nat, NEW bytes \in Buffers(size), NEW start \in Nat, NEW length \in Nat,
         start + length <= 8 * size
  PROVE  BitCountSet(bytes, start, length) = Cardinality(SetIn(bytes, start, length))
<1> DEFINE c == BitCountSet(bytes, start, length)
           b == start \div 8
           s == start % 8
           l == (start + length - 1) \div 8
           t == (start + length) % 8
           q == IF t = 0 THEN 8 ELSE t
           beginning == TrailingBitmask(s)
           ending == IF t = 0 THEN Positions ELSE PrecedingBitmask(t)
           T == SetAt(bytes, start, length, b, l)
<1>1. CASE length = 0
  <2>1. c = 0
    BY <1>1 DEF BitCountSet
  <2>2. SetIn(bytes, start, length) = {}
    BY <1>1 DEF SetIn
  <2> QED
    BY <2>1, <2>2, FS_EmptySet
<1>2. CASE length # 0
  <2>1. b \in Nat /\ s \in 0..7 /\ start = 8 * b + s
        /\ l \in Nat /\ b <= l /\ q \in 1..8 /\ start + length = 8 * l + q
    BY <1>2, RangeIn
  <2>2. beginning = {p \in Positions : p >= s} /\ ending = {p \in Positions : p < q}
    <3>1. beginning = {p \in Positions : p >= s}
      BY DEF TrailingBitmask
    <3>2. CASE t = 0
      BY <3>1, <3>2 DEF Positions
    <3>3. CASE t # 0
      BY <3>1, <3>3 DEF PrecedingBitmask
    <3> QED
      BY <3>2, <3>3
  <2> DEFINE one == bytes[b] \cap beginning \cap ending
             first == bytes[b] \cap beginning
             last == bytes[l] \cap ending
             A == {b} \X first
             Z == {l} \X last
             M == {at \in ((b + 1)..(l - 1)) \X Positions : at[2] \in bytes[at[1]]}
  <2>3. (b = l => c = Cardinality(one))
        /\ (b # l => c = Cardinality(first) + Cardinality(M) + Cardinality(last))
    BY <1>2 DEF BitCountSet, Popcount
  <2> HIDE DEF c, b, s, l, t, q, beginning, ending
  <2>4. Cardinality(SetIn(bytes, start, length)) = Cardinality(T)
    BY <2>1, SameBits
  <2>5. CASE b = l
    <3>1. T = {b} \X one
      <4>1. ASSUME NEW at \in T PROVE at \in {b} \X one
        <5> DEFINE p == at[2]
        <5>1. at = <<at[1], p>> /\ at[1] = b /\ p \in Positions /\ p \in bytes[b]
              /\ start <= 8 * b + p /\ 8 * b + p < start + length
          BY <2>1, <2>5, <4>1 DEF SetAt
        <5> HIDE DEF p
        <5>2. p >= s /\ p < q
          BY <2>1, <2>5, <5>1 DEF Positions
        <5> QED
          BY <2>2, <5>1, <5>2
      <4>2. ASSUME NEW p \in one PROVE <<b, p>> \in T
        <5>1. p \in Positions /\ p \in bytes[b] /\ p >= s /\ p < q
          BY <2>2
        <5>2. start <= 8 * b + p /\ 8 * b + p < start + length /\ b \in b..l
          BY <2>1, <2>5, <5>1 DEF Positions
        <5> QED
          BY <5>1, <5>2 DEF SetAt
      <4> HIDE DEF T, one
      <4> QED
        BY <4>1, <4>2
    <3>2. one \subseteq Positions
      BY <2>2
    <3> HIDE DEF one, T
    <3> QED
      BY <2>3, <2>4, <2>5, <3>1, <3>2, InOneByte DEF c
  <2>6. CASE b # l
    <3>1. first \subseteq Positions /\ last \subseteq Positions
      BY <2>2
    <3>2. T = (A \cup M) \cup Z
      <4>1. ASSUME NEW at \in T PROVE at \in (A \cup M) \cup Z
        <5> DEFINE k == at[1]
                   p == at[2]
        <5>1. at = <<k, p>> /\ k \in b..l /\ p \in Positions /\ p \in bytes[k]
              /\ start <= 8 * k + p /\ 8 * k + p < start + length
          BY <4>1 DEF SetAt
        <5> HIDE DEF k, p
        <5>2. k = b \/ k = l \/ k \in (b + 1)..(l - 1)
          BY <2>1, <5>1
        <5>3. CASE k = b
          <6>1. p >= s
            BY <2>1, <5>1, <5>3 DEF Positions
          <6> QED
            BY <2>2, <5>1, <5>3, <6>1
        <5>4. CASE k = l
          <6>1. p < q
            BY <2>1, <5>1, <5>4 DEF Positions
          <6> QED
            BY <2>2, <5>1, <5>4, <6>1
        <5>5. CASE k \in (b + 1)..(l - 1)
          BY <5>1, <5>5
        <5> QED
          BY <5>2, <5>3, <5>4, <5>5
      <4>2. ASSUME NEW k \in b..l, NEW p \in Positions, p \in bytes[k],
                   (k = b /\ p >= s) \/ (k = l /\ p < q) \/ k \in (b + 1)..(l - 1)
            PROVE  <<k, p>> \in T
        <5>1. start <= 8 * k + p /\ 8 * k + p < start + length
          BY <2>1, <2>6, <4>2 DEF Positions
        <5> QED
          BY <4>2, <5>1 DEF SetAt
      <4>3. b \in b..l /\ l \in b..l
        BY <2>1
      <4> HIDE DEF T
      <4>4. \A p \in first : <<b, p>> \in T
        BY <2>2, <4>2, <4>3
      <4>5. \A p \in last : <<l, p>> \in T
        BY <2>2, <4>2, <4>3
      <4>6. \A at \in M : at \in T
        <5> SUFFICES ASSUME NEW at \in M PROVE at \in T
          OBVIOUS
        <5>1. at = <<at[1], at[2]>> /\ at[1] \in (b + 1)..(l - 1) /\ at[2] \in Positions
              /\ at[2] \in bytes[at[1]]
          OBVIOUS
        <5>2. at[1] \in b..l
          BY <2>1, <5>1
        <5> QED
          BY <4>2, <5>1, <5>2
      <4> HIDE DEF first, last, M
      <4> QED
        BY <4>1, <4>4, <4>5, <4>6
    <3>3. A \cap M = {} /\ (A \cup M) \cap Z = {}
      <4>1. \A at \in A : at[1] = b
        OBVIOUS
      <4>2. \A at \in Z : at[1] = l
        OBVIOUS
      <4>3. \A at \in M : at[1] # b /\ at[1] # l
        BY <2>1
      <4> HIDE DEF A, M, Z
      <4> QED
        BY <2>6, <4>1, <4>2, <4>3
    <3>4. IsFiniteSet(M)
      <4>1. IsFiniteSet((b + 1)..(l - 1)) /\ IsFiniteSet(0..7)
        <5>1. b + 1 \in Int /\ l - 1 \in Int /\ 0 \in Int /\ 7 \in Int
          BY <2>1
        <5> QED
          BY <5>1, FS_Interval, Zenon
      <4>2. IsFiniteSet(((b + 1)..(l - 1)) \X Positions)
        BY <4>1, FS_Product DEF Positions
      <4> QED
        BY <4>2, FS_Subset
    <3>5. IsFiniteSet(A) /\ Cardinality(A) = Cardinality(first)
          /\ IsFiniteSet(Z) /\ Cardinality(Z) = Cardinality(last)
      BY <3>1, InOneByte
    <3> HIDE DEF A, M, Z, T, first, last
    <3>6. IsFiniteSet(A \cup M) /\ Cardinality(A \cup M) = Cardinality(A) + Cardinality(M)
      BY <3>3, <3>4, <3>5, Apart
    <3>7. Cardinality((A \cup M) \cup Z) = Cardinality(A \cup M) + Cardinality(Z)
      BY <3>3, <3>5, <3>6, Apart
    <3>8. c = Cardinality(T)
      BY <2>3, <2>6, <3>2, <3>5, <3>6, <3>7
    <3> QED
      BY <2>4, <3>8 DEF c
  <2> QED
    BY <2>5, <2>6
<1> QED
  BY <1>1, <1>2

---------------------------------------------------------------------------
(* Whatever the calls were, a range that somebody set reads, counts and    *)
(* unpacks as the bits that were asked for                                 *)
(* (src/src/nanoarrow/nanoarrow.h:2867-3028).                              *)
LEMMA SameItems ==
  ASSUME NEW A, NEW s \in Seq(A), NEW B, NEW t \in Seq(B), Len(s) = Len(t),
         \A i \in 1..Len(s) : s[i] = t[i]
  PROVE  s = t
<1> DEFINE total == Len(s)
<1>1. s \in [1..total -> A]
  OBVIOUS
<1>2. t \in [1..total -> B]
  OBVIOUS
<1> HIDE DEF total
<1> QED
  BY <1>1, <1>2 DEF total

LEMMA HeldAgrees == BitsHeld => BitsAgree
<1> SUFFICES ASSUME BitsHeld PROVE BitsAgree
  OBVIOUS
<1>1. PICK size \in Nat : Holds(size, bitmap, content)
  BY DEF BitsHeld, Agrees
<1> DEFINE s == Len(content)
           bytes == bitmap.bytes
<1>2. /\ s \in Nat /\ bytes \in Buffers(size) /\ bitmap.size_bits = s /\ content \in Seq(Asked)
      /\ Capacity(bitmap) = size /\ bitmap.size_bytes \in 0..size /\ DOMAIN content = 1..s
      /\ \A i \in 1..s : content[i] \in Asked
  BY <1>1, Items, CapacityIs DEF Holds, Bitmaps
<1>3. \A i \in 1..s : content[i] # AnyBit => s <= 8 * size /\ BitGet(bytes, i - 1) = content[i]
  BY <1>1 DEF Holds
<1>4. bitmap.size_bytes <= Capacity(bitmap)
  BY <1>2
<1>5. Capacity(bitmap) < BytesForBits(s) => \A i \in DOMAIN content : content[i] = AnyBit
  <2>1. BytesForBits(s) \in Nat /\ (BytesForBits(s) <= size <=> s <= 8 * size)
    BY <1>2, BytesTake
  <2> HIDE DEF s
  <2> QED
    BY <1>2, <1>3, <2>1
<1>6. ASSUME NEW start \in 0..s, NEW length \in 1..(s - start),
             NEW range, range = SubSeq(content, start + 1, start + length),
             \A i \in 1..length : range[i] # AnyBit
      PROVE  /\ BitsUnpack(bytes, start, length) = range
             /\ BitCountSet(bytes, start, length) = Cardinality({i \in 1..length : range[i] = 1})
             /\ BitGet(bytes, start) = range[1]
  <2> DEFINE end == start + length
             u == BitsUnpack(bytes, start, length)
  <2>1. start \in Nat /\ length \in Nat /\ end \in Nat /\ start <= end /\ end <= s
        /\ end - start = length /\ 1 \in 1..length /\ start + 1 - 1 = start
    BY <1>2
  <2>2. range \in Seq(Asked) /\ Len(range) = length
        /\ \A i \in 1..length : range[i] = content[start + i]
    <3>1. range = SubSeq(content, start + 1, end)
      BY <1>6
    <3> HIDE DEF end
    <3>2. SubSeq(content, start + 1, end) \in Seq(Asked)
          /\ Len(SubSeq(content, start + 1, end)) = end - start
          /\ \A x \in 1..(end - start) : SubSeq(content, start + 1, end)[x] = content[start + x]
      BY <1>2, <2>1, Piece
    <3> QED
      BY <2>1, <3>1, <3>2
  <2>3. \A i \in 1..length : range[i] = BitGet(bytes, start + i - 1)
    <3> SUFFICES ASSUME NEW i \in 1..length PROVE range[i] = BitGet(bytes, start + i - 1)
      OBVIOUS
    <3> DEFINE j == start + i
    <3>1. j \in 1..s /\ start + i - 1 = j - 1 /\ range[i] = content[j]
      BY <2>1, <2>2
    <3> HIDE DEF j
    <3> QED
      BY <1>3, <1>6, <3>1
  <2>4. end <= 8 * size
    <3>0. 1 \in 1..length
      BY <2>1
    <3>1. start + 1 \in 1..s /\ range[1] = content[start + 1] /\ range[1] # AnyBit
      <4>1. range[1] = content[start + 1] /\ range[1] # AnyBit
        BY <1>6, <2>2, <3>0
      <4>2. start + 1 \in 1..s
        BY ONLY <1>2, <2>1
      <4> QED
        BY <4>1, <4>2
    <3> HIDE DEF s
    <3> QED
      BY <1>2, <1>3, <2>1, <3>1
  <2>5. ReadsBits(u, bytes, start, length)
    BY <2>1, Unpacks
  <2> HIDE DEF u, bytes
  <2>6. u = range
    <3>1. u \in Seq(Bit) /\ Len(u) = Len(range) /\ Len(u) = length
          /\ \A i \in 1..length : u[i] = range[i]
      BY <2>2, <2>3, <2>5 DEF ReadsBits
    <3> QED
      BY <2>2, <3>1, SameItems
  <2>7. SetIn(bytes, start, length) = {i \in 1..length : range[i] = 1}
    BY <2>3 DEF SetIn
  <2>8. BitCountSet(bytes, start, length) = Cardinality(SetIn(bytes, start, length))
    BY <1>2, <2>1, <2>4, Counts
  <2>9. BitGet(bytes, start) = range[1]
    BY <2>1, <2>3
  <2> QED
    BY <2>6, <2>7, <2>8, <2>9 DEF u
<1> HIDE DEF s, bytes
<1>7. \A start \in 0..s : \A length \in 1..(s - start) :
        LET range == SubSeq(content, start + 1, start + length) IN
        (\A i \in 1..length : range[i] # AnyBit) =>
          /\ BitsUnpack(bytes, start, length) = range
          /\ BitCountSet(bytes, start, length) = Cardinality({i \in 1..length : range[i] = 1})
          /\ BitGet(bytes, start) = range[1]
  BY <1>6, Zenon
<1> QED
  BY <1>2, <1>4, <1>5, <1>7, Zenon DEF BitsAgree, s, bytes

(* Whatever was appended, resized and overwritten, the bits that were      *)
(* asked for are those the bitmap reads, counts and unpacks: BitsAgree.    *)
THEOREM BitsAsked == BitmapSpec => []BitsAgree
<1>1. BitmapInit => BitsHeld
  BY HeldFirst
<1>2. BitsHeld /\ [BitmapNext]_bitmapVars => BitsHeld'
  BY HeldNext
<1>3. BitsHeld => BitsAgree
  BY HeldAgrees
<1> QED
  BY <1>1, <1>2, <1>3, PTL DEF BitmapSpec

---------------------------------------------------------------------------
(* Metadata                                                                *)

Pairs == Seq(Nat) \X Seq(Nat)
Parts(pairs) == [i \in DOMAIN pairs |-> Cells(pairs[i])]

(* The cells of a pair, one by one. *)
LEMMA CellsAre ==
  ASSUME NEW p \in Pairs
  PROVE  /\ Cells(p) \in Seq(Nat) /\ p[1] \in Seq(Nat) /\ p[2] \in Seq(Nat)
         /\ Len(Cells(p)) = Len(p[1]) + Len(p[2]) + 2
         /\ Cells(p)[1] = Len(p[1]) /\ Cells(p)[Len(p[1]) + 2] = Len(p[2])
         /\ \A j \in 1..Len(p[1]) : Cells(p)[1 + j] = p[1][j]
         /\ \A j \in 1..Len(p[2]) : Cells(p)[Len(p[1]) + 2 + j] = p[2][j]
         /\ p = <<p[1], p[2]>>
<1> DEFINE k == p[1]  v == p[2]
<1>1. k \in Seq(Nat) /\ v \in Seq(Nat) /\ p = <<k, v>>
  BY DEF Pairs
<1>2. Cells(p) = <<Len(k)>> \o k \o <<Len(v)>> \o v
  BY DEF Cells
<1> HIDE DEF k, v
<1>3. Len(k) \in Nat /\ Len(v) \in Nat /\ <<Len(k)>> \in Seq(Nat) /\ <<Len(v)>> \in Seq(Nat)
  BY <1>1
<1> DEFINE a == <<Len(k)>> \o k
           b == a \o <<Len(v)>>
           c == b \o v
           m == Len(k)  l == Len(v)
<1>4. /\ a \in Seq(Nat) /\ Len(a) = m + 1 /\ a[1] = m
      /\ \A j \in 1..m : a[1 + j] = k[j]
  BY <1>1, <1>3
<1>7. Cells(p) = c
  BY <1>2
<1> HIDE DEF a
<1>5. /\ b \in Seq(Nat) /\ Len(b) = m + 2 /\ b[m + 2] = l
      /\ \A j \in 1..(m + 1) : b[j] = a[j]
  BY <1>3, <1>4
<1> HIDE DEF b, m, l
<1>6. /\ c \in Seq(Nat) /\ Len(c) = m + l + 2
      /\ \A j \in 1..(m + 2) : c[j] = b[j]
      /\ \A j \in 1..l : c[m + 2 + j] = v[j]
  <2>1. Len(b \o v) = Len(b) + Len(v) /\ b \o v \in Seq(Nat)
    BY <1>1, <1>5, Glued, Zenon
  <2>2. \A j \in 1..Len(b) : (b \o v)[j] = b[j]
    BY <1>1, <1>5, Glued, Zenon
  <2>3. \A j \in 1..Len(v) : (b \o v)[Len(b) + j] = v[j]
    BY <1>1, <1>5, Glued
  <2> HIDE DEF c
  <2>4. Len(c) = Len(b) + Len(v) /\ c \in Seq(Nat) /\ (\A j \in 1..Len(b) : c[j] = b[j])
        /\ \A j \in 1..l : c[Len(b) + j] = v[j]
    BY <2>1, <2>2, <2>3 DEF c, l
  <2> QED
    BY <1>3, <1>5, <2>4 DEF m, l
<1> HIDE DEF c
<1>8. c[1] = m /\ c[m + 2] = l /\ \A j \in 1..m : c[1 + j] = k[j]
  <2>0. m \in Nat /\ l \in Nat
    BY <1>3 DEF m, l
  <2>1. 1 \in 1..(m + 2) /\ 1 \in 1..(m + 1) /\ m + 2 \in 1..(m + 2)
    BY <2>0
  <2>2. c[1] = m /\ c[m + 2] = l
    BY <1>4, <1>5, <1>6, <2>1
  <2>3. ASSUME NEW j \in 1..m PROVE c[1 + j] = k[j]
    <3>1. 1 + j \in 1..(m + 2) /\ 1 + j \in 1..(m + 1)
      BY <2>0
    <3> QED
      BY <1>4, <1>5, <1>6, <3>1
  <2> QED
    BY <2>2, <2>3
<1> QED
  BY <1>1, <1>6, <1>7, <1>8 DEF k, v, m, l

(* The reader in front of the cells of a pair finds it. *)
LEMMA ReadOne ==
  ASSUME NEW data \in Seq(Nat), NEW p \in Pairs, NEW r, r.offset \in Nat,
         r.offset + Len(Cells(p)) <= Len(data),
         \A j \in 1..Len(Cells(p)) : data[r.offset + j] = Cells(p)[j]
  PROVE  ReaderRead(data, r) =
           [key |-> p[1], value |-> p[2],
            next |-> [offset |-> r.offset + Len(Cells(p)), remaining |-> r.remaining - 1]]
<1> DEFINE k == p[1]  v == p[2]  c == Cells(p)  o == r.offset
           m == Len(k)  l == Len(v)  t == Len(c)
<1>1. /\ k \in Seq(Nat) /\ v \in Seq(Nat)
      /\ t = m + l + 2 /\ c[1] = m /\ c[m + 2] = l
      /\ \A j \in 1..m : c[1 + j] = k[j]
      /\ \A j \in 1..l : c[m + 2 + j] = v[j]
  BY CellsAre
<1>2. o \in Nat /\ o + t <= Len(data) /\ \A j \in 1..t : data[o + j] = c[j]
  OBVIOUS
<1>3. m \in Nat /\ l \in Nat /\ Len(data) \in Nat
  BY <1>1
<1> HIDE DEF k, v, c, o, m, l, t
<1>4. data[o + 1] = m /\ data[o + 1 + m + 1] = l
  <2>1. 1 \in 1..t /\ m + 2 \in 1..t /\ o + (m + 2) = o + 1 + m + 1
    BY ONLY <1>1, <1>2, <1>3
  <2> QED
    BY ONLY <1>1, <1>2, <2>1
<1>5. SubSeq(data, o + 2, o + 1 + m) = k
  <2>1. ASSUME NEW j \in 1..m PROVE data[(o + 1) + j] = k[j]
    <3>1. 1 + j \in 1..t /\ (o + 1) + j = o + (1 + j)
      BY ONLY <1>1, <1>2, <1>3, j \in 1..m
    <3> QED
      BY ONLY <1>1, <1>2, <3>1, j \in 1..m
  <2>2. o + 1 \in Nat /\ (o + 1) + m <= Len(data) /\ (o + 1) + 1 = o + 2
    BY ONLY <1>1, <1>2, <1>3
  <2>3. SubSeq(data, (o + 1) + 1, (o + 1) + m) = k
    BY <1>1, <2>1, <2>2, CutIs DEF m
  <2> QED
    BY <2>2, <2>3
<1>6. SubSeq(data, o + 1 + m + 2, o + 1 + m + 1 + l) = v
  <2>1. ASSUME NEW j \in 1..l PROVE data[(o + m + 2) + j] = v[j]
    <3>1. m + 2 + j \in 1..t /\ (o + m + 2) + j = o + (m + 2 + j)
      BY ONLY <1>1, <1>2, <1>3, j \in 1..l
    <3> QED
      BY ONLY <1>1, <1>2, <3>1, j \in 1..l
  <2>2. /\ o + m + 2 \in Nat /\ (o + m + 2) + l <= Len(data)
        /\ (o + m + 2) + 1 = o + 1 + m + 2 /\ (o + m + 2) + l = o + 1 + m + 1 + l
    BY ONLY <1>1, <1>2, <1>3
  <2>3. SubSeq(data, (o + m + 2) + 1, (o + m + 2) + l) = v
    BY <1>1, <2>1, <2>2, CutIs DEF l
  <2> QED
    BY <2>2, <2>3
<1>7. o + 1 + m + 1 + l = o + t
  BY ONLY <1>1, <1>2, <1>3
<1>8. ReaderRead(data, r) =
        [key |-> SubSeq(data, o + 2, o + 1 + m),
         value |-> SubSeq(data, o + 1 + m + 2, o + 1 + m + 1 + l),
         next |-> [offset |-> o + 1 + m + 1 + l, remaining |-> r.remaining - 1]]
  BY <1>4, Zenon DEF ReaderRead, o
<1> QED
  BY <1>5, <1>6, <1>7, <1>8, Zenon DEF k, v, c, o, m, l, t

(* An encoding is its count and then the cells of each pair. *)
LEMMA EncodingIs ==
  ASSUME NEW pairs \in Seq(Pairs)
  PROVE  /\ Parts(pairs) \in Seq(Seq(Nat)) /\ Len(Parts(pairs)) = Len(pairs)
         /\ \A i \in 1..Len(pairs) : Parts(pairs)[i] = Cells(pairs[i]) /\ pairs[i] \in Pairs
         /\ Encode(pairs) = <<Len(pairs)>> \o FlattenSeq(Parts(pairs))
         /\ FlattenSeq(Parts(pairs)) \in Seq(Nat) /\ Encode(pairs) \in Seq(Nat)
         /\ Len(Encode(pairs)) = 1 + Ahead(Parts(pairs), Len(pairs)) /\ Encode(pairs)[1] = Len(pairs)
         /\ \A j \in 1..Len(FlattenSeq(Parts(pairs))) :
              Encode(pairs)[1 + j] = FlattenSeq(Parts(pairs))[j]
<1> DEFINE q == Parts(pairs)  total == Len(pairs)  F == FlattenSeq(q)
<1>1. total \in Nat /\ DOMAIN pairs = 1..total /\ \A i \in 1..total : pairs[i] \in Pairs
  BY Items, Zenon
<1>2. \A i \in 1..total : Cells(pairs[i]) \in Seq(Nat)
  BY <1>1, CellsAre
<1>3. q \in Seq(Seq(Nat)) /\ Len(q) = total /\ \A i \in 1..total : q[i] = Cells(pairs[i])
  BY <1>1, <1>2 DEF Parts
<1>4. Encode(pairs) = <<total>> \o F
  BY Zenon DEF Encode, Parts
<1> HIDE DEF q
<1>5. F \in Seq(Nat) /\ Len(F) = Ahead(q, total)
  BY <1>3, FlattenWhole
<1> HIDE DEF total, F
<1>6. /\ <<total>> \o F \in Seq(Nat) /\ Len(<<total>> \o F) = 1 + Len(F) /\ (<<total>> \o F)[1] = total
      /\ \A j \in 1..Len(F) : (<<total>> \o F)[1 + j] = F[j]
  BY <1>1, <1>5
<1> QED
  BY <1>1, <1>3, <1>4, <1>5, <1>6 DEF q, total, F

(* Where the reader is before each pair. *)
Before(pairs, k) == [offset |-> 1 + Ahead(Parts(pairs), k), remaining |-> Len(pairs) - k]

LEMMA ReadNext ==
  ASSUME NEW pairs \in Seq(Pairs), NEW k \in 1..Len(pairs)
  PROVE  ReaderRead(Encode(pairs), Before(pairs, k - 1)) =
           [key |-> pairs[k][1], value |-> pairs[k][2], next |-> Before(pairs, k)]
<1> DEFINE data == Encode(pairs)  q == Parts(pairs)  total == Len(pairs)  F == FlattenSeq(q)
           r == Before(pairs, k - 1)  c == Cells(pairs[k])
           a == Ahead(q, k - 1)  b == Ahead(q, k)
<1>1. /\ q \in Seq(Seq(Nat)) /\ Len(q) = total /\ q[k] = c /\ pairs[k] \in Pairs
      /\ F \in Seq(Nat) /\ data \in Seq(Nat) /\ total \in Nat
      /\ \A j \in 1..Len(F) : data[1 + j] = F[j]
      /\ Len(data) = 1 + Ahead(q, total)
  BY EncodingIs, Items
<1>2. a \in Nat /\ b = a + Len(c) /\ SubSeq(F, a + 1, b) = c
  <2> k \in 1..Len(q)
    BY <1>1
  <2> HIDE DEF q, c
  <2> QED
    BY <1>1, Cutting
<1>3. c \in Seq(Nat) /\ Len(c) \in Nat
  BY <1>1, CellsAre, Items
<1>4. Len(F) = Ahead(q, total) /\ Len(F) \in Nat
  <2> HIDE DEF q
  <2> QED
    BY <1>1, FlattenWhole, Items
<1>5. b <= Len(F)
  <2>1. PICK f : Glues(f, q) /\ F = f[total]
    <3>1. total # 0 /\ Len(q) \in Nat /\ Len(q) # 0
      BY <1>1
    <3> HIDE DEF q, total, F
    <3> QED
      BY <1>1, <3>1, Flattening DEF F
  <2>2. total \in k..Len(q) /\ k \in 1..Len(q)
    BY <1>1
  <2>3. b = Len(f[k])
    <3> HIDE DEF q
    <3> QED
      BY <1>1, <2>1, <2>2, Summing DEF b
  <2>4. Len(f[k]) <= Len(f[total])
    <3> HIDE DEF q
    <3> QED
      BY <1>1, <2>1, <2>2, GluesGrow
  <2> QED
    BY <2>1, <2>3, <2>4
<1>6. r.offset = 1 + a /\ r.remaining = total - (k - 1)
  BY DEF Before
<1>7. Before(pairs, k) = [offset |-> 1 + b, remaining |-> total - k]
  BY DEF Before
<1> HIDE DEF data, q, total, F, r, c, a, b
<1> DEFINE t == Len(c)
           g == Len(F)
<1>8. ASSUME NEW j \in 1..t PROVE data[r.offset + j] = c[j]
  <2>1. /\ a \in Nat /\ t \in Nat /\ b = a + t /\ g \in Nat /\ b <= g /\ r.offset = 1 + a
    BY <1>2, <1>3, <1>4, <1>5, <1>6
  <2>2. SubSeq(F, a + 1, b)[j] = F[a + j]
    <3>1. F \in Seq(Nat) /\ Len(F) = g
      BY <1>1
    <3> HIDE DEF t, g
    <3>2. SubSeq(F, a + 1, b) = [x \in 1..t |-> F[x + a]]
      BY ONLY <3>1, <2>1
    <3>3. j + a = a + j
      BY <2>1
    <3> QED
      BY <3>2, <3>3
  <2> HIDE DEF t, g
  <2>3. a + j \in 1..g /\ r.offset + j = 1 + (a + j)
    BY ONLY <2>1, j \in 1..t
  <2> QED
    BY <1>1, <1>2, <2>2, <2>3 DEF g
<1>9. r.offset \in Nat /\ r.offset + Len(c) <= Len(data)
  <2>1. a \in Nat /\ Len(c) \in Nat /\ Len(data) = 1 + g /\ g \in Nat /\ r.offset = 1 + a /\ a + Len(c) <= g
    BY <1>1, <1>2, <1>3, <1>4, <1>5, <1>6
  <2> HIDE DEF t, g
  <2> QED
    BY ONLY <2>1
<1>10. ReaderRead(data, r) =
         [key |-> pairs[k][1], value |-> pairs[k][2],
          next |-> [offset |-> r.offset + Len(c), remaining |-> r.remaining - 1]]
  BY <1>1, <1>8, <1>9, ReadOne DEF c
<1>11. r.offset + Len(c) = 1 + b /\ r.remaining - 1 = total - k
  BY <1>1, <1>2, <1>3, <1>6
<1> QED
  BY <1>7, <1>10, <1>11, Zenon DEF data, r

(* The reader of an encoding finds the pairs, and no more. *)
LEMMA ReadersAre ==
  ASSUME NEW pairs \in Seq(Pairs), NEW k \in 0..Len(pairs)
  PROVE  /\ ReaderInit(Encode(pairs)) = Before(pairs, 0)
         /\ Readers(Encode(pairs))[k] = Before(pairs, k)
<1> DEFINE data == Encode(pairs)
           total == Len(pairs)
           Reads(f) == f = [x \in 0..ReaderInit(data).remaining |->
                              IF x = 0 THEN ReaderInit(data) ELSE ReaderRead(data, f[x - 1]).next]
           g == [x \in 0..total |-> Before(pairs, x)]
           c == CHOOSE f : Reads(f)
           T == {x \in Nat : x <= total => c[x] = g[x]}
<1>1. total \in Nat
  BY Items
<1>2. ReaderInit(data) = Before(pairs, 0) /\ ReaderInit(data).remaining = total
  <2>1. data \in Seq(Nat) /\ data[1] = total /\ Len(data) = 1 + Ahead(Parts(pairs), total)
    BY EncodingIs
  <2>2. Ahead(Parts(pairs), 0) = 0
    BY Nothing
  <2>3. data # <<>>
    <3>1. data = <<total>> \o FlattenSeq(Parts(pairs)) /\ FlattenSeq(Parts(pairs)) \in Seq(Nat)
      BY EncodingIs
    <3> HIDE DEF data
    <3> QED
      BY <1>1, <3>1
  <2> HIDE DEF data
  <2>4. ReaderInit(data) = [offset |-> 1, remaining |-> total]
    BY <2>1, <2>3 DEF ReaderInit
  <2> QED
    BY <1>1, <2>2, <2>4 DEF Before
<1>3. ASSUME NEW x \in 1..total PROVE ReaderRead(data, Before(pairs, x - 1)).next = Before(pairs, x)
  <2>1. ReaderRead(data, Before(pairs, x - 1)) =
          [key |-> pairs[x][1], value |-> pairs[x][2], next |-> Before(pairs, x)]
    BY ReadNext, Zenon
  <2> QED
    BY <2>1
<1>4. Reads(g)
  <2>1. ASSUME NEW x \in 0..total PROVE g[x] = IF x = 0 THEN ReaderInit(data) ELSE ReaderRead(data, g[x - 1]).next
    <3>1. CASE x = 0
      BY <1>1, <1>2, <3>1
    <3>2. CASE x # 0
      <4>1. x \in 1..total /\ x - 1 \in 0..total
        BY <1>1, <3>2
      <4>2. g[x] = Before(pairs, x) /\ g[x - 1] = Before(pairs, x - 1)
        BY <4>1
      <4> QED
        BY <1>3, <3>2, <4>1, <4>2
    <3> QED
      BY <3>1, <3>2
  <2>2. g = [x \in 0..total |-> g[x]]
    OBVIOUS
  <2> HIDE DEF g
  <2> QED
    BY <1>2, <2>1, <2>2
<1>5. Reads(c)
  BY <1>4, Zenon
<1>6. Readers(data) = c
  BY Zenon DEF Readers
<1>7. \A x \in 0..total : c[x] = IF x = 0 THEN ReaderInit(data) ELSE ReaderRead(data, c[x - 1]).next
  <2> HIDE DEF c, data
  <2> QED
    BY <1>2, <1>5
<1>8. \A x \in 0..total : g[x] = Before(pairs, x)
  OBVIOUS
<1> HIDE DEF c, g, total
<1>9. 0 \in T
  BY <1>1, <1>2, <1>7, <1>8
<1>10. ASSUME NEW x \in T PROVE x + 1 \in T
  <2>1. x \in Nat
    OBVIOUS
  <2>2. ASSUME x + 1 <= total PROVE c[x + 1] = g[x + 1]
    <3>1. x + 1 \in 0..total /\ x \in 0..total /\ x + 1 \in 1..total /\ x + 1 # 0 /\ (x + 1) - 1 = x
      BY <1>1, <2>1, <2>2
    <3>2. c[x] = g[x]
      BY <1>1, <3>1
    <3>3. c[x + 1] = ReaderRead(data, c[x]).next
      BY <1>7, <3>1
    <3>4. ReaderRead(data, Before(pairs, x)).next = Before(pairs, x + 1)
      BY <1>3, <3>1
    <3> QED
      BY <1>8, <3>1, <3>2, <3>3, <3>4
  <2> QED
    BY <2>1, <2>2
<1>11. Nat \subseteq T
  <2>1. T \subseteq Nat
    OBVIOUS
  <2> HIDE DEF T
  <2> QED
    BY <1>9, <1>10, <2>1, NatInduct, Zenon
<1>12. k \in Nat /\ k <= total /\ k \in 0..total
  BY <1>1 DEF total
<1>13. c[k] = g[k]
  <2>1. k \in T
    <3> HIDE DEF T
    <3> QED
      BY <1>11, <1>12
  <2> QED
    BY <1>12, <2>1
<1> QED
  BY <1>2, <1>6, <1>8, <1>12, <1>13

LEMMA ReadsPairs ==
  ASSUME NEW pairs \in Seq(Pairs)
  PROVE  ReadAll(Encode(pairs)) = pairs
<1> DEFINE data == Encode(pairs)
           total == Len(pairs)
<1>1. total \in Nat /\ pairs = [k \in 1..total |-> pairs[k]] /\ \A k \in 1..total : pairs[k] \in Pairs
  <2> DEFINE P == Pairs
  <2>1. pairs \in Seq(P)
    OBVIOUS
  <2> HIDE DEF P
  <2> QED
    BY <2>1 DEF P
<1>2. ReaderInit(data).remaining = total
  <2>1. 0 \in 0..total
    BY <1>1
  <2>2. ReaderInit(data) = Before(pairs, 0)
    BY <2>1, ReadersAre, Zenon
  <2> QED
    BY <1>1, <2>2 DEF Before
<1>3. ASSUME NEW k \in 1..total
      PROVE  LET read == ReaderRead(data, Readers(data)[k - 1]) IN <<read.key, read.value>> = pairs[k]
  <2>1. k - 1 \in 0..total
    BY <1>1
  <2>2. Readers(data)[k - 1] = Before(pairs, k - 1)
    BY <2>1, ReadersAre
  <2>3. ReaderRead(data, Before(pairs, k - 1)) =
          [key |-> pairs[k][1], value |-> pairs[k][2], next |-> Before(pairs, k)]
    BY ReadNext
  <2>4. pairs[k] = <<pairs[k][1], pairs[k][2]>>
    BY <1>1, CellsAre
  <2> QED
    BY <2>2, <2>3, <2>4
<1>4. ReadAll(data) = [k \in 1..total |-> LET read == ReaderRead(data, Readers(data)[k - 1])
                                      IN  <<read.key, read.value>>]
  BY <1>2, Zenon DEF ReadAll
<1> HIDE DEF data, total
<1> QED
  BY <1>1, <1>3, <1>4, Zenon DEF data

LEMMA SizesAre ==
  ASSUME NEW pairs \in Seq(Pairs)
  PROVE  SizeOf(Encode(pairs)) = Len(Encode(pairs))
<1> DEFINE data == Encode(pairs)
           total == Len(pairs)
           q == Parts(pairs)
           Adds(f) == f = [x \in 0..total |->
                             IF x = 0 THEN 1 ELSE f[x - 1] + 2 + Len(pairs[x][1]) + Len(pairs[x][2])]
           g == [x \in 0..total |-> 1 + Ahead(q, x)]
           c == CHOOSE f : Adds(f)
           T == {x \in Nat : x <= total => c[x] = g[x]}
<1>1. total \in Nat
  BY Items
<1>2. data # <<>> /\ Len(data) = 1 + Ahead(q, total)
  <2>1. data = <<total>> \o FlattenSeq(q) /\ FlattenSeq(q) \in Seq(Nat) /\ Len(data) = 1 + Ahead(q, total)
    BY EncodingIs
  <2> HIDE DEF data
  <2> QED
    BY <1>1, <2>1
<1>3. Ahead(q, 0) = 0
  BY Nothing
<1>4. ASSUME NEW x \in 1..total
      PROVE  /\ Ahead(q, x - 1) \in Nat
             /\ 1 + Ahead(q, x) = (1 + Ahead(q, x - 1)) + 2 + Len(pairs[x][1]) + Len(pairs[x][2])
  <2>1. q \in Seq(Seq(Nat)) /\ x \in 1..Len(q) /\ q[x] = Cells(pairs[x]) /\ pairs[x] \in Pairs
    BY EncodingIs
  <2>2. Ahead(q, x - 1) \in Nat /\ Ahead(q, x) = Ahead(q, x - 1) + Len(q[x])
    <3> HIDE DEF q
    <3> QED
      BY <2>1, Cutting
  <2>3. /\ Len(q[x]) = Len(pairs[x][1]) + Len(pairs[x][2]) + 2
        /\ Len(pairs[x][1]) \in Nat /\ Len(pairs[x][2]) \in Nat
    BY <2>1, CellsAre, Items
  <2> DEFINE u == Len(pairs[x][1])  v == Len(pairs[x][2])  w == Len(q[x])
             a == Ahead(q, x - 1)  b == Ahead(q, x)
  <2> HIDE DEF u, v, w, a, b
  <2>4. a \in Nat /\ b = a + w /\ w = u + v + 2 /\ u \in Nat /\ v \in Nat
    BY <2>2, <2>3 DEF u, v, w, a, b
  <2>5. 1 + b = (1 + a) + 2 + u + v
    BY ONLY <2>4
  <2> QED
    BY <2>4, <2>5 DEF u, v, a, b
<1>5. Adds(g)
  <2>1. ASSUME NEW x \in 0..total
        PROVE  g[x] = IF x = 0 THEN 1 ELSE g[x - 1] + 2 + Len(pairs[x][1]) + Len(pairs[x][2])
    <3>1. CASE x = 0
      BY <1>1, <1>3, <3>1
    <3>2. CASE x # 0
      <4>1. x \in 1..total /\ x - 1 \in 0..total
        BY <1>1, <3>2
      <4>2. g[x] = 1 + Ahead(q, x) /\ g[x - 1] = 1 + Ahead(q, x - 1)
        BY <4>1
      <4> HIDE DEF g
      <4> QED
        BY <1>4, <3>2, <4>1, <4>2
    <3> QED
      BY <3>1, <3>2
  <2>2. g = [x \in 0..total |-> g[x]]
    OBVIOUS
  <2> HIDE DEF g
  <2> QED
    BY <2>1, <2>2
<1>6. Adds(c)
  BY <1>5, Zenon
<1>7. SizeOf(data) = c[total]
  BY <1>2, ReadsPairs, Zenon DEF SizeOf
<1>8. \A x \in 0..total : c[x] = IF x = 0 THEN 1 ELSE c[x - 1] + 2 + Len(pairs[x][1]) + Len(pairs[x][2])
  <2> HIDE DEF c
  <2> QED
    BY <1>6
<1>9. \A x \in 0..total : g[x] = 1 + Ahead(q, x)
  OBVIOUS
<1> HIDE DEF c, g, total, data, q
<1>10. 0 \in T
  BY <1>1, <1>3, <1>8, <1>9
<1>11. ASSUME NEW x \in T PROVE x + 1 \in T
  <2>1. x \in Nat
    OBVIOUS
  <2>2. ASSUME x + 1 <= total PROVE c[x + 1] = g[x + 1]
    <3>1. x + 1 \in 0..total /\ x \in 0..total /\ x + 1 \in 1..total /\ x + 1 # 0 /\ (x + 1) - 1 = x
      BY <1>1, <2>1, <2>2
    <3>2. c[x] = g[x]
      BY <1>1, <3>1
    <3>3. c[x + 1] = c[x] + 2 + Len(pairs[x + 1][1]) + Len(pairs[x + 1][2])
      BY <1>8, <3>1
    <3>4. 1 + Ahead(q, x + 1) = (1 + Ahead(q, x)) + 2 + Len(pairs[x + 1][1]) + Len(pairs[x + 1][2])
      BY <1>4, <3>1
    <3> QED
      BY <1>9, <3>1, <3>2, <3>3, <3>4
  <2> QED
    BY <2>1, <2>2
<1>12. Nat \subseteq T
  <2>1. T \subseteq Nat
    OBVIOUS
  <2> HIDE DEF T
  <2> QED
    BY <1>10, <1>11, <2>1, NatInduct, Zenon
<1>13. total \in T /\ total \in 0..total /\ total <= total
  <2> HIDE DEF T
  <2> QED
    BY <1>1, <1>12
<1>14. c[total] = g[total]
  BY <1>13
<1> QED
  BY <1>2, <1>7, <1>9, <1>13, <1>14 DEF data

(* What the buffer holds between two calls: nothing, or an encoding that fits. *)
IsBlock(b, pairs) ==
  /\ b \in [data : Seq(Nat), capacity : Nat]
  /\ IF b.capacity = 0 THEN b = NoBlock /\ pairs = <<>>
     ELSE Len(b.data) <= b.capacity /\ b.data = Encode(pairs)

(* A result of a call that asked for pairs. *)
IsResult(r, pairs) ==
  /\ r = [ok |-> r.ok, block |-> r.block, enough |-> r.enough]
  /\ r.ok \in BOOLEAN /\ r.enough \in Nat
  /\ IF r.ok THEN IsBlock(r.block, pairs) ELSE r.block = NoBlock

LEMMA AppendedCells ==
  ASSUME NEW b \in [data : Seq(Nat), capacity : Nat], Len(b.data) <= b.capacity,
         NEW cells \in Seq(Nat), cells # <<>>, NEW enough \in Nat, NEW r, r = BufferAppend(b, cells, enough)
  PROVE  /\ r = [ok |-> r.ok, block |-> r.block, enough |-> r.enough]
         /\ r.ok \in BOOLEAN /\ r.enough \in Nat
         /\ IF r.ok THEN /\ r.block \in [data : Seq(Nat), capacity : Nat]
                         /\ r.block.data = b.data \o cells
                         /\ r.block.capacity # 0 /\ Len(r.block.data) <= r.block.capacity
            ELSE r.block = NoBlock
<1> DEFINE d == b.data  cap == b.capacity  l == Len(cells)  needed == Len(d) + l
<1>1. d \in Seq(Nat) /\ cap \in Nat /\ l \in Nat /\ Len(d) \in Nat /\ Len(d) <= cap /\ b = [data |-> d, capacity |-> cap]
      /\ l # 0
  OBVIOUS
<1>2. d \o cells \in Seq(Nat) /\ Len(d \o cells) = needed
  BY <1>1
<1> DEFINE m == BufferReserve(b, Len(cells), enough)
           dd == d \o cells
<1>r. r = IF m.ok THEN [m EXCEPT !.block.data = m.block.data \o cells] ELSE m
  BY Zenon DEF BufferAppend
<1>s. ASSUME NEW ca, NEW en, m = [ok |-> TRUE, block |-> [data |-> d, capacity |-> ca], enough |-> en]
      PROVE  r = [ok |-> TRUE, block |-> [data |-> dd, capacity |-> ca], enough |-> en]
  <2> HIDE DEF m, d
  <2>1. m.ok /\ m.block.data = d
    BY <1>s
  <2> HIDE DEF dd
  <2>2. r = [m EXCEPT !.block.data = dd]
    BY <1>r, <2>1, Zenon DEF dd
  <2> QED
    BY <1>s, <2>2
<1> HIDE DEF d, cap, l
<1>3. CASE needed <= cap
  <2>1. m = [ok |-> TRUE, block |-> [data |-> d, capacity |-> cap], enough |-> enough]
    BY <1>1, <1>3 DEF BufferReserve, Made, l, d, cap
  <2>2. r = [ok |-> TRUE, block |-> [data |-> d \o cells, capacity |-> cap], enough |-> enough]
    BY <1>s, <2>1
  <2>3. cap # 0
    BY <1>1, <1>3
  <2> QED
    BY <1>1, <1>2, <1>3, <2>2, <2>3 DEF d
<1>4. CASE ~(needed <= cap) /\ enough = 0
  <2>1. m = [ok |-> FALSE, block |-> NoBlock, enough |-> 0]
    BY <1>4 DEF BufferReserve, NoMemory, l, d, cap
  <2>2. r = [ok |-> FALSE, block |-> NoBlock, enough |-> 0]
    BY <1>r, <2>1
  <2> QED
    BY <2>2
<1>5. CASE ~(needed <= cap) /\ enough # 0
  <2> DEFINE more == GrowByFactor(cap, needed)
  <2>1. more \in Nat /\ needed <= more /\ more # 0
    BY <1>1, <1>5 DEF GrowByFactor
  <2>2. m =
          [ok |-> TRUE, block |-> [data |-> d, capacity |-> more], enough |-> enough - 1]
    BY <1>1, <1>5 DEF BufferReserve, Made, l, d, cap
  <2> HIDE DEF more
  <2>3. r = [ok |-> TRUE, block |-> [data |-> d \o cells, capacity |-> more], enough |-> enough - 1]
    BY <1>s, <2>2
  <2>4. enough - 1 \in Nat
    BY <1>5
  <2> QED
    BY <1>1, <1>2, <2>1, <2>3, <2>4 DEF d
<1> QED
  BY <1>3, <1>4, <1>5

LEMMA AppendIs ==
  ASSUME NEW S, NEW s \in Seq(S), NEW e \in S
  PROVE  Append(s, e) = [i \in 1..(Len(s) + 1) |-> IF i = Len(s) + 1 THEN e ELSE s[i]]
<1> DEFINE t == Append(s, e)  total == Len(s)
<1>1. t \in Seq(S) /\ Len(t) = total + 1 /\ total \in Nat /\ t[total + 1] = e
  OBVIOUS
<1>2. \A i \in 1..total : t[i] = s[i]
  OBVIOUS
<1> HIDE DEF t, total
<1>3. t = [i \in 1..(total + 1) |-> t[i]]
  BY <1>1
<1>4. \A i \in 1..(total + 1) : t[i] = IF i = total + 1 THEN e ELSE s[i]
  BY <1>1, <1>2
<1> QED
  BY <1>3, <1>4 DEF t, total

(* Counting a pair more and adding its cells encodes it. *)
LEMMA EncodeMore ==
  ASSUME NEW pairs \in Seq(Pairs), NEW p \in Pairs
  PROVE  /\ Append(pairs, p) \in Seq(Pairs)
         /\ Encode(Append(pairs, p)) = [Encode(pairs) \o Cells(p) EXCEPT ![1] = @ + 1]
         /\ Encode(pairs) \o Cells(p) \in Seq(Nat) /\ (Encode(pairs) \o Cells(p))[1] = Len(pairs)
         /\ Cells(p) # <<>>
<1> DEFINE more == Append(pairs, p)
           total == Len(pairs)
           q == Parts(pairs)
           F == FlattenSeq(q)
           c == Cells(p)
<1>1. total \in Nat /\ more \in Seq(Pairs) /\ Len(more) = total + 1
  <2> DEFINE P == Pairs
  <2>1. pairs \in Seq(P) /\ p \in P
    OBVIOUS
  <2> HIDE DEF P
  <2> QED
    BY <2>1 DEF P
<1>2. c \in Seq(Nat) /\ c # <<>>
  <2>1. c \in Seq(Nat) /\ Len(c) = Len(p[1]) + Len(p[2]) + 2 /\ Len(p[1]) \in Nat /\ Len(p[2]) \in Nat
    BY CellsAre, Items
  <2> DEFINE u == Len(p[1])  v == Len(p[2])
  <2> HIDE DEF c, u, v
  <2>2. c \in Seq(Nat) /\ Len(c) = u + v + 2 /\ u \in Nat /\ v \in Nat
    BY <2>1 DEF u, v
  <2> QED
    BY ONLY <2>2
<1>3. q \in Seq(Seq(Nat)) /\ F \in Seq(Nat) /\ Encode(pairs) = <<total>> \o F
  BY EncodingIs
<1>4. Encode(more) = <<total + 1>> \o FlattenSeq(Parts(more))
  BY <1>1, EncodingIs, Zenon
<1>5. Parts(more) = Append(q, c)
  <2> DEFINE P == Pairs
  <2>1. pairs \in Seq(P) /\ p \in P
    OBVIOUS
  <2>2. Append(q, c) = [i \in 1..(total + 1) |-> IF i = total + 1 THEN c ELSE q[i]]
    <3> DEFINE SS == Seq(Nat)
    <3>1. q \in Seq(SS) /\ c \in SS /\ Len(q) = total
      BY <1>2, <1>3, EncodingIs
    <3> HIDE DEF q, c, SS, total
    <3> QED
      BY <3>1, AppendIs
  <2>3. DOMAIN more = 1..(total + 1) /\ \A i \in 1..(total + 1) : more[i] = IF i = total + 1 THEN p ELSE pairs[i]
    <3> HIDE DEF P
    <3> QED
      BY <2>1
  <2>4. \A i \in 1..total : q[i] = Cells(pairs[i])
    BY EncodingIs
  <2>5. ASSUME NEW i \in 1..(total + 1) PROVE Cells(more[i]) = IF i = total + 1 THEN c ELSE q[i]
    <3>1. CASE i = total + 1
      BY <2>3, <3>1
    <3>2. CASE i # total + 1
      <4>1. i \in 1..total
        BY <1>1, <3>2
      <4> HIDE DEF q
      <4> QED
        BY <2>3, <2>4, <3>2, <4>1
    <3> QED
      BY <3>1, <3>2
  <2>6. Parts(more) = [i \in 1..(total + 1) |-> Cells(more[i])]
    BY <2>3, Zenon DEF Parts
  <2> HIDE DEF q, c, more
  <2> QED
    BY <2>2, <2>5, <2>6
<1>6. FlattenSeq(Parts(more)) = F \o c
  <2> HIDE DEF q, c
  <2> QED
    BY <1>2, <1>3, <1>5, FlattenMore, Zenon
<1> HIDE DEF more, total, F, c
<1>7. (<<total>> \o F) \o c \in Seq(Nat) /\ ((<<total>> \o F) \o c)[1] = total
  <2>1. <<total>> \o F \in Seq(Nat) /\ (<<total>> \o F)[1] = total /\ Len(<<total>> \o F) = Len(F) + 1 /\ Len(F) \in Nat
    BY <1>1, <1>3
  <2> DEFINE a == <<total>> \o F
  <2> HIDE DEF a
  <2> QED
    BY <1>2, <2>1 DEF a
<1>8. <<total + 1>> \o (F \o c) = [(<<total>> \o F) \o c EXCEPT ![1] = total + 1]
  <2> DEFINE u == Len(F)  v == Len(c)
             x == <<total + 1>> \o (F \o c)
             y == (<<total>> \o F) \o c
             z == <<total>> \o F
             w == F \o c
  <2>1. u \in Nat /\ v \in Nat
    BY <1>2, <1>3
  <2>2. w \in Seq(Nat) /\ Len(w) = u + v
    BY <1>2, <1>3
  <2>3. \A j \in 1..u : w[j] = F[j]
    BY <1>2, <1>3, Glued
  <2>4. \A j \in 1..v : w[u + j] = c[j]
    BY <1>2, <1>3, Glued
  <2>5. z \in Seq(Nat) /\ Len(z) = u + 1 /\ z[1] = total /\ \A j \in 1..u : z[1 + j] = F[j]
    BY <1>1, <1>3
  <2> HIDE DEF w, z, u, v
  <2>6. x = <<total + 1>> \o w /\ y = z \o c
    BY DEF w, z
  <2> HIDE DEF x, y
  <2>7. x \in Seq(Nat) /\ Len(x) = u + v + 1 /\ x[1] = total + 1 /\ \A j \in 1..(u + v) : x[1 + j] = w[j]
    BY <1>1, <2>1, <2>2, <2>6
  <2>8. y \in Seq(Nat) /\ Len(y) = Len(z) + v
    BY <1>2, <2>5, <2>6, Glued, Zenon DEF v
  <2>9. \A j \in 1..Len(z) : y[j] = z[j]
    BY <1>2, <2>5, <2>6, Glued, Zenon
  <2>10. \A j \in 1..v : y[Len(z) + j] = c[j]
    <3>0. z \in Seq(Nat) /\ c \in Seq(Nat)
      BY <1>2, <2>5
    <3>1. \A j \in 1..Len(c) : (z \o c)[Len(z) + j] = c[j]
      BY ONLY <3>0, Glued
    <3> QED
      BY <2>6, <3>1 DEF v
  <2>11. ASSUME NEW j \in 2..(u + v + 1) PROVE x[j] = y[j]
    <3>1. j - 1 \in 1..(u + v) /\ 1 + (j - 1) = j
      BY <2>1
    <3>2. x[j] = w[j - 1]
      BY <2>7, <3>1
    <3>3. CASE j <= u + 1
      <4>1. j - 1 \in 1..u /\ j \in 1..(u + 1)
        BY <2>1, <3>3
      <4> QED
        BY ONLY <2>3, <2>5, <2>9, <3>1, <3>2, <4>1
    <3>4. CASE ~(j <= u + 1)
      <4>1. j - u - 1 \in 1..v /\ u + (j - u - 1) = j - 1 /\ u + 1 + (j - u - 1) = j
        BY <2>1, <3>4
      <4> QED
        BY ONLY <2>4, <2>5, <2>10, <3>2, <4>1
    <3> QED
      BY <3>3, <3>4
  <2>12. x = [j \in 1..(u + v + 1) |-> x[j]] /\ y = [j \in 1..(u + v + 1) |-> y[j]]
    BY <2>1, <2>5, <2>7, <2>8
  <2>13. \A j \in 1..(u + v + 1) : x[j] = IF j = 1 THEN total + 1 ELSE y[j]
    BY <2>1, <2>7, <2>11
  <2>14. x = [y EXCEPT ![1] = total + 1]
    BY <2>12, <2>13
  <2> QED
    BY <2>14 DEF x, y
<1> QED
  BY <1>1, <1>2, <1>3, <1>4, <1>6, <1>7, <1>8 DEF more, total, c

(* ArrowMetadataBuilderAppendInternal: the pair is added, or the block is gone. *)
LEMMA Appended ==
  ASSUME NEW pairs \in Seq(Pairs), NEW b, IsBlock(b, pairs), NEW p \in Pairs, NEW enough \in Nat
  PROVE  IsResult(AppendInternal(b, p, enough), Append(pairs, p))
<1> DEFINE begun == IF b.capacity = 0 THEN BufferAppend(b, <<0>>, enough) ELSE Made(b, enough)
           r == BufferAppend(begun.block, Cells(p), begun.enough)
           full == Encode(pairs) \o Cells(p)
<1>1. /\ begun.ok \in BOOLEAN /\ begun.enough \in Nat
      /\ begun = [ok |-> begun.ok, block |-> begun.block, enough |-> begun.enough]
      /\ IF begun.ok
         THEN /\ begun.block \in [data : Seq(Nat), capacity : Nat]
              /\ begun.block.data = Encode(pairs) /\ Len(begun.block.data) <= begun.block.capacity
         ELSE begun.block = NoBlock
  <2>1. CASE b.capacity = 0
    <3>1. b = [data |-> <<>>, capacity |-> 0] /\ pairs = <<>>
      BY <2>1 DEF IsBlock, NoBlock
    <3>2. Encode(pairs) = <<>> \o <<0>>
      <4>1. Parts(pairs) \in Seq(Seq(Nat)) /\ Len(Parts(pairs)) = 0
        BY <3>1, EncodingIs
      <4>2. FlattenSeq(Parts(pairs)) = <<>>
        BY <4>1, FlattenWhole, FlattenNothing
      <4>3. Encode(pairs) = <<0>> \o <<>>
        BY <3>1, <4>2, EncodingIs
      <4> QED
        BY <4>3
    <3>3. b \in [data : Seq(Nat), capacity : Nat] /\ Len(b.data) <= b.capacity /\ <<0>> \in Seq(Nat) /\ <<0>> # <<>>
      BY <3>1
    <3>4. begun = BufferAppend(b, <<0>>, enough)
      BY <2>1
    <3> HIDE DEF begun
    <3>5. /\ begun.ok \in BOOLEAN /\ begun.enough \in Nat
          /\ begun = [ok |-> begun.ok, block |-> begun.block, enough |-> begun.enough]
          /\ IF begun.ok
             THEN /\ begun.block \in [data : Seq(Nat), capacity : Nat]
                  /\ begun.block.data = b.data \o <<0>> /\ Len(begun.block.data) <= begun.block.capacity
             ELSE begun.block = NoBlock
      BY <3>3, <3>4, AppendedCells
    <3> QED
      BY <3>1, <3>2, <3>5
  <2>2. CASE b.capacity # 0
    BY <2>2 DEF IsBlock, Made
  <2> QED
    BY <2>1, <2>2
<1>2. AppendInternal(b, p, enough) =
        IF ~begun.ok THEN begun
        ELSE IF r.ok THEN [r EXCEPT !.block.data[1] = CountsPair(@)] ELSE r
  BY Zenon DEF AppendInternal
<1> HIDE DEF begun
<1>3. CASE ~begun.ok
  BY <1>1, <1>2, <1>3 DEF IsResult
<1>4. CASE begun.ok
  <2>1. /\ r = [ok |-> r.ok, block |-> r.block, enough |-> r.enough]
        /\ r.ok \in BOOLEAN /\ r.enough \in Nat
        /\ IF r.ok THEN /\ r.block \in [data : Seq(Nat), capacity : Nat]
                        /\ r.block.data = full
                        /\ r.block.capacity # 0 /\ Len(r.block.data) <= r.block.capacity
           ELSE r.block = NoBlock
    <3> DEFINE bl == begun.block  en == begun.enough  c == Cells(p)
    <3>1. /\ c \in Seq(Nat) /\ c # <<>> /\ bl \in [data : Seq(Nat), capacity : Nat]
          /\ Len(bl.data) <= bl.capacity /\ en \in Nat /\ r = BufferAppend(bl, c, en)
          /\ full = bl.data \o c
      BY <1>1, <1>4, CellsAre, EncodeMore
    <3> HIDE DEF bl, en, c, r, full
    <3> QED
      BY <3>1, AppendedCells
  <2>2. /\ Encode(Append(pairs, p)) = [full EXCEPT ![1] = @ + 1] /\ full \in Seq(Nat)
        /\ Append(pairs, p) \in Seq(Pairs) /\ full[1] = Len(pairs)
    BY EncodeMore
  <2>3. Len(Encode(Append(pairs, p))) = Len(full) /\ Encode(Append(pairs, p)) \in Seq(Nat)
    <3>1. Encode(Append(pairs, p)) \in Seq(Nat)
      BY <2>2, EncodingIs
    <3> HIDE DEF full
    <3>2. DOMAIN Encode(Append(pairs, p)) = DOMAIN full
      BY <2>2
    <3> QED
      BY <2>2, <3>1, <3>2
  <2> HIDE DEF r, full
  <2>4. CASE ~r.ok
    BY <1>2, <1>4, <2>1, <2>4 DEF IsResult
  <2>5. CASE r.ok
    <3> DEFINE e == Encode(Append(pairs, p))
               x == AppendInternal(b, p, enough)
    <3>1. x = [r EXCEPT !.block.data[1] = CountsPair(@)]
      BY <1>2, <1>4, <2>5
    <3>2. r.block = [data |-> full, capacity |-> r.block.capacity]
      BY <2>1, <2>5
    <3>3. x = [ok |-> TRUE, block |-> [data |-> [full EXCEPT ![1] = @ + 1], capacity |-> r.block.capacity],
               enough |-> r.enough]
      <4> DEFINE ok == r.ok  bl == r.block  en == r.enough  ca == bl.capacity
      <4>1. r = [ok |-> ok, block |-> bl, enough |-> en] /\ bl = [data |-> full, capacity |-> ca] /\ ok = TRUE
        BY <2>1, <2>5, <3>2
      <4> HIDE DEF ok, bl, en, ca, x
      <4>2. r = [ok |-> TRUE, block |-> [data |-> full, capacity |-> ca], enough |-> en]
        BY <4>1
      <4>3. x = [ok |-> TRUE, block |-> [data |-> [full EXCEPT ![1] = @ + 1], capacity |-> ca], enough |-> en]
        BY <3>1, <4>2 DEF CountsPair
      <4> QED
        BY <4>3 DEF ca, bl, en
    <3> HIDE DEF x
    <3>4. x = [ok |-> TRUE, block |-> [data |-> e, capacity |-> r.block.capacity], enough |-> r.enough]
      BY <2>2, <3>3
    <3>5. r.block.capacity \in Nat /\ r.block.capacity # 0 /\ Len(e) <= r.block.capacity /\ e \in Seq(Nat)
      BY <2>1, <2>3, <2>5
    <3> HIDE DEF e
    <3>6. IsBlock(x.block, Append(pairs, p))
      BY <3>4, <3>5 DEF IsBlock, e
    <3> QED
      BY <2>1, <3>4, <3>6 DEF IsResult, x
  <2> QED
    BY <2>1, <2>4, <2>5
<1> QED
  BY <1>1, <1>3, <1>4

(* What a rebuild makes of each pair. *)
IsValue(value) == value = <<>> \/ \E v \in Seq(Nat) : value = <<v>>
Remade(pairs, key, value, i) ==
  IF pairs[i][1] # key THEN <<pairs[i]>>
  ELSE IF IsFirst(pairs, key, i) /\ value # <<>> THEN <<<<key, value[1]>>>>
  ELSE <<>>
AllRemade(pairs, key, value) == [i \in DOMAIN pairs |-> Remade(pairs, key, value, i)]

LEMMA RemadeAre ==
  ASSUME NEW pairs \in Seq(Pairs), NEW key \in Seq(Nat), NEW value, IsValue(value)
  PROVE  /\ Len(pairs) \in Nat /\ DOMAIN pairs = 1..Len(pairs)
         /\ \A i \in 1..Len(pairs) : pairs[i] \in Pairs /\ Remade(pairs, key, value, i) \in Seq(Pairs)
         /\ AllRemade(pairs, key, value) \in Seq(Seq(Pairs))
         /\ Len(AllRemade(pairs, key, value)) = Len(pairs)
         /\ \A i \in 1..Len(pairs) : AllRemade(pairs, key, value)[i] = Remade(pairs, key, value, i)
<1> DEFINE total == Len(pairs)
<1>1. total \in Nat /\ DOMAIN pairs = 1..total /\ \A i \in 1..total : pairs[i] \in Pairs
  BY Items, Zenon
<1>2. ASSUME NEW i \in 1..total PROVE Remade(pairs, key, value, i) \in Seq(Pairs)
  <2> DEFINE P == Pairs
  <2>1. pairs[i] \in P
    BY <1>1
  <2>2. value # <<>> => <<key, value[1]>> \in P
    BY DEF IsValue, Pairs
  <2>3. Remade(pairs, key, value, i) \in {<<pairs[i]>>, <<>>}
        \/ (value # <<>> /\ Remade(pairs, key, value, i) = <<<<key, value[1]>>>>)
    BY DEF Remade
  <2> DEFINE kv == <<key, value[1]>>
  <2> HIDE DEF P, kv
  <2>4. <<>> \in Seq(P) /\ <<pairs[i]>> \in Seq(P) /\ (value # <<>> => <<kv>> \in Seq(P))
    BY <2>1, <2>2 DEF kv
  <2> QED
    BY <2>3, <2>4 DEF P, kv
<1>3. AllRemade(pairs, key, value) = [i \in 1..total |-> Remade(pairs, key, value, i)]
  BY <1>1, Zenon DEF AllRemade
<1> DEFINE SP == Seq(Pairs)
<1> HIDE DEF total, SP
<1>4. AllRemade(pairs, key, value) \in Seq(SP) /\ Len(AllRemade(pairs, key, value)) = total
      /\ \A i \in 1..total : AllRemade(pairs, key, value)[i] = Remade(pairs, key, value, i)
  BY <1>1, <1>2, <1>3 DEF SP
<1> QED
  BY <1>1, <1>2, <1>4 DEF total, SP

LEMMA OneMore ==
  ASSUME NEW P, NEW pairs \in Seq(P), NEW p \in P
  PROVE  Append(pairs, p) = pairs \o <<p>> /\ pairs \o <<>> = pairs
OBVIOUS

LEMMA PairRemade ==
  ASSUME NEW pairs \in Seq(Pairs), NEW key \in Seq(Nat), NEW value, IsValue(value),
         NEW i \in 1..Len(pairs), NEW made \in Seq(Pairs), NEW r, IsResult(r, made), r.ok
  PROVE  IsResult(RewritePair(r, pairs, key, value, i), made \o Remade(pairs, key, value, i))
<1> DEFINE P == Pairs
           x == RewritePair(r, pairs, key, value, i)
<1>1. IsBlock(r.block, made) /\ r.enough \in Nat /\ pairs[i] \in P /\ made \in Seq(P)
  BY RemadeAre DEF IsResult
<1>2. CASE pairs[i][1] # key
  <2>1. x = AppendInternal(r.block, pairs[i], r.enough)
    BY <1>2 DEF RewritePair, IsFirst
  <2>2. Remade(pairs, key, value, i) = <<pairs[i]>>
    BY <1>2 DEF Remade
  <2>3. IsResult(x, Append(made, pairs[i]))
    <3> HIDE DEF x
    <3> QED
      BY <1>1, <2>1, Appended
  <2>4. Append(made, pairs[i]) = made \o <<pairs[i]>>
    <3> HIDE DEF P
    <3> QED
      BY <1>1, OneMore
  <2> HIDE DEF x
  <2> QED
    BY <2>2, <2>3, <2>4 DEF x
<1>3. CASE pairs[i][1] = key /\ IsFirst(pairs, key, i) /\ value # <<>>
  <2> DEFINE kv == <<key, value[1]>>
  <2>1. x = AppendInternal(r.block, kv, r.enough)
    BY <1>3 DEF RewritePair
  <2>2. Remade(pairs, key, value, i) = <<kv>>
    BY <1>3 DEF Remade
  <2>3. kv \in P
    BY <1>3 DEF IsValue, Pairs
  <2> HIDE DEF kv
  <2>4. IsResult(x, Append(made, kv))
    <3> HIDE DEF x
    <3> QED
      BY <1>1, <2>1, <2>3, Appended
  <2>5. Append(made, kv) = made \o <<kv>>
    <3> HIDE DEF P
    <3> QED
      BY <1>1, <2>3, OneMore
  <2> HIDE DEF x
  <2> QED
    BY <2>2, <2>4, <2>5 DEF x
<1>4. CASE pairs[i][1] = key /\ ~(IsFirst(pairs, key, i) /\ value # <<>>)
  <2>1. x = r /\ Remade(pairs, key, value, i) = <<>>
    BY <1>4 DEF RewritePair, Remade
  <2>2. made \o <<>> = made
    <3> HIDE DEF P
    <3> QED
      BY <1>1
  <2> QED
    BY <2>1, <2>2
<1> QED
  BY <1>2, <1>3, <1>4

(* ArrowMetadataBuilderSetInternal, the rebuild: all of the pairs remade. *)
LEMMA Rewritten ==
  ASSUME NEW pairs \in Seq(Pairs), NEW key \in Seq(Nat), NEW value, IsValue(value), NEW enough \in Nat
  PROVE  IsResult(Rewrite(pairs, key, value, enough), FlattenSeq(AllRemade(pairs, key, value)))
<1> DEFINE total == Len(pairs)
           q == AllRemade(pairs, key, value)
           Extend(r, i) == IF r.ok THEN RewritePair(r, pairs, key, value, i) ELSE r
           Steps(f, k) == f = [i \in 0..k |->
             IF i = 0 THEN Made(NoBlock, enough)
             ELSE IF f[i - 1].ok THEN RewritePair(f[i - 1], pairs, key, value, i)
             ELSE f[i - 1]]
           T == {k \in Nat : \E f : Steps(f, k)}
<1>1. total \in Nat /\ q \in Seq(Seq(Pairs)) /\ Len(q) = total
      /\ \A i \in 1..total : q[i] = Remade(pairs, key, value, i)
  BY RemadeAre
<1> HIDE DEF total, q
<1>2. 0 \in T
  <2> DEFINE g == [i \in 0..0 |-> Made(NoBlock, enough)]
  <2>1. ASSUME NEW i \in 0..0
        PROVE  g[i] = IF i = 0 THEN Made(NoBlock, enough) ELSE Extend(g[i - 1], i)
    OBVIOUS
  <2>2. g = [i \in 0..0 |-> g[i]]
    OBVIOUS
  <2> HIDE DEF g
  <2>3. Steps(g, 0)
    BY <2>1, <2>2
  <2> HIDE DEF Steps
  <2> QED
    BY <2>3
<1>3. ASSUME NEW k \in T PROVE k + 1 \in T
  <2>0. k \in Nat
    OBVIOUS
  <2>1. PICK f : Steps(f, k)
    OBVIOUS
  <2> DEFINE e == Extend(f[k], k + 1)
             g == [i \in 0..(k + 1) |-> IF i = k + 1 THEN e ELSE f[i]]
  <2>2. \A i \in 0..k : f[i] = IF i = 0 THEN Made(NoBlock, enough) ELSE Extend(f[i - 1], i)
    <3> HIDE DEF Extend
    <3> QED
      BY <2>1 DEF Extend
  <2>3. (\A i \in 0..k : g[i] = f[i]) /\ g[k + 1] = e
    <3> HIDE DEF e
    <3> QED
      BY <2>0
  <2>4. g = [i \in 0..(k + 1) |-> g[i]]
    OBVIOUS
  <2>5. e = Extend(f[k], k + 1)
    OBVIOUS
  <2> HIDE DEF e, g, Extend
  <2>6. ASSUME NEW i \in 0..(k + 1)
        PROVE  g[i] = IF i = 0 THEN Made(NoBlock, enough) ELSE Extend(g[i - 1], i)
    <3>1. CASE i = k + 1
      <4>1. i # 0 /\ i - 1 = k /\ k \in 0..k
        BY <2>0, <3>1
      <4> QED
        BY <2>3, <2>5, <3>1, <4>1
    <3>2. CASE i # k + 1
      <4>1. i \in 0..k /\ (i # 0 => i - 1 \in 0..k)
        BY <2>0, <3>2
      <4> QED
        BY <2>2, <2>3, <4>1
    <3> QED
      BY <3>1, <3>2
  <2>7. Steps(g, k + 1)
    BY <2>4, <2>6 DEF Extend
  <2> HIDE DEF Steps
  <2> QED
    BY <2>0, <2>7
<1>4. Nat \subseteq T
  <2>1. T \subseteq Nat
    OBVIOUS
  <2> HIDE DEF T
  <2> QED
    BY <1>2, <1>3, <2>1, NatInduct, Zenon
<1>5. \E f : Steps(f, total)
  BY <1>1, <1>4
<1> DEFINE c == CHOOSE f : Steps(f, total)
<1>6. Steps(c, total)
  BY <1>5, Zenon
<1>7. Rewrite(pairs, key, value, enough) = c[total]
  BY Zenon DEF Rewrite, total
<1>8. \A i \in 0..total : c[i] = IF i = 0 THEN Made(NoBlock, enough) ELSE Extend(c[i - 1], i)
  <2> HIDE DEF c, Extend
  <2> QED
    BY <1>6 DEF Extend
<1> HIDE DEF c, Steps, T
<1> DEFINE So(k) == FlattenSeq(SubSeq(q, 1, k))
           U == {k \in Nat : k <= total => IsResult(c[k], So(k))}
<1>9. 0 \in U
  <2>1. c[0] = [ok |-> TRUE, block |-> NoBlock, enough |-> enough]
    <3>1. 0 \in 0..total
      BY <1>1
    <3> HIDE DEF Extend
    <3>2. c[0] = Made(NoBlock, enough)
      BY <1>8, <3>1
    <3> QED
      BY <3>2 DEF Made
  <2>2. So(0) = <<>>
    BY FlattenNothing
  <2> HIDE DEF So
  <2>3. IsBlock(NoBlock, <<>>)
    BY DEF IsBlock, NoBlock
  <2>4. IsResult(c[0], So(0))
    BY <2>1, <2>2, <2>3 DEF IsResult
  <2> QED
    BY <2>4
<1>10. ASSUME NEW k \in U PROVE k + 1 \in U
  <2>1. k \in Nat
    OBVIOUS
  <2>2. ASSUME k + 1 <= total PROVE IsResult(c[k + 1], So(k + 1))
    <3>1. k <= total /\ k + 1 \in 1..total /\ k + 1 \in 0..total /\ k + 1 # 0 /\ (k + 1) - 1 = k
      BY <1>1, <2>1, <2>2
    <3>2. IsResult(c[k], So(k))
      BY <3>1
    <3>3. So(k) \in Seq(Pairs) /\ So(k + 1) = So(k) \o Remade(pairs, key, value, k + 1)
      <4> DEFINE j == k + 1  P == Pairs
      <4>1. j \in 1..Len(q) /\ q \in Seq(Seq(P)) /\ j - 1 = k /\ q[j] = Remade(pairs, key, value, j)
        BY <1>1, <3>1
      <4> HIDE DEF j, P
      <4>2. FlattenSeq(SubSeq(q, 1, j - 1)) \in Seq(P)
            /\ FlattenSeq(SubSeq(q, 1, j)) = FlattenSeq(SubSeq(q, 1, j - 1)) \o q[j]
        BY <4>1, FlattenStep, Zenon
      <4> QED
        BY <4>1, <4>2 DEF j, P
    <3>4. c[k + 1] = IF c[k].ok THEN RewritePair(c[k], pairs, key, value, k + 1) ELSE c[k]
      BY <1>8, <3>1
    <3> HIDE DEF So
    <3>5. CASE c[k].ok
      <4>1. k + 1 \in 1..Len(pairs)
        BY <3>1 DEF total
      <4>2. IsResult(RewritePair(c[k], pairs, key, value, k + 1), So(k) \o Remade(pairs, key, value, k + 1))
        BY <3>2, <3>3, <3>5, <4>1, PairRemade
      <4> QED
        BY <3>3, <3>4, <3>5, <4>2
    <3>6. CASE ~c[k].ok
      BY <3>2, <3>4, <3>6 DEF IsResult
    <3> QED
      BY <3>5, <3>6
  <2> QED
    BY <2>1, <2>2
<1>11. Nat \subseteq U
  <2>1. U \subseteq Nat
    OBVIOUS
  <2> HIDE DEF U
  <2> QED
    BY <1>9, <1>10, <2>1, NatInduct, Zenon
<1>12. IsResult(c[total], So(total))
  <2>1. total \in U /\ total <= total
    <3> HIDE DEF U
    <3> QED
      BY <1>1, <1>11
  <2> QED
    BY <2>1
<1>13. FlattenSeq(q) = So(total)
  <2> DEFINE P == Pairs
  <2>1. q \in Seq(Seq(P)) /\ Len(q) = total
    BY <1>1
  <2> HIDE DEF P
  <2> QED
    BY <2>1, FlattenWhole
<1> HIDE DEF So
<1> QED
  BY <1>7, <1>12, <1>13 DEF q

(* Every pair kept is the sequence of pairs. *)
LEMMA FlattenSingles ==
  ASSUME NEW P, NEW pairs \in Seq(P), NEW q \in Seq(Seq(P)), Len(q) = Len(pairs),
         \A i \in 1..Len(pairs) : q[i] = <<pairs[i]>>
  PROVE  FlattenSeq(q) = pairs
<1> DEFINE total == Len(pairs)
           T == {k \in Nat : k <= total => FlattenSeq(SubSeq(q, 1, k)) = SubSeq(pairs, 1, k)}
<1>1. total \in Nat /\ Len(q) = total /\ SubSeq(pairs, 1, total) = pairs /\ SubSeq(pairs, 1, 0) = <<>>
  OBVIOUS
<1>2. \A k \in 1..total : SubSeq(pairs, 1, k) = SubSeq(pairs, 1, k - 1) \o <<pairs[k]>>
  OBVIOUS
<1>3. \A i \in 1..total : q[i] = <<pairs[i]>>
  OBVIOUS
<1> HIDE DEF total
<1>4. 0 \in T
  BY <1>1, FlattenNothing
<1>5. ASSUME NEW k \in T PROVE k + 1 \in T
  <2>1. k \in Nat
    OBVIOUS
  <2>2. ASSUME k + 1 <= total PROVE FlattenSeq(SubSeq(q, 1, k + 1)) = SubSeq(pairs, 1, k + 1)
    <3> DEFINE j == k + 1
    <3>1. k <= total /\ j \in 1..total /\ j \in 1..Len(q) /\ j - 1 = k
      BY <1>1, <2>1, <2>2
    <3>2. FlattenSeq(SubSeq(q, 1, k)) = SubSeq(pairs, 1, k)
      BY <3>1
    <3> HIDE DEF j
    <3>3. FlattenSeq(SubSeq(q, 1, j)) = FlattenSeq(SubSeq(q, 1, j - 1)) \o q[j]
      BY <3>1, FlattenStep, Zenon
    <3>4. FlattenSeq(SubSeq(q, 1, j)) = SubSeq(pairs, 1, j)
      BY <1>2, <1>3, <3>1, <3>2, <3>3
    <3> QED
      BY <3>4 DEF j
  <2> QED
    BY <2>1, <2>2
<1>6. Nat \subseteq T
  <2>1. T \subseteq Nat
    OBVIOUS
  <2> HIDE DEF T
  <2> QED
    BY <1>4, <1>5, <2>1, NatInduct, Zenon
<1>7. total \in T /\ total <= total
  <2> HIDE DEF T
  <2> QED
    BY <1>1, <1>6
<1>8. FlattenSeq(SubSeq(q, 1, total)) = pairs
  BY <1>1, <1>7
<1> QED
  BY <1>1, <1>8, FlattenWhole

LEMMA ReadsNothing ==
  ReadAll(<<>>) = <<>> /\ SizeOf(<<>>) = 0
<1>1. ReaderInit(<<>>).remaining = 0
  BY DEF ReaderInit
<1>2. ReadAll(<<>>) = [k \in 1..0 |-> LET read == ReaderRead(<<>>, Readers(<<>>)[k - 1])
                                      IN  <<read.key, read.value>>]
  BY <1>1, Zenon DEF ReadAll
<1> QED
  BY <1>2 DEF SizeOf

(* What a block of pairs reads back as. *)
LEMMA BlockReads ==
  ASSUME NEW pairs \in Seq(Pairs), NEW b, IsBlock(b, pairs)
  PROVE  /\ ReadAll(b.data) = pairs
         /\ SizeOf(b.data) = Len(b.data)
<1>1. CASE b.capacity = 0
  <2>1. b.data = <<>> /\ pairs = <<>>
    BY <1>1 DEF IsBlock, NoBlock
  <2> QED
    BY <2>1, ReadsNothing
<1>2. CASE b.capacity # 0
  <2>1. b.data = Encode(pairs)
    BY <1>2 DEF IsBlock
  <2> QED
    BY <2>1, ReadsPairs, SizesAre
<1> QED
  BY <1>1, <1>2

LEMMA KeysFound ==
  ASSUME NEW pairs \in Seq(Pairs), NEW data, ReadAll(data) = pairs, NEW key
  PROVE  HasKey(data, key) = \E i \in DOMAIN pairs : pairs[i][1] = key
<1> DEFINE total == Len(pairs)
           I == {i \in 1..total : pairs[i][1] = key}
           found == SelectInSeq(pairs, LAMBDA pair : pair[1] = key)
<1>1. total \in Nat /\ DOMAIN pairs = 1..total
  BY Items
<1>2. found = IF I # {} THEN Min(I) ELSE 0
  BY Zenon DEF SelectInSeq
<1>3. GetValue(data, key) = IF found = 0 THEN <<>> ELSE <<pairs[found][2]>>
  BY Zenon DEF GetValue
<1>4. I # {} => Min(I) # 0
  <2> SUFFICES ASSUME I # {} PROVE Min(I) # 0
    OBVIOUS
  <2>1. I \subseteq Nat /\ 0 \notin I
    BY <1>1
  <2> HIDE DEF I
  <2>2. \E x \in I : \A y \in I : x =< y
    BY <2>1, Least
  <2>3. Min(I) \in I
    BY <2>2, Zenon DEF Min
  <2> QED
    BY <2>1, <2>3
<1> HIDE DEF found
<1>5. (GetValue(data, key) # <<>>) = (I # {})
  <2>1. CASE I = {}
    BY <1>2, <1>3, <2>1
  <2>2. CASE I # {}
    <3>1. GetValue(data, key) = <<pairs[found][2]>>
      BY <1>2, <1>3, <1>4, <2>2
    <3> HIDE DEF I
    <3> QED
      BY <2>2, <3>1
  <2> QED
    BY <2>1, <2>2
<1> QED
  BY <1>1, <1>5, Zenon DEF HasKey

(* What nanoarrow.h promises of a call that sets a value, or removes one. *)
Promised(pairs, key, value) ==
  IF value = <<>> THEN Without(pairs, key) ELSE OnlyEntry(pairs, key, value[1])

LEMMA PromisedIs ==
  ASSUME NEW pairs \in Seq(Pairs), NEW key \in Seq(Nat), NEW value, IsValue(value)
  PROVE  /\ (\E i \in DOMAIN pairs : pairs[i][1] = key) =>
              Promised(pairs, key, value) = FlattenSeq(AllRemade(pairs, key, value))
         /\ ~(\E i \in DOMAIN pairs : pairs[i][1] = key) =>
              Promised(pairs, key, value) = IF value = <<>> THEN pairs ELSE Append(pairs, <<key, value[1]>>)
         /\ Promised(pairs, key, value) \in Seq(Pairs)
<1> DEFINE q == AllRemade(pairs, key, value)
           D == DOMAIN pairs
<1>1. CASE value = <<>>
  <2>1. \A i \in D : Remade(pairs, key, value, i) = IF pairs[i][1] = key THEN <<>> ELSE <<pairs[i]>>
    BY <1>1 DEF Remade
  <2>2. q = [i \in D |-> IF pairs[i][1] = key THEN <<>> ELSE <<pairs[i]>>]
    BY <2>1, Zenon DEF AllRemade
  <2>3. Promised(pairs, key, value) = FlattenSeq(q)
    BY <1>1, <2>2, Zenon DEF Promised, Without
  <2>4. q \in Seq(Seq(Pairs)) /\ Len(q) = Len(pairs) /\ D = 1..Len(pairs)
        /\ \A i \in 1..Len(pairs) : q[i] = Remade(pairs, key, value, i)
    BY RemadeAre
  <2>5. ASSUME ~(\E i \in D : pairs[i][1] = key) PROVE FlattenSeq(q) = pairs
    <3>1. \A i \in 1..Len(pairs) : q[i] = <<pairs[i]>>
      BY <2>1, <2>4, <2>5, Zenon
    <3> HIDE DEF q
    <3> QED
      BY <2>4, <3>1, FlattenSingles, Zenon
  <2>6. FlattenSeq(q) \in Seq(Pairs)
    <3> HIDE DEF q
    <3> QED
      BY <2>4, FlattenWhole, Zenon
  <2> HIDE DEF q
  <2> QED
    BY <1>1, <2>3, <2>5, <2>6 DEF q
<1>2. CASE value # <<>>
  <2> DEFINE v == value[1]
  <2>1. v \in Seq(Nat) /\ <<key, v>> \in Pairs
    BY <1>2 DEF IsValue, Pairs
  <2>2. \A i \in D : Remade(pairs, key, value, i) =
                       CASE pairs[i][1] # key -> <<pairs[i]>>
                         [] IsFirst(pairs, key, i) -> <<<<key, v>>>>
                         [] OTHER -> <<>>
    BY <1>2 DEF Remade, IsFirst
  <2>3. q = [i \in D |-> CASE pairs[i][1] # key -> <<pairs[i]>>
                           [] IsFirst(pairs, key, i) -> <<<<key, v>>>>
                           [] OTHER -> <<>>]
    BY <2>2, Zenon DEF AllRemade
  <2>4. Promised(pairs, key, value) =
          IF \A i \in D : pairs[i][1] # key THEN Append(pairs, <<key, v>>) ELSE FlattenSeq(q)
    <3>1. Promised(pairs, key, value) = OnlyEntry(pairs, key, v)
      BY <1>2 DEF Promised
    <3> QED
      BY <2>3, <3>1, Zenon DEF OnlyEntry
  <2>5. FlattenSeq(q) \in Seq(Pairs)
    <3>1. q \in Seq(Seq(Pairs))
      BY RemadeAre
    <3> HIDE DEF q
    <3> QED
      BY <3>1, FlattenWhole, Zenon
  <2>6. Append(pairs, <<key, v>>) \in Seq(Pairs)
    BY <2>1, EncodeMore
  <2> HIDE DEF q
  <2> QED
    BY <1>2, <2>4, <2>5, <2>6 DEF q
<1> QED
  BY <1>1, <1>2

(* ArrowMetadataBuilderSetInternal: what was promised, or the block as it  *)
(* was, or none.                                                           *)
LEMMA SetGives ==
  ASSUME NEW pairs \in Seq(Pairs), NEW b, IsBlock(b, pairs),
         NEW key \in Seq(Nat), NEW value, IsValue(value), NEW enough \in Nat,
         NEW r, r = SetInternal(b, key, value, enough)
  PROVE  IF r.ok THEN IsBlock(r.block, Promised(pairs, key, value)) ELSE r.block \in {b, NoBlock}
<1> DEFINE has == HasKey(b.data, key)
           there == \E i \in DOMAIN pairs : pairs[i][1] = key
<1>1. ReadAll(b.data) = pairs /\ (has <=> there)
  <2>1. ReadAll(b.data) = pairs
    BY BlockReads
  <2>2. has = there
    BY <2>1, KeysFound
  <2> QED
    BY <2>1, <2>2
<1>2. r = CASE ~has /\ value = <<>> -> Made(b, enough)
            [] ~has /\ value # <<>> -> AppendInternal(b, <<key, value[1]>>, enough)
            [] OTHER -> LET x == Rewrite(pairs, key, value, enough) IN IF x.ok THEN x ELSE NoMemory(b)
  BY <1>1, Zenon DEF SetInternal
<1> HIDE DEF has
<1>3. CASE ~has /\ value = <<>>
  <2>1. r = [ok |-> TRUE, block |-> b, enough |-> enough]
    BY <1>2, <1>3 DEF Made
  <2>2. Promised(pairs, key, value) = pairs
    BY <1>1, <1>3, PromisedIs
  <2> QED
    BY <2>1, <2>2
<1>4. CASE ~has /\ value # <<>>
  <2> DEFINE p == <<key, value[1]>>
  <2>1. r = AppendInternal(b, p, enough)
    BY <1>2, <1>4
  <2>2. p \in Pairs
    BY <1>4 DEF IsValue, Pairs
  <2>3. Promised(pairs, key, value) = Append(pairs, p)
    BY <1>1, <1>4, PromisedIs
  <2> HIDE DEF p
  <2>4. IsResult(r, Append(pairs, p))
    BY <2>1, <2>2, Appended
  <2> QED
    BY <2>3, <2>4 DEF IsResult
<1>5. CASE has
  <2> DEFINE x == Rewrite(pairs, key, value, enough)
  <2>1. r = IF x.ok THEN x ELSE NoMemory(b)
    BY <1>2, <1>5
  <2>2. IsResult(x, Promised(pairs, key, value))
    BY <1>1, <1>5, Rewritten, PromisedIs
  <2> HIDE DEF x
  <2> QED
    BY <2>1, <2>2 DEF IsResult, NoMemory
<1> QED
  BY <1>3, <1>4, <1>5

---------------------------------------------------------------------------
(* Between two calls the block holds the entries: nothing, or their        *)
(* encoding in a buffer that is large enough.                              *)
BlockInv == entries \in Seq(Pairs) /\ IsBlock(block, entries)

LEMMA BuildKeeps ==
  ASSUME BlockInv, NEW r, NEW promised \in Seq(Pairs), Builds(r, promised),
         IF r.ok THEN IsBlock(r.block, promised) ELSE r.block \in {block, NoBlock}
  PROVE  BlockInv'
<1>1. block' = r.block /\ entries' = IF r.ok THEN promised ELSE IF r.block = NoBlock THEN <<>> ELSE entries
  BY DEF Builds
<1>2. IsBlock(NoBlock, <<>>) /\ <<>> \in Seq(Pairs)
  BY DEF IsBlock, NoBlock
<1>3. IsBlock(block', entries') /\ entries' \in Seq(Pairs)
  BY <1>1, <1>2 DEF BlockInv
<1> QED
  BY <1>3 DEF BlockInv, IsBlock

LEMMA BlockInit == MetadataInit => BlockInv
<1> SUFFICES ASSUME MetadataInit PROVE BlockInv
  OBVIOUS
<1>1. PICK pairs \in Imported :
        entries = pairs /\ block = BuilderInit(IF pairs = <<>> THEN <<>> ELSE Encode(pairs), 1).block
  BY DEF MetadataInit
<1>2. pairs \in Seq(Pairs)
  BY StringsAssumption DEF Pairs
<1>3. NoBlock \in [data : Seq(Nat), capacity : Nat] /\ Len(NoBlock.data) <= NoBlock.capacity
      /\ NoBlock.data = <<>> /\ NoBlock.capacity = 0
  BY DEF NoBlock
<1>4. CASE pairs = <<>>
  <2>1. BufferAppend(NoBlock, <<>>, 1).block = NoBlock
    BY DEF BufferAppend, BufferReserve, Made, NoBlock
  <2> QED
    BY <1>1, <1>2, <1>3, <1>4, <2>1 DEF BuilderInit, BlockInv, IsBlock
<1>5. CASE pairs # <<>>
  <2> DEFINE e == Encode(pairs)
             r == BufferAppend(NoBlock, e, 1)
  <2>1. e \in Seq(Nat) /\ e # <<>> /\ Len(e) # 0
    <3>1. e = <<Len(pairs)>> \o FlattenSeq(Parts(pairs)) /\ FlattenSeq(Parts(pairs)) \in Seq(Nat)
          /\ Len(pairs) \in Nat /\ e \in Seq(Nat)
      BY <1>2, EncodingIs, Items
    <3> HIDE DEF e
    <3> QED
      BY <3>1
  <2> HIDE DEF e
  <2>2. IF r.ok THEN /\ r.block \in [data : Seq(Nat), capacity : Nat]
                     /\ r.block.data = NoBlock.data \o e
                     /\ r.block.capacity # 0 /\ Len(r.block.data) <= r.block.capacity
        ELSE r.block = NoBlock
    <3> DEFINE b == NoBlock
               once == 1
    <3>1. /\ r = BufferAppend(b, e, once) /\ once \in Nat /\ e \in Seq(Nat) /\ e # <<>>
          /\ b \in [data : Seq(Nat), capacity : Nat] /\ Len(b.data) <= b.capacity
      BY <1>3, <2>1
    <3> HIDE DEF r, b, once
    <3>2. IF r.ok THEN /\ r.block \in [data : Seq(Nat), capacity : Nat]
                       /\ r.block.data = b.data \o e
                       /\ r.block.capacity # 0 /\ Len(r.block.data) <= r.block.capacity
          ELSE r.block = NoBlock
      BY <3>1, AppendedCells
    <3> QED
      BY <3>2 DEF b
  <2>3. r.ok
    <3>1. ~(Len(NoBlock.data) + Len(e) <= NoBlock.capacity)
      BY <1>3, <2>1
    <3>2. BufferReserve(NoBlock, Len(e), 1).ok = TRUE
      BY <3>1 DEF BufferReserve, Made
    <3> QED
      BY <3>2 DEF BufferAppend
  <2>4. NoBlock.data \o e = e
    BY <1>3, <2>1
  <2>5. block = r.block
    BY <1>1, <1>5 DEF BuilderInit, e
  <2> HIDE DEF r
  <2> QED
    BY <1>1, <1>2, <2>2, <2>3, <2>4, <2>5 DEF BlockInv, IsBlock, e
<1> QED
  BY <1>4, <1>5

LEMMA BlockNext == BlockInv /\ [MetadataNext]_metadataVars => BlockInv'
<1> SUFFICES ASSUME BlockInv, [MetadataNext]_metadataVars PROVE BlockInv'
  OBVIOUS
<1>1. entries \in Seq(Pairs) /\ IsBlock(block, entries)
  BY DEF BlockInv
<1>2. CASE BuildAppend
  <2>1. PICK key \in Keys, value \in Values, enough \in 0..2 :
          Builds(AppendInternal(block, <<key, value>>, enough), Append(entries, <<key, value>>))
    BY <1>2 DEF BuildAppend
  <2> DEFINE p == <<key, value>>
             r == AppendInternal(block, p, enough)
  <2>2. p \in Pairs /\ enough \in Nat
    BY StringsAssumption DEF Pairs
  <2> HIDE DEF p
  <2>3. IsResult(r, Append(entries, p)) /\ Append(entries, p) \in Seq(Pairs)
    BY <1>1, <2>2, Appended, EncodeMore
  <2>4. Builds(r, Append(entries, p))
    BY <2>1 DEF p
  <2> HIDE DEF r
  <2> QED
    BY <2>3, <2>4, BuildKeeps DEF IsResult
<1>3. CASE BuildSet
  <2>1. PICK key \in Keys, value \in Values, enough \in 0..3 :
          Builds(SetInternal(block, key, <<value>>, enough), OnlyEntry(entries, key, value))
    BY <1>3 DEF BuildSet
  <2> DEFINE r == SetInternal(block, key, <<value>>, enough)
  <2>2. key \in Seq(Nat) /\ IsValue(<<value>>) /\ enough \in Nat
    BY StringsAssumption DEF IsValue
  <2>3. Promised(entries, key, <<value>>) = OnlyEntry(entries, key, value)
    BY DEF Promised
  <2>4. IF r.ok THEN IsBlock(r.block, OnlyEntry(entries, key, value)) ELSE r.block \in {block, NoBlock}
    BY <1>1, <2>2, <2>3, SetGives
  <2>5. OnlyEntry(entries, key, value) \in Seq(Pairs)
    BY <1>1, <2>2, <2>3, PromisedIs
  <2> HIDE DEF r
  <2> QED
    BY <2>1, <2>4, <2>5, BuildKeeps DEF r
<1>4. CASE BuildRemove
  <2>1. PICK key \in Keys, enough \in 0..3 :
          Builds(SetInternal(block, key, <<>>, enough), Without(entries, key))
    BY <1>4 DEF BuildRemove
  <2> DEFINE r == SetInternal(block, key, <<>>, enough)
  <2>2. key \in Seq(Nat) /\ IsValue(<<>>) /\ enough \in Nat
    BY StringsAssumption DEF IsValue
  <2>3. Promised(entries, key, <<>>) = Without(entries, key)
    BY DEF Promised
  <2>4. IF r.ok THEN IsBlock(r.block, Without(entries, key)) ELSE r.block \in {block, NoBlock}
    BY <1>1, <2>2, <2>3, SetGives
  <2>5. Without(entries, key) \in Seq(Pairs)
    BY <1>1, <2>2, <2>3, PromisedIs
  <2> HIDE DEF r
  <2> QED
    BY <2>1, <2>4, <2>5, BuildKeeps DEF r
<1>5. CASE UNCHANGED metadataVars
  BY <1>1, <1>5 DEF metadataVars, BlockInv, IsBlock
<1> QED
  BY <1>2, <1>3, <1>4, <1>5 DEF MetadataNext

LEMMA BlockIsRead == BlockInv => MetadataReadsBack
<1> SUFFICES ASSUME BlockInv PROVE MetadataReadsBack
  OBVIOUS
<1>1. entries \in Seq(Pairs) /\ IsBlock(block, entries)
  BY DEF BlockInv
<1>2. ReadAll(block.data) = entries /\ SizeOf(block.data) = Len(block.data)
  BY <1>1, BlockReads
<1>3. \A key \in Keys : HasKey(block.data, key) = \E i \in DOMAIN entries : entries[i][1] = key
  BY <1>1, <1>2, KeysFound
<1> QED
  BY <1>2, <1>3 DEF MetadataReadsBack

(* Whatever is appended, set and removed, of whatever keys and values, and *)
(* whichever reallocation fails: the block decodes to the pairs the header *)
(* promises, is as long as its counts say, and has the keys of the pairs   *)
(* (ArrowMetadataBuilderSetInternal).                                      *)
THEOREM MetadataIsKept == MetadataSpec => []MetadataReadsBack
<1>1. MetadataSpec => []BlockInv
  BY BlockInit, BlockNext, PTL DEF MetadataSpec
<1> QED
  BY <1>1, BlockIsRead, PTL
=============================================================================
