------------------------------- MODULE Bitmap -------------------------------
(***************************************************************************)
(* The bitmap that grows, and what reads ranges of its bits: counts and    *)
(* unpacks (ArrowBit..., ArrowBitmap... in src/src/nanoarrow/nanoarrow.h). *)
(* What an allocation leaves in a byte is any of Leftovers.                *)
(***************************************************************************)
EXTENDS Bits, Sequences, FiniteSets

CONSTANTS
  Runs,             \* the lengths of runs that are appended
  BitRows,          \* the sequences of values that are appended
  Leftovers,        \* what malloc and realloc leave in a byte
  MaxBits,          \* the longest bitmap
  MaxBitmapCalls    \* how many calls are made

ASSUME BitsAssumption ==
  /\ Runs \subseteq Nat /\ MaxBits \in Nat /\ MaxBitmapCalls \in Nat
  /\ BitRows \subseteq Seq({0, 1})
  /\ Leftovers \subseteq SUBSET Positions

VARIABLES
  bitmap,       \* struct ArrowBitmap: bytes (as many as its capacity), size_bits, size_bytes
  content,      \* the bits the calls have asked for, AnyBit for those nobody set
  bitmapCalls   \* calls so far

bitmapVars == <<bitmap, content, bitmapCalls>>

---------------------------------------------------------------------------
(* Reading a range of bits.                                                *)

(* The bits set in whole bytes, by byte and position.                      *)
Popcount(bytes, from, to) ==
  Cardinality({at \in (from..to) \X Positions : at[2] \in bytes[at[1]]})

BitCountSet(bytes, start_offset, length) ==
  LET i_end       == start_offset + length
      bytes_begin == start_offset \div 8
      bytes_last  == (i_end - 1) \div 8
      beginning   == TrailingBitmask(start_offset % 8)
      ending      == IF i_end % 8 = 0 THEN Positions ELSE PrecedingBitmask(i_end % 8) IN
  IF length = 0 THEN 0
  ELSE IF bytes_begin = bytes_last THEN Cardinality(bytes[bytes_begin] \cap beginning \cap ending)
  ELSE Cardinality(bytes[bytes_begin] \cap beginning)
       + Popcount(bytes, bytes_begin + 1, bytes_last - 1)
       + Cardinality(bytes[bytes_last] \cap ending)

(* The bits as a sequence of 0 and 1: the end of the first byte, the bytes *)
(* in the middle eight at a time, the beginning of the last byte.          *)
UnpackByte(byte, from, to) == [n \in 1..(to - from) |-> IF (from + n - 1) \in byte THEN 1 ELSE 0]
UnpackBytes(bytes, from, to) ==
  [n \in 1..(8 * (to - from + 1)) |->
     UnpackByte(bytes[from + (n - 1) \div 8], 0, 8)[((n - 1) % 8) + 1]]
BitsUnpack(bytes, start_offset, length) ==
  LET i_end       == start_offset + length
      bytes_begin == start_offset \div 8
      bytes_last  == (i_end - 1) \div 8
      remaining   == IF i_end % 8 = 0 THEN 8 ELSE i_end % 8 IN
  IF length = 0 THEN <<>>
  ELSE IF bytes_begin = bytes_last
  THEN UnpackByte(bytes[bytes_begin], start_offset % 8, (start_offset % 8) + length)
  ELSE UnpackByte(bytes[bytes_begin], start_offset % 8, 8)
       \o UnpackBytes(bytes, bytes_begin + 1, bytes_last - 1)
       \o UnpackByte(bytes[bytes_last], 0, remaining)

---------------------------------------------------------------------------
(* The bitmap's operations. left is what the bytes of a new allocation     *)
(* hold; allocated says whether realloc succeeds.                          *)

NoBytes == [k \in {} |-> {}]
Capacity(b) == Cardinality(DOMAIN b.bytes)
EmptyBitmap == [bytes |-> NoBytes, size_bits |-> 0, size_bytes |-> 0]
Lost(b)     == [bytes |-> NoBytes, size_bits |-> b.size_bits, size_bytes |-> 0]
Realloc(bytes, capacity, left) ==
  [k \in 0..(capacity - 1) |-> IF k \in DOMAIN bytes THEN bytes[k] ELSE left]

Larger(a, b) == IF a > b THEN a ELSE b
BitmapReserve(b, additional_size_bits, left) ==
  LET needed  == BytesForBits(b.size_bits + additional_size_bits)
      \* ArrowBufferReserve of what is missing from size_bytes
      grown   == Larger(2 * Capacity(b), needed) IN
    IF needed <= Capacity(b) THEN b
    ELSE [b EXCEPT !.bytes = [Realloc(@, grown, left) EXCEPT ![grown - 1] = {}]]
NeedsMemory(b, additional_size_bits) == BytesForBits(b.size_bits + additional_size_bits) > Capacity(b)

BitmapAppendUnsafe(b, bits_are_set, length) ==
  [bytes |-> BitsSetTo(b.bytes, b.size_bits, length, bits_are_set),
   size_bits |-> b.size_bits + length,
   size_bytes |-> BytesForBits(b.size_bits + length)]

(* ArrowBitSetTo of bit i and those after it, one for each value.          *)
SetEach(bytes, i, values) ==
  [k \in DOMAIN bytes |->
     {p \in Positions : LET n == 8 * k + p - i + 1 IN
                         IF n \in DOMAIN values THEN values[n] # 0 ELSE p \in bytes[k]}]

PackByte(values) == {p \in Positions : values[p + 1] # 0}
(* Eight values to a byte, from byte k on, as far as there are eight.      *)
PackBytes(bytes, k, values) ==
  [j \in DOMAIN bytes |->
     IF j \in k..(k + Len(values) \div 8 - 1)
     THEN PackByte(SubSeq(values, 8 * (j - k) + 1, 8 * (j - k) + 8)) ELSE bytes[j]]

(* Rows are appended until the byte is full, then by eight, then the rest. *)
(* The first byte is filled whatever the number of values: beyond, what is *)
(* in memory after the values (beyond is either bit) is set.               *)
AppendRowsUnsafe(b, values, beyond) ==
  LET first     == RoundUpToMultipleOf8(b.size_bits) - b.size_bits     \* n_partial_bits
      padded    == [i \in 1..first |-> IF i <= Len(values) THEN values[i] ELSE beyond]
      partial   == SetEach(b.bytes, b.size_bits, padded)
      others    == IF first >= Len(values) THEN <<>> ELSE SubSeq(values, first + 1, Len(values))
      k         == (b.size_bits + first) \div 8
      n_full    == Len(others) \div 8
      packed    == PackBytes(partial, k, others)
      rest      == SubSeq(others, 8 * n_full + 1, Len(others)) IN
  IF values = <<>> THEN b
  ELSE [bytes |-> IF rest = <<>> THEN packed
                  ELSE SetEach([packed EXCEPT ![k + n_full] = {}], 8 * (k + n_full), rest),
        size_bits |-> b.size_bits + Len(values),
        size_bytes |-> k + n_full + (IF rest = <<>> THEN 0 ELSE 1)]

BitmapResize(b, new_size_bits, shrink_to_fit, left) ==
  LET needed == BytesForBits(new_size_bits)
      moved  == needed > Capacity(b) \/ (shrink_to_fit /\ needed < Capacity(b)) IN
    [bytes |-> IF moved THEN Realloc(b.bytes, needed, left) ELSE b.bytes,
     size_bits |-> new_size_bits, size_bytes |-> needed]

---------------------------------------------------------------------------
(* Calls                                                                   *)

AnyBit == 2
Wanted(n, bit) == [i \in 1..n |-> bit]

AppendRun ==
  \E length \in Runs, bit \in {0, 1}, left \in Leftovers :
    /\ bitmap.size_bits + length <= MaxBits
    /\ bitmap' = BitmapAppendUnsafe(BitmapReserve(bitmap, length, left), bit, length)
    /\ content' = content \o Wanted(length, bit)

(* A reserve or a resize that fails leaves the size in bits, and no bits.  *)
AllocationFails ==
  \E length \in Runs :
    /\ NeedsMemory(bitmap, length) \/ BytesForBits(length) > Capacity(bitmap)
    /\ bitmap' = Lost(bitmap)
    /\ content' = Wanted(bitmap.size_bits, AnyBit)

AppendRows ==
  \E values \in BitRows, beyond \in {0, 1}, left \in Leftovers :
    /\ bitmap.size_bits + Len(values) <= MaxBits
    /\ bitmap' = AppendRowsUnsafe(BitmapReserve(bitmap, Len(values), left), values, beyond)
    /\ content' = content \o values

Resize ==
  \E size \in Runs, shrink \in BOOLEAN, left \in Leftovers :
    /\ bitmap' = BitmapResize(bitmap, size, shrink, left)
    /\ content' = IF size <= Len(content) THEN SubSeq(content, 1, size)
                  ELSE content \o Wanted(size - Len(content), AnyBit)

SetRange ==
  \E start \in 0..bitmap.size_bits, length \in Runs, bit \in {0, 1} :
    /\ DOMAIN bitmap.bytes # {} /\ start + length <= bitmap.size_bits
    /\ bitmap' = [bitmap EXCEPT !.bytes = BitsSetTo(@, start, length, bit)]
    /\ content' = [i \in 1..Len(content) |-> IF i \in (start + 1)..(start + length) THEN bit ELSE content[i]]

ResetBitmap ==
  /\ bitmap # EmptyBitmap
  /\ bitmap' = EmptyBitmap
  /\ content' = <<>>

BitmapInit == bitmap = EmptyBitmap /\ content = <<>> /\ bitmapCalls = 0
BitmapNext ==
  /\ bitmapCalls < MaxBitmapCalls
  /\ bitmapCalls' = bitmapCalls + 1
  /\ AppendRun \/ AllocationFails \/ AppendRows \/ Resize \/ SetRange \/ ResetBitmap
BitmapSpec == BitmapInit /\ [][BitmapNext]_bitmapVars

---------------------------------------------------------------------------
(* Whatever was appended, resized and overwritten, in whatever order and   *)
(* over however many bytes: every range of the bitmap that somebody set    *)
(* reads, counts and unpacks as the bits that were asked for, and the      *)
(* bitmap has the bytes for them, unless an allocation failed. Bits of an  *)
(* earlier append in the same byte, what malloc left there and what lay    *)
(* behind the values must not show.                                        *)
BitsAgree ==
  LET asked(start, length) == SubSeq(content, start + 1, start + length) IN
    /\ bitmap.size_bits = Len(content)
    /\ bitmap.size_bytes <= Capacity(bitmap)
    /\ Capacity(bitmap) < BytesForBits(Len(content)) => \A i \in DOMAIN content : content[i] = AnyBit
    /\ \A start \in 0..Len(content) : \A length \in 1..(Len(content) - start) :
         LET range == asked(start, length) IN
         (\A i \in 1..length : range[i] # AnyBit) =>
           /\ BitsUnpack(bitmap.bytes, start, length) = range
           /\ BitCountSet(bitmap.bytes, start, length) = Cardinality({i \in 1..length : range[i] = 1})
           /\ BitGet(bitmap.bytes, start) = range[1]
=============================================================================
