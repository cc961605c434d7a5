-------------------------------- MODULE Bits --------------------------------
(***************************************************************************)
(* Bits in bytes: the masks of src/src/nanoarrow/nanoarrow.h and the       *)
(* operations that read and set one bit or a range of them.                *)
(*                                                                         *)
(* A byte is the set of the positions of its bits that are set, so a mask  *)
(* is a set of positions, & is \cap, | is \cup, ~ is the complement and    *)
(* the table of population counts is Cardinality. bytes[k] is data[k].     *)
(***************************************************************************)
EXTENDS Integers

Positions == 0..7

---------------------------------------------------------------------------
(* Masks and single bits.                                                  *)

PrecedingBitmask(k) == {p \in Positions : p < k}
TrailingBitmask(k)  == {p \in Positions : p >= k}
BytesForBits(bits)  == bits \div 8 + (IF bits % 8 # 0 THEN 1 ELSE 0)
RoundUpToMultipleOf8(bits) == 8 * ((bits + 7) \div 8)

BitGet(bytes, i)   == IF (i % 8) \in bytes[i \div 8] THEN 1 ELSE 0
BitSet(bytes, i)   == [bytes EXCEPT ![i \div 8] = @ \cup {i % 8}]
BitClear(bytes, i) == [bytes EXCEPT ![i \div 8] = @ \ {i % 8}]
BitSetTo(bytes, i, bit) == IF bit # 0 THEN BitSet(bytes, i) ELSE BitClear(bytes, i)

---------------------------------------------------------------------------
(* A range of bits, start_offset..start_offset+length-1.                   *)

KeepsOther(kept, byte, fill) == (byte \cap kept) \cup (fill \ kept)
KeepsNone(kept, byte, fill)  == fill          \* mutant
Filled(kept, byte, fill) == KeepsOther(kept, byte, fill)

BitsSetTo(bytes, start_offset, length, bits_are_set) ==
  LET i_end       == start_offset + length
      bytes_begin == start_offset \div 8
      bytes_end   == i_end \div 8 + 1
      first_mask  == PrecedingBitmask(start_offset % 8)
      last_mask   == TrailingBitmask(i_end % 8)
      fill        == IF bits_are_set # 0 THEN Positions ELSE {} IN
  IF length = 0 THEN bytes
  ELSE IF bytes_end = bytes_begin + 1
  THEN [bytes EXCEPT ![bytes_begin] =
          Filled(IF i_end % 8 = 0 THEN first_mask ELSE first_mask \cup last_mask, @, fill)]
  ELSE [k \in DOMAIN bytes |->
          CASE k = bytes_begin -> Filled(first_mask, bytes[k], fill)
            [] k > bytes_begin /\ k < bytes_end - 1 -> fill
            [] k = bytes_end - 1 /\ i_end % 8 # 0 -> Filled(last_mask, bytes[k], fill)
            [] OTHER -> bytes[k]]
=============================================================================
