---------------------------- MODULE FactorLevels ----------------------------
(***************************************************************************)
(* na_array_strings_to_arma_vec (src/src/utilities.cpp): a string column   *)
(* becomes a column of factor codes, one array (one chunk) at a time, as   *)
(* collectMatrixFromStream calls it. Each array is read through an         *)
(* ArrowArrayView of type STRING, whatever its schema says, then four      *)
(* loops collect, number, sort and encode its strings.                     *)
(*                                                                         *)
(* A string is a sequence of bytes, because reading offsets at the wrong   *)
(* width cuts the data buffer at other places.                             *)
(***************************************************************************)
EXTENDS Integers, Sequences, SequencesExt, FiniteSets

CONSTANTS
  Texts,        \* the strings of the column
  MaxLen,       \* bound: elements in the buffers of an array
  MaxChunks,    \* bound: arrays of the column
  Formats       \* "u": int32 offsets, "U": int64 offsets

ASSUME TextsAssumption  == Texts \subseteq Seq(Nat)
ASSUME BoundsAssumption == MaxLen \in Nat /\ MaxChunks \in Nat
ASSUME FormatsAssumption == Formats \subseteq {"u", "U"}

VARIABLES
  chunks, format,   \* the column's arrays and its format
  c,                \* arrays converted so far
  i,                \* loop counter
  strings,          \* the strings of the array
  level_map, levels,
  factors,          \* the codes of the array
  column,           \* the codes of the arrays converted so far
  pc

input == <<chunks, format>>
vars  == <<input, c, i, strings, level_map, levels, factors, column, pc>>

---------------------------------------------------------------------------
(* The array as the view reads it.                                         *)

(* An array: the elements in its buffers, and the slice of them it shows.  *)
Arrays ==
  {a \in UNION {[data : [1..l -> Texts], offset : 0..l, length : 0..l] : l \in 0..MaxLen} :
     a.offset + a.length <= Len(a.data)}

Array      == chunks[c + 1]
Strings(a) == SubSeq(a.data, a.offset + 1, a.offset + a.length)

(* The data buffer, and where in it element k begins.                      *)
DataBuffer == FlattenSeq(Array.data)
Offset(k)  == Len(FlattenSeq(SubSeq(Array.data, 1, k)))

(* Word k of the offsets buffer, read as int32: an int64 offset takes two, *)
(* the upper one zero (little endian, less than 2^32 bytes of data).       *)
Word(k) ==
  IF format = "u" THEN Offset(k)
  ELSE IF k % 2 = 0 THEN Offset(k \div 2) ELSE 0

(* ArrowArrayViewGetStringUnsafe: where item k of the view begins, its     *)
(* size, and the string made of it.                                        *)
Begin(k) == Word(Array.offset + k)
Size(k)  == Word(Array.offset + k + 1) - Begin(k)
Item(k)  == SubSeq(DataBuffer, Begin(k) + 1, Begin(k) + Size(k))

(* The order of std::string.                                               *)
Precedes(s, t) ==
  \/ Len(s) < Len(t) /\ s = SubSeq(t, 1, Len(s))
  \/ \E k \in 1..Len(s) \cap 1..Len(t) :
       SubSeq(s, 1, k - 1) = SubSeq(t, 1, k - 1) /\ s[k] < t[k]

---------------------------------------------------------------------------
Init ==
  /\ chunks \in UNION {[1..l -> Arrays] : l \in 0..MaxChunks}
  /\ format \in Formats
  /\ c = 0 /\ i = 0
  /\ strings = <<>> /\ level_map = <<>> /\ levels = <<>>
  /\ factors = <<>> /\ column = <<>>
  /\ pc = "array"

(* A call: the view is set to the array, which may fail.                   *)
SetArray ==
  /\ pc = "array" /\ c < Len(chunks)
  /\ i' = 0 /\ strings' = <<>> /\ level_map' = <<>> /\ levels' = <<>>
  /\ pc' \in {"read", "error"}
  /\ UNCHANGED <<input, c, factors, column>>

(* strings.push_back: a negative size is no size a std::string can have.   *)
ReadString ==
  /\ pc = "read" /\ i < Array.length
  /\ IF Size(i) >= 0
     THEN strings' = Append(strings, Item(i)) /\ i' = i + 1 /\ UNCHANGED pc
     ELSE pc' = "error" /\ UNCHANGED <<strings, i>>
  /\ UNCHANGED <<input, c, level_map, levels, factors, column>>

ReadAll ==
  /\ pc = "read" /\ i = Array.length
  /\ i' = 0 /\ pc' = "levels"
  /\ UNCHANGED <<input, c, strings, level_map, levels, factors, column>>

(* A string the map does not hold is a new level.                          *)
NeverKnown(str) == FALSE                                       \* mutant
Known(str) == str \in DOMAIN level_map
AddLevel ==
  /\ pc = "levels" /\ i < Len(strings)
  /\ LET str == strings[i + 1] IN
       IF Known(str) THEN UNCHANGED <<level_map, levels>>
       ELSE /\ level_map' = [l \in DOMAIN level_map \cup {str} |->
                              IF l = str THEN Len(levels) ELSE level_map[l]]
            /\ levels' = Append(levels, str)
  /\ i' = i + 1
  /\ UNCHANGED <<input, c, strings, factors, column, pc>>

(* std::sort, by what it promises: the same elements, in order.            *)
Unsorted(s) == {s}                                             \* mutant
Sorted(s) ==
  {t \in {[x \in DOMAIN s |-> s[p[x]]] : p \in Bijection(DOMAIN s, DOMAIN s)} :
     \A x, y \in DOMAIN s : x < y => ~Precedes(t[y], t[x])}
SortLevels ==
  /\ pc = "levels" /\ i = Len(strings)
  /\ levels' \in Sorted(levels)
  /\ i' = 0 /\ pc' = "renumber"
  /\ UNCHANGED <<input, c, strings, level_map, factors, column>>

Renumber ==
  /\ pc = "renumber" /\ i < Len(levels)
  /\ level_map' = [level_map EXCEPT ![levels[i + 1]] = i]
  /\ i' = i + 1
  /\ UNCHANGED <<input, c, strings, levels, factors, column, pc>>

(* arma::ivec factors(ns), zero-filled.                                    *)
AllocateFactors ==
  /\ pc = "renumber" /\ i = Len(levels)
  /\ factors' = [r \in 1..Len(strings) |-> 0]
  /\ i' = 0 /\ pc' = "encode"
  /\ UNCHANGED <<input, c, strings, level_map, levels, column>>

(* R counts from 1.                                                        *)
Code(str) == level_map[str] + 1
Encode ==
  /\ pc = "encode" /\ i < Len(strings)
  /\ factors' = [factors EXCEPT ![i + 1] = Code(strings[i + 1])]
  /\ i' = i + 1
  /\ UNCHANGED <<input, c, strings, level_map, levels, column, pc>>

(* The codes of the array are its part of the column.                      *)
Deliver ==
  /\ pc = "encode" /\ i = Len(strings)
  /\ column' = Append(column, factors)
  /\ c' = c + 1 /\ pc' = "array"
  /\ UNCHANGED <<input, i, strings, level_map, levels, factors>>

Next ==
  \/ SetArray \/ ReadString \/ ReadAll \/ AddLevel \/ SortLevels
  \/ Renumber \/ AllocateFactors \/ Encode \/ Deliver

Spec == Init /\ [][Next]_vars

---------------------------------------------------------------------------
(* The map and the vector hold the same levels, each once, and the map     *)
(* finds each level where the vector has it, except those the renumbering  *)
(* has not reached: so no two strings of an array share a code.            *)
LevelsAgree ==
  /\ IsInjective(levels)
  /\ DOMAIN level_map = ToSet(levels)
  /\ \A x \in DOMAIN levels :
       pc \in {"levels", "encode"} \/ x <= i => level_map[levels[x]] = x - 1

(* The code of a string is its rank among the distinct strings of its      *)
(* array, from 1, as R's factor() numbers its levels.                      *)
Rank(str, set) == 1 + Cardinality({s \in set : Precedes(s, str)})
CodesAreRanks ==
  \A k \in DOMAIN column :
    LET shown == Strings(chunks[k]) IN
      column[k] = [r \in DOMAIN shown |-> Rank(shown[r], ToSet(shown))]
=============================================================================
