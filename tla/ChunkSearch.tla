---------------------------- MODULE ChunkSearch -----------------------------
(***************************************************************************)
(* The chunk of a chunked array that an element is in: the search of       *)
(* ArrowResolveChunk64 and ArrowResolveChunk32 (src/src/nanoarrow/         *)
(* nanoarrow.h). offsets[i] is the number of elements before chunk i, one  *)
(* more offset the number of all of them; chunks may be empty. The two     *)
(* functions differ in the width of their integers only: the sums here,    *)
(* lo + m < hi, need no more than hi does.                                 *)
(***************************************************************************)
EXTENDS Integers

CONSTANT OffsetArrays      \* the arrays of offsets that are searched

IsOffsets(array) ==
  \A j \in DOMAIN array :
    /\ j \in Nat /\ array[j] \in Int
    /\ 0..j \subseteq DOMAIN array
    /\ \A i \in 0..j : array[i] <= array[j]

ASSUME OffsetsAssumption == \A array \in OffsetArrays : IsOffsets(array)

VARIABLES
  offsets, index, hi,   \* what is looked for, and the end of the range given
  lo, n,                \* the chunks lo..lo+n-1 are left
  searching             \* the do loop has not ended

searchVars == <<offsets, index, hi, lo, n, searching>>

---------------------------------------------------------------------------
SearchInit ==
  /\ offsets \in OffsetArrays
  /\ hi \in DOMAIN offsets
  /\ lo \in 0..(hi - 1)
  /\ index \in offsets[lo]..(offsets[hi] - 1)
  /\ n = hi - lo
  /\ searching = TRUE

Half(count) == count \div 2

(* A chunk that begins at the index is on the right of the middle.         *)
BehindStart(mid) == index > offsets[mid]      \* mutant
Beyond(mid)      == index >= offsets[mid]

(* One round of the loop; m is 0 if only one chunk is left at the start.   *)
Probe ==
  LET m == Half(n) IN
    /\ searching
    /\ IF Beyond(lo + m) THEN lo' = lo + m /\ n' = n - m ELSE lo' = lo /\ n' = m
    /\ searching' = (n' > 1)
    /\ UNCHANGED <<offsets, index, hi>>

SearchSpec == SearchInit /\ [][Probe]_searchVars

---------------------------------------------------------------------------
(* When the loop ends, the chunk it returns is the one that holds the      *)
(* element, whatever the number of chunks and however many of them are     *)
(* empty, at the element's offset too.                                     *)
ChunkIsFound ==
  ~searching => /\ lo \in 0..(hi - 1)
                /\ offsets[lo] <= index /\ index < offsets[lo + 1]
=============================================================================
