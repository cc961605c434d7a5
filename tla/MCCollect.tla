----------------------------- MODULE MCCollect -----------------------------
(* Small instances of CollectStream.                                       *)
EXTENDS CollectStream

(* Chunks with lengths in L, whose children are as long as the chunk or    *)
(* one row longer, all offsets 0.                                          *)
Plain(L) ==
  {ch \in [set : {TRUE}, length : L, offset : {0},
           clen : [1..K -> L \cup {l + 1 : l \in L}], coff : [1..K -> {0}]] :
     \A c \in 1..K : ch.clen[c] \in {ch.length, ch.length + 1}}

(* Seven rows more than an int with IntMax = 3 counts, and wrap with two   *)
(* others to one row.                                                      *)
NoEmptyChunks   == Plain({1, 2, 7})
SomeEmptyChunks == Plain({0, 1})

(* Chunks, and a slot nobody filled, which says it has a row.              *)
UnfilledSlot ==
  [set |-> FALSE, length |-> 1, offset |-> 0, clen |-> [c \in 1..K |-> 1], coff |-> [c \in 1..K |-> 0]]
ChunksAndGaps == NoEmptyChunks \cup {UnfilledSlot}

(* Chunks whose children are slices: a child offset of 0 or 1.             *)
SlicedChunks ==
  [set : {TRUE}, length : {1, 2}, offset : {0}, clen : [1..K -> {1, 2}],
   coff : [1..K -> {0, 1}]]
=============================================================================
