------------------------------ MODULE Metadata ------------------------------
(***************************************************************************)
(* Schema metadata: key and value pairs encoded in one block, the reader   *)
(* that walks it and the builder that writes it (ArrowMetadata... in       *)
(* src/src/nanoarrow/nanoarrow.c).                                         *)
(*                                                                         *)
(* A block is a sequence of cells: a character is one cell and so is an    *)
(* int32_t. It holds the number of keys, then of every pair the key's      *)
(* size, the key, the value's size and the value. Keys hold no NUL, so     *)
(* strncmp compares them whole.                                            *)
(***************************************************************************)
EXTENDS Integers, Sequences, SequencesExt

CONSTANTS
  Keys, Values,     \* the strings a user gives, sequences of cells
  Imported,         \* blocks a schema brings along: sequences of pairs
  MaxBuilds         \* how many builder calls are made

ASSUME StringsAssumption ==
  /\ \A s \in Keys \cup Values : s \in Seq(Nat)
  /\ \A pairs \in Imported : pairs \in Seq(Seq(Nat) \X Seq(Nat))

VARIABLES
  block,        \* the ArrowBuffer of the builder: cells and capacity
  entries,      \* what nanoarrow.h says the block holds: a sequence of pairs
  builds        \* builder calls so far

metadataVars == <<block, entries, builds>>

---------------------------------------------------------------------------
(* The reader: an offset and the keys left.                                *)

ReaderInit(data) ==
  IF data = <<>> THEN [offset |-> 0, remaining |-> 0] ELSE [offset |-> 1, remaining |-> data[1]]

(* The pair at the reader, and the reader behind it.                       *)
ReaderRead(data, r) ==
  LET key_size   == data[r.offset + 1]
      value_at   == r.offset + 1 + key_size
      value_size == data[value_at + 1] IN
    [key   |-> SubSeq(data, r.offset + 2, value_at),
     value |-> SubSeq(data, value_at + 2, value_at + 1 + value_size),
     next  |-> [offset |-> value_at + 1 + value_size, remaining |-> r.remaining - 1]]

(* The reader before each pair and behind the last, and the pairs.         *)
Readers(data) ==
  LET reader[k \in 0..ReaderInit(data).remaining] ==
        IF k = 0 THEN ReaderInit(data) ELSE ReaderRead(data, reader[k - 1]).next
  IN  reader
ReadAll(data) ==
  LET reader == Readers(data) IN
    [k \in 1..ReaderInit(data).remaining |->
       LET read == ReaderRead(data, reader[k - 1]) IN <<read.key, read.value>>]

SizeOf(data) ==
  LET pairs == ReadAll(data)
      size[k \in 0..Len(pairs)] ==
        IF k = 0 THEN 1 ELSE size[k - 1] + 2 + Len(pairs[k][1]) + Len(pairs[k][2])
  IN  IF data = <<>> THEN 0 ELSE size[Len(pairs)]

(* The value of the first pair with the key: none, or a sequence of one.   *)
GetValue(data, key) ==
  LET pairs == ReadAll(data)
      found == SelectInSeq(pairs, LAMBDA pair : pair[1] = key)
  IN  IF found = 0 THEN <<>> ELSE <<pairs[found][2]>>
HasKey(data, key) == GetValue(data, key) # <<>>

---------------------------------------------------------------------------
(* The builder. enough is the number of reallocations that succeed before  *)
(* one fails; a failed one forgets the block.                              *)

NoBlock == [data |-> <<>>, capacity |-> 0]
Made(b, enough)   == [ok |-> TRUE, block |-> b, enough |-> enough]
NoMemory(b)       == [ok |-> FALSE, block |-> b, enough |-> 0]

GrowByFactor(capacity, needed) == IF 2 * capacity > needed THEN 2 * capacity ELSE needed
BufferReserve(b, n, enough) ==
  LET needed == Len(b.data) + n IN
    IF needed <= b.capacity THEN Made(b, enough)
    ELSE IF enough = 0 THEN NoMemory(NoBlock)
    ELSE Made([b EXCEPT !.capacity = GrowByFactor(@, needed)], enough - 1)
BufferAppend(b, cells, enough) ==
  LET r == BufferReserve(b, Len(cells), enough) IN
    IF r.ok THEN [r EXCEPT !.block.data = @ \o cells] ELSE r

BuilderInit(data, enough) == BufferAppend(NoBlock, data, enough)

Cells(pair) == <<Len(pair[1])>> \o pair[1] \o <<Len(pair[2])>> \o pair[2]
CountsAgain(n) == n          \* mutant
CountsPair(n)  == n + 1
AppendInternal(b, pair, enough) ==
  LET begun == IF b.capacity = 0 THEN BufferAppend(b, <<0>>, enough) ELSE Made(b, enough) IN
    IF ~begun.ok THEN begun
    ELSE LET r == BufferAppend(begun.block, Cells(pair), begun.enough) IN
      IF r.ok THEN [r EXCEPT !.block.data[1] = CountsPair(@)] ELSE r

(* Pair by pair into a new block: the first pair with the key gets the     *)
(* value, if there is one to set, the others with the key are dropped.     *)
IsFirst(pairs, key, i) == pairs[i][1] = key /\ \A j \in 1..(i - 1) : pairs[j][1] # key
RewritePair(r, pairs, key, value, i) ==
  CASE pairs[i][1] # key -> AppendInternal(r.block, pairs[i], r.enough)
    [] IsFirst(pairs, key, i) /\ value # <<>> -> AppendInternal(r.block, <<key, value[1]>>, r.enough)
    [] OTHER -> r
Rewrite(pairs, key, value, enough) ==
  LET after[i \in 0..Len(pairs)] ==
        IF i = 0 THEN Made(NoBlock, enough)
        ELSE IF after[i - 1].ok THEN RewritePair(after[i - 1], pairs, key, value, i)
        ELSE after[i - 1]
  IN  after[Len(pairs)]

(* value is a sequence of one, or none: ArrowMetadataBuilderRemove.        *)
SetInternal(b, key, value, enough) ==
  CASE ~HasKey(b.data, key) /\ value = <<>> -> Made(b, enough)
    [] ~HasKey(b.data, key) /\ value # <<>> -> AppendInternal(b, <<key, value[1]>>, enough)
    [] OTHER ->
         LET r == Rewrite(ReadAll(b.data), key, value, enough) IN
           IF r.ok THEN r ELSE NoMemory(b)

---------------------------------------------------------------------------
(* What nanoarrow.h promises of the calls, on pairs.                       *)

Without(pairs, key) ==
  FlattenSeq([i \in DOMAIN pairs |-> IF pairs[i][1] = key THEN <<>> ELSE <<pairs[i]>>])
OnlyEntry(pairs, key, value) ==
  IF \A i \in DOMAIN pairs : pairs[i][1] # key THEN Append(pairs, <<key, value>>)
  ELSE FlattenSeq([i \in DOMAIN pairs |->
         CASE pairs[i][1] # key -> <<pairs[i]>>
           [] IsFirst(pairs, key, i) -> <<<<key, value>>>>
           [] OTHER -> <<>>])

Encode(pairs) == <<Len(pairs)>> \o FlattenSeq([i \in DOMAIN pairs |-> Cells(pairs[i])])

(* A call took effect, or memory ran out and the block is what it was, or  *)
(* gone.                                                                   *)
Builds(r, promised) ==
  /\ builds < MaxBuilds
  /\ builds' = builds + 1
  /\ block' = r.block
  /\ entries' = IF r.ok THEN promised ELSE IF r.block = NoBlock THEN <<>> ELSE entries

BuildAppend ==
  \E key \in Keys, value \in Values, enough \in 0..2 :
    Builds(AppendInternal(block, <<key, value>>, enough), Append(entries, <<key, value>>))

BuildSet ==
  \E key \in Keys, value \in Values, enough \in 0..3 :
    Builds(SetInternal(block, key, <<value>>, enough), OnlyEntry(entries, key, value))

BuildRemove ==
  \E key \in Keys, enough \in 0..3 :
    Builds(SetInternal(block, key, <<>>, enough), Without(entries, key))

MetadataInit ==
  \E pairs \in Imported :
    /\ entries = pairs
    /\ block = BuilderInit(IF pairs = <<>> THEN <<>> ELSE Encode(pairs), 1).block
    /\ builds = 0

MetadataNext == BuildAppend \/ BuildSet \/ BuildRemove

MetadataSpec == MetadataInit /\ [][MetadataNext]_metadataVars

---------------------------------------------------------------------------
(* Whatever is appended, set and removed in whatever order, and whichever  *)
(* reallocation fails: the block decodes to the pairs nanoarrow.h:1564     *)
(* promises (one entry for a key that was set, at the place of the first), *)
(* a call that fails leaves all of the old pairs or none, and the block is *)
(* as long as its own counts say, which is what a copy of it would copy.   *)
MetadataReadsBack ==
  /\ ReadAll(block.data) = entries
  /\ SizeOf(block.data) = Len(block.data)
  /\ \A key \in Keys :
       HasKey(block.data, key) = \E i \in DOMAIN entries : entries[i][1] = key
=============================================================================
