# naarma in TLA+

naarma is a small R package: R hands it Arrow data from another library
(duckdb, polars, arrow, nanoarrow), C++ drains the stream and copies it into an
Armadillo matrix. It carries a copy of nanoarrow (`src/src/nanoarrow`), the C
library that owns, views, validates and builds Arrow arrays. These modules
model what naarma does itself and the parts of nanoarrow it rests on.

Paths below are those of `PROJECT.json`: `src/src/wrapper.cpp` is
the package's `src/wrapper.cpp`. Short names: *wrapper*, *utilities*,
*borrowed* for the package's C++ files; *nanoarrow.c*, *.h*, *.hpp*.

To run a check: `tlc -config MCCollect.cfg MCCollectRefinement` (the pairs are
in the table of runs). To check the proofs: `tlapm X_proofs.tla` for each of
the proof modules of section 4.

## 1. The system

| part | state | operations | hard because |
|---|---|---|---|
| Stream collector (wrapper 149-201) | four RAII locals (stream, schema, vector of arrays, array), five C ints, the matrix | `collectMatrixFromStream`, one call from R; R may call again with the same object or collect it | every step may fail, and an array may then be in the vector, in hand, or moved from; lengths are `int64_t`, the counters `int` |
| Column conversion (wrapper 16-60) and string columns (utilities 96-131) | local to a call; `levels` and `level_map` | by format: copy numbers, turn strings into factor codes | the map is renumbered in place; offsets of slices; two widths of string offsets |
| Basic array stream (nanoarrow.c 3777-3907) | private data: schema, slots, position | `Init`, `SetArray`, `get_schema`, `get_next`, `release` | two structs name the same private data after a move; arrays move in and out; release may come at any time |
| Schema attachment (borrowed) and the trees below it (nanoarrow.c) | schema, array and view trees, each node with its own blocks | `nanoarrow_c_schema_init`, `nanoarrow_c_array_set_schema`, init, deep copy, release | any allocation may fail anywhere in a tree, and every level cleans up after the ones below |
| Array view (nanoarrow.c 2803-3625) | sizes, pointers and children of a view | fill in from an array or from buffers, set a length, validate at four levels, read | validation reads offsets to find sizes it then checks; views are used again; off-by-one |
| Array builder (nanoarrow.h 3156-3871, nanoarrow.c 2309-2699) | buffers and capacities of every node, bitmap, length, null count | append, finish an element, reserve, shrink, finish building | nodes of one tree are appended to in any order; calls refuse or fail half-way |
| Owning wrappers and C++ streams (nanoarrow.hpp) | one C struct each; an instance on the heap per exported stream | move, reset, release in a destructor; `ToArrayStream` and the callbacks | a moved-from struct is visited again; an object is exported twice |
| Schemas and their views (nanoarrow.c 548-1810) | format, children, flags of a schema; the fields of a view, kept between uses | setters, `AllocateChildren`, `ArrowSchemaViewInit` | setters fail half-way; formats come from other libraries; fields of an earlier use are read |
| Metadata (nanoarrow.c 1954-2168) | one growing block | append, set, remove, read | a value is replaced by a rebuild, each pair of which may fail |
| Bits and bitmaps (nanoarrow.h 2618-3028) | a buffer, its capacity, a number of bits | set, count, unpack, append, resize | ranges begin and end inside bytes; memory holds anything |
| Decimals (nanoarrow.h 961-1063, nanoarrow.c 269-481) | up to four words | set, negate, read, print | carries across words, three widths |
| Chunk search (nanoarrow.h 2342-2381) | none | `ArrowResolveChunk64`, `32` | boundaries, empty chunks |

How they interact. R owns an external pointer to an `ArrowArrayStream` and
calls the collector, which moves the stream out of it. The collector calls the
stream's callbacks (C function pointers: the producer is another library, or
nanoarrow's basic stream), owns the arrays it gets, and converts their children;
a string child is read through an array view. `set_schema` makes a view of a
schema, sets it to an array and validates. The builder makes the arrays a
basic stream delivers, and finishes them by validating a view of them.
Everything runs in one R thread. Nothing is persisted. What is concurrent is
the order of calls: R, the garbage collector, the producer and the consumer of
a stream may call in any order the C contracts allow, and each allocation may
fail.

What makes each part correct:

* collector: each array, the schema and the stream is released once, whatever
  fails; a returned matrix is the stream, in order, or the call fails; the call
  returns; a stream can be collected once;
* factor codes: a code is the rank of its string among the strings of its chunk;
* basic stream: it is an Arrow stream to its consumer; no array is lost or
  released twice; private data lives as long as a struct can release it;
* trees: no block is freed twice, none is lost, success means a whole tree;
* view: validation itself reads inside the buffers, accepts what the format
  allows, rejects what is not safe to read; nothing is believed from an earlier
  array;
* builder: writes stay inside capacities; what is appended is what is read;
  what is built is accepted by validation;
* schemas: what a setter was told is what a view reads; what a view accepts is
  what the array functions can use; a view used again is as a new one;
* metadata, bitmaps, decimals: what is read is what the calls asked for, in
  whatever order, and no more than it after a failure;
* C++ streams: no array is lost or released twice, and a call through a struct
  that is not released reads memory that exists.

`PROJECT.json` lists the hazards at their lines, with the properties that
cover each one or the reason why none does.

## 2. The modules

### CollectStream, MatrixFromStream, CollectRefinement

`CollectStream` is `collectMatrixFromStream`, one action per statement that can
fail or changes who owns something. `robj`, `aas`, `sch`, `arr`, `vec` are the
structs; a flag or an id says whether the release callback is set. `pc` is the
control point and `live` the number of constructed locals, so an exception is
`pc = "unwind"`, from which the four `Destroy...` actions run the destructors
in reverse order. Reading the children of a released array ends in
`pc = "undefined"`. An object R passes that is not of the class of a stream is
refused first (`RefuseObject`). The C ints are `cnt`, `n`, `currpos`, `i`, `j`; the sums
of lengths wrap at `IntMax`. The matrix `m` holds for each cell the array and position it was
copied from, and zero elsewhere, as `arma::mat` is zero-filled. The producer is a
sequence of chunks `source`: each has a length, and for each child its length
and offset; it may fail at any call. With `Guarded = FALSE` its callbacks read
freed memory when called after release (`pc = "undefined"`).

`MatrixFromStream` is what R may rely on: a call takes the stream, borrows and
returns arrays, and delivers the matrix of the stream or an error;
`CollectRefinement` maps the steps to it. Its liveness says that a running call
ends, if the stream delivers no released array before its end (`whole`).

### FactorLevels

`na_array_strings_to_arma_vec`, loop by loop, chunk after chunk. Strings are
sequences of bytes because reading 8-byte offsets as 4-byte ones cuts the data
at other places. `Word(k)` is what the view finds in the offsets buffer.

### BasicArrayStream, ArrowStream

The stream backed by a list of arrays, with the struct left behind by the
export and both ways `Init` can fail. `ArrowStream` says what the comments of
`struct ArrowArrayStream` promise a consumer; `IsStream` maps one to the other.

### Pipeline

The collector with a basic stream as its producer, as in the package's tests
(R's `basic_array_stream`): `CollectStream`'s actions, joined with what
the callback they reach does to the slots. `source` is then what the producer
was given. `ProducerSteps` says that what happens to the producer is what
`BasicArrayStream` allows.

### TreeMemory

Who owns which block. A node is a tree and a path; the heap is a set of blocks.
A C function that allocates is an operator from a memory to the *set* of
memories it may leave, one per allocation that fails first, so each call of the
API is one action that covers every failure inside it, with every cleanup the
code makes on the way out. `MakeNode` is one call of a recursive C function,
given what the calls for the nodes below do; `MakeTree` ties them together
with a recursive function over how deep the calls nest. A node may have any
number of children (`IsShape`).

### ViewOperations, ArrayView

An array or a view is a tree; the modules lay it out as the sequence of its
nodes in the order a recursion comes to them, each with the positions of the nodes
below it (`kids`, `dict`), above it (`up`) and of the last one below (`last`). A C
function that recurses is then what it does at one node (`MinimalAt`, `DefaultAt`,
`FullAt`), and `Visit` is the recursion: the nodes in their order, until one
fails, no visit reading what another writes.
`ViewOperations` holds the operations of views as operators from a view to a
result: the view, whether the call succeeded and whether it read outside a
buffer (`wild`). They keep the order of the reads and checks of the C code.
Sizes and the lengths handed to children are worked out in int64, where a
product may wrap around (`MinSize`, `InChild`; signed overflow is undefined in C,
and two's complement is what the build makes of it); `Needed` is the size without
that. Default validation validates minimally again on its way down; that this changes nothing
is a lemma of the proofs (`MinimalTwice`), so the model does it once.
`ArrayView` is the life of a view: made for a schema, possibly used before
(`OldSizes`), set to an array (`SetArray` at some level), filled in from the
buffers of an array under construction, given a length, and validated.
`Conforms` is the contract of `ArrowArrayViewSetArray`: what a *producer's* array
promises about its buffers, which the C interface gives no way to check (it has
no buffer sizes).

### ArrayBuilder, ArrayValues

The append functions, `FinishElement`, `FinishUnionElement`, `Reserve`,
`ShrinkToFit` and `FinishBuilding` on every node of a tree, laid out as in
`ViewOperations`. Buffers have contents, sizes and capacities. A call does
something to one node (`EmptyAt`, `StartAt`, `ReserveAt`, ...) or to each node
at which its recursion arrives, before or after those below (`TopDown`,
`BottomUp`), until it fails; the failure of an allocation is that of one buffer of one
node (`Failures`): a failed reallocation leaves nothing of its buffer, so it does not
matter which of several in a call it is.
The counts a recursion hands down are a recursive function (`Asked`).
The builder validates with `ViewOperations`, as the code does.
`ArrayValues` has what a reader finds in the array: `Read` is what an accessor returns,
and `CallsAppendWhatTheySay` compares it before and after each call.

The callers keep three contracts: `Aligned` (append an empty or null element to
a node only when its children have no unfinished element: the code does not
look), `HasElement` (append to the target child before `FinishUnionElement`),
and no append after `ENOMEM` (nanoarrow.h:1324, "it is generally not safe to
continue after a function has returned a non-zero ArrowErrorCode"). A call that
refused with `EINVAL` or `EOVERFLOW` may be followed by others, and an array
that met `ENOMEM` may still be finished.

### CppStreams

`EmptyArrayStream` and `VectorArrayStream`: the object, the instances that
`ToArrayStream` makes, the structs that name them, and one owner of the schema's
text. The callbacks of `ArrayStreamFactory` look at `private_data` alone, so
they may be called through any struct that has one, moved from or not.

### SchemaFormat

A schema is its format, children, dictionary, flags and extension name; a
format is a sequence of words (`"+w", ":", "3"`), a number being one word whose
value is `Numeral`. The setters build formats; `ViewInit` parses them with every
check, into a view that keeps the fields it does not write. Schemas also come
from other libraries: `ForeignNodes` are formats a setter writes with one word
dropped, replaced or added, with children and dictionaries of any kind.

### Bits, Bitmap, Decimal, Metadata, ChunkSearch

The arithmetic of nanoarrow, each with the value its calls ask for beside it:
`content` of a bitmap, `value` of a decimal, `entries` of a metadata block.
`Bits` is what bytes and masks do; `Bitmap` has the
buffer, its capacity, what an allocation leaves in fresh bytes and what lies
behind the values of an append. Half a word of a decimal counts to 128 and its
groups are two digits, so that all cases of 64 bits and nine digits arise on
small numbers. A metadata block is a sequence of words, one per length or count.
`ChunkSearch` is the loop of `ArrowResolveChunk64`, a step a turn.

### Helpers

Bitmaps, decimals, metadata, the chunk search, schemas and
the two streams do not call one another. A behaviour of
`Helpers` takes one of them (`taken`) and leaves the others as they begin, so
one run checks them all without multiplying their states.

### SequenceLemmas

Lemmas about naturals, sequences and `FlattenSeq` that several of the proofs
need: induction for a named set of naturals, what a sequence of sequences
flattens to, and where each of its parts begins.

### MC modules

`MCCollect`, `MCCollectRefinement`, `MCFactorLevels`, `MCTreeMemory`,
`MCArrayView`, `MCArrayBuilder`, `MCHelpers`, `MCPipeline` give the constants
their small values. `MCTrees` lays out trees that the MC modules write nested.

## 3. The runs

| run | config | shows |
|---|---|---|
| `collect` | MCCollect (module MCCollectRefinement) | ownership, the matrix, termination, refinement of `MatrixFromStream` |
| `pipeline` | MCPipeline | the collector on a basic stream: one owner, nothing left behind, the producer's steps |
| `factor_levels` | MCFactorLevels | map and vector of levels agree; codes are ranks |
| `trees` | MCTreeMemory | no double free, no leak, whole trees |
| `views` | MCArrayView | validation is safe to run, sound and complete on small arrays |
| `build` | MCArrayBuilder | what is appended is what is read, writes stay inside, what is built is accepted |
| `helpers` | MCHelpers | bitmaps, decimals, metadata and chunks give back what was put in; setters against the schema view; both kinds of streams, and the refinement of `ArrowStream` |
| `empty_chunk_ends`, `slice_offset_ignored`, `factor_large_strings`, `union_offsets`, `nested_union` | MCCollectEmpty, MCCollectSliced, MCFactorLarge, MCUnionOffsets, MCNestedUnion | the findings of section 6 |

Bounds, and why they are enough.

* `collect`: two columns of every kind, two chunks of 1, 2 or 7 rows, children
  as long as the struct or one row longer, or a slot nobody filled; two calls.
  `IntMax = 3` lets the count of rows leave the int in one chunk or by the sum
  of two, and come back to a positive number (7 + 2 rows count as 1): this is the
  case where the code relies on Armadillo's bounds checks. Two calls show the
  second one, which finds an empty struct. Ownership does not depend on how many
  chunks there are beyond one kept and one in hand; the proofs have no bound.
* `pipeline`: three slots, so that one before, one at and one after an empty
  chunk or an unfilled slot exist; a second call; one column, which converts
  or fails. The proofs have no bound.
* `factor_levels`: the empty string, a string and its continuation, which is
  where byte order and length order differ; two arrays of up to two elements
  and every slice.
* `trees`: a struct with a dictionary-encoded field, a list of structs,
  unions at the root and one level down: a failure has a level above, a sibling
  before and one after. At most one `ArrowArrayInitFromSchema` fails per
  behaviour, since what it loses is never found again.
* `views`: every layout, up to two elements at offset 0 or 1, contents from
  below to beyond the range, sizes too small, exact and too large, a view used
  before or new. Off-by-one errors need no more. `Int64Max` is 127 and `Int16Max`
  is 2, so that lengths up to the largest, sums beyond it, sizes that wrap and run ends
  that do not reach are among the arrays (`Limits`); what matters of the width is that
  a product leaves it, and the proofs take every width of whole bytes.
* `build`: a tree of each layout, up to four calls, with 0, 1, 2 or all
  reallocations of a call succeeding; counts of 9 cross a byte of the bitmap;
  `IntMin`, `IntMax`, `OffsetMax` are 5 and 4 instead of 2^15 and 2^31, and
  `Int64Max` is 1023, which no size of these arrays comes near.
  Bool arrays stay within one byte (section 7 says why).
* `helpers`: bitmaps of up to 26 bits in three calls: four bytes, so that a
  range begins in one, covers one and ends in one, and runs of 0, 1, 6 and 18
  bits or 2 and 11 values meet every boundary; what was never written is all
  zeroes or all ones. Decimals of half a word, one word and two, with the limits
  of each, a spread of 443 integers between, and digits beyond the width, in
  three calls. Metadata: three keys, one empty and one the prefix of another,
  two values, imported blocks with a key given twice; three calls, every
  reallocation of which may fail. Every array of up to five offsets up to 4, so
  empty chunks at both ends and in the middle. Schemas: every setter with
  arguments in and out of its range, in two calls, and foreign formats with no, one
  or two children; the view new, or used before for a timestamp. A basic stream
  of up to three slots, so that one is delivered, one is next and one is left
  when it is released. C++ streams: two arrays, two structs and two exports, the
  least that lets streams share a schema.

Fairness. Only `CollectStream` has it: weak fairness of `Step`, that is of
the statements of the function itself, which runs to its end once called
(callbacks return and allocations answer, with success or failure). `Call` and
`Finalize` belong to R and are not fair. `CallReturns`, which is
the contract's `Returns`, is stated of producers with `Guarded = TRUE` and finite streams whose
slots are all filled: an unfilled one may lead the call into undefined behaviour.

Deadlock is not checked, because each of these is a library whose user may
stop calling: R drops the object (`gone`), the last chunk is converted
(`FactorLevels`), all is released (`BasicArrayStream`, `TreeMemory`), the
bounded calls are used up (`ArrayBuilder`, `ArrayView`, the parts of
`Helpers`), or the C++ call has run into undefined behaviour. That the collector is not stuck is
`CallReturns`.

## 4. The proofs

Each holds for every value of the constants, under the named assumptions of the
module, which say that bounds and lengths are naturals and which TLC evaluates
in the runs.

| module | theorems | rests on |
|---|---|---|
| `Pipeline_proofs` | `TypeCorrect`, `ArraysAreConserved`, `StreamIsConserved`, `NothingIsLeaked`, `OneDelivery` | `IInv` |
| | `ReturnsConcatenation`, `ImplementsContract` | `CollectInv` |
| | `ArraysHaveOnePlace`, `NothingStays`, `StepsOfTheProducer` | `PInv`, `CallsBounded` and the collector's `IInv` |
| `Streams_proofs` | `StreamTypes`, `StreamArraysConserved`, `PrivateIsReachable`, `ImplementsArrowStream` | `IInv` of BasicArrayStream, `InOrder` |
| | `VectorsAreConserved`, `CallsReadLive` | `CppInv` |
| `Columns_proofs` | `MapAndVectorAgree` | `IInv` of FactorLevels |
| | `CodesOfStrings` | `CodesInv` |
| | `ViewsAreFresh`, `AcceptedSchemasAreUsable` | induction on dictionaries, a lemma per branch of the parser |
| | `SettersAreViewed` | `SchemaInv`, a lemma per setter |
| `TreeMemory_proofs` | `TreesFreedOnce`, `TreesLoseNothing`, `TreesMadeWhole` | `TreeInv`, a lemma per call and one per operation |
| `Helpers_proofs` | `FindsTheChunk` | `SearchInv`, a lemma about sorted offsets |
| | `SetsTheRange` | `ByteAndBit`, and cases on the byte a bit is in |
| | `BitsAsked` | `BitsHeld`, a lemma per operation |
| | `MetadataIsKept` | `BlockInv`, a lemma for the reader and one per call of the builder |
| `ArrayView_proofs` | `ReadsInside`, `AcceptedIsSafe` | `IInv` of ArrayView; `Room`, `Held` and `Sound`, what each level establishes of the array |
| | `WellFormedIsAccepted` | the same, backwards (`WellFormedPasses`, `WellFormedDefault`, `WellFormedSound`) |
| | `ReuseLeavesNothing`, `LengthSizesSuffice` | `SetIs`, `ValidatedAgain`; `LengthFits` |
| `ArrayBuilder_proofs` | `BuilderCountsNulls`, `BuilderReservesEnough` | `IInv` of ArrayBuilder |
| | `BuilderWritesInside`, `BuilderIsAcceptable` | `IInv`, `TameInv`; under `OneByteAtATime` |
| | `WritesInsideWithoutBools`, `AcceptableWithoutBools` | the same, and `BoolsAreTame`; for schemas without bools |
| `SequenceLemmas` | lemmas for the others | induction from the well-foundedness of `<` |

*The collector*, for every number of columns, set of chunks, width of int, for
guarded and unguarded producers. None of the properties is inductive alone.
`ReleasedOnce` counts a release when `arr` is destroyed; that `arr` owns nothing
when the local is not alive is `LocalsEmpty`; that a return visits every local
is `LiveAt`, which ties `live` to the control point; that `get_next` is never
called on a released stream is `StreamInCall`. `IInv` is their conjunction with
the properties; each conjunct has a lemma with one step per action,
`ArraysConserved` rests on a lemma per way an array moves (`Receiving`, `Keeping`,
`Taking`, `ReleasingArr`, `ReleasingHead`), and `NothingLeaks` follows from
`IInv` at `pc \in {"idle", "gone"}`. The ints need `ToIntRange`, the only
arithmetic.

`CollectInv` adds what the matrix is made of. `Gathered`: the arrays in the
vector are the chunks of the stream so far, in order. `Counted`: `cnt` is the
sum of their rows, unless that sum has left the int. `Placed`: what the copies
have written is each chunk's rows at the sum of the rows before it; a copy that
would leave the matrix throws (`FitsSubmat`), so that where the count was wrong
no call returns. `Returned` carries it to the result. That the matrix is the
flattened stream then follows with the lemmas about `FlattenSeq`. `ImplementsContract`
is the refinement: each step is a step of `MatrixFromStream` or none of its
variables change; the step that returns delivers the contract's matrix by
`ReturnsConcatenation`.

*The basic stream.* Its arrays are conserved because the position stays inside
the slots (`SlotsFit`), there are none before Init (`NoneYet`), and at most one
struct can release, that of the phase (`OneReleaser`). A lemma per way an array
moves: into a slot, to the consumer, released with the private data, by the producer
or by the consumer. (The model's producer sets no slot twice, see section 7.) The refinement `IsStream` rests on `InOrder`:
the slots with an array are those from the position on, up to the last one set,
so that what `Left` cuts out of them is what an `ArrowStream` has yet to deliver
(`SettingNext`, `EmptyingNext`); then each action is a step of `ArrowStream` or
none (`SeenStep`).

*The pipeline.* A step of it is a step of the collector (`CollectorSteps`), so the
collector's `IInv` holds whatever the producer does. `Following` adds that
the producer's position is the collector's and that the slots behind it hold
what they were given, `Freeing` that the private data lives exactly as long as
the R object or the local can release it. `OnePlace` follows: an array waits in
its slot, or the collector has it, or it was released by one of the two. `ProducerSteps`
is a step simulation: what the collector has is what it was lent and
has not released (`HeldIs`), so most of its steps are none of the producer's
(`Unseen`), and the others are the release of one array (`GivesBack`), of one schema
copy, or of the stream (`LetsGo`), or an answer of a callback (`Answers`).

*Factor levels.* The vector is empty until the second loop, and outside the renumbering every
level has its place as its number, during it those the loop has passed.
`SortedKeeps` is what sorting must promise: the same levels, each once.
For `CodesOfStrings`, distinct strings that are sorted have the number of lesser ones
as their place, which needs of byte order only that it is total and
irreflexive; and `Cutting` says that the flattened data, cut where the offsets
say, is the element, slices included. The theorem is for 32-bit offsets: what
happens to others is the finding `factor_large_strings`.

*The C++ streams.* At most one instance has arrays, the ones not delivered yet,
behind an offset that is the number delivered (`Vectors`); structs that can
release name different instances, all alive (`Owners`); the schema's text
belongs to the object until the first export, and to instance 2 from then on
(`Schema`), which is why `LiveCallsReadLive` needs its exception: `get_schema` of
an export after the first, once instance 2 is gone. No read of an instance is excepted.

*The chunk search.* `SearchInv` says that the element lies in the chunks that
are left, of which there is at least one; a turn of the loop halves them and
keeps the half with the element.

*Bitmaps.* `ArrowBitsSetTo` writes a first byte, whole
bytes and a last byte; `SetsTheRange` says each bit of the range has
the value and each other bit is as before. A bitmap `Holds` the bits that were asked
for when its buffer is as long as its capacity, its sizes fit in it and the bit
at each place is the one asked for, where one was. Each operation preserves
that: `Reserving` (a reallocation keeps the bytes there are), `RunAppended`,
`RowsAppended` (a first byte, whole bytes packed from eight values each, a last
byte), `Resized`, `RangeSet`, and a failure. What reads ranges of bits is
then right about them: `Unpacks` joins the three pieces, and `Counts` is a
bijection between the set bits and pairs of a byte and a position.

*Metadata.* A block is the encoding of the entries: a count, then each pair as two
lengths and two strings (`BlockInv`). The reader of an encoded block stands, after `i`
reads, where the `i` first pairs end, so it returns the pairs and stops
(`ReadersAre`). An append is the encoding of one pair more; a set or remove rebuilds the
block pair by pair, and after `i` pairs the new block encodes what nanoarrow.h
says of the `i` first ones (`Rewritten`), or a reallocation has failed and
the old block is what it was.

*Schema views.* A parser that refuses leaves members of the view as they were, and
one that accepts sets those of the type. `ViewsAreFresh` takes two views
that differ in everything and shows that each branch of the parser, each check and
each dictionary below says the same of both, and writes every member a reader of the
type may look at (`Alike`, `Tells`). `AcceptedSchemasAreUsable` shows of each type what its
branch and its checks have looked at. Both are inductions on how many dictionaries are
below one another, of which `StackDepth` fit on the stack, as the code recurses on them.
For `SettersAreViewed` the format of each setter is taken apart word by word (`JoinIs`,
`UnionFormatIs`, `DecimalFormatIs`) and put through the parser's branch; the type ids of a
union are counted by an induction over the ids (`TypeIdsAreCounted`). `SchemaInv` says
that after a setter on a new schema the schema is what that setter makes: the property
speaks of the last call, and other calls change the schema too.
The assumptions are about what is outside the code: the table of numerals
(`NumeralAssumption`: a numeral is the text of its number), ints of at least
ten bits, views and nodes that are structs of their types, and setters that are called
with ints whose texts the table has (`CallsAssumption`).

*Trees.* A part of a tree is `Tidy` when the blocks its nodes own are on the heap,
and no other block of these nodes is; a call is `Apart` when it changed nothing
but a node and those below. With these the effect of a call on the whole memory
follows from its effect on a node (`Graft`): one lemma per call of the code
(`StringSet`, `ChildrenAllocated`, `DictionaryAllocated`, `Clearing`,
`ViewReset`, ...), each for every outcome of its allocations. `Made` is
what making a node and all below it leaves: on success the nodes of the shape,
on a failure nothing, or, of an array, child structs that nobody can reach. `NodeMade`
proves it of one level, given it of the ones below, and `TreeMade` of all by
induction on how deep the calls nest. A type's schema is not made that way, but by
the calls of its program: `Follows` says which nodes a call needs and adds,
`Planned` that the four programs supply them. `TreeInv` says that between
two calls of the API the heap is what the three trees own (and what a failed
`ArrowArrayInitFromSchema` lost), that the two views own nothing, and that
trees reported as made are whole; that the view of a failed
`ArrowArrayInitFromSchema` may own something is why it is inductive only with the set of failed calls.

*Views.* A view's sizes are the array's, or what validation assigned in place of an
unknown one. `ReadsInside` therefore goes level by level: what passed minimally has
room for its lengths in the buffers the array *really* has (`Room`: by `Conforms`
where the size was assigned, by the check where it was known), so the
default checks read inside; what passed those has last offsets and run ends inside the
children and the data (`Held`), so the full ones do; and what passed those is
`Sound`, from which `Safe` follows by `SafeIs`. Validation may be called again: a
view that was accepted passes as it is (`MinimalTwice`, `DefaultTwice`,
`ValidatedAgain`), which is also why the model may leave out the minimal passes that
the code repeats below each node. `WellFormedIsAccepted` follows the same levels
in the other direction. `IInv` says of each stage in a view's life
what it was made from (`Stage`): no property is inductive without that, since
`Validate` reads what an earlier call left. `ReuseLeavesNothing` comes from it: the
view is the schema and the array, whatever `OldSizes` was. That trees of one shape
lie at the same positions (`TreesAlike`) is what makes a view for a schema one for the
array. `LengthSizesSuffice` needs that the lengths handed down (a recursive function)
follow their rule at every node, `AskedIs`: an induction on positions.

*The builder.* The proofs climb with the model. A helper changes one buffer by
what it appends (`Turned`, `Got`), or memory ran out and the node is `Spoilt`: still
a node, with sizes within its capacities. Of these a visit of one node is made:
it is refused and changes nothing, or the node has `n` elements more and is
`Filled`, its validity bitmap as long as the array with one zero per null and
its offsets rising to where the data ends (`Grows`). A call is such visits until the
first that fails, down or up the tree (`Outcome`). What that makes of the tree is
`Lands`: `InOrder`, every node filled and its children at least as long as it needs,
unless memory ran out. For this the counts that `_ArrowArrayAppendEmptyInternal`
hands down have to be what each child must grow by (`AskRule`, `FitsGrown`), and a call
that stops on its way must have done the children before their parent (`DoneFirst`):
an append that was refused half-way leaves children too long, never too short. A sparse
union is in order after `FinishUnionElement` only if an element was appended to
the child it names (`UnionLands`), which is the contract `HasElement`.

`IInv` is that the tree is `Arranged` as its schema, that an array not yet
damaged has its nulls counted (`First`), that once started it is `InOrder`, and
that after a `Reserve` each buffer has the room for the view of the tree as it was
before. The last part gives `BuilderReservesEnough`: the lengths `Reserve` reckons
with and the counts an append hands down are two recursions over the tree, and `Agrees` relates
them node by node. `BuilderCountsNulls` is `First`, with a bijection between
zeros of the bitmap and nulls that the view reads. `BuilderIsAcceptable` puts a
tree in order through each level of validation (`MinimalPasses`,
`DefaultPasses`, `FullPasses`). Both it and `BuilderWritesInside` are false of the code as it
stands when a call appends so many elements to a bool array that they end in
another byte than the first of them (section 7): `OneByteAtATime` is the condition that no step
does, `TameInv` what it gives, and the behaviours of the run satisfy it, since the bool
arrays of `build` stay within a byte. `NoBools` says instead that no schema has a bool: a
call keeps the types (`Alikes`), so the condition is then met by itself.

Checked by TLC only: liveness (`CallReturns`, the contract's `Returns`), since
it needs ENABLED; decimals, whose words and digits are computed with RECURSIVE operators, which the prover
does not take; and what is read from an array that was built (`CallsAppendWhatTheySay`,
`ElementsStay`), since `ArrayValues` is written with them too. Where a proof needs
induction it is over a natural (how many arrays, bytes, pairs, calls or levels), from
the well-foundedness of `<`, with the predicate given as a set.

## 5. Not modelled

* `armaVectorExample`, `armaMatrixExample`: one conversion and one reshape, no
  state. (The reshape drops elements when `ncol` does not divide, and `ncol = 0`
  divides by zero; the tag of the pointer is used without a look whether it is
  NULL.)
* Rcpp's generated glue, printing, and the texts of errors and schemas.
* The iterators over views and most owning wrappers of nanoarrow.hpp: no caller
  in the package, and their moves are those of the streams.
* String views, dictionaries, intervals and decimals in the builder,
  `SetValidityBitmap` and `SetBuffer`: variants of the appends that are modelled.
* `ArrowArrayViewCompare`: compares the bytes of two views; the views of the
  model have sizes and offsets, and not the contents of data buffers.
* Number widths in conversions: a number is its position; that an int64 beyond
  2^53 is rounded in a double is not seen.
* Armadillo itself: its bounds and size checks are taken from how wrapper uses
  `submat`.
* Words of decimals on a big-endian host (`low_word_index`), and the point that
  `ArrowDecimalAppendStringToBuffer` places among the digits.
* Extension metadata of a schema view: a schema has an extension name or none.

## 6. Findings

Each is a run that TLC ends with a counterexample to what a comment says.

1. `empty_chunk_ends`: the loop of the collector ends at `length == 0`;
   nanoarrow.h:143 says the end is a released array. A stream with an empty
   chunk in the middle loses the rest, silently.
2. `slice_offset_ignored`: numbers are copied from the start of the buffer,
   whatever the offset of the array; strings are read with the offset.
3. `factor_large_strings`: large strings are read through a view with 32-bit
   offsets.
4. `union_offsets`: full validation of a dense union accepts an offset equal
   to the length of the child.
5. `nested_union`: type ids that are not positions are refused at the root
   only.

## 7. Behaviours the models contain and no run singles out

Streams:

* `ArrowBasicArrayStreamInit` without memory for the slots loses the private
  data and the caller's schema (`InitFailsLate`): the release it calls returns
  at once, because `release` is set last. `PrivateReachable` excepts it.
* `ArrowBasicArrayStreamSetArray` looks at neither the slot nor its place. The
  producer of the model sets the slots in order, each once (`Settable`): a slot set
  twice would lose the first array, and one set behind an unset one would be out of
  reach of the consumer, which takes the unset one for the end.
* An unset slot or a released array at the end is recognised by its `length`,
  which nobody promises is 0: the collector then reads a released array
  (`pc = "undefined"`, in `collect` and `pipeline`).
* A second call on a producer without a guard reads freed memory. The proofs
  cover such producers; the runs take guarded ones.
* A C++ stream object that is exported twice gives the second stream the text of
  the schema but not its ownership: after the release of the first,
  `get_schema` of the second reads freed memory. `LiveCallsReadLive` excepts this
  read, of the schema through a later export, and no other: every instance is found
  alive however often the object was exported.

Trees, views and schemas:

* `ArrowArrayInitFromSchema` does not reset its view when the array cannot be
  made, and `ArrowArrayAllocateChildren` sets `n_children` last, so the release
  after a failure visits none; `NothingLost` names these losses and no other.
* Minimal validation checks that offset + length fits int64 (nanoarrow.c:3001), but
  not that the products made of them do: the size of a buffer (3031, 3035, 3041), the
  length of the child of a fixed-size list (3108) and the bytes of the offsets to compare
  (3510, 3516) wrap around. A string array of length 2^62 - 1 passes with any
  offsets buffer and default validation then reads far behind it (3226); an int64
  array of length 2^58 passes full validation with an empty buffer. The model
  does the same (the array is `wild`, or accepted and not `Safe`), so `ChecksReadInside`,
  `FullIsSafe` and their theorems are stated of arrays whose sizes fit (`SizesFit`).
  `AcceptsWellFormed` needs no such condition; `LengthSizesFit` holds also where sizes
  wrap, unless the length of a child comes out negative (`MayAsk`).
* A fixed-size list may have any int32 as its size: the parser takes `"+w:-1"` and
  `"+w:0"` (nanoarrow.c:1301) and the checks look at the number of children only
  (1684). With a negative size every child is long enough for 3108, and elements are read
  at negative positions of it; `SizesFit` asks for 0 or more. `ListSize` is any integer
  in the proofs about views; the builder's (`ListSizeAssumption`) takes a positive one,
  the only kind the setter writes (713). `AcceptedIsUsable` promises no size either.
* Run ends of length 0 are accepted whatever the array's length; run ends are of
  16 bits here, and an array longer than they reach is rejected (`Int16Max`).
* For string views, the check of `n_buffers` compares a value with itself.
* A setter on a schema with children fails with `EEXIST` after its format
  was written: the new format stands over the old children. `AcceptedIsUsable` says
  what a schema like that still has if it is accepted: of a union, as many type ids as
  children (`CountFits`), though two of them may be equal.
* `ArrowSchemaViewInit` takes a dictionary whose indices are dates or timestamps
  (nanoarrow.c:1615 looks at the storage type), and multiplies a fixed size by 8
  in an int (nanoarrow.c:1795).

Building:

* `_ArrowArrayAppendBits` reserves for `length + 1` bits and writes `n`: nine
  empty elements appended to an empty bool array are written to one byte. The
  model writes as the code does, and `WritesInside` fails when `SmallBuilds`
  gives a bool array the count 9; no comment says how many it takes at once, so
  it is listed as a hazard.
* `ArrowArrayFinishUnionElement` looks at all children of a sparse union but
  the target; nanoarrow.h:2048 asks for `EINVAL` when sizes are inconsistent.
* `ArrowArrayAppendInt` takes any value for bool, float and double;
  nanoarrow.h:1977 promises `EINVAL` for one that is not represented exactly.
* A failed reallocation forgets the old block and its contents.
* `ArrowArrayReserve` adds to the length in int64 and validates nothing: for a
  count whose sizes wrap it reserves too little and succeeds. `ReservedIsEnough` speaks
  of counts that leave all sizes in int64 (`SizesFit` of the builder). That an array
  has no more elements than int64 counts is a bound of the model (`Countable`).

Values:

* Factor codes are per chunk: equal codes of two chunks may be different
  strings (the package's README.md:39 asks for care).
* `ArrowDecimalSetDigits` drops what does not fit into the width without a
  word, and the digits of a decimal32 that is not negative are read from a word
  whose upper half nobody wrote (nanoarrow.c:367); the least int32 prints wrong.
* A bitmap append that fills up the last byte reads behind the values when they
  are fewer than the byte takes (nanoarrow.h:2945); the bits are then
  overwritten or beyond the length.
* The assertion `n > 1` of the chunk search (nanoarrow.h:2349) is stricter than
  the comment above it, which allows one chunk.

## 8. Plan

Done: the collector, factor levels, basic and C++ streams, the collector on a
basic stream, trees, views, builder, bits and bitmaps, decimals, metadata, chunk
search, schema setters and parser; proofs of the streams, the collector, their
composition, both refinements, factor levels, bitmaps, trees, metadata, the chunk
search, schema views and setters, array views and the builder.

Left, in the order in which it would add most:

1. `ArrayBuilder`: dictionaries, `SetValidityBitmap`, `SetBuffer`, string views.
2. Data buffers with contents in `ViewOperations`, and then comparison.
3. Proofs: decimals and the elements that are read from a built array, for
   which RECURSIVE operators have to become recursive functions.
