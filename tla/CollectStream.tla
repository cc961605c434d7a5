--------------------------- MODULE CollectStream ---------------------------
(***************************************************************************)
(* collectMatrixFromStream (src/src/wrapper.cpp): one R thread drains an   *)
(* ArrowArrayStream chunk by chunk and copies every column of every chunk  *)
(* into one matrix.                                                        *)
(*                                                                         *)
(* The C++ locals that own something are UniqueArrayStream aas,            *)
(* UniqueSchema sch, std::vector<UniqueArray> vec and UniqueArray arr.     *)
(* They are constructed in that order, a move copies the struct and NULLs  *)
(* the release callback of the source, and a return or an exception        *)
(* destroys the constructed ones in reverse order: "live" counts them.     *)
(* An ArrowArray struct is a record: its release callback ("id", the array *)
(* it owns, 0 when the callback is NULL) and its length member.            *)
(*                                                                         *)
(* The producer behind the stream is external (duckdb, polars, arrow, a    *)
(* nanoarrow basic stream): it delivers the arrays of "source" in order,   *)
(* may fail at any call, and marks the end with a released array.          *)
(***************************************************************************)
EXTENDS Integers, Sequences, FiniteSets

CONSTANTS
  K,            \* schema->n_children: columns of the stream
  Kinds,        \* column kinds a stream may have
  Chunks,       \* the structs a stream may deliver
  MaxChunks,    \* bound: arrays per stream
  IntMax,       \* INT_MAX of the C int that counts rows
  Guarded,      \* TRUE iff the producer's callbacks check stream->release
  MaxCalls      \* bound: calls made with one R object

(* A chunk: is its release callback set (the slot of a basic array stream  *)
(* that nobody filled is released, with an indeterminate length); length   *)
(* and offset of the struct array, and of each of its children. A struct   *)
(* with no field is left out.                                              *)
ASSUME ColumnsAssumption == K \in Nat \ {0}
ASSUME ChunksAssumption ==
  Chunks \subseteq [set : BOOLEAN, length : Nat, offset : Nat,
                    clen : [1..K -> Nat], coff : [1..K -> Nat]]
ASSUME BoundsAssumption ==
  /\ MaxChunks \in Nat
  /\ MaxCalls \in Nat
  /\ IntMax \in Nat \ {0}
  /\ Guarded \in BOOLEAN
  /\ Kinds \subseteq {"number", "string", "unsupported"}

VARIABLES
  source, fields,              \* what the producer will deliver
  pos,                         \* arrays the producer has handed over
  robj, aas, sch,              \* release callback set? R's stream, aas, sch
  arr, vec,                    \* UniqueArray structs
  freed,                       \* times each array was released
  streamFreed, schemaFreed,    \* times the stream and the schemas were
  schemas,                     \* schemas obtained from the producer
  pc, live,                    \* control point; RAII locals constructed
  cnt, n, currpos, i, j,       \* the ints of the function
  m,                           \* the matrix, a sequence of rows
  result, calls                \* outcome and number of the calls so far

input    == <<source, fields>>
owners   == <<robj, aas, sch, arr, vec>>
releases == <<freed, streamFreed, schemaFreed>>
ints     == <<cnt, n, currpos, i, j>>
vars     == <<input, pos, owners, releases, schemas, pc, live, ints, m, result, calls>>

AAS == 1   SCH == 2   VEC == 3   ARR == 4     \* values of "live"

---------------------------------------------------------------------------
(* The data the function copies.                                           *)

IntMin == -IntMax - 1
Ints   == IntMin..IntMax

(* (int)x for an int64_t x.                                                *)
ToIntWide(x) == x                                              \* mutant
ToInt(x) == IF x \in Ints THEN x
            ELSE ((x - IntMin) % (2 * (IntMax + 1))) + IntMin

NullArray == [id |-> 0, length |-> 0]
Delivered(a) ==
  [id |-> IF source[a].set THEN a ELSE 0, length |-> source[a].length]

(* A cell holds the element it was copied from: the array and the physical *)
(* index into that child's values. arma::mat(n, k) starts zero-filled.     *)
ZeroCell == <<0, 0>>
MatrixRow == [1..K -> Nat \X Nat]

(* Element r of the vector a child converts to: na_array_to_arma_vec takes *)
(* the values buffer from its start; the string path goes through an       *)
(* ArrowArrayView, which adds the child's offset.                          *)
CopiedCell(a, c, r) ==
  <<a, IF fields[c] = "string" THEN source[a].coff[c] + r ELSE r>>

(* m.submat(currpos, j, currpos + length - 1, j) = v, which passes         *)
(* armadillo's bounds check and its size check.                            *)
WithColumn(c) ==
  [row \in DOMAIN m |->
     IF row \in currpos + 1 .. currpos + arr.length
     THEN [m[row] EXCEPT ![c] = CopiedCell(arr.id, c, row - currpos - 1)]
     ELSE m[row]]
FitsUnchecked(a, c) == source[a].clen[c] = arr.length           \* mutant
FitsSubmat(a, c) ==
  /\ currpos >= 0
  /\ currpos + arr.length - 1 < n
  /\ source[a].clen[c] = arr.length

---------------------------------------------------------------------------
(* Initial state: R holds a stream nobody has read yet.                    *)

Sources == UNION {[1..l -> Chunks] : l \in 0..MaxChunks}

Init ==
  /\ source \in Sources
  /\ fields \in [1..K -> Kinds]
  /\ pos = 0
  /\ robj = TRUE /\ aas = FALSE /\ sch = FALSE
  /\ arr = NullArray /\ vec = <<>>
  /\ freed = [a \in DOMAIN source |-> 0]
  /\ streamFreed = 0 /\ schemaFreed = 0 /\ schemas = 0
  /\ pc = "idle" /\ live = 0
  /\ cnt = 0 /\ n = 0 /\ currpos = 0 /\ i = 0 /\ j = 0
  /\ m = <<>>
  /\ result = "none" /\ calls = 0

(* error_exit, exitIfError or a C++ exception: the stack unwinds.          *)
Throw == pc' = "unwind" /\ result' = "error"

(* UniqueArrayStream's constructor: ArrowArrayStreamMove.                  *)
CopyStream == aas' = robj /\ UNCHANGED robj                     \* mutant
MoveStream == aas' = robj /\ robj' = FALSE

(* ArrowArrayMove leaves the source struct in place, without its callback. *)
Copied(a) == a                                                 \* mutant
Moved(a) == [a EXCEPT !.id = 0]

(* release_pointer: only a callback that is set is called. Releases counts *)
(* the calls for the stream and the schema.                                *)
Forget(a) == UNCHANGED freed                                   \* mutant
Release(a) ==
  freed' = IF a.id = 0 THEN freed ELSE [freed EXCEPT ![a.id] = @ + 1]
Releases(isSet) == IF isSet THEN 1 ELSE 0

EndsLoop(a) == a.length = 0
NextRowShort == ToInt(currpos + arr.length - 1)                \* mutant
NextRow     == ToInt(currpos + arr.length)

---------------------------------------------------------------------------
(* The function, step by step.                                             *)

(* R calls it with an object that is not of class nanoarrow_array_stream   *)
(* (any more): the call fails before it touches anything, and "calls" does *)
(* not count it.                                                           *)
RefuseObject ==
  /\ pc = "idle"
  /\ result' = "error" /\ m' = <<>>
  /\ UNCHANGED <<input, pos, owners, releases, schemas, pc, live, ints, calls>>

(* R calls it: the stream moves from the R object into aas.                *)
Call ==
  /\ pc = "idle" /\ calls < MaxCalls
  /\ calls' = calls + 1
  /\ MoveStream
  /\ live' = SCH /\ cnt' = 0 /\ m' = <<>>
  /\ result' = "none" /\ pc' = "schema"
  /\ UNCHANGED <<input, pos, sch, arr, vec, releases, schemas, n, currpos, i, j>>

(* get_schema on a live stream: the producer answers or fails.             *)
GetSchema ==
  /\ pc = "schema" /\ aas
  /\ \/ /\ sch' = TRUE /\ schemas' = schemas + 1
        /\ live' = VEC /\ pc' = "next"
        /\ UNCHANGED result
     \/ Throw /\ UNCHANGED <<sch, schemas, live>>
  /\ UNCHANGED <<input, pos, robj, aas, arr, vec, releases, ints, m, calls>>

(* get_schema through the struct an earlier call left behind: a producer   *)
(* that checks release answers EINVAL, the others read freed memory.       *)
GetSchemaReleased ==
  /\ pc = "schema" /\ ~aas
  /\ IF Guarded THEN Throw ELSE pc' = "undefined" /\ UNCHANGED result
  /\ UNCHANGED <<input, pos, owners, releases, schemas, live, ints, m, calls>>

(* One turn of while (true): a new UniqueArray, zeroed, passed to get_next.*)
GetNext ==
  /\ pc = "next"
  /\ live' = ARR
  /\ \/ /\ pos < Len(source)
        /\ pos' = pos + 1
        /\ arr' = Delivered(pos + 1)
        /\ pc' = "keep" /\ UNCHANGED result
     \/ /\ pos = Len(source)
        /\ arr' = NullArray
        /\ pc' = "keep" /\ UNCHANGED <<pos, result>>
     \/ Throw /\ UNCHANGED <<pos, arr>>
  /\ UNCHANGED <<input, robj, aas, sch, vec, releases, schemas, ints, m, calls>>

(* The loop breaks, which destroys arr.                                    *)
Break ==
  /\ pc = "keep" /\ EndsLoop(arr)
  /\ Release(arr) /\ arr' = NullArray
  /\ live' = VEC /\ pc' = "alloc"
  /\ UNCHANGED <<input, pos, robj, aas, sch, vec, streamFreed, schemaFreed,
                 schemas, ints, m, result, calls>>

(* cnt += arr->length, vec.emplace_back(std::move(arr)); growing the       *)
(* vector may throw, before anything was moved.                            *)
Keep ==
  /\ pc = "keep" /\ ~EndsLoop(arr)
  /\ cnt' = ToInt(cnt + arr.length)
  /\ \/ /\ vec' = Append(vec, arr) /\ arr' = NullArray
        /\ live' = VEC /\ pc' = "next" /\ UNCHANGED result
     \/ Throw /\ UNCHANGED <<vec, arr, live>>
  /\ UNCHANGED <<input, pos, robj, aas, sch, releases, schemas,
                 n, currpos, i, j, m, calls>>

(* arma::mat m(n, k): a negative n becomes a size no allocation satisfies. *)
AllocateMatrix ==
  /\ pc = "alloc"
  /\ n' = cnt /\ currpos' = 0 /\ i' = 0
  /\ \/ /\ cnt >= 0
        /\ m' = [row \in 1..cnt |-> [c \in 1..K |-> ZeroCell]]
        /\ pc' = "chunk" /\ UNCHANGED result
     \/ Throw /\ UNCHANGED m
  /\ UNCHANGED <<input, pos, owners, releases, schemas, live, cnt, j, calls>>

(* for i: UniqueArray arr = std::move(vec[i]).                             *)
TakeChunk ==
  /\ pc = "chunk" /\ i < Len(vec)
  /\ arr' = vec[i + 1] /\ vec' = [vec EXCEPT ![i + 1] = Moved(@)]
  /\ j' = 0 /\ live' = ARR /\ pc' = "col"
  /\ UNCHANGED <<input, pos, robj, aas, sch, releases, schemas, cnt, n, currpos, i,
                 m, result, calls>>

(* One column: convert the child, assign it to its part of the matrix. The *)
(* conversion may always throw (an allocation, a string child its view     *)
(* rejects) and does so on a format it does not know.                      *)
CopyColumn ==
  /\ pc = "col" /\ j < K /\ arr.id # 0
  /\ LET c == j + 1 IN
     \/ /\ fields[c] # "unsupported" /\ FitsSubmat(arr.id, c)
        /\ m' = WithColumn(c)
        /\ j' = j + 1 /\ UNCHANGED <<pc, result>>
     \/ Throw /\ UNCHANGED <<m, j>>
  /\ UNCHANGED <<input, pos, owners, releases, schemas, live, cnt, n, currpos, i, calls>>

(* arr->children of a released array.                                      *)
CopyReleased ==
  /\ pc = "col" /\ j < K /\ arr.id = 0
  /\ pc' = "undefined"
  /\ UNCHANGED <<input, pos, owners, releases, schemas, live, ints, m, result, calls>>

(* currpos += arr->length; arr goes out of scope.                          *)
FinishChunkAgain ==                                            \* mutant
  /\ pc = "col" /\ j = K
  /\ Release(arr) /\ arr' = NullArray
  /\ live' = VEC /\ pc' = "chunk"
  /\ UNCHANGED <<input, pos, robj, aas, sch, vec, streamFreed, schemaFreed, schemas,
                 ints, m, result, calls>>
FinishChunk ==
  /\ pc = "col" /\ j = K
  /\ currpos' = NextRow /\ i' = i + 1
  /\ Release(arr) /\ arr' = NullArray
  /\ live' = VEC /\ pc' = "chunk"
  /\ UNCHANGED <<input, pos, robj, aas, sch, vec, streamFreed, schemaFreed, schemas,
                 cnt, n, j, m, result, calls>>

ReturnMatrix ==
  /\ pc = "chunk" /\ i = Len(vec)
  /\ result' = "ok" /\ pc' = "unwind"
  /\ UNCHANGED <<input, pos, owners, releases, schemas, live, ints, m, calls>>

---------------------------------------------------------------------------
(* Destructors, in reverse order of construction.                          *)

DestroyArr ==
  /\ pc = "unwind" /\ live = ARR
  /\ Release(arr) /\ arr' = NullArray
  /\ live' = VEC
  /\ UNCHANGED <<input, pos, robj, aas, sch, vec, streamFreed, schemaFreed,
                 schemas, pc, ints, m, result, calls>>

DestroyVec ==
  /\ pc = "unwind" /\ live = VEC
  /\ IF vec = <<>> THEN live' = SCH /\ UNCHANGED <<vec, freed>>
     ELSE Release(Head(vec)) /\ vec' = Tail(vec) /\ UNCHANGED live
  /\ UNCHANGED <<input, pos, robj, aas, sch, arr, streamFreed, schemaFreed,
                 schemas, pc, ints, m, result, calls>>

DestroySch ==
  /\ pc = "unwind" /\ live = SCH
  /\ schemaFreed' = schemaFreed + Releases(sch) /\ sch' = FALSE
  /\ live' = AAS
  /\ UNCHANGED <<input, pos, robj, aas, arr, vec, freed, streamFreed,
                 schemas, pc, ints, m, result, calls>>

(* The last destructor releases the stream; the caller sees the outcome.   *)
DestroyAas ==
  /\ pc = "unwind" /\ live = AAS
  /\ streamFreed' = streamFreed + Releases(aas) /\ aas' = FALSE
  /\ live' = 0 /\ pc' = "idle"
  /\ m' = IF result = "ok" THEN m ELSE <<>>
  /\ UNCHANGED <<input, pos, robj, sch, arr, vec, freed, schemaFreed,
                 schemas, ints, result, calls>>

(* R's garbage collector finalizes the external pointer.                   *)
Finalize ==
  /\ pc = "idle"
  /\ streamFreed' = streamFreed + Releases(robj) /\ robj' = FALSE
  /\ pc' = "gone"
  /\ UNCHANGED <<input, pos, aas, sch, arr, vec, freed, schemaFreed,
                 schemas, live, ints, m, result, calls>>

Step ==
  \/ GetSchema \/ GetSchemaReleased \/ GetNext \/ Break \/ Keep
  \/ AllocateMatrix \/ TakeChunk \/ CopyColumn \/ CopyReleased \/ FinishChunk
  \/ ReturnMatrix \/ DestroyArr \/ DestroyVec \/ DestroySch \/ DestroyAas

Next == RefuseObject \/ Call \/ Step \/ Finalize

(* The function runs to its end once called; whether R calls it, or ever   *)
(* collects the object, is up to R.                                        *)
Spec     == Init /\ [][Next]_vars
FairSpec == Spec /\ WF_vars(Step)

---------------------------------------------------------------------------
ArrayStruct == [id : 0..Len(source), length : Nat]

FlagsOK == robj \in BOOLEAN /\ aas \in BOOLEAN /\ sch \in BOOLEAN
OwnersOK ==
  /\ arr \in ArrayStruct /\ vec \in Seq(ArrayStruct)
  /\ freed \in [DOMAIN source -> Nat]
  /\ streamFreed \in Nat /\ schemaFreed \in Nat /\ schemas \in Nat
DataOK ==
  /\ source \in Sources /\ fields \in [1..K -> Kinds]
  /\ pos \in 0..Len(source)
  /\ cnt \in Ints /\ n \in Ints /\ currpos \in Ints
  /\ i \in Nat /\ j \in 0..K
  /\ m \in Seq(MatrixRow)
ControlOK ==
  /\ pc \in {"idle", "schema", "next", "keep", "alloc", "chunk", "col",
             "unwind", "undefined", "gone"}
  /\ live \in 0..ARR
  /\ result \in {"none", "ok", "error"} /\ calls \in Nat
(* The type invariant; the ints stay in the range of a C int.              *)
TypeOK == FlagsOK /\ OwnersOK /\ DataOK /\ ControlOK

(* Nobody owns an array twice or after its release, and nobody loses one: *)
(* each array the producer handed over is owned by one UniqueArray that    *)
(* will release it, or was released once.                                  *)
Lent(a)  == a <= pos /\ source[a].set
Owned(a) == arr.id = a \/ \E x \in DOMAIN vec : vec[x].id = a
SoleOwner ==
  /\ \A x, y \in DOMAIN vec : vec[x].id = vec[y].id /\ vec[x].id # 0 => x = y
  /\ \A x \in DOMAIN vec : arr.id # 0 => vec[x].id # arr.id
ReleasedOnce ==
  \A a \in DOMAIN source :
    /\ Owned(a) => Lent(a)
    /\ freed[a] = IF Lent(a) /\ ~Owned(a) THEN 1 ELSE 0
ArraysConserved == SoleOwner /\ ReleasedOnce

(* The same for the stream (owned by the R object, then by aas) and for    *)
(* the schema get_schema produced.                                         *)
StreamConserved ==
  /\ ~(robj /\ aas)
  /\ streamFreed = IF robj \/ aas THEN 0 ELSE 1
SchemaConserved == schemaFreed + (IF sch THEN 1 ELSE 0) = schemas

(* Whatever way the call ends, it releases the arrays and the schema it    *)
(* obtained and the stream it was given.                                   *)
NothingLeaks ==
  pc \in {"idle", "gone"} =>
    /\ \A a \in 1..pos : source[a].set => freed[a] = 1
    /\ schemaFreed = schemas
    /\ calls > 0 => streamFreed = 1

(* The arrays the loop keeps, those before the first empty one, the rows   *)
(* of a set of arrays, and the number of rows before those of array a.     *)
Kept      == {a \in DOMAIN source : \A b \in 1..a : source[b].length > 0}
RowsOf(A) == UNION {{a} \X (1..source[a].length) : a \in A}
Start(a)  == Cardinality(RowsOf(1..(a - 1)))

(* A returned matrix is the concatenation of the kept arrays, in the order *)
(* of the stream: no row is missing, repeated, left zero or out of place,  *)
(* also when the row count leaves the range of the C int.                  *)
MatrixIsConcatenation ==
  pc = "idle" /\ result = "ok" =>
    /\ Len(m) = Cardinality(RowsOf(Kept))
    /\ \A a \in Kept, c \in 1..K :
         \A r \in 0..(source[a].length - 1) :
           m[Start(a) + r + 1][c] = CopiedCell(a, c, r)

(* No row is lost: a stream ends with a released array, not with an empty  *)
(* one (src/src/nanoarrow/nanoarrow.h, comment on get_next).               *)
EveryRowCollected ==
  pc = "idle" /\ result = "ok" => Len(m) = Cardinality(RowsOf(DOMAIN source))

(* A stream can be collected once: later calls with the same R object fail *)
(* (src/inst/tinytest/test_stream.R).                                      *)
LaterCallsFail == result = "ok" => calls = 1

(* The element an array logically holds in row r of column c: offsets of   *)
(* the struct and of the child are added, as ArrowArrayView accessors do.  *)
LogicalCell(a, c, r) == <<a, source[a].offset + source[a].coff[c] + r>>
CellsAreLogical ==
  pc = "idle" /\ result = "ok" =>
    \A a \in Kept, c \in 1..K :
      \A r \in 0..(source[a].length - 1) :
        m[Start(a) + r + 1][c] = LogicalCell(a, c, r)

(* No slot of the stream is one that nobody filled.                        *)
AllFilled == \A a \in DOMAIN source : source[a].set
=============================================================================
