--------------------------- MODULE Pipeline_proofs --------------------------
(***************************************************************************)
(* Proofs about the stream collector, whatever its producer does, and then *)
(* about the pipeline it makes with a basic array stream: what the stream  *)
(* knows of the collector, and what the two own together.                  *)
(***************************************************************************)
EXTENDS Pipeline, CollectRefinement, SequenceLemmas, SequenceTheorems, FiniteSetTheorems, TLAPS

---------------------------------------------------------------------------
(* CollectStream                                                           *)

(* What is alive at each control point, and what a local owns before its   *)
(* construction and after its destruction: nothing.                        *)
LiveAt ==
  /\ pc \in {"idle", "gone"} => live = 0
  /\ pc = "schema" => live = SCH
  /\ pc \in {"next", "alloc", "chunk"} => live = VEC
  /\ pc \in {"keep", "col"} => live = ARR
  /\ pc = "unwind" => live > 0
LocalsEmpty ==
  /\ live < ARR => arr.id = 0
  /\ live < VEC => vec = <<>>
  /\ live < SCH \/ pc = "schema" => ~sch
  /\ live < AAS => ~aas

(* The stream is in the R object before the first call and in aas during   *)
(* it, and nothing but a live stream is read from.                         *)
StreamInCall ==
  /\ robj => calls = 0
  /\ calls = 0 => pc \in {"idle", "gone"}
  /\ aas => calls = 1
  /\ pc \in {"next", "keep", "alloc", "chunk", "col"} => aas
  /\ pc = "idle" /\ calls = 0 => robj

IInv ==
  /\ TypeOK /\ ArraysConserved /\ StreamConserved /\ SchemaConserved
  /\ LiveAt /\ LocalsEmpty /\ StreamInCall /\ LaterCallsFail

---------------------------------------------------------------------------
(* Converting to int stays in the range of int. *)
LEMMA ToIntRange == \A x \in Int : ToInt(x) \in Ints
<1> USE BoundsAssumption DEF IntMin, Ints
<1> SUFFICES ASSUME NEW x \in Int, x \notin Ints
             PROVE  ToInt(x) \in Ints
    BY DEF ToInt
<1> DEFINE d == 2 * (IntMax + 1)
           y == (x - IntMin) % d
<1>1. d \in Nat /\ d > 0 /\ x - IntMin \in Int
    OBVIOUS
<1>2. y \in 0..(d - 1)
    <2> HIDE DEF d
    <2> QED BY <1>1
<1>3. ToInt(x) = y + IntMin
    BY DEF ToInt
<1> QED BY <1>2, <1>3

LEMMA ZeroIsInt == 0 \in Ints /\ Ints \subseteq Int
BY BoundsAssumption DEF Ints, IntMin

(* A stream is a sequence of chunks. *)
LEMMA SourceIsSeq ==
  ASSUME source \in Sources
  PROVE  /\ Len(source) \in Nat
         /\ DOMAIN source = 1..Len(source)
         /\ \A a \in 1..Len(source) :
              /\ source[a].length \in Nat
              /\ source[a].set \in BOOLEAN
              /\ source[a].coff \in [1..K -> Nat]
<1>1. PICK l \in 0..MaxChunks : source \in [1..l -> Chunks]
    BY DEF Sources
<1>2. source \in Seq(Chunks) /\ Len(source) = l
    BY <1>1, BoundsAssumption
<1> QED BY <1>1, <1>2, ChunksAssumption

(* What get_next hands over is a struct. *)
LEMMA DeliveredType ==
  ASSUME source \in Sources, NEW a \in 1..Len(source)
  PROVE  Delivered(a) \in ArrayStruct
BY SourceIsSeq DEF Delivered, ArrayStruct

LEMMA MovedType ==
  ASSUME source \in Sources, NEW a \in ArrayStruct
  PROVE  Moved(a) \in ArrayStruct
<1>1. 0 \in 0..Len(source)
    BY SourceIsSeq
<1> QED
    BY <1>1 DEF Moved, ArrayStruct

(* Releasing a struct counts the array it owns, if any. *)
LEMMA ReleaseType ==
  ASSUME source \in Sources, freed \in [DOMAIN source -> Nat],
         NEW a \in ArrayStruct, Release(a)
  PROVE  freed' \in [DOMAIN source -> Nat]
BY SourceIsSeq DEF ArrayStruct, Release

(* Copying a column leaves the matrix as wide and as long as it was. *)
LEMMA WithColumnType ==
  ASSUME source \in Sources, m \in Seq(MatrixRow), currpos \in Int,
         arr.id \in 1..Len(source), arr.length \in Nat, NEW c \in 1..K
  PROVE  WithColumn(c) \in Seq(MatrixRow)
<1>1. \A row \in 1..Len(m) : m[row] \in MatrixRow
    OBVIOUS
<1>2. ASSUME NEW row \in 1..Len(m), row \in currpos + 1 .. currpos + arr.length
      PROVE  CopiedCell(arr.id, c, row - currpos - 1) \in Nat \X Nat
  <2>1. row - currpos - 1 \in Nat
      BY <1>2
  <2>2. source[arr.id].coff[c] \in Nat
      BY SourceIsSeq, ChunksAssumption
  <2> QED
      BY <2>1, <2>2 DEF CopiedCell
<1>3. ASSUME NEW row \in 1..Len(m)
      PROVE  WithColumn(c)[row] \in MatrixRow
    BY <1>1, <1>2 DEF WithColumn, MatrixRow
<1>4. WithColumn(c) = [row \in 1..Len(m) |-> WithColumn(c)[row]]
    BY DEF WithColumn
<1> HIDE DEF WithColumn
<1> QED
    BY <1>3, <1>4

(* A release callback is called at most once. *)
LEMMA ReleasesType == \A b : Releases(b) \in {0, 1}
BY DEF Releases

---------------------------------------------------------------------------
(* Type correctness.                                                       *)

LEMMA InitType == Init => TypeOK
<1> SUFFICES ASSUME Init PROVE TypeOK
    OBVIOUS
<1>1. OwnersOK
  <2>1. source \in Sources /\ Len(source) \in Nat
      BY SourceIsSeq DEF Init
  <2>2. NullArray \in ArrayStruct
      BY <2>1 DEF ArrayStruct, NullArray
  <2>3. freed \in [DOMAIN source -> Nat]
      BY DEF Init
  <2> QED
      BY <2>2, <2>3 DEF Init, OwnersOK
<1>0. FlagsOK
    BY DEF Init, FlagsOK
<1>2. DataOK
    BY SourceIsSeq, ZeroIsInt, ColumnsAssumption DEF Init, DataOK
<1>3. ControlOK
    BY DEF Init, ControlOK, ARR
<1> QED
    BY <1>0, <1>1, <1>2, <1>3 DEF TypeOK

LEMMA NextControl == TypeOK /\ [Next]_vars => ControlOK'
<1> SUFFICES ASSUME TypeOK, [Next]_vars PROVE ControlOK'
    OBVIOUS
<1> USE DEF TypeOK, ControlOK
<1> USE DEF ARR, VEC, SCH, AAS, Throw
<1>1. CASE Call
    BY <1>1 DEF Call, input, owners, releases, ints
<1>2. CASE GetSchema
    BY <1>2 DEF GetSchema, input, owners, releases, ints
<1>3. CASE GetSchemaReleased
    BY <1>3 DEF GetSchemaReleased, input, owners, releases, ints
<1>4. CASE GetNext
    BY <1>4 DEF GetNext, input, owners, releases, ints
<1>5. CASE Break
    BY <1>5 DEF Break, input, owners, releases, ints
<1>6. CASE Keep
    BY <1>6 DEF Keep, input, owners, releases, ints
<1>7. CASE AllocateMatrix
    BY <1>7 DEF AllocateMatrix, input, owners, releases, ints
<1>8. CASE TakeChunk
    BY <1>8 DEF TakeChunk, input, owners, releases, ints
<1>9. CASE CopyColumn
    BY <1>9 DEF CopyColumn, input, owners, releases, ints
<1>10. CASE CopyReleased
    BY <1>10 DEF CopyReleased, input, owners, releases, ints
<1>11. CASE FinishChunk
    BY <1>11 DEF FinishChunk, input, owners, releases, ints
<1>12. CASE ReturnMatrix
    BY <1>12 DEF ReturnMatrix, input, owners, releases, ints
<1>13. CASE DestroyArr
    BY <1>13 DEF DestroyArr, input, owners, releases, ints
<1>14. CASE DestroyVec
    BY <1>14 DEF DestroyVec, input, owners, releases, ints
<1>15. CASE DestroySch
    BY <1>15 DEF DestroySch, input, owners, releases, ints
<1>16. CASE DestroyAas
    BY <1>16 DEF DestroyAas, input, owners, releases, ints
<1>17. CASE Finalize
    BY <1>17 DEF Finalize, input, owners, releases, ints
<1>18. CASE UNCHANGED vars
    BY <1>18 DEF vars
<1>19. CASE RefuseObject
    BY <1>19 DEF RefuseObject, input, owners, releases, ints
<1> QED
    BY <1>1, <1>2, <1>3, <1>4, <1>5, <1>6, <1>7, <1>8, <1>9, <1>10, <1>11, <1>12, <1>13, <1>14, <1>15, <1>16, <1>17, <1>18, <1>19 DEF Next, Step

LEMMA NextFlags == TypeOK /\ [Next]_vars => FlagsOK'
<1> SUFFICES ASSUME TypeOK, [Next]_vars PROVE FlagsOK'
    OBVIOUS
<1> USE DEF TypeOK, FlagsOK
<1> USE DEF Throw
<1>1. CASE Call
    BY <1>1 DEF Call, MoveStream
<1>2. CASE GetSchema
    BY <1>2 DEF GetSchema, input, owners, releases, ints
<1>3. CASE GetSchemaReleased
    BY <1>3 DEF GetSchemaReleased, input, owners, releases, ints
<1>4. CASE GetNext
    BY <1>4 DEF GetNext, input, owners, releases, ints
<1>5. CASE Break
    BY <1>5 DEF Break, input, owners, releases, ints
<1>6. CASE Keep
    BY <1>6 DEF Keep, input, owners, releases, ints
<1>7. CASE AllocateMatrix
    BY <1>7 DEF AllocateMatrix, input, owners, releases, ints
<1>8. CASE TakeChunk
    BY <1>8 DEF TakeChunk, input, owners, releases, ints
<1>9. CASE CopyColumn
    BY <1>9 DEF CopyColumn, input, owners, releases, ints
<1>10. CASE CopyReleased
    BY <1>10 DEF CopyReleased, input, owners, releases, ints
<1>11. CASE FinishChunk
    BY <1>11 DEF FinishChunk, input, owners, releases, ints
<1>12. CASE ReturnMatrix
    BY <1>12 DEF ReturnMatrix, input, owners, releases, ints
<1>13. CASE DestroyArr
    BY <1>13 DEF DestroyArr, input, owners, releases, ints
<1>14. CASE DestroyVec
    BY <1>14 DEF DestroyVec, input, owners, releases, ints
<1>15. CASE DestroySch
    BY <1>15 DEF DestroySch, input, owners, releases, ints
<1>16. CASE DestroyAas
    BY <1>16 DEF DestroyAas, input, owners, releases, ints
<1>17. CASE Finalize
    BY <1>17 DEF Finalize, input, owners, releases, ints
<1>18. CASE UNCHANGED vars
    BY <1>18 DEF vars, owners
<1>19. CASE RefuseObject
    BY <1>19 DEF RefuseObject, input, owners, releases, ints
<1> QED
    BY <1>1, <1>2, <1>3, <1>4, <1>5, <1>6, <1>7, <1>8, <1>9, <1>10, <1>11, <1>12, <1>13, <1>14, <1>15, <1>16, <1>17, <1>18, <1>19 DEF Next, Step

LEMMA NextOwners == TypeOK /\ [Next]_vars => OwnersOK'
<1> SUFFICES ASSUME TypeOK, [Next]_vars PROVE OwnersOK'
    OBVIOUS
<1>s. /\ OwnersOK /\ DataOK /\ source \in Sources
      /\ Len(source) \in Nat /\ DOMAIN source = 1..Len(source)
    BY SourceIsSeq DEF TypeOK, DataOK
<1> USE DEF OwnersOK, ArrayStruct, input, owners, releases, ints, NullArray, Throw
<1>1. CASE Call
    BY <1>1, <1>s DEF Call, MoveStream
<1>2. CASE GetSchema
    BY <1>2, <1>s DEF GetSchema
<1>3. CASE GetSchemaReleased
    BY <1>3, <1>s DEF GetSchemaReleased
<1>4. CASE GetNext
  <2>1. arr' \in ArrayStruct
    <3>1. CASE pos < Len(source) /\ arr' = Delivered(pos + 1)
      <4>1. pos + 1 \in 1..Len(source)
          BY <3>1, <1>s DEF DataOK
      <4> QED
          BY <3>1, <4>1, <1>s, DeliveredType
    <3>2. CASE arr' = NullArray
        BY <3>2, <1>s
    <3>3. CASE UNCHANGED arr
        BY <3>3, <1>s
    <3> QED
        BY <1>4, <3>1, <3>2, <3>3 DEF GetNext
  <2> QED
      BY <1>4, <2>1, <1>s DEF GetNext
<1>5. CASE Break
    BY <1>5, <1>s, ReleaseType DEF Break
<1>6. CASE Keep
  <2>1. vec' \in Seq(ArrayStruct) /\ arr' \in ArrayStruct
    <3>1. Append(vec, arr) \in Seq(ArrayStruct) /\ NullArray \in ArrayStruct
        BY <1>s
    <3> QED
        BY <1>6, <3>1, <1>s DEF Keep
  <2> QED
      BY <1>6, <2>1, <1>s DEF Keep
<1>7. CASE AllocateMatrix
    BY <1>7, <1>s DEF AllocateMatrix
<1>8. CASE TakeChunk
  <2>1. i + 1 \in 1..Len(vec) /\ vec[i + 1] \in ArrayStruct
    <3> HIDE DEF ArrayStruct
    <3> QED
        BY <1>8, <1>s DEF TakeChunk, DataOK
  <2>2. Moved(vec[i + 1]) \in ArrayStruct
      BY <2>1, <1>s, MovedType
  <2>3. vec' \in Seq(ArrayStruct)
      BY <1>8, <2>1, <2>2, <1>s DEF TakeChunk
  <2> QED
      BY <1>8, <2>1, <2>3, <1>s DEF TakeChunk
<1>9. CASE CopyColumn
    BY <1>9, <1>s DEF CopyColumn
<1>10. CASE CopyReleased
    BY <1>10, <1>s DEF CopyReleased
<1>11. CASE FinishChunk
    BY <1>11, <1>s, ReleaseType DEF FinishChunk
<1>12. CASE ReturnMatrix
    BY <1>12, <1>s DEF ReturnMatrix
<1>13. CASE DestroyArr
    BY <1>13, <1>s, ReleaseType DEF DestroyArr
<1>14. CASE DestroyVec
  <2>1. CASE vec = << >>
      BY <1>14, <2>1, <1>s DEF DestroyVec
  <2>2. CASE vec # << >> /\ Release(Head(vec))
    <3>1. Head(vec) \in ArrayStruct /\ Tail(vec) \in Seq(ArrayStruct)
      <4> HIDE DEF ArrayStruct
      <4> QED
          BY <2>2, <1>s
    <3>2. freed' \in [DOMAIN source -> Nat]
        BY <2>2, <3>1, <1>s, ReleaseType
    <3> QED
        BY <1>14, <2>2, <3>1, <3>2, <1>s DEF DestroyVec
  <2> QED
      BY <1>14, <2>1, <2>2 DEF DestroyVec
<1>15. CASE DestroySch
    BY <1>15, <1>s, ReleasesType DEF DestroySch
<1>16. CASE DestroyAas
    BY <1>16, <1>s, ReleasesType DEF DestroyAas
<1>17. CASE Finalize
    BY <1>17, <1>s, ReleasesType DEF Finalize
<1>18. CASE UNCHANGED vars
    BY <1>18, <1>s DEF vars
<1>19. CASE RefuseObject
    BY <1>19, <1>s, ReleasesType DEF RefuseObject, input, owners, releases, ints
<1> QED
    BY <1>1, <1>2, <1>3, <1>4, <1>5, <1>6, <1>7, <1>8, <1>9, <1>10, <1>11, <1>12, <1>13, <1>14, <1>15, <1>16, <1>17, <1>18, <1>19 DEF Next, Step

LEMMA NextData == TypeOK /\ [Next]_vars => DataOK'
<1> SUFFICES ASSUME TypeOK, [Next]_vars PROVE DataOK'
    OBVIOUS
<1>s. /\ OwnersOK /\ DataOK /\ source \in Sources
      /\ Len(source) \in Nat /\ DOMAIN source = 1..Len(source)
    BY SourceIsSeq DEF TypeOK, DataOK
<1> USE DEF DataOK, input, owners, releases, ints, Throw
<1>1. CASE Call
    BY <1>1, <1>s, ZeroIsInt DEF Call
<1>2. CASE GetSchema
    BY <1>2, <1>s DEF GetSchema
<1>3. CASE GetSchemaReleased
    BY <1>3, <1>s DEF GetSchemaReleased
<1>4. CASE GetNext
  <2>1. pos' = pos \/ (pos < Len(source) /\ pos' = pos + 1)
      BY <1>4 DEF GetNext
  <2>2. pos' \in 0..Len(source)
      BY <2>1, <1>s
  <2> QED
      BY <1>4, <2>2, <1>s DEF GetNext
<1>5. CASE Break
    BY <1>5, <1>s DEF Break
<1>6. CASE Keep
    BY <1>6, <1>s, ToIntRange, ZeroIsInt DEF Keep, OwnersOK, ArrayStruct
<1>7. CASE AllocateMatrix
  <2>1. m' \in Seq(MatrixRow)
    <3>1. CASE cnt >= 0 /\ m' = [row \in 1..cnt |-> [c \in 1..K |-> ZeroCell]]
      <4>1. [c \in 1..K |-> ZeroCell] \in MatrixRow
          BY DEF ZeroCell, MatrixRow
      <4>2. cnt \in Nat
          BY <3>1, <1>s, ZeroIsInt
      <4> QED
          BY <3>1, <4>1, <4>2
    <3>2. CASE UNCHANGED m
        BY <3>2, <1>s
    <3> QED
        BY <1>7, <3>1, <3>2 DEF AllocateMatrix
  <2> QED
      BY <1>7, <2>1, <1>s, ZeroIsInt DEF AllocateMatrix
<1>8. CASE TakeChunk
    BY <1>8, <1>s, ColumnsAssumption DEF TakeChunk
<1>9. CASE CopyColumn
  <2>1. CASE UNCHANGED <<m, j>>
      BY <1>9, <2>1, <1>s DEF CopyColumn
  <2>2. CASE m' = WithColumn(j + 1) /\ j' = j + 1
    <3>1. /\ m \in Seq(MatrixRow) /\ currpos \in Int /\ j \in 0..K /\ j < K
          /\ arr \in ArrayStruct /\ arr.id # 0
        BY <1>9, <1>s, ZeroIsInt DEF CopyColumn, OwnersOK
    <3>2. j + 1 \in 1..K /\ arr.id \in 1..Len(source) /\ arr.length \in Nat
        BY <3>1, <1>s, ColumnsAssumption DEF ArrayStruct
    <3>3. WithColumn(j + 1) \in Seq(MatrixRow)
        BY <3>1, <3>2, <1>s, WithColumnType
    <3>4. j + 1 \in 0..K
        BY <3>2
    <3> QED
        BY <1>9, <2>2, <3>3, <3>4, <1>s DEF CopyColumn
  <2> QED
      BY <1>9, <2>1, <2>2 DEF CopyColumn
<1>10. CASE CopyReleased
    BY <1>10, <1>s DEF CopyReleased
<1>11. CASE FinishChunk
    BY <1>11, <1>s, ToIntRange, ZeroIsInt DEF FinishChunk, OwnersOK, ArrayStruct, NextRow
<1>12. CASE ReturnMatrix
    BY <1>12, <1>s DEF ReturnMatrix
<1>13. CASE DestroyArr
    BY <1>13, <1>s DEF DestroyArr
<1>14. CASE DestroyVec
    BY <1>14, <1>s DEF DestroyVec
<1>15. CASE DestroySch
    BY <1>15, <1>s DEF DestroySch
<1>16. CASE DestroyAas
    BY <1>16, <1>s DEF DestroyAas
<1>17. CASE Finalize
    BY <1>17, <1>s DEF Finalize
<1>18. CASE UNCHANGED vars
    BY <1>18, <1>s DEF vars
<1>19. CASE RefuseObject
    BY <1>19, <1>s DEF RefuseObject, input, owners, releases, ints
<1> QED
    BY <1>1, <1>2, <1>3, <1>4, <1>5, <1>6, <1>7, <1>8, <1>9, <1>10, <1>11, <1>12, <1>13, <1>14, <1>15, <1>16, <1>17, <1>18, <1>19 DEF Next, Step

LEMMA NextType == TypeOK /\ [Next]_vars => TypeOK'
BY NextControl, NextFlags, NextOwners, NextData DEF TypeOK

---------------------------------------------------------------------------
(* Locals and control.                                                     *)

(* A local is alive where the code that uses it runs. *)
LEMMA NextLiveAt ==
  ASSUME TypeOK, LiveAt, [Next]_vars
  PROVE  LiveAt'
<1> USE DEF TypeOK, ControlOK, LiveAt, input, owners, releases, ints, Throw, ARR, VEC, SCH, AAS
<1>1. CASE Call
    BY <1>1 DEF Call
<1>2. CASE GetSchema
    BY <1>2 DEF GetSchema
<1>3. CASE GetSchemaReleased
    BY <1>3 DEF GetSchemaReleased
<1>4. CASE GetNext
    BY <1>4 DEF GetNext
<1>5. CASE Break
    BY <1>5 DEF Break
<1>6. CASE Keep
    BY <1>6 DEF Keep
<1>7. CASE AllocateMatrix
    BY <1>7 DEF AllocateMatrix
<1>8. CASE TakeChunk
    BY <1>8 DEF TakeChunk
<1>9. CASE CopyColumn
    BY <1>9 DEF CopyColumn
<1>10. CASE CopyReleased
    BY <1>10 DEF CopyReleased
<1>11. CASE FinishChunk
    BY <1>11 DEF FinishChunk
<1>12. CASE ReturnMatrix
    BY <1>12 DEF ReturnMatrix
<1>13. CASE DestroyArr
    BY <1>13 DEF DestroyArr
<1>14. CASE DestroyVec
    BY <1>14 DEF DestroyVec
<1>15. CASE DestroySch
    BY <1>15 DEF DestroySch
<1>16. CASE DestroyAas
    BY <1>16 DEF DestroyAas
<1>17. CASE Finalize
    BY <1>17 DEF Finalize
<1>18. CASE UNCHANGED vars
    BY <1>18 DEF vars
<1>19. CASE RefuseObject
    BY <1>19 DEF RefuseObject, input, owners, releases, ints
<1> QED
    BY <1>1, <1>2, <1>3, <1>4, <1>5, <1>6, <1>7, <1>8, <1>9, <1>10, <1>11, <1>12, <1>13, <1>14, <1>15, <1>16, <1>17, <1>18, <1>19 DEF Next, Step

(* What is not alive owns nothing. *)
LEMMA NextLocalsEmpty ==
  ASSUME TypeOK, LiveAt, LocalsEmpty, [Next]_vars
  PROVE  LocalsEmpty'
<1> USE DEF TypeOK, ControlOK, FlagsOK, LiveAt, LocalsEmpty, NullArray, input, owners, releases, ints, Throw, ARR, VEC, SCH, AAS
<1>1. CASE Call
    BY <1>1 DEF Call, MoveStream
<1>2. CASE GetSchema
    BY <1>2 DEF GetSchema
<1>3. CASE GetSchemaReleased
    BY <1>3 DEF GetSchemaReleased
<1>4. CASE GetNext
    BY <1>4 DEF GetNext
<1>5. CASE Break
    BY <1>5 DEF Break
<1>6. CASE Keep
    BY <1>6 DEF Keep
<1>7. CASE AllocateMatrix
    BY <1>7 DEF AllocateMatrix
<1>8. CASE TakeChunk
    BY <1>8 DEF TakeChunk
<1>9. CASE CopyColumn
    BY <1>9 DEF CopyColumn
<1>10. CASE CopyReleased
    BY <1>10 DEF CopyReleased
<1>11. CASE FinishChunk
    BY <1>11 DEF FinishChunk
<1>12. CASE ReturnMatrix
    BY <1>12 DEF ReturnMatrix
<1>13. CASE DestroyArr
    BY <1>13 DEF DestroyArr
<1>14. CASE DestroyVec
    BY <1>14 DEF DestroyVec
<1>15. CASE DestroySch
    BY <1>15 DEF DestroySch
<1>16. CASE DestroyAas
    BY <1>16 DEF DestroyAas
<1>17. CASE Finalize
    BY <1>17 DEF Finalize
<1>18. CASE UNCHANGED vars
    BY <1>18 DEF vars
<1>19. CASE RefuseObject
    BY <1>19 DEF RefuseObject, input, owners, releases, ints
<1> QED
    BY <1>1, <1>2, <1>3, <1>4, <1>5, <1>6, <1>7, <1>8, <1>9, <1>10, <1>11, <1>12, <1>13, <1>14, <1>15, <1>16, <1>17, <1>18, <1>19 DEF Next, Step

(* The stream is read by the first call only. *)
LEMMA NextStreamInCall ==
  ASSUME TypeOK, LiveAt, LocalsEmpty, StreamInCall, [Next]_vars
  PROVE  StreamInCall'
<1> USE DEF TypeOK, ControlOK, FlagsOK, LiveAt, LocalsEmpty, StreamInCall, input, owners, releases, ints, Throw, ARR, VEC, SCH, AAS
<1>1. CASE Call
    BY <1>1 DEF Call, MoveStream
<1>2. CASE GetSchema
    BY <1>2 DEF GetSchema
<1>3. CASE GetSchemaReleased
    BY <1>3 DEF GetSchemaReleased
<1>4. CASE GetNext
    BY <1>4 DEF GetNext
<1>5. CASE Break
    BY <1>5 DEF Break
<1>6. CASE Keep
    BY <1>6 DEF Keep
<1>7. CASE AllocateMatrix
    BY <1>7 DEF AllocateMatrix
<1>8. CASE TakeChunk
    BY <1>8 DEF TakeChunk
<1>9. CASE CopyColumn
    BY <1>9 DEF CopyColumn
<1>10. CASE CopyReleased
    BY <1>10 DEF CopyReleased
<1>11. CASE FinishChunk
    BY <1>11 DEF FinishChunk
<1>12. CASE ReturnMatrix
    BY <1>12 DEF ReturnMatrix
<1>13. CASE DestroyArr
    BY <1>13 DEF DestroyArr
<1>14. CASE DestroyVec
    BY <1>14 DEF DestroyVec
<1>15. CASE DestroySch
    BY <1>15 DEF DestroySch
<1>16. CASE DestroyAas
    BY <1>16 DEF DestroyAas
<1>17. CASE Finalize
    BY <1>17 DEF Finalize
<1>18. CASE UNCHANGED vars
    BY <1>18 DEF vars
<1>19. CASE RefuseObject
    BY <1>19 DEF RefuseObject, input, owners, releases, ints
<1> QED
    BY <1>1, <1>2, <1>3, <1>4, <1>5, <1>6, <1>7, <1>8, <1>9, <1>10, <1>11, <1>12, <1>13, <1>14, <1>15, <1>16, <1>17, <1>18, <1>19 DEF Next, Step

(* The stream is released once, by its owner. *)
LEMMA NextStream ==
  ASSUME TypeOK, LiveAt, LocalsEmpty, StreamInCall, StreamConserved, [Next]_vars
  PROVE  StreamConserved'
<1> USE DEF TypeOK, ControlOK, FlagsOK, OwnersOK, LiveAt, LocalsEmpty, StreamInCall, StreamConserved, input, owners, releases, ints, Throw, ARR, VEC, SCH, AAS
<1>1. CASE Call
    BY <1>1 DEF Call, MoveStream
<1>2. CASE GetSchema
    BY <1>2 DEF GetSchema
<1>3. CASE GetSchemaReleased
    BY <1>3 DEF GetSchemaReleased
<1>4. CASE GetNext
    BY <1>4 DEF GetNext
<1>5. CASE Break
    BY <1>5 DEF Break
<1>6. CASE Keep
    BY <1>6 DEF Keep
<1>7. CASE AllocateMatrix
    BY <1>7 DEF AllocateMatrix
<1>8. CASE TakeChunk
    BY <1>8 DEF TakeChunk
<1>9. CASE CopyColumn
    BY <1>9 DEF CopyColumn
<1>10. CASE CopyReleased
    BY <1>10 DEF CopyReleased
<1>11. CASE FinishChunk
    BY <1>11 DEF FinishChunk
<1>12. CASE ReturnMatrix
    BY <1>12 DEF ReturnMatrix
<1>13. CASE DestroyArr
    BY <1>13 DEF DestroyArr
<1>14. CASE DestroyVec
    BY <1>14 DEF DestroyVec
<1>15. CASE DestroySch
    BY <1>15 DEF DestroySch
<1>16. CASE DestroyAas
    BY <1>16 DEF DestroyAas, Releases
<1>17. CASE Finalize
    BY <1>17 DEF Finalize, Releases
<1>18. CASE UNCHANGED vars
    BY <1>18 DEF vars
<1>19. CASE RefuseObject
    BY <1>19 DEF RefuseObject, input, owners, releases, ints
<1> QED
    BY <1>1, <1>2, <1>3, <1>4, <1>5, <1>6, <1>7, <1>8, <1>9, <1>10, <1>11, <1>12, <1>13, <1>14, <1>15, <1>16, <1>17, <1>18, <1>19 DEF Next, Step

(* So is the schema. *)
LEMMA NextSchema ==
  ASSUME TypeOK, LiveAt, LocalsEmpty, SchemaConserved, [Next]_vars
  PROVE  SchemaConserved'
<1> USE DEF TypeOK, ControlOK, FlagsOK, OwnersOK, LiveAt, LocalsEmpty, SchemaConserved, input, owners, releases, ints, Throw, ARR, VEC, SCH, AAS
<1>1. CASE Call
    BY <1>1 DEF Call
<1>2. CASE GetSchema
    BY <1>2 DEF GetSchema
<1>3. CASE GetSchemaReleased
    BY <1>3 DEF GetSchemaReleased
<1>4. CASE GetNext
    BY <1>4 DEF GetNext
<1>5. CASE Break
    BY <1>5 DEF Break
<1>6. CASE Keep
    BY <1>6 DEF Keep
<1>7. CASE AllocateMatrix
    BY <1>7 DEF AllocateMatrix
<1>8. CASE TakeChunk
    BY <1>8 DEF TakeChunk
<1>9. CASE CopyColumn
    BY <1>9 DEF CopyColumn
<1>10. CASE CopyReleased
    BY <1>10 DEF CopyReleased
<1>11. CASE FinishChunk
    BY <1>11 DEF FinishChunk
<1>12. CASE ReturnMatrix
    BY <1>12 DEF ReturnMatrix
<1>13. CASE DestroyArr
    BY <1>13 DEF DestroyArr
<1>14. CASE DestroyVec
    BY <1>14 DEF DestroyVec
<1>15. CASE DestroySch
    BY <1>15 DEF DestroySch, Releases
<1>16. CASE DestroyAas
    BY <1>16 DEF DestroyAas
<1>17. CASE Finalize
    BY <1>17 DEF Finalize
<1>18. CASE UNCHANGED vars
    BY <1>18 DEF vars
<1>19. CASE RefuseObject
    BY <1>19 DEF RefuseObject, input, owners, releases, ints
<1> QED
    BY <1>1, <1>2, <1>3, <1>4, <1>5, <1>6, <1>7, <1>8, <1>9, <1>10, <1>11, <1>12, <1>13, <1>14, <1>15, <1>16, <1>17, <1>18, <1>19 DEF Next, Step

(* Only the first call delivers. *)
LEMMA NextLaterCalls ==
  ASSUME TypeOK, StreamInCall, LaterCallsFail, [Next]_vars
  PROVE  LaterCallsFail'
<1> USE DEF TypeOK, ControlOK, FlagsOK, StreamInCall, LaterCallsFail, input, owners, releases, ints, Throw, ARR, VEC, SCH, AAS
<1>1. CASE Call
    BY <1>1 DEF Call, MoveStream
<1>2. CASE GetSchema
    BY <1>2 DEF GetSchema
<1>3. CASE GetSchemaReleased
    BY <1>3 DEF GetSchemaReleased
<1>4. CASE GetNext
    BY <1>4 DEF GetNext
<1>5. CASE Break
    BY <1>5 DEF Break
<1>6. CASE Keep
    BY <1>6 DEF Keep
<1>7. CASE AllocateMatrix
    BY <1>7 DEF AllocateMatrix
<1>8. CASE TakeChunk
    BY <1>8 DEF TakeChunk
<1>9. CASE CopyColumn
    BY <1>9 DEF CopyColumn
<1>10. CASE CopyReleased
    BY <1>10 DEF CopyReleased
<1>11. CASE FinishChunk
    BY <1>11 DEF FinishChunk
<1>12. CASE ReturnMatrix
    BY <1>12 DEF ReturnMatrix
<1>13. CASE DestroyArr
    BY <1>13 DEF DestroyArr
<1>14. CASE DestroyVec
    BY <1>14 DEF DestroyVec
<1>15. CASE DestroySch
    BY <1>15 DEF DestroySch
<1>16. CASE DestroyAas
    BY <1>16 DEF DestroyAas
<1>17. CASE Finalize
    BY <1>17 DEF Finalize
<1>18. CASE UNCHANGED vars
    BY <1>18 DEF vars
<1>19. CASE RefuseObject
    BY <1>19 DEF RefuseObject, input, owners, releases, ints
<1> QED
    BY <1>1, <1>2, <1>3, <1>4, <1>5, <1>6, <1>7, <1>8, <1>9, <1>10, <1>11, <1>12, <1>13, <1>14, <1>15, <1>16, <1>17, <1>18, <1>19 DEF Next, Step

---------------------------------------------------------------------------
(* Arrays.                                                                 *)

(* The facts about types that the lemmas below use. *)
LEMMA OwnerTypes ==
  ASSUME TypeOK
  PROVE  /\ source \in Sources
         /\ Len(source) \in Nat /\ DOMAIN source = 1..Len(source)
         /\ pos \in 0..Len(source)
         /\ arr.id \in 0..Len(source)
         /\ Len(vec) \in Nat /\ DOMAIN vec = 1..Len(vec)
         /\ \A x \in 1..Len(vec) : vec[x] \in ArrayStruct /\ vec[x].id \in 0..Len(source)
         /\ vec \in Seq(ArrayStruct)
         /\ freed \in [1..Len(source) -> Nat]
<1>1. source \in Sources /\ OwnersOK /\ pos \in 0..Len(source)
    BY DEF TypeOK, DataOK
<1>2. Len(source) \in Nat /\ DOMAIN source = 1..Len(source)
    BY <1>1, SourceIsSeq
<1>3. vec \in Seq(ArrayStruct) /\ arr \in ArrayStruct /\ freed \in [1..Len(source) -> Nat]
    BY <1>1, <1>2 DEF OwnersOK
<1>4. /\ Len(vec) \in Nat /\ DOMAIN vec = 1..Len(vec)
      /\ \A x \in 1..Len(vec) : vec[x] \in ArrayStruct
    BY <1>3
<1>5. \A a \in ArrayStruct : a.id \in 0..Len(source)
    BY DEF ArrayStruct
<1> QED
    BY <1>1, <1>2, <1>3, <1>4, <1>5

(* A step that touches neither the structs nor the arrays. *)
LEMMA KeepsArrays ==
  ASSUME ArraysConserved, UNCHANGED <<source, pos, arr, vec, freed>>
  PROVE  ArraysConserved'
BY DEF ArraysConserved, SoleOwner, ReleasedOnce, Owned, Lent

(* Leaving the scope of arr releases the array it owns: a break, the end   *)
(* of a turn of the copy loop, an exception.                               *)
LEMMA ReleasingArr ==
  ASSUME TypeOK, ArraysConserved, Release(arr), arr' = NullArray,
         UNCHANGED <<source, pos, vec>>
  PROVE  ArraysConserved'
<1> USE OwnerTypes DEF ArraysConserved, SoleOwner, ReleasedOnce, NullArray
<1>1. arr'.id = 0 /\ vec' = vec
    OBVIOUS
<1>2. SoleOwner'
    BY <1>1
<1>3. ASSUME NEW a \in 1..Len(source)
      PROVE  Owned(a)' <=> (Owned(a) /\ a # arr.id)
    BY <1>1 DEF Owned
<1>4. ASSUME NEW a \in 1..Len(source)
      PROVE  /\ Lent(a)' <=> Lent(a)
             /\ freed'[a] = IF a = arr.id THEN freed[a] + 1 ELSE freed[a]
    BY DEF Lent, Release
<1>5. ASSUME NEW a \in 1..Len(source)
      PROVE  /\ Owned(a)' => Lent(a)'
             /\ freed'[a] = IF Lent(a)' /\ ~Owned(a)' THEN 1 ELSE 0
    BY <1>3, <1>4 DEF Owned
<1>6. ReleasedOnce'
    BY <1>5
<1> QED
    BY <1>2, <1>6

(* get_next hands over an array nobody owned before. *)
LEMMA Receiving ==
  ASSUME TypeOK, ArraysConserved, arr.id = 0, pos < Len(source),
         pos' = pos + 1, arr' = Delivered(pos + 1),
         UNCHANGED <<source, vec, freed>>
  PROVE  ArraysConserved'
<1> USE OwnerTypes DEF ArraysConserved, SoleOwner, ReleasedOnce
<1>1. arr'.id = IF source[pos + 1].set THEN pos + 1 ELSE 0
    BY DEF Delivered
<1>2. \A x \in 1..Len(vec) : vec[x].id # pos + 1
    BY DEF Owned, Lent
<1>3. SoleOwner'
    BY <1>1, <1>2
<1>4. ASSUME NEW a \in 1..Len(source)
      PROVE  /\ Owned(a)' <=> (Owned(a) \/ (a = pos + 1 /\ source[a].set))
             /\ Lent(a)' <=> (Lent(a) \/ (a = pos + 1 /\ source[a].set))
    BY <1>1 DEF Owned, Lent
<1>5. ReleasedOnce'
    BY <1>4 DEF Lent
<1> QED
    BY <1>3, <1>5

(* emplace_back(std::move(arr)): the array gets a new owner. *)
LEMMA Keeping ==
  ASSUME TypeOK, ArraysConserved, vec' = Append(vec, arr), arr' = NullArray,
         UNCHANGED <<source, pos, freed>>
  PROVE  ArraysConserved'
<1> USE OwnerTypes DEF ArraysConserved, SoleOwner, ReleasedOnce, NullArray
<1>1. /\ DOMAIN vec' = 1..(Len(vec) + 1)
      /\ \A x \in 1..Len(vec) : vec'[x] = vec[x]
      /\ vec'[Len(vec) + 1] = arr
    BY DEF TypeOK, OwnersOK
<1>2. SoleOwner'
    BY <1>1
<1>3. ASSUME NEW a \in 1..Len(source)
      PROVE  (Owned(a)' <=> Owned(a)) /\ (Lent(a)' <=> Lent(a))
  <2>1. Owned(a)' => Owned(a)
      BY <1>1 DEF Owned
  <2>2. ASSUME Owned(a) PROVE Owned(a)'
    <3>1. CASE arr.id = a
      <4>1. Len(vec) + 1 \in DOMAIN vec' /\ vec'[Len(vec) + 1].id = a
          BY <1>1, <3>1
      <4> QED
          BY <4>1 DEF Owned
    <3>2. CASE \E x \in DOMAIN vec : vec[x].id = a
        BY <1>1, <3>2 DEF Owned
    <3> QED
        BY <2>2, <3>1, <3>2 DEF Owned
  <2> QED
      BY <2>1, <2>2 DEF Lent
<1>4. ReleasedOnce'
    BY <1>3
<1> QED
    BY <1>2, <1>4

(* arr = std::move(vec[i]): back again, and vec[i] owns nothing. *)
LEMMA Taking ==
  ASSUME TypeOK, ArraysConserved, arr.id = 0, i < Len(vec),
         arr' = vec[i + 1], vec' = [vec EXCEPT ![i + 1] = Moved(@)],
         UNCHANGED <<source, pos, freed>>
  PROVE  ArraysConserved'
<1> USE OwnerTypes DEF ArraysConserved, SoleOwner, ReleasedOnce
<1>1. i + 1 \in 1..Len(vec)
    BY DEF TypeOK, DataOK
<1>2. /\ DOMAIN vec' = 1..Len(vec)
      /\ vec'[i + 1].id = 0
      /\ \A x \in 1..Len(vec) : x # i + 1 => vec'[x] = vec[x]
    BY <1>1 DEF Moved, ArrayStruct
<1>3. SoleOwner'
    BY <1>1, <1>2
<1>4. ASSUME NEW a \in 1..Len(source)
      PROVE  (Owned(a)' <=> Owned(a)) /\ (Lent(a)' <=> Lent(a))
    BY <1>1, <1>2 DEF Owned, Lent
<1>5. ReleasedOnce'
    BY <1>4
<1> QED
    BY <1>3, <1>5

(* The vector's destructor releases its first element. *)
LEMMA ReleasingHead ==
  ASSUME TypeOK, ArraysConserved, vec # <<>>, Release(Head(vec)),
         vec' = Tail(vec), UNCHANGED <<source, pos, arr>>
  PROVE  ArraysConserved'
<1> USE OwnerTypes DEF ArraysConserved, SoleOwner, ReleasedOnce
<1> DEFINE h == vec[1].id
<1>1. /\ 1 \in 1..Len(vec) /\ Head(vec) = vec[1]
      /\ DOMAIN vec' = 1..(Len(vec) - 1)
      /\ \A x \in 1..(Len(vec) - 1) : vec'[x] = vec[x + 1]
    OBVIOUS
<1>2. SoleOwner'
    BY <1>1
<1>3. ASSUME NEW a \in 1..Len(source)
      PROVE  Owned(a)' <=> (Owned(a) /\ a # h)
    <2>1. ASSUME Owned(a)' PROVE Owned(a) /\ a # h
        BY <1>1, <2>1 DEF Owned
    <2>2. ASSUME Owned(a), a # h PROVE Owned(a)'
      <3>1. CASE arr.id = a
          BY <3>1 DEF Owned
      <3>2. CASE \E x \in 1..Len(vec) : vec[x].id = a
        <4>1. PICK x \in 1..Len(vec) : vec[x].id = a
            BY <3>2
        <4>2. x - 1 \in 1..(Len(vec) - 1) /\ vec'[x - 1].id = a
            BY <1>1, <2>2, <4>1
        <4> QED
            BY <1>1, <4>2 DEF Owned
      <3> QED
          BY <2>2, <3>1, <3>2 DEF Owned
    <2> QED
        BY <2>1, <2>2
<1>4. ASSUME NEW a \in 1..Len(source)
      PROVE  /\ Lent(a)' <=> Lent(a)
             /\ freed'[a] = IF a = h THEN freed[a] + 1 ELSE freed[a]
    BY <1>1 DEF Lent, Release
<1>5. ASSUME NEW a \in 1..Len(source), a = h
      PROVE  Owned(a)
    BY <1>1, <1>5 DEF Owned
<1>6. ReleasedOnce'
    BY <1>3, <1>4, <1>5
<1> QED
    BY <1>2, <1>6

(* Every step conserves the arrays. *)
LEMMA NextArrays ==
  ASSUME TypeOK, LiveAt, LocalsEmpty, ArraysConserved, [Next]_vars
  PROVE  ArraysConserved'
<1> USE DEF input, owners, releases, ints, Throw, ARR, VEC, SCH, AAS
<1>1. CASE GetNext
  <2>1. arr.id = 0
      BY <1>1 DEF GetNext, LiveAt, LocalsEmpty
  <2>2. CASE pos < Len(source) /\ pos' = pos + 1 /\ arr' = Delivered(pos + 1)
      BY <1>1, <2>1, <2>2, Receiving DEF GetNext
  <2>3. CASE arr' = NullArray /\ UNCHANGED pos
    <3>1. Release(arr) /\ UNCHANGED <<source, pos, vec>>
        BY <1>1, <2>1, <2>3 DEF GetNext, Release
    <3> QED
        BY <2>3, <3>1, ReleasingArr
  <2>4. CASE UNCHANGED <<pos, arr>>
      BY <1>1, <2>4, KeepsArrays DEF GetNext
  <2> QED
      BY <1>1, <2>2, <2>3, <2>4 DEF GetNext
<1>2. CASE Break
    BY <1>2, ReleasingArr DEF Break
<1>3. CASE Keep
  <2>1. CASE vec' = Append(vec, arr) /\ arr' = NullArray
      BY <1>3, <2>1, Keeping DEF Keep
  <2>2. CASE UNCHANGED <<vec, arr>>
      BY <1>3, <2>2, KeepsArrays DEF Keep
  <2> QED
      BY <1>3, <2>1, <2>2 DEF Keep
<1>4. CASE TakeChunk
  <2>1. arr.id = 0
      BY <1>4 DEF TakeChunk, LiveAt, LocalsEmpty
  <2> QED
      BY <1>4, <2>1, Taking DEF TakeChunk
<1>5. CASE FinishChunk
    BY <1>5, ReleasingArr DEF FinishChunk
<1>6. CASE DestroyArr
    BY <1>6, ReleasingArr DEF DestroyArr
<1>7. CASE DestroyVec
  <2>1. CASE vec = <<>>
      BY <1>7, <2>1, KeepsArrays DEF DestroyVec
  <2>2. CASE vec # <<>>
      BY <1>7, <2>2, ReleasingHead DEF DestroyVec
  <2> QED
      BY <2>1, <2>2
<1>8. CASE Call
    BY <1>8, KeepsArrays DEF Call
<1>9. CASE GetSchema
    BY <1>9, KeepsArrays DEF GetSchema
<1>10. CASE GetSchemaReleased
    BY <1>10, KeepsArrays DEF GetSchemaReleased
<1>11. CASE AllocateMatrix
    BY <1>11, KeepsArrays DEF AllocateMatrix
<1>12. CASE CopyColumn
    BY <1>12, KeepsArrays DEF CopyColumn
<1>13. CASE CopyReleased
    BY <1>13, KeepsArrays DEF CopyReleased
<1>14. CASE ReturnMatrix
    BY <1>14, KeepsArrays DEF ReturnMatrix
<1>15. CASE DestroySch
    BY <1>15, KeepsArrays DEF DestroySch
<1>16. CASE DestroyAas
    BY <1>16, KeepsArrays DEF DestroyAas
<1>17. CASE Finalize
    BY <1>17, KeepsArrays DEF Finalize
<1>18. CASE UNCHANGED vars
    BY <1>18, KeepsArrays DEF vars
<1>19. CASE RefuseObject
    BY <1>19, KeepsArrays DEF RefuseObject, input, owners, releases, ints
<1> QED
    BY <1>1, <1>2, <1>3, <1>4, <1>5, <1>6, <1>7, <1>8, <1>9, <1>10, <1>11, <1>12, <1>13, <1>14, <1>15, <1>16, <1>17, <1>18, <1>19 DEF Next, Step

---------------------------------------------------------------------------
(* Counting rows.                                                          *)

RowsOfOne(a) == {a} \X (1..source[a].length)

LEMMA RowsOfOneCount ==
  ASSUME source \in Sources, NEW a \in 1..Len(source)
  PROVE  IsFiniteSet(RowsOfOne(a)) /\ Cardinality(RowsOfOne(a)) = source[a].length
<1>1. source[a].length \in Nat
    BY SourceIsSeq
<1>2. /\ IsFiniteSet({a}) /\ Cardinality({a}) = 1
      /\ IsFiniteSet(1..source[a].length)
      /\ Cardinality(1..source[a].length) = source[a].length
  <2> DEFINE l == source[a].length
  <2>1. l \in Nat
      BY <1>1
  <2> HIDE DEF l
  <2>2. IsFiniteSet(1..l) /\ Cardinality(1..l) = l
      BY <2>1, FS_Interval
  <2> QED
      BY <2>2, FS_Singleton, Zenon DEF l
<1>3. RowsOfOne(a) = {a} \X (1..source[a].length)
    BY DEF RowsOfOne
<1>4. /\ IsFiniteSet(RowsOfOne(a))
      /\ Cardinality(RowsOfOne(a)) = Cardinality({a}) * Cardinality(1..source[a].length)
    BY <1>2, <1>3, FS_Product, Zenon
<1> QED
    BY <1>1, <1>2, <1>4

LEMMA RowsElements ==
  ASSUME NEW A, NEW x
  PROVE  x \in RowsOf(A) <=> \E a \in A : x \in RowsOfOne(a)
BY Zenon DEF RowsOf, RowsOfOne

LEMMA RowsNext ==
  ASSUME NEW k \in Nat
  PROVE  RowsOf(1..(k + 1)) = RowsOf(1..k) \cup RowsOfOne(k + 1)
<1>1. 1..(k + 1) = (1..k) \cup {k + 1}
    OBVIOUS
<1> QED
    BY <1>1, RowsElements

LEMMA RowsFinite ==
  ASSUME source \in Sources, NEW a \in 0..Len(source)
  PROVE  IsFiniteSet(RowsOf(1..a))
<1> DEFINE T == {k \in Nat : k <= Len(source) => IsFiniteSet(RowsOf(1..k))}
<1>0. Len(source) \in Nat
    BY SourceIsSeq
<1>1. 0 \in T
  <2>1. RowsOf(1..0) = {}
      BY DEF RowsOf
  <2> QED
      BY <2>1, FS_EmptySet
<1>2. ASSUME NEW k \in T PROVE k + 1 \in T
  <2> SUFFICES ASSUME k + 1 <= Len(source) PROVE IsFiniteSet(RowsOf(1..(k + 1)))
      OBVIOUS
  <2>1. k \in Nat /\ k + 1 \in 1..Len(source) /\ IsFiniteSet(RowsOf(1..k))
      BY <1>0
  <2> QED
    <3>1. RowsOf(1..(k + 1)) = RowsOf(1..k) \cup RowsOfOne(k + 1)
        BY <2>1, RowsNext
    <3>2. IsFiniteSet(RowsOfOne(k + 1))
        BY <2>1, RowsOfOneCount
    <3> QED
        BY <2>1, <3>1, <3>2, FS_Union, Zenon
<1>3. T \subseteq Nat
    OBVIOUS
<1>4. a \in T
  <2>1. a \in Nat
      BY <1>0
  <2> HIDE DEF T
  <2>2. Nat \subseteq T
      BY <1>1, <1>2, <1>3, NatInduct, Zenon
  <2> QED
      BY <2>1, <2>2
<1> QED
    BY <1>4, <1>0

LEMMA StartNext ==
  ASSUME source \in Sources
  PROVE  /\ Start(1) = 0
         /\ \A a \in 1..(Len(source) + 1) : Start(a) \in Nat
         /\ \A a \in 1..Len(source) : Start(a + 1) = Start(a) + source[a].length
<1>0. Len(source) \in Nat
    BY SourceIsSeq
<1>1. Start(1) = 0
  <2>1. RowsOf(1..0) = {}
      BY DEF RowsOf
  <2> QED
      BY <2>1, FS_EmptySet DEF Start
<1>2. ASSUME NEW a \in 1..(Len(source) + 1) PROVE Start(a) \in Nat
  <2>1. a - 1 \in 0..Len(source)
      BY <1>0
  <2> QED
      BY <2>1, RowsFinite, FS_CardinalityType DEF Start
<1>3. ASSUME NEW a \in 1..Len(source) PROVE Start(a + 1) = Start(a) + source[a].length
  <2> DEFINE A == RowsOf(1..(a - 1))
             B == RowsOfOne(a)
  <2>1. a - 1 \in 0..Len(source) /\ a - 1 \in Nat /\ (a - 1) + 1 = a /\ (a + 1) - 1 = a
      BY <1>0
  <2>2. RowsOf(1..a) = A \cup B
      BY <2>1, RowsNext
  <2>3. A \cap B = {}
    <3>1. a \notin 1..(a - 1)
        BY <1>0
    <3> QED
        BY <3>1 DEF RowsOf, RowsOfOne
  <2>4. IsFiniteSet(A) /\ IsFiniteSet(B) /\ Cardinality(B) = source[a].length
      BY <2>1, RowsFinite, RowsOfOneCount
  <2>5. Cardinality(A) \in Nat /\ source[a].length \in Nat
      BY <2>4, FS_CardinalityType, SourceIsSeq
  <2>6. Cardinality(A \cup B) = Cardinality(A) + Cardinality(B) - Cardinality({})
    <3> HIDE DEF A, B
    <3> QED
      BY <2>3, <2>4, FS_Union
  <2>7. Start(a + 1) = Cardinality(RowsOf(1..a)) /\ Start(a) = Cardinality(A)
      BY <2>1 DEF Start
  <2>8. Start(a + 1) = Cardinality(A \cup B)
      BY <2>2, <2>7
  <2> HIDE DEF A, B
  <2> QED
      BY <2>4, <2>5, <2>6, <2>7, <2>8, FS_EmptySet
<1> QED
    BY <1>1, <1>2, <1>3

(* Start grows with the position. *)
LEMMA StartGrows ==
  ASSUME source \in Sources,
         NEW a \in 1..Len(source), NEW b \in (a + 1)..(Len(source) + 1)
  PROVE  Start(a) + source[a].length <= Start(b)
<1>0. Len(source) \in Nat
    BY SourceIsSeq
<1>1. RowsOf(1..a) \subseteq RowsOf(1..(b - 1))
  <2>1. 1..a \subseteq 1..(b - 1)
      BY <1>0
  <2> QED
      BY <2>1 DEF RowsOf
<1>2. b - 1 \in 0..Len(source) /\ (a + 1) - 1 = a
    BY <1>0
<1>3. Cardinality(RowsOf(1..a)) <= Cardinality(RowsOf(1..(b - 1)))
    BY <1>1, <1>2, RowsFinite, FS_Subset
<1>4. Start(a + 1) <= Start(b)
    BY <1>2, <1>3 DEF Start
<1> QED
    BY <1>4, StartNext

(* What the vector holds: the first arrays of the stream, in order.        *)
InVec(x) ==
  /\ vec[x].id \in {0, x}
  /\ vec[x].length = source[x].length
  /\ source[x].length > 0
VecInOrder ==
  /\ Len(vec) <= Len(source)
  /\ \A x \in 1..Len(vec) : InVec(x)
Working == {"next", "keep", "alloc", "chunk", "col"}
Gathered ==
  /\ calls = 0 => pos = 0
  /\ pc = "schema" => cnt = 0 /\ (aas => pos = 0)
  /\ pc \in Working => VecInOrder
  /\ pc = "next" => pos = Len(vec)
  /\ pc = "keep" =>
       \/ arr = NullArray /\ pos = Len(vec) /\ pos = Len(source)
       \/ pos = Len(vec) + 1 /\ arr = Delivered(pos)
  /\ pc \in {"alloc", "chunk", "col"} =>
       Len(vec) = Len(source) \/ source[Len(vec) + 1].length = 0

LEMMA GatheredTypes ==
  ASSUME TypeOK
  PROVE  /\ Len(source) \in Nat /\ Len(vec) \in Nat /\ pos \in Nat /\ pos <= Len(source)
         /\ i \in Nat /\ j \in Nat /\ j <= K /\ K \in Nat /\ K > 0
         /\ cnt \in Int /\ n \in Int /\ currpos \in Int
         /\ cnt <= IntMax /\ n <= IntMax /\ currpos <= IntMax
         /\ arr.length \in Nat /\ arr.id \in Nat
<1>1. OwnersOK /\ DataOK
    BY DEF TypeOK
<1>2. /\ pos \in 0..Len(source) /\ i \in Nat /\ j \in 0..K
      /\ cnt \in Ints /\ n \in Ints /\ currpos \in Ints /\ arr \in ArrayStruct
    BY <1>1 DEF OwnersOK, DataOK
<1>3. Len(source) \in Nat /\ Len(vec) \in Nat
    BY OwnerTypes
<1>4. \A x \in Ints : x \in Int /\ x <= IntMax
    BY BoundsAssumption DEF Ints, IntMin
<1>5. arr.length \in Nat /\ arr.id \in Nat
    BY <1>2, <1>3 DEF ArrayStruct
<1> QED
    BY <1>2, <1>3, <1>4, <1>5, ColumnsAssumption

LEMMA VecSame ==
  ASSUME VecInOrder, UNCHANGED <<source, vec>>
  PROVE  VecInOrder'
BY DEF VecInOrder, InVec

LEMMA VecKept ==
  ASSUME TypeOK, VecInOrder, pos = Len(vec) + 1, arr = Delivered(pos), arr.length # 0,
         vec' = Append(vec, arr), UNCHANGED source
  PROVE  VecInOrder' /\ Len(vec') = Len(vec) + 1
<1>1. /\ Len(vec') = Len(vec) + 1
      /\ \A x \in 1..Len(vec) : vec'[x] = vec[x]
      /\ vec'[Len(vec) + 1] = arr
    BY OwnerTypes
<1>2. /\ arr.id \in {0, pos} /\ arr.length = source[pos].length
      /\ source[pos].length > 0
    BY GatheredTypes DEF Delivered
<1>3. ASSUME NEW x \in 1..(Len(vec) + 1)
      PROVE  InVec(x)'
  <2>1. CASE x = Len(vec) + 1
      BY <1>1, <1>2, <2>1 DEF InVec
  <2>2. CASE x \in 1..Len(vec)
      BY <1>1, <2>2 DEF InVec, VecInOrder
  <2> QED
      BY <2>1, <2>2, GatheredTypes
<1>4. Len(vec') <= Len(source)
    BY <1>1, GatheredTypes
<1> QED
    BY <1>1, <1>3, <1>4 DEF VecInOrder

LEMMA VecTaken ==
  ASSUME TypeOK, VecInOrder, i < Len(vec),
         vec' = [vec EXCEPT ![i + 1] = Moved(@)], UNCHANGED source
  PROVE  VecInOrder' /\ Len(vec') = Len(vec)
<1>1. i + 1 \in 1..Len(vec)
    BY GatheredTypes
<1>2. /\ Len(vec') = Len(vec)
      /\ \A x \in 1..Len(vec) : x # i + 1 => vec'[x] = vec[x]
      /\ vec'[i + 1] = Moved(vec[i + 1])
    BY <1>1, OwnerTypes
<1>3. Moved(vec[i + 1]).id = 0 /\ Moved(vec[i + 1]).length = vec[i + 1].length
    BY <1>1, OwnerTypes DEF Moved, ArrayStruct
<1>4. ASSUME NEW x \in 1..Len(vec)
      PROVE  InVec(x)'
    BY <1>2, <1>3 DEF InVec, VecInOrder
<1> QED
    BY <1>2, <1>4 DEF VecInOrder

LEMMA NextGathered ==
  ASSUME TypeOK, LiveAt, LocalsEmpty, StreamInCall, Gathered, [Next]_vars
  PROVE  Gathered'
<1>t. /\ pos \in Nat /\ Len(vec) \in Nat /\ Len(source) \in Nat
      /\ pos <= Len(source) /\ calls \in Nat
    BY GatheredTypes DEF TypeOK, ControlOK
<1> USE DEF Gathered, Working, input, owners, releases, ints, Throw
<1>1. CASE Call
    BY <1>t, <1>1, VecSame DEF Call, MoveStream, StreamInCall
<1>2. CASE GetSchema
    <2>1. vec = <<>> /\ Len(vec) = 0
      BY <1>2 DEF GetSchema, LiveAt, LocalsEmpty, SCH, VEC
  <2>2. VecInOrder
      BY <1>t, <2>1 DEF VecInOrder
  <2> QED
      BY <1>t, <1>2, <2>1, <2>2, VecSame DEF GetSchema
<1>3. CASE GetSchemaReleased
    BY <1>t, <1>3, VecSame DEF GetSchemaReleased
<1>4. CASE GetNext
  <2>1. calls # 0 /\ calls' = calls /\ VecInOrder' /\ pos = Len(vec) /\ vec' = vec
      BY <1>4, VecSame DEF GetNext, StreamInCall
  <2>2. CASE pos < Len(source) /\ pos' = pos + 1 /\ arr' = Delivered(pos + 1) /\ pc' = "keep"
    <3>1. arr' = Delivered(pos)' /\ pos' = Len(vec') + 1
        BY <1>4, <2>1, <2>2 DEF GetNext, Delivered
    <3> QED
        BY <2>1, <2>2, <3>1
  <2>3. CASE pos = Len(source) /\ arr' = NullArray /\ UNCHANGED pos /\ pc' = "keep"
      BY <1>4, <2>1, <2>3 DEF GetNext, NullArray
  <2>4. CASE pc' = "unwind"
      BY <2>1, <2>4
  <2> QED
      BY <1>4, <2>2, <2>3, <2>4 DEF GetNext
<1>5. CASE Break
    BY <1>t, <1>5, VecSame DEF Break, EndsLoop, Delivered, NullArray
<1>6. CASE Keep
    
  <2>1. pos = Len(vec) + 1 /\ arr = Delivered(pos) /\ arr.length # 0
      BY <1>6 DEF Keep, EndsLoop, NullArray
  <2>2. CASE vec' = Append(vec, arr) /\ pc' = "next"
      BY <1>t, <1>6, <2>1, <2>2, VecKept DEF Keep
  <2>3. CASE pc' = "unwind"
      BY <1>t, <1>6, <2>3 DEF Keep
  <2> QED
      BY <1>6, <2>2, <2>3 DEF Keep
<1>7. CASE AllocateMatrix
    BY <1>t, <1>7, VecSame DEF AllocateMatrix
<1>8. CASE TakeChunk
    BY <1>t, <1>8, VecTaken DEF TakeChunk
<1>9. CASE CopyColumn
    BY <1>t, <1>9, VecSame DEF CopyColumn
<1>10. CASE CopyReleased
    BY <1>t, <1>10, VecSame DEF CopyReleased
<1>11. CASE FinishChunk
    BY <1>t, <1>11, VecSame DEF FinishChunk
<1>12. CASE ReturnMatrix
    BY <1>t, <1>12, VecSame DEF ReturnMatrix
<1>13. CASE DestroyArr
    BY <1>t, <1>13, VecSame DEF DestroyArr
<1>14. CASE DestroyVec
    BY <1>t, <1>14, VecSame DEF DestroyVec
<1>15. CASE DestroySch
    BY <1>t, <1>15, VecSame DEF DestroySch
<1>16. CASE DestroyAas
    BY <1>t, <1>16, VecSame DEF DestroyAas
<1>17. CASE Finalize
    BY <1>t, <1>17, VecSame DEF Finalize
<1>18. CASE UNCHANGED vars
    BY <1>18, VecSame DEF vars, Delivered
<1>19. CASE RefuseObject
    BY <1>t, <1>19, VecSame DEF RefuseObject, input, owners, releases, ints
<1> QED
    BY <1>1, <1>2, <1>3, <1>4, <1>5, <1>6, <1>7, <1>8, <1>9, <1>10, <1>11, <1>12, <1>13, <1>14, <1>15, <1>16, <1>17, <1>18, <1>19 DEF Next, Step

(* The count of rows, unless the sum has left the int. *)
Counted ==
  pc \in Working =>
    (Start(Len(vec) + 1) <= IntMax => cnt = Start(Len(vec) + 1))

LEMMA StartSame ==
  ASSUME UNCHANGED source
  PROVE  \A a : Start(a)' = Start(a)
BY DEF Start, RowsOf

LEMMA CountedSame ==
  ASSUME Counted, pc' \in Working => pc \in Working,
         UNCHANGED <<source, cnt>>, Len(vec') = Len(vec)
  PROVE  Counted'
<1>1. Start(Len(vec) + 1)' = Start(Len(vec) + 1)
    BY DEF Start, RowsOf
<1> QED
    BY <1>1 DEF Counted

LEMMA NextCounted ==
  ASSUME TypeOK, LiveAt, LocalsEmpty, StreamInCall, Gathered, Counted, [Next]_vars
  PROVE  Counted'
<1>t. /\ pos \in Nat /\ Len(vec) \in Nat /\ Len(source) \in Nat
      /\ source \in Sources
    BY GatheredTypes, OwnerTypes
<1> USE DEF Working, input, owners, releases, ints, Throw
<1>1. CASE Call
    BY <1>1 DEF Call, Counted
<1>2. CASE GetSchema
  <2>1. Len(vec) = 0 /\ cnt = 0 /\ vec' = vec /\ cnt' = cnt /\ source' = source
      BY <1>2 DEF GetSchema, LiveAt, LocalsEmpty, SCH, VEC, Gathered
  <2>2. Start(Len(vec) + 1)' = 0
      BY <1>t, <2>1, StartNext, StartSame
  <2> QED
      BY <2>1, <2>2 DEF Counted
<1>3. CASE GetSchemaReleased
    BY <1>t, <1>3, CountedSame DEF GetSchemaReleased
<1>4. CASE GetNext
    BY <1>t, <1>4, CountedSame DEF GetNext
<1>5. CASE Break
    BY <1>t, <1>5, CountedSame DEF Break
<1>6. CASE Keep

  <2>1. /\ pos = Len(vec) + 1 /\ arr = Delivered(pos) /\ arr.length # 0
        /\ cnt' = ToInt(cnt + arr.length) /\ source' = source /\ VecInOrder
      BY <1>6 DEF Keep, EndsLoop, NullArray, Gathered
  <2>2. CASE vec' = Append(vec, arr)
    <3> DEFINE s == Start(Len(vec) + 1)
               l == arr.length
    <3>1. Start(Len(vec) + 1)' = s + l /\ s \in Nat /\ l \in Nat
      <4>1. Len(vec') = Len(vec) + 1
          BY <2>1, <2>2, VecKept
      <4>2. Len(vec) + 1 \in 1..Len(source) /\ l = source[Len(vec) + 1].length
          BY <2>1, GatheredTypes DEF Delivered
      <4>3. Start((Len(vec) + 1) + 1) = s + l /\ s \in Nat /\ l \in Nat
          BY <1>t, <4>2, StartNext, SourceIsSeq
      <4>4. Start(Len(vec) + 1)' = Start((Len(vec) + 1) + 1)
          BY <2>1, <4>1 DEF Start, RowsOf
      <4> QED
          BY <4>3, <4>4
    <3>2. s <= IntMax => cnt = s
        BY <1>6 DEF Counted, Keep
    <3> HIDE DEF s, l
    <3>3. ASSUME s + l <= IntMax PROVE cnt' = s + l
      <4>1. cnt = s /\ s + l \in Ints
          BY <3>1, <3>2, <3>3, BoundsAssumption DEF Ints, IntMin
      <4> QED
          BY <2>1, <4>1 DEF ToInt, l
    <3> QED
        BY <3>1, <3>3 DEF Counted
  <2>3. CASE pc' = "unwind"
      BY <1>6, <2>3 DEF Counted
  <2> QED
      BY <1>6, <2>2, <2>3 DEF Keep
<1>7. CASE AllocateMatrix
    BY <1>t, <1>7, CountedSame DEF AllocateMatrix
<1>8. CASE TakeChunk

  <2>1. VecInOrder
      BY <1>8 DEF TakeChunk, Gathered
  <2> QED
      BY <1>8, <2>1, VecTaken, CountedSame DEF TakeChunk
<1>9. CASE CopyColumn
    BY <1>t, <1>9, CountedSame DEF CopyColumn
<1>10. CASE CopyReleased
    BY <1>t, <1>10, CountedSame DEF CopyReleased
<1>11. CASE FinishChunk
    BY <1>t, <1>11, CountedSame DEF FinishChunk
<1>12. CASE ReturnMatrix
    BY <1>t, <1>12, CountedSame DEF ReturnMatrix
<1>13. CASE DestroyArr
    BY <1>t, <1>13, CountedSame DEF DestroyArr
<1>14. CASE DestroyVec
    BY <1>14 DEF DestroyVec, Counted
<1>15. CASE DestroySch
    BY <1>t, <1>15, CountedSame DEF DestroySch
<1>16. CASE DestroyAas
    BY <1>t, <1>16, CountedSame DEF DestroyAas
<1>17. CASE Finalize
    BY <1>t, <1>17, CountedSame DEF Finalize
<1>18. CASE UNCHANGED vars
    BY <1>18, CountedSame DEF vars
<1>19. CASE RefuseObject
    BY <1>t, <1>19, CountedSame DEF RefuseObject, input, owners, releases, ints
<1> QED
    BY <1>1, <1>2, <1>3, <1>4, <1>5, <1>6, <1>7, <1>8, <1>9, <1>10, <1>11, <1>12, <1>13, <1>14, <1>15, <1>16, <1>17, <1>18, <1>19 DEF Next, Step

(* The cells of a set of columns of array a are where they belong. *)
CopiedTo(a, columns) ==
  \A c \in columns : \A r \in 0..(source[a].length - 1) :
     m[Start(a) + r + 1][c] = CopiedCell(a, c, r)

(* Between two chunks, and between two columns of a chunk. *)
ChunksCopied ==
  /\ n = cnt /\ Len(m) = n
  /\ i <= Len(vec) /\ currpos = Start(i + 1) /\ currpos <= n
  /\ \A a \in 1..i : CopiedTo(a, 1..K)
ColumnsCopied ==
  /\ i < Len(vec) /\ arr.id \in {0, i + 1} /\ arr.length = source[i + 1].length
  /\ j > 0 => currpos + arr.length <= n
  /\ CopiedTo(i + 1, 1..j)
Placed ==
  /\ pc \in {"chunk", "col"} => ChunksCopied
  /\ pc = "col" => ColumnsCopied

LEMMA MatrixTypes ==
  ASSUME TypeOK
  PROVE  /\ Len(m) \in Nat /\ DOMAIN m = 1..Len(m)
         /\ \A row \in 1..Len(m) : m[row] \in MatrixRow
<1>1. m \in Seq(MatrixRow)
    BY DEF TypeOK, DataOK
<1> QED
    BY <1>1

LEMMA CopiedToSame ==
  ASSUME UNCHANGED <<source, fields, m>>
  PROVE  \A a, columns : CopiedTo(a, columns)' <=> CopiedTo(a, columns)
BY DEF CopiedTo, CopiedCell, Start, RowsOf

LEMMA ChunksCopiedSame ==
  ASSUME ChunksCopied, UNCHANGED <<source, fields, cnt, n, currpos, i, m>>,
         Len(vec') = Len(vec)
  PROVE  ChunksCopied'
<1>1. \A a \in 1..i : CopiedTo(a, 1..K)'
    BY CopiedToSame DEF ChunksCopied
<1>2. Start(i + 1)' = Start(i + 1)
    BY DEF Start, RowsOf
<1> QED
    BY <1>1, <1>2 DEF ChunksCopied

(* A column is copied beside the earlier ones and below the earlier arrays. *)
LEMMA Copying ==
  ASSUME TypeOK, VecInOrder, ChunksCopied, ColumnsCopied, j < K,
         arr.id # 0, FitsSubmat(arr.id, j + 1), m' = WithColumn(j + 1), j' = j + 1,
         UNCHANGED <<source, fields, vec, arr, cnt, n, currpos, i>>
  PROVE  ChunksCopied' /\ ColumnsCopied'
<1> DEFINE a == i + 1
           l == source[a].length
<1>0. /\ source \in Sources /\ Len(source) \in Nat /\ Len(vec) \in Nat
      /\ i \in Nat /\ j \in Nat /\ K \in Nat /\ n \in Int
    BY GatheredTypes, OwnerTypes
<1>1. /\ a \in 1..Len(source) /\ arr.id = a /\ arr.length = l /\ l \in Nat
      /\ currpos = Start(a) /\ Start(a) \in Nat
  <2>1. a \in 1..Len(source)
      BY <1>0 DEF ColumnsCopied, VecInOrder
  <2> QED
      BY <1>0, <2>1, StartNext, SourceIsSeq DEF ColumnsCopied, ChunksCopied
<1>2. Start(a) + l <= Len(m) /\ Len(m) = n
    BY <1>0, <1>1 DEF FitsSubmat, ChunksCopied
<1>m. /\ Len(m) \in Nat /\ DOMAIN m = 1..Len(m)
      /\ \A row \in 1..Len(m) : m[row] \in MatrixRow
    BY MatrixTypes
<1>3. Len(m') = Len(m)
    BY <1>m DEF WithColumn
<1>4. ASSUME NEW row \in 1..Start(a)
      PROVE  m'[row] = m[row]
  <2>1. row \in 1..Len(m) /\ row \notin (currpos + 1)..(currpos + arr.length)
      BY <1>1, <1>2, <1>m
  <2> QED
      BY <2>1, <1>m DEF WithColumn
<1>5. ASSUME NEW r \in 0..(l - 1)
      PROVE  m'[Start(a) + r + 1] =
               [m[Start(a) + r + 1] EXCEPT ![j + 1] = CopiedCell(a, j + 1, r)]
  <2> DEFINE row == Start(a) + r + 1
  <2>1. /\ row \in 1..Len(m) /\ row \in (currpos + 1)..(currpos + arr.length)
        /\ row - currpos - 1 = r
    <3> DEFINE z == Start(a)  M == Len(m)
    <3>1. /\ z \in Nat /\ l \in Nat /\ M \in Nat /\ z + l <= M
          /\ r \in 0..(l - 1)
        BY <1>1, <1>2, <1>m
    <3> HIDE DEF z, l, M
    <3>2. /\ z + r + 1 \in 1..M /\ z + r + 1 \in (z + 1)..(z + l)
          /\ (z + r + 1) - z - 1 = r
        BY <3>1
    <3> QED
        BY <1>1, <3>2 DEF z, M
  <2> HIDE DEF row
  <2>2. m'[row] = [m[row] EXCEPT ![j + 1] = CopiedCell(arr.id, j + 1, row - currpos - 1)]
      BY <2>1, <1>m DEF WithColumn
  <2> QED
      BY <2>1, <2>2, <1>1 DEF row
<1>6. ASSUME NEW b \in 1..i
      PROVE  CopiedTo(b, 1..K)'
  <2>1. b \in 1..Len(source) /\ a \in (b + 1)..(Len(source) + 1)
      BY <1>0, <1>1
  <2>2. Start(b) + source[b].length <= Start(a) /\ Start(b) \in Nat /\ source[b].length \in Nat
    <3> HIDE DEF a
    <3>1. Start(b) + source[b].length <= Start(a)
        BY <1>0, <2>1, StartGrows
    <3>2. b \in 1..(Len(source) + 1)
        BY <1>0, <2>1
    <3> QED
        BY <1>0, <2>1, <3>1, <3>2, StartNext, SourceIsSeq
  <2>3. ASSUME NEW c \in 1..K, NEW r \in 0..(source[b].length - 1)
        PROVE  m'[Start(b) + r + 1][c] = CopiedCell(b, c, r)
    <3>1. Start(b) + r + 1 \in 1..Start(a)
      <4> DEFINE s == Start(b)  t == Start(a)  z == source[b].length
      <4>1. s + z <= t /\ s \in Nat /\ z \in Nat /\ t \in Nat /\ r \in 0..(z - 1)
          BY <1>1, <2>2
      <4> HIDE DEF s, t, z
      <4>2. s + r + 1 \in 1..t
          BY <4>1
      <4> QED
          BY <4>2 DEF s, t
    <3>2. m[Start(b) + r + 1][c] = CopiedCell(b, c, r)
        BY DEF ChunksCopied, CopiedTo
    <3> QED
        BY <1>4, <3>1, <3>2
  <2> QED
      BY <2>3 DEF CopiedTo, CopiedCell, Start, RowsOf
<1>7. ASSUME NEW c \in 1..(j + 1), NEW r \in 0..(l - 1)
      PROVE  m'[Start(a) + r + 1][c] = CopiedCell(a, c, r)
  <2>1. /\ Start(a) + r + 1 \in 1..Len(m) /\ c \in 1..K /\ j + 1 \in 1..K
      BY <1>0, <1>1, <1>2, <1>m
  <2>2. m[Start(a) + r + 1] \in [1..K -> Nat \X Nat]
      BY <1>m, <2>1 DEF MatrixRow
  <2>3. CASE c = j + 1
      BY <1>5, <2>1, <2>2, <2>3
  <2>4. CASE c # j + 1
    <3>1. c \in 1..j
        BY <1>0, <2>4
    <3>2. m[Start(a) + r + 1][c] = CopiedCell(a, c, r)
        BY <3>1 DEF ColumnsCopied, CopiedTo
    <3> QED
        BY <1>5, <2>1, <2>2, <2>4, <3>2
  <2> QED
      BY <2>3, <2>4
<1>8. CopiedTo(i + 1, 1..j)'
    BY <1>7 DEF CopiedTo, CopiedCell, Start, RowsOf
<1>9. ChunksCopied'
    BY <1>3, <1>6 DEF ChunksCopied, Start, RowsOf
<1>10. currpos + arr.length <= n
    BY <1>1, <1>2
<1> QED
    BY <1>8, <1>9, <1>10 DEF ColumnsCopied

(* The next chunk begins where this one ends. *)
LEMMA Finishing ==
  ASSUME TypeOK, VecInOrder, ChunksCopied, ColumnsCopied, j = K,
         currpos' = NextRow, i' = i + 1,
         UNCHANGED <<source, fields, vec, cnt, n, m>>
  PROVE  ChunksCopied'
<1>0. /\ source \in Sources /\ Len(source) \in Nat /\ Len(vec) \in Nat
      /\ i \in Nat /\ K \in Nat /\ K > 0 /\ n \in Int /\ n <= IntMax
    BY GatheredTypes, OwnerTypes
<1>1. /\ i + 1 \in 1..Len(source) /\ arr.length = source[i + 1].length
      /\ currpos = Start(i + 1) /\ currpos + arr.length <= n
    BY <1>0 DEF ColumnsCopied, VecInOrder, ChunksCopied
<1>2. /\ Start((i + 1) + 1) = currpos + arr.length
      /\ currpos \in Nat /\ arr.length \in Nat
    BY <1>0, <1>1, StartNext, SourceIsSeq
<1>3. currpos' = currpos + arr.length
  <2>1. currpos + arr.length \in Ints
      BY <1>0, <1>1, <1>2, BoundsAssumption DEF Ints, IntMin
  <2> QED
      BY <2>1 DEF NextRow, ToInt
<1>4. ASSUME NEW a \in 1..(i + 1)
      PROVE  CopiedTo(a, 1..K)
  <2>1. CASE a = i + 1
      BY <2>1 DEF ColumnsCopied
  <2>2. CASE a \in 1..i
      BY <2>2 DEF ChunksCopied
  <2> QED
      BY <1>0, <2>1, <2>2
<1>5. \A a \in 1..(i + 1) : CopiedTo(a, 1..K)'
    BY <1>4 DEF CopiedTo, CopiedCell, Start, RowsOf
<1>6. Start(i + 1)' = currpos'
    BY <1>2, <1>3 DEF Start, RowsOf
<1>7. /\ n' = cnt' /\ Len(m') = n' /\ i' <= Len(vec') /\ currpos' <= n'
    BY <1>0, <1>1, <1>3 DEF ChunksCopied, ColumnsCopied
<1> QED
    BY <1>5, <1>6, <1>7 DEF ChunksCopied

LEMMA NextPlaced ==
  ASSUME TypeOK, Gathered, Placed, [Next]_vars
  PROVE  Placed'
<1>t. /\ Len(vec) \in Nat /\ source \in Sources /\ i \in Nat /\ cnt \in Int
    BY GatheredTypes, OwnerTypes
<1>v. pc \in Working => VecInOrder
    BY DEF Gathered
<1> USE DEF Working, input, owners, releases, ints, Throw, Placed
<1>1. CASE Call
    BY <1>1 DEF Call
<1>2. CASE GetSchema
    BY <1>2 DEF GetSchema
<1>3. CASE GetSchemaReleased
    BY <1>3 DEF GetSchemaReleased
<1>4. CASE GetNext
    BY <1>4 DEF GetNext
<1>5. CASE Break
    BY <1>5 DEF Break
<1>6. CASE Keep
    BY <1>6 DEF Keep
<1>7. CASE AllocateMatrix
  <2>1. CASE cnt >= 0 /\ m' = [row \in 1..cnt |-> [c \in 1..K |-> ZeroCell]] /\ pc' = "chunk"
    <3>1. Len(m') = cnt
        BY <1>t, <2>1
    <3>2. Start(i + 1)' = 0
        BY <1>t, <1>7, StartNext DEF AllocateMatrix, Start, RowsOf
    <3>3. ChunksCopied'
        BY <1>t, <1>7, <2>1, <3>1, <3>2 DEF AllocateMatrix, ChunksCopied
    <3> QED
        BY <2>1, <3>3
  <2>2. CASE pc' = "unwind"
      BY <2>2
  <2> QED
      BY <1>7, <2>1, <2>2 DEF AllocateMatrix
<1>8. CASE TakeChunk
  <2>1. VecInOrder /\ ChunksCopied /\ Len(vec') = Len(vec) /\ i + 1 \in 1..Len(vec)
      BY <1>t, <1>v, <1>8, VecTaken DEF TakeChunk
  <2>2. ChunksCopied'
      BY <1>8, <2>1, ChunksCopiedSame DEF TakeChunk
  <2>3. arr'.id \in {0, i + 1} /\ arr'.length = source[i + 1].length
      BY <1>8, <2>1 DEF TakeChunk, VecInOrder, InVec
  <2>4. ColumnsCopied'
      BY <1>8, <2>1, <2>3 DEF TakeChunk, ColumnsCopied, CopiedTo
  <2> QED
      BY <2>2, <2>4
<1>9. CASE CopyColumn
  <2>1. VecInOrder /\ ChunksCopied /\ ColumnsCopied
      BY <1>v, <1>9 DEF CopyColumn
  <2>2. CASE FitsSubmat(arr.id, j + 1) /\ m' = WithColumn(j + 1) /\ j' = j + 1
      BY <1>9, <2>1, <2>2, Copying DEF CopyColumn
  <2>3. CASE pc' = "unwind"
      BY <2>3
  <2> QED
      BY <1>9, <2>2, <2>3 DEF CopyColumn
<1>10. CASE CopyReleased
    BY <1>10 DEF CopyReleased
<1>11. CASE FinishChunk
  <2>1. VecInOrder /\ ChunksCopied /\ ColumnsCopied
      BY <1>v, <1>11 DEF FinishChunk
  <2> QED
      BY <1>11, <2>1, Finishing DEF FinishChunk
<1>12. CASE ReturnMatrix
    BY <1>12 DEF ReturnMatrix
<1>13. CASE DestroyArr
    BY <1>13 DEF DestroyArr
<1>14. CASE DestroyVec
    BY <1>14 DEF DestroyVec
<1>15. CASE DestroySch
    BY <1>15 DEF DestroySch
<1>16. CASE DestroyAas
    BY <1>16 DEF DestroyAas
<1>17. CASE Finalize
    BY <1>17 DEF Finalize
<1>18. CASE UNCHANGED vars
    BY <1>18, ChunksCopiedSame DEF vars, ColumnsCopied, CopiedTo, CopiedCell, Start, RowsOf
<1>19. CASE RefuseObject
    BY <1>19 DEF RefuseObject, input, owners, releases, ints
<1> QED
    BY <1>1, <1>2, <1>3, <1>4, <1>5, <1>6, <1>7, <1>8, <1>9, <1>10, <1>11, <1>12, <1>13, <1>14, <1>15, <1>16, <1>17, <1>18, <1>19 DEF Next, Step


---------------------------------------------------------------------------
(* Glueing the arrays together.                                            *)

(* The rows a block stands for. *)
LEMMA BlockRows ==
  ASSUME TypeOK, NEW a \in 1..Len(source), CopiedTo(a, 1..K)
  PROVE  /\ Block(a) \in Seq(MatrixRow) /\ Len(Block(a)) = source[a].length
         /\ \A r \in 1..source[a].length :
              Start(a) + r \in 1..Len(m) => Block(a)[r] = m[Start(a) + r]
<1> DEFINE l == source[a].length
<1>1. /\ l \in Nat /\ a \in Nat /\ Start(a) \in Nat
    BY SourceIsSeq, StartNext, OwnerTypes
<1>2. ASSUME NEW r \in 1..l
      PROVE  [c \in 1..K |-> CopiedCell(a, c, r - 1)] \in MatrixRow
  <2>1. r - 1 \in Nat
      BY <1>1
  <2>2. \A c \in 1..K : source[a].coff[c] \in Nat
      BY SourceIsSeq, OwnerTypes
  <2> QED
      BY <1>1, <2>1, <2>2 DEF CopiedCell, MatrixRow
<1>3. Block(a) = [r \in 1..l |-> [c \in 1..K |-> CopiedCell(a, c, r - 1)]]
    BY DEF Block
<1> HIDE DEF l
<1>4. Block(a) \in Seq(MatrixRow) /\ Len(Block(a)) = l
    BY <1>1, <1>2, <1>3
<1>5. ASSUME NEW r \in 1..l, Start(a) + r \in 1..Len(m)
      PROVE  Block(a)[r] = m[Start(a) + r]
  <2>1. m[Start(a) + r] \in [1..K -> Nat \X Nat]
      BY <1>5, MatrixTypes DEF MatrixRow
  <2>2. ASSUME NEW c \in 1..K
        PROVE  m[Start(a) + r][c] = CopiedCell(a, c, r - 1)
    <3>1. r - 1 \in 0..(l - 1) /\ Start(a) + (r - 1) + 1 = Start(a) + r
        BY <1>1
    <3> QED
        BY <3>1 DEF CopiedTo, l
  <2>3. Block(a)[r] = [c \in 1..K |-> CopiedCell(a, c, r - 1)]
      BY <1>3
  <2>4. m[Start(a) + r] = [c \in 1..K |-> m[Start(a) + r][c]]
      BY <2>1
  <2> QED
      BY <2>2, <2>3, <2>4, Zenon
<1> QED
    BY <1>4, <1>5 DEF l

LEMMA Concatenating ==
  ASSUME TypeOK, NEW v \in 0..Len(source), Kept = 1..v, Len(m) = Start(v + 1),
         \A a \in 1..v : CopiedTo(a, 1..K)
  PROVE  m = Concatenation
<1>0. source \in Sources /\ Len(source) \in Nat /\ v \in Nat
    BY OwnerTypes
<1>1. Blocks = [a \in 1..v |-> Block(a)]
  <2>1. Cardinality(Kept) = v
      BY <1>0, FS_Interval
  <2> QED
      BY <2>1 DEF Blocks
<1>2. Len(Blocks) = v
    BY <1>0, <1>1
<1>m. m \in Seq(MatrixRow) /\ Len(m) \in Nat
    BY MatrixTypes DEF TypeOK, DataOK
<1>3. CASE v = 0
  <2>1. Len(m) = 0
      BY <1>0, <1>3, StartNext
  <2>2. m = <<>> /\ Blocks = <<>>
      BY <1>1, <1>3, <1>m, <2>1
  <2> QED
      BY <1>2, <1>3, <2>2 DEF Concatenation, FlattenSeq
<1>4. CASE v # 0
  <2>1. PICK f : Glues(f, Blocks) /\ Concatenation = f[v]
      BY <1>0, <1>2, <1>4, Flattening DEF Concatenation
  <2>2. \A x \in 1..v : f[x] = IF x = 1 THEN Block(x) ELSE f[x - 1] \o Block(x)
      BY <1>0, <1>1, <1>2, <2>1 DEF Glues
  <2> DEFINE Good(k) == /\ f[k] \in Seq(MatrixRow) /\ Len(f[k]) = Start(k + 1)
                        /\ \A row \in 1..Start(k + 1) : f[k][row] = m[row]
             T == {k \in Nat : k + 1 <= v => Good(k + 1)}
  <2>3. ASSUME NEW a \in 1..v
        PROVE  /\ Start(a) \in Nat /\ Start(a + 1) = Start(a) + source[a].length
               /\ source[a].length \in Nat /\ Start(a + 1) <= Len(m)
               /\ Block(a) \in Seq(MatrixRow) /\ Len(Block(a)) = source[a].length
    <3>1. a \in 1..Len(source) /\ a \in 1..(Len(source) + 1) /\ v + 1 \in (a + 1)..(Len(source) + 1)
        BY <1>0
    <3> QED
        BY <1>0, <3>1, StartNext, StartGrows, SourceIsSeq, BlockRows
  <2>4. ASSUME NEW a \in 1..v, NEW row \in (Start(a) + 1)..Start(a + 1)
        PROVE  /\ row - Start(a) \in 1..source[a].length
               /\ Block(a)[row - Start(a)] = m[row]
    <3> DEFINE r == row - Start(a)
    <3>1. r \in 1..source[a].length /\ Start(a) + r = row /\ row \in 1..Len(m)
      <4> DEFINE z == Start(a)  l == source[a].length  M == Len(m)  y == Start(a + 1)
      <4>1. z \in Nat /\ l \in Nat /\ M \in Nat /\ y = z + l /\ y <= M /\ row \in (z + 1)..y
          BY <2>3, <1>m
      <4> HIDE DEF z, l, M, y
      <4>2. row - z \in 1..l /\ z + (row - z) = row /\ row \in 1..M
          BY <4>1
      <4> QED
          BY <4>2 DEF z, l, M
    <3>2. a \in 1..Len(source)
        BY <1>0
    <3> HIDE DEF r
    <3>3. Block(a)[r] = m[row]
        BY <3>1, <3>2, BlockRows
    <3> QED
        BY <3>1, <3>3 DEF r
  <2>5. 0 \in T
    <3>1. 1 \in 1..v /\ Start(1) = 0
        BY <1>0, <1>4, StartNext
    <3>2. f[1] = Block(1) /\ Start(1 + 1) = source[1].length
        BY <2>2, <2>3, <3>1
    <3>3. ASSUME NEW row \in 1..Start(1 + 1) PROVE f[1][row] = m[row]
      <4>1. row \in (Start(1) + 1)..Start(1 + 1) /\ row - Start(1) = row
          BY <2>3, <3>1
      <4> QED
          BY <2>4, <3>1, <3>2, <4>1
    <3>4. Good(0 + 1)
        BY <2>3, <3>1, <3>2, <3>3
    <3> HIDE DEF Good
    <3> QED
        BY <3>4
  <2>6. ASSUME NEW k \in T PROVE k + 1 \in T
    <3> SUFFICES ASSUME (k + 1) + 1 <= v PROVE Good((k + 1) + 1)
        OBVIOUS
    <3> DEFINE p == k + 1
               q == p + 1
    <3>1. k \in Nat /\ p \in 1..v /\ q \in 1..v /\ q - 1 = p /\ q # 1
        BY <1>0
    <3>2. Good(p)
        BY <1>0, <3>1
    <3> HIDE DEF p, T
    <3>3. f[q] = f[p] \o Block(q)
        BY <2>2, <3>1
    <3>4. /\ Start(q) \in Nat /\ Start(q + 1) = Start(q) + source[q].length
          /\ source[q].length \in Nat
          /\ Block(q) \in Seq(MatrixRow) /\ Len(Block(q)) = source[q].length
          /\ f[p] \in Seq(MatrixRow) /\ Len(f[p]) = Start(q)
        BY <2>3, <3>1, <3>2
    <3> DEFINE s == f[p]  t == Block(q)
    <3>g. /\ s \o t \in Seq(MatrixRow) /\ Len(s \o t) = Start(q + 1)
          /\ \A x \in 1..Start(q) : (s \o t)[x] = s[x]
          /\ \A x \in 1..source[q].length : (s \o t)[Start(q) + x] = t[x]
      <4>1. s \in Seq(MatrixRow) /\ t \in Seq(MatrixRow)
          BY <3>4
      <4> HIDE DEF s, t
      <4>2. /\ s \o t \in Seq(MatrixRow) /\ Len(s \o t) = Len(s) + Len(t)
            /\ \A x \in 1..Len(s) : (s \o t)[x] = s[x]
            /\ \A x \in 1..Len(t) : (s \o t)[Len(s) + x] = t[x]
          BY <4>1, Glued
      <4>3. Len(s) = Start(q) /\ Len(t) = source[q].length
          BY <3>4 DEF s, t
      <4> QED
          BY <3>4, <4>2, <4>3, Zenon
    <3>5. f[q] \in Seq(MatrixRow) /\ Len(f[q]) = Start(q + 1)
        BY <3>3, <3>g
    <3>6. ASSUME NEW row \in 1..Start(q + 1) PROVE f[q][row] = m[row]
      <4>1. CASE row \in 1..Start(q)
        <5>1. row \in 1..Start(p + 1)
            BY <4>1 DEF q
        <5>2. f[p][row] = m[row]
            BY <3>2, <5>1
        <5> QED
            BY <3>3, <3>g, <4>1, <5>2
      <4>2. CASE row \in (Start(q) + 1)..Start(q + 1)
        <5>1. row - Start(q) \in 1..source[q].length /\ Block(q)[row - Start(q)] = m[row]
            BY <2>4, <3>1, <4>2
        <5>2. f[q][row] = Block(q)[row - Start(q)]
          <6>1. row = Start(q) + (row - Start(q))
              BY <3>4, <4>2
          <6> QED
              BY <3>3, <3>g, <5>1, <6>1
        <5> QED
            BY <5>1, <5>2
      <4> QED
          BY <3>4, <4>1, <4>2
    <3>7. Good(q)
        BY <3>5, <3>6
    <3> HIDE DEF Good
    <3> QED
        BY <3>7 DEF p
  <2>7. Nat \subseteq T
    <3>1. T \subseteq Nat
        OBVIOUS
    <3> HIDE DEF T
    <3> QED
        BY <2>5, <2>6, <3>1, NatInduct, Zenon
  <2>8. Good(v)
    <3>1. v - 1 \in Nat /\ (v - 1) + 1 = v
        BY <1>0, <1>4
    <3>2. v - 1 \in T
        BY <2>7, <3>1
    <3> HIDE DEF Good
    <3> QED
        BY <1>0, <3>1, <3>2
  <2> HIDE DEF T
  <2>9. /\ f[v] \in Seq(MatrixRow) /\ Len(f[v]) = Len(m)
        /\ \A row \in 1..Len(m) : f[v][row] = m[row]
      BY <2>8
  <2> QED
      BY <1>m, <2>1, <2>9
<1> QED
    BY <1>3, <1>4

---------------------------------------------------------------------------
(* What a call returns.                                                    *)

(* A call that is going to return, or has returned, a matrix. *)
Whole ==
  /\ Len(m) = Cardinality(RowsOf(Kept))
  /\ \A a \in Kept : CopiedTo(a, 1..K)
Returned ==
  result = "ok" => pc \in {"unwind", "idle", "gone"} /\ Whole /\ m = Concatenation

LEMMA KeptIsVec ==
  ASSUME TypeOK, VecInOrder, Len(vec) = Len(source) \/ source[Len(vec) + 1].length = 0
  PROVE  Kept = 1..Len(vec)
<1>0. /\ Len(source) \in Nat /\ Len(vec) \in Nat /\ DOMAIN source = 1..Len(source)
      /\ Len(vec) <= Len(source)
    BY OwnerTypes DEF VecInOrder
<1>1. ASSUME NEW a \in 1..Len(vec)
      PROVE  a \in Kept
  <2>1. a \in DOMAIN source /\ \A b \in 1..a : b \in 1..Len(vec)
      BY <1>0
  <2> QED
      BY <2>1 DEF Kept, VecInOrder, InVec
<1>2. ASSUME NEW a \in Kept
      PROVE  a \in 1..Len(vec)
  <2>1. a \in 1..Len(source) /\ \A b \in 1..a : source[b].length > 0
      BY <1>0 DEF Kept
  <2>2. CASE a > Len(vec)
    <3>1. Len(vec) + 1 \in 1..a
        BY <1>0, <2>1, <2>2
    <3> QED
        BY <1>0, <2>1, <2>2, <3>1
  <2> QED
      BY <1>0, <2>1, <2>2
<1> QED
    BY <1>1, <1>2

LEMMA WholeSame ==
  ASSUME Whole, UNCHANGED <<source, fields, m>>
  PROVE  Whole' /\ Concatenation' = Concatenation
<1>1. Kept' = Kept
    BY DEF Kept
<1>2. RowsOf(Kept)' = RowsOf(Kept)
    BY <1>1 DEF RowsOf
<1>3. \A a \in Kept : CopiedTo(a, 1..K)'
    BY CopiedToSame DEF Whole
<1>4. Blocks' = Blocks
    BY <1>1 DEF Blocks, Block, CopiedCell
<1> QED
    BY <1>1, <1>2, <1>3, <1>4 DEF Whole, Concatenation

LEMMA Returning ==
  ASSUME TypeOK, Gathered, Counted, Placed, pc = "chunk", i = Len(vec)
  PROVE  Whole /\ m = Concatenation
<1>0. Len(vec) \in Nat /\ Len(source) \in Nat /\ source \in Sources /\ n <= IntMax /\ n \in Int
    BY GatheredTypes, OwnerTypes
<1>1. VecInOrder /\ ChunksCopied /\ Kept = 1..Len(vec)
    BY KeptIsVec DEF Gathered, Placed, Working
<1>2. Start(Len(vec) + 1) = currpos /\ currpos <= n /\ n = cnt /\ Len(m) = n
    BY <1>1 DEF ChunksCopied
<1>3. Len(m) = Start(Len(vec) + 1)
  <2>1. Start(Len(vec) + 1) \in Nat
      BY <1>0, <1>1, StartNext DEF VecInOrder
  <2> QED
      BY <1>0, <1>2, <2>1, BoundsAssumption DEF Counted, Working
<1>4. Start(Len(vec) + 1) = Cardinality(RowsOf(1..Len(vec)))
  <2>1. (Len(vec) + 1) - 1 = Len(vec)
      BY <1>0
  <2> QED
      BY <2>1 DEF Start
<1>5. \A a \in Kept : CopiedTo(a, 1..K)
    BY <1>1 DEF ChunksCopied
<1>6. m = Concatenation
  <2>1. Len(vec) \in 0..Len(source)
      BY <1>0, <1>1 DEF VecInOrder
  <2>2. \A a \in 1..Len(vec) : CopiedTo(a, 1..K)
      BY <1>1 DEF ChunksCopied
  <2> QED
      BY <1>1, <1>3, <2>1, <2>2, Concatenating
<1> QED
    BY <1>1, <1>3, <1>4, <1>5, <1>6 DEF Whole

LEMMA NextReturned ==
  ASSUME TypeOK, Gathered, Counted, Placed, Returned, [Next]_vars
  PROVE  Returned'
<1> USE DEF input, owners, releases, ints, Throw, Returned
<1>1. CASE Call
    BY <1>1, WholeSame DEF Call
<1>2. CASE GetSchema
    BY <1>2, WholeSame DEF GetSchema
<1>3. CASE GetSchemaReleased
    BY <1>3, WholeSame DEF GetSchemaReleased
<1>4. CASE GetNext
    BY <1>4, WholeSame DEF GetNext
<1>5. CASE Break
    BY <1>5, WholeSame DEF Break
<1>6. CASE Keep
    BY <1>6, WholeSame DEF Keep
<1>7. CASE AllocateMatrix
    BY <1>7, WholeSame DEF AllocateMatrix
<1>8. CASE TakeChunk
    BY <1>8, WholeSame DEF TakeChunk
<1>9. CASE CopyColumn
    BY <1>9, WholeSame DEF CopyColumn
<1>10. CASE CopyReleased
    BY <1>10, WholeSame DEF CopyReleased
<1>11. CASE FinishChunk
    BY <1>11, WholeSame DEF FinishChunk
<1>12. CASE ReturnMatrix
    BY <1>12, Returning, WholeSame DEF ReturnMatrix
<1>13. CASE DestroyArr
    BY <1>13, WholeSame DEF DestroyArr
<1>14. CASE DestroyVec
    BY <1>14, WholeSame DEF DestroyVec
<1>15. CASE DestroySch
    BY <1>15, WholeSame DEF DestroySch
<1>16. CASE DestroyAas
    BY <1>16, WholeSame DEF DestroyAas
<1>17. CASE Finalize
    BY <1>17, WholeSame DEF Finalize
<1>18. CASE UNCHANGED vars
    BY <1>18, WholeSame DEF vars
<1>19. CASE RefuseObject
    BY <1>19, WholeSame DEF RefuseObject, input, owners, releases, ints
<1> QED
    BY <1>1, <1>2, <1>3, <1>4, <1>5, <1>6, <1>7, <1>8, <1>9, <1>10, <1>11, <1>12, <1>13, <1>14, <1>15, <1>16, <1>17, <1>18, <1>19 DEF Next, Step
---------------------------------------------------------------------------
(* The theorems.                                                           *)

LEMMA InitIInv == Init => IInv
<1> SUFFICES ASSUME Init PROVE IInv
    OBVIOUS
<1>1. TypeOK
    BY InitType
<1>2. ArraysConserved
    BY <1>1, OwnerTypes
       DEF Init, ArraysConserved, SoleOwner, ReleasedOnce, Owned, Lent, NullArray
<1>3. StreamConserved /\ SchemaConserved
    BY DEF Init, StreamConserved, SchemaConserved
<1>4. LiveAt /\ LocalsEmpty /\ StreamInCall /\ LaterCallsFail
    BY DEF Init, LiveAt, LocalsEmpty, StreamInCall, LaterCallsFail, NullArray
<1> QED
    BY <1>1, <1>2, <1>3, <1>4 DEF IInv

LEMMA NextIInv == IInv /\ [Next]_vars => IInv'
BY NextType, NextArrays, NextLiveAt, NextLocalsEmpty, NextStreamInCall,
   NextStream, NextSchema, NextLaterCalls DEF IInv

LEMMA Inductive == Spec => []IInv
BY InitIInv, NextIInv, PTL DEF Spec

(* Every variable has its type, and the ints of the function never leave   *)
(* the range of a C int.                                                   *)
THEOREM TypeCorrect == Spec => []TypeOK
BY Inductive, PTL DEF IInv

(* No array is released twice, used after its release or lost, however the *)
(* call ends and whatever the producer delivers.                           *)
THEOREM ArraysAreConserved == Spec => []ArraysConserved
BY Inductive, PTL DEF IInv

(* Neither is the stream, nor the schema. *)
THEOREM StreamIsConserved == Spec => [](StreamConserved /\ SchemaConserved)
BY Inductive, PTL DEF IInv

(* When a call has returned, everything it borrowed has been given back.   *)
THEOREM NothingIsLeaked == Spec => []NothingLeaks
<1>1. IInv => NothingLeaks
  <2> SUFFICES ASSUME IInv, pc \in {"idle", "gone"}
               PROVE  /\ \A a \in 1..pos : source[a].set => freed[a] = 1
                      /\ schemaFreed = schemas
                      /\ calls > 0 => streamFreed = 1
      BY DEF NothingLeaks
  <2>1. live = 0 /\ arr.id = 0 /\ vec = <<>> /\ ~sch /\ ~aas
      BY DEF IInv, LiveAt, LocalsEmpty, ARR, VEC, SCH, AAS
  <2>2. ASSUME NEW a \in 1..pos, source[a].set
        PROVE  freed[a] = 1
    <3>1. a \in 1..Len(source) /\ Lent(a)
        BY <2>2, OwnerTypes DEF IInv, Lent
    <3>2. ~Owned(a)
        BY <2>1, <3>1 DEF Owned
    <3> QED
        BY <3>1, <3>2, OwnerTypes DEF IInv, ArraysConserved, ReleasedOnce
  <2>3. schemaFreed = schemas
      BY <2>1 DEF IInv, SchemaConserved, TypeOK, OwnersOK
  <2>4. calls > 0 => streamFreed = 1
      BY <2>1 DEF IInv, StreamConserved, StreamInCall, TypeOK, ControlOK
  <2> QED
      BY <2>2, <2>3, <2>4
<1> QED
    BY <1>1, Inductive, PTL

(* Only the first call on an R object can deliver a matrix. *)
THEOREM OneDelivery == Spec => []LaterCallsFail
BY Inductive, PTL DEF IInv

(* What a call returns is the stream, whether or not the count of its rows *)
(* leaves the int.                                                         *)
CollectInv == IInv /\ Gathered /\ Counted /\ Placed /\ Returned

LEMMA InitCollectInv == Init => CollectInv
<1> SUFFICES ASSUME Init PROVE CollectInv
    OBVIOUS
<1>1. IInv
    BY InitIInv
<1>2. Gathered /\ Counted /\ Placed /\ Returned
    BY DEF Init, Gathered, Counted, Placed, Returned, Working
<1> QED
    BY <1>1, <1>2 DEF CollectInv

LEMMA NextCollectInv == CollectInv /\ [Next]_vars => CollectInv'
BY NextIInv, NextGathered, NextCounted, NextPlaced, NextReturned DEF CollectInv, IInv

LEMMA CollectInductive == Spec => []CollectInv
BY InitCollectInv, NextCollectInv, PTL DEF Spec

(* A returned matrix is the concatenation of the kept arrays, in the order *)
(* of the stream, for any lengths and any width of int.                    *)
THEOREM ReturnsConcatenation == Spec => []MatrixIsConcatenation
<1>1. CollectInv => MatrixIsConcatenation
    BY DEF CollectInv, Returned, Whole, CopiedTo, MatrixIsConcatenation
<1> QED
    BY <1>1, CollectInductive, PTL

---------------------------------------------------------------------------
(* The contract.                                                           *)

(* What is borrowed is borrowed by a call that has the stream, a call that *)
(* delivers has it until its end, and an ended call has an outcome.        *)
Borrows ==
  /\ ~aas => ~sch /\ arr.id = 0 /\ vec = <<>>
  /\ pc = "unwind" => result \in {"ok", "error"}
  /\ pc = "unwind" /\ result = "ok" => aas

LEMMA NextBorrows ==
  ASSUME TypeOK, LiveAt, LocalsEmpty, StreamInCall, Borrows, [Next]_vars
  PROVE  Borrows'
<1> USE DEF TypeOK, ControlOK, FlagsOK, LiveAt, LocalsEmpty, StreamInCall, Borrows, NullArray, input, owners, releases, ints, Throw, ARR, VEC, SCH, AAS
<1>1. CASE Call
    BY <1>1 DEF Call, MoveStream
<1>2. CASE GetSchema
    BY <1>2 DEF GetSchema
<1>3. CASE GetSchemaReleased
    BY <1>3 DEF GetSchemaReleased
<1>4. CASE GetNext
    BY <1>4 DEF GetNext
<1>5. CASE Break
    BY <1>5 DEF Break
<1>6. CASE Keep
    BY <1>6 DEF Keep
<1>7. CASE AllocateMatrix
    BY <1>7 DEF AllocateMatrix
<1>8. CASE TakeChunk
    BY <1>8 DEF TakeChunk
<1>9. CASE CopyColumn
    BY <1>9 DEF CopyColumn
<1>10. CASE CopyReleased
    BY <1>10 DEF CopyReleased
<1>11. CASE FinishChunk
    BY <1>11 DEF FinishChunk
<1>12. CASE ReturnMatrix
    BY <1>12 DEF ReturnMatrix
<1>13. CASE DestroyArr
    BY <1>13 DEF DestroyArr
<1>14. CASE DestroyVec
    BY <1>14 DEF DestroyVec
<1>15. CASE DestroySch
    BY <1>15 DEF DestroySch
<1>16. CASE DestroyAas
    BY <1>16 DEF DestroyAas
<1>17. CASE Finalize
    BY <1>17 DEF Finalize
<1>18. CASE UNCHANGED vars
    BY <1>18 DEF vars
<1>19. CASE RefuseObject
    BY <1>19 DEF RefuseObject, input, owners, releases, ints
<1> QED
    BY <1>1, <1>2, <1>3, <1>4, <1>5, <1>6, <1>7, <1>8, <1>9, <1>10, <1>11, <1>12, <1>13, <1>14, <1>15, <1>16, <1>17, <1>18, <1>19 DEF Next, Step

(* The stream a producer was given does not change, nor does its matrix.   *)
Fixed == <<0..Len(source), AllFilled, Concatenation>>
LEMMA FixedSame ==
  ASSUME UNCHANGED <<source, fields>>
  PROVE  Fixed' = Fixed
<1>1. Blocks' = Blocks
    BY DEF Blocks, Block, CopiedCell, Kept
<1> QED
    BY <1>1 DEF Fixed, AllFilled, Concatenation

LEMMA NothingBorrowed ==
  ASSUME TypeOK, ~sch, arr.id = 0, vec = <<>>
  PROVE  Borrowed = {}
BY OwnerTypes DEF Borrowed, Owned

(* A step inside a call is work with what the call has borrowed, or, for a *)
(* call that did not find the stream, none.                                *)
LEMMA Inside ==
  ASSUME TypeOK, TypeOK', StreamConserved, Borrows, Borrows', Running, Running',
         UNCHANGED <<source, fields, robj, aas>>
  PROVE  [Promise!Next]_(Promise!vars)
<1>1. UNCHANGED <<Outcome, Value, Holder, Running>> /\ Fixed' = Fixed
    BY FixedSame DEF Outcome, Value, Holder
<1>2. CASE aas
  <2>1. Holder = "call"
      BY <1>2 DEF StreamConserved, Holder
  <2>2. Borrowed' \in SUBSET (0..Len(source))
      BY OwnerTypes DEF Borrowed
  <2> QED
      BY <1>1, <2>1, <2>2 DEF Promise!Next, Promise!Work, Fixed
<1>3. CASE ~aas
  <2>1. Borrowed = {}
      BY <1>3, NothingBorrowed DEF Borrows
  <2>2. ~sch' /\ arr'.id = 0 /\ vec' = <<>>
      BY <1>3 DEF Borrows
  <2>3. Borrowed' = {}
      BY <2>2, OwnerTypes DEF Borrowed, Owned
  <2> QED
      BY <1>1, <2>1, <2>3 DEF Promise!vars, Fixed
<1> QED
    BY <1>2, <1>3

LEMMA PromiseInit == Init => Promise!Init
<1> SUFFICES ASSUME Init PROVE Promise!Init
    OBVIOUS
<1>1. Borrowed = {}
    BY InitType, NothingBorrowed DEF Init, NullArray
<1> QED
    BY <1>1 DEF Init, Promise!Init, Holder, Running, Outcome, Value

LEMMA PromiseStep ==
  ASSUME IInv, IInv', Returned, Borrows, Borrows', [Next]_vars
  PROVE  [Promise!Next]_(Promise!vars)
<1>i. /\ TypeOK /\ TypeOK' /\ StreamConserved /\ LiveAt /\ LocalsEmpty /\ LocalsEmpty'
      /\ StreamInCall /\ StreamInCall'
    BY DEF IInv
<1> USE DEF Running, input, owners, releases, ints, Throw
<1>1. CASE Call
  <2>1. Borrowed' = Borrowed /\ Fixed' = Fixed
      BY <1>1, FixedSame DEF Call, Borrowed, Owned
  <2>2. ~aas /\ ~Running /\ Running'
      BY <1>1, <1>i DEF Call, LiveAt, LocalsEmpty, AAS
  <2>3. Holder' = IF Holder = "R" THEN "call" ELSE Holder
      BY <1>1, <2>2 DEF Call, MoveStream, Holder
  <2> QED
      BY <2>1, <2>2, <2>3 DEF Promise!Next, Promise!Begin, Fixed, Outcome, Value
<1>2. CASE DestroyAas
  <2>1. /\ pc = "unwind" /\ pc' = "idle" /\ ~sch /\ arr.id = 0 /\ vec = <<>>
        /\ ~sch' /\ arr'.id = 0 /\ vec' = <<>> /\ ~aas' /\ ~robj'
      BY <1>2, <1>i DEF DestroyAas, LiveAt, LocalsEmpty, StreamInCall, AAS, SCH, VEC, ARR
  <2>2. Borrowed = {} /\ Borrowed' = {} /\ Fixed' = Fixed
    <3>1. Borrowed' = {}
        BY <1>2, <1>i, <2>1, OwnerTypes DEF DestroyAas, Borrowed, Owned
    <3> QED
        BY <1>2, <1>i, <2>1, <3>1, NothingBorrowed, FixedSame DEF DestroyAas
  <2>3. Holder' = "nobody" /\ Running /\ ~Running' /\ Outcome' = result /\ result' = result
      BY <1>2, <2>1 DEF DestroyAas, Holder, Outcome
  <2>4. CASE result = "ok"
    <3>1. Holder = "call"
        BY <1>i, <2>1, <2>4 DEF Borrows, Holder, StreamConserved
    <3>2. Value' = Concatenation
        BY <1>2, <2>3, <2>4 DEF DestroyAas, Value, Returned
    <3> QED
        BY <2>2, <2>3, <2>4, <3>1, <3>2 DEF Promise!Next, Promise!Return, Fixed
  <2>5. CASE result = "error"
    <3>1. Value' = Value
        BY <1>2, <2>3, <2>5 DEF DestroyAas, Value
    <3> QED
        BY <2>2, <2>3, <2>5, <3>1 DEF Promise!Next, Promise!Return, Fixed
  <2> QED
      BY <2>1, <2>4, <2>5 DEF Borrows
<1>3. CASE Finalize
  <2>1. Borrowed' = Borrowed /\ Fixed' = Fixed /\ ~Running /\ ~Running'
      BY <1>3, FixedSame DEF Finalize, Borrowed, Owned
  <2>2. UNCHANGED <<Outcome, Value, Running>>
      BY <1>3, <2>1 DEF Finalize, Outcome, Value
  <2>3. Holder' = "nobody" /\ (~robj => Holder = "nobody") /\ (robj => Holder = "R")
      BY <1>3, <1>i DEF Finalize, Holder, LiveAt, LocalsEmpty, AAS
  <2> QED
      BY <2>1, <2>2, <2>3 DEF Promise!Next, Promise!Drop, Promise!vars, Fixed
<1>4. CASE UNCHANGED vars
  <2>1. Borrowed' = Borrowed /\ Fixed' = Fixed
      BY <1>4, FixedSame DEF vars, Borrowed, Owned
  <2> QED
      BY <1>4, <2>1 DEF vars, Promise!vars, Fixed, Holder, Outcome, Value
<1>5. CASE GetSchema
    BY <1>5, <1>i, Inside DEF GetSchema
<1>6. CASE GetSchemaReleased
    BY <1>6, <1>i, Inside DEF GetSchemaReleased
<1>7. CASE GetNext
    BY <1>7, <1>i, Inside DEF GetNext
<1>8. CASE Break
    BY <1>8, <1>i, Inside DEF Break
<1>9. CASE Keep
    BY <1>9, <1>i, Inside DEF Keep
<1>10. CASE AllocateMatrix
    BY <1>10, <1>i, Inside DEF AllocateMatrix
<1>11. CASE TakeChunk
    BY <1>11, <1>i, Inside DEF TakeChunk
<1>12. CASE CopyColumn
    BY <1>12, <1>i, Inside DEF CopyColumn
<1>13. CASE CopyReleased
    BY <1>13, <1>i, Inside DEF CopyReleased
<1>14. CASE FinishChunk
    BY <1>14, <1>i, Inside DEF FinishChunk
<1>15. CASE ReturnMatrix
    BY <1>15, <1>i, Inside DEF ReturnMatrix
<1>16. CASE DestroyArr
    BY <1>16, <1>i, Inside DEF DestroyArr
<1>17. CASE DestroyVec
    BY <1>17, <1>i, Inside DEF DestroyVec
<1>18. CASE DestroySch
    BY <1>18, <1>i, Inside DEF DestroySch
<1>19. CASE RefuseObject
  <2>1. Borrowed' = Borrowed /\ Fixed' = Fixed /\ ~Running /\ ~Running' /\ Holder' = Holder
      BY <1>19, FixedSame DEF RefuseObject, Borrowed, Owned, Holder
  <2>2. Outcome' = "error" /\ Value' = <<>>
      BY <1>19, <2>1 DEF RefuseObject, Outcome, Value
  <2> QED
      BY <2>1, <2>2 DEF Promise!Next, Promise!Refuse, Fixed
<1> QED
    BY <1>1, <1>2, <1>3, <1>4, <1>5, <1>6, <1>7, <1>8, <1>9, <1>10, <1>11, <1>12, <1>13, <1>14, <1>15, <1>16, <1>17, <1>18, <1>19 DEF Next, Step

(* Every step of the function is a step of its contract, or none: the      *)
(* caller sees a stream delivered whole or an error, once, and nothing     *)
(* kept.                                                                   *)
THEOREM ImplementsContract == Spec => KeepsPromise
<1>1. Init => Borrows
    BY DEF Init, Borrows, NullArray
<1>2. CollectInv /\ Borrows /\ [Next]_vars => Borrows'
    BY NextBorrows DEF CollectInv, IInv
<1>3. CollectInv /\ CollectInv' /\ Borrows /\ Borrows' /\ [Next]_vars
        => [Promise!Next]_(Promise!vars)
    BY PromiseStep DEF CollectInv
<1> QED
    BY PromiseInit, <1>1, <1>2, <1>3, CollectInductive, PTL DEF Spec, KeepsPromise, Promise!Spec

---------------------------------------------------------------------------
(* Pipeline                                                                *)

(* The producer's position is that of the collector, a slot still has its  *)
(* array if it was given one and is behind that position, and the private  *)
(* data lives as long as one of the structs can release it.                *)
Waiting(a) == a > pos /\ source[a].set
Following ==
  private = "live" =>
    /\ arrays_i = pos
    /\ slots = [k \in 1..Len(source) |-> IF Waiting(k) THEN k ELSE 0]
Freeing ==
  /\ private \in {"live", "freed"}
  /\ (private = "live") = (robj \/ aas)
  /\ pschema = IF private = "live" THEN "private" ELSE "nobody"
  /\ private = "freed" => slots = <<>>
  /\ slotFreed = [a \in 1..Len(source) |-> IF private = "freed" /\ Waiting(a) THEN 1 ELSE 0]
  /\ pc = "gone" => ~robj
PInv == Following /\ Freeing

---------------------------------------------------------------------------
LEMMA InitPInv == PInit => PInv
<1> SUFFICES ASSUME PInit PROVE PInv
    OBVIOUS
<1>1. DOMAIN source = 1..Len(source) /\ pos = 0
    BY SourceIsSeq DEF PInit, Init
<1>2. \A a \in 1..Len(source) : Waiting(a) <=> source[a].set
    BY <1>1 DEF Waiting
<1>3. Following
    BY <1>1, <1>2 DEF PInit, Following
<1>4. Freeing
    BY <1>1 DEF PInit, Init, Freeing
<1> QED
    BY <1>3, <1>4 DEF PInv

(* A step of the pipeline is a step of the collector. *)
LEMMA CollectorSteps == [PNext]_pipeline => [Next]_vars
BY DEF PNext, CallsGetSchema, CallsReleased, CallsGetNext, DestroysStream, CollectsObject,
       Collects, Next, Step, pipeline

(* Steps that call nothing of the producer's that changes it.              *)
LEMMA Undisturbed ==
  ASSUME PInv, UNCHANGED <<producer, source, pos>>, (robj \/ aas)' = (robj \/ aas),
         pc' = "gone" => pc = "gone" /\ robj' = robj
  PROVE  PInv'
BY DEF PInv, Following, Freeing, Waiting, producer

(* get_next: the slot at the position, for the collector to own.           *)
LEMMA Delivering ==
  ASSUME TypeOK, StreamInCall, PInv, CallsGetNext
  PROVE  PInv'
<1>1. Len(source) \in Nat /\ pos \in Nat /\ pos <= Len(source)
    BY SourceIsSeq DEF TypeOK, DataOK
<1>2. aas /\ robj' = robj /\ aas' = aas /\ source' = source /\ pc' = "keep"
    BY DEF CallsGetNext, GetNext, StreamInCall, input
<1>3. private = "live" /\ private' = private /\ pschema' = pschema /\ slotFreed' = slotFreed
    BY <1>2 DEF CallsGetNext, PInv, Freeing
<1>4. arrays_i = pos /\ slots = [k \in 1..Len(source) |-> IF Waiting(k) THEN k ELSE 0]
      /\ Len(slots) = Len(source)
    BY <1>1, <1>3 DEF PInv, Following
<1>5. CASE pos < Len(source)
  <2>0. arrays_i = pos /\ arrays_i < Len(slots) /\ pos # Len(source)
    <3>1. arrays_i = pos /\ Len(slots) = Len(source)
        BY <1>4
    <3> QED
        BY <1>1, <1>5, <3>1
  <2>1. pos' = pos + 1 /\ slots' = [slots EXCEPT ![pos + 1] = 0] /\ arrays_i' = pos + 1
    <3>1. GetNext /\ pc' = "keep" /\ slots' = [slots EXCEPT ![pos + 1] = 0] /\ arrays_i' = pos + 1
        BY <2>0 DEF CallsGetNext, NextSlot
    <3> QED
        BY <2>0, <3>1 DEF GetNext, Throw
  <2>2. \A k \in 1..Len(source) : Waiting(k)' <=> Waiting(k) /\ k # pos + 1
      BY <1>1, <1>2, <2>1 DEF Waiting
  <2>3. slots' = [k \in 1..Len(source) |-> IF Waiting(k)' THEN k ELSE 0]
      BY <1>1, <1>4, <1>5, <2>1, <2>2
  <2>4. slotFreed = [a \in 1..Len(source) |-> 0]
      BY <1>3 DEF PInv, Freeing
  <2>5. slotFreed' = [a \in 1..Len(source') |-> IF private' = "freed" /\ Waiting(a)' THEN 1 ELSE 0]
      BY <1>2, <1>3, <2>4
  <2>6. Following'
      BY <1>2, <2>1, <2>3 DEF Following
  <2> QED
      BY <1>2, <1>3, <2>5, <2>6 DEF PInv, Freeing
<1>6. CASE pos = Len(source)
  <2>1. UNCHANGED <<slots, arrays_i, pos>>
      BY <1>1, <1>2, <1>4, <1>6 DEF CallsGetNext, GetNext, Throw
  <2> QED
      BY <1>2, <1>3, <2>1 DEF PInv, Following, Freeing, Waiting
<1>7. pos < Len(source) \/ pos = Len(source)
    BY <1>1
<1> QED
    BY <1>5, <1>6, <1>7

(* The release of a struct that is set: the only one, so private data and  *)
(* waiting arrays go; of another: nothing happens.                         *)
LEMMA Dropping ==
  ASSUME TypeOK, PInv, NEW isSet \in BOOLEAN, CallsRelease(isSet), UNCHANGED <<source, pos>>,
         (robj \/ aas)' = ((robj \/ aas) /\ ~isSet), isSet => robj \/ aas,
         pc' = "gone" => ~robj'
  PROVE  PInv'
<1>1. DOMAIN source = 1..Len(source) /\ Len(source) \in Nat /\ pos \in Nat
    BY SourceIsSeq DEF TypeOK, DataOK
<1>2. \A a : Waiting(a)' <=> Waiting(a)
    BY DEF Waiting
<1>3. CASE isSet
  <2>1. private = "live" /\ private' = "freed" /\ slots' = <<>> /\ pschema' = "nobody"
      BY <1>3 DEF PInv, Freeing, CallsRelease
  <2>2. slots = [k \in 1..Len(source) |-> IF Waiting(k) THEN k ELSE 0]
        /\ slotFreed = [a \in 1..Len(source) |-> 0]
      BY <2>1 DEF PInv, Following, Freeing
  <2>3. \A a \in 1..Len(source) : Undelivered(a) <=> Waiting(a)
      BY <1>1, <2>2 DEF Undelivered, InSlot
  <2>4. slotFreed' = [a \in 1..Len(source) |-> IF Waiting(a) THEN 1 ELSE 0]
      BY <1>1, <1>3, <2>2, <2>3 DEF CallsRelease
  <2>5. slotFreed' = [a \in 1..Len(source') |-> IF private' = "freed" /\ Waiting(a)' THEN 1 ELSE 0]
      BY <1>2, <2>1, <2>4
  <2> QED
      BY <1>3, <2>1, <2>5 DEF PInv, Following, Freeing
<1>4. CASE ~isSet
  <2>1. UNCHANGED <<slots, arrays_i, private, pschema>>
      BY <1>4 DEF CallsRelease
  <2>2. slotFreed' = slotFreed
      BY <1>1, <1>4 DEF CallsRelease, PInv, Freeing
  <2> QED
      BY <1>2, <1>4, <2>1, <2>2 DEF PInv, Following, Freeing
<1> QED
    BY <1>3, <1>4

LEMMA NextPInv == IInv /\ PInv /\ [PNext]_pipeline => PInv'
<1> SUFFICES ASSUME IInv, PInv, [PNext]_pipeline PROVE PInv'
    OBVIOUS
<1> USE DEF IInv
<1>1. CASE CallsGetSchema
    BY <1>1, Undisturbed DEF CallsGetSchema, GetSchema, Throw, input
<1>2. CASE CallsReleased
    BY <1>2, Undisturbed DEF CallsReleased, GetSchemaReleased, Throw, input, owners
<1>3. CASE CallsGetNext
    BY <1>3, Delivering
<1>4. CASE DestroysStream
  <2>1. UNCHANGED <<source, pos, robj>> /\ aas' = FALSE /\ pc' = "idle" /\ ~(robj /\ aas)
      BY <1>4 DEF DestroysStream, DestroyAas, input, StreamConserved
  <2>2. aas \in BOOLEAN /\ robj \in BOOLEAN
      BY DEF TypeOK, FlagsOK
  <2>3. (robj \/ aas)' = ((robj \/ aas) /\ ~aas)
      BY <2>1, <2>2
  <2> QED
      BY <1>4, <2>1, <2>2, <2>3, Dropping DEF DestroysStream
<1>5. CASE CollectsObject
  <2>1. UNCHANGED <<source, pos, aas>> /\ robj' = FALSE /\ ~(robj /\ aas)
      BY <1>5 DEF CollectsObject, Finalize, input, StreamConserved
  <2>2. aas \in BOOLEAN /\ robj \in BOOLEAN
      BY DEF TypeOK, FlagsOK
  <2>3. (robj \/ aas)' = ((robj \/ aas) /\ ~robj)
      BY <2>1, <2>2
  <2> QED
      BY <1>5, <2>1, <2>2, <2>3, Dropping DEF CollectsObject
<1>6. CASE Collects
  <2>1. CASE Call
    <3>1. UNCHANGED <<producer, source, pos>> /\ aas' = robj /\ robj' = FALSE /\ pc' = "schema" /\ ~aas
        BY <1>6, <2>1 DEF Collects, Call, MoveStream, input, LocalsEmpty, LiveAt, AAS
    <3>2. robj \in BOOLEAN
        BY DEF TypeOK, FlagsOK
    <3> QED
        BY <3>1, <3>2, Undisturbed
  <2>2. CASE Break \/ Keep \/ FinishChunk \/ TakeChunk
      BY <1>6, <2>2, Undisturbed DEF Collects, Break, Keep, FinishChunk, TakeChunk, Throw, input
  <2>3. CASE AllocateMatrix \/ CopyColumn \/ CopyReleased \/ ReturnMatrix
      BY <1>6, <2>3, Undisturbed DEF Collects, AllocateMatrix, CopyColumn, CopyReleased, ReturnMatrix,
                                     Throw, input, owners
  <2>4. CASE DestroyArr \/ DestroyVec \/ DestroySch
      BY <1>6, <2>4, Undisturbed DEF Collects, DestroyArr, DestroyVec, DestroySch, input
  <2>5. CASE RefuseObject
      BY <1>6, <2>5, Undisturbed DEF Collects, RefuseObject, input, owners
  <2> QED
      BY <1>6, <2>1, <2>2, <2>3, <2>4, <2>5 DEF Collects
<1>7. CASE UNCHANGED pipeline
    BY <1>7, Undisturbed DEF pipeline, vars, input, owners
<1> QED
    BY <1>1, <1>2, <1>3, <1>4, <1>5, <1>6, <1>7 DEF PNext

LEMMA PipelineInv == PSpec => [](IInv /\ PInv)
<1>1. PInit => IInv /\ PInv
    BY InitIInv, InitPInv DEF PInit
<1>2. IInv /\ PInv /\ [PNext]_pipeline => IInv' /\ PInv'
    BY NextIInv, NextPInv, CollectorSteps
<1> QED
    BY <1>1, <1>2, PTL DEF PSpec

---------------------------------------------------------------------------
(* Every array given to the producer is in its slot, with the collector or *)
(* released once, by whichever had it last: for every number of slots and  *)
(* chunks, filled or not, and however the calls end.                       *)
THEOREM ArraysHaveOnePlace == PSpec => []OnePlace
<1>1. IInv /\ PInv => OnePlace
  <2> SUFFICES ASSUME IInv, PInv, NEW a \in Given PROVE Freed[a] + Places(a) = 1
      BY DEF OnePlace
  <2>1. source \in Sources /\ pos \in 0..Len(source) /\ DOMAIN source = 1..Len(source)
        /\ Len(source) \in Nat
      BY SourceIsSeq DEF IInv, TypeOK, DataOK
  <2>2. a \in 1..Len(source) /\ source[a].set /\ Len(source) <= MaxChunks
    <3>1. PICK l \in 0..MaxChunks : source \in [1..l -> Chunks]
        BY <2>1 DEF Sources
    <3> QED
        BY <2>1, <3>1, BoundsAssumption DEF Given
  <2>3. Freed[a] = freed[a] + slotFreed[a]
      BY <2>1, <2>2, BoundsAssumption DEF Freed
  <2>4. slotFreed[a] = IF private = "freed" /\ a > pos THEN 1 ELSE 0
      BY <2>2 DEF PInv, Freeing, Waiting
  <2>5. InSlot(a) <=> private = "live" /\ a > pos
      BY <2>1, <2>2 DEF PInv, Freeing, Following, Waiting, InSlot
  <2>6. /\ Owned(a) => a <= pos
        /\ freed[a] = IF a <= pos /\ ~Owned(a) THEN 1 ELSE 0
      BY <2>1, <2>2 DEF IInv, ArraysConserved, ReleasedOnce, Lent
  <2> QED
      BY <2>1, <2>2, <2>3, <2>4, <2>5, <2>6 DEF Places, PInv, Freeing
<1> QED
    BY <1>1, PipelineInv, PTL

(* After a call, or when the R object is gone, every array given to the    *)
(* producer was released, and its private data and schema with them.       *)
THEOREM NothingStays == PSpec => []NothingIsLeftBehind
<1>1. OnePlace /\ IInv /\ PInv => NothingIsLeftBehind
  <2> SUFFICES ASSUME OnePlace, IInv, PInv, pc = "gone" \/ (pc = "idle" /\ calls > 0)
               PROVE  /\ \A a \in Given : Freed[a] = 1
                      /\ private = "freed" /\ pschema = "nobody"
      BY DEF NothingIsLeftBehind, PInv, Freeing, IInv, TypeOK, FlagsOK
  <2>1. live = 0 /\ arr.id = 0 /\ vec = <<>> /\ ~aas
      BY DEF IInv, LiveAt, LocalsEmpty, ARR, VEC, SCH, AAS
  <2>2. ~robj
      BY DEF IInv, StreamInCall, PInv, Freeing, TypeOK, ControlOK
  <2>3. private = "freed" /\ pschema = "nobody" /\ slots = <<>>
      BY <2>1, <2>2 DEF PInv, Freeing
  <2>4. ASSUME NEW a \in Given
        PROVE  Freed[a] = 1
    <3>1. a \in DOMAIN source /\ a \in Nat \ {0}
        BY <2>4, SourceIsSeq DEF Given, IInv, TypeOK, DataOK
    <3>2. ~Owned(a) /\ ~InSlot(a)
        BY <2>1, <2>3, <3>1 DEF Owned, InSlot
    <3>3. Freed[a] + 0 = 1 /\ Freed[a] \in Int
      <4>1. Places(a) = 0
          BY <3>2 DEF Places
      <4>2. Freed[a] = freed[a] + slotFreed[a] /\ freed[a] \in Nat /\ slotFreed[a] \in Nat
        <5>1. DOMAIN source = 1..Len(source) /\ Len(source) \in Nat
            BY SourceIsSeq DEF IInv, TypeOK, DataOK
        <5>2. a \in 1..MaxChunks
          <6>1. PICK l \in 0..MaxChunks : source \in [1..l -> Chunks]
              BY DEF Sources, IInv, TypeOK, DataOK
          <6> QED
              BY <3>1, <6>1, BoundsAssumption
        <5>3. slotFreed[a] \in Nat
            BY <3>1, <5>1 DEF PInv, Freeing
        <5> QED
            BY <3>1, <5>1, <5>2, <5>3 DEF Freed, IInv, TypeOK, OwnersOK
      <4> QED
          BY <4>1, <4>2, <2>4 DEF OnePlace
    <3> QED
        BY <3>3
  <2> QED
      BY <2>3, <2>4
<1>2. PSpec => []OnePlace
    BY ArraysHaveOnePlace
<1> QED
    BY <1>1, <1>2, PipelineInv, PTL
---------------------------------------------------------------------------
(* The pipeline's producer takes the steps of BasicArrayStream.            *)

CallsBounded == calls \in 0..MaxCalls

(* What the collector has of the producer's arrays is what it was lent and *)
(* has not released.                                                       *)
LEMMA HeldIs ==
  ASSUME IInv
  PROVE  Held = {a \in DOMAIN source : Lent(a) /\ freed[a] = 0}
BY DEF IInv, ArraysConserved, ReleasedOnce, Held

LEMMA Counts ==
  ASSUME IInv, PInv
  PROVE  /\ DOMAIN source = 1..Len(source) /\ Len(source) \in 0..MaxChunks
         /\ pos \in 0..Len(source)
         /\ \A a \in DOMAIN source : freed[a] \in Nat /\ slotFreed[a] \in Nat
         /\ schemas \in Nat /\ schemaFreed \in Nat
         /\ schemas - schemaFreed = IF sch THEN 1 ELSE 0
<1>1. source \in Sources /\ DOMAIN source = 1..Len(source) /\ Len(source) \in Nat
      /\ pos \in 0..Len(source)
    BY SourceIsSeq DEF IInv, TypeOK, DataOK
<1>2. PICK l \in 0..MaxChunks : source \in [1..l -> Chunks]
    BY <1>1 DEF Sources
<1>3. Len(source) \in 0..MaxChunks
    BY <1>1, <1>2, BoundsAssumption
<1>4. \A a \in DOMAIN source : freed[a] \in Nat /\ slotFreed[a] \in Nat
    BY <1>1 DEF IInv, TypeOK, OwnersOK, PInv, Freeing
<1>5. schemas \in Nat /\ schemaFreed \in Nat /\ schemas - schemaFreed = IF sch THEN 1 ELSE 0
    BY DEF IInv, TypeOK, OwnersOK, FlagsOK, SchemaConserved
<1> QED
    BY <1>1, <1>3, <1>4, <1>5

(* What the producer cannot see.                                           *)
LEMMA Unseen ==
  ASSUME IInv, IInv', UNCHANGED <<producer, source, pos, freed>>,
         (schemas - schemaFreed)' = schemas - schemaFreed,
         (robj \/ aas)' = (robj \/ aas)
  PROVE  UNCHANGED P!vars
<1>1. Held' = Held
    BY HeldIs DEF Held, Lent, IInv, ArraysConserved, ReleasedOnce
<1>2. Freed' = Freed
    BY DEF Freed, producer
<1> QED
    BY <1>1, <1>2 DEF P!vars, P!stream, P!outside, producer

(* The collector releases one array, if the struct has one.                *)
LEMMA GivesBack ==
  ASSUME IInv, PInv, IInv', UNCHANGED <<producer, source, pos, schemas, schemaFreed>>,
         (robj \/ aas)' = (robj \/ aas),
         NEW s, s.id # 0 => s.id \in DOMAIN source /\ Owned(s.id), Release(s)
  PROVE  P!ReleaseYours \/ UNCHANGED P!vars
<1>1. CASE s.id = 0
    BY <1>1, Unseen DEF Release
<1>2. CASE s.id # 0
  <2> DEFINE a == s.id
  <2>1. a \in DOMAIN source /\ Owned(a) /\ freed' = [freed EXCEPT ![a] = @ + 1]
      BY <1>2 DEF Release
  <2> HIDE DEF a
  <2>2. a \in Held
      BY <2>1 DEF Held
  <2>3. DOMAIN source' = DOMAIN source /\ \A b \in DOMAIN source : Lent(b)' <=> Lent(b)
      BY DEF Lent
  <2>4. DOMAIN freed = DOMAIN source /\ \A b \in DOMAIN source : freed[b] \in Nat
      BY DEF IInv, TypeOK, OwnersOK
  <2>5. freed[a] = 0
      BY <2>1, HeldIs, <2>2
  <2>6. \A b \in DOMAIN source : freed'[b] = IF b = a THEN freed[b] + 1 ELSE freed[b]
      BY <2>1, <2>4
  <2>7. Held' = {b \in DOMAIN source : Lent(b) /\ freed'[b] = 0}
    <3>1. Held' = {b \in DOMAIN source' : Lent(b)' /\ freed'[b] = 0}
        BY DEF IInv, ArraysConserved, ReleasedOnce, Held
    <3> QED
        BY <2>3, <3>1
  <2>8. Held' = Held \ {a}
    <3>1. \A b \in DOMAIN source : freed'[b] = 0 <=> freed[b] = 0 /\ b # a
        BY <2>4, <2>6
    <3> QED
        BY <2>7, <3>1, HeldIs
  <2>9. Freed' = [Freed EXCEPT ![a] = @ + 1]
    <3>1. slotFreed' = slotFreed /\ source' = source
        BY DEF producer
    <3>2. a \in 1..MaxChunks /\ freed[a] \in Nat /\ slotFreed[a] \in Nat
        BY <2>1, Counts, BoundsAssumption
    <3>3. Freed' = [b \in 1..MaxChunks |-> IF b \in DOMAIN source THEN freed'[b] + slotFreed[b] ELSE 0]
        BY <3>1 DEF Freed
    <3>4. ASSUME NEW b \in 1..MaxChunks
          PROVE  Freed'[b] = IF b = a THEN Freed[b] + 1 ELSE Freed[b]
      <4>1. CASE b = a
          BY <2>1, <2>6, <3>2, <3>3, <4>1 DEF Freed
      <4>2. CASE b # a
          BY <2>6, <3>3, <4>2 DEF Freed
      <4> QED
          BY <4>1, <4>2
    <3> QED
        BY <3>3, <3>4 DEF Freed
  <2> QED
      BY <2>2, <2>8, <2>9 DEF P!ReleaseYours, P!stream, producer
<1> QED
    BY <1>1, <1>2

(* The collector calls get_next.                                           *)
LEMMA Answers ==
  ASSUME IInv, PInv, IInv', CallsGetNext
  PROVE  P!GetNextArray \/ P!GetNextEnd
<1>1. aas /\ robj' = robj /\ aas' = aas /\ UNCHANGED <<source, freed, schemas, schemaFreed>>
    BY DEF CallsGetNext, GetNext, StreamInCall, input, releases, IInv
<1>2. private = "live" /\ UNCHANGED <<private, pschema, slotFreed>>
    BY <1>1 DEF CallsGetNext, PInv, Freeing
<1>3. arrays_i = pos /\ slots = [k \in 1..Len(source) |-> IF Waiting(k) THEN k ELSE 0]
    BY <1>2 DEF PInv, Following
<1>4. Len(slots) = Len(source)
    BY <1>3, Counts
<1>5. Freed' = Freed
    BY <1>1, <1>2 DEF Freed
<1>6. CASE pos < Len(source)
  <2>0. arrays_i < Len(slots)
      BY <1>3, <1>4, <1>6
  <2>1. pos' = pos + 1
      BY <1>6, Counts DEF CallsGetNext, GetNext, Throw
  <2>2. slots[NextSlot] = IF source[pos + 1].set THEN pos + 1 ELSE 0
      BY <1>3, <1>6, Counts DEF NextSlot, Waiting
  <2>3. \A a \in DOMAIN source : Lent(a)' <=> Lent(a) \/ (a = pos + 1 /\ source[pos + 1].set)
      BY <1>1, <2>1, Counts DEF Lent
  <2>4. pos + 1 \in DOMAIN source /\ ~Lent(pos + 1)
      BY <1>6, Counts DEF Lent
  <2>5. freed[pos + 1] = 0
      BY <2>4 DEF IInv, ArraysConserved, ReleasedOnce
  <2>6. Held' = {b \in DOMAIN source : Lent(b)' /\ freed[b] = 0}
    <3>1. Held' = {b \in DOMAIN source' : Lent(b)' /\ freed'[b] = 0}
        BY DEF IInv, ArraysConserved, ReleasedOnce, Held
    <3> QED
        BY <1>1, <3>1
  <2>7. Held' = Held \cup ({slots[NextSlot]} \ {0})
    <3>1. pos + 1 # 0
        BY Counts
    <3> QED
        BY <2>2, <2>3, <2>4, <2>5, <2>6, <3>1, HeldIs
  <2>8. slots' = [slots EXCEPT ![NextSlot] = 0] /\ arrays_i' = arrays_i + 1
        /\ reply' = IF slots[NextSlot] = 0 THEN <<"end", 0>> ELSE <<"array", slots[NextSlot]>>
      BY <2>0 DEF CallsGetNext
  <2> QED
      BY <1>1, <1>2, <1>5, <2>0, <2>7, <2>8
      DEF P!GetNextArray, P!MovedSlot, P!NextSlot, NextSlot, P!Structs
<1>7. CASE pos = Len(source)
  <2>1. arrays_i = Len(slots) /\ ~(arrays_i < Len(slots)) /\ pos' = pos
    <3>1. pos' = pos
        BY <1>7, Counts DEF CallsGetNext, GetNext, Throw
    <3> QED
        BY <1>3, <1>4, <1>7, <3>1, Counts
  <2>2. UNCHANGED <<slots, arrays_i>> /\ reply' = <<"end", 0>>
      BY <2>1 DEF CallsGetNext
  <2>3. Held' = Held
      BY <1>1, <2>1, HeldIs DEF Held, Lent, IInv, ArraysConserved, ReleasedOnce
  <2> QED
      BY <1>1, <1>2, <1>5, <2>1, <2>2, <2>3
      DEF P!GetNextEnd, P!stream, P!outside, P!Structs
<1> QED
    BY <1>6, <1>7, Counts

(* A struct that may call release is destroyed.                            *)
LEMMA LetsGo ==
  ASSUME IInv, PInv, IInv', NEW isSet \in BOOLEAN, CallsRelease(isSet),
         UNCHANGED <<source, pos, freed, schemas, schemaFreed>>,
         (robj \/ aas)' = ((robj \/ aas) /\ ~isSet), isSet => robj \/ aas
  PROVE  P!Release \/ UNCHANGED P!vars
<1>1. CASE ~isSet
  <2>1. slotFreed' = slotFreed
      BY <1>1, Counts DEF CallsRelease, PInv, Freeing
  <2> QED
      BY <1>1, <2>1, Unseen DEF CallsRelease, producer
<1>2. CASE isSet
  <2>1. private = "live" /\ private' = "freed" /\ pschema' = "nobody" /\ slots' = <<>>
        /\ UNCHANGED <<arrays_i, reply>>
      BY <1>2 DEF PInv, Freeing, CallsRelease
  <2>2. Held' = Held
      BY HeldIs DEF Held, Lent, IInv, ArraysConserved, ReleasedOnce
  <2>3. \A a \in 1..Len(source) : a \in P!ReleasedSlots <=> Undelivered(a)
      BY <2>1, Counts DEF P!ReleasedSlots, Undelivered, InSlot
  <2>4. P!ReleasedSlots \subseteq DOMAIN source
      BY <2>1, Counts DEF P!ReleasedSlots, PInv, Following
  <2>5. Freed' = [a \in 1..MaxChunks |-> IF a \in P!ReleasedSlots THEN Freed[a] + 1 ELSE Freed[a]]
    <3>1. \A a \in DOMAIN source : slotFreed'[a] = slotFreed[a] + (IF Undelivered(a) THEN 1 ELSE 0)
        BY <1>2 DEF CallsRelease
    <3>2. Freed' = [a \in 1..MaxChunks |-> IF a \in DOMAIN source THEN freed[a] + slotFreed'[a] ELSE 0]
        BY DEF Freed
    <3>3. ASSUME NEW a \in 1..MaxChunks
          PROVE  Freed'[a] = IF a \in P!ReleasedSlots THEN Freed[a] + 1 ELSE Freed[a]
      <4>1. CASE a \in DOMAIN source
        <5>1. freed[a] \in Nat /\ slotFreed[a] \in Nat /\ Freed[a] = freed[a] + slotFreed[a]
            BY <4>1, Counts DEF Freed
        <5>2. a \in P!ReleasedSlots <=> Undelivered(a)
            BY <2>3, <4>1, Counts
        <5>3. Freed'[a] = freed[a] + (slotFreed[a] + (IF Undelivered(a) THEN 1 ELSE 0))
            BY <3>1, <3>2, <4>1
        <5> QED
            BY <5>1, <5>2, <5>3
      <4>2. CASE a \notin DOMAIN source
          BY <2>4, <3>2, <4>2 DEF Freed
      <4> QED
          BY <4>1, <4>2
    <3> QED
        BY <3>2, <3>3
  <2> QED
      BY <1>2, <2>1, <2>2, <2>5 DEF P!Release, P!NoCallback, P!Structs, P!Arrays
<1> QED
    BY <1>1, <1>2

(* One action at a time.                                                   *)
LEMMA ProducerStep ==
  ASSUME IInv, PInv, CallsBounded, IInv', [PNext]_pipeline
  PROVE  P!Next \/ UNCHANGED P!vars
<1>1. CASE CallsGetSchema
  <2>1. aas /\ calls = 1 /\ ~sch
      BY <1>1 DEF CallsGetSchema, GetSchema, IInv, StreamInCall, LocalsEmpty
  <2>2. schemas - schemaFreed = 0 /\ 0 < MaxCalls
      BY <2>1, Counts, BoundsAssumption DEF CallsBounded
  <2>3. UNCHANGED <<producer, source, pos, freed, schemaFreed, robj, aas>>
      BY <1>1 DEF CallsGetSchema, GetSchema, input, releases
  <2>4. CASE schemas' = schemas
      BY <2>3, <2>4, Unseen
  <2>5. CASE schemas' = schemas + 1
    <3>1. Held' = Held
        BY <2>3, HeldIs DEF Held, Lent, IInv, ArraysConserved, ReleasedOnce
    <3>2. Freed' = Freed
        BY <2>3 DEF Freed, producer
    <3>3. (schemas - schemaFreed)' = (schemas - schemaFreed) + 1
        BY <2>3, <2>5, Counts
    <3>4. P!GetSchema
        BY <2>1, <2>2, <2>3, <3>1, <3>2, <3>3 DEF P!GetSchema, P!stream, P!Structs, producer
    <3> QED
        BY <3>4 DEF P!Next
  <2> QED
      BY <1>1, <2>4, <2>5 DEF CallsGetSchema, GetSchema
<1>2. CASE CallsReleased
    BY <1>2, Unseen DEF CallsReleased, GetSchemaReleased, input, owners, releases
<1>3. CASE CallsGetNext
    BY <1>3, Answers DEF P!Next
<1>4. CASE DestroysStream
  <2>1. UNCHANGED <<source, pos, freed, schemas, schemaFreed, robj>> /\ aas' = FALSE /\ ~(robj /\ aas)
      BY <1>4 DEF DestroysStream, DestroyAas, input, StreamConserved, IInv
  <2>2. aas \in BOOLEAN /\ robj \in BOOLEAN
      BY DEF IInv, TypeOK, FlagsOK
  <2>3. (robj \/ aas)' = ((robj \/ aas) /\ ~aas)
      BY <2>1, <2>2
  <2>4. P!Release \/ UNCHANGED P!vars
      BY <1>4, <2>1, <2>2, <2>3, LetsGo DEF DestroysStream
  <2> QED
      BY <2>4 DEF P!Next
<1>5. CASE CollectsObject
  <2>1. UNCHANGED <<source, pos, freed, schemas, schemaFreed, aas>> /\ robj' = FALSE /\ ~(robj /\ aas)
      BY <1>5 DEF CollectsObject, Finalize, input, StreamConserved, IInv
  <2>2. aas \in BOOLEAN /\ robj \in BOOLEAN
      BY DEF IInv, TypeOK, FlagsOK
  <2>3. (robj \/ aas)' = ((robj \/ aas) /\ ~robj)
      BY <2>1, <2>2
  <2>4. P!Release \/ UNCHANGED P!vars
      BY <1>5, <2>1, <2>2, <2>3, LetsGo DEF CollectsObject
  <2> QED
      BY <2>4 DEF P!Next
<1>6. CASE Collects
  <2>1. CASE Call
    <3>1. UNCHANGED <<producer, source, pos, freed, schemas, schemaFreed>>
          /\ aas' = robj /\ robj' = FALSE /\ ~aas
        BY <1>6, <2>1 DEF Collects, Call, MoveStream, input, releases, IInv, LocalsEmpty, LiveAt, AAS
    <3>2. robj \in BOOLEAN
        BY DEF IInv, TypeOK, FlagsOK
    <3> QED
        BY <3>1, <3>2, Unseen
  <2>2. CASE Keep \/ TakeChunk
      BY <1>6, <2>2, Unseen DEF Collects, Keep, TakeChunk, Throw, input, releases
  <2>3. CASE AllocateMatrix \/ CopyColumn \/ CopyReleased \/ ReturnMatrix
      BY <1>6, <2>3, Unseen DEF Collects, AllocateMatrix, CopyColumn, CopyReleased, ReturnMatrix,
                                Throw, input, owners, releases
  <2>4. CASE Break \/ FinishChunk \/ DestroyArr
    <3>1. UNCHANGED <<producer, source, pos, schemas, schemaFreed, robj, aas>> /\ Release(arr)
        BY <1>6, <2>4 DEF Collects, Break, FinishChunk, DestroyArr, input
    <3>2. arr.id # 0 => arr.id \in DOMAIN source /\ Owned(arr.id)
        BY Counts DEF IInv, TypeOK, OwnersOK, ArrayStruct, Owned
    <3>3. P!ReleaseYours \/ UNCHANGED P!vars
        BY <3>1, <3>2, GivesBack
    <3> QED
        BY <3>3 DEF P!Next
  <2>5. CASE DestroyVec
    <3>1. UNCHANGED <<producer, source, pos, schemas, schemaFreed, robj, aas>>
        BY <1>6, <2>5 DEF Collects, DestroyVec, input
    <3>2. CASE vec = <<>>
        BY <2>5, <3>1, <3>2, Unseen DEF DestroyVec
    <3>3. CASE vec # <<>>
      <4>1. Release(Head(vec))
          BY <2>5, <3>3 DEF DestroyVec
      <4>2. vec \in Seq(ArrayStruct)
          BY DEF IInv, TypeOK, OwnersOK
      <4>3. 1 \in DOMAIN vec /\ Head(vec) = vec[1] /\ vec[1] \in ArrayStruct
          BY <3>3, <4>2
      <4>4. Head(vec).id # 0 => Head(vec).id \in DOMAIN source /\ Owned(Head(vec).id)
          BY <4>3, Counts DEF ArrayStruct, Owned
      <4>5. P!ReleaseYours \/ UNCHANGED P!vars
          BY <3>1, <4>1, <4>4, GivesBack
      <4> QED
          BY <4>5 DEF P!Next
    <3> QED
        BY <3>2, <3>3
  <2>6. CASE DestroySch
    <3>1. UNCHANGED <<producer, source, pos, freed, schemas, robj, aas>>
          /\ schemaFreed' = schemaFreed + Releases(sch)
        BY <1>6, <2>6 DEF Collects, DestroySch, input
    <3>2. CASE ~sch
        BY <3>1, <3>2, Unseen, Counts DEF Releases
    <3>3. CASE sch
      <4>1. schemas - schemaFreed = 1 /\ (schemas - schemaFreed)' = (schemas - schemaFreed) - 1
          BY <3>1, <3>3, Counts DEF Releases
      <4>2. Held' = Held
          BY <3>1, HeldIs DEF Held, Lent, IInv, ArraysConserved, ReleasedOnce
      <4>3. Freed' = Freed
          BY <3>1 DEF Freed, producer
      <4>4. P!ReleaseCopy
          BY <3>1, <4>1, <4>2, <4>3 DEF P!ReleaseCopy, P!stream, producer
      <4> QED
          BY <4>4 DEF P!Next
    <3> QED
        BY <3>2, <3>3
  <2>7. CASE RefuseObject
      BY <1>6, <2>7, Unseen DEF Collects, RefuseObject, input, owners, releases
  <2> QED
      BY <1>6, <2>1, <2>2, <2>3, <2>4, <2>5, <2>6, <2>7 DEF Collects
<1>7. CASE UNCHANGED pipeline
    BY <1>7, Unseen DEF pipeline, vars, input, owners, releases
<1> QED
    BY <1>1, <1>2, <1>3, <1>4, <1>5, <1>6, <1>7 DEF PNext

LEMMA BoundedCalls == PSpec => []CallsBounded
<1>1. PInit => CallsBounded
    BY BoundsAssumption DEF PInit, Init, CallsBounded
<1>2. CallsBounded /\ [Next]_vars => CallsBounded'
    BY BoundsAssumption DEF CallsBounded, Next, Step, RefuseObject, Call, GetSchema, GetSchemaReleased, GetNext,
       Break, Keep, AllocateMatrix, TakeChunk, CopyColumn, CopyReleased, FinishChunk, ReturnMatrix,
       DestroyArr, DestroyVec, DestroySch, DestroyAas, Finalize, vars
<1> QED
    BY <1>1, <1>2, CollectorSteps, PTL DEF PSpec

(* What the collector's calls do to the producer, and to what it handed    *)
(* over, is what BasicArrayStream allows: for every number of slots and    *)
(* chunks, filled or not, and however the calls end.                       *)
THEOREM StepsOfTheProducer == PSpec => ProducerSteps
<1>1. IInv /\ PInv /\ CallsBounded /\ IInv' /\ [PNext]_pipeline => [P!Next]_(P!vars)
    BY ProducerStep
<1> QED
    BY <1>1, PipelineInv, BoundedCalls, PTL DEF PSpec, ProducerSteps
=============================================================================
