------------------------------ MODULE Pipeline ------------------------------
(***************************************************************************)
(* collectMatrixFromStream on a stream of nanoarrow's own: the collector   *)
(* of CollectStream and the producer of BasicArrayStream, called through   *)
(* the struct the R object holds (R's basic_array_stream, as in the        *)
(* package's tests). The producer takes the place of the external one:     *)
(* what the collector gets is what the slots hold, and the release of its  *)
(* stream releases what is left in them.                                   *)
(*                                                                         *)
(* "source" is what the producer was given: slot k has array k, or nobody  *)
(* filled it. The stream struct is the R object's, then aas.               *)
(***************************************************************************)
EXTENDS CollectStream

VARIABLES
  slots, arrays_i, private, pschema,    \* the producer's private data
  slotFreed,                            \* times each array was released in its slot
  reply                                 \* the last answer of get_next

producer == <<slots, arrays_i, private, pschema, slotFreed, reply>>
pipeline == <<vars, producer>>

---------------------------------------------------------------------------
(* The producer, as this collector sees it.                                *)

Held  == {a \in DOMAIN source : Owned(a)}
Freed == [a \in 1..MaxChunks |->
            IF a \in DOMAIN source THEN freed[a] + slotFreed[a] ELSE 0]
Given == {a \in DOMAIN source : source[a].set}

P == INSTANCE BasicArrayStream WITH
  N           <- MaxChunks,
  MallocFails <- FALSE,
  MaxCopies   <- MaxCalls,
  release     <- [s \in {"producer", "consumer"} |-> s = "consumer" /\ (robj \/ aas)],
  keeper      <- pschema,
  mine        <- {},
  yours       <- Held,
  freed       <- Freed,
  copies      <- schemas - schemaFreed,
  phase       <- "exported"

PInit ==
  /\ Init
  /\ slots = [k \in DOMAIN source |-> IF source[k].set THEN k ELSE 0]
  /\ arrays_i = 0 /\ private = "live" /\ pschema = "private"
  /\ slotFreed = [a \in DOMAIN source |-> 0]
  /\ reply = <<"none", 0>>

---------------------------------------------------------------------------
(* The calls of the collector that reach the producer. GetNext's failures  *)
(* are not this producer's: it refuses a released struct only.             *)

CallsGetSchema == GetSchema /\ UNCHANGED producer

(* EINVAL: the struct an earlier call moved from.                          *)
CallsReleased == GetSchemaReleased /\ UNCHANGED producer

LastSlot == Len(slots) - arrays_i                              \* mutant
NextSlot == arrays_i + 1
CallsGetNext ==
  /\ GetNext /\ pc' = "keep"
  /\ reply' = IF arrays_i < Len(slots) /\ slots[NextSlot] # 0
              THEN <<"array", slots[NextSlot]>> ELSE <<"end", 0>>
  /\ IF arrays_i < Len(slots)
     THEN slots' = [slots EXCEPT ![NextSlot] = 0] /\ arrays_i' = arrays_i + 1
     ELSE UNCHANGED <<slots, arrays_i>>
  /\ UNCHANGED <<private, pschema, slotFreed>>

(* release through the struct that is destroyed, if it has not been moved  *)
(* from: the arrays nobody asked for, then the private data.               *)
InSlot(a) == \E k \in DOMAIN slots : slots[k] = a
BehindNext(a)  == \E k \in DOMAIN slots : k > arrays_i + 1 /\ slots[k] = a   \* mutant
Undelivered(a) == InSlot(a)
CallsRelease(isSet) ==
  /\ slotFreed' = [a \in DOMAIN source |-> slotFreed[a] + (IF isSet /\ Undelivered(a) THEN 1 ELSE 0)]
  /\ IF isSet
     THEN slots' = <<>> /\ private' = "freed" /\ pschema' = "nobody"
     ELSE UNCHANGED <<slots, private, pschema>>
  /\ UNCHANGED <<arrays_i, reply>>

DestroysStream == DestroyAas /\ CallsRelease(aas)
CollectsObject == Finalize /\ CallsRelease(robj)

(* The collector's own steps.                                              *)
Collects ==
  /\ \/ RefuseObject \/ Call \/ Break \/ Keep \/ AllocateMatrix \/ TakeChunk \/ CopyColumn
     \/ CopyReleased \/ FinishChunk \/ ReturnMatrix \/ DestroyArr \/ DestroyVec \/ DestroySch
  /\ UNCHANGED producer

PNext ==
  \/ CallsGetSchema \/ CallsReleased \/ CallsGetNext \/ DestroysStream \/ CollectsObject \/ Collects

PSpec == PInit /\ [][PNext]_pipeline

---------------------------------------------------------------------------
(* Every array the producer was given is in one place: in its slot, in one *)
(* of the collector's structs, or released, by whichever of the two had it *)
(* last, once.                                                             *)
Places(a) == (IF InSlot(a) THEN 1 ELSE 0) + (IF Owned(a) THEN 1 ELSE 0)
OnePlace == \A a \in Given : Freed[a] + Places(a) = 1

(* A call that failed half-way, or that stopped at an empty array or an    *)
(* unfilled slot, leaves arrays in the slots: they, the schema and the     *)
(* private data go with the stream. While a struct can still call the      *)
(* producer, the private data is there.                                    *)
NothingIsLeftBehind ==
  /\ (robj \/ aas) = (private = "live")
  /\ pc = "gone" \/ (pc = "idle" /\ calls > 0) =>
       /\ \A a \in Given : Freed[a] = 1
       /\ private = "freed" /\ pschema = "nobody"

(* What the producer does in the pipeline is what BasicArrayStream allows. *)
ProducerSteps == [][P!Next]_(P!vars)
=============================================================================
