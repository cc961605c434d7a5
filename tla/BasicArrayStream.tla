-------------------------- MODULE BasicArrayStream --------------------------
(***************************************************************************)
(* The ArrowArrayStream backed by a list of arrays, from                   *)
(* ArrowBasicArrayStreamInit to its release callback                       *)
(* (src/src/nanoarrow/nanoarrow.c), the stream that R's                    *)
(* basic_array_stream() hands to collectMatrixFromStream.                  *)
(*                                                                         *)
(* A producer builds the stream in a struct of its own, sets the arrays    *)
(* and exports it; the struct is then moved to a consumer, who calls the   *)
(* callbacks, also those of the struct left behind. Every call is atomic:  *)
(* the code runs in one thread. An array is a number, 0 is a released one. *)
(***************************************************************************)
EXTENDS Integers, Sequences, FiniteSets

CONSTANTS
  N,            \* bound: n_arrays, and arrays the producer has
  MallocFails,  \* TRUE: an allocation may fail
  MaxCopies     \* bound: schema copies the consumer holds

ASSUME BoundsAssumption == N \in Nat /\ MaxCopies \in Nat
ASSUME MallocAssumption == MallocFails \in BOOLEAN

Arrays  == 1..N
Structs == {"producer", "consumer"}

VARIABLES
  release,      \* the release member of each struct: is it set?
  private,      \* the private data: "none", "live" or "freed"
  keeper,       \* who owns the schema: "caller", "private" or "nobody"
  slots,        \* private_data->arrays, a sequence of n_arrays structs
  arrays_i,     \* the next slot get_next delivers
  mine,         \* arrays the producer owns
  yours,        \* arrays the consumer owns
  freed,        \* times each array was released
  copies,       \* schema copies the consumer owns
  phase,        \* "new", "building", "exported" or "failed"
  reply         \* the last answer of get_next

stream  == <<release, private, keeper, slots, arrays_i>>
outside == <<mine, yours, freed, copies>>
vars    == <<stream, outside, phase, reply>>

Init ==
  /\ release = [s \in Structs |-> FALSE]
  /\ private = "none" /\ keeper = "caller" /\ slots = <<>> /\ arrays_i = 0
  /\ mine = Arrays /\ yours = {}
  /\ freed = [a \in Arrays |-> 0] /\ copies = 0
  /\ phase = "new" /\ reply = <<"none", 0>>

---------------------------------------------------------------------------
(* ArrowBasicArrayStreamInit on a zeroed struct.                           *)

(* The private data cannot be allocated. *)
InitFails ==
  /\ phase = "new" /\ MallocFails
  /\ phase' = "failed"
  /\ UNCHANGED <<stream, outside, reply>>

(* The array of slots cannot: ArrowBasicArrayStreamRelease(array_stream)   *)
(* finds release NULL, because it is only set at the end, and returns.     *)
InitFailsLate ==
  /\ phase = "new" /\ MallocFails /\ N > 0
  /\ private' = "live" /\ keeper' = "private"
  /\ phase' = "failed"
  /\ UNCHANGED <<release, slots, arrays_i, outside, reply>>

InitOK ==
  /\ phase = "new"
  /\ private' = "live" /\ keeper' = "private"
  /\ \E n \in 0..N : slots' = [k \in 1..n |-> 0]
  /\ arrays_i' = 0
  /\ release' = [release EXCEPT !["producer"] = TRUE]
  /\ phase' = "building"
  /\ UNCHANGED <<outside, reply>>

(* ArrowBasicArrayStreamSetArray: the array moves into the slot. The code  *)
(* overwrites the slot without looking: it is the producer that sets each  *)
(* slot once, and the slots from the first one on (one left unset before a *)
(* set one would look like the end of the stream to the consumer).         *)
Settable(k) == slots[k] = 0 /\ \A l \in 1..(k - 1) : slots[l] # 0
SetArray ==
  /\ phase = "building"
  /\ \E k \in DOMAIN slots, a \in mine :
       /\ Settable(k)
       /\ slots' = [slots EXCEPT ![k] = a]
       /\ mine' = mine \ {a}
  /\ UNCHANGED <<release, private, keeper, arrays_i, yours, freed, copies, phase, reply>>

(* The producer is done with the stream: ArrowArrayStreamMove.             *)
MovedStream == [s \in Structs |-> s = "consumer"]
Export ==
  /\ phase = "building"
  /\ release' = MovedStream
  /\ phase' = "exported"
  /\ UNCHANGED <<private, keeper, slots, arrays_i, outside, reply>>

(* An array the producer did not give away is its own to release.          *)
ReleaseMine ==
  /\ phase \in {"exported", "failed"}
  /\ \E a \in mine :
       mine' = mine \ {a} /\ freed' = [freed EXCEPT ![a] = @ + 1]
  /\ UNCHANGED <<stream, yours, copies, phase, reply>>

---------------------------------------------------------------------------
(* The callbacks.                                                          *)

(* get_schema: a deep copy of the schema, or an error and no change.       *)
GetSchema ==
  /\ phase = "exported"
  /\ \E s \in Structs : release[s]
  /\ copies < MaxCopies /\ copies' = copies + 1
  /\ UNCHANGED <<stream, mine, yours, freed, phase, reply>>

(* get_next through a struct whose release member is NULL: EINVAL.         *)
GetNextReleased ==
  /\ phase = "exported"
  /\ \E s \in Structs : ~release[s]
  /\ reply' = <<"error", 0>>
  /\ UNCHANGED <<stream, outside, phase>>

GetNextEndCounts ==                                            \* mutant
  /\ phase = "exported"
  /\ \E s \in Structs : release[s]
  /\ arrays_i = Len(slots)
  /\ reply' = <<"end", 0>> /\ arrays_i' = arrays_i + 1
  /\ UNCHANGED <<release, private, keeper, slots, outside, phase>>
GetNextEnd ==
  /\ phase = "exported"
  /\ \E s \in Structs : release[s]
  /\ arrays_i = Len(slots)
  /\ reply' = <<"end", 0>>
  /\ UNCHANGED <<stream, outside, phase>>

(* ArrowArrayMove of the slot, which keeps its contents but the callback.  *)
(* A slot that was never set looks to the consumer like the end.           *)
LastSlot == Len(slots) - arrays_i                              \* mutant
NextSlot == arrays_i + 1
MovedSlot == [slots EXCEPT ![NextSlot] = 0]
GetNextArray ==
  /\ phase = "exported"
  /\ \E s \in Structs : release[s]
  /\ arrays_i < Len(slots)
  /\ LET a == slots[NextSlot] IN
       /\ reply' = IF a = 0 THEN <<"end", 0>> ELSE <<"array", a>>
       /\ yours' = yours \cup ({a} \ {0})
  /\ slots' = MovedSlot /\ arrays_i' = arrays_i + 1
  /\ UNCHANGED <<release, private, keeper, mine, freed, copies, phase>>

(* ArrowBasicArrayStreamRelease: the schema, the slots that still own an   *)
(* array, the slots themselves, the private data.                          *)
ReleasedRest == {slots[k] : k \in arrays_i + 2..Len(slots)}    \* mutant
ReleasedSlots == {slots[k] : k \in DOMAIN slots} \ {0}
KeptCallback(s) == release                                     \* mutant
NoCallback(s) == [release EXCEPT ![s] = FALSE]
Release ==
  /\ phase = "exported"
  /\ \E s \in Structs : release[s] /\ release' = NoCallback(s)
  /\ keeper' = "nobody" /\ private' = "freed"
  /\ freed' = [a \in Arrays |-> IF a \in ReleasedSlots THEN freed[a] + 1 ELSE freed[a]]
  /\ slots' = <<>>
  /\ UNCHANGED <<arrays_i, mine, yours, copies, phase, reply>>

(* What get_next and get_schema delivered is released independently.       *)
ReleaseYours ==
  /\ \E a \in yours :
       yours' = yours \ {a} /\ freed' = [freed EXCEPT ![a] = @ + 1]
  /\ UNCHANGED <<stream, mine, copies, phase, reply>>
ReleaseCopy ==
  /\ copies > 0 /\ copies' = copies - 1
  /\ UNCHANGED <<stream, mine, yours, freed, phase, reply>>

Next ==
  \/ InitFails \/ InitFailsLate \/ InitOK \/ SetArray \/ Export \/ ReleaseMine
  \/ GetSchema \/ GetNextReleased \/ GetNextEnd \/ GetNextArray \/ Release
  \/ ReleaseYours \/ ReleaseCopy

Spec == Init /\ [][Next]_vars

---------------------------------------------------------------------------
TypeOK ==
  /\ release \in [Structs -> BOOLEAN]
  /\ private \in {"none", "live", "freed"}
  /\ keeper \in {"caller", "private", "nobody"}
  /\ slots \in Seq(Arrays \cup {0})
  /\ arrays_i \in 0..N
  /\ mine \subseteq Arrays /\ yours \subseteq Arrays
  /\ freed \in [Arrays -> Nat] /\ copies \in 0..MaxCopies
  /\ phase \in {"new", "building", "exported", "failed"}
  /\ reply \in {"none", "array", "end", "error"} \X (Arrays \cup {0})

(* Each array is owned by the producer, by one slot or by the consumer, or *)
(* it was released once: moving it in and out of the stream loses none and *)
(* releases none twice.                                                    *)
InSlot(a) == \E k \in DOMAIN slots : slots[k] = a
ArraysConserved ==
  /\ \A a \in Arrays :
       freed[a] = IF a \in mine \/ a \in yours \/ InSlot(a) THEN 0 ELSE 1
  /\ \A a \in mine : a \notin yours /\ ~InSlot(a)
  /\ \A a \in yours : ~InSlot(a)
  /\ \A k, l \in DOMAIN slots : slots[k] = slots[l] /\ slots[k] # 0 => k = l

(* The private data, and the schema in it, live as long as some struct can *)
(* release them, and no longer. A failed Init is the exception: after      *)
(* InitFailsLate nothing can release what it allocated.                    *)
PrivateReachable ==
  phase # "failed" =>
    /\ private = "live" <=> \E s \in Structs : release[s]
    /\ keeper = "private" <=> private = "live"

(* What a consumer sees of an exported stream is an ArrowStream: the       *)
(* arrays to deliver are the slots from the position on that have one.     *)
Left(s, i) == SubSeq(s, i + 1, i + Cardinality({k \in DOMAIN s : s[k] # 0}))
Seen == INSTANCE ArrowStream WITH
  exported <- phase = "exported",
  left <- IF phase = "exported" THEN Left(slots, arrays_i) ELSE <<>>,
  open <- phase = "exported" /\ \E s \in Structs : release[s]
IsStream == Seen!Init /\ [][Seen!Next]_(Seen!vars)
=============================================================================
