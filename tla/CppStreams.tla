----------------------------- MODULE CppStreams -----------------------------
(***************************************************************************)
(* The streams of src/src/nanoarrow/nanoarrow.hpp: a VectorArrayStream (an *)
(* EmptyArrayStream is one without arrays) is built from a schema and      *)
(* arrays, ToArrayStream moves them to an instance on the heap that the    *)
(* callbacks of an ArrowArrayStream own, and the consumer moves that       *)
(* struct about, calls it and releases it.                                 *)
(*                                                                         *)
(* Instance 1 is the object ToArrayStream is called on, the others are     *)
(* made by it. A move copies a struct and NULLs the release callback of    *)
(* the source: the schema's text has one owner, and readers that outlive   *)
(* it.                                                                     *)
(***************************************************************************)
EXTENDS Integers, Sequences

CONSTANTS
  NVector,          \* the arrays the object is built with
  NStructs,         \* ArrowArrayStream structs of the consumer
  MaxExports        \* calls of ToArrayStream

ASSUME StreamsAssumption == NVector \in Nat /\ NStructs \in Nat /\ MaxExports \in Nat

VARIABLES
  given,        \* how many arrays the object was built with
  instances,    \* each: is it alive, offset_, arrays_
  structs,      \* each: is its release set, the instance private_data points to
  schemaOwner,  \* the instance that owns the schema's text, -1 when it is freed
  got,          \* arrays delivered, in order
  kept,         \* those of them the consumer has not released
  dropped,      \* times each array was released
  touched       \* the last callback: the memory it read, whether the struct it
                \* was called through was released, and the instance

cppVars == <<given, instances, structs, schemaOwner, got, kept, dropped, touched>>

---------------------------------------------------------------------------
NoInstance == -1
NewInstance(arrays) == [alive |-> TRUE, offset |-> 0, arrays |-> arrays]
NoCalls == [memory |-> "nothing", through |-> "unset", impl |-> NoInstance]

CppInit ==
  /\ given \in 0..NVector
  /\ instances = <<NewInstance([k \in 1..given |-> k])>>
  /\ structs = [s \in 1..NStructs |-> [set |-> FALSE, impl |-> NoInstance]]
  /\ schemaOwner = 1
  /\ got = <<>> /\ kept = {} /\ dropped = [a \in 1..NVector |-> 0]
  /\ touched = NoCalls

Object  == instances[1]
Exports == Len(instances) - 1
Drops(arrays) ==
  dropped' = [a \in 1..NVector |-> IF a \in arrays THEN dropped[a] + 1 ELSE dropped[a]]
InVector(impl) == {instances[impl].arrays[k] : k \in DOMAIN instances[impl].arrays}

(* A new instance: the schema moves if the object still owns it, and       *)
(* std::move(arrays_) leaves none behind. out is overwritten.              *)
KeepsArrays(object) == object               \* mutant
GivesArrays(object) == [object EXCEPT !.arrays = <<>>]
ToArrayStream ==
  /\ Object.alive /\ Exports < MaxExports
  /\ \E out \in 1..NStructs :
       /\ ~structs[out].set
       /\ structs' = [structs EXCEPT ![out] = [set |-> TRUE, impl |-> Len(instances) + 1]]
  /\ instances' = Append([instances EXCEPT ![1] = GivesArrays(@)], NewInstance(Object.arrays))
  /\ schemaOwner' = IF schemaOwner = 1 THEN Len(instances) + 1 ELSE schemaOwner
  /\ UNCHANGED <<got, kept, dropped, touched>>

(* The destructor of an instance: its arrays, its schema.                  *)
Destroys(impl) ==
  /\ instances' = [instances EXCEPT ![impl].alive = FALSE, ![impl].arrays = <<>>]
  /\ Drops(InVector(impl))
  /\ schemaOwner' = IF schemaOwner = impl THEN NoInstance ELSE schemaOwner

DestroyObject ==
  /\ Object.alive
  /\ Destroys(1)
  /\ UNCHANGED <<structs, got, kept, touched>>

(* ArrowArrayStreamMove, the move constructor of a UniqueArrayStream: the  *)
(* source keeps its private_data.                                          *)
CopiedStruct(s, t) == [structs EXCEPT ![t] = structs[s]]         \* mutant
MovedStruct(s, t)  == [structs EXCEPT ![t] = structs[s], ![s].set = FALSE]
MoveStruct ==
  \E s, t \in 1..NStructs :
    /\ s # t /\ structs[s].set /\ ~structs[t].set
    /\ structs' = MovedStruct(s, t)
    /\ UNCHANGED <<instances, schemaOwner, got, kept, dropped, touched>>

(* A callback reaches its instance through private_data, whatever release  *)
(* says; a struct that was never set, or was released, has no instance.    *)
Touches(s, memory) ==
  touched' = [memory |-> memory, impl |-> structs[s].impl,
              through |-> IF structs[s].set THEN "set" ELSE "unset"]
InstanceRead(impl) == IF instances[impl].alive THEN "live" ELSE "freed instance"
SchemaRead(impl) ==
  IF instances[impl].alive /\ schemaOwner = NoInstance THEN "freed schema" ELSE InstanceRead(impl)

WrapperGetSchema ==
  \E s \in 1..NStructs :
    /\ structs[s].impl # NoInstance
    /\ Touches(s, SchemaRead(structs[s].impl))
    /\ UNCHANGED <<instances, structs, schemaOwner, got, kept, dropped>>

(* arrays_[offset_++].move(array), or release = nullptr.                   *)
NextInPlace(instance) == [instance EXCEPT !.offset = @ + 1]         \* mutant
NextMoves(instance)   == [instance EXCEPT !.offset = @ + 1, !.arrays[instance.offset + 1] = 0]
WrapperGetNext ==
  \E s \in 1..NStructs :
    /\ structs[s].impl # NoInstance
    /\ LET impl == structs[s].impl
           instance == instances[impl] IN
         /\ Touches(s, InstanceRead(impl))
         /\ IF instance.alive /\ instance.offset < Len(instance.arrays)
            THEN /\ instances' = [instances EXCEPT ![impl] = NextMoves(@)]
                 /\ got' = Append(got, instance.arrays[instance.offset + 1])
                 /\ kept' = kept \cup {instance.arrays[instance.offset + 1]}
            ELSE UNCHANGED <<instances, got, kept>>
    /\ UNCHANGED <<structs, schemaOwner, dropped>>

NoOwner(s)      == [structs EXCEPT ![s] = [set |-> FALSE, impl |-> NoInstance]]
(* release_wrapper: delete the instance, NULL release and private_data.    *)
WrapperRelease ==
  \E s \in 1..NStructs :
    /\ structs[s].set
    /\ Destroys(structs[s].impl)
    /\ structs' = NoOwner(s)
    /\ UNCHANGED <<got, kept, touched>>

ReleaseDelivered ==
  \E a \in kept :
    /\ kept' = kept \ {a}
    /\ Drops({a})
    /\ UNCHANGED <<instances, structs, schemaOwner, got, touched>>

CppNext ==
  /\ \/ ToArrayStream \/ DestroyObject \/ MoveStruct \/ WrapperGetSchema \/ WrapperGetNext
     \/ WrapperRelease \/ ReleaseDelivered
  /\ UNCHANGED given

CppSpec == CppInit /\ [][CppNext]_cppVars

---------------------------------------------------------------------------
(* Each array is in one instance's vector, with the consumer, or released  *)
(* once, and they are delivered in the order they were given, each once,   *)
(* whoever exports, moves and releases in which order.                     *)
VectorsConserved ==
  /\ \A a \in 1..given :
       dropped[a] = IF a \in kept \/ \E x \in DOMAIN instances : a \in InVector(x) THEN 0 ELSE 1
  /\ \A a \in kept, x \in DOMAIN instances : a \notin InVector(x)
  /\ \A x, y \in DOMAIN instances : InVector(x) \cap InVector(y) \subseteq {0} \/ x = y
  /\ got = [k \in DOMAIN got |-> k]

(* A callback called through a struct that is not released finds its       *)
(* instance, however often the object was exported, and the schema, with   *)
(* one exception: the text of the schema is the first export's alone, and  *)
(* when that one is gone get_schema of a later export reads freed memory.  *)
LaterExports == 3..Len(instances)
LiveCallsReadLive ==
  touched.through = "set" =>
    /\ touched.memory # "freed instance"
    /\ touched.memory = "freed schema" => touched.impl \in LaterExports /\ ~instances[2].alive
=============================================================================
