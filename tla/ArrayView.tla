----------------------------- MODULE ArrayView -----------------------------
(***************************************************************************)
(* The life of an ArrowArrayView: made for a schema, filled in from an     *)
(* array another library built, from one that is being built or for one to *)
(* come, and validated, at any level and as often as its owner likes. The  *)
(* accessors of nanoarrow.h then read through it without a check.          *)
(***************************************************************************)
EXTENDS ViewOperations

CONSTANTS
  Cases,        \* the arrays there are, each with the schema its view is for
  OldSizes,     \* sizes an earlier use may have left in the view
  Lengths       \* lengths an array to come may have

(* A schema that ArrowSchemaViewInit accepts.                              *)
IsSchema(t) ==
  /\ IsTree(t)
  /\ \A p \in DOMAIN t :
       /\ t[p].type \in DOMAIN Layout
       /\ t[p].type \in {"list", "fixed_size_list"} => Len(t[p].kids) = 1
       /\ t[p].type = "run_end_encoded" => Len(t[p].kids) = 2 /\ Kid(t, p, 1).type = "int16"
       /\ IF t[p].type \in {"sparse_union", "dense_union"}
          THEN t[p].ids \in Seq(Nat) /\ Len(t[p].ids) = Len(t[p].kids)
          ELSE t[p].ids = <<>>

(* An array: the contents are as long as the buffers, which hold whole     *)
(* elements. ints are modelled of offsets and of 16-bit integers, which    *)
(* may be run ends.                                                        *)
HoldsInts(x) == Kind(x, 2) \in {"data_offset", "union_offset"} \/ x.type = "int16"
IsArray(a) ==
  /\ IsTree(a)
  /\ \A p \in DOMAIN a :
       LET x == a[p] IN
         /\ x.type \in DOMAIN Layout
         /\ x.length \in Int /\ x.offset \in Int /\ x.null_count \in Int /\ x.n_buffers \in Int
         /\ x.sizes \in [1..3 -> Nat] /\ \A b \in 1..3 : Kind(x, b) = "none" => x.sizes[b] = 0
         /\ Kind(x, 1) = "type_id" => DOMAIN x.types = 0..(x.sizes[1] - 1)
         /\ HoldsInts(x) => /\ x.sizes[2] % (Bits(x, 2) \div 8) = 0
                            /\ DOMAIN x.ints = 0..((x.sizes[2] \div (Bits(x, 2) \div 8)) - 1)
                            /\ \A i \in DOMAIN x.ints : x.ints[i] \in Int

(* An array has the types of its schema, wherever it has its nodes.        *)
SameShape(s, a) ==
  /\ DOMAIN s = DOMAIN a
  /\ \A p \in DOMAIN s : Len(s[p].kids) = Len(a[p].kids) /\ Len(s[p].dict) = Len(a[p].dict)
TypesAgree(s, a) == SameShape(s, a) => \A p \in DOMAIN s : s[p].type = a[p].type

ASSUME CasesAssumption ==
  \A c \in Cases : IsArray(c[1]) /\ IsSchema(c[2]) /\ TypesAgree(c[2], c[1])
ASSUME LengthsAssumption == Lengths \subseteq 0..Int64Max /\ OldSizes \subseteq Nat \cup {Unknown}

VARIABLES
  array,        \* the ArrowArray
  view,         \* the ArrowArrayView
  from,         \* what the view was filled in from: "nothing", "array", "buffers", "length"
  accepted,     \* the highest level at which the view was accepted since
  failed,       \* did the last call return EINVAL?
  wild,         \* a check read where the buffer has no room
  asked         \* the length ArrowArrayViewSetLength was called with

vars == <<array, view, from, accepted, failed, wild, asked>>

---------------------------------------------------------------------------
(* What the C data interface has a producer keep to: there is room in each *)
(* buffer for what the lengths, and for data the last offset, ask for.     *)
Conforms(a) ==
  \A p \in DOMAIN a :
    LET x == a[p] IN
      /\ \A b \in 1..2 : x.sizes[b] # 0 => x.sizes[b] >= Needed(x, b, End(x))
      /\ Kind(x, 3) = "data" /\ x.sizes[2] # 0 /\ End(x) > 0 /\ x.sizes[3] # 0 => x.sizes[3] >= x.ints[End(x)]

(* A view for a schema, after an earlier use or none.                      *)
ViewFor(schema, size) ==
  [p \in DOMAIN schema |->
    LET s == schema[p] IN
      [type |-> s.type, offset |-> 0, length |-> 0, null_count |-> 0,
       sizes |-> [b \in 1..3 |-> IF Kind(s, b) = "none" THEN 0 ELSE size],
       types |-> <<>>, ints |-> <<>>, ids |-> s.ids,
       kids |-> s.kids, dict |-> s.dict, up |-> s.up, last |-> s.last]]

Init ==
  /\ \E c \in Cases, size \in OldSizes : array = c[1] /\ view = ViewFor(c[2], size)
  /\ from = "nothing" /\ accepted = None /\ failed = FALSE /\ wild = FALSE /\ asked = 0

Finish(r, level) ==
  /\ view' = r.view /\ failed' = ~r.ok /\ wild' = (wild \/ r.wild)
  /\ accepted' = IF r.ok THEN level ELSE None
  /\ UNCHANGED <<array, asked>>

SetArrayAt(v, level) == Then(SetArrayInternal(v, array), LAMBDA w : Validated(w, level))

(* ArrowArrayViewSetArray, and ArrowArrayViewSetArrayMinimal.              *)
SetArray ==
  /\ from = "nothing" /\ Conforms(array)
  /\ \E level \in {Minimal, Default} : Finish(SetArrayAt(view, level), level)
  /\ from' = IF failed' THEN "nothing" ELSE "array"

SetFromBuffers ==
  /\ from = "nothing"
  /\ Finish(OK(InitFromArray(array)), None)
  /\ from' = "buffers"

ViewSetLength ==
  /\ from = "nothing" /\ ~failed
  /\ \E n \in Lengths : view' = SetLength(view, n) /\ asked' = n
  /\ from' = "length" /\ accepted' = None /\ failed' = FALSE
  /\ UNCHANGED <<array, wild>>

Validate ==
  /\ from \in {"array", "buffers"}
  /\ \E level \in Minimal..Full :
       LET r == Validated(view, level) IN
         /\ view' = r.view /\ failed' = ~r.ok /\ wild' = (wild \/ r.wild)
         /\ accepted' = IF r.ok /\ level > accepted THEN level ELSE accepted
  /\ UNCHANGED <<array, from, asked>>

Next == SetArray \/ SetFromBuffers \/ ViewSetLength \/ Validate
Spec == Init /\ [][Next]_vars

---------------------------------------------------------------------------
(* The arrays whose sizes nanoarrow works out right: none leaves int64,    *)
(* and a fixed-size list does not have fewer than no elements. Nothing in  *)
(* the code checks either; what is safe is safe of these.                  *)
SizesFit(a) ==
  /\ ListSize >= 0
  /\ \A p \in DOMAIN a :
       LET n == End(a[p]) IN
         /\ \A b \in 1..2 : MinSize(a[p], b, n) = Needed(a[p], b, n)
         /\ a[p].type = "fixed_size_list" => InChild(n) = n * ListSize

(* No check reads an offset or a run end where its buffer has no room,     *)
(* whether the sizes were given or assumed: each read comes after the      *)
(* check of the size it relies on, in the order of the recursion. Of an    *)
(* array whose sizes fit int64.                                            *)
ChecksReadInside == SizesFit(array) => ~wild

(* What a fully validated view says can be read without a check: for every *)
(* element the accessors stay inside the buffers the array really has and  *)
(* inside its children. The offset of a dense union may be the length of   *)
(* the child, see UnionOffsetsExist; run ends may be missing altogether.   *)
(* Of an array whose sizes fit int64.                                      *)
Safe(v, a, p, i) ==
  LET x == v[p]
      y == a[p]
      j == y.offset + i IN
    /\ Kind(x, 1) = "validity" /\ y.sizes[1] # 0 => j \div 8 < y.sizes[1]
    /\ Kind(x, 2) = "data" => Bits(x, 2) * (j + 1) <= 8 * y.sizes[2]
    /\ Kind(x, 2) = "data_offset" =>
         /\ {j, j + 1} \subseteq DOMAIN y.ints
         /\ 0 <= y.ints[j] /\ y.ints[j] <= y.ints[j + 1]
         /\ y.ints[j + 1] <= IF x.type = "list" THEN Kid(a, p, 1).length ELSE y.sizes[3]
    /\ x.type \in {"struct", "sparse_union"} => \A k \in DOMAIN y.kids : j < Kid(a, p, k).length
    /\ x.type = "fixed_size_list" => (j + 1) * ListSize <= Kid(a, p, 1).length
    /\ x.type \in {"sparse_union", "dense_union"} =>
         j \in DOMAIN y.types /\ y.types[j] \in ToSet(x.ids)
    /\ x.type = "dense_union" =>
         j \in DOMAIN y.ints /\ y.ints[j] \in 0..Kid(a, p, ChildIndex(x, y.types[j])).length
    /\ x.type = "run_end_encoded" /\ Kid(a, p, 1).length > 0 =>
         \E r \in 0..(Kid(a, p, 1).length - 1) :
           GetInt(Kid(a, p, 1), r) > j /\ r < Kid(a, p, 2).length
FullIsSafe ==
  accepted = Full /\ SizesFit(array) =>
    \A p \in DOMAIN view : \A i \in 0..(array[p].length - 1) : Safe(view, array, p, i)

(* "Check that offsets refer to child elements that actually exist": the   *)
(* comment on the loop over the offsets of a dense union.                  *)
UnionOffsetsExist ==
  accepted = Full =>
    \A p \in DOMAIN view :
      view[p].type = "dense_union" =>
        \A j \in array[p].offset..(End(array[p]) - 1) :
          array[p].ints[j] < Kid(array, p, ChildIndex(view[p], array[p].types[j])).length

(* Validation does not reject what the format allows: lengths that fit     *)
(* int64, and the type of the run ends.                                    *)
WellFormedAt(v, a, p) ==
  LET x == a[p] IN
    /\ v[p].type = x.type /\ x.n_buffers = Buffers(x)
    /\ x.length >= 0 /\ x.offset >= 0 /\ End(x) <= Int64Max
    /\ Kind(x, 1) = "validity" /\ x.sizes[1] = 0 => x.null_count = 0
    /\ \A b \in 1..2 : Kind(x, b) \notin {"none", "validity"} /\ End(x) > 0 => x.sizes[b] # 0
    /\ \A i \in 0..(x.length - 1) : Safe(v, a, p, i)
    /\ Kind(x, 2) = "data_offset" /\ x.sizes[2] # 0 =>
         /\ x.ints[x.offset] >= 0
         /\ x.ints[End(x)] \in 0..(IF x.type = "list" THEN Kid(a, p, 1).length ELSE x.sizes[3])
    /\ x.type \in {"struct", "sparse_union"} => \A k \in DOMAIN x.kids : Kid(a, p, k).length >= End(x)
    /\ x.type = "fixed_size_list" => ListSize >= 0 /\ Kid(a, p, 1).length >= End(x) * ListSize
    /\ x.type = "run_end_encoded" =>
         LET ends == Kid(a, p, 1) IN
           /\ ends.type = "int16" /\ End(x) <= Int16Max
           /\ ends.null_count = 0 /\ ends.length = Kid(a, p, 2).length
           /\ ends.length > 0 => GetInt(ends, 0) > 0 /\ GetInt(ends, ends.length - 1) >= End(x)
           /\ \A i \in 1..(ends.length - 1) : GetInt(ends, i) > GetInt(ends, i - 1)
WellFormed(v, a) == SameShape(v, a) /\ \A p \in DOMAIN a : WellFormedAt(v, a, p)
AcceptsWellFormed == failed /\ from # "buffers" => ~WellFormed(view, array)

(* "You can re-use an ArrowArrayView for multiple ArrowArrays with the     *)
(* same storage type": what the view holds of an array does not depend on  *)
(* what it held before.                                                    *)
ReuseIsFresh ==
  from = "array" =>
    view \in {SetArrayAt(ViewFor(view, 0), level).view : level \in Minimal..Full}

(* ArrowArrayViewSetLength gives the sizes that minimal validation asks of *)
(* an array of that length, also of the children whose length follows,     *)
(* unless one of those left int64 and came out negative, or is more than   *)
(* run ends reach.                                                         *)
Sized(t, n) ==
  LET lengths == AskedLengths(t, n) IN
    [p \in DOMAIN t |->
      IF lengths[p] = NotAsked THEN t[p]
      ELSE [t[p] EXCEPT !.length = lengths[p], !.offset = 0, !.null_count = -1]]
MayAsk(t, n) ==
  LET lengths == AskedLengths(t, n) IN
    \A p \in DOMAIN t :
      lengths[p] # NotAsked =>
        lengths[p] >= 0 /\ (t[p].type = "run_end_encoded" => lengths[p] <= Int16Max)
LengthSizesFit == from = "length" /\ MayAsk(view, asked) => ValidateMinimal(Sized(view, asked)).ok
=============================================================================
