--------------------------- MODULE ViewOperations ---------------------------
(***************************************************************************)
(* What nanoarrow knows of the buffers of an array, as operators: filling  *)
(* a view in from an ArrowArray (ArrowArrayViewSetArray,                   *)
(* ArrowArrayViewInitFromArray) or for an array to come                    *)
(* (ArrowArrayViewSetLength), and checking it at three levels              *)
(* (ArrowArrayViewValidate). src/src/nanoarrow/nanoarrow.c.                *)
(*                                                                         *)
(* An array and a view are trees of nodes. A tree is the sequence of its   *)
(* nodes in the order in which a recursion comes to them: a node, then     *)
(* its children one after the other, then its dictionary. A node's kids    *)
(* and dict are the positions of the nodes below it, up is that of the     *)
(* node above and last that of the last node below.                        *)
(*                                                                         *)
(* sizes are those of the three fixed buffers in bytes: of an array the    *)
(* bytes there are (0 if the pointer is NULL), of a view the bytes it      *)
(* believes there are, -1 if it does not know. types and ints hold the     *)
(* contents of the first and second buffer, as functions from the          *)
(* positions the buffer has room for.                                      *)
(***************************************************************************)
EXTENDS Integers, Sequences, FiniteSets, SequencesExt

CONSTANTS
  ListSize,     \* child_size_elements of the fixed-size lists, as the format
                \* says it: "+w:" and any int32
  Int64Max,     \* stands for INT64_MAX, the largest length and size
  Int16Max      \* stands for INT16_MAX, the largest run end

ASSUME ViewAssumption ==
  /\ ListSize \in Int /\ Int16Max \in Nat
  /\ Int64Max \in Nat /\ (Int64Max + 1) % 8 = 0

None == 0
Minimal == 1
Default == 2
Full == 3
Unknown == -1

---------------------------------------------------------------------------
(* ArrowLayoutInit: what each buffer of a type is for and the bits of an   *)
(* element. Types with the same layout behave alike; the ones here stand   *)
(* for them.                                                               *)
NoBuffer == <<"none", 0>>
Validity == <<"validity", 1>>
TypeId   == <<"type_id", 8>>
Layout == [
  na               |-> <<NoBuffer, NoBuffer, NoBuffer>>,
  run_end_encoded  |-> <<NoBuffer, NoBuffer, NoBuffer>>,
  bool             |-> <<Validity, <<"data", 1>>, NoBuffer>>,
  int16            |-> <<Validity, <<"data", 16>>, NoBuffer>>,
  string           |-> <<Validity, <<"data_offset", 32>>, <<"data", 0>>>>,
  large_string     |-> <<Validity, <<"data_offset", 64>>, <<"data", 0>>>>,
  list             |-> <<Validity, <<"data_offset", 32>>, NoBuffer>>,
  fixed_size_list  |-> <<Validity, NoBuffer, NoBuffer>>,
  struct           |-> <<Validity, NoBuffer, NoBuffer>>,
  sparse_union     |-> <<TypeId, NoBuffer, NoBuffer>>,
  dense_union      |-> <<TypeId, <<"union_offset", 32>>, NoBuffer>>]
Kind(v, b) == Layout[v.type][b][1]
Bits(v, b) == Layout[v.type][b][2]
Buffers(v) == Cardinality({b \in 1..3 : Kind(v, b) # "none"})

RoundUpToMultipleOf8(n) == ((n + 7) \div 8) * 8
BytesForBits(n) == RoundUpToMultipleOf8(n) \div 8

(* The bytes a buffer needs for n elements. An offsets buffer of an array  *)
(* of no elements needs none.                                              *)
Needed(v, b, n) ==
  CASE Kind(v, b) = "validity"    -> BytesForBits(n)
    [] Kind(v, b) = "data_offset" -> IF n = 0 THEN 0 ELSE (Bits(v, b) \div 8) * (n + 1)
    [] Kind(v, b) = "data"        -> RoundUpToMultipleOf8(Bits(v, b) * n) \div 8
    [] Kind(v, b) = "none"        -> 0
    [] OTHER                      -> (Bits(v, b) \div 8) * n

(* The bytes nanoarrow works out instead, in int64: a product that leaves  *)
(* the type wraps around, as it does in two's complement. Nothing checks   *)
(* it, here or for the length of the child of a fixed-size list.           *)
Wrapped(n) == ((n + Int64Max + 1) % (2 * (Int64Max + 1))) - (Int64Max + 1)
MinSize(v, b, n) ==
  CASE Kind(v, b) = "validity" -> BytesForBits(n)
    [] Kind(v, b) = "data"     -> Wrapped(RoundUpToMultipleOf8(Bits(v, b) * n)) \div 8
    [] OTHER                   -> Wrapped(Needed(v, b, n))
InChild(n) == Wrapped(n * ListSize)

(* Trees.                                                                  *)
Below(x) == x.kids \o x.dict
IsTree(t) ==
  /\ t \in Seq({t[p] : p \in DOMAIN t}) /\ t # <<>> /\ t[1].last = Len(t)
  /\ \A p \in DOMAIN t :
       LET below == Below(t[p]) IN
         /\ t[p].kids \in Seq(Nat) /\ t[p].dict \in Seq(Nat) /\ Len(t[p].dict) <= 1
         /\ \A k \in DOMAIN below :
              /\ below[k] \in DOMAIN t /\ t[below[k]].up = p
              /\ below[k] = 1 + IF k = 1 THEN p ELSE t[below[k - 1]].last
         /\ t[p].last \in p..Len(t)
         /\ t[p].last = IF below = <<>> THEN p ELSE t[below[Len(below)]].last
         /\ p > 1 => t[p].up \in 1..(p - 1) /\ p \in ToSet(Below(t[t[p].up]))

(* Results: the view, or the node of a view, as the call leaves it, and    *)
(* how the call went.                                                      *)
OK(v)     == [view |-> v, ok |-> TRUE, wild |-> FALSE]
EINVAL(v) == [view |-> v, ok |-> FALSE, wild |-> FALSE]
Wild(v)   == [view |-> v, ok |-> FALSE, wild |-> TRUE]
Check(v, holds) == IF holds THEN OK(v) ELSE EINVAL(v)

(* NANOARROW_RETURN_NOT_OK: go on only if all went well so far.            *)
Then(r, Do(_)) == IF r.ok THEN Do(r.view) ELSE r

(* A recursion over a tree: At(p) is what the visit of node p does to it.  *)
(* The visits go on until one fails, and none reads what another changes.  *)
Visit(t, At(_)) ==
  LET Reached(p) == \A q \in 1..(p - 1) : At(q).ok IN
    [view |-> [p \in DOMAIN t |-> IF Reached(p) THEN At(p).view ELSE t[p]],
     ok   |-> \A p \in DOMAIN t : At(p).ok,
     wild |-> \E p \in DOMAIN t : Reached(p) /\ At(p).wild]

---------------------------------------------------------------------------
(* ArrowArrayViewSetArrayInternal: buffers that are not NULL get an        *)
(* unknown size, whatever the view believed of an earlier array. That both *)
(* have a dictionary is looked at when the children are done.              *)
KeptSize(v, a, b) ==                                           \* mutant
  IF Kind(v, b) = "none" THEN v.sizes[b]
  ELSE IF a.sizes[b] = 0 THEN 0 ELSE IF v.sizes[b] # 0 THEN v.sizes[b] ELSE Unknown
SizeSet(v, a, b) ==
  IF Kind(v, b) = "none" THEN v.sizes[b]
  ELSE IF a.sizes[b] = 0 THEN 0 ELSE Unknown

NodeSet(v, a) ==
  [v EXCEPT !.offset = a.offset, !.length = a.length, !.null_count = a.null_count,
            !.types = a.types, !.ints = a.ints,
            !.sizes = [b \in 1..3 |-> SizeSet(v, a, b)]]
ChildrenEnd(t, p) == IF t[p].dict = <<>> THEN t[p].last ELSE t[p].dict[1] - 1
SetArrayInternal(t, a) ==
  LET Matches(p) ==
        /\ Buffers(t[p]) = a[p].n_buffers /\ Len(t[p].kids) = Len(a[p].kids)
        /\ \A q \in 1..p : ChildrenEnd(t, q) = p => Len(t[q].dict) = Len(a[q].dict)
  IN  Visit(t, LAMBDA p : Check(NodeSet(t[p], a[p]), Matches(p)))

(* ArrowArrayViewInitFromArray: an array that is being built knows its     *)
(* buffers' sizes. The view has no map from type ids to children.          *)
NoMap == <<Unknown>>
InitFromArray(a) ==
  [p \in DOMAIN a |->
    [type |-> a[p].type, offset |-> a[p].offset, length |-> a[p].length,
     null_count |-> a[p].null_count, sizes |-> a[p].sizes, types |-> a[p].types,
     ints |-> a[p].ints, ids |-> NoMap,
     kids |-> a[p].kids, dict |-> a[p].dict, up |-> a[p].up, last |-> a[p].last]]

(* ArrowArrayViewSetLength: the lengths it is called with on its way down, *)
(* and NotAsked, which no int64 is, where it does not come.                *)
NotAsked == -Int64Max - 2
ChildLengthShort(v, n) == n                                    \* mutant
ChildLength(v, n) == IF v.type = "fixed_size_list" THEN InChild(n) ELSE n
Follows(v, p) ==
  \/ v.type \in {"struct", "sparse_union"} /\ p \in ToSet(v.kids)
  \/ v.type = "fixed_size_list" /\ v.kids # <<>> /\ p = v.kids[1]
HandedDown(v, p, n) == IF n # NotAsked /\ Follows(v, p) THEN ChildLength(v, n) ELSE NotAsked
AskedLengths(t, n) ==
  LET asked[p \in DOMAIN t] == IF p = 1 THEN n ELSE HandedDown(t[t[p].up], p, asked[t[p].up])
  IN  asked
SetLength(t, n) ==
  LET asked == AskedLengths(t, n) IN
    [p \in DOMAIN t |->
      IF asked[p] = NotAsked THEN t[p]
      ELSE [t[p] EXCEPT !.sizes = [b \in 1..3 |-> MinSize(t[p], b, asked[p])]]]

---------------------------------------------------------------------------
(* ArrowArrayViewValidateMinimal: sizes and lengths, without a look into a *)
(* buffer. A size that is not known is assigned.                           *)
End(v) == v.offset + v.length

LengthOnly(v) == v.length                                      \* mutant
Extent(v) == End(v)
Optional(v, b) == Kind(v, b) = "validity" /\ v.null_count = 0 /\ v.sizes[b] = 0
Fit(v, b) ==
  IF Kind(v, b) = "none" \/ Optional(v, b) THEN OK(v)
  ELSE IF v.sizes[b] = Unknown THEN OK([v EXCEPT !.sizes[b] = MinSize(v, b, Extent(v))])
  ELSE Check(v, v.sizes[b] >= MinSize(v, b, Extent(v)))

Kid(t, p, k) == t[t[p].kids[k]]
ChildrenSuffice(t, p) ==
  LET v == t[p] IN
    CASE v.type = "list" -> Len(v.kids) = 1
      [] v.type = "fixed_size_list" -> Len(v.kids) = 1 /\ Kid(t, p, 1).length >= InChild(End(v))
      [] v.type \in {"struct", "sparse_union"} ->
           \A k \in DOMAIN v.kids : Kid(t, p, k).length >= End(v)
      [] v.type = "run_end_encoded" ->
           /\ Len(v.kids) = 2 /\ Kid(t, p, 1).type = "int16" /\ End(v) <= Int16Max
           /\ Kid(t, p, 1).length <= Kid(t, p, 2).length
           /\ Kid(t, p, 1).length = 0 => Kid(t, p, 2).length = 0
           /\ Kid(t, p, 1).null_count = 0
      [] OTHER -> TRUE

MinimalAt(t, p) ==
  IF t[p].length < 0 \/ t[p].offset < 0 \/ End(t[p]) > Int64Max THEN EINVAL(t[p])
  ELSE Then(Then(Fit(t[p], 1), LAMBDA v : Fit(v, 2)),
            LAMBDA v : Check(v, ChildrenSuffice(t, p)))
ValidateMinimal(t) == Visit(t, LAMBDA p : MinimalAt(t, p))

(* ArrowArrayViewValidateDefault: Minimal on the whole tree, then from the *)
(* root down the sizes that the first and the last offset tell. On its way *)
(* down the code validates minimally again what is below each node: all    *)
(* that does is find the sizes that it assigned.                           *)
GetInt(v, i) == v.ints[v.offset + i]
HasInt(v, i) == v.offset + i \in DOMAIN v.ints

EndsNonNegative(v) == GetInt(v, 0) >= 0 /\ GetInt(v, v.length) >= 0
LastOffset(t, p) ==
  LET v == t[p]
      last == GetInt(v, v.length) IN
    IF v.sizes[2] = 0
    THEN OK(IF v.sizes[3] = Unknown THEN [v EXCEPT !.sizes[3] = 0] ELSE v)
    ELSE IF ~HasInt(v, 0) \/ ~HasInt(v, v.length) THEN Wild(v)
    ELSE IF ~EndsNonNegative(v) THEN EINVAL(v)
    ELSE IF v.type = "list" THEN Check(v, Kid(t, p, 1).length >= last)
    ELSE IF v.sizes[3] = Unknown THEN OK([v EXCEPT !.sizes[3] = last])
    ELSE Check(v, v.sizes[3] >= last)

Exceeds(v, run_end) == run_end > End(v)                        \* mutant
Covers(v, run_end) == run_end >= End(v)
LastRunEnd(t, p) ==
  LET v == t[p]
      ends == Kid(t, p, 1) IN
    IF ends.length = 0 THEN OK(v)
    ELSE IF ~HasInt(ends, 0) \/ ~HasInt(ends, ends.length - 1) THEN Wild(v)
    ELSE Check(v, GetInt(ends, 0) >= 1 /\ Covers(v, GetInt(ends, ends.length - 1)))

DefaultAt(t, p) ==
  CASE Kind(t[p], 2) = "data_offset" -> LastOffset(t, p)
    [] t[p].type = "run_end_encoded" -> LastRunEnd(t, p)
    [] OTHER -> Check(t[p], t[p].type = "struct" => ChildrenSuffice(t, p))
ValidateDefault(t) ==
  Then(ValidateMinimal(t), LAMBDA u : Visit(u, LAMBDA p : DefaultAt(u, p)))

(* ArrowArrayViewValidateFull: the contents. The bytes of the offsets to   *)
(* compare are worked out in int64 as well.                                *)
Compared(v) ==
  LET width == Bits(v, 2) \div 8 IN Wrapped(width * (v.length + 1)) \div width
OffsetsIncrease(v) ==
  IF v.length = 0 THEN OK(v)
  ELSE IF \E i \in 0..(Compared(v) - 1) : ~HasInt(v, i) THEN Wild(v)
  ELSE Check(v, \A i \in 1..(Compared(v) - 1) : GetInt(v, i) >= GetInt(v, i - 1))

ChildIndex(v, id) ==
  IF v.ids = NoMap THEN id + 1
  ELSE CHOOSE k \in DOMAIN v.ids : v.ids[k] = id /\ \A l \in (k + 1)..Len(v.ids) : v.ids[l] # id
TypeIdsKnown(v) ==
  IF v.ids = NoMap THEN EINVAL(v)
  ELSE IF \E i \in 0..(v.length - 1) : v.offset + i \notin DOMAIN v.types THEN Wild(v)
  ELSE Check(v, \A i \in 0..(v.length - 1) : v.types[v.offset + i] \in ToSet(v.ids))

NoUpperBound(t, p, i) == GetInt(t[p], i) >= 0                  \* mutant
UnionOffsetFits(t, p, i) ==
  LET v == t[p] IN
    /\ GetInt(v, i) >= 0
    /\ GetInt(v, i) <= Kid(t, p, ChildIndex(v, v.types[v.offset + i])).length
UnionOffsetsFit(t, p) ==
  LET v == t[p] IN
    IF \E i \in 0..(v.length - 1) : ~HasInt(v, i) THEN Wild(v)
    ELSE Check(v, \A i \in 0..(v.length - 1) : UnionOffsetFits(t, p, i))

RunEndsIncrease(t, p) ==
  LET ends == Kid(t, p, 1) IN
    IF \E i \in 0..(ends.length - 1) : ~HasInt(ends, i) THEN Wild(t[p])
    ELSE Check(t[p], \A i \in 1..(ends.length - 1) : GetInt(ends, i) > GetInt(ends, i - 1))

FullAt(t, p) ==
  CASE Kind(t[p], 2) = "data_offset"  -> OffsetsIncrease(t[p])
    [] t[p].type = "sparse_union"     -> TypeIdsKnown(t[p])
    [] t[p].type = "dense_union"      -> Then(TypeIdsKnown(t[p]), LAMBDA v : UnionOffsetsFit(t, p))
    [] t[p].type = "run_end_encoded"  -> RunEndsIncrease(t, p)
    [] OTHER                          -> OK(t[p])
ValidateFull(t) == Visit(t, LAMBDA p : FullAt(t, p))

(* ArrowArrayViewValidate.                                                 *)
Validated(v, level) ==
  CASE level = None    -> OK(v)
    [] level = Minimal -> ValidateMinimal(v)
    [] level = Default -> ValidateDefault(v)
    [] level = Full    -> Then(ValidateDefault(v), ValidateFull)
=============================================================================
