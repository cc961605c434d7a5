---------------------------- MODULE ArrayBuilder ----------------------------
(***************************************************************************)
(* Building an ArrowArray element by element: ArrowArrayStartAppending,    *)
(* ArrowArrayAppendNull, AppendEmpty, AppendInt, AppendBytes,              *)
(* ArrowArrayFinishElement, ArrowArrayFinishUnionElement,                  *)
(* ArrowArrayReserve and ArrowArrayShrinkToFit, called by the owner on the *)
(* array or on any of its children, and ArrowArrayFinishBuilding           *)
(* (src/src/nanoarrow/nanoarrow.h, nanoarrow.c). Any reallocation may fail.*)
(*                                                                         *)
(* A tree is laid out as in ViewOperations. Buffer b of a node holds       *)
(* at[b], takes sizes[b] bytes and has room for caps[b] (0 if its pointer  *)
(* is NULL).                                                               *)
(***************************************************************************)
EXTENDS ViewOperations

CONSTANTS
  Builds,       \* schemas, the counts AppendNull and AppendEmpty get, and
                \* a bound: the calls before FinishBuilding
  Ints,         \* values for AppendInt
  IntMin,       \* the range of the integer type
  IntMax,
  Texts,        \* sequences of bytes for AppendBytes
  OffsetMax,    \* stands for INT32_MAX
  Reserved      \* counts for ArrowArrayReserve

Bytes == UNION {{x[i] : i \in DOMAIN x} : x \in Texts}
IsUnion(node) == node.type \in {"sparse_union", "dense_union"}
IsSchema(t) ==
  /\ IsTree(t)
  /\ \A p \in DOMAIN t :
       /\ t[p].type \in DOMAIN Layout \ {"run_end_encoded"} /\ t[p].dict = <<>>
       /\ t[p].type \in {"list", "fixed_size_list"} => Len(t[p].kids) = 1
       /\ IsUnion(t[p]) => t[p].kids # <<>>

(* The setter of the type refuses a list size of 0 or less; a format       *)
(* string may name one, but no array is built of it here.                  *)
ASSUME ListSizeAssumption == ListSize \in Nat \ {0}
ASSUME BuilderAssumption ==
  /\ Ints \subseteq Int /\ {IntMin, IntMax} \subseteq Int /\ IntMin <= 0 /\ 0 <= IntMax
  /\ Reserved \cup {OffsetMax} \subseteq Nat /\ Texts \subseteq Seq(Bytes)
  /\ \A b \in Builds : IsSchema(b[1]) /\ b[2] \subseteq Nat /\ b[3] \in Nat

VARIABLES
  tree,         \* the array
  counts,       \* the counts its owner appends with
  calls,        \* how many more calls there may be
  last,         \* the last call and how it ended
  finished,     \* was ArrowArrayFinishBuilding called?
  damaged,      \* did an allocation fail?
  wild          \* something was written outside of a buffer

vars == <<tree, counts, calls, last, finished, damaged, wild>>

---------------------------------------------------------------------------
(* What a call does to one node: the buffer whose reallocation will fail,  *)
(* if it comes to that, and how it went so far.                            *)
Begin(node, fails) == [node |-> node, fails |-> fails, err |-> "OK", wild |-> FALSE]
Refuse(c, code)    == [c EXCEPT !.err = code]
Continue(c, Do(_)) == IF c.err = "OK" THEN Do(c) ELSE c

(* A call stops at the first reallocation that fails: a buffer of a node.  *)
NoFailure == <<0, 0>>
Failures(p) ==
  {NoFailure} \cup
    {place \in (p..tree[p].last) \X (1..3) : place[2] <= Buffers(tree[place[1]])}
FailsAt(place, p) == IF place[1] = p THEN place[2] ELSE 0

(* What a call does to a tree: what its visit of each node did, in the     *)
(* order in which it comes to them or in which it is done with them, until *)
(* one fails.                                                              *)
Visited(t, Before(_, _), did) ==
  LET failed     == {p \in DOMAIN t : did[p].err # "OK"}
      Reached(p) == \A q \in failed : ~Before(q, p)
  IN [tree |-> [p \in DOMAIN t |-> IF Reached(p) THEN did[p].node ELSE t[p]],
      err  |-> IF failed = {} THEN "OK" ELSE did[CHOOSE p \in failed : Reached(p)].err,
      wild |-> \E p \in DOMAIN t : Reached(p) /\ did[p].wild]
TopDown(t, did) == Visited(t, LAMBDA q, p : q < p, did)
DoneBefore(t, q, p) == t[q].last < t[p].last \/ (t[q].last = t[p].last /\ q > p)
BottomUp(t, did) == Visited(t, LAMBDA q, p : DoneBefore(t, q, p), did)
OnNode(t, p, c) == [tree |-> [t EXCEPT ![p] = c.node], err |-> c.err, wild |-> c.wild]

(* ArrowBufferReserve and ArrowBufferResize: a reallocation that fails     *)
(* leaves the buffer without its block.                                    *)
StillSized(node, b) ==                                         \* mutant
  [node EXCEPT !.caps[b] = 0, !.at[b] = [i \in DOMAIN @ |-> 0]]
Lose(node, b) == [node EXCEPT !.sizes[b] = 0, !.caps[b] = 0, !.at[b] = <<>>]
Reallocate(c, b, cap) ==
  IF c.fails = b THEN [c EXCEPT !.node = Lose(@, b), !.err = "ENOMEM"]
  ELSE [c EXCEPT !.node.caps[b] = cap]

GrowByFactor(current, wanted) == IF 2 * current > wanted THEN 2 * current ELSE wanted
BufferReserve(c, b, extra) ==
  LET wanted == c.node.sizes[b] + extra IN
    IF wanted <= c.node.caps[b] THEN c
    ELSE Reallocate(c, b, GrowByFactor(c.node.caps[b], wanted))
ShrinkBuffer(c, b) ==
  IF c.node.sizes[b] >= c.node.caps[b] THEN c
  ELSE IF c.node.sizes[b] = 0 THEN [c EXCEPT !.node.caps[b] = 0]
  ELSE Reallocate(c, b, c.node.sizes[b])

(* ArrowBufferAppend of items that take so many bytes.                     *)
BufferAppendUnsafe(c, b, items, bytes) ==
  LET size == c.node.sizes[b] + bytes IN
    [c EXCEPT !.node.at[b] = @ \o items, !.node.sizes[b] = size,
              !.wild = @ \/ size > c.node.caps[b]]
BufferAppend(c, b, items, bytes) ==
  Continue(BufferReserve(c, b, bytes), LAMBDA d : BufferAppendUnsafe(d, b, items, bytes))

(* ArrowBitmapReserve, ArrowBitmapAppendUnsafe on the validity bitmap.     *)
Repeat(x, n) == [i \in 1..n |-> x]
BitmapReserve(c, n) ==
  LET bytes == BytesForBits(Len(c.node.at[1]) + n) IN
    IF bytes <= c.node.caps[1] THEN c ELSE BufferReserve(c, 1, bytes - c.node.sizes[1])
BitmapAppendUnsafe(c, bit, n) ==
  LET bits == c.node.at[1] \o Repeat(bit, n) IN
    [c EXCEPT !.node.at[1] = bits, !.node.sizes[1] = BytesForBits(Len(bits)),
              !.wild = @ \/ (n > 0 /\ BytesForBits(Len(bits)) > c.node.caps[1])]
BitmapAppend(c, bit, n) ==
  Continue(BitmapReserve(c, n), LAMBDA d : BitmapAppendUnsafe(d, bit, n))

(* _ArrowArrayAppendBits, for bool arrays.                                 *)
AppendBits(c, value, n) ==
  LET node  == c.node
      extra == BytesForBits(node.length + 1) - node.sizes[2]
      room  == IF extra <= 0 THEN c ELSE BufferReserve(c, 2, extra)
  IN  Continue(room, LAMBDA d :
        [d EXCEPT !.node.sizes[2] = IF extra > 0 THEN @ + extra ELSE @,
                  !.node.at[2] = SubSeq(@, 1, node.length) \o Repeat(value, n),
                  !.wild = @ \/ BytesForBits(node.length + n) > d.node.caps[2]])

---------------------------------------------------------------------------
Width(node, b) == Bits(node, b) \div 8
OffsetAt(node, i) == node.at[2][i + 1]

(* One more element whose value was written: the bitmap, if there is one,  *)
(* and the length.                                                         *)
CountElement(c) ==
  LET marked == IF c.node.caps[1] # 0 THEN BitmapAppend(c, 1, 1) ELSE c IN
    Continue(marked, LAMBDA d : [d EXCEPT !.node.length = @ + 1])

(* ArrowArrayStartAppending: a first offset of 0. The root knows its type  *)
(* ids; the children of an array assume that they are 0, 1, ...            *)
KnownIds(node, is_root) == is_root => node.ids = [k \in DOMAIN node.kids |-> k - 1]
FirstOffset(c) ==
  IF Kind(c.node, 2) = "data_offset" THEN BufferAppend(c, 2, <<0>>, Width(c.node, 2)) ELSE c
StartAt(c, is_root) ==
  IF IsUnion(c.node) /\ ~KnownIds(c.node, is_root) THEN Refuse(c, "EINVAL") ELSE FirstOffset(c)
StartAppending(t, place) ==
  TopDown(t, [p \in DOMAIN t |-> StartAt(Begin(t[p], FailsAt(place, p)), p = 1)])

(* _ArrowArrayAppendEmptyInternal: the bits, then the fill of the buffers. *)
ForgetsOlder(c, n) == BitmapReserve(c, n)                      \* mutant
MakeBitmap(c, n) == BitmapReserve(c, c.node.length + n)
OlderAreNull(c, n, is_valid) ==                                \* mutant
  IF c.node.caps[1] # 0 THEN BitmapAppend(c, is_valid, n)
  ELSE IF is_valid = 1 THEN c
  ELSE Continue(MakeBitmap(c, n), LAMBDA d : BitmapAppendUnsafe(d, 0, d.node.length + n))
AppendValidity(c, n, is_valid) ==
  IF c.node.caps[1] # 0 THEN BitmapAppend(c, is_valid, n)
  ELSE IF is_valid = 1 THEN c
  ELSE Continue(MakeBitmap(c, n),
                LAMBDA d : BitmapAppendUnsafe(BitmapAppendUnsafe(d, 1, d.node.length), 0, n))
Fill(c, n) ==
  LET node == c.node IN
    CASE Kind(node, 2) = "data_offset" ->
           BufferAppend(c, 2, Repeat(OffsetAt(node, node.length), n), Width(node, 2) * n)
      [] node.type = "bool" -> AppendBits(c, 0, n)
      [] Kind(node, 2) = "data" /\ node.type # "bool" ->
           BufferAppend(c, 2, Repeat(0, n), Width(node, 2) * n)
      [] OTHER -> c
CountsTwice(c, n, is_valid) ==                                 \* mutant
  [c EXCEPT !.node.length = @ + n, !.node.null_count = @ + n]
CountElements(c, n, is_valid) ==
  [c EXCEPT !.node.length = @ + n, !.node.null_count = @ + n * (1 - is_valid)]

(* _ArrowArrayAppendEmptyInternal hands a count down to the children and   *)
(* whether the elements are valid; then the node gets its own.             *)
NoElements == [n |-> 0, is_valid |-> 1]
HandedOn(v, q, a) ==
  LET is_first == q = v.kids[1] IN
    IF a.n = 0 THEN NoElements ELSE
      CASE v.type = "dense_union" /\ is_first -> [a EXCEPT !.n = 1]
        [] v.type = "sparse_union" -> IF is_first THEN a ELSE [a EXCEPT !.is_valid = 1]
        [] v.type = "struct" -> [a EXCEPT !.is_valid = 1]
        [] v.type = "fixed_size_list" -> [n |-> a.n * ListSize, is_valid |-> 1]
        [] OTHER -> NoElements
Asked(t, first) ==
  LET asked[p \in DOMAIN t] ==
        IF p \in DOMAIN first THEN first[p]
        ELSE IF p = 1 THEN NoElements
        ELSE HandedOn(t[t[p].up], p, asked[t[p].up])
  IN  asked

TypeIds(c, id, n) == BufferAppend(c, 1, Repeat(id, n), n)
UnionOffset(c, length) == BufferAppend(c, 2, <<length - 1>>, 4)
UnionOffsets(c, length, n) ==
  LET done[i \in 0..n] ==
        IF i = 0 THEN c ELSE Continue(done[i - 1], LAMBDA d : UnionOffset(d, length))
  IN  done[n]

EmptyAt(t, p, asked, place) ==
  LET node     == t[p]
      n        == asked[p].n
      is_valid == asked[p].is_valid
      c        == Begin(node, FailsAt(place, p))
      own ==
        CASE node.type = "na"           -> c
          [] node.type = "sparse_union" -> TypeIds(c, 0, n)
          [] node.type = "dense_union"  ->
               Continue(TypeIds(c, 0, n), LAMBDA d :
                 UnionOffsets(d, t[node.kids[1]].length + asked[node.kids[1]].n, n))
          [] OTHER -> Continue(AppendValidity(c, n, is_valid), LAMBDA d : Fill(d, n))
  IN  IF n = 0 THEN c
      ELSE Continue(own, LAMBDA d :
             CountElements(d, n, IF node.type = "na" THEN 0 ELSE IF IsUnion(node) THEN 1 ELSE is_valid))
AppendEmpty(t, p, n, is_valid, place) ==
  LET asked == Asked(t, [q \in {p} |-> [n |-> n, is_valid |-> is_valid]]) IN
    BottomUp(t, [q \in DOMAIN t |-> EmptyAt(t, q, asked, place)])

(* ArrowArrayAppendInt, and AppendBytes of a string.                       *)
AppendInt(c, value) ==
  CASE c.node.type = "int16" ->
         IF value < IntMin \/ value > IntMax THEN Refuse(c, "EINVAL")
         ELSE Continue(BufferAppend(c, 2, <<value>>, 2), CountElement)
    [] c.node.type = "bool" ->
         Continue(AppendBits(c, IF value # 0 THEN 1 ELSE 0, 1), CountElement)
    [] OTHER -> Refuse(c, "EINVAL")

AppendBytes(c, text) ==
  LET offset == OffsetAt(c.node, c.node.length) + Len(text) IN
    IF c.node.type # "string" THEN Refuse(c, "EINVAL")
    ELSE IF offset > OffsetMax THEN Refuse(c, "EOVERFLOW")
    ELSE Continue(Continue(BufferAppend(c, 2, <<offset>>, 4),
                           LAMBDA d : BufferAppend(d, 3, text, Len(text))), CountElement)

(* ArrowArrayFinishElement.                                                *)
AnyLength(t, p) == TRUE                                        \* mutant
ChildrenReady(t, p) ==
  CASE t[p].type = "fixed_size_list" -> Kid(t, p, 1).length = (t[p].length + 1) * ListSize
    [] t[p].type = "struct" -> \A k \in DOMAIN t[p].kids : Kid(t, p, k).length = t[p].length + 1
    [] OTHER                -> FALSE
FinishElement(t, p, fails) ==
  LET c == Begin(t[p], fails) IN
    IF t[p].type = "list" THEN
      IF Kid(t, p, 1).length > OffsetMax THEN Refuse(c, "EOVERFLOW")
      ELSE Continue(BufferAppend(c, 2, <<Kid(t, p, 1).length>>, 4), CountElement)
    ELSE IF ~ChildrenReady(t, p) THEN Refuse(c, "EINVAL")
    ELSE CountElement(c)

(* ArrowArrayFinishUnionElement: the other children of a sparse union get  *)
(* an empty element, one after the other until one has the wrong length.   *)
Others(t, p, type_id) ==
  IF t[p].type = "sparse_union"
  THEN {t[p].kids[k] : k \in {l \in DOMAIN t[p].kids :
          l # type_id + 1 /\ Kid(t, p, l).length # t[p].length + 1}}
  ELSE {}
UnionElement(t, p, type_id, fails) ==
  LET c      == Begin(t[p], fails)
      length == Kid(t, p, type_id + 1).length
      room   == IF t[p].type = "sparse_union" THEN c
                ELSE IF length > OffsetMax THEN Refuse(c, "EINVAL")
                ELSE UnionOffset(c, length)
  IN  Continue(Continue(room, LAMBDA d : TypeIds(d, type_id, 1)),
               LAMBDA d : [d EXCEPT !.node.length = @ + 1])
FinishUnionElement(t, p, type_id, place) ==
  LET others == Others(t, p, type_id)
      behind == {q \in others : t[q].length = t[p].length}
      asked  == Asked(t, [q \in behind |-> [n |-> 1, is_valid |-> 1]])
      At(q)  ==
        IF q = p THEN UnionElement(t, p, type_id, FailsAt(place, p))
        ELSE IF q \in others \ behind THEN Refuse(Begin(t[q], 0), "EINVAL")
        ELSE EmptyAt(t, q, asked, place)
  IN  IF ~IsUnion(t[p]) \/ type_id + 1 \notin DOMAIN t[p].kids
      THEN OnNode(t, p, Refuse(Begin(t[p], 0), "EINVAL"))
      ELSE BottomUp(t, [q \in DOMAIN t |-> At(q)])

---------------------------------------------------------------------------
(* ArrowArrayViewInitFromArray reads lengths, sizes and contents.          *)
ZeroBased(s) == [i \in 0..(Len(s) - 1) |-> s[i + 1]]
Seen(t) ==
  [p \in DOMAIN t |->
    [type |-> t[p].type, offset |-> 0, length |-> t[p].length, null_count |-> t[p].null_count,
     sizes |-> t[p].sizes, types |-> IF IsUnion(t[p]) THEN ZeroBased(t[p].at[1]) ELSE <<>>,
     ints |-> IF Kind(t[p], 2) \in {"data_offset", "union_offset"} THEN ZeroBased(t[p].at[2]) ELSE <<>>,
     kids |-> t[p].kids, dict |-> t[p].dict, up |-> t[p].up, last |-> t[p].last]]

(* ArrowArrayReserve, ArrowArrayShrinkToFit, ArrowArrayFinalizeBuffers.    *)
OnBuffers(c, Do(_, _)) ==
  Continue(Continue(Do(c, 1), LAMBDA d : Do(d, 2)), LAMBDA d : Do(d, 3))
SameLength(node, n) == n                                       \* mutant
NewLength(node, n) == Wrapped(node.length + n)
ReserveAt(c, v) ==
  LET Grow(d, b) ==
        LET extra == v.sizes[b] - d.node.sizes[b] IN
          IF b > Buffers(d.node) \/ extra <= 0 \/ (Kind(d.node, b) = "validity" /\ d.node.caps[b] = 0)
          THEN d ELSE BufferReserve(d, b, extra)
  IN  OnBuffers(c, Grow)
Reserve(t, n, place) ==
  LET v == SetLength(InitFromArray(Seen(t)), NewLength(t[1], n)) IN
    TopDown(t, [p \in DOMAIN t |-> ReserveAt(Begin(t[p], FailsAt(place, p)), v[p])])

ShrinkToFit(t, place) ==
  TopDown(t, [p \in DOMAIN t |-> OnBuffers(Begin(t[p], FailsAt(place, p)), ShrinkBuffer)])

Allocate(c, b) ==
  IF Kind(c.node, b) \in {"validity", "none"} \/ c.node.caps[b] # 0 THEN c ELSE BufferReserve(c, b, 1)
FinalizeBuffers(t, place) ==
  TopDown(t, [p \in DOMAIN t |-> OnBuffers(Begin(t[p], FailsAt(place, p)), Allocate)])

(* ArrowArrayFinishBuilding validates the array as its buffers are.        *)
Accepts(t, level) == Validated(InitFromArray(Seen(t)), level).ok

---------------------------------------------------------------------------
NewNode(x) ==
  [type |-> x.type, ids |-> x.ids, length |-> 0, null_count |-> 0,
   sizes |-> <<0, 0, 0>>, caps |-> <<0, 0, 0>>, at |-> << <<>>, <<>>, <<>> >>,
   kids |-> x.kids, dict |-> x.dict, up |-> x.up, last |-> x.last]

(* What a caller keeps to: an element is appended to a child before the    *)
(* union says it has it, and the children that an empty element reaches    *)
(* have no element yet that is not finished.                               *)
Aligned(t, p) ==
  LET asked == Asked(t, [q \in {p} |-> [n |-> 1, is_valid |-> 1]]) IN
    \A q \in DOMAIN t : asked[q].n > 0 =>
      CASE t[q].type \in {"struct", "sparse_union"} ->
             \A k \in DOMAIN t[q].kids : Kid(t, q, k).length = t[q].length
        [] t[q].type = "fixed_size_list" -> Kid(t, q, 1).length = t[q].length * ListSize
        [] OTHER -> TRUE
HasElement(t, p, type_id) ==
  IsUnion(t[p]) /\ type_id + 1 \in DOMAIN t[p].kids =>
    LET length == Kid(t, p, type_id + 1).length IN
      IF t[p].type = "sparse_union" THEN length > t[p].length
      ELSE length > 0 /\ \A i \in 1..t[p].length :
             t[p].at[1][i] = type_id => t[p].at[2][i] < length - 1

Init ==
  /\ \E b \in Builds :
       tree = [p \in DOMAIN b[1] |-> NewNode(b[1][p])] /\ counts = b[2] /\ calls = b[3]
  /\ finished = FALSE /\ damaged = FALSE /\ wild = FALSE
  /\ last = [call |-> "init", node |-> 1, arg |-> 0, err |-> "OK"]

(* A bound: no memory holds, and no caller lives to append, more elements  *)
(* than int64 counts.                                                      *)
Countable(t) == \A p \in DOMAIN t : t[p].length <= Int64Max

Started == last.call # "init" /\ ~(last.call = "start" /\ last.err # "OK")
Result(call, p, arg, r) ==
  /\ Countable(r.tree) /\ tree' = r.tree
  /\ last' = [call |-> call, node |-> p, arg |-> arg, err |-> r.err]
  /\ damaged' = (damaged \/ r.err = "ENOMEM") /\ wild' = (wild \/ r.wild)
  /\ UNCHANGED counts

Start ==
  /\ last.call = "init"
  /\ \E place \in Failures(1) : Result("start", 1, 0, StartAppending(tree, place))
  /\ UNCHANGED <<calls, finished>>

(* After ENOMEM no call is safe but the last one.                          *)
May ==
  /\ Started /\ ~finished /\ ~damaged /\ calls > 0
  /\ calls' = calls - 1 /\ UNCHANGED finished

AppendNulls ==
  /\ May
  /\ \E p \in DOMAIN tree, n \in counts : \E place \in Failures(p) :
       Aligned(tree, p) /\ Result("null", p, n, AppendEmpty(tree, p, n, 0, place))
AppendEmpties ==
  /\ May
  /\ \E p \in DOMAIN tree, n \in counts : \E place \in Failures(p) :
       Aligned(tree, p) /\ Result("empty", p, n, AppendEmpty(tree, p, n, 1, place))
AppendAnInt ==
  /\ May
  /\ \E p \in DOMAIN tree, i \in Ints : \E fails \in 0..Buffers(tree[p]) :
       Result("int", p, i, OnNode(tree, p, AppendInt(Begin(tree[p], fails), i)))
AppendText ==
  /\ May
  /\ \E p \in DOMAIN tree, x \in Texts : \E fails \in 0..Buffers(tree[p]) :
       Result("bytes", p, x, OnNode(tree, p, AppendBytes(Begin(tree[p], fails), x)))
Finish ==
  /\ May
  /\ \E p \in DOMAIN tree : \E fails \in 0..Buffers(tree[p]) :
       Result("finish", p, 0, OnNode(tree, p, FinishElement(tree, p, fails)))
FinishUnion ==
  /\ May
  /\ \E p \in DOMAIN tree : \E id \in 0..Len(tree[p].kids), place \in Failures(p) :
       /\ HasElement(tree, p, id)
       /\ Result("union", p, id, FinishUnionElement(tree, p, id, place))
ReserveMore ==
  /\ May
  /\ \E n \in Reserved, place \in Failures(1) : Result("reserve", 1, n, Reserve(tree, n, place))
Shrink ==
  /\ May
  /\ \E place \in Failures(1) : Result("shrink", 1, 0, ShrinkToFit(tree, place))

Finalized(level, place) ==
  IF level < Default THEN [tree |-> tree, err |-> "OK", wild |-> FALSE]
  ELSE FinalizeBuffers(tree, place)
FinishBuilding ==
  /\ Started /\ ~finished
  /\ finished' = TRUE
  /\ \E level \in None..Full : \E place \in IF level < Default THEN {NoFailure} ELSE Failures(1) :
       LET r == Finalized(level, place) IN
         Result("build", 1, level,
                Continue(r, LAMBDA s : IF Accepts(s.tree, level) THEN s ELSE Refuse(s, "EINVAL")))
  /\ UNCHANGED calls

Next ==
  \/ Start \/ AppendNulls \/ AppendEmpties \/ AppendAnInt \/ AppendText
  \/ Finish \/ FinishUnion \/ ReserveMore \/ Shrink \/ FinishBuilding
Spec == Init /\ [][Next]_vars

---------------------------------------------------------------------------
(* Every write lands inside its buffer: what each call reserves is what it *)
(* then writes without a check, nulls before the first bitmap included.    *)
WritesInside ==
  /\ ~wild
  /\ \A p \in DOMAIN tree, b \in 1..3 : tree[p].sizes[b] \in 0..tree[p].caps[b]

(* However it was built, refusals included, an array whose allocations     *)
(* succeeded is accepted at every level. Full validation of a union needs  *)
(* the schema.                                                             *)
HasUnion == \E p \in DOMAIN tree : IsUnion(tree[p])
AlwaysAcceptable ==
  Started /\ ~damaged => Accepts(tree, IF HasUnion THEN Default ELSE Full)

(* "error only when StartAppending is called": a union whose type ids are   *)
(* not the positions of its children is not appended to.                   *)
OtherIdsAreRefused ==
  Started => \A p \in DOMAIN tree : IsUnion(tree[p]) => KnownIds(tree[p], TRUE)

(* null_count is the number of nulls a reader finds.                       *)
IsNull(node, i) ==
  node.type = "na" \/ (~IsUnion(node) /\ node.at[1] # <<>> /\ node.at[1][i + 1] = 0)
NullsAreCounted ==
  ~damaged =>
    \A p \in DOMAIN tree :
      tree[p].null_count = Cardinality({i \in 0..(tree[p].length - 1) : IsNull(tree[p], i)})

(* After ArrowArrayReserve, so many fixed-size elements more need no       *)
(* reallocation: sizes that can be calculated are reserved recursively.    *)
(* For so many as leave all sizes in int64.                                *)
SizesFit(t, n) ==
  LET lengths == AskedLengths(InitFromArray(Seen(t)), n) IN
    /\ n <= Int64Max
    /\ \A p \in DOMAIN t : lengths[p] # NotAsked =>
         /\ \A b \in 1..3 : MinSize(t[p], b, lengths[p]) = Needed(t[p], b, lengths[p])
         /\ t[p].type = "fixed_size_list" => InChild(lengths[p]) = lengths[p] * ListSize
HasDense == \E p \in DOMAIN tree : tree[p].type = "dense_union"
ReservedIsEnough ==
  last.call = "reserve" /\ last.err = "OK" /\ ~HasDense /\ Aligned(tree, 1)
      /\ SizesFit(tree, tree[1].length + last.arg) =>
    \A place \in Failures(1) : AppendEmpty(tree, 1, last.arg, 1, place).err = "OK"
=============================================================================
