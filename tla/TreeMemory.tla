----------------------------- MODULE TreeMemory -----------------------------
(***************************************************************************)
(* Who owns the memory of the ArrowSchema, ArrowArrayView and ArrowArray   *)
(* trees when any allocation may fail: nanoarrow_c_schema_init and         *)
(* nanoarrow_c_array_set_schema (src/src/borrowed.cpp), and below them     *)
(* ArrowSchemaInitFromType, ArrowSchemaDeepCopy,                           *)
(* ArrowArrayViewInitFromSchema, ArrowArrayInitFromSchema and the releases *)
(* (src/src/nanoarrow/nanoarrow.c).                                        *)
(*                                                                         *)
(* A node is a tree and a path: <<>> is the root, k the k-th child, 0 the  *)
(* dictionary. A block of the heap is a node and what it is allocated for. *)
(* A call that allocates is an operator from a memory to the set of the    *)
(* memories it may leave, one for each allocation that fails first.        *)
(***************************************************************************)
EXTENDS Integers, Sequences, FiniteSets, SequencesExt

CONSTANTS
  Types,        \* types R asks nanoarrow_c_schema_init for
  Shapes,       \* shapes of the schemas R imports: finite sets of paths
  Unions        \* the paths at which a schema is a union

Trees == {"schema", "copy", "array", "view", "init_view"}

(* A type's children, as the calls InitChildrenIfNeeded makes.             *)
Program == [
  flat |-> <<>>,
  list |-> << <<"children", <<>>, 1>>, <<"init", <<1>>>>, <<"name", <<1>>>> >>,
  map  |-> << <<"children", <<>>, 1>>, <<"init", <<1>>>>, <<"format", <<1>>>>,
              <<"name", <<1>>>>, <<"children", <<1>>, 2>>, <<"init", <<1, 1>>>>,
              <<"init", <<1, 2>>>>, <<"name", <<1, 1>>>>, <<"name", <<1, 2>>>> >>,
  run_end_encoded |->
           << <<"children", <<>>, 2>>, <<"init", <<1>>>>, <<"name", <<1>>>>,
              <<"init", <<2>>>>, <<"name", <<2>>>> >>]
Initialised(type) ==
  {<<>>} \cup {Program[type][k][2] : k \in {l \in DOMAIN Program[type] : Program[type][l][1] = "init"}}

Paths == {<<>>} \cup (UNION Shapes) \cup UNION {Initialised(type) : type \in Types}
Children(sh, p) == {Last(q) : q \in {r \in sh : r # <<>> /\ Front(r) = p}} \ {0}
Arity(sh, p) == Cardinality(Children(sh, p))
HasDictionary(sh, p) == Append(p, 0) \in sh

(* With a node all those above it, and with a child those before it.       *)
IsShape(sh) ==
  /\ IsFiniteSet(sh) /\ sh \subseteq Seq(Nat) /\ <<>> \in sh
  /\ \A p \in sh : \A l \in 0..Len(p) : SubSeq(p, 1, l) \in sh
  /\ \A p \in sh : Children(sh, p) = 1..Arity(sh, p)

ASSUME TypesAssumption  == Types \subseteq DOMAIN Program
ASSUME ShapesAssumption == \A sh \in Shapes : IsShape(sh)

VARIABLES
  mem,          \* the nodes and the heap
  shape,        \* the shape each tree was made for
  ready,        \* did the call that made the schema succeed?
  tag,          \* does the array's external pointer hold the schema?
  failed,       \* which calls have failed so far
  crashed       \* undefined behaviour happened

vars == <<mem, shape, ready, tag, failed, crashed>>

---------------------------------------------------------------------------
(* Memories. A node: is its release callback set (is the view initialised),*)
(* the strings or private data it holds, n_children, the array of child    *)
(* pointers, the children in it that are not NULL, the dictionary.         *)

What  == {"struct", "children", "format", "name", "metadata", "private_data",
          "buffer_data", "union_type_id_map"}
Nodes == [up : BOOLEAN, held : SUBSET (What \ {"struct", "children"}), n : Nat,
          table : BOOLEAN, kids : SUBSET Nat, dict : BOOLEAN]
Memories == [nodes : [Trees -> [Paths -> Nodes]], heap : SUBSET (Trees \X Paths \X What),
             broken : BOOLEAN, ok : BOOLEAN]

Released == [up |-> FALSE, held |-> {}, n |-> 0, table |-> FALSE, kids |-> {}, dict |-> FALSE]
Empty    == [Released EXCEPT !.up = TRUE]
Clear    == [nodes |-> [t \in Trees |-> [p \in Paths |-> Released]],
             heap |-> {}, broken |-> FALSE, ok |-> TRUE]

Node(s, t, p) == s.nodes[t][p]
SetNode(s, t, p, node) == [s EXCEPT !.nodes[t][p] = node]
Fail(s) == [s EXCEPT !.ok = FALSE]

(* A block allocated twice, or freed when it is not allocated, is a bug.   *)
Take(s, blocks) ==
  [s EXCEPT !.heap = @ \cup blocks, !.broken = @ \/ blocks \cap s.heap # {}]
Free(s, blocks) ==
  [s EXCEPT !.heap = @ \ blocks, !.broken = @ \/ ~(blocks \subseteq s.heap)]

(* Sequential composition: NANOARROW_RETURN_NOT_OK, and a cleanup.         *)
Then(results, Do(_))     == UNION {IF s.ok THEN Do(s) ELSE {s} : s \in results}
OrElse(results, Undo(_)) == {IF s.ok THEN s ELSE Fail(Undo(s)) : s \in results}
(* The calls do[1], do[2] and so on, each a function of the memory.        *)
InTurn(results, n, do) ==
  LET after[k \in 0..n] ==
        IF k = 0 THEN results ELSE Then(after[k - 1], LAMBDA s : do[k][s])
  IN  after[n]

(* The nodes a release that starts at p visits: those it reaches through   *)
(* initialised nodes, the children below n_children only.                  *)
Step(s, t, p, k) ==
  LET node == Node(s, t, p) IN
    node.up /\ IF k = 0 THEN node.dict ELSE node.table /\ k \in node.kids /\ k <= node.n
Owns(s, t, p, q) ==
  IsPrefix(p, q) /\ \A l \in Len(p)..(Len(q) - 1) : Step(s, t, SubSeq(q, 1, l), q[l + 1])
Blocks(s, t, p) ==
  LET reached == {q \in Paths : Owns(s, t, p, q)}
      live    == {q \in reached : Node(s, t, q).up} IN
    {<<t, q, "struct">> : q \in reached \ {p}}
    \cup {<<t, q, "children">> : q \in {r \in live : Node(s, t, r).table}}
    \cup UNION {{<<t, q, what>> : what \in Node(s, t, q).held} : q \in live}

(* ArrowSchemaReleaseInternal, ArrowArrayReleaseInternal.                  *)
ReleasedUnmarked(s, t, p) == Free(s, Blocks(s, t, p))          \* mutant
Release(s, t, p) ==
  [Free(s, Blocks(s, t, p)) EXCEPT
     !.nodes[t] = [q \in Paths |-> IF IsPrefix(p, q) THEN Released ELSE @[q]]]

(* ArrowArrayViewReset leaves a view that is initialised and empty.        *)
Reset(s, t, p) == SetNode(Release(s, t, p), t, p, Empty)

---------------------------------------------------------------------------
(* The calls the operations are made of.                                   *)

(* ArrowSchemaInit, ArrowArrayViewInitFromType: what the node held is not  *)
(* looked at.                                                              *)
InitNode(s, t, p) == SetNode(s, t, p, Empty)

(* ArrowSchemaSetFormat, SetName and SetMetadata: the old string is freed, *)
(* then a new one allocated or the member left NULL.                       *)
SetString(s, t, p, what) ==
  LET held == Node(s, t, p).held
      old  == SetNode(Free(s, {<<t, p, w>> : w \in held \cap {what}}), t, p,
                      [Node(s, t, p) EXCEPT !.held = @ \ {what}]) IN
    {Take([old EXCEPT !.nodes[t][p].held = @ \cup {what}], {<<t, p, what>>}), Fail(old)}

(* ArrowSchemaAllocateChildren, ArrowArrayViewAllocateChildren and         *)
(* ArrowArrayAllocateChildren: of n children, got could be allocated. The  *)
(* last one only sets n_children when it has them all.                     *)
CountsLater(t) == FALSE                                        \* mutant
CountsFirst(t) == t # "array"
WithChildren(s, t, p, n, got) ==
  LET node == [Node(s, t, p) EXCEPT
                 !.table = TRUE, !.kids = 1..got,
                 !.n = IF CountsFirst(t) \/ got = n THEN n ELSE @]
      new  == {Append(p, k) : k \in 1..got}
      took == Take(s, {<<t, p, "children">>} \cup {<<t, q, "struct">> : q \in new}) IN
    [took EXCEPT
       !.nodes[t] = [q \in Paths |->
          IF q = p THEN node
          ELSE IF q \in new
          THEN IF t \in {"view", "init_view"} THEN Empty ELSE Released
          ELSE @[q]],
       !.ok = (got = n)]
AllocateChildren(s, t, p, n) ==
  IF Node(s, t, p).table THEN {Fail(s)}
  ELSE IF n = 0 THEN {s}
  ELSE {Fail(s)} \cup {WithChildren(s, t, p, n, got) : got \in 0..n}

(* ArrowSchemaAllocateDictionary and its like for views and arrays.        *)
AllocateDictionary(s, t, p) ==
  LET q    == Append(p, 0)
      took == Take([s EXCEPT !.nodes[t][p].dict = TRUE], {<<t, q, "struct">>}) IN
    {Fail(s), SetNode(took, t, q, IF t \in {"view", "init_view"} THEN Empty ELSE Released)}

---------------------------------------------------------------------------
(* A tree made for a shape: ArrowSchemaDeepCopy, ArrowArrayView-           *)
(* InitFromSchema, ArrowArrayInitFromArrayView. They differ in how a node  *)
(* begins; the first failure releases the node, in turn from the inside    *)
(* out, and the outer node finds the inner one released.                   *)

(* ArrowSchemaViewInit may reject the schema of a node before the view of  *)
(* it is initialised. An array whose private data cannot be allocated is   *)
(* marked released.                                                        *)
BeginNode(s, t, p) ==
  CASE t = "copy" ->
         Then(Then(SetString(InitNode(s, t, p), t, p, "format"),
                   LAMBDA x : SetString(x, t, p, "name")),
              LAMBDA x : SetString(x, t, p, "metadata"))
    [] t \in {"view", "init_view"} -> {Fail(s), InitNode(s, t, p)}
    [] t = "array" ->
         {Fail(SetNode(s, t, p, Released)),
          Take(SetNode(s, t, p, [Empty EXCEPT !.held = {"private_data", "buffer_data"}]),
               {<<t, p, "private_data">>, <<t, p, "buffer_data">>})}

UndoNothing(s, t, p) == s                                      \* mutant
Undo(s, t, p) ==
  CASE t \in {"view", "init_view"} -> Reset(s, t, p)
    [] OTHER -> Release(s, t, p)

(* Last, the map from type ids to children of a view of a union. When it   *)
(* cannot be allocated the view is not reset here, but by an outer view.   *)
TypeIdMap(s, t, p) ==
  IF t \in {"view", "init_view"} /\ p \in Unions
  THEN {Fail(s), Take([s EXCEPT !.nodes[t][p].held = {"union_type_id_map"}],
                      {<<t, p, "union_type_id_map">>})}
  ELSE {s}

(* One node, and below it the others.                                      *)
MakeNode(s, t, p, sh, below) ==
  LET n == Arity(sh, p)
      children(x) == InTurn(AllocateChildren(x, t, p, n), n,
                            [k \in 1..n |-> below[Append(p, k)]])
      dictionary(x) == IF HasDictionary(sh, p)
                       THEN Then(AllocateDictionary(x, t, p), LAMBDA y : below[Append(p, 0)][y])
                       ELSE {x}
      undo(x) == Undo(x, t, p)
  IN  IF t = "copy"
      THEN OrElse(Then(Then(BeginNode(s, t, p), children), dictionary), undo)
      ELSE Then(BeginNode(s, t, p),
                LAMBDA b : Then(OrElse(Then(children(b), dictionary), undo),
                                LAMBDA x : TypeIdMap(x, t, p)))

(* The calls nest at most as deep as the shape has nodes.                  *)
MakeTree(s, t, p, sh) ==
  LET make[d \in 0..Cardinality(sh)] ==
        [q \in sh |-> [x \in Memories |->
           IF d = 0 THEN {} ELSE MakeNode(x, t, q, sh, make[d - 1])]]
  IN  make[Cardinality(sh)][p][s]

(* ArrowSchemaInitFromType, then the name nanoarrow_c_schema_init gives.   *)
Call(s, c) ==
  CASE c[1] = "children" -> AllocateChildren(s, "schema", c[2], c[3])
    [] c[1] = "init"     -> {InitNode(s, "schema", c[2])}
    [] OTHER             -> SetString(s, "schema", c[2], c[1])
InitFromType(s, type) ==
  OrElse(InTurn(SetString(InitNode(s, "schema", <<>>), "schema", <<>>, "format"),
                Len(Program[type]),
                [k \in DOMAIN Program[type] |-> [x \in Memories |-> Call(x, Program[type][k])]]),
         LAMBDA x : Release(x, "schema", <<>>))

---------------------------------------------------------------------------
Init ==
  /\ mem = Clear
  /\ shape = [t \in {"schema", "copy", "array"} |-> {<<>>}]
  /\ ready = FALSE /\ tag = FALSE /\ failed = {} /\ crashed = FALSE

Up(t) == Node(mem, t, <<>>).up
Failing(s, what) == IF s.ok THEN failed ELSE failed \cup {what}

(* nanoarrow_c_schema_init: on an error R gets no schema, but the external *)
(* pointer that was to own it is finalized all the same.                   *)
SchemaInit ==
  /\ ~crashed /\ ~Up("schema")
  /\ \E type \in Types :
       \E s \in Then(InitFromType(mem, type),
                     LAMBDA x : SetString(x, "schema", <<>>, "name")) :
         /\ mem' = [s EXCEPT !.ok = TRUE]
         /\ ready' = s.ok /\ failed' = Failing(s, "schema_init")
         /\ shape' = [shape EXCEPT !["schema"] = Initialised(type)]
  /\ UNCHANGED <<tag, crashed>>

(* R imports a schema from elsewhere, whole.                               *)
SchemaImport ==
  /\ ~crashed /\ ~Up("schema")
  /\ \E sh \in Shapes :
       LET node(p) == [up |-> TRUE, held |-> {"format"}, n |-> Arity(sh, p),
                       table |-> Arity(sh, p) > 0, kids |-> 1..Arity(sh, p),
                       dict |-> HasDictionary(sh, p)]
           made == [mem EXCEPT !.nodes["schema"] =
                      [p \in Paths |-> IF p \in sh THEN node(p) ELSE Released]] IN
         /\ mem' = Take(made, Blocks(made, "schema", <<>>))
         /\ shape' = [shape EXCEPT !["schema"] = sh]
  /\ ready' = TRUE
  /\ UNCHANGED <<tag, failed, crashed>>

(* ArrowSchemaDeepCopy of the schema (get_schema of a basic array stream). *)
SchemaDeepCopy ==
  /\ ~crashed /\ Up("schema") /\ ready /\ ~Up("copy")
  /\ \E s \in MakeTree(mem, "copy", <<>>, shape["schema"]) :
       mem' = [s EXCEPT !.ok = TRUE] /\ failed' = Failing(s, "copy")
  /\ shape' = [shape EXCEPT !["copy"] = shape["schema"]]
  /\ UNCHANGED <<ready, tag, crashed>>

(* ArrowArrayInitFromSchema: a view of the schema first, which is reset at *)
(* the end, but not when the array cannot be made. The array of buffer     *)
(* pointers is written to without a look at what ArrowMalloc returned.     *)
(* Bound: one failure, so that a block lost is not named again.            *)
ArrayInit ==
  /\ ~crashed /\ Up("schema") /\ ready /\ ~Up("array") /\ "array_init" \notin failed
  /\ \E s \in Then(MakeTree(mem, "init_view", <<>>, shape["schema"]),
                   LAMBDA v : Then(MakeTree(v, "array", <<>>, shape["schema"]),
                                   LAMBDA a : {Reset(a, "init_view", <<>>)})) :
       mem' = [s EXCEPT !.ok = TRUE] /\ failed' = Failing(s, "array_init")
  /\ shape' = [shape EXCEPT !["array"] = shape["schema"]]
  /\ crashed' \in BOOLEAN
  /\ UNCHANGED <<ready, tag>>

(* nanoarrow_c_array_set_schema. A view of the root that was rejected      *)
(* before it was initialised is reset all the same: its members are what   *)
(* the stack held.                                                         *)
SetSchema ==
  /\ ~crashed /\ Up("schema") /\ ready /\ Up("array")
  /\ \E s \in MakeTree([mem EXCEPT !.nodes["view"][<<>>] = Released], "view", <<>>, shape["schema"]) :
       /\ IF s.ok \/ Node(s, "view", <<>>).up
          THEN mem' = [Reset(s, "view", <<>>) EXCEPT !.ok = TRUE] /\ UNCHANGED crashed
          ELSE mem' = [s EXCEPT !.ok = TRUE] /\ crashed' \in BOOLEAN
       /\ tag' \in IF s.ok THEN {TRUE, tag} ELSE {tag}
       /\ failed' = Failing(s, "set_schema")
  /\ UNCHANGED <<shape, ready>>
SetSchemaUnchecked ==
  /\ ~crashed /\ Up("array")
  /\ tag' \in IF Up("schema") /\ ready THEN BOOLEAN ELSE {FALSE}
  /\ UNCHANGED <<mem, shape, ready, failed, crashed>>

(* The owner of a tree releases it; the schema not while an array's tag    *)
(* keeps it from R's garbage collector. The tag goes with the array.       *)
ReleaseTree ==
  /\ ~crashed
  /\ \E t \in {"schema", "copy", "array"} :
       /\ Up(t) /\ (t = "schema" => ~tag)
       /\ mem' = Release(mem, t, <<>>)
       /\ tag' = (tag /\ t # "array")
       /\ ready' = (ready /\ t # "schema")
  /\ UNCHANGED <<shape, failed, crashed>>

Next ==
  \/ SchemaInit \/ SchemaImport \/ SchemaDeepCopy \/ ArrayInit
  \/ SetSchema \/ SetSchemaUnchecked \/ ReleaseTree
Spec == Init /\ [][Next]_vars

---------------------------------------------------------------------------
(* No block is freed twice, nor its only pointer overwritten, whichever    *)
(* allocation fails and however deep in the tree.                          *)
NothingFreedTwice == ~mem.broken

(* Every block allocated can be reached from a tree that its owner will    *)
(* release: a call that fails, and a view on the stack of a call that has  *)
(* returned, keep nothing. ArrowArrayInitFromSchema that fails is the      *)
(* exception: it loses its view, and child structs of an array whose       *)
(* n_children was not set yet, but never private data or buffers.          *)
Reachable == UNION {Blocks(mem, t, <<>>) : t \in {"schema", "copy", "array"}}
LostByInit(b) == b[1] = "init_view" \/ (b[1] = "array" /\ b[3] = "struct")
NothingLost ==
  /\ Reachable \subseteq mem.heap
  /\ \A b \in mem.heap \ Reachable : "array_init" \in failed /\ LostByInit(b)

(* A tree a call reports as made has a node for each node of its schema.   *)
TreesAreWhole ==
  \A t \in {"schema", "copy", "array"} :
    Up(t) /\ (t = "schema" => ready) =>
      {p \in Paths : Owns(mem, t, <<>>, p) /\ Node(mem, t, p).up} = shape[t]
=============================================================================
