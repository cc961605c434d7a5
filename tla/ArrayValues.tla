---------------------------- MODULE ArrayValues ----------------------------
(***************************************************************************)
(* What a reader finds in an array that ArrayBuilder builds, by position,  *)
(* and what the calls promise to append.                                   *)
(***************************************************************************)
EXTENDS ArrayBuilder

(* What the elements of an array are to a reader: the bitmap if there is   *)
(* one, then the buffers, then the children.                               *)
Null == <<"null">>
RECURSIVE Read(_, _, _)
Read(t, p, i) ==
  LET node == t[p]
      Run(from, to) == [j \in 1..(to - from) |-> Read(t, node.kids[1], from + j - 1)]
      Member(at) == <<"member", node.at[1][i + 1], Read(t, node.kids[node.at[1][i + 1] + 1], at)>>
  IN  IF IsNull(node, i) THEN Null ELSE
      CASE node.type \in {"int16", "bool"} -> <<"int", node.at[2][i + 1]>>
        [] node.type = "string"          -> <<"text", SubSeq(node.at[3], OffsetAt(node, i) + 1, OffsetAt(node, i + 1))>>
        [] node.type = "list"            -> <<"items", Run(OffsetAt(node, i), OffsetAt(node, i + 1))>>
        [] node.type = "fixed_size_list" -> <<"items", Run(i * ListSize, (i + 1) * ListSize)>>
        [] node.type = "struct"          -> <<"row", [k \in DOMAIN node.kids |-> Read(t, node.kids[k], i)]>>
        [] node.type = "sparse_union"    -> Member(i)
        [] node.type = "dense_union"     -> Member(node.at[2][i + 1])
Values(t, p) == [i \in 1..t[p].length |-> Read(t, p, i - 1)]

RECURSIVE EmptyOf(_, _), NullOf(_, _)
EmptyOf(t, p) ==
  LET kids == t[p].kids IN
    CASE t[p].type \in {"int16", "bool"} -> <<"int", 0>>
      [] t[p].type = "string"          -> <<"text", <<>> >>
      [] t[p].type = "list"            -> <<"items", <<>> >>
      [] t[p].type = "fixed_size_list" -> <<"items", Repeat(EmptyOf(t, kids[1]), ListSize)>>
      [] t[p].type = "struct"          -> <<"row", [k \in DOMAIN kids |-> EmptyOf(t, kids[k])]>>
      [] t[p].type = "na"              -> Null
      [] OTHER                         -> <<"member", 0, EmptyOf(t, kids[1])>>
NullOf(t, p) == IF IsUnion(t[p]) THEN <<"member", 0, NullOf(t, t[p].kids[1])>> ELSE Null

(* The element that is finished by a call: what was appended to the        *)
(* children since the last one.                                            *)
Pending(t, p) ==
  LET node  == t[p]
      items == Values(t, node.kids[1]) IN
    CASE node.type = "list"            -> <<"items", SubSeq(items, OffsetAt(node, node.length) + 1, Len(items))>>
      [] node.type = "fixed_size_list" -> <<"items", SubSeq(items, node.length * ListSize + 1, Len(items))>>
      [] node.type = "struct"          -> <<"row", [k \in DOMAIN node.kids |-> Values(t, node.kids[k])[node.length + 1]]>>
PendingIn(t, p, type_id) ==
  LET kid == t[p].kids[type_id + 1] IN
    <<"member", type_id, Read(t, kid, IF t[p].type = "dense_union" THEN t[kid].length - 1 ELSE t[p].length)>>

(* A call that succeeds appends what it says, and one that refuses appends *)
(* nothing to the node it was called on.                                   *)
Appended(p) ==
  CASE last'.call = "null"   -> Repeat(NullOf(tree, p), last'.arg)
    [] last'.call = "empty"  -> Repeat(EmptyOf(tree, p), last'.arg)
    [] last'.call = "int"    -> << <<"int", IF tree[p].type = "bool" /\ last'.arg # 0 THEN 1 ELSE last'.arg>> >>
    [] last'.call = "bytes"  -> << <<"text", last'.arg>> >>
    [] last'.call = "finish" -> <<Pending(tree, p)>>
    [] last'.call = "union"  -> <<PendingIn(tree, p, last'.arg)>>
    [] OTHER                 -> <<>>
CallsAppendWhatTheySay ==
  [][~damaged' =>
       LET p == last'.node
           added == IF last'.err = "OK" THEN Appended(p) ELSE <<>>
       IN  Values(tree', p) = Values(tree, p) \o added]_vars

(* Appending never changes an element there was, of the array or of any of *)
(* its children, unless the array would not be accepted any more: what a   *)
(* failed allocation destroys cannot pass for an array.                    *)
ElementsStay ==
  [][Accepts(tree', Default) =>
       \A p \in DOMAIN tree : IsPrefix(Values(tree, p), Values(tree', p))]_vars
=============================================================================
