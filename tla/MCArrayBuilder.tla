--------------------------- MODULE MCArrayBuilder ---------------------------
(* A schema of every layout, alone and inside another, and the counts its  *)
(* owner appends nulls with: nine of them fill more than a byte of bits.   *)
(* The bits of a bool array stay within one byte: an append of several     *)
(* empty elements across a byte reserves room for the first of them only.  *)
EXTENDS ArrayValues, MCTrees

Schema(type, kids) ==
  [type |-> type, kids |-> kids, dict |-> <<>>, ids |-> [k \in DOMAIN kids |-> k - 1]]
Leaf(type) == Schema(type, <<>>)

OtherIds == [Schema("sparse_union", <<Leaf("int16"), Leaf("int16")>>) EXCEPT !.ids = <<5, 7>>]

Low == -5
SmallTexts == {<<>>, <<"b", "c">>}

Laid(builds) == {<<Tree(b[1]), b[2], b[3]>> : b \in builds}
SmallBuilds == Laid(
  {<<Leaf("na"), {2}, 2>>, <<Leaf("bool"), {1, 2}, 3>>, <<Leaf("string"), {0, 1, 9}, 3>>,
   <<Leaf("int16"), {1, 9}, 3>>,
   <<Schema("list", <<Leaf("int16")>>), {1}, 4>>,
   <<Schema("fixed_size_list", <<Leaf("int16")>>), {1}, 3>>,
   <<Schema("struct", <<Leaf("bool"), Leaf("string")>>), {1}, 3>>,
   <<Schema("sparse_union", <<Leaf("int16"), Leaf("na")>>), {1}, 4>>,
   <<Schema("dense_union", <<Leaf("int16"), Leaf("na")>>), {2}, 3>>,
   <<Schema("struct", <<Schema("dense_union", <<Leaf("bool")>>)>>), {1}, 3>>,
   <<OtherIds, {1}, 1>>})

(* A union with type ids 5 and 7 inside a struct. *)
NestedUnion == Laid({<<Schema("struct", <<OtherIds>>), {1}, 1>>})
=============================================================================
