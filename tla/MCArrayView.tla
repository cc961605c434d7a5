----------------------------- MODULE MCArrayView -----------------------------
(* Small arrays of every layout for ArrayView: up to two elements at an    *)
(* offset of at most one, a root and its children, contents that may be    *)
(* out of order or out of range, buffers that may be missing or, in an     *)
(* array that is being built, too short. And some that are long enough to  *)
(* meet the limit of int64, which is 127 here.                             *)
EXTENDS ArrayView, MCTrees

(* Contents: functions from 0..n-1.                                        *)
Contents(n, values) == [0..(n - 1) -> values]

Array(type, length, offset, sizes, types, ints, kids, ids) ==
  [type |-> type, length |-> length, offset |-> offset, null_count |-> 0,
   n_buffers |-> Cardinality({b \in 1..3 : Layout[type][b][1] # "none"}),
   sizes |-> sizes, types |-> types, ints |-> ints, kids |-> kids, dict |-> <<>>, ids |-> ids]
Leaf(length)   == Array("bool", length, 0, <<0, IF length = 0 THEN 0 ELSE 1, 0>>, <<>>, <<>>, <<>>, <<>>)
Ends(length, offset, ints) ==
  Array("int16", length, offset, <<0, 2 * Cardinality(DOMAIN ints), 0>>, <<>>, ints, <<>>, <<>>)
Zeros(bytes) == [i \in 0..((bytes \div 2) - 1) |-> 0]

Slices == {<<0, 0>>, <<0, 1>>, <<1, 0>>, <<1, 1>>, <<2, 0>>}

Flats ==
  {[Array("int16", s[1], s[2], <<v, d, 0>>, <<>>, Zeros(d), <<>>, <<>>) EXCEPT !.null_count = c] :
     s \in Slices \cup {<<-1, 0>>, <<0, -1>>}, v \in {0, 1}, d \in {0, 2, 4}, c \in {-1, 0, 1}}
  \cup {Array("bool", s[1], s[2], <<0, 1, 0>>, <<>>, <<>>, <<>>, <<>>) : s \in Slices}
  \cup {Array("na", 2, 0, <<0, 0, 0>>, <<>>, <<>>, <<>>, <<>>)}
Strings ==
  UNION {{Array(type, s[1], s[2], <<0, n * (Layout[type][2][2] \div 8), d>>, <<>>, ints, <<>>, <<>>) :
            ints \in Contents(n, {-2, 0, 1, 2})} :
           type \in {"string", "large_string"}, s \in Slices, n \in 0..3, d \in {0, 2}}
Lists ==
  UNION {{Array("list", s[1], s[2], <<0, 4 * n, 0>>, <<>>, ints, <<Leaf(k)>>, <<>>) :
            ints \in Contents(n, -1..2)} : s \in Slices, n \in {0, 2, 3}, k \in 0..2}
Nested ==
  {Array("struct", s[1], s[2], <<0, 0, 0>>, <<>>, <<>>, <<Leaf(k), Leaf(2)>>, <<>>) : s \in Slices, k \in 0..2}
  \cup {Array("fixed_size_list", s[1], s[2], <<0, 0, 0>>, <<>>, <<>>, <<Leaf(k)>>, <<>>) : s \in Slices, k \in 0..4}
Unions ==
  UNION {{Array("sparse_union", s[1], s[2], <<2, 0, 0>>, t, <<>>, <<Leaf(k), Leaf(2)>>, ids) :
            t \in Contents(2, {0, 1, 5})} : s \in Slices, k \in 1..2, ids \in {<<0, 1>>, <<5, 0>>}}
  \cup
  UNION {{Array("dense_union", s[1], s[2], <<2, 8, 0>>, t, ints, <<Leaf(k), Leaf(1)>>, ids) :
            t \in Contents(2, {0, 1, 5}), ints \in Contents(2, -1..2)} :
           s \in Slices, k \in 0..2, ids \in {<<0, 1>>, <<5, 0>>}}
  \cup {Array("sparse_union", 0, 0, <<0, 0, 0>>, <<>>, <<>>, <<>>, <<>>)}
RunEnds ==
  UNION {{Array("run_end_encoded", s[1], s[2], <<0, 0, 0>>, <<>>, <<>>, <<Ends(r, o, ints), Leaf(k)>>, <<>>) :
            ints \in Contents(r + o, 0..2)} :
           s \in Slices, r \in 0..2, o \in 0..1, k \in 0..2}

(* At the limits of int64 and of the run ends: the last length whose sizes *)
(* fit, the first whose sizes do not, and sums that do not.                *)
Limits ==
  UNION {
    {Array("int16", n, o, <<0, d, 0>>, <<>>, Zeros(d), <<>>, <<>>) :
       n \in {6, 7, 8, 127}, o \in {0, 1}, d \in {0, 4, 14}},
    {Array("bool", n, o, <<0, d, 0>>, <<>>, <<>>, <<>>, <<>>) :
       n \in {119, 120, 121, 127}, o \in {0, 1}, d \in {1, 15}},
    {Array("string", n, 0, <<0, 4 * k, 2>>, <<>>, [i \in 0..(k - 1) |-> 1], <<>>, <<>>) :
       n \in {30, 31, 63, 127}, k \in {0, 2, 31}},
    {Array("large_string", n, 0, <<0, 8 * k, 2>>, <<>>, [i \in 0..(k - 1) |-> 1], <<>>, <<>>) :
       n \in {14, 15, 31}, k \in {2, 15}},
    {Array("fixed_size_list", n, o, <<0, 0, 0>>, <<>>, <<>>, <<Array("na", k, 0, <<0, 0, 0>>, <<>>, <<>>, <<>>, <<>>)>>, <<>>) :
       n \in {63, 64}, o \in {0, 1}, k \in {2, 126}},
    {Array("struct", n, o, <<0, 0, 0>>, <<>>, <<>>, <<Array("na", 127, 0, <<0, 0, 0>>, <<>>, <<>>, <<>>, <<>>)>>, <<>>) :
       n \in {126, 127}, o \in {0, 1}},
    {Array("run_end_encoded", n, o, <<0, 0, 0>>, <<>>, <<>>, <<Ends(r, 0, [i \in 0..(r - 1) |-> 3]), Leaf(r)>>, <<>>) :
       n \in {2, 3}, o \in {0, 1}, r \in {0, 1}}}

Dictionary(a, d) == [a EXCEPT !.dict = <<d>>]
Plain == Flats \cup Strings \cup Lists \cup Nested \cup Unions \cup RunEnds \cup Limits
Index == Array("int16", 2, 0, <<0, 4, 0>>, <<>>, Zeros(4), <<>>, <<>>)
Text(ints) == Array("string", 1, 0, <<0, 8, 2>>, <<>>, ints, <<>>, <<>>)
Mismatched ==
  {<<[Index EXCEPT !.n_buffers = 1], Index>>, <<Dictionary(Index, Leaf(1)), Index>>,
   <<Index, Dictionary(Index, Leaf(1))>>,
   <<Array("struct", 1, 0, <<0, 0, 0>>, <<>>, <<>>, <<Leaf(1)>>, <<>>),
     Array("struct", 1, 0, <<0, 0, 0>>, <<>>, <<>>, <<Leaf(1), Leaf(1)>>, <<>>)>>}
NestedCases ==
  {<<a, a>> : a \in Plain} \cup Mismatched
  \cup {<<Dictionary(Index, Text(ints)), Dictionary(Index, Text(ints))>> : ints \in Contents(2, -1..2)}
SmallCases == {<<Tree(c[1]), Tree(c[2])>> : c \in NestedCases}
=============================================================================
