------------------------- MODULE ArrayBuilder_proofs -------------------------
(***************************************************************************)
(* Proofs about ArrayBuilder, for all schemas, counts, values and widths.  *)
(* A call is followed from the buffer it changes (Turned, Got), to the     *)
(* node (Grows, Refused, Spoilt: n elements more, none, or memory ran      *)
(* out), to the tree (Outcome, Lands), to the state (IInv).  A node that   *)
(* is Filled holds what its length says, and a tree InOrder has nodes that *)
(* are Filled and children that are long enough; both survive every call   *)
(* but one that memory runs out on, after which the builder gives no       *)
(* promise but that sizes stay within capacities.                          *)
(* What _ArrowArrayAppendBits writes lies inside its buffer only when the  *)
(* elements of a call end in the byte that room was made for               *)
(* (nanoarrow.h:3224): OneByteAtATime says so of a step, NoBools of the    *)
(* schemas, and the theorems that need either of them name it.             *)
(***************************************************************************)
EXTENDS ArrayBuilder, SequenceLemmas, FiniteSetTheorems, TLAPS

(* What there is to know of the layouts. *)
Types == DOMAIN Layout \ {"run_end_encoded"}
(* What the layout says of the three buffers of each type that can be      *)
(* built.                                                                  *)
LEMMA Laid ==
  ASSUME NEW x, x.type \in Types
  PROVE  /\ x.type \in {"na", "bool", "int16", "string", "large_string", "list",
                        "fixed_size_list", "struct", "sparse_union", "dense_union"}
         /\ Kind(x, 1) = IF x.type = "na" THEN "none" ELSE IF IsUnion(x) THEN "type_id" ELSE "validity"
         /\ Kind(x, 2) = IF x.type \in {"bool", "int16"} THEN "data"
                         ELSE IF x.type \in {"string", "large_string", "list"} THEN "data_offset"
                         ELSE IF x.type = "dense_union" THEN "union_offset" ELSE "none"
         /\ Kind(x, 3) = IF x.type \in {"string", "large_string"} THEN "data" ELSE "none"
         /\ Kind(x, 2) = "data" => Bits(x, 2) = IF x.type = "bool" THEN 1 ELSE 16
         /\ Kind(x, 2) = "data_offset" => Bits(x, 2) = IF x.type = "large_string" THEN 64 ELSE 32
         /\ Kind(x, 2) = "data_offset" => Width(x, 2) = Bits(x, 2) \div 8 /\ Width(x, 2) \in {4, 8}
         /\ x.type = "int16" => Width(x, 2) = 2
         /\ Kind(x, 2) = "union_offset" => Bits(x, 2) = 32
         /\ Kind(x, 3) = "data" => Bits(x, 3) = 0
         /\ Kind(x, 1) = "type_id" => Bits(x, 1) = 8
<1>1. x.type \in {"na", "bool", "int16", "string", "large_string", "list",
                  "fixed_size_list", "struct", "sparse_union", "dense_union"}
  <2>1. DOMAIN Layout = {"na", "run_end_encoded", "bool", "int16", "string", "large_string", "list",
                         "fixed_size_list", "struct", "sparse_union", "dense_union"}
    BY Zenon DEF Layout
  <2> QED
    BY <2>1 DEF Types
<1> QED
  BY <1>1 DEF Kind, Bits, Width, Layout, NoBuffer, Validity, TypeId, IsUnion

(* Bytes for bits. *)
LEMMA BytesHold ==
  ASSUME NEW n \in Nat
  PROVE  BytesForBits(n) \in Nat /\ BytesForBits(n) = (n + 7) \div 8
BY DEF BytesForBits, RoundUpToMultipleOf8

(* More bits never take fewer bytes. *)
LEMMA BytesGrow ==
  ASSUME NEW n \in Nat, NEW m \in Nat, n <= m
  PROVE  BytesForBits(n) <= BytesForBits(m)
BY BytesHold

---------------------------------------------------------------------------
(* Nodes and calls as records. *)
With(x, length, null_count, sizes, caps, at) ==
  [type |-> x.type, ids |-> x.ids, length |-> length, null_count |-> null_count,
   sizes |-> sizes, caps |-> caps, at |-> at,
   kids |-> x.kids, dict |-> x.dict, up |-> x.up, last |-> x.last]
(* Three sizes, each within its capacity. *)
Room(sizes, caps) ==
  /\ sizes \in [1..3 -> Nat] /\ caps \in [1..3 -> Nat]
  /\ \A b \in 1..3 : sizes[b] <= caps[b]
(* A node as the builder keeps it: a buildable type, counts that are       *)
(* natural numbers, and every buffer's size within its capacity.           *)
IsNode(x) ==
  /\ x = With(x, x.length, x.null_count, x.sizes, x.caps, x.at)
  /\ x.type \in Types /\ x.length \in Nat /\ x.null_count \in Nat
  /\ Room(x.sizes, x.caps) /\ x.at = [b \in 1..3 |-> x.at[b]]
(* The parts of a node that no call changes: its type, type ids and place  *)
(* in the tree.                                                            *)
Same(x, y) ==
  /\ y.type = x.type /\ y.ids = x.ids /\ y.kids = x.kids
  /\ y.dict = x.dict /\ y.up = x.up /\ y.last = x.last

(* What the fields of a rebuilt node are. *)
LEMMA WithIs ==
  ASSUME NEW x, NEW l, NEW n, NEW s, NEW c, NEW a
  PROVE  /\ With(x, l, n, s, c, a).type = x.type /\ With(x, l, n, s, c, a).ids = x.ids
         /\ With(x, l, n, s, c, a).length = l /\ With(x, l, n, s, c, a).null_count = n
         /\ With(x, l, n, s, c, a).sizes = s /\ With(x, l, n, s, c, a).caps = c
         /\ With(x, l, n, s, c, a).at = a
         /\ With(x, l, n, s, c, a).kids = x.kids /\ With(x, l, n, s, c, a).dict = x.dict
         /\ With(x, l, n, s, c, a).up = x.up /\ With(x, l, n, s, c, a).last = x.last
BY DEF With

(* A rebuilt node has the type, layout and place of the one it was made    *)
(* from.                                                                   *)
LEMMA WithSame ==
  ASSUME NEW x, NEW l, NEW n, NEW s, NEW c, NEW a
  PROVE  /\ Same(x, With(x, l, n, s, c, a))
         /\ \A b : /\ Kind(With(x, l, n, s, c, a), b) = Kind(x, b)
                   /\ Bits(With(x, l, n, s, c, a), b) = Bits(x, b)
                   /\ Width(With(x, l, n, s, c, a), b) = Width(x, b)
         /\ IsUnion(With(x, l, n, s, c, a)) = IsUnion(x)
<1> DEFINE y == With(x, l, n, s, c, a)
<1>1. y.type = x.type
  BY WithIs
<1>2. Same(x, y)
  BY WithIs DEF Same
<1> HIDE DEF y
<1> QED
  BY <1>1, <1>2 DEF y, Kind, Bits, Width, IsUnion

(* Nodes of one type have one layout. *)
LEMMA SameKinds ==
  ASSUME NEW x, NEW y, Same(x, y)
  PROVE  /\ \A b : Kind(y, b) = Kind(x, b) /\ Bits(y, b) = Bits(x, b) /\ Width(y, b) = Width(x, b)
         /\ IsUnion(y) = IsUnion(x)
BY DEF Same, Kind, Bits, Width, IsUnion

(* Being the same node but for the contents is transitive. *)
LEMMA SameTwice ==
  ASSUME NEW x, NEW y, NEW z, Same(x, y), Same(y, z)
  PROVE  Same(x, z)
BY DEF Same

(* Rebuilding a node twice leaves what the second time put there. *)
LEMMA WithTwice ==
  ASSUME NEW x, NEW y, Same(x, y), NEW l, NEW n, NEW s, NEW c, NEW a
  PROVE  With(y, l, n, s, c, a) = With(x, l, n, s, c, a)
BY DEF Same, With

(* A rebuilt node is a node, if its counts and buffers are. *)
LEMMA WithNode ==
  ASSUME NEW x, IsNode(x), NEW l \in Nat, NEW n \in Nat, NEW s, NEW c, Room(s, c),
         NEW a, a = [b \in 1..3 |-> a[b]]
  PROVE  IsNode(With(x, l, n, s, c, a))
<1> DEFINE y == With(x, l, n, s, c, a)
<1>1. y = With(y, l, n, s, c, a)
  <2>1. Same(x, y)
    BY WithSame, Zenon
  <2> HIDE DEF y
  <2>2. With(y, l, n, s, c, a) = With(x, l, n, s, c, a)
    BY <2>1, WithTwice
  <2> QED
    BY <2>2, Zenon DEF y
<1>2. /\ y.type = x.type /\ y.length = l /\ y.null_count = n
      /\ y.sizes = s /\ y.caps = c /\ y.at = a
  BY WithIs
<1> HIDE DEF y
<1> QED
  BY <1>1, <1>2 DEF y, IsNode

(* A reallocation has failed: the node has lost a buffer. *)
Spoilt(x, d) ==
  /\ d.err = "ENOMEM" /\ d.wild = FALSE /\ Same(x, d.node) /\ IsNode(d.node)
(* Capacities in which only buffer b's has changed, and has not shrunk. *)
Grown(caps, c, b) ==
  /\ c \in [1..3 -> Nat] /\ c[b] >= caps[b]
  /\ \A i \in 1..3 : i # b => c[i] = caps[i]

(* A call that begins has no error, has written nothing outside and has    *)
(* its node as it was.                                                     *)
LEMMA Goes ==
  ASSUME NEW x, NEW f
  PROVE  Begin(x, f).err = "OK" /\ Begin(x, f).wild = FALSE /\ Begin(x, f).node = x /\ Begin(x, f).fails = f
BY DEF Begin

(* ArrowBufferReserve gives the buffer room for that many more bytes and   *)
(* changes nothing else, or runs out of memory (buffer_inline.h).          *)
LEMMA BufferReserveIs ==
  ASSUME NEW x, IsNode(x), NEW b \in 1..3, NEW extra \in Nat, NEW f
  PROVE  \/ Spoilt(x, BufferReserve(Begin(x, f), b, extra))
         \/ \E c : /\ Grown(x.caps, c, b) /\ c[b] >= x.sizes[b] + extra
                   /\ BufferReserve(Begin(x, f), b, extra)
                      = Begin(With(x, x.length, x.null_count, x.sizes, c, x.at), f)
<1> DEFINE wanted == x.sizes[b] + extra
           d == BufferReserve(Begin(x, f), b, extra)
           cap == GrowByFactor(x.caps[b], wanted)
<1>1. /\ x.sizes \in [1..3 -> Nat] /\ x.caps \in [1..3 -> Nat]
      /\ x.sizes[b] \in Nat /\ x.caps[b] \in Nat /\ wanted \in Nat
  BY DEF IsNode, Room
<1>2. d = IF wanted <= x.caps[b] THEN Begin(x, f) ELSE Reallocate(Begin(x, f), b, cap)
  BY Goes DEF BufferReserve
<1>3. CASE wanted <= x.caps[b]
  <2>1. d = Begin(With(x, x.length, x.null_count, x.sizes, x.caps, x.at), f)
    BY <1>2, <1>3 DEF IsNode
  <2>2. Grown(x.caps, x.caps, b)
    BY <1>1 DEF Grown
  <2> QED
    BY <1>3, <2>1, <2>2
<1>4. CASE ~(wanted <= x.caps[b]) /\ f = b
  <2>1. d = [Begin(x, f) EXCEPT !.node = Lose(@, b), !.err = "ENOMEM"]
    <3>1. d = Reallocate(Begin(x, f), b, cap)
      BY <1>2, <1>4, Zenon
    <3>2. Begin(x, f).fails = b
      BY <1>4, Goes, Zenon
    <3> QED
      BY <3>1, <3>2, Zenon DEF Reallocate
  <2>2. d.node = Lose(x, b) /\ d.err = "ENOMEM" /\ d.wild = FALSE
    BY <2>1 DEF Begin
  <2>3. Lose(x, b) = With(x, x.length, x.null_count, [x.sizes EXCEPT ![b] = 0],
                          [x.caps EXCEPT ![b] = 0], [x.at EXCEPT ![b] = <<>>])
    <3>1. x = With(x, x.length, x.null_count, x.sizes, x.caps, x.at)
      BY DEF IsNode
    <3>2. Lose(x, b) = [[[x EXCEPT !.sizes[b] = 0] EXCEPT !.caps[b] = 0] EXCEPT !.at[b] = <<>>]
      BY DEF Lose
    <3> QED
      BY <3>1, <3>2 DEF With
  <2>4. Room([x.sizes EXCEPT ![b] = 0], [x.caps EXCEPT ![b] = 0])
    BY DEF IsNode, Room
  <2>5. [x.at EXCEPT ![b] = <<>>] = [i \in 1..3 |-> [x.at EXCEPT ![b] = <<>>][i]]
    BY DEF IsNode
  <2>6. IsNode(Lose(x, b)) /\ Same(x, Lose(x, b))
    <3>1. x.length \in Nat /\ x.null_count \in Nat
      BY DEF IsNode
    <3> QED
      BY <2>3, <2>4, <2>5, <3>1, WithNode, WithSame
  <2> QED
    BY <2>2, <2>6 DEF Spoilt
<1>5. CASE ~(wanted <= x.caps[b]) /\ f # b
  <2> DEFINE c == [x.caps EXCEPT ![b] = cap]
  <2>1. cap \in Nat /\ cap >= wanted /\ cap >= x.caps[b]
    BY <1>1, <1>5 DEF GrowByFactor
  <2>2. d = [Begin(x, f) EXCEPT !.node.caps[b] = cap]
    <3>1. d = Reallocate(Begin(x, f), b, cap)
      BY <1>2, <1>5, Zenon
    <3>2. Begin(x, f).fails = f
      BY Goes, Zenon
    <3>3. Begin(x, f).fails # b
      BY <1>5, <3>2
    <3> QED
      BY <3>1, <3>3, Zenon DEF Reallocate
  <2> HIDE DEF cap
  <2>3. [x EXCEPT !.caps[b] = cap] = With(x, x.length, x.null_count, x.sizes, c, x.at)
    BY DEF IsNode, With
  <2>4. d = Begin([x EXCEPT !.caps[b] = cap], f)
    BY <2>2 DEF Begin
  <2>5. Grown(x.caps, c, b) /\ c[b] >= wanted
    BY <1>1, <2>1 DEF Grown
  <2> QED
    BY <2>3, <2>4, <2>5
<1> QED
  BY <1>3, <1>4, <1>5

(* A node with more capacity is a node. *)
LEMMA BufferReserveNode ==
  ASSUME NEW x, IsNode(x), NEW b \in 1..3, NEW c, Grown(x.caps, c, b)
  PROVE  IsNode(With(x, x.length, x.null_count, x.sizes, c, x.at))
<1>1. Room(x.sizes, c) /\ x.length \in Nat /\ x.null_count \in Nat /\ x.at = [i \in 1..3 |-> x.at[i]]
  BY DEF IsNode, Room, Grown
<1> QED
  BY <1>1, WithNode

(* A buffer that got so many bytes more. *)
Put(x, b, items, bytes, c) ==
  With(x, x.length, x.null_count, [x.sizes EXCEPT ![b] = @ + bytes], c,
       [x.at EXCEPT ![b] = @ \o items])

(* What a buffer append makes of a node that is spelled out. *)
Written(w, l, n, s, c, a, b, items, bytes) ==
  With(w, l, n, [s EXCEPT ![b] = s[b] + bytes], c, [a EXCEPT ![b] = a[b] \o items])
(* The buffer has that many bytes left. *)
HasRoom(s, c, b, bytes) == ~(s[b] + bytes > c[b])
(* ArrowBufferAppendUnsafe on a node that is spelled out, where there is   *)
(* room.                                                                   *)
LEMMA PutIs ==
  ASSUME NEW w, NEW l, NEW n, NEW s, NEW c, NEW a, NEW b, NEW items, NEW bytes, NEW f,
         HasRoom(s, c, b, bytes)
  PROVE  BufferAppendUnsafe(Begin(With(w, l, n, s, c, a), f), b, items, bytes)
         = Begin(Written(w, l, n, s, c, a, b, items, bytes), f)
<1> DEFINE size == s[b] + bytes
           new  == a[b] \o items
           over == size > c[b]
           x == With(w, l, n, s, c, a)
           y == With(w, l, n, s, c, [a EXCEPT ![b] = new])
           z == With(w, l, n, [s EXCEPT ![b] = size], c, [a EXCEPT ![b] = new])
           d == BufferAppendUnsafe(Begin(x, f), b, items, bytes)
<1>1. d = [Begin(x, f) EXCEPT !.node.at[b] = new, !.node.sizes[b] = size, !.wild = @ \/ over]
  BY DEF BufferAppendUnsafe, Begin, With
<1>2. over = FALSE
  BY DEF HasRoom
<1>3. z = Written(w, l, n, s, c, a, b, items, bytes)
  BY Zenon DEF Written
<1>4. [x EXCEPT !.at[b] = new] = y
  <2> HIDE DEF new
  <2> QED
    BY DEF With
<1>5. [y EXCEPT !.sizes[b] = size] = z
  <2> HIDE DEF new, size
  <2> QED
    BY DEF With
<1> HIDE DEF size, new, over, x, y, z, d
<1>6. d = [[[Begin(x, f) EXCEPT !.node.at[b] = new] EXCEPT !.node.sizes[b] = size] EXCEPT !.wild = FALSE]
  <2>1. (Begin(x, f).wild \/ over) = FALSE
    BY <1>2 DEF Begin
  <2> QED
    BY <1>1, <2>1
<1>7. d = Begin([[x EXCEPT !.at[b] = new] EXCEPT !.sizes[b] = size], f)
  BY <1>6 DEF Begin
<1>8. d = Begin(z, f)
  BY <1>4, <1>5, <1>7
<1> QED
  BY <1>3, <1>8 DEF d, x

(* ArrowBufferAppendUnsafe on a node with room appends the items and       *)
(* leaves a node.                                                          *)
LEMMA BufferAppendUnsafeIs ==
  ASSUME NEW x, IsNode(x), NEW b \in 1..3, NEW items, NEW bytes \in Nat, NEW f,
         x.sizes[b] + bytes <= x.caps[b]
  PROVE  /\ BufferAppendUnsafe(Begin(x, f), b, items, bytes) = Begin(Put(x, b, items, bytes, x.caps), f)
         /\ IsNode(Put(x, b, items, bytes, x.caps))
<1> DEFINE s == [x.sizes EXCEPT ![b] = @ + bytes]
           a == [x.at EXCEPT ![b] = @ \o items]
<1>1. /\ x.sizes \in [1..3 -> Nat] /\ x.caps \in [1..3 -> Nat] /\ \A i \in 1..3 : x.sizes[i] <= x.caps[i]
      /\ x.length \in Nat /\ x.null_count \in Nat /\ x.at = [i \in 1..3 |-> x.at[i]]
  BY DEF IsNode, Room
<1>2. Room(s, x.caps) /\ a = [i \in 1..3 |-> a[i]]
  <2>1. a = [i \in 1..3 |-> a[i]]
    BY <1>1
  <2>2. s \in [1..3 -> Nat] /\ s[b] = x.sizes[b] + bytes /\ \A i \in 1..3 : i # b => s[i] = x.sizes[i]
    BY <1>1
  <2> HIDE DEF s, a
  <2>3. \A i \in 1..3 : s[i] <= x.caps[i]
    BY <1>1, <2>2
  <2> QED
    BY <1>1, <2>1, <2>2, <2>3 DEF Room
<1>3. IsNode(Put(x, b, items, bytes, x.caps))
  BY <1>1, <1>2, WithNode DEF Put
<1>4. HasRoom(x.sizes, x.caps, b, bytes)
  BY <1>1 DEF HasRoom
<1>5. BufferAppendUnsafe(Begin(With(x, x.length, x.null_count, x.sizes, x.caps, x.at), f), b, items, bytes)
      = Begin(Written(x, x.length, x.null_count, x.sizes, x.caps, x.at, b, items, bytes), f)
  BY <1>4, PutIs
<1>6. Written(x, x.length, x.null_count, x.sizes, x.caps, x.at, b, items, bytes) = Put(x, b, items, bytes, x.caps)
  BY DEF Written, Put
<1>7. x = With(x, x.length, x.null_count, x.sizes, x.caps, x.at)
  BY DEF IsNode
<1> QED
  BY <1>3, <1>5, <1>6, <1>7, Zenon

(* What is appended does not depend on the capacities before. *)
LEMMA PutAgain ==
  ASSUME NEW x, NEW c, NEW b, NEW items, NEW bytes, NEW e
  PROVE  Put(With(x, x.length, x.null_count, x.sizes, c, x.at), b, items, bytes, e) = Put(x, b, items, bytes, e)
<1> DEFINE y == With(x, x.length, x.null_count, x.sizes, c, x.at)
<1>1. /\ y.length = x.length /\ y.null_count = x.null_count /\ y.sizes = x.sizes /\ y.at = x.at
      /\ Same(x, y)
  BY WithIs, WithSame
<1> HIDE DEF y
<1> QED
  BY <1>1, WithTwice DEF Put, y

(* ArrowBufferAppend appends the items, or runs out of memory. *)
LEMMA BufferAppendIs ==
  ASSUME NEW x, IsNode(x), NEW b \in 1..3, NEW items, NEW bytes \in Nat, NEW f
  PROVE  \/ Spoilt(x, BufferAppend(Begin(x, f), b, items, bytes))
         \/ \E c : /\ Grown(x.caps, c, b) /\ c[b] >= x.sizes[b] + bytes
                   /\ IsNode(Put(x, b, items, bytes, c))
                   /\ BufferAppend(Begin(x, f), b, items, bytes) = Begin(Put(x, b, items, bytes, c), f)
<1> DEFINE r == BufferReserve(Begin(x, f), b, bytes)
           d == BufferAppend(Begin(x, f), b, items, bytes)
<1>1. d = IF r.err = "OK" THEN BufferAppendUnsafe(r, b, items, bytes) ELSE r
  BY Zenon DEF BufferAppend, Continue
<1> HIDE DEF d, r
<1>2. CASE Spoilt(x, r)
  <2>1. d = r
    BY <1>1, <1>2 DEF Spoilt
  <2> QED
    BY <1>2, <2>1 DEF d
<1>3. ASSUME NEW c, Grown(x.caps, c, b), c[b] >= x.sizes[b] + bytes,
             r = Begin(With(x, x.length, x.null_count, x.sizes, c, x.at), f)
      PROVE  IsNode(Put(x, b, items, bytes, c)) /\ d = Begin(Put(x, b, items, bytes, c), f)
  <2> DEFINE y == With(x, x.length, x.null_count, x.sizes, c, x.at)
  <2>1. IsNode(y)
    BY <1>3, BufferReserveNode, Zenon
  <2>2. y.sizes = x.sizes /\ y.caps = c
    BY WithIs
  <2>3. Put(y, b, items, bytes, c) = Put(x, b, items, bytes, c)
    BY PutAgain
  <2>4. r = Begin(y, f)
    BY <1>3
  <2> HIDE DEF y
  <2>5. /\ BufferAppendUnsafe(Begin(y, f), b, items, bytes) = Begin(Put(y, b, items, bytes, y.caps), f)
        /\ IsNode(Put(y, b, items, bytes, y.caps))
    BY <1>3, <2>1, <2>2, BufferAppendUnsafeIs
  <2>6. d = BufferAppendUnsafe(Begin(y, f), b, items, bytes)
    <3>1. Begin(y, f).err = "OK"
      BY DEF Begin
    <3>2. r.err = "OK"
      BY <2>4, <3>1, Zenon
    <3> QED
      BY <1>1, <2>4, <3>2, Zenon
  <2> QED
    BY <2>2, <2>3, <2>5, <2>6
<1> QED
  BY <1>2, <1>3, BufferReserveIs DEF d, r

---------------------------------------------------------------------------
(* What a call leaves alone when it writes to one buffer. *)
Alike(x, y, b) == y.sizes[b] = x.sizes[b] /\ y.caps[b] = x.caps[b] /\ y.at[b] = x.at[b]
(* Nothing has changed but buffer b, whose capacity has not shrunk. *)
Turned(x, y, b) ==
  /\ Same(x, y) /\ IsNode(y) /\ y.length = x.length /\ y.null_count = x.null_count
  /\ y.caps[b] >= x.caps[b] /\ \A i \in 1..3 : i # b => Alike(x, y, i)
(* The node with other contents in buffer b. *)
NewBuffer(x, b, size, c, items) ==
  With(x, x.length, x.null_count, [x.sizes EXCEPT ![b] = size], c, [x.at EXCEPT ![b] = items])

(* What there is to know of a node. *)
LEMMA NodeHas ==
  ASSUME NEW x, IsNode(x)
  PROVE  /\ x.type \in Types /\ x.length \in Nat /\ x.null_count \in Nat
         /\ x.sizes \in [1..3 -> Nat] /\ x.caps \in [1..3 -> Nat] /\ Room(x.sizes, x.caps)
         /\ \A b \in 1..3 : x.sizes[b] \in Nat /\ x.caps[b] \in Nat /\ x.sizes[b] <= x.caps[b]
         /\ x.at = [b \in 1..3 |-> x.at[b]]
         /\ x = With(x, x.length, x.null_count, x.sizes, x.caps, x.at)
BY DEF IsNode, Room

(* The sizes and capacities of the three buffers, one by one. *)
LEMMA NodeSizes ==
  ASSUME NEW x, IsNode(x)
  PROVE  /\ x.sizes[1] \in Nat /\ x.caps[1] \in Nat /\ x.sizes[1] <= x.caps[1]
         /\ x.sizes[2] \in Nat /\ x.caps[2] \in Nat /\ x.sizes[2] <= x.caps[2]
         /\ x.sizes[3] \in Nat /\ x.caps[3] \in Nat /\ x.sizes[3] <= x.caps[3]
<1>1. \A b \in 1..3 : x.sizes[b] \in Nat /\ x.caps[b] \in Nat /\ x.sizes[b] <= x.caps[b]
  BY NodeHas
<1>2. 1 \in 1..3 /\ 2 \in 1..3 /\ 3 \in 1..3
  OBVIOUS
<1> QED
  BY <1>1, <1>2, Zenon

(* No change is a change of one buffer. *)
LEMMA Itself ==
  ASSUME NEW x, IsNode(x), NEW b \in 1..3
  PROVE  Turned(x, x, b) /\ Grown(x.caps, x.caps, b)
<1>1. x.caps \in [1..3 -> Nat]
  BY DEF IsNode, Room
<1>2. x.caps[b] \in Nat
  BY <1>1
<1> QED
  BY <1>1, <1>2 DEF Turned, Same, Alike, Grown

(* A node with other contents in one buffer has changed in that buffer     *)
(* only.                                                                   *)
LEMMA NewBufferIs ==
  ASSUME NEW x, IsNode(x), NEW b \in 1..3, NEW size \in Nat, NEW c, Grown(x.caps, c, b), size <= c[b], NEW items
  PROVE  LET y == NewBuffer(x, b, size, c, items) IN
           Turned(x, y, b) /\ y.sizes[b] = size /\ y.caps = c /\ y.at[b] = items
<1> DEFINE s == [x.sizes EXCEPT ![b] = size]
           a == [x.at EXCEPT ![b] = items]
           y == With(x, x.length, x.null_count, s, c, a)
<1>1. /\ x.sizes \in [1..3 -> Nat] /\ x.caps \in [1..3 -> Nat] /\ \A i \in 1..3 : x.sizes[i] <= x.caps[i]
      /\ x.length \in Nat /\ x.null_count \in Nat /\ x.at = [i \in 1..3 |-> x.at[i]]
  BY DEF IsNode, Room
<1>2. s \in [1..3 -> Nat] /\ s[b] = size /\ \A i \in 1..3 : i # b => s[i] = x.sizes[i]
  BY <1>1
<1>3. a = [i \in 1..3 |-> a[i]] /\ a[b] = items /\ \A i \in 1..3 : i # b => a[i] = x.at[i]
  BY <1>1
<1>4. /\ Same(x, y) /\ y.length = x.length /\ y.null_count = x.null_count
      /\ y.sizes = s /\ y.caps = c /\ y.at = a
  BY WithIs, WithSame
<1>5. y = NewBuffer(x, b, size, c, items)
  BY DEF NewBuffer
<1> HIDE DEF s, a
<1>6. Room(s, c)
  BY <1>1, <1>2 DEF Room, Grown
<1>7. IsNode(y)
  BY <1>1, <1>3, <1>6, WithNode, Zenon
<1> HIDE DEF y
<1>8. Turned(x, y, b)
  BY <1>2, <1>3, <1>4, <1>7 DEF Turned, Grown, Alike
<1> QED
  BY <1>2, <1>3, <1>4, <1>5, <1>8, Zenon

(* Two changes of one buffer are a change of it. *)
LEMMA TurnedTwice ==
  ASSUME NEW x, NEW y, NEW z, NEW b \in 1..3, x.caps[b] \in Nat, y.caps[b] \in Nat, z.caps[b] \in Nat,
         Turned(x, y, b), Turned(y, z, b)
  PROVE  Turned(x, z, b)
BY SameTwice DEF Turned, Alike

(* ArrowBufferReserve changes one buffer's capacity only. *)
LEMMA ReserveTurned ==
  ASSUME NEW x, IsNode(x), NEW b \in 1..3, NEW extra \in Nat, NEW f
  PROVE  \/ Spoilt(x, BufferReserve(Begin(x, f), b, extra))
         \/ \E y : /\ BufferReserve(Begin(x, f), b, extra) = Begin(y, f) /\ Turned(x, y, b)
                   /\ y.sizes = x.sizes /\ y.at = x.at /\ y.caps[b] >= x.sizes[b] + extra
<1>1. ASSUME NEW c, Grown(x.caps, c, b), c[b] >= x.sizes[b] + extra
      PROVE  LET y == With(x, x.length, x.null_count, x.sizes, c, x.at) IN
               /\ Turned(x, y, b) /\ y.sizes = x.sizes /\ y.at = x.at /\ y.caps[b] >= x.sizes[b] + extra
  <2> DEFINE y == With(x, x.length, x.null_count, x.sizes, c, x.at)
  <2>1. IsNode(y)
    BY <1>1, BufferReserveNode
  <2>2. /\ Same(x, y) /\ y.length = x.length /\ y.null_count = x.null_count
        /\ y.sizes = x.sizes /\ y.caps = c /\ y.at = x.at
    BY WithIs, WithSame
  <2> HIDE DEF y
  <2>3. Turned(x, y, b)
    BY <1>1, <2>1, <2>2 DEF Turned, Alike, Grown
  <2> QED
    BY <1>1, <2>2, <2>3 DEF y
<1> QED
  BY <1>1, BufferReserveIs

(* Buffer b has got these items, of so many bytes, at its end. *)
Got(x, y, b, items, bytes) ==
  Turned(x, y, b) /\ y.sizes[b] = x.sizes[b] + bytes /\ y.at[b] = x.at[b] \o items
(* ArrowBufferAppend changes one buffer, by what it appends. *)
LEMMA AppendTurned ==
  ASSUME NEW x, IsNode(x), NEW b \in 1..3, NEW items, NEW bytes \in Nat, NEW f
  PROVE  \/ Spoilt(x, BufferAppend(Begin(x, f), b, items, bytes))
         \/ \E y : BufferAppend(Begin(x, f), b, items, bytes) = Begin(y, f) /\ Got(x, y, b, items, bytes)
<1>1. ASSUME NEW c, Grown(x.caps, c, b), c[b] >= x.sizes[b] + bytes
      PROVE  LET y == Put(x, b, items, bytes, c) IN
               Turned(x, y, b) /\ y.sizes[b] = x.sizes[b] + bytes /\ y.at[b] = x.at[b] \o items
  <2> DEFINE size == x.sizes[b] + bytes
             new  == x.at[b] \o items
  <2>1. Put(x, b, items, bytes, c) = NewBuffer(x, b, size, c, new)
    BY DEF Put, NewBuffer
  <2>2. size \in Nat /\ size <= c[b]
    <3>1. x.sizes[b] \in Nat
      BY NodeHas
    <3>2. c[b] \in Nat /\ c[b] >= x.sizes[b] + bytes
      BY <1>1 DEF Grown
    <3> QED
      BY <3>1, <3>2
  <2> HIDE DEF size, new
  <2>3. LET y == NewBuffer(x, b, size, c, new) IN Turned(x, y, b) /\ y.sizes[b] = size /\ y.at[b] = new
    BY <1>1, <2>2, NewBufferIs
  <2> QED
    BY <2>1, <2>3 DEF size, new
<1>2. CASE Spoilt(x, BufferAppend(Begin(x, f), b, items, bytes))
  BY <1>2, Zenon
<1>3. CASE ~Spoilt(x, BufferAppend(Begin(x, f), b, items, bytes))
  <2>1. PICK c : /\ Grown(x.caps, c, b) /\ c[b] >= x.sizes[b] + bytes
                 /\ BufferAppend(Begin(x, f), b, items, bytes) = Begin(Put(x, b, items, bytes, c), f)
    BY <1>3, BufferAppendIs
  <2> QED
    BY <1>1, <2>1, Zenon DEF Got
<1> QED
  BY <1>2, <1>3, Zenon

---------------------------------------------------------------------------
(* The validity bitmap. *)
Flags == {0, 1}
(* The positions of the zero bits. *)
Zeros(bits) == {i \in 0..(Len(bits) - 1) : bits[i + 1] = 0}
(* The bytes of the validity bitmap are those its bits take. *)
HasBitmap(x) == x.at[1] \in Seq(Flags) /\ x.sizes[1] = BytesForBits(Len(x.at[1]))

(* n times one value. *)
LEMMA RepeatIs ==
  ASSUME NEW v, NEW n \in Nat
  PROVE  /\ Repeat(v, n) \in Seq({v}) /\ Len(Repeat(v, n)) = n
         /\ \A i \in 1..n : Repeat(v, n)[i] = v
BY DEF Repeat

(* A sequence followed by n times one value. *)
LEMMA Joined ==
  ASSUME NEW S, NEW s \in Seq(S), NEW v \in S, NEW n \in Nat
  PROVE  /\ s \o Repeat(v, n) \in Seq(S) /\ Len(s \o Repeat(v, n)) = Len(s) + n
         /\ \A i \in 1..Len(s) : (s \o Repeat(v, n))[i] = s[i]
         /\ \A i \in (Len(s) + 1)..(Len(s) + n) : (s \o Repeat(v, n))[i] = v
<1> DEFINE r == Repeat(v, n)
<1>1. r \in Seq(S) /\ Len(r) = n /\ \A i \in 1..n : r[i] = v
  BY RepeatIs DEF Repeat
<1> HIDE DEF r
<1>2. /\ s \o r \in Seq(S) /\ Len(s \o r) = Len(s) + Len(r) /\ Len(s) \in Nat
      /\ \A i \in 1..Len(s) : (s \o r)[i] = s[i]
      /\ \A i \in 1..Len(r) : (s \o r)[Len(s) + i] = r[i]
  BY <1>1
<1>3. ASSUME NEW i \in (Len(s) + 1)..(Len(s) + n) PROVE (s \o r)[i] = v
  <2>1. i - Len(s) \in 1..n /\ Len(s) + (i - Len(s)) = i
    BY <1>2
  <2> QED
    BY <1>1, <1>2, <2>1
<1> QED
  BY <1>1, <1>2, <1>3 DEF r

(* ArrowBitmapReserve makes room for that many more bits, or runs out of   *)
(* memory.                                                                 *)
LEMMA BitmapReserveIs ==
  ASSUME NEW x, IsNode(x), HasBitmap(x), NEW n \in Nat, NEW f
  PROVE  \/ Spoilt(x, BitmapReserve(Begin(x, f), n))
         \/ \E y : /\ BitmapReserve(Begin(x, f), n) = Begin(y, f) /\ Turned(x, y, 1)
                   /\ y.sizes = x.sizes /\ y.at = x.at /\ y.caps[1] >= BytesForBits(Len(x.at[1]) + n)
<1> DEFINE bytes == BytesForBits(Len(x.at[1]) + n)
           d == BitmapReserve(Begin(x, f), n)
<1>1. d = IF bytes <= x.caps[1] THEN Begin(x, f) ELSE BufferReserve(Begin(x, f), 1, bytes - x.sizes[1])
  BY Goes DEF BitmapReserve
<1>2. Len(x.at[1]) \in Nat /\ bytes \in Nat /\ BytesForBits(Len(x.at[1])) <= bytes
  <2>1. Len(x.at[1]) \in Nat
    BY DEF HasBitmap
  <2> DEFINE k == Len(x.at[1])
  <2> HIDE DEF k
  <2>2. k \in Nat => k + n \in Nat /\ k <= k + n
    OBVIOUS
  <2>3. k \in Nat => BytesForBits(k + n) \in Nat /\ BytesForBits(k) <= BytesForBits(k + n)
    BY <2>2, BytesHold, BytesGrow
  <2> QED
    BY <2>1, <2>3 DEF k
<1>3. x.sizes[1] \in Nat /\ x.sizes[1] <= bytes
  <2>1. x.sizes[1] \in Nat
    BY NodeSizes
  <2> HIDE DEF bytes
  <2> QED
    BY <1>2, <2>1 DEF HasBitmap
<1> HIDE DEF bytes
<1>4. CASE bytes <= x.caps[1]
  <2>1. d = Begin(x, f)
    BY <1>1, <1>4, Zenon
  <2>2. Turned(x, x, 1)
    <3>1. 1 \in 1..3
      OBVIOUS
    <3> QED
      BY <3>1, Itself
  <2>3. x.caps[1] >= bytes
    BY <1>4
  <2> QED
    BY <2>1, <2>2, <2>3 DEF bytes
<1>5. CASE ~(bytes <= x.caps[1])
  <2> DEFINE extra == bytes - x.sizes[1]
  <2>1. extra \in Nat /\ x.sizes[1] + extra = bytes
    BY <1>2, <1>3
  <2>2. d = BufferReserve(Begin(x, f), 1, extra)
    BY <1>1, <1>5, Zenon
  <2> HIDE DEF extra, d
  <2>3. 1 \in 1..3
    OBVIOUS
  <2>4. \/ Spoilt(x, d)
        \/ \E y : /\ d = Begin(y, f) /\ Turned(x, y, 1)
                  /\ y.sizes = x.sizes /\ y.at = x.at /\ y.caps[1] >= x.sizes[1] + extra
    BY <2>1, <2>2, <2>3, ReserveTurned
  <2> QED
    BY <2>1, <2>4 DEF d, bytes
<1> QED
  BY <1>4, <1>5

(* The bitmap's bits and byte size set by ArrowBitmapAppendUnsafe. *)
Marked(d, bits, size) ==
  [d EXCEPT !.node.at[1] = bits, !.node.sizes[1] = size, !.wild = FALSE]
(* The same, of a node that is spelled out. *)
MarkedNode(w, l, nc, s, c, a, bits, size) ==
  With(w, l, nc, [s EXCEPT ![1] = size], c, [a EXCEPT ![1] = bits])
(* Setting the bits of a node that is spelled out. *)
LEMMA MarkIs ==
  ASSUME NEW w, NEW l, NEW nc, NEW s, NEW c, NEW a, NEW bits, NEW size, NEW f
  PROVE  Marked(Begin(With(w, l, nc, s, c, a), f), bits, size)
         = Begin(MarkedNode(w, l, nc, s, c, a, bits, size), f)
<1> DEFINE x == With(w, l, nc, s, c, a)
           y == With(w, l, nc, s, c, [a EXCEPT ![1] = bits])
           z == With(w, l, nc, [s EXCEPT ![1] = size], c, [a EXCEPT ![1] = bits])
           d == Marked(Begin(x, f), bits, size)
<1>1. [x EXCEPT !.at[1] = bits] = y
  BY DEF With
<1>2. [y EXCEPT !.sizes[1] = size] = z
  BY DEF With
<1> HIDE DEF x, y, z
<1>4. d = [[[Begin(x, f) EXCEPT !.node.at[1] = bits] EXCEPT !.node.sizes[1] = size] EXCEPT !.wild = FALSE]
  BY DEF Marked
<1> HIDE DEF d
<1>5. d = Begin([[x EXCEPT !.at[1] = bits] EXCEPT !.sizes[1] = size], f)
  BY <1>4 DEF Begin
<1> QED
  BY <1>1, <1>2, <1>5 DEF x, z, d, MarkedNode

(* The bitmap has room for n more bits. *)
RoomForBits(x, n) == x.caps[1] >= BytesForBits(Len(x.at[1]) + n)
(* The bitmap has got n equal bits at its end. *)
GotBits(x, y, bit, n) ==
  Turned(x, y, 1) /\ y.at[1] = x.at[1] \o Repeat(bit, n) /\ HasBitmap(y)
(* ArrowBitmapAppendUnsafe with room appends the bits, inside the buffer.  *)
LEMMA BitmapAppendUnsafeIs ==
  ASSUME NEW x, IsNode(x), HasBitmap(x), NEW bit \in Flags, NEW n \in Nat, NEW f, RoomForBits(x, n)
  PROVE  \E y : /\ BitmapAppendUnsafe(Begin(x, f), bit, n) = Begin(y, f)
                /\ GotBits(x, y, bit, n) /\ y.caps = x.caps
<1> DEFINE bits == x.at[1] \o Repeat(bit, n)
           size == BytesForBits(Len(bits))
           over == n > 0 /\ size > x.caps[1]
           y == NewBuffer(x, 1, size, x.caps, bits)
<1>1. /\ x.at[1] \in Seq(Flags) /\ Len(x.at[1]) \in Nat
      /\ bits \in Seq(Flags) /\ Len(bits) = Len(x.at[1]) + n /\ Len(bits) \in Nat
  <2>1. x.at[1] \in Seq(Flags)
    BY DEF HasBitmap
  <2>2. Len(x.at[1]) \in Nat
    BY <2>1
  <2> DEFINE marks == x.at[1]
  <2> HIDE DEF marks
  <2>3. marks \in Seq(Flags) => marks \o Repeat(bit, n) \in Seq(Flags)
    BY Joined
  <2>4. marks \in Seq(Flags) => Len(marks \o Repeat(bit, n)) = Len(marks) + n
    BY Joined
  <2>5. bits \in Seq(Flags) /\ Len(bits) = Len(x.at[1]) + n
    BY <2>1, <2>3, <2>4 DEF marks
  <2> QED
    BY <2>1, <2>2, <2>5
<1>2. size \in Nat /\ size <= x.caps[1] /\ x.caps[1] \in Nat
  <2>1. x.caps[1] \in Nat
    BY NodeSizes
  <2>2. x.caps[1] >= BytesForBits(Len(x.at[1]) + n)
    BY DEF RoomForBits
  <2> QED
    BY <1>1, <2>1, <2>2, BytesHold
<1>3. over = FALSE
  BY <1>2
<1>4. BitmapAppendUnsafe(Begin(x, f), bit, n) = Marked(Begin(x, f), bits, size)
  <2>1. BitmapAppendUnsafe(Begin(x, f), bit, n)
        = [Begin(x, f) EXCEPT !.node.at[1] = bits, !.node.sizes[1] = size, !.wild = @ \/ over]
    BY Goes DEF BitmapAppendUnsafe
  <2> HIDE DEF over, bits, size
  <2>2. (Begin(x, f).wild \/ over) = FALSE
    BY <1>3 DEF Begin
  <2> QED
    BY <2>1, <2>2 DEF Marked
<1> HIDE DEF size, over, bits
<1>5. x = With(x, x.length, x.null_count, x.sizes, x.caps, x.at)
  BY NodeHas
<1>6. Marked(Begin(With(x, x.length, x.null_count, x.sizes, x.caps, x.at), f), bits, size)
      = Begin(MarkedNode(x, x.length, x.null_count, x.sizes, x.caps, x.at, bits, size), f)
  BY MarkIs
<1>7. BitmapAppendUnsafe(Begin(x, f), bit, n) = Begin(y, f)
  BY <1>4, <1>5, <1>6, Zenon DEF NewBuffer, MarkedNode
<1>8. Grown(x.caps, x.caps, 1)
  <2>1. 1 \in 1..3
    OBVIOUS
  <2> QED
    BY <2>1, Itself
<1>9. Turned(x, y, 1) /\ y.sizes[1] = size /\ y.caps = x.caps /\ y.at[1] = bits
  <2> DEFINE one == 1
             c == x.caps
  <2>1. one \in 1..3
    OBVIOUS
  <2>2. size <= c[one] /\ Grown(x.caps, c, one)
    BY <1>2, <1>8
  <2> HIDE DEF one, c
  <2>3. LET z == NewBuffer(x, one, size, c, bits) IN
          Turned(x, z, one) /\ z.sizes[one] = size /\ z.caps = c /\ z.at[one] = bits
    BY <1>2, <2>1, <2>2, NewBufferIs
  <2> QED
    BY <2>3 DEF one, c
<1> HIDE DEF y
<1>10. HasBitmap(y)
  BY <1>1, <1>9 DEF HasBitmap, size
<1> QED
  BY <1>7, <1>9, <1>10 DEF bits, GotBits

(* A bitmap with more capacity is a bitmap. *)
LEMMA TurnedBitmap ==
  ASSUME NEW x, NEW y, Turned(x, y, 1), y.sizes = x.sizes, y.at = x.at, HasBitmap(x)
  PROVE  HasBitmap(y) /\ IsNode(y)
BY DEF HasBitmap, Turned

(* ArrowBitmapAppend appends the bits, or runs out of memory. *)
LEMMA BitmapAppendIs ==
  ASSUME NEW x, IsNode(x), HasBitmap(x), NEW bit \in Flags, NEW n \in Nat, NEW f
  PROVE  \/ Spoilt(x, BitmapAppend(Begin(x, f), bit, n))
         \/ \E y : BitmapAppend(Begin(x, f), bit, n) = Begin(y, f) /\ GotBits(x, y, bit, n)
<1> DEFINE r == BitmapReserve(Begin(x, f), n)
           d == BitmapAppend(Begin(x, f), bit, n)
<1>1. d = IF r.err = "OK" THEN BitmapAppendUnsafe(r, bit, n) ELSE r
  BY Zenon DEF BitmapAppend, Continue
<1> HIDE DEF d, r
<1>2. CASE Spoilt(x, r)
  <2>1. d = r
    BY <1>1, <1>2 DEF Spoilt
  <2> QED
    BY <1>2, <2>1 DEF d
<1>3. ASSUME NEW y, r = Begin(y, f), Turned(x, y, 1), y.sizes = x.sizes, y.at = x.at,
             y.caps[1] >= BytesForBits(Len(x.at[1]) + n)
      PROVE  \E z : d = Begin(z, f) /\ GotBits(x, z, bit, n)
  <2>1. r.err = "OK"
    BY <1>3 DEF Begin
  <2>2. d = BitmapAppendUnsafe(Begin(y, f), bit, n)
    BY <1>1, <1>3, <2>1, Zenon
  <2>3. HasBitmap(y) /\ IsNode(y)
    BY <1>3, TurnedBitmap
  <2>4. RoomForBits(y, n)
    BY <1>3 DEF RoomForBits
  <2>5. PICK z : /\ BitmapAppendUnsafe(Begin(y, f), bit, n) = Begin(z, f)
                 /\ GotBits(y, z, bit, n) /\ z.caps = y.caps
    BY <2>3, <2>4, BitmapAppendUnsafeIs
  <2>6. Turned(x, z, 1)
    <3>1. IsNode(z)
      BY <2>5 DEF Turned, GotBits
    <3>2. x.caps[1] \in Nat /\ y.caps[1] \in Nat /\ z.caps[1] \in Nat
      BY <2>3, <3>1, NodeSizes, Zenon
    <3>3. 1 \in 1..3
      OBVIOUS
    <3> QED
      BY <1>3, <2>5, <3>2, <3>3, TurnedTwice DEF GotBits
  <2> QED
    BY <1>3, <2>2, <2>5, <2>6 DEF GotBits
<1>4. \/ Spoilt(x, r)
      \/ \E y : /\ r = Begin(y, f) /\ Turned(x, y, 1)
                /\ y.sizes = x.sizes /\ y.at = x.at /\ y.caps[1] >= BytesForBits(Len(x.at[1]) + n)
  BY BitmapReserveIs DEF r
<1> QED
  BY <1>2, <1>3, <1>4 DEF d

(* How many bits are 0. *)
ZeroCount(bits) == Cardinality(Zeros(bits))
(* The zero bits can be counted. *)
LEMMA ZerosFinite ==
  ASSUME NEW s \in Seq(Flags)
  PROVE  IsFiniteSet(Zeros(s)) /\ ZeroCount(s) \in Nat
<1>1. IsFiniteSet(0..(Len(s) - 1))
  BY FS_Interval
<1>2. Zeros(s) \subseteq 0..(Len(s) - 1)
  BY DEF Zeros
<1>3. IsFiniteSet(Zeros(s))
  BY <1>1, <1>2, FS_Subset
<1> QED
  BY <1>3, FS_CardinalityType DEF ZeroCount

(* Appending n equal bits adds n zeros or none. *)
LEMMA ZerosJoined ==
  ASSUME NEW s \in Seq(Flags), NEW bit \in Flags, NEW n \in Nat
  PROVE  ZeroCount(s \o Repeat(bit, n)) = ZeroCount(s) + n * (1 - bit)
<1> DEFINE l == Len(s)
           r == s \o Repeat(bit, n)
           more == l..(l + n - 1)
<1>1. r \in Seq(Flags)
  BY Joined
<1>2. Len(r) = l + n
  BY Joined
<1>3. \A i \in 1..l : r[i] = s[i]
  BY Joined
<1>4. l \in Nat
  OBVIOUS
<1>5. \A i \in (l + 1)..(l + n) : r[i] = bit
  <2> SUFFICES ASSUME NEW i \in (l + 1)..(l + n) PROVE r[i] = bit
    OBVIOUS
  <2> DEFINE t == Repeat(bit, n)
  <2>1. t \in Seq(Flags) /\ Len(t) = n /\ \A k \in 1..n : t[k] = bit
    BY RepeatIs DEF Repeat
  <2> HIDE DEF t
  <2>2. i - Len(s) \in 1..n /\ Len(s) + (i - Len(s)) = i
    BY <1>4
  <2>3. (s \o t)[Len(s) + (i - Len(s))] = t[i - Len(s)]
    BY <1>4, <2>1, <2>2
  <2> QED
    BY <2>1, <2>2, <2>3 DEF t
<1> HIDE DEF l, r
<1>6. CASE bit = 1
  <2>1. Zeros(r) = Zeros(s)
    BY <1>2, <1>3, <1>5, <1>4, <1>6 DEF Zeros, l
  <2>2. ZeroCount(s) \in Nat
    BY ZerosFinite
  <2> QED
    BY <1>6, <2>1, <2>2 DEF ZeroCount, r
<1>7. CASE bit = 0
  <2>1. Zeros(r) = Zeros(s) \cup more
    BY <1>2, <1>3, <1>5, <1>4, <1>7 DEF Zeros, l
  <2>2. Zeros(s) \cap more = {}
    BY <1>4 DEF Zeros, l
  <2>3. IsFiniteSet(more)
    BY <1>4, FS_Interval
  <2>4. Cardinality(more) = n
    <3>1. l \in Int /\ l + n - 1 \in Int
      BY <1>4
    <3>2. Cardinality(more) = IF l > l + n - 1 THEN 0 ELSE (l + n - 1) - l + 1
      BY <3>1, FS_Interval
    <3> QED
      BY <1>4, <3>2
  <2>5. IsFiniteSet(Zeros(s)) /\ ZeroCount(s) \in Nat
    BY ZerosFinite
  <2>6. Cardinality(Zeros(s) \cup more) = Cardinality(Zeros(s)) + Cardinality(more)
                                          - Cardinality(Zeros(s) \cap more)
    BY <2>3, <2>5, FS_Union, Zenon
  <2>7. Cardinality(Zeros(s) \cap more) = 0
    BY <2>2, FS_EmptySet
  <2>8. ZeroCount(r) = ZeroCount(s) + n
    BY <2>1, <2>4, <2>5, <2>6, <2>7 DEF ZeroCount
  <2> QED
    BY <1>7, <2>5, <2>8 DEF r
<1> QED
  BY <1>6, <1>7 DEF Flags

(* An empty bitmap has no zeros. *)
LEMMA NoZeros == ZeroCount(<<>>) = 0 /\ <<>> \in Seq(Flags) /\ Len(<<>>) = 0
<1>1. Zeros(<<>>) = {}
  BY DEF Zeros
<1> QED
  BY <1>1, FS_EmptySet DEF ZeroCount

(* The bitmap of so many elements, so many of them nulls. *)
Bitmap(x, n, nulls) ==
  /\ HasBitmap(x) /\ ZeroCount(x.at[1]) = nulls
  /\ x.caps[1] = 0 => x.at[1] = <<>>
  /\ x.caps[1] # 0 => Len(x.at[1]) = n

(* A bitmap that counts the nulls goes on counting them when bits are      *)
(* appended.                                                               *)
LEMMA GotBitmap ==
  ASSUME NEW x, IsNode(x), NEW m \in Nat, NEW z \in Nat, Bitmap(x, m, z), x.caps[1] # 0,
         NEW bit \in Flags, NEW n \in Nat, NEW y, GotBits(x, y, bit, n)
  PROVE  Bitmap(y, m + n, z + n * (1 - bit))
<1>1. x.at[1] \in Seq(Flags) /\ Len(x.at[1]) = m /\ ZeroCount(x.at[1]) = z
  BY DEF Bitmap, HasBitmap
<1>2. y.at[1] = x.at[1] \o Repeat(bit, n) /\ HasBitmap(y)
  BY DEF GotBits
<1>3. ZeroCount(y.at[1]) = z + n * (1 - bit)
  BY <1>1, <1>2, ZerosJoined
<1>4. Len(y.at[1]) = m + n
  <2> DEFINE marks == x.at[1]
  <2> HIDE DEF marks
  <2>1. marks \in Seq(Flags) => Len(marks \o Repeat(bit, n)) = Len(marks) + n
    BY Joined
  <2> QED
    BY <1>1, <1>2, <2>1 DEF marks
<1>5. y.caps[1] # 0
  <2>1. IsNode(y) /\ y.caps[1] >= x.caps[1]
    BY DEF GotBits, Turned
  <2>2. x.caps[1] \in Nat /\ y.caps[1] \in Nat
    BY <2>1, NodeSizes
  <2> QED
    BY <2>1, <2>2
<1> QED
  BY <1>2, <1>3, <1>4, <1>5, Zenon DEF Bitmap

(* The validity part of an append: the bitmap, allocated when the first    *)
(* null comes, says which elements are null (nanoarrow.h,                  *)
(* _ArrowArrayAppendEmptyInternal and ArrowArrayAppendNull).               *)
LEMMA AppendValidityIs ==
  ASSUME NEW x, IsNode(x), NEW z \in Nat, Bitmap(x, x.length, z),
         NEW n \in Nat \ {0}, NEW is_valid \in Flags, NEW f
  PROVE  \/ Spoilt(x, AppendValidity(Begin(x, f), n, is_valid))
         \/ \E y : /\ AppendValidity(Begin(x, f), n, is_valid) = Begin(y, f) /\ Turned(x, y, 1)
                   /\ Bitmap(y, x.length + n, z + n * (1 - is_valid))
<1> DEFINE c == Begin(x, f)
           d == AppendValidity(c, n, is_valid)
           room == MakeBitmap(c, n)
<1>1. d = IF x.caps[1] # 0 THEN BitmapAppend(c, is_valid, n)
          ELSE IF is_valid = 1 THEN c
          ELSE IF room.err = "OK" THEN BitmapAppendUnsafe(BitmapAppendUnsafe(room, 1, room.node.length), 0, n)
          ELSE room
  <2>1. c.node.caps[1] = x.caps[1]
    BY Goes
  <2> HIDE DEF c, room
  <2>2. d = IF c.node.caps[1] # 0 THEN BitmapAppend(c, is_valid, n)
            ELSE IF is_valid = 1 THEN c
            ELSE IF room.err = "OK" THEN BitmapAppendUnsafe(BitmapAppendUnsafe(room, 1, room.node.length), 0, n)
            ELSE room
    BY Zenon DEF AppendValidity, Continue, room
  <2> QED
    BY <2>1, <2>2
<1>2. room = BitmapReserve(Begin(x, f), x.length + n)
  BY Goes DEF MakeBitmap
<1>3. x.length \in Nat /\ n \in Nat /\ x.caps[1] \in Nat
  BY NodeHas, NodeSizes
<1>4. HasBitmap(x)
  BY DEF Bitmap
<1> HIDE DEF d, room
<1>5. CASE x.caps[1] # 0
  <2>1. d = BitmapAppend(Begin(x, f), is_valid, n)
    BY <1>1, <1>5
  <2>2. \/ Spoilt(x, d)
        \/ \E y : d = Begin(y, f) /\ GotBits(x, y, is_valid, n)
    BY <1>3, <1>4, <2>1, BitmapAppendIs
  <2>3. ASSUME NEW y, GotBits(x, y, is_valid, n)
        PROVE  Turned(x, y, 1) /\ Bitmap(y, x.length + n, z + n * (1 - is_valid))
    BY <1>3, <1>5, <2>3, GotBitmap DEF GotBits
  <2> QED
    BY <2>2, <2>3 DEF d
<1>6. CASE x.caps[1] = 0 /\ is_valid = 1
  <2>1. d = Begin(x, f)
    BY <1>1, <1>6
  <2>2. Turned(x, x, 1)
    <3>1. 1 \in 1..3
      OBVIOUS
    <3> QED
      BY <3>1, Itself
  <2>3. z + n * (1 - is_valid) = z
    BY <1>3, <1>6
  <2>4. Bitmap(x, x.length + n, z + n * (1 - is_valid))
    BY <1>6, <2>3 DEF Bitmap
  <2> QED
    BY <2>1, <2>2, <2>4 DEF d
<1>7. CASE x.caps[1] = 0 /\ is_valid = 0
  <2>1. d = IF room.err = "OK" THEN BitmapAppendUnsafe(BitmapAppendUnsafe(room, 1, room.node.length), 0, n)
            ELSE room
    BY <1>1, <1>7
  <2>2. x.at[1] = <<>> /\ z = 0 /\ Len(x.at[1]) = 0
    BY <1>7, NoZeros DEF Bitmap
  <2>3. CASE Spoilt(x, room)
    <3>1. room.err = "ENOMEM"
      BY <2>3 DEF Spoilt
    <3>2. d = room
      BY <2>1, <3>1
    <3> QED
      BY <2>3, <3>2 DEF d
  <2>4. ASSUME NEW y, room = Begin(y, f), Turned(x, y, 1), y.sizes = x.sizes, y.at = x.at,
               y.caps[1] >= BytesForBits(Len(x.at[1]) + (x.length + n))
        PROVE  \E w : d = Begin(w, f) /\ Turned(x, w, 1) /\ Bitmap(w, x.length + n, z + n * (1 - is_valid))
    <3>1. room.err = "OK" /\ room.node = y
      BY <2>4 DEF Begin
    <3>2. d = BitmapAppendUnsafe(BitmapAppendUnsafe(Begin(y, f), 1, x.length), 0, n)
      BY <2>1, <2>4, <3>1 DEF Turned
    <3>3. IsNode(y) /\ HasBitmap(y) /\ y.caps[1] \in Nat
      <4>1. IsNode(y)
        BY <2>4 DEF Turned
      <4>2. y.caps[1] \in Nat
        BY <4>1, NodeSizes
      <4> QED
        BY <1>4, <2>4, <4>1, <4>2 DEF HasBitmap
    <3>4. y.caps[1] >= BytesForBits(x.length + n)
      BY <1>3, <2>2, <2>4
    <3>5. RoomForBits(y, x.length)
      <4>1. Len(y.at[1]) + x.length = x.length
        BY <1>3, <2>2, <2>4
      <4>2. /\ BytesForBits(x.length) \in Nat /\ BytesForBits(x.length + n) \in Nat
            /\ BytesForBits(x.length) <= BytesForBits(x.length + n)
        BY <1>3, BytesHold, BytesGrow
      <4> QED
        BY <3>3, <3>4, <4>1, <4>2 DEF RoomForBits
    <3>6. PICK v : /\ BitmapAppendUnsafe(Begin(y, f), 1, x.length) = Begin(v, f)
                   /\ GotBits(y, v, 1, x.length) /\ v.caps = y.caps
      <4>1. 1 \in Flags
        BY DEF Flags
      <4> QED
        BY <1>3, <3>3, <3>5, <4>1, BitmapAppendUnsafeIs
    <3>7. v.at[1] = <<>> \o Repeat(1, x.length) /\ HasBitmap(v) /\ Turned(y, v, 1) /\ IsNode(v)
      BY <2>2, <2>4, <3>6 DEF GotBits, Turned
    <3>8. Len(v.at[1]) = x.length
      <4>1. 1 \in Flags
        BY DEF Flags
      <4>2. Len(<<>> \o Repeat(1, x.length)) = x.length
        BY <1>3 DEF Repeat
      <4> QED
        BY <1>3, <3>7, <4>2, NoZeros
    <3>9. ZeroCount(v.at[1]) = 0
      <4>1. 1 \in Flags
        BY DEF Flags
      <4>2. ZeroCount(<<>> \o Repeat(1, x.length)) = ZeroCount(<<>>) + x.length * (1 - 1)
        BY <1>3, <4>1, NoZeros, ZerosJoined
      <4> QED
        BY <1>3, <3>7, <4>2, NoZeros
    <3>10. v.caps[1] # 0
      <4>1. BytesForBits(x.length + n) >= 1
        BY <1>3, BytesHold
      <4>2. BytesForBits(x.length + n) \in Nat
        BY <1>3, BytesHold
      <4> QED
        BY <3>3, <3>4, <3>6, <4>1, <4>2
    <3>11. Bitmap(v, x.length, 0)
      BY <3>7, <3>8, <3>9, <3>10 DEF Bitmap
    <3>12. RoomForBits(v, n)
      BY <3>4, <3>6, <3>8 DEF RoomForBits
    <3>13. PICK w : /\ BitmapAppendUnsafe(Begin(v, f), 0, n) = Begin(w, f)
                    /\ GotBits(v, w, 0, n) /\ w.caps = v.caps
      <4>1. 0 \in Flags
        BY DEF Flags
      <4> QED
        BY <1>3, <3>7, <3>12, <4>1, BitmapAppendUnsafeIs
    <3>14. Bitmap(w, x.length + n, 0 + n * (1 - 0))
      <4>1. 0 \in Flags
        BY DEF Flags
      <4> QED
        BY <1>3, <3>7, <3>10, <3>11, <3>13, <4>1, GotBitmap
    <3>15. 0 + n * (1 - 0) = z + n * (1 - is_valid)
      BY <1>3, <1>7, <2>2
    <3>16. Turned(x, w, 1)
      <4>1. IsNode(w) /\ Turned(v, w, 1)
        BY <3>13 DEF GotBits, Turned
      <4>2. w.caps[1] \in Nat /\ v.caps[1] \in Nat
        BY <3>7, <4>1, NodeSizes
      <4>3. 1 \in 1..3
        OBVIOUS
      <4>4. Turned(x, v, 1)
        BY <1>3, <2>4, <3>3, <3>7, <4>2, <4>3, TurnedTwice
      <4> QED
        BY <1>3, <4>1, <4>2, <4>3, <4>4, TurnedTwice
    <3>17. d = Begin(w, f)
      BY <3>2, <3>6, <3>13, Zenon
    <3> QED
      BY <3>14, <3>15, <3>16, <3>17
  <2>5. \/ Spoilt(x, room)
        \/ \E y : /\ room = Begin(y, f) /\ Turned(x, y, 1)
                  /\ y.sizes = x.sizes /\ y.at = x.at
                  /\ y.caps[1] >= BytesForBits(Len(x.at[1]) + (x.length + n))
    <3>1. x.length + n \in Nat
      BY <1>3
    <3> QED
      BY <1>2, <1>4, <3>1, BitmapReserveIs
  <2> QED
    BY <2>3, <2>4, <2>5 DEF d
<1> QED
  BY <1>5, <1>6, <1>7 DEF Flags

---------------------------------------------------------------------------
(* The second and the third buffer. *)
Rising(s, n) == s \in Seq(Nat) /\ Len(s) = n + 1 /\ \A i \in 1..n : s[i] <= s[i + 1]

(* Offsets that rise go on rising when the last one is repeated. *)
LEMMA RisingMore ==
  ASSUME NEW s, NEW m \in Nat, Rising(s, m), NEW n \in Nat
  PROVE  /\ Rising(s \o Repeat(s[m + 1], n), m + n)
         /\ (s \o Repeat(s[m + 1], n))[m + n + 1] = s[m + 1]
<1> DEFINE v == s[m + 1]
           t == Repeat(v, n)
           r == s \o t
<1>1. s \in Seq(Nat) /\ Len(s) = m + 1 /\ v \in Nat
  BY DEF Rising
<1>2. \A i \in 1..m : s[i] <= s[i + 1]
  BY DEF Rising
<1>3. t \in Seq(Nat) /\ Len(t) = n /\ \A k \in 1..n : t[k] = v
  <2> HIDE DEF v
  <2> QED
    BY <1>1 DEF Repeat
<1>4. v = s[m + 1]
  OBVIOUS
<1> HIDE DEF t, v
<1>5. r \in Seq(Nat) /\ Len(r) = m + n + 1
  BY <1>1, <1>3
<1>6. \A i \in 1..(m + 1) : r[i] = s[i]
  BY <1>1, <1>3
<1>7. ASSUME NEW i \in (m + 1)..(m + n + 1) PROVE r[i] = v
  <2>1. CASE i = m + 1
    BY <1>1, <1>4, <1>6, <2>1
  <2>2. CASE i > m + 1
    <3>1. i - (m + 1) \in 1..n /\ (m + 1) + (i - (m + 1)) = i
      BY <2>2
    <3>2. r[(m + 1) + (i - (m + 1))] = t[i - (m + 1)]
      BY <1>1, <1>3, <3>1
    <3> QED
      BY <1>3, <3>1, <3>2
  <2>3. i = m + 1 \/ i > m + 1
    OBVIOUS
  <2> QED
    BY <2>1, <2>2, <2>3, Zenon
<1> HIDE DEF r
<1>8. ASSUME NEW i \in 1..(m + n) PROVE r[i] <= r[i + 1]
  <2>1. CASE i <= m
    <3>1. i \in 1..m /\ i \in 1..(m + 1) /\ i + 1 \in 1..(m + 1)
      BY <2>1
    <3> QED
      BY <1>2, <1>6, <3>1
  <2>2. CASE i > m
    <3>1. i \in (m + 1)..(m + n + 1) /\ i + 1 \in (m + 1)..(m + n + 1)
      BY <2>2
    <3>2. r[i] = v /\ r[i + 1] = v
      BY <1>7, <3>1
    <3> QED
      BY <1>1, <3>2
  <2> QED
    BY <2>1, <2>2
<1>9. Rising(r, m + n)
  BY <1>5, <1>8 DEF Rising
<1>10. r[m + n + 1] = v
  BY <1>7
<1> QED
  BY <1>9, <1>10 DEF r, t, v

(* Offsets that rise go on rising when one is added that is no smaller     *)
(* than the last.                                                          *)
LEMMA RisingOne ==
  ASSUME NEW s, NEW m \in Nat, Rising(s, m), NEW v \in Nat, s[m + 1] <= v
  PROVE  Rising(s \o <<v>>, m + 1) /\ (s \o <<v>>)[m + 2] = v
<1> DEFINE r == s \o <<v>>
<1>1. s \in Seq(Nat) /\ Len(s) = m + 1
  BY DEF Rising
<1>2. \A i \in 1..m : s[i] <= s[i + 1]
  BY DEF Rising
<1>3. r \in Seq(Nat) /\ Len(r) = m + 2 /\ r[m + 2] = v
  BY <1>1
<1>4. \A i \in 1..(m + 1) : r[i] = s[i]
  BY <1>1
<1> HIDE DEF r
<1>5. ASSUME NEW i \in 1..(m + 1) PROVE r[i] <= r[i + 1]
  <2>1. CASE i <= m
    <3>1. i \in 1..m /\ i \in 1..(m + 1) /\ i + 1 \in 1..(m + 1)
      BY <2>1
    <3> QED
      BY <1>2, <1>4, <3>1
  <2>2. CASE i > m
    <3>1. i = m + 1 /\ i + 1 = m + 2
      BY <2>2
    <3>2. r[i] = s[m + 1]
      BY <1>4, <3>1
    <3> QED
      BY <1>3, <3>1, <3>2
  <2>3. i <= m \/ i > m
    OBVIOUS
  <2> QED
    BY <2>1, <2>2, <2>3, Zenon
<1>6. Rising(r, m + 1)
  <2>1. (m + 1) + 1 = m + 2
    OBVIOUS
  <2> QED
    BY <1>3, <1>5, <2>1 DEF Rising
<1> QED
  BY <1>3, <1>6 DEF r

(* The buffers after the first of an array of so many elements. *)
Ends(x, n) == x.type # "list" => x.sizes[3] = x.at[2][n + 1]
(* The second buffer has the contents of n elements: offsets that rise and *)
(* end at the data, or values of that many bytes.                          *)
Second(x, n) ==
  /\ Kind(x, 2) = "data_offset" =>
       Rising(x.at[2], n) /\ x.sizes[2] = Width(x, 2) * (n + 1) /\ Ends(x, n)
  /\ x.type = "int16" => x.sizes[2] = 2 * n
  /\ x.type = "dense_union" => x.sizes[2] = 4 * n

(* The bytes of a bool array's bits, of which an append writes so many.    *)
BitsFit(x, n, d) ==
  /\ x.type # "bool" => d.wild = FALSE
  /\ x.type = "bool" /\ BytesForBits(n) = BytesForBits(x.length + 1) =>
       /\ d.wild = FALSE
       /\ x.sizes[2] = BytesForBits(x.length) => d.node.sizes[2] = BytesForBits(n)

(* A call has the four fields and no other. *)
IsCall(d) == d = [node |-> d.node, fails |-> d.fails, err |-> d.err, wild |-> d.wild]
(* The data bits set by _ArrowArrayAppendBits, which may lie outside the   *)
(* room it made.                                                           *)
BitsSet(d, size, items, over) ==
  [d EXCEPT !.node.sizes[2] = size, !.node.at[2] = items, !.wild = @ \/ over]
(* The same, of the node. *)
BitsSetNode(w, l, nc, s, c, a, size, items) ==
  With(w, l, nc, [s EXCEPT ![2] = size], c, [a EXCEPT ![2] = items])
(* Setting the data bits of a node that is spelled out. *)
LEMMA BitsSetIs ==
  ASSUME NEW w, NEW l, NEW nc, NEW s, NEW c, NEW a, NEW size, NEW items, NEW over, NEW f
  PROVE  LET d == BitsSet(Begin(With(w, l, nc, s, c, a), f), size, items, over) IN
           /\ d.node = BitsSetNode(w, l, nc, s, c, a, size, items)
           /\ d.err = "OK" /\ d.wild = (FALSE \/ over) /\ IsCall(d)
<1> DEFINE x == With(w, l, nc, s, c, a)
           y == With(w, l, nc, [s EXCEPT ![2] = size], c, a)
           z == With(w, l, nc, [s EXCEPT ![2] = size], c, [a EXCEPT ![2] = items])
           d == BitsSet(Begin(x, f), size, items, over)
<1>1. [x EXCEPT !.sizes[2] = size] = y
  BY DEF With
<1>2. [y EXCEPT !.at[2] = items] = z
  BY DEF With
<1> HIDE DEF x, y, z
<1>3. d = [[[Begin(x, f) EXCEPT !.node.sizes[2] = size] EXCEPT !.node.at[2] = items] EXCEPT !.wild = @ \/ over]
  BY DEF BitsSet
<1> HIDE DEF d
<1>4. /\ d.node = [[x EXCEPT !.sizes[2] = size] EXCEPT !.at[2] = items]
      /\ d.err = "OK" /\ d.wild = (FALSE \/ over)
  BY <1>3 DEF Begin
<1>5. IsCall(d)
  BY <1>3 DEF Begin, IsCall
<1> QED
  BY <1>1, <1>2, <1>4, <1>5 DEF x, z, d, BitsSetNode

(* _ArrowArrayAppendBits changes the data buffer, and stays inside it when *)
(* the n elements need no more bytes than one (nanoarrow.h:3224).          *)
LEMMA AppendBitsIs ==
  ASSUME NEW x, IsNode(x), x.type = "bool", NEW v, NEW n \in Nat \ {0}, NEW f
  PROVE  LET d == AppendBits(Begin(x, f), v, n) IN
           Spoilt(x, d) \/ (d.err = "OK" /\ IsCall(d) /\ Turned(x, d.node, 2) /\ BitsFit(x, x.length + n, d))
<1> DEFINE c == Begin(x, f)
           need == BytesForBits(x.length + 1)
           extra == need - x.sizes[2]
           room == IF extra <= 0 THEN c ELSE BufferReserve(c, 2, extra)
           d == AppendBits(c, v, n)
           Size(y) == IF extra > 0 THEN y.sizes[2] + extra ELSE y.sizes[2]
           Elements(y) == SubSeq(y.at[2], 1, x.length) \o Repeat(v, n)
           Over(y) == BytesForBits(x.length + n) > y.caps[2]
<1>1. x.length \in Nat /\ n \in Nat /\ n >= 1 /\ x.sizes[2] \in Nat /\ x.caps[2] \in Nat /\ x.sizes[2] <= x.caps[2]
  <2>1. x.length \in Nat
    BY NodeHas
  <2>2. x.sizes[2] \in Nat /\ x.caps[2] \in Nat /\ x.sizes[2] <= x.caps[2]
    BY NodeSizes
  <2> QED
    BY <2>1, <2>2
<1>2. need \in Nat /\ BytesForBits(x.length) \in Nat /\ BytesForBits(x.length) <= need
      /\ BytesForBits(x.length + n) \in Nat
  BY <1>1, BytesHold, BytesGrow
<1>3. d = IF room.err = "OK" THEN BitsSet(room, Size(room.node), Elements(room.node), Over(room.node)) ELSE room
  <2>1. c.node = x
    BY Goes
  <2>2. room = LET node  == c.node
                   e == BytesForBits(node.length + 1) - node.sizes[2]
               IN  IF e <= 0 THEN c ELSE BufferReserve(c, 2, e)
    BY <2>1
  <2>3. extra = BytesForBits(c.node.length + 1) - c.node.sizes[2]
    BY <2>1
  <2> HIDE DEF room, c, extra
  <2>4. d = IF room.err = "OK"
            THEN [room EXCEPT !.node.sizes[2] = IF extra > 0 THEN @ + extra ELSE @,
                              !.node.at[2] = SubSeq(@, 1, c.node.length) \o Repeat(v, n),
                              !.wild = @ \/ BytesForBits(c.node.length + n) > room.node.caps[2]]
            ELSE room
    BY <2>2, <2>3 DEF AppendBits, Continue
  <2> QED
    BY <2>1, <2>4 DEF BitsSet
<1> HIDE DEF d, need
<1>4. \/ Spoilt(x, room)
      \/ \E y : /\ room = Begin(y, f) /\ Turned(x, y, 2) /\ y.sizes = x.sizes /\ y.at = x.at
                /\ y.caps[2] >= need
  <2>1. CASE extra <= 0
    <3>1. 2 \in 1..3
      OBVIOUS
    <3>2. room = Begin(x, f) /\ Turned(x, x, 2)
      BY <2>1, <3>1, Itself
    <3>3. x.caps[2] >= need
      BY <1>1, <1>2, <2>1
    <3> QED
      BY <3>2, <3>3
  <2>2. CASE ~(extra <= 0)
    <3>1. extra \in Nat /\ x.sizes[2] + extra = need
      BY <1>1, <1>2, <2>2
    <3>2. room = BufferReserve(Begin(x, f), 2, extra)
      BY <2>2
    <3> HIDE DEF extra, room
    <3>3. 2 \in 1..3
      OBVIOUS
    <3>4. \/ Spoilt(x, room)
          \/ \E y : /\ room = Begin(y, f) /\ Turned(x, y, 2)
                    /\ y.sizes = x.sizes /\ y.at = x.at /\ y.caps[2] >= x.sizes[2] + extra
      BY <3>1, <3>2, <3>3, ReserveTurned
    <3> QED
      BY <3>1, <3>4
  <2> QED
    BY <2>1, <2>2
<1>5. CASE Spoilt(x, room)
  <2>1. d = room
    BY <1>3, <1>5 DEF Spoilt
  <2> QED
    BY <1>5, <2>1 DEF d
<1>6. ASSUME NEW y, room = Begin(y, f), Turned(x, y, 2), y.sizes = x.sizes, y.at = x.at, y.caps[2] >= need
      PROVE  d.err = "OK" /\ IsCall(d) /\ Turned(x, d.node, 2) /\ BitsFit(x, x.length + n, d)
  <2> DEFINE size == Size(y)
             items == Elements(y)
             over == Over(y)
             z == NewBuffer(y, 2, size, y.caps, items)
  <2>1. IsNode(y) /\ y.length = x.length /\ y.null_count = x.null_count /\ Same(x, y)
    BY <1>6 DEF Turned
  <2>2. y.caps[2] \in Nat
    BY <2>1, NodeSizes
  <2>3. room.err = "OK" /\ room.node = y
    BY <1>6 DEF Begin
  <2>4. d = BitsSet(Begin(y, f), size, items, over)
    BY <1>3, <1>6, <2>3
  <2>5. /\ size \in Nat /\ size <= y.caps[2] /\ size >= need
        /\ x.sizes[2] <= need => size = need
    <3>1. y.sizes[2] = x.sizes[2] /\ x.sizes[2] <= y.caps[2]
      <4>1. y.sizes[2] <= y.caps[2]
        BY <2>1, NodeSizes
      <4> QED
        BY <1>6, <4>1
    <3>2. y.caps[2] >= need
      BY <1>6
    <3>3. size = IF need - x.sizes[2] > 0 THEN x.sizes[2] + (need - x.sizes[2]) ELSE x.sizes[2]
      BY <3>1
    <3> HIDE DEF size
    <3> QED
      BY <1>1, <1>2, <2>2, <3>1, <3>2, <3>3
  <2> HIDE DEF size, items, over, z
  <2>7. y = With(y, y.length, y.null_count, y.sizes, y.caps, y.at)
    BY <2>1, NodeHas
  <2>8. LET e == BitsSet(Begin(With(y, y.length, y.null_count, y.sizes, y.caps, y.at), f), size, items, over) IN
          /\ e.node = BitsSetNode(y, y.length, y.null_count, y.sizes, y.caps, y.at, size, items)
          /\ e.err = "OK" /\ e.wild = (FALSE \/ over) /\ IsCall(e)
    BY BitsSetIs
  <2>9. d.node = z /\ d.err = "OK" /\ d.wild = (FALSE \/ over) /\ IsCall(d)
    BY <2>4, <2>7, <2>8, Zenon DEF BitsSetNode, NewBuffer, z
  <2>10. Turned(y, z, 2) /\ z.sizes[2] = size /\ IsNode(z)
    <3> DEFINE two == 2
               e == y.caps
    <3>1. two \in 1..3 /\ size <= e[two]
      BY <2>5
    <3>2. Grown(y.caps, e, two)
      BY <2>1, <3>1, Itself
    <3> HIDE DEF two, e
    <3>3. LET w == NewBuffer(y, two, size, e, items) IN
            Turned(y, w, two) /\ w.sizes[two] = size /\ w.caps = e /\ w.at[two] = items
      BY <2>1, <2>5, <3>1, <3>2, NewBufferIs
    <3>4. Turned(y, z, 2) /\ z.sizes[2] = size
      BY <3>3 DEF two, e, z
    <3> QED
      BY <3>4 DEF Turned
  <2>11. Turned(x, z, 2)
    <3>1. 2 \in 1..3
      OBVIOUS
    <3>2. z.caps[2] \in Nat
      BY <2>10, NodeSizes
    <3> QED
      BY <1>1, <1>6, <2>2, <2>10, <3>1, <3>2, TurnedTwice
  <2>12. ASSUME BytesForBits(x.length + n) = BytesForBits(x.length + 1)
         PROVE  d.wild = FALSE /\ (x.sizes[2] = BytesForBits(x.length) => d.node.sizes[2] = BytesForBits(x.length + n))
    <3>1. BytesForBits(x.length + n) = need
      BY <2>12 DEF need
    <3>2. over = FALSE
      <4>1. y.caps[2] >= need
        BY <1>6
      <4>2. ~(need > y.caps[2])
        BY <1>2, <2>2, <4>1
      <4> QED
        BY <3>1, <4>2 DEF over
    <3>3. x.sizes[2] = BytesForBits(x.length) => size = need
      BY <1>1, <1>2, <2>5
    <3> QED
      BY <2>9, <2>10, <3>1, <3>2, <3>3
  <2>13. BitsFit(x, x.length + n, d)
    BY <2>12 DEF BitsFit
  <2> QED
    BY <2>9, <2>11, <2>13
<1> QED
  BY <1>4, <1>5, <1>6 DEF d

(* The first buffer of an array of so many elements, so many of them nulls. *)
First(x, n, nulls) ==
  CASE x.type = "na" -> nulls = n
    [] IsUnion(x)    -> nulls = 0 /\ x.sizes[1] = n
    [] OTHER         -> Bitmap(x, n, nulls)
(* The node's own buffers hold its elements. *)
Filled(x) == First(x, x.length, x.null_count) /\ Second(x, x.length)

(* Second depends on the second and third buffer only. *)
LEMMA SecondAlike ==
  ASSUME NEW x, NEW y, NEW n, Second(x, n), Same(x, y), Alike(x, y, 2), Alike(x, y, 3)
  PROVE  Second(y, n)
BY SameKinds DEF Second, Ends, Alike, Same

(* Bitmap depends on the first buffer only. *)
LEMMA BitmapAlike ==
  ASSUME NEW x, NEW y, NEW n, NEW z, Bitmap(x, n, z), Alike(x, y, 1)
  PROVE  Bitmap(y, n, z)
BY DEF Bitmap, HasBitmap, Alike

(* A change of one buffer leaves the other two. *)
LEMMA TurnedAlike ==
  ASSUME NEW x, NEW y
  PROVE  /\ Turned(x, y, 1) => Alike(x, y, 2) /\ Alike(x, y, 3)
         /\ Turned(x, y, 2) => Alike(x, y, 1) /\ Alike(x, y, 3)
         /\ Turned(x, y, 3) => Alike(x, y, 1) /\ Alike(x, y, 2)
<1>1. 1 \in 1..3 /\ 2 \in 1..3 /\ 3 \in 1..3 /\ 1 # 2 /\ 1 # 3 /\ 2 # 3
  OBVIOUS
<1> QED
  BY <1>1, Zenon DEF Turned

(* A change of one buffer leaves a node of the same length and null count. *)
LEMMA TurnedHas ==
  ASSUME NEW x, NEW y, NEW b, Turned(x, y, b)
  PROVE  Same(x, y) /\ IsNode(y) /\ y.length = x.length /\ y.null_count = x.null_count
BY DEF Turned

(* One more step of a call, the second buffer of a node with a bitmap. *)
Filling(x, n, d) ==
  /\ d.err = "OK" /\ IsCall(d) /\ Turned(x, d.node, 2) /\ Second(d.node, x.length + n)
  /\ Kind(x, 2) = "data_offset" => d.node.at[2][x.length + n + 1] = x.at[2][x.length + 1]
  /\ BitsFit(x, x.length + n, d)

(* A node that is not a bool has not been written outside. *)
LEMMA BeginTame ==
  ASSUME NEW x, NEW y, NEW f, NEW n, x.type # "bool"
  PROVE  /\ Begin(y, f).err = "OK" /\ Begin(y, f).node = y /\ IsCall(Begin(y, f))
         /\ BitsFit(x, n, Begin(y, f))
BY DEF Begin, BitsFit, IsCall

(* The data part of an append of n elements: each type gets its zeros, or  *)
(* its last offset again.                                                  *)
LEMMA FillIs ==
  ASSUME NEW x, IsNode(x), Kind(x, 1) = "validity", Second(x, x.length), NEW n \in Nat \ {0}, NEW f
  PROVE  Spoilt(x, Fill(Begin(x, f), n)) \/ Filling(x, n, Fill(Begin(x, f), n))
<1> DEFINE c == Begin(x, f)
           d == Fill(c, n)
           l == x.length
<1>1. x.type \in Types /\ l \in Nat /\ n \in Nat
  BY NodeHas
<1>2. 2 \in 1..3
  OBVIOUS
<1>3. d = CASE Kind(x, 2) = "data_offset" ->
                 BufferAppend(c, 2, Repeat(OffsetAt(x, l), n), Width(x, 2) * n)
            [] x.type = "bool" -> AppendBits(c, 0, n)
            [] Kind(x, 2) = "data" /\ x.type # "bool" -> BufferAppend(c, 2, Repeat(0, n), Width(x, 2) * n)
            [] OTHER -> c
  <2>1. c.node = x
    BY Goes
  <2> HIDE DEF c
  <2> QED
    BY <2>1 DEF Fill
<1>4. CASE Kind(x, 2) = "data_offset"
  <2> DEFINE v == x.at[2][l + 1]
             bytes == Width(x, 2) * n
  <2>1. d = BufferAppend(Begin(x, f), 2, Repeat(v, n), bytes)
    <3>1. d = BufferAppend(c, 2, Repeat(OffsetAt(x, l), n), Width(x, 2) * n)
      <4>1. x.type # "bool"
        BY <1>1, <1>4, Laid
      <4> HIDE DEF c, d, l
      <4> QED
        BY <1>3, <1>4, <4>1
    <3>2. OffsetAt(x, l) = v
      BY Zenon DEF OffsetAt
    <3> QED
      BY <3>1, <3>2, Zenon
  <2>2. Width(x, 2) \in {4, 8} /\ x.type # "bool" /\ x.type # "int16" /\ x.type # "dense_union"
    BY <1>1, <1>4, Laid
  <2>3. bytes \in Nat
    BY <1>1, <2>2
  <2>4. /\ Rising(x.at[2], l) /\ x.sizes[2] = Width(x, 2) * (l + 1) /\ Ends(x, l)
    BY <1>4 DEF Second
  <2> HIDE DEF bytes, d
  <2>5. \/ Spoilt(x, d)
        \/ \E y : d = Begin(y, f) /\ Got(x, y, 2, Repeat(v, n), bytes)
    BY <1>2, <2>1, <2>3, AppendTurned
  <2>6. ASSUME NEW y, d = Begin(y, f), Turned(x, y, 2),
               y.sizes[2] = x.sizes[2] + bytes, y.at[2] = x.at[2] \o Repeat(v, n)
        PROVE  Filling(x, n, d)
    <3>1. Rising(y.at[2], l + n) /\ y.at[2][l + n + 1] = v
      <4>1. /\ Rising(x.at[2] \o Repeat(x.at[2][l + 1], n), l + n)
            /\ (x.at[2] \o Repeat(x.at[2][l + 1], n))[l + n + 1] = x.at[2][l + 1]
        BY <1>1, <2>4, RisingMore
      <4> QED
        BY <2>6, <4>1
    <3>2. y.sizes[2] = Width(x, 2) * (l + n + 1)
      <4>1. Width(x, 2) * (l + 1) + Width(x, 2) * n = Width(x, 2) * (l + n + 1)
        <5> DEFINE k == Width(x, 2)
        <5>1. k = 4 \/ k = 8
          BY <2>2
        <5> HIDE DEF k, l
        <5>2. k * (l + 1) + k * n = k * (l + n + 1)
          BY <1>1, <5>1
        <5> QED
          BY <5>2 DEF k
      <4> QED
        BY <2>4, <2>6, <4>1 DEF bytes
    <3>3. Same(x, y) /\ Alike(x, y, 3)
      BY <2>6, TurnedAlike, TurnedHas
    <3>4. Kind(y, 2) = Kind(x, 2) /\ Width(y, 2) = Width(x, 2) /\ y.type = x.type
      BY <3>3, SameKinds DEF Same
    <3>5. Ends(y, l + n)
      BY <2>4, <3>1, <3>3, <3>4 DEF Ends, Alike
    <3>6. Second(y, l + n)
      BY <2>2, <3>1, <3>2, <3>4, <3>5 DEF Second
    <3>7. d.err = "OK" /\ d.node = y /\ IsCall(d) /\ BitsFit(x, l + n, d)
      <4>1. Begin(y, f).err = "OK" /\ Begin(y, f).node = y /\ IsCall(Begin(y, f))
        BY DEF Begin, IsCall
      <4> DEFINE m == l + n
      <4> HIDE DEF m
      <4>2. BitsFit(x, m, Begin(y, f))
        BY <2>2, BeginTame
      <4> QED
        BY <2>6, <4>1, <4>2 DEF m
    <3> QED
      BY <2>6, <3>1, <3>6, <3>7 DEF Filling
  <2> QED
    BY <2>5, <2>6 DEF d, Got
<1>5. CASE x.type = "bool"
  <2>1. Kind(x, 2) = "data"
    BY <1>1, <1>5, Laid
  <2>2. d = AppendBits(Begin(x, f), 0, n)
    BY <1>3, <1>5, <2>1
  <2> HIDE DEF d
  <2>3. Spoilt(x, d) \/ (d.err = "OK" /\ IsCall(d) /\ Turned(x, d.node, 2) /\ BitsFit(x, l + n, d))
    BY <1>5, <2>2, AppendBitsIs
  <2>4. ASSUME Turned(x, d.node, 2) PROVE Second(d.node, l + n)
    <3>1. Same(x, d.node)
      BY <2>4, TurnedHas
    <3>2. Kind(d.node, 2) = Kind(x, 2) /\ d.node.type = x.type
      BY <3>1, SameKinds DEF Same
    <3> QED
      BY <1>5, <2>1, <3>2 DEF Second
  <2> QED
    BY <2>1, <2>3, <2>4 DEF Filling, d
<1>6. CASE Kind(x, 2) = "data" /\ x.type # "bool"
  <2>1. x.type = "int16" /\ Width(x, 2) = 2
    BY <1>1, <1>6, Laid
  <2>2. d = BufferAppend(Begin(x, f), 2, Repeat(0, n), 2 * n)
    BY <1>3, <1>6, <2>1
  <2> HIDE DEF d
  <2>3. 2 * n \in Nat
    BY <1>1
  <2>4. \/ Spoilt(x, d)
        \/ \E y : d = Begin(y, f) /\ Got(x, y, 2, Repeat(0, n), 2 * n)
    BY <1>2, <2>2, <2>3, AppendTurned
  <2>5. ASSUME NEW y, d = Begin(y, f), Turned(x, y, 2), y.sizes[2] = x.sizes[2] + 2 * n
        PROVE  Filling(x, n, d)
    <3>1. x.sizes[2] = 2 * l
      BY <2>1 DEF Second
    <3>2. y.sizes[2] = 2 * (l + n)
      BY <1>1, <2>5, <3>1
    <3>3. Same(x, y)
      BY <2>5, TurnedHas
    <3>4. Kind(y, 2) = Kind(x, 2) /\ y.type = x.type
      BY <3>3, SameKinds DEF Same
    <3>5. Second(y, l + n)
      BY <1>6, <2>1, <3>2, <3>4 DEF Second
    <3>6. d.err = "OK" /\ d.node = y /\ IsCall(d) /\ BitsFit(x, l + n, d)
      BY <1>6, <2>5, BeginTame
    <3> QED
      BY <1>6, <2>5, <3>5, <3>6 DEF Filling
  <2> QED
    BY <2>4, <2>5 DEF d, Got
<1>7. CASE Kind(x, 2) # "data_offset" /\ x.type # "bool" /\ Kind(x, 2) # "data"
  <2>1. d = Begin(x, f)
    BY <1>3, <1>7
  <2>2. x.type # "int16" /\ x.type # "dense_union"
    <3>1. x.type = "int16" => Kind(x, 2) = "data"
      BY <1>1, Laid
    <3>2. x.type = "dense_union" => Kind(x, 1) = "type_id"
      BY <1>1, Laid DEF IsUnion
    <3> QED
      BY <1>7, <3>1, <3>2
  <2>3. Second(x, l + n)
    BY <1>7, <2>2 DEF Second
  <2>4. Turned(x, x, 2)
    BY <1>2, Itself
  <2> HIDE DEF d
  <2>5. d.err = "OK" /\ d.node = x /\ IsCall(d) /\ BitsFit(x, l + n, d)
    BY <1>7, <2>1, BeginTame
  <2> QED
    BY <1>7, <2>3, <2>4, <2>5 DEF Filling, d
<1> QED
  BY <1>4, <1>5, <1>6, <1>7

---------------------------------------------------------------------------
(* What a call makes of a node: it grows by so many elements, or it is     *)
(* refused and stays, or it has lost a buffer.                             *)
Grows(x, n, d) ==
  /\ d.err = "OK" /\ Same(x, d.node) /\ IsNode(d.node) /\ d.node.length = x.length + n
  /\ Filled(d.node) /\ BitsFit(x, x.length + n, d)
(* A call that was refused has changed nothing. *)
Stays(x, d) == d.err \notin {"OK", "ENOMEM"} /\ d.wild = FALSE /\ d.node = x
(* The last offset is what it was. *)
LastStays(x, y) ==
  Kind(x, 2) = "data_offset" => y.at[2][y.length + 1] = x.at[2][x.length + 1]

(* The node with another length. *)
Longer(x, l) == [x EXCEPT !.length = l]
(* The node with another length and null count. *)
Counted(x, l, n) == [[x EXCEPT !.length = l] EXCEPT !.null_count = n]
(* Nothing but the length and the null count is other than it was. *)
IsCounted(x, y, l, n) ==
  /\ Same(x, y) /\ IsNode(y) /\ y.length = l /\ y.null_count = n
  /\ y.sizes = x.sizes /\ y.caps = x.caps /\ y.at = x.at
(* Counting changes nothing but the counts. *)
LEMMA CountedIs ==
  ASSUME NEW x, IsNode(x), NEW l \in Nat, NEW n \in Nat
  PROVE  IsCounted(x, Counted(x, l, n), l, n)
<1> DEFINE z == With(x, l, n, x.sizes, x.caps, x.at)
<1>1. x = With(x, x.length, x.null_count, x.sizes, x.caps, x.at) /\ Room(x.sizes, x.caps)
      /\ x.at = [b \in 1..3 |-> x.at[b]]
  BY DEF IsNode
<1>2. Counted(x, l, n) = z
  <2> DEFINE v == [x EXCEPT !.length = l]
             w == With(x, l, x.null_count, x.sizes, x.caps, x.at)
  <2>1. v = w
    BY <1>1 DEF With
  <2>2. [w EXCEPT !.null_count = n] = z
    BY DEF With
  <2> HIDE DEF v, w, z
  <2>3. [v EXCEPT !.null_count = n] = z
    BY <2>1, <2>2
  <2> QED
    BY <2>3 DEF Counted, v
<1>3. IsNode(z)
  BY <1>1, WithNode
<1>4. /\ Same(x, z) /\ z.length = l /\ z.null_count = n
      /\ z.sizes = x.sizes /\ z.caps = x.caps /\ z.at = x.at
  BY WithIs, WithSame
<1> HIDE DEF z
<1> QED
  BY <1>2, <1>3, <1>4 DEF IsCounted

(* Lengthening changes nothing but the length. *)
LEMMA LongerIs ==
  ASSUME NEW x, IsNode(x), NEW l \in Nat
  PROVE  LET y == Longer(x, l) IN
           /\ Same(x, y) /\ IsNode(y) /\ y.length = l /\ y.null_count = x.null_count
           /\ y.sizes = x.sizes /\ y.caps = x.caps /\ y.at = x.at
<1> DEFINE z == With(x, l, x.null_count, x.sizes, x.caps, x.at)
<1>1. x = With(x, x.length, x.null_count, x.sizes, x.caps, x.at) /\ Room(x.sizes, x.caps)
      /\ x.at = [b \in 1..3 |-> x.at[b]] /\ x.null_count \in Nat
  BY DEF IsNode
<1>2. Longer(x, l) = z
  BY <1>1 DEF With, Longer
<1>3. IsNode(z)
  BY <1>1, WithNode
<1>4. /\ Same(x, z) /\ z.length = l /\ z.null_count = x.null_count
      /\ z.sizes = x.sizes /\ z.caps = x.caps /\ z.at = x.at
  BY WithIs, WithSame
<1> HIDE DEF z
<1> QED
  BY <1>2, <1>3, <1>4

(* CountElements of a call that goes well. *)
LEMMA CountElementsIs ==
  ASSUME NEW d, IsNode(d.node), IsCall(d), NEW n \in Nat, NEW is_valid \in Flags
  PROVE  LET r == CountElements(d, n, is_valid) IN
           /\ r.err = d.err /\ r.wild = d.wild
           /\ Same(d.node, r.node) /\ IsNode(r.node)
           /\ r.node.length = d.node.length + n
           /\ r.node.null_count = d.node.null_count + n * (1 - is_valid)
           /\ r.node.sizes = d.node.sizes /\ r.node.caps = d.node.caps /\ r.node.at = d.node.at
<1> DEFINE x == d.node
           l == x.length + n
           k == x.null_count + n * (1 - is_valid)
           r == CountElements(d, n, is_valid)
           y == Counted(x, l, k)
<1>1. x.length \in Nat /\ x.null_count \in Nat
  BY DEF IsNode
<1>2. l \in Nat /\ k \in Nat
  <2>1. is_valid = 0 \/ is_valid = 1
    BY DEF Flags
  <2> QED
    BY <1>1, <2>1
<1>3. r = [d EXCEPT !.node.length = l, !.node.null_count = k]
  BY DEF CountElements
<1> HIDE DEF l, k, r
<1>4. r.node = y /\ r.err = d.err /\ r.wild = d.wild
  <2> DEFINE z == d.node
             e == d.err
             w == d.wild
             f == d.fails
  <2>1. d = [node |-> z, fails |-> f, err |-> e, wild |-> w]
    BY DEF IsCall
  <2> HIDE DEF z, e, w, f
  <2>2. r = [node |-> [[z EXCEPT !.length = l] EXCEPT !.null_count = k], fails |-> f, err |-> e, wild |-> w]
    BY <1>3, <2>1
  <2> QED
    BY <2>2 DEF z, e, w, Counted
<1>5. /\ Same(x, y) /\ IsNode(y) /\ y.length = l /\ y.null_count = k
      /\ y.sizes = x.sizes /\ y.caps = x.caps /\ y.at = x.at
  <2>1. IsNode(x)
    OBVIOUS
  <2> HIDE DEF x
  <2>2. IsCounted(x, Counted(x, l, k), l, k)
    BY <1>2, <2>1, CountedIs
  <2> QED
    BY <2>2 DEF IsCounted
<1> HIDE DEF y
<1> QED
  BY <1>4, <1>5 DEF l, k, r

(* CountElement. *)
LEMMA CountElementIs ==
  ASSUME NEW x, IsNode(x), Bitmap(x, x.length, x.null_count), NEW f
  PROVE  LET d == CountElement(Begin(x, f)) IN
           \/ Spoilt(x, d)
           \/ /\ d.err = "OK" /\ d.wild = FALSE /\ Same(x, d.node) /\ IsNode(d.node)
              /\ d.node.length = x.length + 1 /\ Bitmap(d.node, d.node.length, d.node.null_count)
              /\ Alike(x, d.node, 2) /\ Alike(x, d.node, 3)
<1> DEFINE c == Begin(x, f)
           marked == IF x.caps[1] # 0 THEN BitmapAppend(c, 1, 1) ELSE c
           d == CountElement(c)
<1>1. d = IF marked.err = "OK" THEN [marked EXCEPT !.node.length = @ + 1] ELSE marked
  <2>1. c.node = x
    BY Goes
  <2>2. marked = IF c.node.caps[1] # 0 THEN BitmapAppend(c, 1, 1) ELSE c
    BY <2>1
  <2> HIDE DEF c, marked
  <2> QED
    BY <2>2 DEF CountElement, Continue
<1>2. x.length \in Nat /\ x.null_count \in Nat
  BY DEF IsNode
<1>3. \/ Spoilt(x, marked)
      \/ \E y : marked = Begin(y, f) /\ Turned(x, y, 1) /\ Bitmap(y, x.length + 1, x.null_count)
  <2>1. CASE x.caps[1] # 0
    <3>1. 1 \in Flags /\ 1 \in Nat
      BY DEF Flags
    <3>2. HasBitmap(x)
      BY DEF Bitmap
    <3>3. \/ Spoilt(x, marked)
          \/ \E y : marked = Begin(y, f) /\ GotBits(x, y, 1, 1)
      BY <2>1, <3>1, <3>2, BitmapAppendIs
    <3>4. ASSUME NEW y, GotBits(x, y, 1, 1)
          PROVE  Turned(x, y, 1) /\ Bitmap(y, x.length + 1, x.null_count)
      <4>1. Bitmap(y, x.length + 1, x.null_count + 1 * (1 - 1))
        BY <1>2, <2>1, <3>1, <3>4, GotBitmap
      <4>2. x.null_count + 1 * (1 - 1) = x.null_count
        BY <1>2
      <4> QED
        BY <3>4, <4>1, <4>2 DEF GotBits
    <3> QED
      BY <3>3, <3>4
  <2>2. CASE x.caps[1] = 0
    <3>1. marked = Begin(x, f)
      BY <2>2
    <3>2. 1 \in 1..3
      OBVIOUS
    <3>3. Turned(x, x, 1)
      BY <3>2, Itself
    <3>4. Bitmap(x, x.length + 1, x.null_count)
      BY <2>2 DEF Bitmap
    <3> QED
      BY <3>1, <3>3, <3>4
  <2> QED
    BY <2>1, <2>2
<1> HIDE DEF marked, d
<1>4. CASE Spoilt(x, marked)
  <2>1. d = marked
    BY <1>1, <1>4 DEF Spoilt
  <2> QED
    BY <1>4, <2>1 DEF d
<1>5. ASSUME NEW y, marked = Begin(y, f), Turned(x, y, 1), Bitmap(y, x.length + 1, x.null_count)
      PROVE  /\ d.err = "OK" /\ d.wild = FALSE /\ Same(x, d.node) /\ IsNode(d.node)
             /\ d.node.length = x.length + 1 /\ Bitmap(d.node, d.node.length, d.node.null_count)
             /\ Alike(x, d.node, 2) /\ Alike(x, d.node, 3)
  <2> DEFINE l == x.length + 1
             z == Longer(y, l)
  <2>1. Same(x, y) /\ IsNode(y) /\ y.length = x.length /\ y.null_count = x.null_count
        /\ Alike(x, y, 2) /\ Alike(x, y, 3)
    BY <1>5, TurnedHas, TurnedAlike
  <2>2. d = [Begin(y, f) EXCEPT !.node.length = @ + 1]
    <3>1. marked.err = "OK"
      BY <1>5 DEF Begin
    <3> QED
      BY <1>1, <1>5, <3>1
  <2>3. d = [Begin(y, f) EXCEPT !.node.length = l]
    BY <2>1, <2>2 DEF Begin
  <2>4. l \in Nat
    BY <1>2
  <2> HIDE DEF l
  <2>5. d.node = z /\ d.err = "OK" /\ d.wild = FALSE
    BY <2>3 DEF Begin, Longer
  <2>6. /\ Same(y, z) /\ IsNode(z) /\ z.length = l /\ z.null_count = y.null_count
        /\ z.sizes = y.sizes /\ z.caps = y.caps /\ z.at = y.at
    BY <2>1, <2>4, LongerIs
  <2> HIDE DEF z
  <2>7. Same(x, z)
    BY <2>1, <2>6, SameTwice
  <2>8. Alike(x, z, 2) /\ Alike(x, z, 3) /\ Alike(y, z, 1)
    BY <2>1, <2>6 DEF Alike
  <2>9. Bitmap(z, l, x.null_count)
    BY <1>5, <2>8, BitmapAlike DEF l
  <2> QED
    BY <2>1, <2>5, <2>6, <2>7, <2>8, <2>9 DEF l
<1> QED
  BY <1>3, <1>4, <1>5 DEF d

(* The visit of a node by _ArrowArrayAppendEmptyInternal, if it has a      *)
(* bitmap.                                                                 *)
EmptyValid(x, n, is_valid, f) ==
  Continue(Continue(AppendValidity(Begin(x, f), n, is_valid), LAMBDA d : Fill(d, n)),
           LAMBDA d : CountElements(d, n, is_valid))

(* In a type with a validity bitmap the first buffer is it. *)
LEMMA FilledValid ==
  ASSUME NEW x, Kind(x, 1) = "validity", x.type \in Types
  PROVE  \A n, z : First(x, n, z) <=> Bitmap(x, n, z)
<1>1. x.type # "na" /\ ~IsUnion(x)
  BY Laid
<1> QED
  BY <1>1 DEF First

(* What is said of the data bits depends on the type, the length and the   *)
(* size of that buffer.                                                    *)
LEMMA BitsFitSame ==
  ASSUME NEW x, NEW y, NEW n, NEW d, NEW e, BitsFit(y, n, d), Same(x, y), x.length = y.length,
         x.sizes[2] = y.sizes[2], d.wild = e.wild, d.node.sizes[2] = e.node.sizes[2]
  PROVE  BitsFit(x, n, e)
BY DEF BitsFit, Same

(* A node that memory ran out on spoils whatever has its place. *)
LEMMA SpoiltSame ==
  ASSUME NEW x, NEW y, NEW d, Spoilt(y, d), Same(x, y)
  PROVE  Spoilt(x, d)
BY SameTwice DEF Spoilt

---------------------------------------------------------------------------
(* The offsets of the elements that a dense union gets, one by one. *)
OneOffset(c, length) == IF c.err = "OK" THEN UnionOffset(c, length) ELSE c
(* The n union offsets one after the other, as a function of how many are  *)
(* written.                                                                *)
OffsetRule(c, length, f, i) == f[i] = IF i = 0 THEN c ELSE OneOffset(f[i - 1], length)

(* There is such a function: the recursion of UnionOffsets is well         *)
(* founded.                                                                *)
LEMMA OffsetsExist ==
  ASSUME NEW c, NEW length, NEW n \in Nat
  PROVE  \E f : f = [i \in 0..n |-> f[i]] /\ \A i \in 0..n : OffsetRule(c, length, f, i)
<1> DEFINE T == {k \in Nat : \E f : f = [i \in 0..k |-> f[i]] /\ \A i \in 0..k : OffsetRule(c, length, f, i)}
<1>1. 0 \in T
  <2> DEFINE f == [i \in 0..0 |-> c]
  <2>1. f = [i \in 0..0 |-> f[i]] /\ \A i \in 0..0 : OffsetRule(c, length, f, i)
    BY DEF OffsetRule
  <2> HIDE DEF f
  <2> QED
    BY <2>1
<1>2. ASSUME NEW k \in T PROVE k + 1 \in T
  <2>1. PICK g : g = [i \in 0..k |-> g[i]] /\ \A i \in 0..k : OffsetRule(c, length, g, i)
    OBVIOUS
  <2> DEFINE new == OneOffset(g[k], length)
             f == [i \in 0..(k + 1) |-> IF i = k + 1 THEN new ELSE g[i]]
  <2>2. k \in Nat /\ k + 1 \in 0..(k + 1) /\ \A i \in 0..k : i \in 0..(k + 1) /\ i # k + 1
    OBVIOUS
  <2> HIDE DEF T
  <2>3. \A i \in 0..k : f[i] = g[i]
    BY <2>2
  <2>4. f[k + 1] = new
    BY <2>2
  <2>5. f = [i \in 0..(k + 1) |-> f[i]]
    OBVIOUS
  <2> HIDE DEF f
  <2>6. ASSUME NEW i \in 0..(k + 1) PROVE OffsetRule(c, length, f, i)
    <3>1. CASE i = k + 1
      <4>1. i # 0 /\ i - 1 = k /\ k \in 0..k
        BY <2>2, <3>1
      <4>2. f[i - 1] = g[k]
        BY <2>3, <4>1
      <4> QED
        BY <2>4, <3>1, <4>1, <4>2 DEF OffsetRule
    <3>2. CASE i # k + 1
      <4>1. i \in 0..k /\ (i # 0 => i - 1 \in 0..k)
        BY <2>2, <3>2
      <4>2. f[i] = g[i] /\ OffsetRule(c, length, g, i) /\ (i # 0 => f[i - 1] = g[i - 1])
        BY <2>1, <2>3, <4>1
      <4> QED
        BY <4>2 DEF OffsetRule
    <3> QED
      BY <3>1, <3>2
  <2>7. k + 1 \in Nat
    BY <2>2
  <2> QED
    BY <2>5, <2>6, <2>7 DEF T
<1>3. n \in T
  <2>1. T \subseteq Nat
    OBVIOUS
  <2> HIDE DEF T
  <2> QED
    BY <1>1, <1>2, <2>1, NatInduct
<1> QED
  BY <1>3

(* The union has n more offsets. *)
HasOffsets(x, y, n) == Turned(x, y, 2) /\ y.sizes[2] = x.sizes[2] + 4 * n
(* The loop that appends the union offsets appends n of them, or runs out  *)
(* of memory.                                                              *)
LEMMA UnionOffsetsIs ==
  ASSUME NEW x, IsNode(x), NEW f, NEW length, NEW n \in Nat
  PROVE  LET d == UnionOffsets(Begin(x, f), length, n) IN
           Spoilt(x, d) \/ \E y : d = Begin(y, f) /\ HasOffsets(x, y, n)
<1> DEFINE c == Begin(x, f)
           Body(g) == [i \in 0..n |-> IF i = 0 THEN c ELSE OneOffset(g[i - 1], length)]
           done == CHOOSE g : g = Body(g)
<1>1. UnionOffsets(c, length, n) = done[n]
  BY DEF UnionOffsets, Continue, OneOffset
<1>2. PICK g : g = [i \in 0..n |-> g[i]] /\ \A i \in 0..n : OffsetRule(c, length, g, i)
  BY OffsetsExist
<1>3. g = Body(g)
  BY <1>2 DEF OffsetRule
<1>4. done = Body(done)
  <2> HIDE DEF Body
  <2> QED
    BY <1>3
<1> HIDE DEF done
<1>5. \A i \in 0..n : OffsetRule(c, length, done, i)
  <2> SUFFICES ASSUME NEW i \in 0..n PROVE OffsetRule(c, length, done, i)
    OBVIOUS
  <2> DEFINE h == Body(done)
  <2>1. h[i] = IF i = 0 THEN c ELSE OneOffset(done[i - 1], length)
    OBVIOUS
  <2> HIDE DEF h
  <2>2. done = h
    BY <1>4 DEF h
  <2> QED
    BY <2>1, <2>2 DEF OffsetRule
<1> DEFINE Good(d, i) == Spoilt(x, d) \/ \E y : d = Begin(y, f) /\ HasOffsets(x, y, i)
           T == {k \in Nat : k <= n => Good(done[k], k)}
<1> HIDE DEF c, Good
<1>6. 0 \in T
  <2>1. 0 \in 0..n /\ 2 \in 1..3
    OBVIOUS
  <2>2. done[0] = Begin(x, f)
    BY <1>5, <2>1 DEF OffsetRule, c
  <2>3. HasOffsets(x, x, 0)
    <3>1. x.sizes[2] \in Nat
      BY NodeSizes
    <3> QED
      BY <2>1, <3>1, Itself DEF HasOffsets
  <2>4. Good(done[0], 0)
    BY <2>2, <2>3 DEF Good
  <2> QED
    BY <2>4
<1>7. ASSUME NEW k \in T PROVE k + 1 \in T
  <2> SUFFICES ASSUME k + 1 <= n PROVE Good(done[k + 1], k + 1)
    OBVIOUS
  <2>1. k \in Nat /\ k + 1 \in 0..n /\ k + 1 # 0 /\ (k + 1) - 1 = k /\ k <= n
    OBVIOUS
  <2>2. Good(done[k], k)
    BY <2>1
  <2>3. done[k + 1] = OneOffset(done[k], length)
    BY <1>5, <2>1 DEF OffsetRule
  <2> DEFINE e == done[k]
  <2> HIDE DEF e, T
  <2>4. CASE Spoilt(x, e)
    <3>1. OneOffset(e, length) = e
      BY <2>4 DEF Spoilt, OneOffset
    <3> QED
      BY <2>3, <2>4, <3>1 DEF Good, e
  <2>5. ASSUME NEW y, e = Begin(y, f), HasOffsets(x, y, k) PROVE Good(done[k + 1], k + 1)
    <3>1. OneOffset(e, length) = UnionOffset(e, length)
      BY <2>5 DEF Begin, OneOffset
    <3>2. done[k + 1] = BufferAppend(Begin(y, f), 2, <<length - 1>>, 4)
      BY <2>3, <2>5, <3>1 DEF e, UnionOffset
    <3>3. IsNode(y) /\ 2 \in 1..3 /\ 4 \in Nat /\ Turned(x, y, 2)
      BY <2>5 DEF HasOffsets, Turned
    <3> DEFINE r == BufferAppend(Begin(y, f), 2, <<length - 1>>, 4)
    <3>4. Spoilt(y, r) \/ \E z : r = Begin(z, f) /\ Got(y, z, 2, <<length - 1>>, 4)
      BY <3>3, AppendTurned
    <3> HIDE DEF r
    <3>5. CASE Spoilt(y, r)
      <4>1. Same(x, y)
        BY <3>3, TurnedHas
      <4>2. Spoilt(x, r)
        BY <3>5, <4>1, SpoiltSame
      <4> QED
        BY <3>2, <4>2 DEF Good, r
    <3>6. ASSUME NEW z, r = Begin(z, f), Got(y, z, 2, <<length - 1>>, 4) PROVE Good(done[k + 1], k + 1)
      <4>1. Turned(y, z, 2) /\ z.sizes[2] = y.sizes[2] + 4 /\ IsNode(z)
        BY <3>6 DEF Got, Turned
      <4>2. x.caps[2] \in Nat /\ y.caps[2] \in Nat /\ z.caps[2] \in Nat
        BY <3>3, <4>1, NodeSizes
      <4>3. Turned(x, z, 2)
        BY <3>3, <4>1, <4>2, TurnedTwice
      <4>4. z.sizes[2] = x.sizes[2] + 4 * (k + 1)
        <5>1. y.sizes[2] = x.sizes[2] + 4 * k /\ x.sizes[2] \in Nat
          BY <2>5, NodeSizes DEF HasOffsets
        <5> QED
          BY <2>1, <4>1, <5>1
      <4>5. HasOffsets(x, z, k + 1)
        BY <4>3, <4>4 DEF HasOffsets
      <4> QED
        BY <3>2, <3>6, <4>5 DEF Good, r
    <3> QED
      BY <3>4, <3>5, <3>6
  <2> QED
    BY <2>2, <2>4, <2>5 DEF Good, e
<1>8. n \in T
  <2>1. T \subseteq Nat
    OBVIOUS
  <2> HIDE DEF T
  <2> QED
    BY <1>6, <1>7, <2>1, NatInduct
<1>9. Good(done[n], n)
  BY <1>8
<1> QED
  BY <1>1, <1>9 DEF Good, c

(* The parts of a node that say how full its buffers are. *)
LEMMA FirstAlike ==
  ASSUME NEW x, NEW y, NEW n, NEW z, First(x, n, z), Same(x, y), Alike(x, y, 1)
  PROVE  First(y, n, z)
<1>1. y.type = x.type /\ IsUnion(y) = IsUnion(x)
  BY DEF Same, IsUnion
<1>2. CASE x.type = "na"
  BY <1>1, <1>2 DEF First, IsUnion
<1>3. CASE IsUnion(x)
  <2>1. z = 0 /\ x.sizes[1] = n /\ x.type # "na"
    BY <1>3 DEF First, IsUnion
  <2>2. y.sizes[1] = n
    BY <2>1 DEF Alike
  <2> QED
    BY <1>1, <1>3, <2>1, <2>2 DEF First
<1>4. CASE x.type # "na" /\ ~IsUnion(x)
  <2>1. Bitmap(x, n, z)
    BY <1>4 DEF First
  <2>2. Bitmap(y, n, z)
    BY <2>1, BitmapAlike
  <2> QED
    BY <1>1, <1>4, <2>2 DEF First
<1> QED
  BY <1>2, <1>3, <1>4

(* A call whose buffers are written and that has to count the elements. *)
Ready(x, n, is_valid, d) ==
  /\ d.err = "OK" /\ IsCall(d) /\ Same(x, d.node) /\ IsNode(d.node)
  /\ d.node.length = x.length /\ d.node.null_count = x.null_count
  /\ First(d.node, x.length + n, x.null_count + n * (1 - is_valid))
  /\ Second(d.node, x.length + n) /\ BitsFit(x, x.length + n, d)
(* An append of n empty elements, which leaves the last offset. *)
Appends(x, n, d) ==
  Grows(x, n, d) /\ (Kind(x, 2) = "data_offset" => d.node.at[2][d.node.length + 1] = x.at[2][x.length + 1])

(* Counting elements whose values are there leaves a filled node. *)
LEMMA CountedUp ==
  ASSUME NEW x, IsNode(x), NEW n \in Nat, NEW is_valid \in Flags, NEW d, Ready(x, n, is_valid, d)
  PROVE  LET r == CountElements(d, n, is_valid) IN Grows(x, n, r) /\ r.node.at = d.node.at
<1> DEFINE r == CountElements(d, n, is_valid)
           y == d.node
<1>1. IsNode(y) /\ IsCall(d)
  BY DEF Ready
<1>2. /\ r.err = d.err /\ r.wild = d.wild /\ Same(y, r.node) /\ IsNode(r.node)
      /\ r.node.length = y.length + n /\ r.node.null_count = y.null_count + n * (1 - is_valid)
      /\ r.node.sizes = y.sizes /\ r.node.caps = y.caps /\ r.node.at = y.at
  BY <1>1, CountElementsIs
<1> HIDE DEF r, y
<1>3. /\ d.err = "OK" /\ Same(x, y) /\ y.length = x.length /\ y.null_count = x.null_count
      /\ First(y, x.length + n, x.null_count + n * (1 - is_valid))
      /\ Second(y, x.length + n) /\ BitsFit(x, x.length + n, d)
  BY DEF Ready, y
<1>4. Alike(y, r.node, 1) /\ Alike(y, r.node, 2) /\ Alike(y, r.node, 3)
  BY <1>2 DEF Alike
<1> DEFINE l == x.length + n
           z == x.null_count + n * (1 - is_valid)
<1>5. r.node.length = l /\ r.node.null_count = z
  BY <1>2, <1>3
<1> HIDE DEF l, z
<1>6. First(r.node, l, z)
  <2>1. First(y, l, z)
    BY <1>3 DEF l, z
  <2> QED
    BY <1>2, <1>4, <2>1, FirstAlike
<1>7. Second(r.node, l)
  <2>1. Second(y, l)
    BY <1>3 DEF l
  <2> QED
    BY <1>2, <1>4, <2>1, SecondAlike
<1>8. Filled(r.node)
  BY <1>5, <1>6, <1>7 DEF Filled
<1>9. Same(x, r.node)
  BY <1>2, <1>3, SameTwice
<1>10. BitsFit(x, l, r)
  <2>1. BitsFit(x, l, d)
    BY <1>3 DEF l
  <2>2. d.node.sizes[2] = r.node.sizes[2] /\ Same(x, x)
    BY <1>2 DEF y, Same
  <2> QED
    BY <1>2, <2>1, <2>2, BitsFitSame
<1>11. Grows(x, n, r)
  BY <1>2, <1>3, <1>5, <1>8, <1>9, <1>10 DEF Grows, l
<1> QED
  BY <1>2, <1>11 DEF r, y

(* The visit of a node by _ArrowArrayAppendEmptyInternal; length is that   *)
(* of the first child, which a dense union refers to.                      *)
EmptyOwn(x, n, is_valid, length, f) ==
  CASE x.type = "na"           -> Begin(x, f)
    [] x.type = "sparse_union" -> TypeIds(Begin(x, f), 0, n)
    [] x.type = "dense_union"  -> Continue(TypeIds(Begin(x, f), 0, n), LAMBDA d : UnionOffsets(d, length, n))
    [] OTHER                   -> Continue(AppendValidity(Begin(x, f), n, is_valid), LAMBDA d : Fill(d, n))
(* What the elements count as: na is always null, a union never. *)
Valid(x, is_valid) == IF x.type = "na" THEN 0 ELSE IF IsUnion(x) THEN 1 ELSE is_valid
(* The visit of a node by _ArrowArrayAppendEmptyInternal. *)
EmptyNode(x, n, is_valid, length, f) ==
  IF n = 0 THEN Begin(x, f)
  ELSE Continue(EmptyOwn(x, n, is_valid, length, f), LAMBDA d : CountElements(d, n, Valid(x, is_valid)))

(* EmptyAt visits the node of its place. *)
LEMMA EmptyAtNode ==
  ASSUME NEW t, NEW p, NEW asked, NEW place
  PROVE  EmptyAt(t, p, asked, place)
         = EmptyNode(t[p], asked[p].n, asked[p].is_valid,
                     t[t[p].kids[1]].length + asked[t[p].kids[1]].n, FailsAt(place, p))
BY Zenon DEF EmptyAt, EmptyNode, EmptyOwn, Valid

(* Each kind of node is ready to count, unless a buffer is lost. *)
LEMMA NaReady ==
  ASSUME NEW x, IsNode(x), Filled(x), x.type = "na", NEW n \in Nat, NEW f
  PROVE  Ready(x, n, 0, Begin(x, f))
<1>1. x.length \in Nat /\ x.null_count \in Nat
  BY NodeHas
<1>2. x.null_count = x.length
  BY DEF Filled, First, IsUnion
<1>3. First(x, x.length + n, x.null_count + n * (1 - 0))
  <2>1. x.null_count + n * (1 - 0) = x.length + n
    BY <1>1, <1>2
  <2> QED
    BY <2>1 DEF First, IsUnion
<1>4. Second(x, x.length + n)
  <2>1. Kind(x, 2) = "none"
    BY NodeHas, Laid
  <2> QED
    BY <2>1 DEF Second
<1>5. Begin(x, f).err = "OK" /\ Begin(x, f).node = x /\ IsCall(Begin(x, f)) /\ BitsFit(x, x.length + n, Begin(x, f))
  <2> DEFINE m == x.length + n
  <2> HIDE DEF m
  <2>1. Begin(x, f).err = "OK" /\ Begin(x, f).node = x /\ IsCall(Begin(x, f)) /\ BitsFit(x, m, Begin(x, f))
    BY BeginTame
  <2> QED
    BY <2>1 DEF m
<1>6. Same(x, x)
  BY DEF Same
<1> DEFINE d == Begin(x, f)
<1> HIDE DEF d
<1> QED
  BY <1>3, <1>4, <1>5, <1>6 DEF Ready, d

(* The type ids appended are n bytes of the first buffer. *)
LEMMA TypeIdsTurned ==
  ASSUME NEW x, IsNode(x), NEW id, NEW n \in Nat, NEW f
  PROVE  LET d == TypeIds(Begin(x, f), id, n) IN
           Spoilt(x, d) \/ \E y : d = Begin(y, f) /\ Turned(x, y, 1) /\ y.sizes[1] = x.sizes[1] + n
<1>1. 1 \in 1..3
  OBVIOUS
<1> DEFINE d == BufferAppend(Begin(x, f), 1, Repeat(id, n), n)
<1>2. Spoilt(x, d) \/ \E y : d = Begin(y, f) /\ Got(x, y, 1, Repeat(id, n), n)
  BY <1>1, AppendTurned
<1> HIDE DEF d
<1>3. Spoilt(x, d) \/ \E y : d = Begin(y, f) /\ Turned(x, y, 1) /\ y.sizes[1] = x.sizes[1] + n
  BY <1>2 DEF Got
<1> QED
  BY <1>3 DEF TypeIds, d

(* A node whose first and second buffer were written, one after the other. *)
LEMMA UnionReady ==
  ASSUME NEW x, IsNode(x), Filled(x), IsUnion(x), NEW n \in Nat, NEW f,
         NEW y, Same(x, y), IsNode(y), y.length = x.length, y.null_count = x.null_count,
         y.sizes[1] = x.sizes[1] + n,
         x.type = "dense_union" => y.sizes[2] = x.sizes[2] + 4 * n
  PROVE  Ready(x, n, 1, Begin(y, f))
<1>1. /\ x.length \in Nat /\ x.null_count \in Nat /\ x.type \in Types
  BY NodeHas
<1>2. x.null_count = 0 /\ x.sizes[1] = x.length /\ x.type # "na" /\ x.type # "bool" /\ x.type # "int16"
  BY DEF Filled, First, IsUnion
<1>3. y.type = x.type /\ IsUnion(y)
  BY DEF Same, IsUnion
<1>4. First(y, x.length + n, x.null_count + n * (1 - 1))
  <2>1. x.null_count + n * (1 - 1) = 0 /\ y.sizes[1] = x.length + n
    BY <1>1, <1>2
  <2> QED
    BY <1>2, <1>3, <2>1 DEF First, IsUnion
<1>5. Second(y, x.length + n)
  <2>1. Kind(x, 2) # "data_offset" /\ Kind(y, 2) = Kind(x, 2)
    <3>1. Kind(x, 2) # "data_offset"
      BY <1>1, Laid DEF IsUnion
    <3> QED
      BY <3>1, SameKinds
  <2>2. x.type = "dense_union" => y.sizes[2] = 4 * (x.length + n)
    <3>1. x.type = "dense_union" => x.sizes[2] = 4 * x.length
      BY DEF Filled, Second
    <3> QED
      BY <1>1, <3>1
  <2> QED
    BY <1>2, <1>3, <2>1, <2>2 DEF Second
<1> DEFINE d == Begin(y, f)
           m == x.length + n
<1>6. d.err = "OK" /\ d.node = y /\ IsCall(d) /\ BitsFit(x, m, d)
  <2> HIDE DEF m
  <2> QED
    BY <1>2, BeginTame
<1> HIDE DEF d
<1> QED
  BY <1>4, <1>5, <1>6 DEF Ready, d

(* A type with a validity bitmap is ready to be counted once validity and  *)
(* data are appended.                                                      *)
LEMMA ValidReady ==
  ASSUME NEW x, IsNode(x), Filled(x), Kind(x, 1) = "validity", NEW n \in Nat \ {0}, NEW v \in Flags, NEW f
  PROVE  LET d == Continue(AppendValidity(Begin(x, f), n, v), LAMBDA e : Fill(e, n)) IN
           \/ Spoilt(x, d)
           \/ /\ Ready(x, n, v, d)
              /\ Kind(x, 2) = "data_offset" => d.node.at[2][x.length + n + 1] = x.at[2][x.length + 1]
<1> DEFINE z == x.null_count
           l == x.length
           e == AppendValidity(Begin(x, f), n, v)
           d == IF e.err = "OK" THEN Fill(e, n) ELSE e
           Ended(c) == \/ Spoilt(x, c)
                       \/ /\ Ready(x, n, v, c)
                          /\ Kind(x, 2) = "data_offset" => c.node.at[2][l + n + 1] = x.at[2][l + 1]
<1>1. /\ l \in Nat /\ z \in Nat /\ x.type \in Types /\ n \in Nat
  BY NodeHas
<1>2. Bitmap(x, l, z) /\ Second(x, l)
  BY <1>1, FilledValid DEF Filled
<1>3. \/ Spoilt(x, e)
      \/ \E y : e = Begin(y, f) /\ Turned(x, y, 1) /\ Bitmap(y, l + n, z + n * (1 - v))
  BY <1>1, <1>2, AppendValidityIs
<1> HIDE DEF e
<1>4. ASSUME Spoilt(x, e) PROVE Ended(d)
  <2>1. d = e
    BY <1>4 DEF Spoilt
  <2> HIDE DEF d
  <2>2. Spoilt(x, d)
    BY <1>4, <2>1
  <2> QED
    BY <2>2
<1>5. ASSUME NEW y, e = Begin(y, f), Turned(x, y, 1), Bitmap(y, l + n, z + n * (1 - v))
      PROVE  Ended(d)
  <2>1. Same(x, y) /\ IsNode(y) /\ y.length = l /\ y.null_count = z
    BY <1>5, TurnedHas
  <2>2. Alike(x, y, 2) /\ Alike(x, y, 3)
    BY <1>5, TurnedAlike
  <2>3. Second(y, y.length)
    <3>1. Second(y, l)
      BY <1>2, <2>1, <2>2, SecondAlike
    <3> QED
      BY <2>1, <3>1
  <2>4. Kind(y, 1) = "validity" /\ Kind(y, 2) = Kind(x, 2)
    BY <2>1, SameKinds
  <2>5. d = Fill(Begin(y, f), n)
    BY <1>5 DEF Begin
  <2> HIDE DEF d
  <2>6. Spoilt(y, d) \/ Filling(y, n, d)
    <3>1. Spoilt(y, Fill(Begin(y, f), n)) \/ Filling(y, n, Fill(Begin(y, f), n))
      BY <2>1, <2>3, <2>4, FillIs
    <3> QED
      BY <2>5, <3>1
  <2>7. CASE Spoilt(y, d)
    <3>1. Spoilt(x, d)
      BY <2>1, <2>7, SpoiltSame
    <3> QED
      BY <3>1
  <2>8. CASE Filling(y, n, d)
    <3>1. /\ d.err = "OK" /\ IsCall(d) /\ Turned(y, d.node, 2) /\ Second(d.node, l + n)
          /\ Kind(y, 2) = "data_offset" => d.node.at[2][l + n + 1] = y.at[2][l + 1]
          /\ BitsFit(y, l + n, d)
      BY <2>1, <2>8 DEF Filling
    <3>2. Same(y, d.node) /\ IsNode(d.node) /\ d.node.length = l /\ d.node.null_count = z
      BY <2>1, <3>1, TurnedHas
    <3>3. Same(x, d.node)
      BY <2>1, <3>2, SameTwice
    <3>4. Bitmap(d.node, l + n, z + n * (1 - v))
      <4>1. Alike(y, d.node, 1)
        BY <3>1, TurnedAlike
      <4> DEFINE lm == l + n
                 zm == z + n * (1 - v)
      <4>2. Bitmap(y, lm, zm)
        BY <1>5
      <4> HIDE DEF lm, zm
      <4>3. Bitmap(d.node, lm, zm)
        BY <4>1, <4>2, BitmapAlike
      <4> QED
        BY <4>3 DEF lm, zm
    <3>5. First(d.node, l + n, z + n * (1 - v))
      <4>1. Kind(d.node, 1) = "validity" /\ d.node.type \in Types
        <5>1. Kind(d.node, 1) = "validity"
          BY <3>3, SameKinds
        <5> QED
          BY <1>1, <3>3, <5>1 DEF Same
      <4> QED
        BY <3>4, <4>1, FilledValid
    <3>6. BitsFit(x, l + n, d)
      <4> DEFINE lm == l + n
      <4>1. BitsFit(y, lm, d)
        BY <3>1
      <4>2. x.sizes[2] = y.sizes[2]
        BY <2>2 DEF Alike
      <4> HIDE DEF lm
      <4>3. BitsFit(x, lm, d)
        BY <2>1, <4>1, <4>2, BitsFitSame
      <4> QED
        BY <4>3 DEF lm
    <3>7. Ready(x, n, v, d)
      BY <3>1, <3>2, <3>3, <3>5, <3>6 DEF Ready
    <3>8. y.at[2] = x.at[2]
      BY <2>2 DEF Alike
    <3> QED
      BY <2>4, <3>1, <3>7, <3>8
  <2> QED
    BY <2>6, <2>7, <2>8
<1>6. Ended(d)
  <2> HIDE DEF Ended, d
  <2> QED
    BY <1>3, <1>4, <1>5
<1>7. Continue(e, LAMBDA c : Fill(c, n)) = d
  BY Zenon DEF Continue
<1> QED
  BY <1>6, <1>7 DEF e

(* Every type is ready to be counted once its own buffers are appended to. *)
LEMMA EmptyReady ==
  ASSUME NEW x, IsNode(x), Filled(x), NEW n \in Nat \ {0}, NEW v \in Flags, NEW length, NEW f
  PROVE  LET d == EmptyOwn(x, n, v, length, f) IN
           \/ Spoilt(x, d)
           \/ /\ Ready(x, n, Valid(x, v), d)
              /\ Kind(x, 2) = "data_offset" => d.node.at[2][x.length + n + 1] = x.at[2][x.length + 1]
<1> DEFINE d == EmptyOwn(x, n, v, length, f)
           Ended(e) == \/ Spoilt(x, e)
                       \/ /\ Ready(x, n, Valid(x, v), e)
                          /\ Kind(x, 2) = "data_offset" => e.node.at[2][x.length + n + 1] = x.at[2][x.length + 1]
<1>1. x.type \in Types /\ n \in Nat
  BY NodeHas
<1>2. ASSUME x.type = "na" PROVE Ended(d)
  <2>1. d = Begin(x, f)
    BY <1>2 DEF EmptyOwn
  <2>2. Valid(x, v) = 0 /\ Kind(x, 2) # "data_offset"
    BY <1>1, <1>2, Laid DEF Valid
  <2>3. Ready(x, n, 0, Begin(x, f))
    BY <1>1, <1>2, NaReady
  <2> HIDE DEF d
  <2> QED
    BY <2>1, <2>2, <2>3
<1>3. ASSUME IsUnion(x) PROVE Ended(d)
  <2>1. Valid(x, v) = 1 /\ Kind(x, 2) # "data_offset"
    BY <1>1, <1>3, Laid DEF Valid, IsUnion
  <2> DEFINE e == TypeIds(Begin(x, f), 0, n)
  <2>2. Spoilt(x, e) \/ \E y : e = Begin(y, f) /\ Turned(x, y, 1) /\ y.sizes[1] = x.sizes[1] + n
    BY <1>1, TypeIdsTurned
  <2> HIDE DEF e
  <2>3. ASSUME NEW y, e = Begin(y, f), Turned(x, y, 1)
        PROVE  Same(x, y) /\ IsNode(y) /\ y.length = x.length /\ y.null_count = x.null_count /\ y.sizes[2] = x.sizes[2]
    <3>1. Alike(x, y, 2)
      BY <2>3, TurnedAlike
    <3> QED
      BY <2>3, <3>1, TurnedHas DEF Alike
  <2>4. CASE x.type = "sparse_union"
    <3>1. d = e
      BY <2>4 DEF EmptyOwn, e
    <3> HIDE DEF d
    <3>2. ASSUME NEW y, e = Begin(y, f), Turned(x, y, 1), y.sizes[1] = x.sizes[1] + n PROVE Ended(d)
      <4>1. Same(x, y) /\ IsNode(y) /\ y.length = x.length /\ y.null_count = x.null_count
        BY <2>3, <3>2
      <4>2. Ready(x, n, 1, Begin(y, f))
        BY <1>1, <1>3, <2>4, <3>2, <4>1, UnionReady
      <4> QED
        BY <2>1, <3>1, <3>2, <4>2
    <3> QED
      BY <2>2, <3>1, <3>2
  <2>5. CASE x.type = "dense_union"
    <3>1. d = IF e.err = "OK" THEN UnionOffsets(e, length, n) ELSE e
      BY <2>5, Zenon DEF EmptyOwn, Continue, e
    <3>2. ASSUME Spoilt(x, e) PROVE Ended(d)
      <4>1. d = e
        BY <3>1, <3>2 DEF Spoilt
      <4> HIDE DEF d
      <4> QED
        BY <3>2, <4>1
    <3>3. ASSUME NEW y, e = Begin(y, f), Turned(x, y, 1), y.sizes[1] = x.sizes[1] + n PROVE Ended(d)
      <4>1. Same(x, y) /\ IsNode(y) /\ y.length = x.length /\ y.null_count = x.null_count /\ y.sizes[2] = x.sizes[2]
        BY <2>3, <3>3
      <4>2. d = UnionOffsets(Begin(y, f), length, n)
        <5>1. e.err = "OK"
          BY <3>3 DEF Begin
        <5> HIDE DEF d
        <5> QED
          BY <3>1, <3>3, <5>1
      <4> HIDE DEF d
      <4>3. Spoilt(y, d) \/ \E z : d = Begin(z, f) /\ HasOffsets(y, z, n)
        <5>1. LET r == UnionOffsets(Begin(y, f), length, n) IN
                Spoilt(y, r) \/ \E z : r = Begin(z, f) /\ HasOffsets(y, z, n)
          BY <1>1, <4>1, UnionOffsetsIs
        <5> QED
          BY <4>2, <5>1
      <4>4. CASE Spoilt(y, d)
        <5>1. Spoilt(x, d)
          BY <4>1, <4>4, SpoiltSame
        <5> QED
          BY <5>1
      <4>5. ASSUME NEW z, d = Begin(z, f), HasOffsets(y, z, n) PROVE Ended(d)
        <5>1. Turned(y, z, 2) /\ z.sizes[2] = y.sizes[2] + 4 * n
          BY <4>5 DEF HasOffsets
        <5>2. Same(y, z) /\ IsNode(z) /\ z.length = y.length /\ z.null_count = y.null_count
          BY <5>1, TurnedHas
        <5>3. z.sizes[1] = y.sizes[1]
          <6>1. Alike(y, z, 1)
            BY <5>1, TurnedAlike
          <6> QED
            BY <6>1 DEF Alike
        <5>4. Same(x, z)
          BY <4>1, <5>2, SameTwice
        <5>5. /\ z.length = x.length /\ z.null_count = x.null_count /\ z.sizes[1] = x.sizes[1] + n
              /\ z.sizes[2] = x.sizes[2] + 4 * n
          BY <3>3, <4>1, <5>1, <5>2, <5>3
        <5>6. Ready(x, n, 1, Begin(z, f))
          BY <1>1, <1>3, <5>2, <5>4, <5>5, UnionReady
        <5> QED
          BY <2>1, <4>5, <5>6
      <4> QED
        BY <4>3, <4>4, <4>5
    <3> HIDE DEF d
    <3> QED
      BY <2>2, <3>2, <3>3
  <2> HIDE DEF d
  <2> QED
    BY <1>3, <2>4, <2>5 DEF IsUnion
<1>4. ASSUME x.type # "na", ~IsUnion(x) PROVE Ended(d)
  <2>1. d = Continue(AppendValidity(Begin(x, f), n, v), LAMBDA e : Fill(e, n))
    BY <1>4, Zenon DEF EmptyOwn, IsUnion
  <2>2. Kind(x, 1) = "validity" /\ Valid(x, v) = v
    BY <1>1, <1>4, Laid DEF Valid
  <2>3. LET r == Continue(AppendValidity(Begin(x, f), n, v), LAMBDA e : Fill(e, n)) IN
           \/ Spoilt(x, r)
           \/ /\ Ready(x, n, v, r)
              /\ Kind(x, 2) = "data_offset" => r.node.at[2][x.length + n + 1] = x.at[2][x.length + 1]
    BY <2>2, ValidReady
  <2> HIDE DEF d
  <2> QED
    BY <2>1, <2>2, <2>3
<1> HIDE DEF d, Ended
<1>5. Ended(d)
  BY <1>2, <1>3, <1>4
<1> QED
  BY <1>5 DEF d, Ended

(* The visit leaves the node as it is if nothing is appended to it, spoils *)
(* it or makes it longer.                                                  *)
LEMMA EmptyNodeIs ==
  ASSUME NEW x, IsNode(x), Filled(x), NEW n \in Nat \ {0}, NEW v \in Flags, NEW length, NEW f
  PROVE  LET d == EmptyNode(x, n, v, length, f) IN Spoilt(x, d) \/ Appends(x, n, d)
<1> DEFINE e == EmptyOwn(x, n, v, length, f)
           w == Valid(x, v)
           d == IF e.err = "OK" THEN CountElements(e, n, w) ELSE e
<1>1. n \in Nat /\ w \in Flags
  BY DEF Valid, Flags
<1>2. EmptyNode(x, n, v, length, f) = d
  BY Zenon DEF EmptyNode, Continue
<1>3. \/ Spoilt(x, e)
      \/ /\ Ready(x, n, w, e)
         /\ Kind(x, 2) = "data_offset" => e.node.at[2][x.length + n + 1] = x.at[2][x.length + 1]
  BY EmptyReady
<1> HIDE DEF e, w
<1>4. CASE Spoilt(x, e)
  <2>1. d = e
    BY <1>4 DEF Spoilt
  <2> HIDE DEF d
  <2> QED
    BY <1>2, <1>4, <2>1
<1>5. ASSUME Ready(x, n, w, e),
             Kind(x, 2) = "data_offset" => e.node.at[2][x.length + n + 1] = x.at[2][x.length + 1]
      PROVE  Appends(x, n, d)
  <2> DEFINE r == CountElements(e, n, w)
  <2>1. Grows(x, n, r) /\ r.node.at = e.node.at
    BY <1>1, <1>5, CountedUp
  <2>2. d = r
    BY <1>5 DEF Ready
  <2>3. r.node.length = x.length + n
    BY <2>1 DEF Grows
  <2> HIDE DEF d, r
  <2> QED
    BY <1>5, <2>1, <2>2, <2>3 DEF Appends
<1> HIDE DEF d
<1> QED
  BY <1>2, <1>3, <1>4, <1>5

(* A node that has the value of one more element and has to count it. *)
Unfinished(x, y) ==
  /\ Same(x, y) /\ IsNode(y) /\ y.length = x.length /\ y.null_count = x.null_count
  /\ Alike(x, y, 1) /\ Second(y, x.length + 1)
  /\ x.type = "bool" /\ x.sizes[2] = BytesForBits(x.length) => y.sizes[2] = BytesForBits(x.length + 1)

(* Counting one element whose value is there finishes it. *)
LEMMA CountOneIs ==
  ASSUME NEW x, IsNode(x), Filled(x), Kind(x, 1) = "validity", NEW y, Unfinished(x, y), NEW f
  PROVE  LET d == CountElement(Begin(y, f)) IN
           Spoilt(x, d) \/ (Grows(x, 1, d) /\ Alike(y, d.node, 2))
<1> DEFINE d == CountElement(Begin(y, f))
<1>1. /\ x.length \in Nat /\ x.null_count \in Nat /\ x.type \in Types
  BY NodeHas
<1>2. /\ Same(x, y) /\ IsNode(y) /\ y.length = x.length /\ y.null_count = x.null_count
      /\ Alike(x, y, 1) /\ Second(y, x.length + 1)
  BY DEF Unfinished
<1>3. Bitmap(y, y.length, y.null_count)
  <2>1. Bitmap(x, x.length, x.null_count)
    BY <1>1, FilledValid DEF Filled
  <2>2. Bitmap(y, x.length, x.null_count)
    BY <1>2, <2>1, BitmapAlike
  <2> QED
    BY <1>2, <2>2
<1>4. \/ Spoilt(y, d)
      \/ /\ d.err = "OK" /\ d.wild = FALSE /\ Same(y, d.node) /\ IsNode(d.node)
         /\ d.node.length = y.length + 1 /\ Bitmap(d.node, d.node.length, d.node.null_count)
         /\ Alike(y, d.node, 2) /\ Alike(y, d.node, 3)
  BY <1>2, <1>3, CountElementIs
<1> HIDE DEF d
<1>5. CASE Spoilt(y, d)
  <2>1. Spoilt(x, d)
    BY <1>2, <1>5, SpoiltSame
  <2> QED
    BY <2>1 DEF d
<1>6. ASSUME /\ d.err = "OK" /\ d.wild = FALSE /\ Same(y, d.node) /\ IsNode(d.node)
             /\ d.node.length = y.length + 1 /\ Bitmap(d.node, d.node.length, d.node.null_count)
             /\ Alike(y, d.node, 2) /\ Alike(y, d.node, 3)
      PROVE  Grows(x, 1, d)
  <2>1. Same(x, d.node)
    BY <1>2, <1>6, SameTwice
  <2>2. d.node.length = x.length + 1
    BY <1>2, <1>6
  <2>3. First(d.node, d.node.length, d.node.null_count)
    <3>1. Kind(d.node, 1) = "validity"
      BY <2>1, SameKinds
    <3>2. d.node.type \in Types
      BY <1>1, <2>1 DEF Same
    <3> QED
      BY <1>6, <3>1, <3>2, FilledValid
  <2>4. Second(d.node, d.node.length)
    <3> DEFINE m == x.length + 1
    <3>1. Second(y, m)
      BY <1>2
    <3> HIDE DEF m
    <3>2. Second(d.node, m)
      BY <1>6, <3>1, SecondAlike
    <3> QED
      BY <2>2, <3>2 DEF m
  <2>5. BitsFit(x, x.length + 1, d)
    <3>1. d.node.sizes[2] = y.sizes[2]
      BY <1>6 DEF Alike
    <3>2. x.type = "bool" /\ x.sizes[2] = BytesForBits(x.length) => y.sizes[2] = BytesForBits(x.length + 1)
      BY DEF Unfinished
    <3> QED
      BY <1>6, <3>1, <3>2 DEF BitsFit
  <2> QED
    BY <1>6, <2>1, <2>2, <2>3, <2>4, <2>5 DEF Grows, Filled
<1> QED
  BY <1>4, <1>5, <1>6 DEF d

(* What a call on one node makes of it. *)
Refused(x, d)  == Spoilt(x, d) \/ Stays(x, d)
(* One element more, or none. *)
Finished(x, d) == Refused(x, d) \/ Grows(x, 1, d)

(* A refusal changes nothing. *)
LEMMA RefusalStays ==
  ASSUME NEW x, NEW f, NEW code, code \notin {"OK", "ENOMEM"}
  PROVE  Stays(x, Refuse(Begin(x, f), code))
BY DEF Stays, Refuse, Begin

(* A bool or int16 gets its value. *)
LEMMA AppendIntIs ==
  ASSUME NEW x, IsNode(x), Filled(x), NEW value, NEW f
  PROVE  Finished(x, AppendInt(Begin(x, f), value))
<1> DEFINE d == AppendInt(Begin(x, f), value)
<1>1. x.length \in Nat /\ x.type \in Types
  BY NodeHas
<1>2. Second(x, x.length)
  BY DEF Filled
<1>3. Begin(x, f).node = x
  BY DEF Begin
<1>4. CASE x.type = "int16" /\ (value < IntMin \/ value > IntMax)
  <2>1. d = Refuse(Begin(x, f), "EINVAL")
    BY <1>3, <1>4 DEF AppendInt
  <2>2. Stays(x, Refuse(Begin(x, f), "EINVAL"))
    BY RefusalStays
  <2> HIDE DEF d
  <2> QED
    BY <2>1, <2>2 DEF Finished, Refused, d
<1>5. CASE x.type = "int16" /\ ~(value < IntMin \/ value > IntMax)
  <2> DEFINE e == BufferAppend(Begin(x, f), 2, <<value>>, 2)
  <2>1. d = IF e.err = "OK" THEN CountElement(e) ELSE e
    BY <1>3, <1>5 DEF AppendInt, Continue
  <2>2. Kind(x, 1) = "validity" /\ Kind(x, 2) = "data" /\ 2 \in 1..3 /\ 2 \in Nat
    BY <1>1, <1>5, Laid DEF IsUnion
  <2>3. Spoilt(x, e) \/ \E y : e = Begin(y, f) /\ Got(x, y, 2, <<value>>, 2)
    BY <2>2, AppendTurned
  <2> HIDE DEF e, d
  <2>4. CASE Spoilt(x, e)
    BY <2>1, <2>4 DEF Spoilt, Finished, Refused, d
  <2>5. ASSUME NEW y, e = Begin(y, f), Got(x, y, 2, <<value>>, 2) PROVE Finished(x, d)
    <3>1. Turned(x, y, 2) /\ y.sizes[2] = x.sizes[2] + 2
      BY <2>5 DEF Got
    <3>2. Same(x, y) /\ IsNode(y) /\ y.length = x.length /\ y.null_count = x.null_count /\ Alike(x, y, 1)
      BY <3>1, TurnedHas, TurnedAlike
    <3>3. Second(y, x.length + 1)
      <4>1. Kind(y, 2) = "data" /\ y.type = x.type
        BY <2>2, <3>2, SameKinds DEF Same
      <4>2. x.sizes[2] = 2 * x.length
        BY <1>2, <1>5 DEF Second
      <4>3. y.sizes[2] = 2 * (x.length + 1)
        BY <1>1, <3>1, <4>2
      <4> QED
        BY <1>5, <4>1, <4>3 DEF Second
    <3>4. Unfinished(x, y)
      BY <1>5, <3>2, <3>3 DEF Unfinished
    <3> DEFINE r == CountElement(Begin(y, f))
    <3>5. Spoilt(x, r) \/ Grows(x, 1, r)
      BY <2>2, <3>4, CountOneIs
    <3>6. d = r
      BY <2>1, <2>5 DEF Begin
    <3> HIDE DEF r
    <3> QED
      BY <3>5, <3>6 DEF Finished, Refused
  <2> QED
    BY <2>3, <2>4, <2>5 DEF d
<1>6. CASE x.type = "bool"
  <2> DEFINE b == IF value # 0 THEN 1 ELSE 0
             e == AppendBits(Begin(x, f), b, 1)
  <2>1. d = IF e.err = "OK" THEN CountElement(e) ELSE e
    BY <1>3, <1>6 DEF AppendInt, Continue
  <2>2. Kind(x, 1) = "validity" /\ Kind(x, 2) = "data" /\ 1 \in Nat \ {0}
    BY <1>1, <1>6, Laid DEF IsUnion
  <2> HIDE DEF b
  <2>3. Spoilt(x, e) \/ (e.err = "OK" /\ IsCall(e) /\ Turned(x, e.node, 2) /\ BitsFit(x, x.length + 1, e))
    BY <1>6, <2>2, AppendBitsIs
  <2> HIDE DEF e, d
  <2>4. CASE Spoilt(x, e)
    BY <2>1, <2>4 DEF Spoilt, Finished, Refused, d
  <2>5. ASSUME e.err = "OK", IsCall(e), Turned(x, e.node, 2), BitsFit(x, x.length + 1, e) PROVE Finished(x, d)
    <3> DEFINE y == e.node
    <3>1. e.wild = FALSE /\ (x.sizes[2] = BytesForBits(x.length) => y.sizes[2] = BytesForBits(x.length + 1))
      BY <1>6, <2>5 DEF BitsFit
    <3>2. e = Begin(y, e.fails)
      BY <2>5, <3>1 DEF IsCall, Begin
    <3>3. Same(x, y) /\ IsNode(y) /\ y.length = x.length /\ y.null_count = x.null_count /\ Alike(x, y, 1)
      BY <2>5, TurnedHas, TurnedAlike
    <3>4. Second(y, x.length + 1)
      <4>1. Kind(y, 2) = "data" /\ y.type = x.type
        BY <2>2, <3>3, SameKinds DEF Same
      <4> QED
        BY <1>6, <4>1 DEF Second
    <3>5. Unfinished(x, y)
      BY <3>1, <3>3, <3>4 DEF Unfinished
    <3> DEFINE r == CountElement(Begin(y, e.fails))
    <3> HIDE DEF y
    <3>6. Spoilt(x, r) \/ Grows(x, 1, r)
      BY <2>2, <3>5, CountOneIs
    <3>7. d = r
      BY <2>1, <2>5, <3>2
    <3> HIDE DEF r
    <3> QED
      BY <3>6, <3>7 DEF Finished, Refused
  <2> QED
    BY <2>3, <2>4, <2>5 DEF d
<1>7. CASE x.type # "int16" /\ x.type # "bool"
  <2>1. d = Refuse(Begin(x, f), "EINVAL")
    BY <1>3, <1>7 DEF AppendInt
  <2>2. Stays(x, Refuse(Begin(x, f), "EINVAL"))
    BY RefusalStays
  <2> HIDE DEF d
  <2> QED
    BY <2>1, <2>2 DEF Finished, Refused, d
<1> QED
  BY <1>4, <1>5, <1>6, <1>7

(* A string gets its bytes, and the offset of their end. *)
LEMMA OffsetAdded ==
  ASSUME NEW x, IsNode(x), Filled(x), x.type \in {"string", "list"}, NEW offset \in Nat,
         x.at[2][x.length + 1] <= offset, NEW y, Got(x, y, 2, <<offset>>, 4)
  PROVE  /\ Rising(y.at[2], x.length + 1) /\ y.sizes[2] = Width(y, 2) * (x.length + 2)
         /\ y.at[2][x.length + 2] = offset
         /\ Same(x, y) /\ IsNode(y) /\ y.length = x.length /\ y.null_count = x.null_count
         /\ Alike(x, y, 1) /\ Alike(x, y, 3)
<1>1. x.length \in Nat /\ x.type \in Types
  BY NodeHas
<1>2. Kind(x, 2) = "data_offset" /\ Bits(x, 2) = 32 /\ Width(x, 2) = 4
  <2>1. Kind(x, 2) = "data_offset" /\ Bits(x, 2) = 32
    BY <1>1, Laid
  <2> QED
    BY <2>1 DEF Width
<1>3. Rising(x.at[2], x.length) /\ x.sizes[2] = 4 * (x.length + 1)
  BY <1>2 DEF Filled, Second
<1>4. Turned(x, y, 2) /\ y.sizes[2] = x.sizes[2] + 4 /\ y.at[2] = x.at[2] \o <<offset>>
  BY DEF Got
<1>5. Same(x, y) /\ IsNode(y) /\ y.length = x.length /\ y.null_count = x.null_count
  BY <1>4, TurnedHas
<1>6. Alike(x, y, 1) /\ Alike(x, y, 3)
  BY <1>4, TurnedAlike
<1>7. Rising(y.at[2], x.length + 1) /\ y.at[2][x.length + 2] = offset
  <2> DEFINE s == x.at[2]
             m == x.length
  <2>1. Rising(s, m) /\ m \in Nat /\ s[m + 1] <= offset
    BY <1>1, <1>3
  <2> HIDE DEF s, m
  <2>2. Rising(s \o <<offset>>, m + 1) /\ (s \o <<offset>>)[m + 2] = offset
    BY <2>1, RisingOne
  <2> QED
    BY <1>4, <2>2 DEF s, m
<1>8. y.sizes[2] = Width(y, 2) * (x.length + 2)
  <2>1. Width(y, 2) = 4
    BY <1>2, <1>5, SameKinds
  <2>2. y.sizes[2] = 4 * (x.length + 2)
    BY <1>1, <1>3, <1>4
  <2> QED
    BY <2>1, <2>2
<1> QED
  BY <1>5, <1>6, <1>7, <1>8

(* ArrowArrayAppendBytes appends one text, its offset and its bytes, or    *)
(* nothing.                                                                *)
LEMMA AppendBytesIs ==
  ASSUME NEW x, IsNode(x), Filled(x), NEW text, Len(text) \in Nat, NEW f
  PROVE  Finished(x, AppendBytes(Begin(x, f), text))
<1> DEFINE d == AppendBytes(Begin(x, f), text)
           offset == OffsetAt(x, x.length) + Len(text)
<1>1. x.length \in Nat /\ x.type \in Types
  BY NodeHas
<1>2. Begin(x, f).node = x
  BY DEF Begin
<1>3. CASE x.type # "string" \/ offset > OffsetMax
  <2>1. d = Refuse(Begin(x, f), "EINVAL") \/ d = Refuse(Begin(x, f), "EOVERFLOW")
    BY <1>2, <1>3 DEF AppendBytes
  <2>2. Stays(x, Refuse(Begin(x, f), "EINVAL")) /\ Stays(x, Refuse(Begin(x, f), "EOVERFLOW"))
    BY RefusalStays
  <2> HIDE DEF d
  <2> QED
    BY <2>1, <2>2 DEF Finished, Refused, d
<1>4. CASE x.type = "string" /\ ~(offset > OffsetMax)
  <2> DEFINE e == BufferAppend(Begin(x, f), 2, <<offset>>, 4)
             g == IF e.err = "OK" THEN BufferAppend(e, 3, text, Len(text)) ELSE e
  <2>1. d = IF g.err = "OK" THEN CountElement(g) ELSE g
    <3> HIDE DEF offset
    <3>1. d = Continue(Continue(BufferAppend(Begin(x, f), 2, <<offset>>, 4),
                           LAMBDA h : BufferAppend(h, 3, text, Len(text))), CountElement)
      BY <1>2, <1>4 DEF AppendBytes, offset
    <3> QED
      BY <3>1, Zenon DEF Continue
  <2>2. Kind(x, 1) = "validity" /\ Kind(x, 2) = "data_offset" /\ Kind(x, 3) = "data"
    BY <1>1, <1>4, Laid DEF IsUnion
  <2>3. Rising(x.at[2], x.length) /\ x.sizes[3] = x.at[2][x.length + 1] /\ x.sizes[3] \in Nat
    <3>1. Rising(x.at[2], x.length) /\ Ends(x, x.length)
      BY <2>2 DEF Filled, Second
    <3> QED
      BY <1>4, <3>1, NodeSizes DEF Ends
  <2>4. offset = x.sizes[3] + Len(text) /\ offset \in Nat /\ x.at[2][x.length + 1] <= offset
    BY <2>3 DEF OffsetAt
  <2>5. 2 \in 1..3 /\ 3 \in 1..3 /\ 4 \in Nat
    OBVIOUS
  <2> HIDE DEF offset, d
  <2>6. Spoilt(x, e) \/ \E y : e = Begin(y, f) /\ Got(x, y, 2, <<offset>>, 4)
    BY <2>5, AppendTurned
  <2> HIDE DEF e
  <2>7. ASSUME Spoilt(x, e) PROVE Finished(x, d)
    <3>1. g = e
      BY <2>7 DEF Spoilt
    <3> QED
      BY <2>1, <2>7, <3>1 DEF Spoilt, Finished, Refused
  <2>8. ASSUME NEW y, e = Begin(y, f), Got(x, y, 2, <<offset>>, 4) PROVE Finished(x, d)
    <3>1. /\ Rising(y.at[2], x.length + 1) /\ y.sizes[2] = Width(y, 2) * (x.length + 2)
          /\ y.at[2][x.length + 2] = offset
          /\ Same(x, y) /\ IsNode(y) /\ y.length = x.length /\ y.null_count = x.null_count
          /\ Alike(x, y, 1) /\ Alike(x, y, 3)
      BY <1>4, <2>4, <2>8, OffsetAdded
    <3> DEFINE h == BufferAppend(Begin(y, f), 3, text, Len(text))
    <3>2. g = h
      BY <2>8 DEF Begin
    <3>3. Spoilt(y, h) \/ \E z : h = Begin(z, f) /\ Got(y, z, 3, text, Len(text))
      BY <2>5, <3>1, AppendTurned
    <3> HIDE DEF h, g
    <3>4. CASE Spoilt(y, h)
      <4>1. Spoilt(x, g)
        BY <3>1, <3>2, <3>4, SpoiltSame
      <4> QED
        BY <2>1, <4>1 DEF Spoilt, Finished, Refused
    <3>5. ASSUME NEW z, h = Begin(z, f), Got(y, z, 3, text, Len(text)) PROVE Finished(x, d)
      <4>1. Turned(y, z, 3) /\ z.sizes[3] = y.sizes[3] + Len(text)
        BY <3>5 DEF Got
      <4>2. Same(y, z) /\ IsNode(z) /\ z.length = y.length /\ z.null_count = y.null_count
        BY <4>1, TurnedHas
      <4>3. Alike(y, z, 1) /\ Alike(y, z, 2)
        BY <4>1, TurnedAlike
      <4>4. Same(x, z) /\ Alike(x, z, 1)
        <5>1. Same(x, z)
          BY <3>1, <4>2, SameTwice
        <5> QED
          BY <3>1, <4>3, <5>1 DEF Alike
      <4>5. Second(z, x.length + 1)
        <5>1. z.sizes[3] = offset /\ z.at[2] = y.at[2] /\ z.sizes[2] = y.sizes[2]
          BY <2>4, <3>1, <4>1, <4>3 DEF Alike
        <5>2. Width(z, 2) = Width(y, 2) /\ z.type = "string"
          <6>1. Width(z, 2) = Width(y, 2)
            BY <4>2, SameKinds
          <6> QED
            BY <1>4, <4>4, <6>1 DEF Same
        <5>3. Ends(z, x.length + 1)
          <6>1. x.length + 1 + 1 = x.length + 2
            BY <1>1
          <6> QED
            BY <3>1, <5>1, <6>1 DEF Ends
        <5>4. Rising(z.at[2], x.length + 1)
          BY <3>1, <5>1
        <5>5. z.sizes[2] = Width(z, 2) * (x.length + 1 + 1)
          BY <1>1, <3>1, <5>1, <5>2
        <5> QED
          BY <5>2, <5>3, <5>4, <5>5 DEF Second
      <4>6. Unfinished(x, z)
        BY <1>4, <3>1, <4>2, <4>4, <4>5 DEF Unfinished
      <4> DEFINE r == CountElement(Begin(z, f))
      <4>7. Spoilt(x, r) \/ Grows(x, 1, r)
        BY <2>2, <4>6, CountOneIs
      <4>8. d = r
        BY <2>1, <3>2, <3>5 DEF Begin
      <4> HIDE DEF r
      <4> QED
        BY <4>7, <4>8 DEF Finished, Refused
    <3> QED
      BY <3>3, <3>4, <3>5
  <2> HIDE DEF g
  <2> QED
    BY <2>6, <2>7, <2>8 DEF d
<1> QED
  BY <1>3, <1>4

(* A list gets the offset of the end of its element. *)
ListElement(x, length, f) ==
  IF length > OffsetMax THEN Refuse(Begin(x, f), "EOVERFLOW")
  ELSE Continue(BufferAppend(Begin(x, f), 2, <<length>>, 4), CountElement)
(* ArrowArrayFinishElement of a list makes an element that ends where its  *)
(* child now ends, or none.                                                *)
LEMMA ListElementIs ==
  ASSUME NEW x, IsNode(x), Filled(x), x.type = "list", NEW length \in Nat, x.at[2][x.length + 1] <= length, NEW f
  PROVE  LET d == ListElement(x, length, f) IN
           Refused(x, d) \/ (Grows(x, 1, d) /\ d.node.at[2][d.node.length + 1] = length)
<1> DEFINE d == ListElement(x, length, f)
           Ended(c) == Refused(x, c) \/ (Grows(x, 1, c) /\ c.node.at[2][c.node.length + 1] = length)
<1>1. x.length \in Nat /\ x.type \in Types
  BY NodeHas
<1>2. CASE length > OffsetMax
  <2>1. d = Refuse(Begin(x, f), "EOVERFLOW")
    BY <1>2 DEF ListElement
  <2>2. Stays(x, Refuse(Begin(x, f), "EOVERFLOW"))
    BY RefusalStays
  <2> HIDE DEF d
  <2> QED
    BY <2>1, <2>2 DEF Refused, d
<1>3. CASE ~(length > OffsetMax)
  <2> DEFINE e == BufferAppend(Begin(x, f), 2, <<length>>, 4)
  <2>1. d = IF e.err = "OK" THEN CountElement(e) ELSE e
    BY <1>3 DEF ListElement, Continue
  <2>2. Kind(x, 1) = "validity" /\ 2 \in 1..3 /\ 4 \in Nat
    BY <1>1, Laid DEF IsUnion
  <2>3. Spoilt(x, e) \/ \E y : e = Begin(y, f) /\ Got(x, y, 2, <<length>>, 4)
    BY <2>2, AppendTurned
  <2> HIDE DEF e, d
  <2>4. ASSUME Spoilt(x, e) PROVE Ended(d)
    BY <2>1, <2>4 DEF Spoilt, Refused
  <2>5. ASSUME NEW y, e = Begin(y, f), Got(x, y, 2, <<length>>, 4) PROVE Ended(d)
    <3>1. /\ Rising(y.at[2], x.length + 1) /\ y.sizes[2] = Width(y, 2) * (x.length + 2)
          /\ y.at[2][x.length + 2] = length
          /\ Same(x, y) /\ IsNode(y) /\ y.length = x.length /\ y.null_count = x.null_count
          /\ Alike(x, y, 1) /\ Alike(x, y, 3)
      BY <2>5, OffsetAdded
    <3>2. Second(y, x.length + 1)
      <4>1. y.type = "list"
        BY <3>1 DEF Same
      <4>2. x.length + 1 + 1 = x.length + 2
        BY <1>1
      <4> QED
        BY <3>1, <4>1, <4>2 DEF Second, Ends
    <3>3. Unfinished(x, y)
      BY <3>1, <3>2 DEF Unfinished
    <3> DEFINE r == CountElement(Begin(y, f))
    <3>4. Spoilt(x, r) \/ (Grows(x, 1, r) /\ Alike(y, r.node, 2))
      BY <2>2, <3>3, CountOneIs
    <3>5. d = r
      BY <2>1, <2>5 DEF Begin
    <3> HIDE DEF r
    <3>6. ASSUME Grows(x, 1, r), Alike(y, r.node, 2) PROVE r.node.at[2][r.node.length + 1] = length
      <4>1. r.node.length = x.length + 1 /\ r.node.at[2] = y.at[2]
        BY <3>6 DEF Grows, Alike
      <4>2. r.node.length + 1 = x.length + 2
        BY <1>1, <4>1
      <4> QED
        BY <3>1, <4>1, <4>2
    <3> QED
      BY <3>4, <3>5, <3>6 DEF Refused
  <2> HIDE DEF Ended
  <2>6. Ended(d)
    BY <2>3, <2>4, <2>5
  <2> QED
    BY <2>6 DEF Ended, d
<1> QED
  BY <1>2, <1>3

(* A node without a second buffer just counts its element. *)
LEMMA PlainElementIs ==
  ASSUME NEW x, IsNode(x), Filled(x), x.type \in {"struct", "fixed_size_list"}, NEW f
  PROVE  Finished(x, CountElement(Begin(x, f)))
<1>1. x.length \in Nat /\ x.type \in Types
  BY NodeHas
<1>2. Kind(x, 1) = "validity" /\ Kind(x, 2) = "none"
  BY <1>1, Laid DEF IsUnion
<1>3. Same(x, x) /\ Alike(x, x, 1) /\ Second(x, x.length + 1)
  BY <1>2 DEF Same, Alike, Second
<1>4. Unfinished(x, x)
  BY <1>3 DEF Unfinished
<1> DEFINE d == CountElement(Begin(x, f))
<1>5. Spoilt(x, d) \/ Grows(x, 1, d)
  BY <1>2, <1>4, CountOneIs
<1> HIDE DEF d
<1> QED
  BY <1>5 DEF Finished, Refused, d

(* ArrowArrayFinishUnionElement's visit of the union itself. *)
UnionRoom(x, length, f) ==
  IF x.type = "sparse_union" THEN Begin(x, f)
  ELSE IF length > OffsetMax THEN Refuse(Begin(x, f), "EINVAL")
  ELSE UnionOffset(Begin(x, f), length)
(* ArrowArrayFinishUnionElement's visit of the union, without its tree. *)
UnionNode(x, id, length, f) ==
  Continue(Continue(UnionRoom(x, length, f), LAMBDA d : TypeIds(d, id, 1)),
           LAMBDA d : [d EXCEPT !.node.length = @ + 1])
(* UnionElement is that visit, with the length of the child named. *)
LEMMA UnionElementNode ==
  ASSUME NEW t, NEW p, NEW id, NEW f
  PROVE  UnionElement(t, p, id, f) = UnionNode(t[p], id, Kid(t, p, id + 1).length, f)
BY Zenon DEF UnionElement, UnionNode, UnionRoom

(* A dense union has one offset more, a sparse one nothing. *)
HasUnionRoom(x, y) ==
  /\ Same(x, y) /\ IsNode(y) /\ y.length = x.length /\ y.null_count = x.null_count
  /\ y.sizes[1] = x.sizes[1] /\ (x.type = "dense_union" => y.sizes[2] = x.sizes[2] + 4)
(* The offset of a union element is appended, or the call refused. *)
LEMMA UnionRoomIs ==
  ASSUME NEW x, IsNode(x), IsUnion(x), NEW length, NEW f
  PROVE  LET d == UnionRoom(x, length, f) IN
           Refused(x, d) \/ \E y : d = Begin(y, f) /\ HasUnionRoom(x, y)
<1> DEFINE d == UnionRoom(x, length, f)
           Ended(c) == Refused(x, c) \/ \E y : c = Begin(y, f) /\ HasUnionRoom(x, y)
<1>1. CASE x.type = "sparse_union"
  <2>1. d = Begin(x, f)
    BY <1>1 DEF UnionRoom
  <2>2. HasUnionRoom(x, x)
    BY <1>1 DEF HasUnionRoom, Same
  <2> HIDE DEF d
  <2>3. Ended(d)
    BY <2>1, <2>2
  <2> QED
    BY <2>3 DEF d
<1>2. CASE x.type # "sparse_union" /\ length > OffsetMax
  <2>1. d = Refuse(Begin(x, f), "EINVAL")
    BY <1>2 DEF UnionRoom
  <2>2. Stays(x, Refuse(Begin(x, f), "EINVAL"))
    BY RefusalStays
  <2> HIDE DEF d
  <2>3. Ended(d)
    BY <2>1, <2>2 DEF Refused
  <2> QED
    BY <2>3 DEF d
<1>3. CASE x.type # "sparse_union" /\ ~(length > OffsetMax)
  <2>1. d = BufferAppend(Begin(x, f), 2, <<length - 1>>, 4)
    BY <1>3 DEF UnionRoom, UnionOffset
  <2>2. 2 \in 1..3 /\ 4 \in Nat /\ 1 \in 1..3 /\ 1 # 2
    OBVIOUS
  <2> DEFINE e == BufferAppend(Begin(x, f), 2, <<length - 1>>, 4)
  <2>3. Spoilt(x, e) \/ \E y : e = Begin(y, f) /\ Got(x, y, 2, <<length - 1>>, 4)
    BY <2>2, AppendTurned
  <2> HIDE DEF e, d
  <2>4. ASSUME NEW y, e = Begin(y, f), Got(x, y, 2, <<length - 1>>, 4) PROVE HasUnionRoom(x, y)
    <3>1. Turned(x, y, 2) /\ y.sizes[2] = x.sizes[2] + 4
      BY <2>4 DEF Got
    <3>2. y.sizes[1] = x.sizes[1]
      BY <3>1, TurnedAlike DEF Alike
    <3> QED
      BY <3>1, <3>2, TurnedHas DEF HasUnionRoom
  <2>5. Ended(e)
    BY <2>3, <2>4 DEF Refused
  <2> QED
    BY <2>1, <2>5 DEF d, e
<1> QED
  BY <1>1, <1>2, <1>3

(* The union's own part of finishing an element: one type id, one offset   *)
(* if it is dense, one element more.                                       *)
LEMMA UnionNodeIs ==
  ASSUME NEW x, IsNode(x), Filled(x), IsUnion(x), NEW id, NEW length, NEW f
  PROVE  Finished(x, UnionNode(x, id, length, f))
<1> DEFINE room == UnionRoom(x, length, f)
           ids == IF room.err = "OK" THEN TypeIds(room, id, 1) ELSE room
           d == UnionNode(x, id, length, f)
<1>1. d = IF ids.err = "OK" THEN [ids EXCEPT !.node.length = @ + 1] ELSE ids
  BY Zenon DEF UnionNode, Continue
<1>2. Refused(x, room) \/ \E y : room = Begin(y, f) /\ HasUnionRoom(x, y)
  BY UnionRoomIs
<1>3. x.length \in Nat /\ x.null_count \in Nat
  BY NodeHas
<1> HIDE DEF d, room
<1>4. ASSUME Refused(x, room) PROVE Finished(x, d)
  <2>1. room.err # "OK"
    BY <1>4 DEF Refused, Spoilt, Stays
  <2>2. d = room
    BY <1>1, <2>1
  <2> QED
    BY <1>4, <2>2 DEF Finished
<1>5. ASSUME NEW y, room = Begin(y, f), HasUnionRoom(x, y) PROVE Finished(x, d)
  <2>1. /\ Same(x, y) /\ IsNode(y) /\ y.length = x.length /\ y.null_count = x.null_count
        /\ y.sizes[1] = x.sizes[1] /\ (x.type = "dense_union" => y.sizes[2] = x.sizes[2] + 4)
    BY <1>5 DEF HasUnionRoom
  <2> DEFINE e == TypeIds(Begin(y, f), id, 1)
  <2>2. ids = e
    <3>1. room.err = "OK"
      BY <1>5 DEF Begin
    <3> QED
      BY <1>5, <3>1
  <2>3. Spoilt(y, e) \/ \E z : e = Begin(z, f) /\ Turned(y, z, 1) /\ z.sizes[1] = y.sizes[1] + 1
    BY <2>1, TypeIdsTurned
  <2> HIDE DEF e, ids
  <2>4. ASSUME Spoilt(y, e) PROVE Finished(x, d)
    <3>1. d = e /\ Spoilt(x, e)
      BY <1>1, <2>1, <2>2, <2>4, SpoiltSame DEF Spoilt
    <3> QED
      BY <3>1 DEF Finished, Refused
  <2>5. ASSUME NEW z, e = Begin(z, f), Turned(y, z, 1), z.sizes[1] = y.sizes[1] + 1 PROVE Finished(x, d)
    <3>1. Same(y, z) /\ IsNode(z) /\ z.length = y.length /\ z.null_count = y.null_count
      BY <2>5, TurnedHas
    <3>2. Same(x, z)
      BY <2>1, <3>1, SameTwice
    <3>3. z.sizes[2] = y.sizes[2]
      BY <2>5, TurnedAlike DEF Alike
    <3>4. z.sizes[1] = x.sizes[1] + 1 /\ (x.type = "dense_union" => z.sizes[2] = x.sizes[2] + 4 * 1)
      BY <2>1, <2>5, <3>3
    <3>5. z.length = x.length /\ z.null_count = x.null_count
      BY <2>1, <3>1
    <3>6. Ready(x, 1, 1, Begin(z, f))
      BY <3>1, <3>2, <3>4, <3>5, UnionReady
    <3> DEFINE l == x.length + 1
               n == x.null_count + 1 * (1 - 1)
               w == Longer(z, l)
    <3>7. First(z, l, n) /\ Second(z, l) /\ BitsFit(x, l, Begin(z, f)) /\ Begin(z, f).wild = FALSE
      BY <3>6 DEF Ready, Begin
    <3>8. l \in Nat /\ n = x.null_count
      BY <1>3
    <3> HIDE DEF l, n, w
    <3>9. /\ Same(z, w) /\ IsNode(w) /\ w.length = l /\ w.null_count = z.null_count
          /\ w.sizes = z.sizes /\ w.caps = z.caps /\ w.at = z.at
      BY <3>1, <3>8, LongerIs DEF w
    <3>10. d = [Begin(z, f) EXCEPT !.node.length = @ + 1]
      <4>1. ids.err = "OK"
        BY <2>2, <2>5 DEF Begin
      <4> QED
        BY <1>1, <2>2, <2>5, <4>1
    <3>11. d.node = w /\ d.err = "OK" /\ d.wild = FALSE
      <4>1. [Begin(z, f) EXCEPT !.node.length = @ + 1].node = [z EXCEPT !.length = z.length + 1]
        BY DEF Begin
      <4>2. [Begin(z, f) EXCEPT !.node.length = @ + 1].err = "OK"
        BY DEF Begin
      <4>3. [Begin(z, f) EXCEPT !.node.length = @ + 1].wild = FALSE
        BY DEF Begin
      <4> QED
        BY <3>5, <3>10, <4>1, <4>2, <4>3 DEF w, l, Longer
    <3>12. Alike(z, w, 1) /\ Alike(z, w, 2) /\ Alike(z, w, 3)
      BY <3>9 DEF Alike
    <3>13. First(w, l, n)
      BY <3>7, <3>9, <3>12, FirstAlike
    <3>14. Second(w, l)
      BY <3>7, <3>9, <3>12, SecondAlike
    <3>15. Filled(w)
      BY <3>5, <3>8, <3>9, <3>13, <3>14 DEF Filled
    <3>16. BitsFit(x, l, d)
      <4>1. x.type # "bool"
        BY DEF IsUnion
      <4> QED
        BY <3>11, <4>1 DEF BitsFit
    <3>17. Same(x, w)
      BY <3>2, <3>9, SameTwice
    <3>18. Grows(x, 1, d)
      BY <3>9, <3>11, <3>15, <3>16, <3>17 DEF Grows, l
    <3> QED
      BY <3>18 DEF Finished
  <2> QED
    BY <2>3, <2>4, <2>5
<1> QED
  BY <1>2, <1>4, <1>5 DEF d

(* Calls that leave what a node holds and change the room of its buffers.  *)
Recapped(x, caps) == With(x, x.length, x.null_count, x.sizes, caps, x.at)
(* A bitmap that is allocated stays so unless it is empty, and none comes  *)
(* up.                                                                     *)
BitmapKept(x, caps) ==
  Kind(x, 1) = "validity" =>
    (x.caps[1] = 0 => caps[1] = 0) /\ (caps[1] = 0 => x.caps[1] = 0 \/ x.sizes[1] = 0)
(* Only capacities have changed. *)
Eased(x, y) ==
  /\ Same(x, y) /\ IsNode(y) /\ y.length = x.length /\ y.null_count = x.null_count
  /\ y.sizes = x.sizes /\ y.at = x.at /\ BitmapKept(x, y.caps)
(* Memory ran out, or only capacities have changed. *)
Went(x, f, d) == Spoilt(x, d) \/ \E y : d = Begin(y, f) /\ Eased(x, y)

(* No change is one of capacities. *)
LEMMA EasedItself ==
  ASSUME NEW x, IsNode(x)
  PROVE  Eased(x, x)
BY DEF Eased, Same, BitmapKept

(* Two changes of capacities are one. *)
LEMMA EasedTwice ==
  ASSUME NEW x, NEW y, NEW z, Eased(x, y), Eased(y, z)
  PROVE  Eased(x, z)
<1>1. Same(x, z)
  BY SameTwice DEF Eased
<1>2. Kind(y, 1) = Kind(x, 1)
  BY SameKinds DEF Eased
<1>3. BitmapKept(x, z.caps)
  BY <1>2 DEF Eased, BitmapKept
<1> QED
  BY <1>1, <1>3 DEF Eased

(* A node with other capacities holds what it held. *)
LEMMA EasedFilled ==
  ASSUME NEW x, IsNode(x), NEW y, Eased(x, y)
  PROVE  /\ First(x, x.length, x.null_count) => First(y, y.length, y.null_count)
         /\ Filled(x) => Filled(y)
<1>1. y.sizes = x.sizes /\ y.at = x.at /\ Same(x, y) /\ IsNode(y)
  BY DEF Eased
<1>2. ASSUME Second(x, x.length) PROVE Second(y, y.length)
  BY <1>1, <1>2, SameKinds DEF Eased, Second, Same, Ends
<1>3. ASSUME First(x, x.length, x.null_count) PROVE First(y, y.length, y.null_count)
  <2>1. y.length = x.length /\ y.null_count = x.null_count /\ x.type \in Types /\ x.length \in Nat
    BY NodeHas DEF Eased
  <2>2. y.type = x.type /\ IsUnion(y) = IsUnion(x)
    BY <1>1, SameKinds DEF Same
  <2>3. CASE x.type = "na" \/ IsUnion(x)
    BY <1>1, <1>3, <2>1, <2>2, <2>3 DEF First, IsUnion
  <2>4. CASE ~(x.type = "na" \/ IsUnion(x))
    <3>1. Bitmap(x, x.length, x.null_count) /\ Kind(x, 1) = "validity"
      BY <1>3, <2>1, <2>4, Laid DEF First
    <3>2. BitmapKept(x, y.caps)
      BY DEF Eased
    <3>3. HasBitmap(y) /\ ZeroCount(y.at[1]) = x.null_count
      BY <1>1, <3>1 DEF Bitmap, HasBitmap
    <3>4. ASSUME y.caps[1] = 0 PROVE y.at[1] = <<>>
      <4>1. x.caps[1] = 0 \/ x.sizes[1] = 0
        BY <3>1, <3>2, <3>4 DEF BitmapKept
      <4>2. CASE x.caps[1] = 0
        BY <1>1, <3>1, <4>2 DEF Bitmap
      <4>3. CASE x.sizes[1] = 0 /\ x.caps[1] # 0
        <5>1. Len(x.at[1]) = x.length /\ BytesForBits(Len(x.at[1])) = 0 /\ x.at[1] \in Seq(Flags)
          BY <3>1, <4>3 DEF Bitmap, HasBitmap
        <5>2. x.length = 0
          <6>1. (x.length + 7) \div 8 = 0
            BY <2>1, <5>1, BytesHold
          <6> QED
            BY <2>1, <6>1
        <5>3. x.at[1] = <<>>
          BY <5>1, <5>2
        <5> QED
          BY <1>1, <5>3
      <4> QED
        BY <4>1, <4>2, <4>3
    <3>5. ASSUME y.caps[1] # 0 PROVE Len(y.at[1]) = x.length
      BY <1>1, <3>1, <3>2, <3>5 DEF Bitmap, BitmapKept
    <3>6. Bitmap(y, x.length, x.null_count)
      BY <3>3, <3>4, <3>5 DEF Bitmap
    <3> QED
      BY <2>1, <2>2, <2>4, <3>6 DEF First
  <2> QED
    BY <2>3, <2>4
<1> QED
  BY <1>2, <1>3 DEF Filled

(* Other capacities, with room for the contents, are a change of           *)
(* capacities.                                                             *)
LEMMA RecappedIs ==
  ASSUME NEW x, IsNode(x), NEW caps, Room(x.sizes, caps), BitmapKept(x, caps)
  PROVE  Eased(x, Recapped(x, caps)) /\ Recapped(x, caps).caps = caps
<1> DEFINE y == Recapped(x, caps)
<1>1. x.length \in Nat /\ x.null_count \in Nat /\ x.at = [b \in 1..3 |-> x.at[b]]
  BY NodeHas
<1>2. IsNode(y)
  BY <1>1, WithNode DEF Recapped
<1>3. Same(x, y)
  BY WithSame DEF Recapped
<1>4. /\ y.length = x.length /\ y.null_count = x.null_count
      /\ y.sizes = x.sizes /\ y.at = x.at /\ y.caps = caps
  BY WithIs DEF Recapped
<1> HIDE DEF y
<1> QED
  BY <1>2, <1>3, <1>4 DEF Eased, y

(* The call with another capacity of buffer b. *)
CapSet(d, b, cap) == [d EXCEPT !.node.caps[b] = cap]
(* Setting a capacity of a node that is spelled out. *)
LEMMA CapWith ==
  ASSUME NEW w, NEW l, NEW n, NEW s, NEW c, NEW a, NEW b, NEW cap, NEW f
  PROVE  CapSet(Begin(With(w, l, n, s, c, a), f), b, cap) = Begin(With(w, l, n, s, [c EXCEPT ![b] = cap], a), f)
<1> DEFINE x == With(w, l, n, s, c, a)
           y == With(w, l, n, s, [c EXCEPT ![b] = cap], a)
<1>1. [x EXCEPT !.caps[b] = cap] = y
  BY DEF With
<1> HIDE DEF x, y
<1>2. CapSet(Begin(x, f), b, cap) = Begin([x EXCEPT !.caps[b] = cap], f)
  <2> DEFINE d == CapSet(Begin(x, f), b, cap)
  <2>1. d = [Begin(x, f) EXCEPT !.node.caps[b] = cap]
    BY DEF CapSet
  <2> HIDE DEF d
  <2>2. d = Begin([x EXCEPT !.caps[b] = cap], f)
    BY <2>1 DEF Begin
  <2> QED
    BY <2>2 DEF d
<1> QED
  BY <1>1, <1>2 DEF x, y

(* Setting a capacity of a node. *)
LEMMA CapIs ==
  ASSUME NEW x, IsNode(x), NEW b \in 1..3, NEW cap, NEW f
  PROVE  CapSet(Begin(x, f), b, cap) = Begin(Recapped(x, [x.caps EXCEPT ![b] = cap]), f)
<1>1. x = With(x, x.length, x.null_count, x.sizes, x.caps, x.at)
  BY NodeHas
<1> DEFINE l == x.length
           n == x.null_count
           s == x.sizes
           c == x.caps
           a == x.at
<1>2. x = With(x, l, n, s, c, a)
  BY <1>1
<1> HIDE DEF l, n, s, c, a
<1>3. CapSet(Begin(With(x, l, n, s, c, a), f), b, cap) = Begin(With(x, l, n, s, [c EXCEPT ![b] = cap], a), f)
  BY CapWith
<1>4. CapSet(Begin(x, f), b, cap) = Begin(With(x, l, n, s, [c EXCEPT ![b] = cap], a), f)
  BY <1>2, <1>3, Zenon
<1> QED
  BY <1>4, Zenon DEF Recapped, l, n, s, c, a

(* The buffer lost when a reallocation fails. *)
Lost(d, b) == [d EXCEPT !.node = Lose(@, b), !.err = "ENOMEM"]
(* A node that has lost a buffer is a node still, with an error. *)
LEMMA LoseIs ==
  ASSUME NEW x, IsNode(x), NEW b \in 1..3, NEW f
  PROVE  Spoilt(x, Lost(Begin(x, f), b))
<1> DEFINE d == Lost(Begin(x, f), b)
           s == [x.sizes EXCEPT ![b] = 0]
           c == [x.caps EXCEPT ![b] = 0]
           a == [x.at EXCEPT ![b] = <<>>]
<1>1. d.node = Lose(x, b) /\ d.err = "ENOMEM" /\ d.wild = FALSE
  BY DEF Begin, Lost
<1>2. Lose(x, b) = With(x, x.length, x.null_count, s, c, a)
  <2>1. x = With(x, x.length, x.null_count, x.sizes, x.caps, x.at)
    BY NodeHas
  <2>2. Lose(x, b) = [[[x EXCEPT !.sizes[b] = 0] EXCEPT !.caps[b] = 0] EXCEPT !.at[b] = <<>>]
    BY DEF Lose
  <2> QED
    BY <2>1, <2>2 DEF With
<1>3. Room(s, c)
  BY DEF IsNode, Room
<1>4. a = [i \in 1..3 |-> a[i]]
  BY DEF IsNode
<1>5. x.length \in Nat /\ x.null_count \in Nat
  BY NodeHas
<1> HIDE DEF s, c, a, d
<1>6. IsNode(Lose(x, b)) /\ Same(x, Lose(x, b))
  BY <1>2, <1>3, <1>4, <1>5, WithNode, WithSame
<1> QED
  BY <1>1, <1>6 DEF Spoilt, d

(* A reallocation either loses the buffer or sets its capacity. *)
LEMMA ReallocateIs ==
  ASSUME NEW x, NEW b, NEW cap, NEW f
  PROVE  LET d == Reallocate(Begin(x, f), b, cap) IN
           /\ f = b => d = Lost(Begin(x, f), b)
           /\ f # b => d = CapSet(Begin(x, f), b, cap)
<1> DEFINE c == Begin(x, f)
<1>1. c.fails = f
  BY DEF Begin
<1> HIDE DEF c
<1>2. Reallocate(c, b, cap) = IF f = b THEN Lost(c, b) ELSE CapSet(c, b, cap)
  BY <1>1, Zenon DEF Reallocate, CapSet, Lost
<1> QED
  BY <1>2, Zenon DEF c

(* What ArrowBufferResize with shrink does: nothing, free, or reallocate.  *)
LEMMA ShrinkBufferCases ==
  ASSUME NEW x, IsNode(x), NEW b \in 1..3, NEW f
  PROVE  LET d == ShrinkBuffer(Begin(x, f), b) IN
           \/ d = Begin(x, f)
           \/ x.caps[b] # 0 /\ x.sizes[b] = 0 /\ d = CapSet(Begin(x, f), b, 0)
           \/ x.caps[b] # 0 /\ x.sizes[b] # 0 /\ d = Reallocate(Begin(x, f), b, x.sizes[b])
<1> DEFINE c == Begin(x, f)
<1>1. c.node = x
  BY DEF Begin
<1>2. x.sizes[b] \in Nat /\ x.caps[b] \in Nat /\ x.sizes[b] <= x.caps[b]
  BY NodeHas
<1> HIDE DEF c
<1> DEFINE d == ShrinkBuffer(c, b)
<1>3. CASE x.sizes[b] >= x.caps[b]
  <2>1. d = c
    BY <1>1, <1>3 DEF ShrinkBuffer
  <2> QED
    BY <2>1 DEF c
<1>4. CASE ~(x.sizes[b] >= x.caps[b]) /\ x.sizes[b] = 0
  <2>1. d = [c EXCEPT !.node.caps[b] = 0]
    BY <1>1, <1>4 DEF ShrinkBuffer
  <2>2. x.caps[b] # 0 /\ x.sizes[b] = 0
    BY <1>2, <1>4
  <2> HIDE DEF d
  <2> QED
    BY <2>1, <2>2, Zenon DEF c, d, CapSet
<1>5. CASE ~(x.sizes[b] >= x.caps[b]) /\ x.sizes[b] # 0
  <2>1. d = Reallocate(c, b, x.sizes[b])
    BY <1>1, <1>5 DEF ShrinkBuffer
  <2>2. x.caps[b] # 0 /\ x.sizes[b] # 0
    BY <1>2, <1>5
  <2> HIDE DEF d
  <2> QED
    BY <2>1, <2>2, Zenon DEF c, d
<1> QED
  BY <1>3, <1>4, <1>5

(* Shrinking a buffer changes only its capacity, or memory runs out. *)
LEMMA ShrinkBufferIs ==
  ASSUME NEW x, IsNode(x), NEW b \in 1..3, NEW f
  PROVE  Went(x, f, ShrinkBuffer(Begin(x, f), b))
<1> DEFINE d == ShrinkBuffer(Begin(x, f), b)
           To(cap) == [x.caps EXCEPT ![b] = cap]
<1>1. /\ x.sizes[b] \in Nat /\ x.caps[b] \in Nat /\ x.sizes[b] <= x.caps[b]
      /\ x.sizes \in [1..3 -> Nat] /\ x.caps \in [1..3 -> Nat] /\ Room(x.sizes, x.caps)
  BY NodeHas
<1>2. \/ d = Begin(x, f)
      \/ x.caps[b] # 0 /\ x.sizes[b] = 0 /\ d = CapSet(Begin(x, f), b, 0)
      \/ x.caps[b] # 0 /\ x.sizes[b] # 0 /\ d = Reallocate(Begin(x, f), b, x.sizes[b])
  BY ShrinkBufferCases
<1> HIDE DEF d
<1>3. ASSUME NEW cap \in Nat, cap >= x.sizes[b], x.caps[b] # 0, cap = 0 => x.sizes[b] = 0,
             d = CapSet(Begin(x, f), b, cap)
      PROVE  Went(x, f, d)
  <2>1. d = Begin(Recapped(x, To(cap)), f)
    BY <1>3, CapIs
  <2>2. Room(x.sizes, To(cap))
    BY <1>1, <1>3 DEF Room
  <2>3. BitmapKept(x, To(cap))
    BY <1>1, <1>3 DEF BitmapKept
  <2>4. Eased(x, Recapped(x, To(cap)))
    BY <2>2, <2>3, RecappedIs
  <2> HIDE DEF To
  <2> QED
    BY <2>1, <2>4 DEF Went
<1>4. ASSUME d = Begin(x, f) PROVE Went(x, f, d)
  BY <1>4, EasedItself DEF Went
<1>5. ASSUME x.caps[b] # 0, x.sizes[b] = 0, d = CapSet(Begin(x, f), b, 0) PROVE Went(x, f, d)
  <2>1. 0 \in Nat /\ 0 >= x.sizes[b]
    BY <1>5
  <2> QED
    BY <1>3, <1>5, <2>1
<1>6. ASSUME x.caps[b] # 0, x.sizes[b] # 0, d = Reallocate(Begin(x, f), b, x.sizes[b]) PROVE Went(x, f, d)
  <2> DEFINE cap == x.sizes[b]
             r == Reallocate(Begin(x, f), b, cap)
  <2>1. d = r /\ cap \in Nat /\ cap >= x.sizes[b] /\ (cap = 0 => x.sizes[b] = 0)
    BY <1>1, <1>6
  <2> HIDE DEF cap
  <2>2. /\ f = b => r = Lost(Begin(x, f), b)
        /\ f # b => r = CapSet(Begin(x, f), b, cap)
    BY ReallocateIs
  <2> HIDE DEF r
  <2>3. CASE f = b
    <3>1. d = Lost(Begin(x, f), b)
      BY <2>1, <2>2, <2>3, Zenon
    <3> QED
      BY <3>1, LoseIs, Zenon DEF Went
  <2>4. CASE f # b
    <3>1. d = CapSet(Begin(x, f), b, cap)
      BY <2>1, <2>2, <2>4, Zenon
    <3> QED
      BY <1>3, <1>6, <2>1, <3>1, Zenon
  <2> QED
    BY <2>3, <2>4
<1>7. Went(x, f, d)
  BY <1>2, <1>4, <1>5, <1>6
<1> QED
  BY <1>7 DEF d

(* ArrowBufferReserve changes only capacities, and raises none but that    *)
(* asked for.                                                              *)
LEMMA ReserveEased ==
  ASSUME NEW x, IsNode(x), NEW b \in 1..3, ~(Kind(x, b) = "validity" /\ x.caps[b] = 0), NEW extra \in Nat, NEW f
  PROVE  LET d == BufferReserve(Begin(x, f), b, extra) IN
           Spoilt(x, d) \/ \E y : /\ d = Begin(y, f) /\ Eased(x, y) /\ y.caps[b] >= x.sizes[b] + extra
                                  /\ \A i \in 1..3 : y.caps[i] >= x.caps[i]
<1> DEFINE d == BufferReserve(Begin(x, f), b, extra)
<1>1. Spoilt(x, d) \/ \E y : /\ d = Begin(y, f) /\ Turned(x, y, b)
                             /\ y.sizes = x.sizes /\ y.at = x.at /\ y.caps[b] >= x.sizes[b] + extra
  BY ReserveTurned
<1> HIDE DEF d
<1>2. ASSUME NEW y, Turned(x, y, b), y.sizes = x.sizes, y.at = x.at
      PROVE  Eased(x, y) /\ \A i \in 1..3 : y.caps[i] >= x.caps[i]
  <2>1. /\ Same(x, y) /\ IsNode(y) /\ y.length = x.length /\ y.null_count = x.null_count
        /\ y.caps[b] >= x.caps[b] /\ \A i \in 1..3 : i # b => y.caps[i] = x.caps[i]
    BY <1>2 DEF Turned, Alike
  <2>2. \A i \in 1..3 : x.caps[i] \in Nat /\ y.caps[i] \in Nat
    BY <2>1, NodeHas
  <2>3. \A i \in 1..3 : y.caps[i] >= x.caps[i]
    BY <2>1, <2>2
  <2>4. 1 \in 1..3
    OBVIOUS
  <2>5. BitmapKept(x, y.caps)
    <3>1. CASE b = 1
      BY <2>1, <2>2, <3>1 DEF BitmapKept
    <3>2. CASE b # 1
      BY <2>1, <2>4, <3>2 DEF BitmapKept
    <3> QED
      BY <3>1, <3>2
  <2> QED
    BY <1>2, <2>1, <2>3, <2>5 DEF Eased
<1>3. Spoilt(x, d) \/ \E y : /\ d = Begin(y, f) /\ Eased(x, y) /\ y.caps[b] >= x.sizes[b] + extra
                             /\ \A i \in 1..3 : y.caps[i] >= x.caps[i]
  BY <1>1, <1>2
<1> QED
  BY <1>3 DEF d

(* The one byte that ArrowArrayFinalizeBuffers allocates changes only a    *)
(* capacity.                                                               *)
LEMMA AllocateIs ==
  ASSUME NEW x, IsNode(x), NEW b \in 1..3, NEW f
  PROVE  Went(x, f, Allocate(Begin(x, f), b))
<1> DEFINE d == Allocate(Begin(x, f), b)
<1>1. d = IF Kind(x, b) \in {"validity", "none"} \/ x.caps[b] # 0 THEN Begin(x, f)
          ELSE BufferReserve(Begin(x, f), b, 1)
  <2> DEFINE c == Begin(x, f)
  <2>1. c.node = x
    BY DEF Begin
  <2> HIDE DEF c
  <2>2. Allocate(c, b) = IF Kind(x, b) \in {"validity", "none"} \/ x.caps[b] # 0 THEN c ELSE BufferReserve(c, b, 1)
    BY <2>1, Zenon DEF Allocate
  <2> QED
    BY <2>2, Zenon DEF c
<1>2. CASE Kind(x, b) \in {"validity", "none"} \/ x.caps[b] # 0
  <2>1. d = Begin(x, f)
    BY <1>1, <1>2
  <2> HIDE DEF d
  <2> QED
    BY <2>1, EasedItself DEF Went, d
<1>3. CASE ~(Kind(x, b) \in {"validity", "none"} \/ x.caps[b] # 0)
  <2>1. d = BufferReserve(Begin(x, f), b, 1)
    BY <1>1, <1>3
  <2> DEFINE e == BufferReserve(Begin(x, f), b, 1)
  <2>2. Spoilt(x, e) \/ \E y : /\ e = Begin(y, f) /\ Eased(x, y) /\ y.caps[b] >= x.sizes[b] + 1
                               /\ \A i \in 1..3 : y.caps[i] >= x.caps[i]
    BY <1>3, ReserveEased
  <2> HIDE DEF e, d
  <2>3. Went(x, f, e)
    BY <2>2 DEF Went
  <2> QED
    BY <2>1, <2>3 DEF d, e
<1> QED
  BY <1>2, <1>3

(* A second call after one that only changed capacities. *)
LEMMA WentOn ==
  ASSUME NEW x, NEW f, NEW d, Went(x, f, d), NEW e,
         \A y : d = Begin(y, f) /\ Eased(x, y) => Went(y, f, e)
  PROVE  Went(x, f, IF d.err = "OK" THEN e ELSE d)
<1> DEFINE r == IF d.err = "OK" THEN e ELSE d
<1>1. ASSUME Spoilt(x, d) PROVE Went(x, f, r)
  <2>1. r = d
    BY <1>1 DEF Spoilt
  <2> QED
    BY <1>1, <2>1 DEF Went
<1>2. ASSUME NEW y, d = Begin(y, f), Eased(x, y) PROVE Went(x, f, r)
  <2>1. r = e
    BY <1>2 DEF Begin
  <2>2. Went(y, f, e)
    BY <1>2
  <2> HIDE DEF r
  <2>3. Same(x, y)
    BY <1>2 DEF Eased
  <2>4. ASSUME Spoilt(y, e) PROVE Went(x, f, r)
    BY <2>1, <2>3, <2>4, SpoiltSame DEF Went
  <2>5. ASSUME NEW z, e = Begin(z, f), Eased(y, z) PROVE Went(x, f, r)
    <3>1. Eased(x, z)
      BY <1>2, <2>5, EasedTwice
    <3> QED
      BY <2>1, <2>5, <3>1 DEF Went
  <2> QED
    BY <2>2, <2>4, <2>5 DEF Went
<1> QED
  BY <1>1, <1>2 DEF Went

(* The three buffers. *)
LEMMA Positions == 1 \in 1..3 /\ 2 \in 1..3 /\ 3 \in 1..3
OBVIOUS

(* ArrowArrayShrinkToFit at one node changes only its capacities. *)
LEMMA ShrinkIs ==
  ASSUME NEW x, IsNode(x), NEW f
  PROVE  Went(x, f, OnBuffers(Begin(x, f), ShrinkBuffer))
<1> DEFINE d == ShrinkBuffer(Begin(x, f), 1)
           e == IF d.err = "OK" THEN ShrinkBuffer(d, 2) ELSE d
           r == IF e.err = "OK" THEN ShrinkBuffer(e, 3) ELSE e
<1>1. OnBuffers(Begin(x, f), ShrinkBuffer) = r
  BY Zenon DEF OnBuffers, Continue
<1>2. Went(x, f, d)
  BY Positions, ShrinkBufferIs
<1> HIDE DEF d
<1>3. Went(x, f, e)
  <2>1. \A y : d = Begin(y, f) /\ Eased(x, y) => Went(y, f, ShrinkBuffer(d, 2))
    BY Positions, ShrinkBufferIs DEF Eased
  <2> QED
    BY <1>2, <2>1, WentOn
<1> HIDE DEF e
<1>4. Went(x, f, r)
  <2>1. \A y : e = Begin(y, f) /\ Eased(x, y) => Went(y, f, ShrinkBuffer(e, 3))
    BY Positions, ShrinkBufferIs DEF Eased
  <2> QED
    BY <1>3, <2>1, WentOn
<1> HIDE DEF r
<1> QED
  BY <1>1, <1>4

(* ArrowArrayFinalizeBuffers at one node changes only its capacities. *)
LEMMA FinalizeIs ==
  ASSUME NEW x, IsNode(x), NEW f
  PROVE  Went(x, f, OnBuffers(Begin(x, f), Allocate))
<1> DEFINE d == Allocate(Begin(x, f), 1)
           e == IF d.err = "OK" THEN Allocate(d, 2) ELSE d
           r == IF e.err = "OK" THEN Allocate(e, 3) ELSE e
<1>1. OnBuffers(Begin(x, f), Allocate) = r
  BY Zenon DEF OnBuffers, Continue
<1>2. Went(x, f, d)
  BY Positions, AllocateIs
<1> HIDE DEF d
<1>3. Went(x, f, e)
  <2>1. \A y : d = Begin(y, f) /\ Eased(x, y) => Went(y, f, Allocate(d, 2))
    BY Positions, AllocateIs DEF Eased
  <2> QED
    BY <1>2, <2>1, WentOn
<1> HIDE DEF e
<1>4. Went(x, f, r)
  <2>1. \A y : e = Begin(y, f) /\ Eased(x, y) => Went(y, f, Allocate(e, 3))
    BY Positions, AllocateIs DEF Eased
  <2> QED
    BY <1>3, <2>1, WentOn
<1> HIDE DEF r
<1> QED
  BY <1>1, <1>4

(* ArrowArrayReserve leaves the room that the view asks for. *)
Skipped(x, v, b) ==
  b > Buffers(x) \/ v.sizes[b] - x.sizes[b] <= 0 \/ (Kind(x, b) = "validity" /\ x.caps[b] = 0)
(* ArrowArrayReserveInternal's step for buffer b. *)
GrowTo(d, b, v) == IF Skipped(d.node, v, b) THEN d ELSE BufferReserve(d, b, v.sizes[b] - d.node.sizes[b])
(* Buffer b has the room that view v asks for, if that step looks at it.   *)
ReservedFor(y, v, b) ==
  b > Buffers(y) \/ v.sizes[b] <= y.caps[b] \/ (Kind(y, b) = "validity" /\ y.caps[b] = 0)
(* No buffer has lost room. *)
Wider(x, y) == \A i \in 1..3 : y.caps[i] >= x.caps[i]
(* Memory ran out, or the buffers B have the room that v asks for. *)
WentFor(x, f, v, B, d) ==
  Spoilt(x, d) \/ \E y : d = Begin(y, f) /\ Eased(x, y) /\ \A b \in B : ReservedFor(y, v, b)

(* Nodes of one type have as many buffers. *)
LEMMA BuffersSame ==
  ASSUME NEW x, NEW y, Same(x, y)
  PROVE  Buffers(y) = Buffers(x)
<1>1. \A b : Kind(y, b) = Kind(x, b)
  BY SameKinds
<1> QED
  BY <1>1 DEF Buffers

(* Room that was reserved stays while other buffers get theirs. *)
LEMMA ReservedStays ==
  ASSUME NEW x, IsNode(x), NEW y, Eased(x, y), Wider(x, y), NEW v, NEW b \in 1..3, v.sizes[b] \in Int, ReservedFor(x, v, b)
  PROVE  ReservedFor(y, v, b)
<1>1. Buffers(y) = Buffers(x) /\ Kind(y, b) = Kind(x, b)
  BY BuffersSame, SameKinds DEF Eased
<1>2. x.caps[b] \in Nat /\ y.caps[b] \in Nat /\ y.caps[b] >= x.caps[b]
  BY NodeHas DEF Eased, Wider
<1>3. CASE b > Buffers(x)
  BY <1>1, <1>3 DEF ReservedFor
<1>4. CASE v.sizes[b] <= x.caps[b]
  <2>1. v.sizes[b] <= y.caps[b]
    BY <1>2, <1>4
  <2> QED
    BY <2>1 DEF ReservedFor
<1>5. CASE Kind(x, b) = "validity" /\ x.caps[b] = 0
  <2>1. b = 1
    <3>1. x.type \in Types
      BY NodeHas
    <3> QED
      BY <1>5, <3>1, Laid
  <2>2. y.caps[b] = 0
    BY <1>5, <2>1 DEF Eased, BitmapKept
  <2> QED
    BY <1>1, <1>5, <2>2 DEF ReservedFor
<1> QED
  BY <1>3, <1>4, <1>5 DEF ReservedFor

(* The step for one buffer gives it its room, or runs out of memory. *)
LEMMA GrowToIs ==
  ASSUME NEW x, IsNode(x), NEW v, NEW b \in 1..3, v.sizes[b] \in Int, NEW f
  PROVE  LET d == GrowTo(Begin(x, f), b, v) IN
           Spoilt(x, d) \/ \E y : d = Begin(y, f) /\ Eased(x, y) /\ Wider(x, y) /\ ReservedFor(y, v, b)
<1> DEFINE d == GrowTo(Begin(x, f), b, v)
           Ended(c) == Spoilt(x, c) \/ \E y : c = Begin(y, f) /\ Eased(x, y) /\ Wider(x, y) /\ ReservedFor(y, v, b)
           extra == v.sizes[b] - x.sizes[b]
<1>1. d = IF Skipped(x, v, b) THEN Begin(x, f) ELSE BufferReserve(Begin(x, f), b, extra)
  <2> DEFINE c == Begin(x, f)
  <2>1. c.node = x
    BY DEF Begin
  <2> HIDE DEF c
  <2>2. GrowTo(c, b, v) = IF Skipped(x, v, b) THEN c ELSE BufferReserve(c, b, extra)
    BY <2>1, Zenon DEF GrowTo
  <2> QED
    BY <2>2, Zenon DEF c
<1>2. x.sizes[b] \in Nat /\ x.caps[b] \in Nat /\ x.sizes[b] <= x.caps[b] /\ \A i \in 1..3 : x.caps[i] \in Nat
  BY NodeHas
<1> HIDE DEF d
<1>3. CASE Skipped(x, v, b)
  <2>1. d = Begin(x, f) /\ Eased(x, x) /\ Wider(x, x)
    BY <1>1, <1>2, <1>3, EasedItself DEF Wider
  <2>2. ReservedFor(x, v, b)
    <3>1. CASE v.sizes[b] - x.sizes[b] <= 0
      <4>1. v.sizes[b] <= x.caps[b]
        BY <1>2, <3>1
      <4> QED
        BY <4>1 DEF ReservedFor
    <3> QED
      BY <1>3, <3>1 DEF Skipped, ReservedFor
  <2>3. Ended(d)
    BY <2>1, <2>2
  <2> QED
    BY <2>3 DEF d
<1>4. CASE ~Skipped(x, v, b)
  <2>1. d = BufferReserve(Begin(x, f), b, extra) /\ extra \in Nat
    BY <1>1, <1>2, <1>4 DEF Skipped
  <2>2. ~(Kind(x, b) = "validity" /\ x.caps[b] = 0)
    BY <1>4 DEF Skipped
  <2> DEFINE e == BufferReserve(Begin(x, f), b, extra)
  <2>3. x.sizes[b] + extra = v.sizes[b]
    BY <1>2
  <2> HIDE DEF extra
  <2>4. Spoilt(x, e) \/ \E y : /\ e = Begin(y, f) /\ Eased(x, y) /\ y.caps[b] >= x.sizes[b] + extra
                               /\ \A i \in 1..3 : y.caps[i] >= x.caps[i]
    BY <2>1, <2>2, ReserveEased
  <2> HIDE DEF e
  <2>5. ASSUME NEW y, e = Begin(y, f), Eased(x, y), y.caps[b] >= x.sizes[b] + extra,
               \A i \in 1..3 : y.caps[i] >= x.caps[i]
        PROVE  Wider(x, y) /\ ReservedFor(y, v, b)
    <3>1. y.caps[b] \in Nat
      BY <2>5, NodeHas DEF Eased
    <3>2. v.sizes[b] <= y.caps[b]
      BY <2>3, <2>5, <3>1
    <3> QED
      BY <2>5, <3>2 DEF Wider, ReservedFor
  <2>6. Ended(e)
    BY <2>4, <2>5
  <2>7. d = e
    BY <2>1 DEF e
  <2> HIDE DEF Ended
  <2>8. Ended(d)
    BY <2>6, <2>7
  <2> QED
    BY <2>8 DEF d, Ended
<1> QED
  BY <1>3, <1>4

(* One step adds its buffer to those that have their room. *)
LEMMA WentForOn ==
  ASSUME NEW x, IsNode(x), NEW f, NEW v, NEW B \in SUBSET (1..3), NEW b \in 1..3, \A i \in 1..3 : v.sizes[i] \in Int,
         NEW d, WentFor(x, f, v, B, d)
  PROVE  WentFor(x, f, v, B \cup {b}, IF d.err = "OK" THEN GrowTo(d, b, v) ELSE d)
<1> DEFINE e == GrowTo(d, b, v)
           r == IF d.err = "OK" THEN e ELSE d
           A == B \cup {b}
<1>1. ASSUME Spoilt(x, d) PROVE WentFor(x, f, v, A, r)
  <2>1. r = d
    BY <1>1 DEF Spoilt
  <2> QED
    BY <1>1, <2>1 DEF WentFor
<1>2. ASSUME NEW y, d = Begin(y, f), Eased(x, y), \A i \in B : ReservedFor(y, v, i)
      PROVE  WentFor(x, f, v, A, r)
  <2>1. r = e
    BY <1>2 DEF Begin
  <2>2. Same(x, y) /\ IsNode(y)
    BY <1>2 DEF Eased
  <2>3. Spoilt(y, e) \/ \E z : e = Begin(z, f) /\ Eased(y, z) /\ Wider(y, z) /\ ReservedFor(z, v, b)
    BY <1>2, <2>2, GrowToIs
  <2> HIDE DEF r, e
  <2>4. ASSUME Spoilt(y, e) PROVE WentFor(x, f, v, A, r)
    BY <2>1, <2>2, <2>4, SpoiltSame DEF WentFor
  <2>5. ASSUME NEW z, e = Begin(z, f), Eased(y, z), Wider(y, z), ReservedFor(z, v, b)
        PROVE  WentFor(x, f, v, A, r)
    <3>1. Eased(x, z)
      BY <1>2, <2>5, EasedTwice
    <3>2. \A i \in B : ReservedFor(z, v, i)
      BY <1>2, <2>2, <2>5, ReservedStays
    <3>3. \A i \in A : ReservedFor(z, v, i)
      BY <2>5, <3>2
    <3> HIDE DEF A
    <3> QED
      BY <2>1, <2>5, <3>1, <3>3 DEF WentFor
  <2> QED
    BY <2>3, <2>4, <2>5
<1> QED
  BY <1>1, <1>2 DEF WentFor

(* ArrowArrayReserveInternal gives all three buffers of a node their room. *)
LEMMA ReserveAtIs ==
  ASSUME NEW x, IsNode(x), NEW v, \A i \in 1..3 : v.sizes[i] \in Int, NEW f
  PROVE  WentFor(x, f, v, 1..3, ReserveAt(Begin(x, f), v))
<1> DEFINE d == GrowTo(Begin(x, f), 1, v)
           e == IF d.err = "OK" THEN GrowTo(d, 2, v) ELSE d
           r == IF e.err = "OK" THEN GrowTo(e, 3, v) ELSE e
<1>1. ReserveAt(Begin(x, f), v) = r
  BY Zenon DEF ReserveAt, OnBuffers, Continue, GrowTo, Skipped
<1>2. WentFor(x, f, v, {1}, d)
  <2>1. Spoilt(x, d) \/ \E y : d = Begin(y, f) /\ Eased(x, y) /\ Wider(x, y) /\ ReservedFor(y, v, 1)
    BY Positions, GrowToIs
  <2> HIDE DEF d
  <2> QED
    BY <2>1 DEF WentFor
<1> HIDE DEF d
<1>3. WentFor(x, f, v, {1} \cup {2}, e)
  <2>1. {1} \in SUBSET (1..3)
    OBVIOUS
  <2> QED
    BY <1>2, <2>1, Positions, WentForOn
<1> HIDE DEF e
<1>4. WentFor(x, f, v, ({1} \cup {2}) \cup {3}, r)
  <2>1. {1} \cup {2} \in SUBSET (1..3)
    OBVIOUS
  <2> QED
    BY <1>3, <2>1, Positions, WentForOn
<1>5. ({1} \cup {2}) \cup {3} = 1..3
  OBVIOUS
<1> HIDE DEF r
<1> QED
  BY <1>1, <1>4, <1>5

(* An array that was initialized, and what ArrowArrayStartAppending makes  *)
(* of it.                                                                  *)
Blank(x) ==
  /\ IsNode(x) /\ x.length = 0 /\ x.null_count = 0
  /\ \A b \in 1..3 : x.sizes[b] = 0 /\ x.caps[b] = 0 /\ x.at[b] = <<>>
(* The node as ArrowArrayStartAppending leaves it: empty and filled. *)
Started0(x, y) ==
  /\ Same(x, y) /\ IsNode(y) /\ y.length = 0 /\ Filled(y) /\ y.sizes[2] \in Nat
  /\ x.type = "bool" => y.sizes[2] = 0
  /\ Kind(x, 2) = "data_offset" => y.at[2][1] = 0

(* An initialized node has no elements and counts none as null. *)
LEMMA BlankFirst ==
  ASSUME NEW x, Blank(x)
  PROVE  First(x, x.length, x.null_count)
<1>1. /\ x.length = 0 /\ x.null_count = 0 /\ x.sizes[1] = 0 /\ x.caps[1] = 0 /\ x.at[1] = <<>>
  BY Positions DEF Blank
<1>2. BytesForBits(0) = 0
  <2>1. BytesForBits(0) = (0 + 7) \div 8
    BY BytesHold
  <2> QED
    BY <2>1
<1>3. HasBitmap(x) /\ ZeroCount(x.at[1]) = 0
  BY <1>1, <1>2, NoZeros DEF HasBitmap
<1>4. Bitmap(x, 0, 0)
  BY <1>1, <1>3 DEF Bitmap
<1> QED
  BY <1>1, <1>4 DEF First

(* ArrowArrayStartAppending at one node: the first offset and the sorted   *)
(* type ids, or a refusal.                                                 *)
LEMMA BlankStarts ==
  ASSUME NEW x, Blank(x), NEW f, NEW is_root
  PROVE  LET d == StartAt(Begin(x, f), is_root) IN
           Refused(x, d) \/ \E y : d = Begin(y, f) /\ Started0(x, y)
<1> DEFINE d == StartAt(Begin(x, f), is_root)
           Ended(c) == Refused(x, c) \/ \E y : c = Begin(y, f) /\ Started0(x, y)
<1>1. d = IF IsUnion(x) /\ ~KnownIds(x, is_root) THEN Refuse(Begin(x, f), "EINVAL")
          ELSE IF Kind(x, 2) = "data_offset" THEN BufferAppend(Begin(x, f), 2, << 0 >>, Width(x, 2))
          ELSE Begin(x, f)
  <2> DEFINE c == Begin(x, f)
  <2>1. c.node = x
    BY DEF Begin
  <2> HIDE DEF c
  <2>2. StartAt(c, is_root)
        = IF IsUnion(x) /\ ~KnownIds(x, is_root) THEN Refuse(c, "EINVAL")
          ELSE IF Kind(x, 2) = "data_offset" THEN BufferAppend(c, 2, << 0 >>, Width(x, 2)) ELSE c
    BY <2>1, Zenon DEF StartAt, FirstOffset
  <2> QED
    BY <2>2, Zenon DEF c
<1>2. /\ IsNode(x) /\ x.length = 0 /\ x.null_count = 0 /\ x.type \in Types
      /\ x.sizes[2] = 0 /\ x.at[2] = <<>> /\ x.sizes[3] = 0
  BY Positions, NodeHas DEF Blank
<1>3. First(x, 0, 0)
  BY <1>2, BlankFirst
<1> HIDE DEF d
<1>4. CASE IsUnion(x) /\ ~KnownIds(x, is_root)
  <2>1. d = Refuse(Begin(x, f), "EINVAL")
    BY <1>1, <1>4
  <2>2. Stays(x, Refuse(Begin(x, f), "EINVAL"))
    BY RefusalStays
  <2>3. Ended(d)
    BY <2>1, <2>2 DEF Refused
  <2> QED
    BY <2>3 DEF d
<1>5. CASE ~(IsUnion(x) /\ ~KnownIds(x, is_root)) /\ Kind(x, 2) # "data_offset"
  <2>1. d = Begin(x, f)
    BY <1>1, <1>5
  <2>2. Second(x, 0)
    BY <1>2, <1>5 DEF Second
  <2>3. Filled(x)
    BY <1>2, <1>3, <2>2 DEF Filled
  <2>4. Started0(x, x)
    BY <1>2, <1>5, <2>3 DEF Started0, Same
  <2>5. Ended(d)
    BY <2>1, <2>4
  <2> QED
    BY <2>5 DEF d
<1>6. CASE ~(IsUnion(x) /\ ~KnownIds(x, is_root)) /\ Kind(x, 2) = "data_offset"
  <2> DEFINE w == Width(x, 2)
             e == BufferAppend(Begin(x, f), 2, << 0 >>, w)
  <2>1. d = e
    BY <1>1, <1>6
  <2>2. w \in Nat /\ x.type \notin {"bool", "int16", "dense_union"}
    BY <1>2, <1>6, Laid
  <2> HIDE DEF w
  <2>3. Spoilt(x, e) \/ \E y : e = Begin(y, f) /\ Got(x, y, 2, << 0 >>, w)
    BY <1>2, <2>2, Positions, AppendTurned
  <2> HIDE DEF e
  <2>4. ASSUME NEW y, Got(x, y, 2, << 0 >>, w) PROVE Started0(x, y)
    <3>1. Turned(x, y, 2) /\ y.sizes[2] = w /\ y.at[2] = << 0 >>
      BY <1>2, <2>2, <2>4 DEF Got
    <3>2. Same(x, y) /\ IsNode(y) /\ y.length = 0 /\ y.null_count = 0
      BY <1>2, <3>1, TurnedHas
    <3>3. Alike(x, y, 1) /\ y.sizes[3] = 0
      BY <1>2, <3>1, TurnedAlike DEF Alike
    <3>4. First(y, 0, 0)
      BY <1>3, <3>2, <3>3, FirstAlike
    <3>5. y.type = x.type /\ Kind(y, 2) = "data_offset" /\ Width(y, 2) = w
      BY <1>6, <3>2, SameKinds DEF Same, w
    <3>6. Rising(<< 0 >>, 0)
      BY DEF Rising
    <3>7. Second(y, 0)
      BY <2>2, <3>1, <3>3, <3>5, <3>6 DEF Second, Ends
    <3>8. Filled(y)
      BY <3>2, <3>4, <3>7 DEF Filled
    <3> QED
      BY <2>2, <3>1, <3>2, <3>8 DEF Started0
  <2>5. Ended(e)
    BY <2>3, <2>4 DEF Refused
  <2> HIDE DEF Ended
  <2>6. Ended(d)
    BY <2>1, <2>5
  <2> QED
    BY <2>6 DEF d, Ended
<1> QED
  BY <1>4, <1>5, <1>6

(* FinishElement of any node. *)
LEMMA FinishNode ==
  ASSUME NEW t, NEW p, NEW f, IsNode(t[p]), Filled(t[p]),
         t[p].type = "list" => /\ Kid(t, p, 1).length \in Nat
                               /\ t[p].at[2][t[p].length + 1] <= Kid(t, p, 1).length
  PROVE  LET d == FinishElement(t, p, f) IN
           \/ Refused(t[p], d)
           \/ /\ Grows(t[p], 1, d)
              /\ t[p].type = "list" => d.node.at[2][d.node.length + 1] = Kid(t, p, 1).length
              /\ t[p].type # "list" => ChildrenReady(t, p)
<1> DEFINE x == t[p]
           length == Kid(t, p, 1).length
           ready == ChildrenReady(t, p)
           d == FinishElement(t, p, f)
           Ended(c) == \/ Refused(x, c)
                       \/ /\ Grows(x, 1, c)
                          /\ x.type = "list" => c.node.at[2][c.node.length + 1] = length
                          /\ x.type # "list" => ready
<1>1. d = IF x.type = "list" THEN ListElement(x, length, f)
          ELSE IF ~ready THEN Refuse(Begin(x, f), "EINVAL") ELSE CountElement(Begin(x, f))
  BY Zenon DEF FinishElement, ListElement
<1>2. ready => x.type \in {"struct", "fixed_size_list"}
  BY DEF ChildrenReady
<1>3. /\ IsNode(x) /\ Filled(x)
      /\ x.type = "list" => length \in Nat /\ x.at[2][x.length + 1] <= length
  OBVIOUS
<1> HIDE DEF x, length, ready, d, Ended
<1>4. ASSUME x.type = "list" PROVE Ended(d)
  <2> DEFINE e == ListElement(x, length, f)
  <2>1. d = e
    BY <1>1, <1>4
  <2>2. Refused(x, e) \/ (Grows(x, 1, e) /\ e.node.at[2][e.node.length + 1] = length)
    BY <1>3, <1>4, ListElementIs
  <2> HIDE DEF e
  <2>3. Ended(e)
    BY <1>4, <2>2 DEF Ended
  <2> QED
    BY <2>1, <2>3
<1>5. ASSUME x.type # "list", ~ready PROVE Ended(d)
  <2>1. d = Refuse(Begin(x, f), "EINVAL")
    BY <1>1, <1>5
  <2>2. Stays(x, Refuse(Begin(x, f), "EINVAL"))
    BY RefusalStays
  <2> DEFINE e == Refuse(Begin(x, f), "EINVAL")
  <2> HIDE DEF e
  <2>3. Ended(e)
    BY <2>2 DEF Refused, e, Ended
  <2> QED
    BY <2>1, <2>3 DEF e
<1>6. ASSUME x.type # "list", ready PROVE Ended(d)
  <2> DEFINE e == CountElement(Begin(x, f))
  <2>1. d = e
    BY <1>1, <1>6
  <2>2. Finished(x, e)
    BY <1>2, <1>3, <1>6, PlainElementIs
  <2> HIDE DEF e
  <2>3. Ended(e)
    BY <1>6, <2>2 DEF Finished, Ended
  <2> QED
    BY <2>1, <2>3
<1>7. Ended(d)
  BY <1>4, <1>5, <1>6
<1> QED
  BY <1>7 DEF Ended, x, length, ready, d

(* What a call does to a tree: R are the nodes that it comes to.           *)
Failed(t, did) == {p \in DOMAIN t : did[p].err # "OK"}
(* What a call leaves: the nodes R it came to are as it left them, the     *)
(* others as they were, and at most one of R failed.                       *)
Outcome(t, did, r, R) ==
  /\ R \subseteq DOMAIN t
  /\ r.tree = [p \in DOMAIN t |-> IF p \in R THEN did[p].node ELSE t[p]]
  /\ (\A p \in R : did[p].wild = FALSE) => r.wild = FALSE
  /\ r.err = "OK" => R = DOMAIN t /\ Failed(t, did) = {}
  /\ r.err # "OK" => \E p \in R : did[p].err = r.err
  /\ \A p, q \in R : p \in Failed(t, did) /\ q \in Failed(t, did) => p = q

(* A node visited before its children is reached if none before it failed. *)
TopReached(t, did, p) == \A q \in Failed(t, did) : ~(q < p)
(* What a call that goes down the tree leaves, in terms of who is reached. *)
TopResult(t, did) ==
  [tree |-> [p \in DOMAIN t |-> IF TopReached(t, did, p) THEN did[p].node ELSE t[p]],
   err  |-> IF Failed(t, did) = {} THEN "OK" ELSE did[CHOOSE p \in Failed(t, did) : TopReached(t, did, p)].err,
   wild |-> \E p \in DOMAIN t : TopReached(t, did, p) /\ did[p].wild]
(* A node visited after its children is reached if none done before it     *)
(* failed.                                                                 *)
EndReached(t, did, p) == \A q \in Failed(t, did) : ~DoneBefore(t, q, p)
(* What a call that comes up the tree leaves, in terms of who is reached.  *)
EndResult(t, did) ==
  [tree |-> [p \in DOMAIN t |-> IF EndReached(t, did, p) THEN did[p].node ELSE t[p]],
   err  |-> IF Failed(t, did) = {} THEN "OK" ELSE did[CHOOSE p \in Failed(t, did) : EndReached(t, did, p)].err,
   wild |-> \E p \in DOMAIN t : EndReached(t, did, p) /\ did[p].wild]

(* TopDown leaves that. *)
LEMMA TopDownResult ==
  ASSUME NEW t, NEW did
  PROVE  TopDown(t, did) = TopResult(t, did)
BY Zenon DEF TopDown, Visited, TopResult, TopReached, Failed

(* BottomUp leaves that. *)
LEMMA BottomUpResult ==
  ASSUME NEW t, NEW did
  PROVE  BottomUp(t, did) = EndResult(t, did)
BY Zenon DEF BottomUp, Visited, EndResult, EndReached, Failed

(* A call that goes down the tree comes to some nodes and stops at the     *)
(* first that fails.                                                       *)
LEMMA TopDownIs ==
  ASSUME NEW t, NEW N \in Nat, DOMAIN t = 1..N, NEW did
  PROVE  \E R : Outcome(t, did, TopDown(t, did), R)
<1> DEFINE F == Failed(t, did)
           R == {p \in DOMAIN t : TopReached(t, did, p)}
           r == TopResult(t, did)
<1>1. F \subseteq DOMAIN t /\ R \subseteq DOMAIN t
  BY DEF Failed
<1>2. r.tree = [p \in DOMAIN t |-> IF p \in R THEN did[p].node ELSE t[p]]
  BY DEF TopResult
<1>3. r.wild = (\E p \in DOMAIN t : TopReached(t, did, p) /\ did[p].wild)
  BY DEF TopResult
<1>4. r.err = IF F = {} THEN "OK" ELSE did[CHOOSE p \in F : TopReached(t, did, p)].err
  BY DEF TopResult
<1>5. (\A p \in R : did[p].wild = FALSE) => r.wild = FALSE
  <2> HIDE DEF r
  <2> SUFFICES ASSUME \A p \in R : did[p].wild = FALSE PROVE r.wild = FALSE
    OBVIOUS
  <2>1. ~ \E p \in DOMAIN t : TopReached(t, did, p) /\ did[p].wild
    OBVIOUS
  <2> QED
    BY <1>3, <2>1
<1>6. F = {} => R = DOMAIN t /\ r.err = "OK"
  BY <1>4 DEF TopReached
<1>7. ASSUME F # {} PROVE r.err # "OK" /\ \E p \in R : did[p].err = r.err
  <2>1. F \subseteq Nat
    BY <1>1
  <2>2. PICK m \in F : \A n \in F : m <= n
    <3> HIDE DEF F
    <3> QED
      BY <1>7, <2>1, Least
  <2>3. TopReached(t, did, m)
    <3>1. \A n \in F : ~(n < m)
      BY <2>1, <2>2
    <3> QED
      BY <3>1 DEF TopReached
  <2> DEFINE c == CHOOSE p \in F : TopReached(t, did, p)
  <2>4. c \in F /\ TopReached(t, did, c)
    BY <2>2, <2>3, Zenon
  <2>5. r.err = did[c].err
    BY <1>4, <1>7
  <2> HIDE DEF c, r
  <2>6. c \in R /\ did[c].err # "OK"
    BY <2>4 DEF Failed
  <2> QED
    BY <2>5, <2>6
<1>8. ASSUME NEW p \in R, NEW q \in R, p \in F, q \in F PROVE p = q
  <2>1. ~(q < p) /\ ~(p < q) /\ p \in 1..N /\ q \in 1..N
    BY <1>8 DEF TopReached
  <2> QED
    BY <2>1
<1>9. Outcome(t, did, r, R)
  <2> HIDE DEF r, R
  <2> QED
    BY <1>1, <1>2, <1>5, <1>6, <1>7, <1>8 DEF Outcome
<1> HIDE DEF r, R
<1> QED
  BY <1>9, TopDownResult DEF r

(* A call that comes up the tree does too, and has done all that lies      *)
(* before a node it comes to.                                              *)
LEMMA BottomUpIs ==
  ASSUME NEW t, NEW N \in Nat, DOMAIN t = 1..N, \A p \in DOMAIN t : t[p].last \in Nat, NEW did
  PROVE  \E R : /\ Outcome(t, did, BottomUp(t, did), R)
                /\ \A p \in R, q \in DOMAIN t : DoneBefore(t, q, p) => q \in R /\ did[q].err = "OK"
<1> DEFINE F == Failed(t, did)
           R == {p \in DOMAIN t : EndReached(t, did, p)}
           r == EndResult(t, did)
<1>1. F \subseteq DOMAIN t /\ R \subseteq DOMAIN t
  BY DEF Failed
<1>2. r.tree = [p \in DOMAIN t |-> IF p \in R THEN did[p].node ELSE t[p]]
  BY DEF EndResult
<1>3. r.wild = (\E p \in DOMAIN t : EndReached(t, did, p) /\ did[p].wild)
  BY DEF EndResult
<1>4. r.err = IF F = {} THEN "OK" ELSE did[CHOOSE p \in F : EndReached(t, did, p)].err
  BY DEF EndResult
<1>5. (\A p \in R : did[p].wild = FALSE) => r.wild = FALSE
  <2> HIDE DEF r
  <2> SUFFICES ASSUME \A p \in R : did[p].wild = FALSE PROVE r.wild = FALSE
    OBVIOUS
  <2>1. ~ \E p \in DOMAIN t : EndReached(t, did, p) /\ did[p].wild
    OBVIOUS
  <2> QED
    BY <1>3, <2>1
<1>6. F = {} => R = DOMAIN t /\ r.err = "OK"
  BY <1>4 DEF EndReached
<1>7. ASSUME F # {} PROVE r.err # "OK" /\ \E p \in R : did[p].err = r.err
  <2> DEFINE L == {t[p].last : p \in F}
  <2>1. L \subseteq Nat /\ L # {}
    BY <1>1, <1>7
  <2>2. PICK l \in L : \A m \in L : l <= m
    <3> HIDE DEF L
    <3> QED
      BY <2>1, Least
  <2> DEFINE G == {p \in F : t[p].last = l}
             K == {N - p : p \in G}
  <2>3. K \subseteq Nat /\ K # {}
    BY <1>1, <2>2
  <2>4. PICK k \in K : \A m \in K : k <= m
    <3> HIDE DEF K
    <3> QED
      BY <2>3, Least
  <2>5. PICK p \in G : k = N - p
    BY <2>4
  <2>6. EndReached(t, did, p)
    <3>1. ASSUME NEW q \in F PROVE ~DoneBefore(t, q, p)
      <4>1. t[q].last \in Nat /\ t[p].last = l /\ l <= t[q].last /\ p \in 1..N /\ q \in 1..N /\ l \in Nat
        BY <1>1, <2>1, <2>2, <2>5
      <4>2. CASE t[q].last = l
        <5>1. N - q \in K
          BY <4>2
        <5>2. N - p <= N - q
          BY <2>4, <2>5, <5>1
        <5>3. ~(q > p) /\ ~(t[q].last < t[p].last)
          BY <4>1, <4>2, <5>2
        <5> QED
          BY <5>3 DEF DoneBefore
      <4>3. CASE t[q].last # l
        <5>1. ~(t[q].last < t[p].last) /\ t[q].last # t[p].last
          BY <4>1, <4>3
        <5> QED
          BY <5>1 DEF DoneBefore
      <4> QED
        BY <4>2, <4>3
    <3> QED
      BY <3>1 DEF EndReached
  <2> DEFINE c == CHOOSE x \in F : EndReached(t, did, x)
  <2>7. c \in F /\ EndReached(t, did, c)
    <3>1. p \in F
      BY <2>5
    <3> HIDE DEF F
    <3> QED
      BY <2>6, <3>1, Zenon
  <2>8. r.err = did[c].err
    BY <1>4, <1>7
  <2> HIDE DEF c, r
  <2>9. c \in R /\ did[c].err # "OK"
    BY <2>7 DEF Failed
  <2> QED
    BY <2>8, <2>9
<1>8. ASSUME NEW p \in R, NEW q \in R, p \in F, q \in F PROVE p = q
  <2>1. ~DoneBefore(t, q, p) /\ ~DoneBefore(t, p, q) /\ p \in 1..N /\ q \in 1..N
    BY <1>8 DEF EndReached
  <2>2. t[p].last \in Nat /\ t[q].last \in Nat
    BY <2>1
  <2> QED
    BY <2>1, <2>2 DEF DoneBefore
<1>9. Outcome(t, did, r, R)
  <2> HIDE DEF r, R
  <2> QED
    BY <1>1, <1>2, <1>5, <1>6, <1>7, <1>8 DEF Outcome
<1>10. ASSUME NEW p \in R, NEW q \in DOMAIN t, DoneBefore(t, q, p) PROVE q \in R /\ did[q].err = "OK"
  <2>1. EndReached(t, did, p) /\ p \in DOMAIN t
    BY <1>10
  <2>2. q \notin F
    BY <1>10, <2>1 DEF EndReached
  <2>3. ASSUME NEW x \in F PROVE ~DoneBefore(t, x, q)
    <3>1. ~DoneBefore(t, x, p)
      BY <2>1, <2>3 DEF EndReached
    <3>2. x \in 1..N /\ q \in 1..N /\ p \in 1..N /\ t[x].last \in Nat /\ t[q].last \in Nat /\ t[p].last \in Nat
      BY <1>1, <2>1, <2>3
    <3> QED
      BY <1>10, <3>1, <3>2 DEF DoneBefore
  <2>4. EndReached(t, did, q)
    BY <2>3 DEF EndReached
  <2> QED
    BY <2>2, <2>4 DEF Failed
<1> HIDE DEF r, R
<1>11. Outcome(t, did, BottomUp(t, did), R)
  BY <1>9, BottomUpResult DEF r
<1> QED
  BY <1>10, <1>11

(* A call on one node. *)
OnlyAt(t, p, c) == [q \in DOMAIN t |-> IF q = p THEN c ELSE Begin(t[q], 0)]
(* A call of one node only is an outcome in which all others are           *)
(* untouched.                                                              *)
LEMMA OnNodeIs ==
  ASSUME NEW t, NEW S, t \in Seq(S), NEW p \in DOMAIN t, NEW c, c.wild \in BOOLEAN
  PROVE  Outcome(t, OnlyAt(t, p, c), OnNode(t, p, c), DOMAIN t)
<1> DEFINE did == OnlyAt(t, p, c)
           r == OnNode(t, p, c)
<1>1. /\ did[p] = c
      /\ \A q \in DOMAIN t : q # p => did[q].node = t[q] /\ did[q].err = "OK"
  BY DEF OnlyAt, Begin
<1>2. r.tree = [t EXCEPT ![p] = c.node] /\ r.err = c.err /\ r.wild = c.wild
  BY DEF OnNode
<1> HIDE DEF did, r
<1>3. r.tree = [q \in DOMAIN t |-> did[q].node]
  BY <1>1, <1>2
<1>4. Failed(t, did) = IF c.err = "OK" THEN {} ELSE {p}
  BY <1>1 DEF Failed
<1>5. (\A q \in DOMAIN t : did[q].wild = FALSE) => r.wild = FALSE
  BY <1>1, <1>2
<1> QED
  BY <1>1, <1>2, <1>3, <1>4, <1>5 DEF Outcome, did, r

(* The trees that are built, and what the calls leave of them.             *)
KidsBelow(t, p) ==
  /\ t[p].kids \in Seq(1..Len(t)) /\ Len(t[p].kids) \in Nat /\ DOMAIN t[p].kids = 1..Len(t[p].kids)
  /\ \A k \in 1..Len(t[p].kids) :
       LET q == t[p].kids[k] IN q \in 1..Len(t) /\ t[q].up = p /\ q > p /\ t[q].last <= t[p].last
(* A tree of nodes in the order they are met in: each below its parent,    *)
(* within its parent's part of the tree.                                   *)
Arranged(t) ==
  /\ t = [p \in 1..Len(t) |-> t[p]] /\ DOMAIN t = 1..Len(t) /\ Len(t) \in Nat \ {0} /\ t[1].last = Len(t)
  /\ \A p \in 1..Len(t) :
       /\ KidsBelow(t, p) /\ t[p].last \in p..Len(t) /\ t[p].dict = <<>>
       /\ t[p].type \in {"list", "fixed_size_list"} => Len(t[p].kids) = 1
       /\ IsUnion(t[p]) => Len(t[p].kids) # 0
       /\ p > 1 => t[p].up \in 1..(p - 1) /\ p \in ToSet(t[t[p].up].kids)
(* Trees of one shape. *)
Alikes(t, u) ==
  u = [p \in 1..Len(t) |-> u[p]] /\ DOMAIN u = 1..Len(t) /\ \A p \in 1..Len(t) : Same(t[p], u[p])

(* A sequence with nothing after it. *)
LEMMA NoDict ==
  ASSUME NEW S, NEW s \in Seq(S)
  PROVE  s \o <<>> = s
OBVIOUS

(* A sequence of members of a set. *)
LEMMA SeqIn ==
  ASSUME NEW S, NEW s \in Seq(S), NEW T, \A k \in 1..Len(s) : s[k] \in T
  PROVE  s \in Seq(T)
OBVIOUS

(* The schemas that are built are such trees. *)
LEMMA SchemaArranged ==
  ASSUME NEW t, IsSchema(t)
  PROVE  Arranged(t)
<1>1. /\ t \in Seq({t[p] : p \in DOMAIN t}) /\ t # <<>> /\ t[1].last = Len(t)
      /\ \A p \in DOMAIN t :
           LET below == Below(t[p]) IN
             /\ t[p].kids \in Seq(Nat) /\ t[p].dict \in Seq(Nat) /\ Len(t[p].dict) <= 1
             /\ \A k \in DOMAIN below :
                  /\ below[k] \in DOMAIN t /\ t[below[k]].up = p
                  /\ below[k] = 1 + IF k = 1 THEN p ELSE t[below[k - 1]].last
             /\ t[p].last \in p..Len(t)
             /\ t[p].last = IF below = <<>> THEN p ELSE t[below[Len(below)]].last
             /\ p > 1 => t[p].up \in 1..(p - 1) /\ p \in ToSet(Below(t[t[p].up]))
  BY DEF IsSchema, IsTree
<1>2. \A p \in DOMAIN t :
        /\ t[p].dict = <<>>
        /\ t[p].type \in {"list", "fixed_size_list"} => Len(t[p].kids) = 1
        /\ IsUnion(t[p]) => t[p].kids # <<>>
  BY DEF IsSchema
<1>3. DOMAIN t = 1..Len(t) /\ Len(t) \in Nat /\ t = [p \in 1..Len(t) |-> t[p]]
  BY <1>1
<1>4. Len(t) # 0
  BY <1>1, <1>3
<1> DEFINE N == Len(t)
<1>5. \A p \in 1..N : t[p].kids \in Seq(Nat) /\ Below(t[p]) = t[p].kids
  <2> SUFFICES ASSUME NEW p \in 1..N PROVE t[p].kids \in Seq(Nat) /\ Below(t[p]) = t[p].kids
    OBVIOUS
  <2>1. t[p].kids \in Seq(Nat) /\ t[p].dict = <<>>
    BY <1>1, <1>2, <1>3
  <2> DEFINE s == t[p].kids
  <2>2. Below(t[p]) = s \o <<>>
    BY <2>1 DEF Below
  <2> HIDE DEF s
  <2>3. s \o <<>> = s
    BY <2>1, NoDict DEF s
  <2> QED
    BY <2>1, <2>2, <2>3 DEF s
<1>6. \A p \in 1..N :
        /\ t[p].last \in p..N
        /\ t[p].last = IF t[p].kids = <<>> THEN p ELSE t[t[p].kids[Len(t[p].kids)]].last
        /\ \A k \in DOMAIN t[p].kids :
             /\ t[p].kids[k] \in 1..N /\ t[t[p].kids[k]].up = p
             /\ t[p].kids[k] = 1 + IF k = 1 THEN p ELSE t[t[p].kids[k - 1]].last
        /\ p > 1 => t[p].up \in 1..(p - 1)
  <2> SUFFICES ASSUME NEW p \in 1..N
               PROVE  /\ t[p].last \in p..N
                      /\ t[p].last = IF t[p].kids = <<>> THEN p ELSE t[t[p].kids[Len(t[p].kids)]].last
                      /\ \A k \in DOMAIN t[p].kids :
                           /\ t[p].kids[k] \in 1..N /\ t[t[p].kids[k]].up = p
                           /\ t[p].kids[k] = 1 + IF k = 1 THEN p ELSE t[t[p].kids[k - 1]].last
                      /\ p > 1 => t[p].up \in 1..(p - 1)
    OBVIOUS
  <2> DEFINE b == Below(t[p])
  <2>1. p \in DOMAIN t
    BY <1>3
  <2>2. /\ \A k \in DOMAIN b :
              b[k] \in DOMAIN t /\ t[b[k]].up = p /\ b[k] = 1 + IF k = 1 THEN p ELSE t[b[k - 1]].last
        /\ t[p].last \in p..Len(t)
        /\ t[p].last = IF b = <<>> THEN p ELSE t[b[Len(b)]].last
        /\ p > 1 => t[p].up \in 1..(p - 1)
    BY <1>1, <2>1
  <2>3. b = t[p].kids
    BY <1>5
  <2> HIDE DEF b
  <2> QED
    BY <1>3, <2>2, <2>3
<1>7. ASSUME NEW p \in 1..N, p > 1 PROVE p \in ToSet(t[t[p].up].kids)
  <2>1. t[p].up \in 1..(p - 1) /\ p \in ToSet(Below(t[t[p].up]))
    BY <1>1, <1>3, <1>7
  <2>2. t[p].up \in 1..N
    BY <1>3, <2>1
  <2> QED
    BY <1>5, <2>1, <2>2
<1>8. ASSUME NEW p \in 1..N PROVE KidsBelow(t, p)
  <2> DEFINE kids == t[p].kids
             m == Len(kids)
  <2>1. kids \in Seq(Nat)
    BY <1>5
  <2>2. /\ t[p].last \in p..N
        /\ t[p].last = IF kids = <<>> THEN p ELSE t[kids[m]].last
        /\ \A k \in DOMAIN kids :
             /\ kids[k] \in 1..N /\ t[kids[k]].up = p
             /\ kids[k] = 1 + IF k = 1 THEN p ELSE t[kids[k - 1]].last
    BY <1>6
  <2>3. m \in Nat /\ DOMAIN kids = 1..m
    BY <2>1
  <2> HIDE DEF m, kids
  <2>4. kids \in Seq(1..N)
    <3>1. \A k \in 1..m : kids[k] \in 1..N
      BY <2>2, <2>3
    <3>2. \A k \in 1..Len(kids) : kids[k] \in 1..N
      BY <3>1 DEF m
    <3> HIDE DEF N
    <3> QED
      BY <2>1, <3>2, SeqIn
  <2> DEFINE T == {j \in Nat : j < m => t[kids[m - j]].last <= t[p].last}
  <2>5. \A k \in 1..m : kids[k] \in 1..N /\ t[kids[k]].last \in kids[k]..N
    BY <1>6, <2>2, <2>3
  <2>6. 0 \in T
    <3>1. CASE m = 0
      BY <3>1
    <3>2. CASE m # 0
      <4>1. kids # <<>> /\ m - 0 = m /\ m \in 1..m
        BY <2>1, <2>3, <3>2 DEF m
      <4>2. t[kids[m]].last = t[p].last /\ t[p].last \in Nat
        BY <2>2, <4>1
      <4> QED
        BY <4>1, <4>2
    <3> QED
      BY <3>1, <3>2
  <2>7. ASSUME NEW j \in T PROVE j + 1 \in T
    <3>1. j \in Nat /\ j + 1 \in Nat
      OBVIOUS
    <3>2. ASSUME j + 1 < m PROVE t[kids[m - (j + 1)]].last <= t[p].last
      <4> DEFINE a == m - (j + 1)
                 b == m - j
      <4>1. a \in 1..m /\ b \in 1..m /\ b # 1 /\ b - 1 = a /\ j < m
        BY <2>3, <3>1, <3>2
      <4>2. t[kids[b]].last <= t[p].last
        BY <4>1
      <4> HIDE DEF a, b
      <4>3. kids[b] = 1 + t[kids[a]].last
        BY <2>2, <2>3, <4>1
      <4>4. t[kids[b]].last \in kids[b]..N /\ t[kids[a]].last \in kids[a]..N /\ kids[b] \in 1..N /\ kids[a] \in 1..N
        BY <2>5, <4>1
      <4>5. t[p].last \in p..N
        BY <2>2
      <4>6. t[kids[a]].last <= t[p].last
        BY <1>3, <4>2, <4>3, <4>4, <4>5
      <4> QED
        BY <4>6 DEF a
    <3> QED
      BY <3>1, <3>2
  <2>8. Nat \subseteq T
    <3>1. T \subseteq Nat
      OBVIOUS
    <3> HIDE DEF T
    <3> QED
      BY <2>6, <2>7, <3>1, NatInduct
  <2>9. ASSUME NEW k \in 1..m
        PROVE  kids[k] \in 1..N /\ t[kids[k]].up = p /\ kids[k] > p /\ t[kids[k]].last <= t[p].last
    <3>1. kids[k] \in 1..N /\ t[kids[k]].up = p /\ kids[k] = 1 + IF k = 1 THEN p ELSE t[kids[k - 1]].last
      BY <2>2, <2>3
    <3>2. kids[k] > 1
      <4>1. CASE k = 1
        BY <3>1, <4>1
      <4>2. CASE k # 1
        <5>1. k - 1 \in 1..m
          BY <2>3, <4>2
        <5>2. t[kids[k - 1]].last \in kids[k - 1]..N /\ kids[k - 1] \in 1..N
          BY <2>5, <5>1
        <5> QED
          BY <3>1, <4>2, <5>2
      <4> QED
        BY <4>1, <4>2
    <3>3. kids[k] > p
      <4>1. p \in 1..(kids[k] - 1)
        BY <1>6, <3>1, <3>2
      <4> QED
        BY <3>1, <4>1
    <3>4. t[kids[k]].last <= t[p].last
      <4>1. m - k \in Nat /\ m - k < m /\ m - (m - k) = k
        BY <2>3
      <4>2. m - k \in T
        BY <2>8, <4>1
      <4>3. t[kids[m - (m - k)]].last <= t[p].last
        BY <4>1, <4>2
      <4> QED
        BY <4>1, <4>3
    <3> QED
      BY <3>1, <3>3, <3>4
  <2> QED
    BY <2>3, <2>4, <2>9 DEF KidsBelow, kids, m
<1>9. \A p \in 1..N : IsUnion(t[p]) => Len(t[p].kids) # 0
  BY <1>2, <1>3, <1>5
<1> QED
  BY <1>1, <1>2, <1>3, <1>4, <1>6, <1>7, <1>8, <1>9 DEF Arranged

(* A tree of the same shape is arranged as well. *)
LEMMA AlikesArranged ==
  ASSUME NEW t, NEW u, Arranged(t), Alikes(t, u)
  PROVE  Arranged(u) /\ Len(u) = Len(t)
<1> DEFINE N == Len(t)
<1>1. N \in Nat \ {0} /\ DOMAIN t = 1..N
  BY DEF Arranged
<1>2. u = [p \in 1..N |-> u[p]] /\ DOMAIN u = 1..N
  BY DEF Alikes
<1>3. Len(u) = N
  <2> DEFINE S == {u[p] : p \in 1..N}
  <2>1. u \in Seq(S)
    <3> HIDE DEF N
    <3>1. \A p \in 1..N : u[p] \in S
      OBVIOUS
    <3> QED
      BY <1>1, <1>2, <3>1
  <2> QED
    BY <1>1, <1>2, <2>1
<1>4. \A p \in 1..N : /\ u[p].type = t[p].type /\ u[p].kids = t[p].kids /\ u[p].dict = t[p].dict
                      /\ u[p].up = t[p].up /\ u[p].last = t[p].last /\ IsUnion(u[p]) = IsUnion(t[p])
  BY SameKinds DEF Alikes, Same
<1>5. ASSUME NEW p \in 1..N PROVE KidsBelow(u, p)
  <2>1. KidsBelow(t, p)
    BY DEF Arranged
  <2>2. \A k \in 1..Len(t[p].kids) :
          t[p].kids[k] \in 1..N /\ t[t[p].kids[k]].up = p /\ t[p].kids[k] > p /\ t[t[p].kids[k]].last <= t[p].last
    BY <2>1 DEF KidsBelow
  <2>3. \A k \in 1..Len(t[p].kids) :
          t[p].kids[k] \in 1..N /\ u[t[p].kids[k]].up = p /\ t[p].kids[k] > p /\ u[t[p].kids[k]].last <= u[p].last
    BY <1>4, <2>2
  <2>4. u[p].kids = t[p].kids
    BY <1>4
  <2>5. t[p].kids \in Seq(1..N) /\ Len(t[p].kids) \in Nat /\ DOMAIN t[p].kids = 1..Len(t[p].kids)
    BY <2>1 DEF KidsBelow
  <2> HIDE DEF N
  <2> QED
    BY <1>3, <2>3, <2>4, <2>5 DEF KidsBelow
<1>6. \A p \in 1..N :
        /\ t[p].last \in p..N /\ t[p].dict = <<>>
        /\ t[p].type \in {"list", "fixed_size_list"} => Len(t[p].kids) = 1
        /\ IsUnion(t[p]) => Len(t[p].kids) # 0
        /\ p > 1 => t[p].up \in 1..(p - 1) /\ p \in ToSet(t[t[p].up].kids)
  BY DEF Arranged
<1>7. \A p \in 1..N :
        /\ u[p].last \in p..N /\ u[p].dict = <<>>
        /\ u[p].type \in {"list", "fixed_size_list"} => Len(u[p].kids) = 1
        /\ IsUnion(u[p]) => Len(u[p].kids) # 0
        /\ p > 1 => u[p].up \in 1..(p - 1)
  BY <1>4, <1>6
<1>8. ASSUME NEW p \in 1..N, p > 1 PROVE p \in ToSet(u[u[p].up].kids)
  <2>1. t[p].up \in 1..(p - 1) /\ p \in ToSet(t[t[p].up].kids) /\ u[p].up = t[p].up
    BY <1>4, <1>6, <1>8
  <2>2. t[p].up \in 1..N
    BY <1>1, <2>1
  <2> QED
    BY <1>4, <2>1, <2>2
<1>9. u[1].last = N
  <2>1. t[1].last = N /\ 1 \in 1..N
    BY <1>1 DEF Arranged
  <2> QED
    BY <1>4, <2>1
<1> HIDE DEF N
<1> QED
  BY <1>1, <1>2, <1>3, <1>5, <1>7, <1>8, <1>9 DEF Arranged

(* A child is done before its parent. *)
LEMMA KidsFirst ==
  ASSUME NEW t, Arranged(t), NEW p \in 1..Len(t), NEW k \in 1..Len(t[p].kids)
  PROVE  t[p].kids[k] \in 1..Len(t) /\ DoneBefore(t, t[p].kids[k], p)
<1> DEFINE q == t[p].kids[k]
<1>1. q \in 1..Len(t) /\ q > p /\ t[q].last <= t[p].last
  BY DEF Arranged, KidsBelow
<1>2. t[p].last \in Nat /\ t[q].last \in Nat
  <2>1. t[p].last \in p..Len(t) /\ t[q].last \in q..Len(t) /\ Len(t) \in Nat
    BY <1>1 DEF Arranged
  <2> QED
    BY <1>1, <2>1
<1> HIDE DEF q
<1>3. DoneBefore(t, q, p)
  BY <1>1, <1>2 DEF DoneBefore
<1> QED
  BY <1>1, <1>3 DEF q

(* What a call does to a node that is in order: n elements more, or none   *)
(* at all.                                                                 *)
Moves(x, n, d) ==
  /\ d.err = "OK" /\ Same(x, d.node) /\ IsNode(d.node) /\ Filled(d.node)
  /\ d.node.length = x.length + n
  /\ n = 0 => d.wild = FALSE /\ d.node.sizes[2] = x.sizes[2]
  /\ n # 0 => BitsFit(x, x.length + n, d)
(* A call's effect on one node: it is refused, or the node has n elements  *)
(* more.                                                                   *)
Step(x, n, d) == Refused(x, d) \/ Moves(x, n, d)
(* The node is the same one still. *)
Sound(x, d) == Same(x, d.node) /\ IsNode(d.node)
(* The node is as it was, or got its n elements. *)
Settled(t, did, u, R, ns, p) ==
  \/ u[p] = t[p]
  \/ p \in R /\ u[p] = did[p].node /\ Moves(t[p], ns[p], did[p])

(* A step leaves the same node. *)
LEMMA StepSound ==
  ASSUME NEW x, IsNode(x), NEW n, NEW d, Step(x, n, d)
  PROVE  Sound(x, d)
BY DEF Step, Refused, Moves, Spoilt, Stays, Sound, Same

(* Steps at all nodes leave a tree of the same shape. *)
LEMMA SoundTree ==
  ASSUME NEW t, Arranged(t), \A p \in 1..Len(t) : IsNode(t[p]),
         NEW did, NEW r, NEW R, Outcome(t, did, r, R), \A p \in 1..Len(t) : Sound(t[p], did[p])
  PROVE  Alikes(t, r.tree) /\ \A p \in 1..Len(t) : IsNode(r.tree[p])
<1> DEFINE u == r.tree
<1>1. DOMAIN t = 1..Len(t)
  BY DEF Arranged
<1>2. u = [p \in 1..Len(t) |-> IF p \in R THEN did[p].node ELSE t[p]]
  BY <1>1 DEF Outcome
<1>3. \A p \in 1..Len(t) : Same(t[p], t[p])
  BY DEF Same
<1> HIDE DEF u
<1>4. \A p \in 1..Len(t) : Same(t[p], u[p]) /\ IsNode(u[p])
  BY <1>2, <1>3 DEF Sound
<1>5. u = [p \in 1..Len(t) |-> u[p]] /\ DOMAIN u = 1..Len(t)
  BY <1>2
<1> QED
  BY <1>4, <1>5 DEF Alikes, u

(* Unless memory ran out, each node is as it was or got its elements. *)
LEMMA SettledTree ==
  ASSUME NEW t, Arranged(t), NEW did, NEW r, NEW R, Outcome(t, did, r, R), NEW ns,
         \A p \in 1..Len(t) : Step(t[p], ns[p], did[p]), r.err # "ENOMEM"
  PROVE  /\ \A p \in 1..Len(t) : Settled(t, did, r.tree, R, ns, p)
         /\ \A p \in R : did[p].err = "OK" => r.tree[p] = did[p].node /\ Moves(t[p], ns[p], did[p])
<1> DEFINE u == r.tree
<1>1. DOMAIN t = 1..Len(t) /\ R \subseteq 1..Len(t)
  BY DEF Arranged, Outcome
<1>2. u = [p \in 1..Len(t) |-> IF p \in R THEN did[p].node ELSE t[p]]
  BY <1>1 DEF Outcome
<1>3. ASSUME NEW p \in R, did[p].err = "ENOMEM" PROVE FALSE
  <2>1. p \in Failed(t, did)
    BY <1>1, <1>3 DEF Failed
  <2>2. r.err # "OK"
    BY <2>1 DEF Outcome
  <2>3. PICK q \in R : did[q].err = r.err
    BY <2>2 DEF Outcome
  <2>4. q \in Failed(t, did)
    BY <1>1, <2>2, <2>3 DEF Failed
  <2>5. p = q
    BY <2>1, <2>3, <2>4 DEF Outcome
  <2> QED
    BY <1>3, <2>3, <2>5
<1> HIDE DEF u
<1>4. ASSUME NEW p \in 1..Len(t) PROVE Settled(t, did, u, R, ns, p)
  <2>1. CASE p \notin R
    BY <1>2, <2>1 DEF Settled
  <2>2. CASE p \in R
    <3>1. u[p] = did[p].node
      BY <1>2, <2>2
    <3>2. ~Spoilt(t[p], did[p])
      BY <1>3, <2>2 DEF Spoilt
    <3>3. Stays(t[p], did[p]) \/ Moves(t[p], ns[p], did[p])
      BY <3>2 DEF Step, Refused
    <3> QED
      BY <2>2, <3>1, <3>3 DEF Settled, Stays
  <2> QED
    BY <2>1, <2>2
<1>5. ASSUME NEW p \in R, did[p].err = "OK" PROVE u[p] = did[p].node /\ Moves(t[p], ns[p], did[p])
  <2>1. p \in 1..Len(t) /\ u[p] = did[p].node
    BY <1>1, <1>2
  <2>2. ~Refused(t[p], did[p])
    BY <1>5 DEF Refused, Spoilt, Stays
  <2> QED
    BY <2>1, <2>2 DEF Step
<1> QED
  BY <1>4, <1>5 DEF u

(* An element more never takes more than the byte that was made room for.  *)
OneByte(x, y) ==
  x.type = "bool" /\ y.length > x.length => BytesForBits(y.length) = BytesForBits(x.length + 1)
(* The data bits of a bool take just the bytes of its length. *)
BoolSized(x) == x.type = "bool" => x.sizes[2] = BytesForBits(x.length)

(* A call under which no bool grows by more than one byte's worth writes   *)
(* nothing outside.                                                        *)
LEMMA TameTree ==
  ASSUME NEW t, Arranged(t), \A p \in 1..Len(t) : IsNode(t[p]),
         NEW did, NEW r, NEW R, Outcome(t, did, r, R),
         NEW ns, \A p \in 1..Len(t) : ns[p] \in Nat /\ Step(t[p], ns[p], did[p]),
         \A p \in 1..Len(t) : OneByte(t[p], r.tree[p])
  PROVE  r.wild = FALSE
<1> DEFINE u == r.tree
<1>1. DOMAIN t = 1..Len(t) /\ R \subseteq 1..Len(t)
  BY DEF Arranged, Outcome
<1>2. u = [p \in 1..Len(t) |-> IF p \in R THEN did[p].node ELSE t[p]]
  BY <1>1 DEF Outcome
<1>3. \A p \in 1..Len(t) : OneByte(t[p], u[p])
  OBVIOUS
<1> HIDE DEF u
<1>4. ASSUME NEW p \in R PROVE did[p].wild = FALSE
  <2>1. p \in 1..Len(t) /\ Step(t[p], ns[p], did[p]) /\ ns[p] \in Nat /\ OneByte(t[p], u[p]) /\ IsNode(t[p])
    BY <1>1, <1>3
  <2>2. u[p] = did[p].node
    BY <1>1, <1>2
  <2>3. CASE Refused(t[p], did[p])
    BY <2>3 DEF Refused, Spoilt, Stays
  <2>4. CASE Moves(t[p], ns[p], did[p])
    <3> DEFINE x == t[p]
               d == did[p]
               n == ns[p]
    <3>1. d.node.length = x.length + n /\ (n = 0 => d.wild = FALSE) /\ (n # 0 => BitsFit(x, x.length + n, d))
      BY <2>4 DEF Moves
    <3>2. x.length \in Nat /\ n \in Nat /\ OneByte(x, d.node)
      BY <2>1, <2>2, NodeHas
    <3> HIDE DEF x, d, n
    <3>3. n # 0 => d.node.length > x.length
      BY <3>1, <3>2
    <3>4. d.wild = FALSE
      BY <3>1, <3>2, <3>3 DEF BitsFit, OneByte
    <3> QED
      BY <3>4 DEF d
  <2> QED
    BY <2>1, <2>3, <2>4 DEF Step
<1> QED
  BY <1>4 DEF Outcome

(* Such a call leaves the bools their size. *)
LEMMA BoolSizedMoves ==
  ASSUME NEW x, IsNode(x), BoolSized(x), NEW n \in Nat, NEW d, Moves(x, n, d), OneByte(x, d.node)
  PROVE  BoolSized(d.node)
<1>1. /\ d.node.length = x.length + n /\ Same(x, d.node)
      /\ (n = 0 => d.node.sizes[2] = x.sizes[2]) /\ (n # 0 => BitsFit(x, x.length + n, d))
  BY DEF Moves
<1>2. x.length \in Nat /\ d.node.type = x.type
  BY <1>1, NodeHas DEF Same
<1>3. CASE n = 0
  BY <1>1, <1>2, <1>3 DEF BoolSized
<1>4. CASE n # 0
  <2>1. d.node.length > x.length
    BY <1>1, <1>2, <1>4
  <2> QED
    BY <1>1, <1>2, <1>4, <2>1 DEF BoolSized, OneByte, BitsFit
<1> QED
  BY <1>3, <1>4

(* The children have what their parent refers to.                          *)
FitsAt(t, p) ==
  /\ t[p].type = "list" => t[p].at[2][t[p].length + 1] <= Kid(t, p, 1).length
  /\ t[p].type = "fixed_size_list" => t[p].length * ListSize <= Kid(t, p, 1).length
  /\ t[p].type \in {"struct", "sparse_union"} =>
       \A k \in 1..Len(t[p].kids) : t[p].length <= Kid(t, p, k).length
(* A tree in order: arranged, each node filled, and its children long      *)
(* enough.                                                                 *)
InOrder(t) ==
  /\ Arranged(t) /\ \A p \in 1..Len(t) : IsNode(t[p]) /\ Filled(t[p]) /\ FitsAt(t, p)

(* The last of rising offsets is a natural number. *)
LEMMA RisingLast ==
  ASSUME NEW s, NEW n \in Nat, Rising(s, n)
  PROVE  s[n + 1] \in Nat
<1>1. s \in Seq(Nat) /\ Len(s) = n + 1
  BY DEF Rising
<1>2. n + 1 \in 1..Len(s)
  BY <1>1
<1> QED
  BY <1>1, <1>2

(* Products of natural numbers are natural numbers. *)
LEMMA Products ==
  ASSUME NEW a \in Nat, NEW b \in Nat
  PROVE  a * b \in Nat
OBVIOUS

(* A node that did not grow stays covered by children that did not shrink. *)
LEMMA FitsStay ==
  ASSUME NEW t, NEW u, Arranged(t), Alikes(t, u), NEW p \in 1..Len(t), FitsAt(t, p),
         IsNode(t[p]), Filled(t[p]), u[p].length = t[p].length,
         t[p].type = "list" => u[p].at[2][u[p].length + 1] = t[p].at[2][t[p].length + 1],
         \A q \in 1..Len(t) : t[q].length \in Nat /\ u[q].length \in Nat /\ t[q].length <= u[q].length
  PROVE  FitsAt(u, p)
<1>1. KidsBelow(t, p) /\ (t[p].type \in {"list", "fixed_size_list"} => Len(t[p].kids) = 1)
  BY DEF Arranged
<1>2. u[p].type = t[p].type /\ u[p].kids = t[p].kids
  BY DEF Alikes, Same
<1>3. \A k \in 1..Len(t[p].kids) :
        /\ Kid(t, p, k).length \in Nat /\ Kid(u, p, k).length \in Nat
        /\ Kid(t, p, k).length <= Kid(u, p, k).length
  BY <1>1, <1>2 DEF KidsBelow, Kid
<1>4. t[p].length \in Nat
  OBVIOUS
<1>5. t[p].type = "list" => t[p].at[2][t[p].length + 1] \in Nat
  <2> SUFFICES ASSUME t[p].type = "list" PROVE t[p].at[2][t[p].length + 1] \in Nat
    OBVIOUS
  <2>1. t[p].type \in Types
    BY NodeHas
  <2>2. Kind(t[p], 2) = "data_offset"
    BY <2>1, Laid
  <2>3. Rising(t[p].at[2], t[p].length)
    BY <2>2 DEF Filled, Second
  <2> QED
    BY <1>4, <2>3, RisingLast
<1>6. t[p].length * ListSize \in Nat
  BY <1>4, ListSizeAssumption, Products
<1>7. t[p].type \in {"list", "fixed_size_list"} => 1 \in 1..Len(t[p].kids)
  <2> DEFINE m == Len(t[p].kids)
  <2>1. t[p].type \in {"list", "fixed_size_list"} => m = 1
    BY <1>1
  <2>2. m = 1 => 1 \in 1..m
    OBVIOUS
  <2> HIDE DEF m
  <2> QED
    BY <2>1, <2>2 DEF m
<1>8. t[p].type = "list" => u[p].at[2][u[p].length + 1] <= Kid(u, p, 1).length
  <2> SUFFICES ASSUME t[p].type = "list" PROVE u[p].at[2][u[p].length + 1] <= Kid(u, p, 1).length
    OBVIOUS
  <2> DEFINE a == t[p].at[2][t[p].length + 1]
             b == Kid(t, p, 1).length
             c == Kid(u, p, 1).length
  <2>1. a \in Nat /\ b \in Nat /\ c \in Nat /\ b <= c
    BY <1>3, <1>5, <1>7
  <2>2. a <= b
    BY DEF FitsAt
  <2> HIDE DEF a, b, c
  <2>3. a <= c
    BY <2>1, <2>2
  <2> QED
    BY <2>3 DEF a, c
<1>9. t[p].type = "fixed_size_list" => t[p].length * ListSize <= Kid(u, p, 1).length
  <2> SUFFICES ASSUME t[p].type = "fixed_size_list" PROVE t[p].length * ListSize <= Kid(u, p, 1).length
    OBVIOUS
  <2> DEFINE a == t[p].length * ListSize
             b == Kid(t, p, 1).length
             c == Kid(u, p, 1).length
  <2>1. a \in Nat /\ b \in Nat /\ c \in Nat /\ b <= c
    BY <1>3, <1>6, <1>7
  <2>2. a <= b
    BY DEF FitsAt
  <2> HIDE DEF a, b, c
  <2>3. a <= c
    BY <2>1, <2>2
  <2> QED
    BY <2>3 DEF a, c
<1>10. ASSUME t[p].type \in {"struct", "sparse_union"}, NEW k \in 1..Len(t[p].kids)
       PROVE  t[p].length <= Kid(u, p, k).length
  <2>1. t[p].length <= Kid(t, p, k).length
    BY <1>10 DEF FitsAt
  <2> QED
    BY <1>3, <1>4, <2>1
<1> QED
  BY <1>2, <1>8, <1>9, <1>10 DEF FitsAt

(* The counts that _ArrowArrayAppendEmptyInternal hands down.              *)
IsAsk(a) == a = [n |-> a.n, is_valid |-> a.is_valid] /\ a.n \in Nat /\ a.is_valid \in Flags
(* What _ArrowArrayAppendEmptyInternal hands down, as a rule from parent   *)
(* to child.                                                               *)
AskRule(t, first, f, p) ==
  f[p] = IF p \in DOMAIN first THEN first[p]
         ELSE IF p = 1 THEN NoElements ELSE HandedOn(t[t[p].up], p, f[t[p].up])

(* What a node hands on to its child. *)
LEMMA HandedIs ==
  ASSUME NEW a, IsAsk(a), NEW v, NEW q
  PROVE  LET h == HandedOn(v, q, a) IN
           /\ IsAsk(h) /\ (a.n = 0 => h = NoElements)
           /\ a.n # 0 /\ v.type \in {"struct", "sparse_union"} => h.n = a.n
           /\ a.n # 0 /\ v.type = "fixed_size_list" => h.n = a.n * ListSize
           /\ a.is_valid = 1 => h.is_valid = 1
<1> DEFINE n == a.n
           w == a.is_valid
           b == [n |-> n, is_valid |-> w]
           h == HandedOn(v, q, a)
           k == v.kids[1]
           many == n * ListSize
<1>1. a = b /\ n \in Nat /\ w \in Flags
  BY DEF IsAsk
<1>2. many \in Nat
  <2> HIDE DEF n
  <2> QED
    BY <1>1, ListSizeAssumption, Products
<1>3. IsAsk(NoElements) /\ NoElements.is_valid = 1
  BY DEF IsAsk, NoElements, Flags
<1>4. h = IF n = 0 THEN NoElements ELSE
            CASE v.type = "dense_union" /\ q = k -> [n |-> 1, is_valid |-> w]
              [] v.type = "sparse_union" -> IF q = k THEN a ELSE [n |-> n, is_valid |-> 1]
              [] v.type = "struct" -> [n |-> n, is_valid |-> 1]
              [] v.type = "fixed_size_list" -> [n |-> many, is_valid |-> 1]
              [] OTHER -> NoElements
  <2>1. [a EXCEPT !.n = 1] = [n |-> 1, is_valid |-> w] /\ [a EXCEPT !.is_valid = 1] = [n |-> n, is_valid |-> 1]
    <3> HIDE DEF n, w
    <3> QED
      BY <1>1
  <2>2. h = IF n = 0 THEN NoElements ELSE
            CASE v.type = "dense_union" /\ q = k -> [a EXCEPT !.n = 1]
              [] v.type = "sparse_union" -> IF q = k THEN a ELSE [a EXCEPT !.is_valid = 1]
              [] v.type = "struct" -> [a EXCEPT !.is_valid = 1]
              [] v.type = "fixed_size_list" -> [n |-> many, is_valid |-> 1]
              [] OTHER -> NoElements
    BY Zenon DEF HandedOn
  <2> HIDE DEF h, n, w, k, many
  <2> QED
    BY <2>1, <2>2
<1>5. /\ IsAsk([n |-> 1, is_valid |-> w]) /\ IsAsk([n |-> n, is_valid |-> 1])
      /\ IsAsk([n |-> many, is_valid |-> 1])
  <2> HIDE DEF n, w, many
  <2> QED
    BY <1>1, <1>2 DEF IsAsk, Flags
<1> DEFINE Done(x) == /\ IsAsk(x) /\ (n = 0 => x = NoElements)
                      /\ n # 0 /\ v.type \in {"struct", "sparse_union"} => x.n = n
                      /\ n # 0 /\ v.type = "fixed_size_list" => x.n = many
                      /\ w = 1 => x.is_valid = 1
<1> HIDE DEF h, n, w, k, many
<1>6. IsAsk(a) /\ a.n = n /\ a.is_valid = w
  BY DEF n, w
<1> HIDE DEF b
<1>7. ASSUME n = 0 PROVE Done(h)
  <2>1. h = NoElements
    BY <1>4, <1>7
  <2> QED
    BY <1>3, <1>7, <2>1
<1>8. ASSUME n # 0, v.type = "dense_union" PROVE Done(h)
  <2>1. h = [n |-> 1, is_valid |-> w] \/ h = NoElements
    BY <1>4, <1>8
  <2>2. h.is_valid = w \/ h.is_valid = 1
    BY <1>3, <2>1
  <2>3. IsAsk(h)
    BY <1>3, <1>5, <2>1
  <2> QED
    BY <1>8, <2>2, <2>3
<1>9. ASSUME n # 0, v.type = "sparse_union" PROVE Done(h)
  <2>1. h = a \/ h = [n |-> n, is_valid |-> 1]
    BY <1>4, <1>9
  <2>2. h.n = n /\ (h.is_valid = w \/ h.is_valid = 1)
    BY <1>6, <2>1
  <2>3. IsAsk(h)
    BY <1>5, <1>6, <2>1
  <2> QED
    BY <1>9, <2>2, <2>3
<1>10. ASSUME n # 0, v.type = "struct" PROVE Done(h)
  <2>1. h = [n |-> n, is_valid |-> 1]
    BY <1>4, <1>10
  <2>2. h.n = n /\ h.is_valid = 1
    BY <2>1
  <2> QED
    BY <1>5, <1>10, <2>1, <2>2
<1>11. ASSUME n # 0, v.type = "fixed_size_list" PROVE Done(h)
  <2>1. h = [n |-> many, is_valid |-> 1]
    BY <1>4, <1>11
  <2>2. h.n = many /\ h.is_valid = 1
    BY <2>1
  <2> QED
    BY <1>5, <1>11, <2>1, <2>2
<1>12. ASSUME n # 0, v.type \notin {"dense_union", "sparse_union", "struct", "fixed_size_list"} PROVE Done(h)
  <2>1. h = NoElements
    BY <1>4, <1>12
  <2> QED
    BY <1>3, <1>12, <2>1
<1> HIDE DEF Done
<1>13. Done(h)
  BY <1>7, <1>8, <1>9, <1>10, <1>11, <1>12
<1> QED
  BY <1>13, Zenon DEF h, Done, n, w, many

(* The recursion over the tree is well founded: there is a function with   *)
(* that rule.                                                              *)
LEMMA AskExists ==
  ASSUME NEW t, NEW first, NEW N \in Nat, \A p \in 2..N : t[p].up \in 1..(p - 1)
  PROVE  \E f : /\ f = [p \in 1..N |-> f[p]]
                /\ \A p \in 1..N : AskRule(t, first, f, p)
<1> DEFINE Good(k) == k <= N => \E f : f = [p \in 1..k |-> f[p]] /\ \A p \in 1..k : AskRule(t, first, f, p)
           T == {k \in Nat : Good(k)}
<1>1. 0 \in T
  <2> DEFINE f == [p \in 1..0 |-> 0]
  <2>1. f = [p \in 1..0 |-> f[p]] /\ \A p \in 1..0 : AskRule(t, first, f, p)
    OBVIOUS
  <2> HIDE DEF f
  <2>2. Good(0)
    BY <2>1
  <2> QED
    BY <2>2
<1>2. ASSUME NEW k \in T PROVE k + 1 \in T
  <2> SUFFICES ASSUME k + 1 <= N
               PROVE  \E f : f = [p \in 1..(k + 1) |-> f[p]] /\ \A p \in 1..(k + 1) : AskRule(t, first, f, p)
    OBVIOUS
  <2>1. PICK g : g = [p \in 1..k |-> g[p]] /\ \A p \in 1..k : AskRule(t, first, g, p)
    OBVIOUS
  <2> DEFINE j == k + 1
             new == IF j \in DOMAIN first THEN first[j]
                    ELSE IF j = 1 THEN NoElements ELSE HandedOn(t[t[j].up], j, g[t[j].up])
             f == [p \in 1..j |-> IF p = j THEN new ELSE g[p]]
  <2>2. k \in Nat /\ j \in 1..j /\ j \in 1..N /\ \A p \in 1..k : p \in 1..j /\ p # j
    OBVIOUS
  <2>3. \A p \in 1..j : p # j => p \in 1..k
    OBVIOUS
  <2>4. \A p \in 1..j : p # 1 => t[p].up \in 1..k /\ t[p].up # p
    <3> SUFFICES ASSUME NEW p \in 1..j, p # 1 PROVE t[p].up \in 1..k /\ t[p].up # p
      OBVIOUS
    <3>1. p \in 2..N
      BY <2>2
    <3> QED
      BY <2>2, <3>1
  <2> HIDE DEF T, j, new
  <2>5. \A p \in 1..k : f[p] = g[p]
    BY <2>2
  <2>6. f[j] = new
    BY <2>2
  <2>7. f = [p \in 1..j |-> f[p]]
    OBVIOUS
  <2> HIDE DEF f
  <2>8. ASSUME NEW p \in 1..j PROVE AskRule(t, first, f, p)
    <3>1. p # 1 => f[t[p].up] = g[t[p].up]
      BY <2>4, <2>5
    <3>2. CASE p = j
      BY <2>6, <3>1, <3>2 DEF AskRule, new
    <3>3. CASE p # j
      <4>1. p \in 1..k /\ f[p] = g[p]
        BY <2>3, <2>5, <3>3
      <4>2. AskRule(t, first, g, p)
        BY <2>1, <4>1
      <4> QED
        BY <3>1, <4>1, <4>2 DEF AskRule
    <3> QED
      BY <3>2, <3>3
  <2> QED
    BY <2>7, <2>8 DEF j
<1>3. T \subseteq Nat
  OBVIOUS
<1>4. Nat \subseteq T
  <2> HIDE DEF T
  <2> QED
    BY <1>1, <1>2, <1>3, NatInduct
<1>5. Good(N)
  BY <1>4
<1> QED
  BY <1>5

(* Asked follows the rule. *)
LEMMA AsksIs ==
  ASSUME NEW t, Arranged(t), NEW first, \A q \in DOMAIN first : IsAsk(first[q])
  PROVE  LET f == Asked(t, first) IN \A p \in 1..Len(t) : AskRule(t, first, f, p) /\ IsAsk(f[p])
<1> DEFINE N == Len(t)
           Body(f) == [p \in DOMAIN t |-> IF p \in DOMAIN first THEN first[p]
                        ELSE IF p = 1 THEN NoElements ELSE HandedOn(t[t[p].up], p, f[t[p].up])]
           f == Asked(t, first)
<1>1. f = CHOOSE g : g = Body(g)
  BY DEF Asked
<1>2. DOMAIN t = 1..N /\ N \in Nat /\ \A p \in 2..N : t[p].up \in 1..(p - 1)
  <2>1. DOMAIN t = 1..N /\ N \in Nat
    BY DEF Arranged
  <2>2. \A p \in 1..N : p > 1 => t[p].up \in 1..(p - 1)
    BY DEF Arranged
  <2> HIDE DEF N
  <2> QED
    BY <2>1, <2>2
<1> HIDE DEF N
<1>3. PICK g : g = [p \in 1..N |-> g[p]] /\ \A p \in 1..N : AskRule(t, first, g, p)
  BY <1>2, AskExists
<1>4. g = Body(g)
  BY <1>2, <1>3 DEF AskRule
<1>5. f = Body(f)
  <2> HIDE DEF Body
  <2> QED
    BY <1>1, <1>4
<1> HIDE DEF f
<1>6. \A p \in 1..N : AskRule(t, first, f, p)
  <2> SUFFICES ASSUME NEW p \in 1..N PROVE AskRule(t, first, f, p)
    OBVIOUS
  <2> DEFINE h == Body(f)
  <2>1. h[p] = IF p \in DOMAIN first THEN first[p]
               ELSE IF p = 1 THEN NoElements ELSE HandedOn(t[t[p].up], p, f[t[p].up])
    BY <1>2
  <2> HIDE DEF h
  <2>2. f = h
    BY <1>5 DEF h
  <2> QED
    BY <2>1, <2>2 DEF AskRule
<1> DEFINE T == {k \in Nat : \A p \in 1..N : p <= k => IsAsk(f[p])}
<1>7. 0 \in T
  OBVIOUS
<1>8. ASSUME NEW k \in T PROVE k + 1 \in T
  <2> SUFFICES ASSUME NEW p \in 1..N, p <= k + 1 PROVE IsAsk(f[p])
    OBVIOUS
  <2>1. AskRule(t, first, f, p)
    BY <1>6
  <2>2. CASE p \in DOMAIN first
    BY <2>1, <2>2 DEF AskRule
  <2>3. CASE p \notin DOMAIN first /\ p = 1
    BY <2>1, <2>3 DEF AskRule, IsAsk, NoElements, Flags
  <2>4. CASE p \notin DOMAIN first /\ p # 1
    <3> DEFINE q == t[p].up
    <3>1. q \in 1..(p - 1)
      <4>1. p \in 2..N
        BY <2>4
      <4> QED
        BY <1>2, <4>1
    <3>2. f[p] = HandedOn(t[q], p, f[q])
      BY <2>1, <2>4 DEF AskRule
    <3> HIDE DEF q
    <3>3. q \in 1..N /\ q <= k
      BY <1>2, <3>1
    <3>4. IsAsk(f[q])
      BY <3>3
    <3> QED
      BY <3>2, <3>4, HandedIs
  <2> QED
    BY <2>2, <2>3, <2>4
<1>9. T \subseteq Nat
  OBVIOUS
<1>10. Nat \subseteq T
  <2> HIDE DEF T
  <2> QED
    BY <1>7, <1>8, <1>9, NatInduct
<1>11. N \in T
  BY <1>2, <1>10
<1>12. \A p \in 1..N : IsAsk(f[p])
  BY <1>2, <1>11
<1> QED
  BY <1>6, <1>12 DEF f, N

(* Nothing is asked of the nodes before the first that is. *)
LEMMA AsksNone ==
  ASSUME NEW t, Arranged(t), NEW first, \A q \in DOMAIN first : IsAsk(first[q]),
         NEW m \in Nat, \A q \in DOMAIN first : q \in Nat /\ q > m
  PROVE  \A p \in 1..Len(t) : p <= m => Asked(t, first)[p] = NoElements
<1> DEFINE N == Len(t)
           f == Asked(t, first)
           T == {k \in Nat : \A p \in 1..N : p <= k /\ p <= m => f[p] = NoElements}
<1>1. \A p \in 1..N : AskRule(t, first, f, p)
  BY AsksIs
<1>2. N \in Nat /\ \A p \in 1..N : p > 1 => t[p].up \in 1..(p - 1)
  BY DEF Arranged
<1> HIDE DEF f, N
<1>3. 0 \in T
  OBVIOUS
<1>4. ASSUME NEW k \in T PROVE k + 1 \in T
  <2> SUFFICES ASSUME NEW p \in 1..N, p <= k + 1, p <= m PROVE f[p] = NoElements
    OBVIOUS
  <2>1. AskRule(t, first, f, p) /\ p \notin DOMAIN first
    BY <1>1
  <2>2. CASE p = 1
    BY <2>1, <2>2 DEF AskRule
  <2>3. CASE p # 1
    <3> DEFINE q == t[p].up
    <3>1. q \in 1..(p - 1)
      BY <1>2, <2>3
    <3>2. f[p] = HandedOn(t[q], p, f[q])
      BY <2>1, <2>3 DEF AskRule
    <3> HIDE DEF q
    <3>3. q \in 1..N /\ q <= k /\ q <= m
      BY <1>2, <3>1
    <3>4. f[q] = NoElements
      BY <3>3
    <3>5. IsAsk(NoElements) /\ NoElements.n = 0
      BY DEF IsAsk, NoElements, Flags
    <3> QED
      BY <3>2, <3>4, <3>5, HandedIs
  <2> QED
    BY <2>2, <2>3
<1>5. T \subseteq Nat
  OBVIOUS
<1>6. Nat \subseteq T
  <2> HIDE DEF T
  <2> QED
    BY <1>3, <1>4, <1>5, NatInduct
<1>7. N \in T
  BY <1>2, <1>6
<1> QED
  BY <1>2, <1>7 DEF N, f

(* What a call owes the tree: its shape, its nodes and, unless memory ran  *)
(* out, their order.                                                       *)
BytesDo(t, u) == \A p \in 1..Len(t) : OneByte(t[p], u[p])
(* Every bool has the bytes of its length. *)
BoolsSized(t) == \A p \in 1..Len(t) : BoolSized(t[p])
(* What a call owes the tree: its shape, its nodes, their order unless     *)
(* memory ran out, and no write outside if bools grow by one byte's worth. *)
Lands(t, r) ==
  /\ Alikes(t, r.tree) /\ \A p \in 1..Len(t) : IsNode(r.tree[p])
  /\ r.err # "ENOMEM" => InOrder(r.tree)
  /\ BytesDo(t, r.tree) => r.wild = FALSE
  /\ BytesDo(t, r.tree) /\ BoolsSized(t) /\ r.err # "ENOMEM" => BoolsSized(r.tree)
(* No node got shorter. *)
Lengthened(t, u) ==
  \A q \in 1..Len(t) : t[q].length \in Nat /\ u[q].length \in Nat /\ t[q].length <= u[q].length

(* A call takes no elements away. *)
LEMMA SettledLonger ==
  ASSUME NEW t, InOrder(t), NEW did, NEW u, NEW R, NEW ns, \A p \in 1..Len(t) : ns[p] \in Nat,
         \A p \in 1..Len(t) : Settled(t, did, u, R, ns, p)
  PROVE  Lengthened(t, u)
<1> SUFFICES ASSUME NEW q \in 1..Len(t)
             PROVE  t[q].length \in Nat /\ u[q].length \in Nat /\ t[q].length <= u[q].length
  BY DEF Lengthened
<1>1. t[q].length \in Nat /\ ns[q] \in Nat
  BY NodeHas DEF InOrder
<1>2. CASE u[q] = t[q]
  BY <1>1, <1>2
<1>3. CASE u[q] = did[q].node /\ Moves(t[q], ns[q], did[q])
  BY <1>1, <1>3 DEF Moves
<1> QED
  BY <1>2, <1>3 DEF Settled

(* A call lands if every node that got its elements is covered by its      *)
(* children.                                                               *)
LEMMA LandsIf ==
  ASSUME NEW t, InOrder(t), NEW did, NEW r, NEW R, Outcome(t, did, r, R), NEW ns,
         \A p \in 1..Len(t) : ns[p] \in Nat /\ Step(t[p], ns[p], did[p]),
         ASSUME r.err # "ENOMEM", Lengthened(t, r.tree), Alikes(t, r.tree),
                NEW p \in R, r.tree[p] = did[p].node, Moves(t[p], ns[p], did[p])
         PROVE  FitsAt(r.tree, p)
  PROVE  Lands(t, r)
<1> DEFINE u == r.tree
           N == Len(t)
<1>1. Arranged(t) /\ \A p \in 1..N : IsNode(t[p]) /\ Filled(t[p]) /\ FitsAt(t, p)
  BY DEF InOrder
<1>2. \A p \in 1..N : Sound(t[p], did[p])
  BY <1>1, StepSound
<1>3. Alikes(t, u) /\ \A p \in 1..N : IsNode(u[p])
  BY <1>1, <1>2, SoundTree
<1>4. BytesDo(t, u) => r.wild = FALSE
  <2> SUFFICES ASSUME BytesDo(t, u) PROVE r.wild = FALSE
    OBVIOUS
  <2>1. \A p \in 1..N : OneByte(t[p], u[p])
    BY DEF BytesDo
  <2> QED
    BY <1>1, <2>1, TameTree
<1>5. ASSUME r.err # "ENOMEM"
      PROVE  InOrder(u) /\ (BytesDo(t, u) /\ BoolsSized(t) => BoolsSized(u))
  <2>1. \A p \in 1..N : Settled(t, did, u, R, ns, p)
    BY <1>1, <1>5, SettledTree
  <2>2. Lengthened(t, u)
    BY <2>1, SettledLonger
  <2>3. Arranged(u) /\ Len(u) = N
    BY <1>1, <1>3, AlikesArranged
  <2>4. ASSUME NEW p \in 1..N PROVE Filled(u[p]) /\ FitsAt(u, p)
    <3>1. CASE u[p] = t[p]
      <4>1. IsNode(t[p]) /\ Filled(t[p]) /\ FitsAt(t, p)
        BY <1>1
      <4>2. /\ u[p].length = t[p].length
            /\ t[p].type = "list" => u[p].at[2][u[p].length + 1] = t[p].at[2][t[p].length + 1]
        BY <3>1
      <4>3. FitsAt(u, p)
        BY <1>1, <1>3, <2>2, <4>1, <4>2, FitsStay DEF Lengthened
      <4> QED
        BY <3>1, <4>1, <4>3
    <3>2. CASE p \in R /\ u[p] = did[p].node /\ Moves(t[p], ns[p], did[p])
      <4>1. FitsAt(u, p)
        BY <1>3, <1>5, <2>2, <3>2
      <4> QED
        BY <3>2, <4>1 DEF Moves
    <3> QED
      BY <2>1, <3>1, <3>2 DEF Settled
  <2>5. ASSUME BytesDo(t, u), BoolsSized(t), NEW p \in 1..N PROVE BoolSized(u[p])
    <3>1. IsNode(t[p]) /\ BoolSized(t[p]) /\ OneByte(t[p], u[p]) /\ ns[p] \in Nat
      BY <1>1, <2>5 DEF BytesDo, BoolsSized
    <3>2. CASE u[p] = t[p]
      BY <3>1, <3>2
    <3>3. CASE p \in R /\ u[p] = did[p].node /\ Moves(t[p], ns[p], did[p])
      <4>1. OneByte(t[p], did[p].node)
        BY <3>1, <3>3
      <4>2. BoolSized(did[p].node)
        BY <3>1, <3>3, <4>1, BoolSizedMoves
      <4> QED
        BY <3>3, <4>2
    <3> QED
      BY <2>1, <3>2, <3>3 DEF Settled
  <2> HIDE DEF u
  <2>6. InOrder(u)
    BY <1>3, <2>3, <2>4 DEF InOrder
  <2>7. BytesDo(t, u) /\ BoolsSized(t) => BoolsSized(u)
    <3>1. ASSUME BytesDo(t, u), BoolsSized(t) PROVE \A p \in 1..Len(u) : BoolSized(u[p])
      BY <2>3, <2>5, <3>1
    <3> QED
      BY <3>1 DEF BoolsSized
  <2> QED
    BY <2>6, <2>7
<1> HIDE DEF u
<1>6. Lands(t, [tree |-> u, err |-> r.err, wild |-> r.wild])
  BY <1>3, <1>4, <1>5 DEF Lands
<1> QED
  BY <1>3, <1>4, <1>5 DEF Lands, u

(* The visit of a node by _ArrowArrayAppendEmptyInternal. *)
LEMMA MovesNowhere ==
  ASSUME NEW x, IsNode(x), Filled(x), NEW f
  PROVE  Moves(x, 0, Begin(x, f)) /\ LastStays(x, Begin(x, f).node)
<1> DEFINE d == Begin(x, f)
<1>1. d.err = "OK" /\ d.wild = FALSE /\ d.node = x
  BY DEF Begin
<1>2. x.length + 0 = x.length
  <2>1. x.length \in Nat
    BY NodeHas
  <2> QED
    BY <2>1
<1>3. Same(x, x)
  BY DEF Same
<1> HIDE DEF d
<1> QED
  BY <1>1, <1>2, <1>3 DEF Moves, LastStays, d

(* The visit of a node of a tree in order appends what was asked and       *)
(* leaves the last offset.                                                 *)
LEMMA EmptyAtIs ==
  ASSUME NEW t, NEW p, IsNode(t[p]), Filled(t[p]), NEW f, IsAsk(f[p]), NEW place
  PROVE  LET d == EmptyAt(t, p, f, place) IN
           /\ Step(t[p], f[p].n, d)
           /\ d.err = "OK" => LastStays(t[p], d.node)
<1> DEFINE x == t[p]
           n == f[p].n
           v == f[p].is_valid
           length == t[t[p].kids[1]].length + f[t[p].kids[1]].n
           z == FailsAt(place, p)
           d == EmptyAt(t, p, f, place)
           e == EmptyNode(x, n, v, length, z)
           Done(c) == Step(x, n, c) /\ (c.err = "OK" => LastStays(x, c.node))
<1>1. d = e
  BY EmptyAtNode
<1>2. IsNode(x) /\ Filled(x) /\ n \in Nat /\ v \in Flags
  BY DEF IsAsk
<1> HIDE DEF x, n, v, length, z, d
<1>3. ASSUME n = 0 PROVE Done(e)
  <2>1. e = Begin(x, z)
    BY <1>3 DEF EmptyNode
  <2>2. Moves(x, 0, Begin(x, z)) /\ LastStays(x, Begin(x, z).node)
    BY <1>2, MovesNowhere
  <2> HIDE DEF e
  <2> QED
    BY <1>3, <2>1, <2>2 DEF Step
<1>4. ASSUME n # 0 PROVE Done(e)
  <2>1. n \in Nat \ {0}
    BY <1>2, <1>4
  <2>2. Spoilt(x, e) \/ Appends(x, n, e)
    BY <1>2, <2>1, EmptyNodeIs
  <2> HIDE DEF e
  <2>3. ASSUME Appends(x, n, e) PROVE Moves(x, n, e) /\ LastStays(x, e.node)
    <3>1. Grows(x, n, e) /\ LastStays(x, e.node)
      BY <2>3 DEF Appends, LastStays
    <3> QED
      BY <1>4, <3>1 DEF Grows, Moves
  <2>4. ASSUME Spoilt(x, e) PROVE e.err # "OK" /\ Refused(x, e)
    BY <2>4 DEF Spoilt, Refused
  <2> QED
    BY <2>2, <2>3, <2>4 DEF Step
<1> HIDE DEF Done, e
<1>5. Done(d)
  BY <1>1, <1>3, <1>4
<1> QED
  BY <1>5 DEF Done, x, n, d

(* What a child is asked for. *)
LEMMA KidAsked ==
  ASSUME NEW t, Arranged(t), NEW first, \A q \in DOMAIN first : IsAsk(first[q]),
         NEW p \in 1..Len(t), NEW k \in 1..Len(t[p].kids), t[p].kids[k] \notin DOMAIN first,
         Asked(t, first)[p].n # 0
  PROVE  /\ t[p].type \in {"struct", "sparse_union"} =>
              Asked(t, first)[t[p].kids[k]].n = Asked(t, first)[p].n
         /\ t[p].type = "fixed_size_list" =>
              Asked(t, first)[t[p].kids[k]].n = Asked(t, first)[p].n * ListSize
<1> DEFINE f == Asked(t, first)
           q == t[p].kids[k]
<1>1. q \in 1..Len(t) /\ t[q].up = p /\ q > p
  BY DEF Arranged, KidsBelow
<1>2. q # 1 /\ q \notin DOMAIN first
  BY <1>1
<1>3. AskRule(t, first, f, q) /\ IsAsk(f[p])
  <2> HIDE DEF q
  <2> QED
    BY <1>1, AsksIs
<1> HIDE DEF f, q
<1>4. f[q] = HandedOn(t[p], q, f[p])
  BY <1>1, <1>2, <1>3 DEF AskRule
<1>5. f[p].n # 0
  BY DEF f
<1>6. /\ t[p].type \in {"struct", "sparse_union"} => f[q].n = f[p].n
      /\ t[p].type = "fixed_size_list" => f[q].n = f[p].n * ListSize
  BY <1>3, <1>4, <1>5, HandedIs
<1> QED
  BY <1>6 DEF f, q

(* The children are done before. *)
DoneFirst(t, did, R) ==
  \A p \in R, q \in DOMAIN t : DoneBefore(t, q, p) => q \in R /\ did[q].err = "OK"
(* A child of a node that was reached got what it was asked for. *)
LEMMA KidsMoved ==
  ASSUME NEW t, Arranged(t), NEW did, NEW r, NEW R, Outcome(t, did, r, R), DoneFirst(t, did, R), NEW ns,
         \A q \in 1..Len(t) : Step(t[q], ns[q], did[q]), r.err # "ENOMEM", Alikes(t, r.tree),
         NEW p \in R, NEW k \in 1..Len(t[p].kids)
  PROVE  did[t[p].kids[k]].err = "OK" /\ Kid(r.tree, p, k).length = Kid(t, p, k).length + ns[t[p].kids[k]]
<1> DEFINE q == t[p].kids[k]
           u == r.tree
<1>1. p \in 1..Len(t) /\ DOMAIN t = 1..Len(t)
  BY DEF Arranged, Outcome
<1>2. q \in 1..Len(t) /\ DoneBefore(t, q, p)
  BY <1>1, KidsFirst
<1>3. q \in R /\ did[q].err = "OK"
  <2> HIDE DEF q
  <2> QED
    BY <1>1, <1>2 DEF DoneFirst
<1>4. u[q] = did[q].node /\ Moves(t[q], ns[q], did[q])
  <2> HIDE DEF q
  <2> QED
    BY <1>3, SettledTree
<1>5. u[p].kids = t[p].kids
  BY <1>1 DEF Alikes, Same
<1>6. Kid(u, p, k) = u[q] /\ Kid(t, p, k) = t[q]
  BY <1>5 DEF Kid
<1> HIDE DEF u, q
<1> QED
  BY <1>3, <1>4, <1>6 DEF Moves, u, q

(* The arithmetic of a fixed-size list: n elements more need n times the   *)
(* size.                                                                   *)
LEMMA Shares ==
  ASSUME NEW a \in Nat, NEW b \in Nat, NEW c \in Nat, a * c <= b, NEW n \in Nat
  PROVE  (a + n) * c <= b + n * c
<1>1. (a + n) * c = a * c + n * c
  OBVIOUS
<1>2. a * c \in Nat /\ n * c \in Nat
  BY Products
<1> QED
  BY <1>1, <1>2

(* Lists have a child. *)
LEMMA FirstKid ==
  ASSUME NEW t, Arranged(t), NEW p \in 1..Len(t), t[p].type \in {"list", "fixed_size_list"}
  PROVE  1 \in 1..Len(t[p].kids)
<1> DEFINE m == Len(t[p].kids)
<1>1. m = 1
  BY DEF Arranged
<1> HIDE DEF m
<1>2. 1 \in 1..m
  BY <1>1
<1> QED
  BY <1>2 DEF m

(* A node that grew by n is covered if its children grew with it. *)
LEMMA FitsGrown ==
  ASSUME NEW t, NEW u, InOrder(t), Alikes(t, u), Lengthened(t, u), NEW p \in 1..Len(t), NEW n \in Nat,
         u[p].length = t[p].length + n, LastStays(t[p], u[p]),
         t[p].type \in {"struct", "sparse_union"} /\ n # 0 =>
           \A k \in 1..Len(t[p].kids) : Kid(u, p, k).length >= t[p].length + n,
         t[p].type = "fixed_size_list" /\ n # 0 =>
           Kid(u, p, 1).length = Kid(t, p, 1).length + n * ListSize
  PROVE  FitsAt(u, p)
<1>1. /\ KidsBelow(t, p) /\ (t[p].type \in {"list", "fixed_size_list"} => Len(t[p].kids) = 1)
      /\ IsNode(t[p]) /\ Filled(t[p]) /\ FitsAt(t, p) /\ Arranged(t)
  BY DEF InOrder, Arranged
<1>2. u[p].type = t[p].type /\ u[p].kids = t[p].kids
  BY DEF Alikes, Same
<1>3. t[p].type = "list" => u[p].at[2][u[p].length + 1] = t[p].at[2][t[p].length + 1]
  <2> SUFFICES ASSUME t[p].type = "list" PROVE u[p].at[2][u[p].length + 1] = t[p].at[2][t[p].length + 1]
    OBVIOUS
  <2>1. t[p].type \in Types
    BY <1>1, NodeHas
  <2>2. Kind(t[p], 2) = "data_offset"
    BY <2>1, Laid
  <2> QED
    BY <2>2 DEF LastStays
<1>4. \A q \in 1..Len(t) : t[q].length \in Nat /\ u[q].length \in Nat /\ t[q].length <= u[q].length
  BY DEF Lengthened
<1>5. ASSUME t[p].type = "list" PROVE FitsAt(u, p)
  <2>1. 1 \in 1..Len(t[p].kids)
    BY <1>1, <1>5, FirstKid
  <2>2. t[p].kids[1] \in 1..Len(t)
    BY <1>1, <2>1 DEF KidsBelow
  <2> DEFINE a == t[p].at[2][t[p].length + 1]
             b == Kid(t, p, 1).length
             c == Kid(u, p, 1).length
  <2>3. b \in Nat /\ c \in Nat /\ b <= c
    BY <1>2, <1>4, <2>2 DEF Kid
  <2>4. a <= b
    BY <1>1, <1>5 DEF FitsAt
  <2>5. a \in Nat
    <3>1. t[p].type \in Types /\ t[p].length \in Nat
      BY <1>1, NodeHas
    <3>2. Kind(t[p], 2) = "data_offset"
      BY <1>5, <3>1, Laid
    <3>3. Rising(t[p].at[2], t[p].length)
      BY <1>1, <3>2 DEF Filled, Second
    <3> QED
      BY <3>1, <3>3, RisingLast
  <2> HIDE DEF a, b, c
  <2>6. a <= c
    BY <2>3, <2>4, <2>5
  <2>7. u[p].at[2][u[p].length + 1] <= Kid(u, p, 1).length
    BY <1>3, <1>5, <2>6 DEF a, c
  <2> QED
    BY <1>2, <1>5, <2>7 DEF FitsAt
<1>6. ASSUME t[p].type # "list", n = 0 PROVE FitsAt(u, p)
  <2>1. u[p].length = t[p].length
    BY <1>4, <1>6
  <2> QED
    BY <1>1, <1>3, <1>4, <2>1, FitsStay
<1>7. ASSUME t[p].type \in {"struct", "sparse_union"}, n # 0 PROVE FitsAt(u, p)
  <2>1. \A k \in 1..Len(t[p].kids) : u[p].length <= Kid(u, p, k).length
    <3> SUFFICES ASSUME NEW k \in 1..Len(t[p].kids) PROVE u[p].length <= Kid(u, p, k).length
      OBVIOUS
    <3>1. t[p].kids[k] \in 1..Len(t)
      BY <1>1 DEF KidsBelow
    <3>2. Kid(u, p, k).length \in Nat /\ t[p].length \in Nat
      BY <1>2, <1>4, <3>1 DEF Kid
    <3> QED
      BY <1>7, <3>2
  <2> QED
    BY <1>2, <1>7, <2>1 DEF FitsAt
<1>8. ASSUME t[p].type = "fixed_size_list", n # 0 PROVE FitsAt(u, p)
  <2>1. 1 \in 1..Len(t[p].kids)
    BY <1>1, <1>8, FirstKid
  <2>2. t[p].kids[1] \in 1..Len(t)
    BY <1>1, <2>1 DEF KidsBelow
  <2> DEFINE a == t[p].length
             b == Kid(t, p, 1).length
  <2>3. a \in Nat /\ b \in Nat
    BY <1>2, <1>4, <2>2 DEF Kid
  <2>4. a * ListSize <= b
    BY <1>1, <1>8 DEF FitsAt
  <2>5. u[p].length = a + n /\ Kid(u, p, 1).length = b + n * ListSize
    BY <1>8
  <2> HIDE DEF a, b
  <2>6. (a + n) * ListSize <= b + n * ListSize
    BY <2>3, <2>4, ListSizeAssumption, Shares
  <2> QED
    BY <1>2, <1>8, <2>5, <2>6 DEF FitsAt
<1>9. ASSUME t[p].type \notin {"list", "struct", "sparse_union", "fixed_size_list"} PROVE FitsAt(u, p)
  BY <1>2, <1>9 DEF FitsAt
<1> QED
  BY <1>5, <1>6, <1>7, <1>8, <1>9

(* A visit for empty elements leaves what the node refers to. *)
HandsDown(t, ns, p) ==
  ns[p] # 0 => \A k \in 1..Len(t[p].kids) :
    /\ t[p].type \in {"struct", "sparse_union"} => ns[t[p].kids[k]] = ns[p]
    /\ t[p].type = "fixed_size_list" => ns[t[p].kids[k]] = ns[p] * ListSize
(* A node that got n empty elements is covered by its children, who got    *)
(* theirs first.                                                           *)
LEMMA EmptyFits ==
  ASSUME NEW t, InOrder(t), NEW did, NEW r, NEW R, Outcome(t, did, r, R), DoneFirst(t, did, R), NEW ns,
         \A q \in 1..Len(t) : ns[q] \in Nat /\ Step(t[q], ns[q], did[q]), r.err # "ENOMEM",
         Alikes(t, r.tree), Lengthened(t, r.tree),
         NEW p \in R, r.tree[p] = did[p].node, Moves(t[p], ns[p], did[p]), LastStays(t[p], did[p].node),
         HandsDown(t, ns, p)
  PROVE  FitsAt(r.tree, p)
<1> DEFINE u == r.tree
           n == ns[p]
<1>1. p \in 1..Len(t) /\ Arranged(t)
  BY DEF InOrder, Arranged, Outcome
<1>2. \A k \in 1..Len(t[p].kids) : Kid(u, p, k).length = Kid(t, p, k).length + ns[t[p].kids[k]]
  BY <1>1, KidsMoved
<1>3. u[p].length = t[p].length + n
  BY DEF Moves
<1>4. n \in Nat
  BY <1>1
<1>5. ASSUME t[p].type \in {"struct", "sparse_union"}, n # 0, NEW k \in 1..Len(t[p].kids)
      PROVE  Kid(u, p, k).length >= t[p].length + n
  <2>1. Kid(u, p, k).length = Kid(t, p, k).length + n
    BY <1>2, <1>5 DEF HandsDown
  <2>2. FitsAt(t, p)
    BY <1>1 DEF InOrder
  <2>3. t[p].length <= Kid(t, p, k).length
    BY <1>5, <2>2 DEF FitsAt
  <2>4. t[p].kids[k] \in 1..Len(t)
    BY <1>1 DEF Arranged, KidsBelow
  <2>5. Kid(t, p, k).length \in Nat /\ t[p].length \in Nat
    BY <1>1, <2>4 DEF Lengthened, Kid
  <2> HIDE DEF u, n
  <2> QED
    BY <1>4, <2>1, <2>3, <2>5
<1>6. ASSUME t[p].type = "fixed_size_list", n # 0 PROVE Kid(u, p, 1).length = Kid(t, p, 1).length + n * ListSize
  <2>1. 1 \in 1..Len(t[p].kids)
    BY <1>1, <1>6, FirstKid
  <2>2. ns[t[p].kids[1]] = n * ListSize
    BY <1>6, <2>1 DEF HandsDown
  <2> QED
    BY <1>2, <2>1, <2>2
<1>7. LastStays(t[p], u[p])
  OBVIOUS
<1> HIDE DEF u, n
<1>8. Alikes(t, u) /\ Lengthened(t, u)
  BY DEF u
<1>9. FitsAt(u, p)
  BY <1>1, <1>3, <1>4, <1>5, <1>6, <1>7, <1>8, FitsGrown
<1> QED
  BY <1>9 DEF u

(* The question put to one node. *)
OneAsk(p, n, v) == [q \in {p} |-> [n |-> n, is_valid |-> v]]
(* It is one. *)
LEMMA OneAskIs ==
  ASSUME NEW p, NEW n \in Nat, NEW v \in Flags
  PROVE  DOMAIN OneAsk(p, n, v) = {p} /\ OneAsk(p, n, v)[p] = [n |-> n, is_valid |-> v] /\ IsAsk(OneAsk(p, n, v)[p])
<1> DEFINE a == [n |-> n, is_valid |-> v]
<1>1. IsAsk(a)
  BY DEF IsAsk
<1> HIDE DEF a
<1>2. OneAsk(p, n, v) = [q \in {p} |-> a]
  BY DEF OneAsk, a
<1> QED
  BY <1>1, <1>2 DEF a

(* The visits of _ArrowArrayAppendEmptyInternal to all nodes. *)
EmptyVisits(t, f, place) == [q \in DOMAIN t |-> EmptyAt(t, q, f, place)]
(* ArrowArrayAppendEmpty and ArrowArrayAppendNull leave the tree in order. *)
LEMMA AppendEmptyIs ==
  ASSUME NEW t, InOrder(t), NEW p \in 1..Len(t), NEW n \in Nat, NEW v \in Flags, NEW place
  PROVE  Lands(t, AppendEmpty(t, p, n, v, place))
<1> DEFINE N == Len(t)
           first == OneAsk(p, n, v)
           f == Asked(t, first)
           did == EmptyVisits(t, f, place)
           r == BottomUp(t, did)
           ns == [q \in 1..N |-> f[q].n]
<1>1. AppendEmpty(t, p, n, v, place) = r
  BY DEF AppendEmpty, OneAsk, EmptyVisits
<1>2. /\ Arranged(t) /\ DOMAIN t = 1..N /\ N \in Nat /\ \A q \in DOMAIN t : t[q].last \in Nat
  <2>1. Arranged(t) /\ DOMAIN t = 1..N /\ N \in Nat
    BY DEF InOrder, Arranged
  <2>2. \A q \in 1..N : t[q].last \in q..N
    BY <2>1 DEF Arranged
  <2> HIDE DEF N
  <2> QED
    BY <2>1, <2>2
<1>3. DOMAIN first = {p} /\ IsAsk(first[p])
  BY OneAskIs
<1> HIDE DEF first
<1>4. \A q \in 1..N : IsAsk(f[q])
  BY <1>2, <1>3, AsksIs
<1>5. \A q \in 1..N : did[q] = EmptyAt(t, q, f, place)
  BY <1>2 DEF EmptyVisits
<1> HIDE DEF f, did, r
<1>6. PICK R : Outcome(t, did, r, R) /\ DoneFirst(t, did, R)
  <2>1. \E R : /\ Outcome(t, did, BottomUp(t, did), R)
               /\ \A a \in R, q \in DOMAIN t : DoneBefore(t, q, a) => q \in R /\ did[q].err = "OK"
    <3> HIDE DEF N
    <3> QED
      BY <1>2, BottomUpIs
  <2> QED
    BY <2>1 DEF DoneFirst, r
<1>7. ASSUME NEW q \in 1..N
      PROVE  ns[q] \in Nat /\ Step(t[q], ns[q], did[q]) /\ (did[q].err = "OK" => LastStays(t[q], did[q].node))
  <2>1. IsNode(t[q]) /\ Filled(t[q]) /\ IsAsk(f[q])
    BY <1>4 DEF InOrder
  <2> DEFINE d == EmptyAt(t, q, f, place)
  <2>2. Step(t[q], f[q].n, d) /\ (d.err = "OK" => LastStays(t[q], d.node))
    BY <2>1, EmptyAtIs
  <2>3. ns[q] = f[q].n /\ f[q].n \in Nat
    BY <2>1 DEF IsAsk
  <2>4. did[q] = d
    BY <1>5
  <2> HIDE DEF d, ns
  <2> QED
    BY <2>2, <2>3, <2>4
<1>8. \A q \in 1..N : HandsDown(t, ns, q)
  <2> SUFFICES ASSUME NEW q \in 1..N, ns[q] # 0, NEW k \in 1..Len(t[q].kids)
               PROVE  /\ t[q].type \in {"struct", "sparse_union"} => ns[t[q].kids[k]] = ns[q]
                      /\ t[q].type = "fixed_size_list" => ns[t[q].kids[k]] = ns[q] * ListSize
    BY DEF HandsDown
  <2>1. f[q].n # 0 /\ ns[q] = f[q].n
    OBVIOUS
  <2>2. t[q].kids[k] \in 1..N /\ t[q].kids[k] > q
    BY <1>2 DEF Arranged, KidsBelow
  <2>3. t[q].kids[k] \notin DOMAIN first
    <3> SUFFICES ASSUME t[q].kids[k] = p PROVE FALSE
      BY <1>3
    <3>1. q \in Nat /\ p > q /\ \A z \in DOMAIN first : z \in Nat /\ z > q
      BY <1>3, <2>2
    <3>2. q <= q
      BY <3>1
    <3>3. f[q] = NoElements
      BY <1>2, <1>3, <3>1, <3>2, AsksNone DEF f
    <3> QED
      BY <2>1, <3>3 DEF NoElements
  <2>4. ns[t[q].kids[k]] = f[t[q].kids[k]].n
    BY <2>2
  <2>5. /\ t[q].type \in {"struct", "sparse_union"} => f[t[q].kids[k]].n = f[q].n
        /\ t[q].type = "fixed_size_list" => f[t[q].kids[k]].n = f[q].n * ListSize
    <3>1. \A z \in DOMAIN first : IsAsk(first[z])
      BY <1>3
    <3>2. Asked(t, first)[q].n # 0
      BY <2>1 DEF f
    <3>3. q \in 1..Len(t) /\ k \in 1..Len(t[q].kids)
      OBVIOUS
    <3> HIDE DEF N, ns
    <3>4. /\ t[q].type \in {"struct", "sparse_union"} =>
               Asked(t, first)[t[q].kids[k]].n = Asked(t, first)[q].n
          /\ t[q].type = "fixed_size_list" =>
               Asked(t, first)[t[q].kids[k]].n = Asked(t, first)[q].n * ListSize
      <4>1. Arranged(t)
        BY <1>2
      <4>2. t[q].type \in {"struct", "sparse_union"} =>
              Asked(t, first)[t[q].kids[k]].n = Asked(t, first)[q].n
        BY <2>3, <3>1, <3>2, <3>3, <4>1, KidAsked
      <4>3. t[q].type = "fixed_size_list" =>
              Asked(t, first)[t[q].kids[k]].n = Asked(t, first)[q].n * ListSize
        BY <2>3, <3>1, <3>2, <3>3, <4>1, KidAsked
      <4> QED
        BY <4>2, <4>3
    <3> QED
      BY <3>4 DEF f
  <2> QED
    BY <2>1, <2>4, <2>5
<1> HIDE DEF ns
<1>9. ASSUME r.err # "ENOMEM", Lengthened(t, r.tree), Alikes(t, r.tree),
             NEW q \in R, r.tree[q] = did[q].node, Moves(t[q], ns[q], did[q])
      PROVE  FitsAt(r.tree, q)
  <2>1. q \in 1..N
    BY <1>2, <1>6 DEF Outcome
  <2>2. did[q].err = "OK"
    BY <1>9 DEF Moves
  <2>3. LastStays(t[q], did[q].node)
    BY <1>7, <2>1, <2>2
  <2> QED
    BY <1>6, <1>7, <1>8, <1>9, <2>1, <2>3, EmptyFits
<1>10. Lands(t, r)
  <2> HIDE DEF N
  <2>1. \A q \in 1..Len(t) : ns[q] \in Nat /\ Step(t[q], ns[q], did[q])
    BY <1>7 DEF N
  <2> QED
    BY <1>6, <1>9, <2>1, LandsIf
<1> QED
  BY <1>1, <1>10

(* A call on one node that gives it an element. *)
TreeSeq(t) == {t[p] : p \in 1..Len(t)}
(* A tree is a sequence. *)
LEMMA ArrangedSeq ==
  ASSUME NEW t, Arranged(t)
  PROVE  t \in Seq(TreeSeq(t))
<1> DEFINE N == Len(t)
<1>1. N \in Nat /\ t = [p \in 1..N |-> t[p]]
  BY DEF Arranged
<1>2. \A p \in 1..N : t[p] \in TreeSeq(t)
  BY DEF TreeSeq
<1> DEFINE S == TreeSeq(t)
<1> HIDE DEF N, S
<1> QED
  BY <1>1, <1>2 DEF S

(* A call says whether it wrote outside. *)
LEMMA WildIs ==
  ASSUME NEW x, NEW d, Refused(x, d) \/ Grows(x, 1, d)
  PROVE  d.wild \in BOOLEAN
BY DEF Refused, Spoilt, Stays, Grows, BitsFit

(* A call of one node lands if the node stays covered by its children. *)
LEMMA NodeLands ==
  ASSUME NEW t, InOrder(t), NEW p \in 1..Len(t), NEW c, Refused(t[p], c) \/ Grows(t[p], 1, c),
         ASSUME NEW u, Alikes(t, u), Lengthened(t, u), u[p] = c.node, Grows(t[p], 1, c),
                \A q \in 1..Len(t) : q # p => u[q] = t[q]
         PROVE  FitsAt(u, p)
  PROVE  Lands(t, OnNode(t, p, c))
<1> DEFINE N == Len(t)
           did == OnlyAt(t, p, c)
           r == OnNode(t, p, c)
           ns == [q \in 1..N |-> IF q = p THEN 1 ELSE 0]
           R == DOMAIN t
<1>1. Arranged(t) /\ DOMAIN t = 1..N
  BY DEF InOrder, Arranged
<1>2. Outcome(t, did, r, R)
  <2>1. t \in Seq(TreeSeq(t)) /\ p \in DOMAIN t
    BY <1>1, ArrangedSeq
  <2>2. c.wild \in BOOLEAN
    BY WildIs
  <2> QED
    BY <2>1, <2>2, OnNodeIs
<1>3. did[p] = c /\ \A q \in 1..N : q # p => did[q] = Begin(t[q], 0)
  BY <1>1 DEF OnlyAt
<1>4. r.tree = [t EXCEPT ![p] = c.node]
  BY DEF OnNode
<1> HIDE DEF did, r
<1>5. r.tree[p] = c.node /\ \A q \in 1..N : q # p => r.tree[q] = t[q]
  BY <1>1, <1>4
<1>6. ASSUME NEW q \in 1..N PROVE ns[q] \in Nat /\ Step(t[q], ns[q], did[q])
  <2>1. CASE q = p
    <3>1. ns[q] = 1
      BY <2>1
    <3>2. Grows(t[p], 1, c) => Moves(t[p], 1, c)
      BY DEF Grows, Moves
    <3> HIDE DEF ns
    <3> QED
      BY <1>3, <2>1, <3>1, <3>2 DEF Step
  <2>2. CASE q # p
    <3>1. ns[q] = 0
      BY <2>2
    <3>2. IsNode(t[q]) /\ Filled(t[q])
      BY DEF InOrder
    <3>3. Moves(t[q], 0, Begin(t[q], 0))
      BY <3>2, MovesNowhere
    <3>4. did[q] = Begin(t[q], 0)
      BY <1>3, <2>2
    <3> HIDE DEF ns
    <3> QED
      BY <3>1, <3>3, <3>4 DEF Step
  <2> QED
    BY <2>1, <2>2
<1>7. ns[p] = 1
  OBVIOUS
<1> HIDE DEF ns
<1>8. ASSUME r.err # "ENOMEM", Lengthened(t, r.tree), Alikes(t, r.tree),
             NEW q \in R, r.tree[q] = did[q].node, Moves(t[q], ns[q], did[q])
      PROVE  FitsAt(r.tree, q)
  <2>1. CASE q = p
    <3>1. Grows(t[p], 1, c)
      <4>1. c.err = "OK"
        BY <1>3, <1>8, <2>1 DEF Moves
      <4> QED
        BY <4>1 DEF Refused, Spoilt, Stays
    <3> QED
      BY <1>5, <1>8, <2>1, <3>1
  <2>2. CASE q # p
    <3> DEFINE u == r.tree
    <3>1. q \in 1..N /\ u[q] = t[q]
      BY <1>1, <1>5, <2>2
    <3>2. FitsAt(t, q) /\ IsNode(t[q]) /\ Filled(t[q])
      BY <3>1 DEF InOrder
    <3>3. \A z \in 1..Len(t) : t[z].length \in Nat /\ u[z].length \in Nat /\ t[z].length <= u[z].length
      BY <1>8 DEF Lengthened
    <3>4. Alikes(t, u)
      BY <1>8
    <3> HIDE DEF u
    <3>5. FitsAt(u, q)
      BY <1>1, <3>1, <3>2, <3>3, <3>4, FitsStay
    <3> QED
      BY <3>5 DEF u
  <2> QED
    BY <2>1, <2>2
<1>9. \A q \in 1..Len(t) : ns[q] \in Nat /\ Step(t[q], ns[q], did[q])
  BY <1>6
<1>10. Lands(t, r)
  <2> HIDE DEF N, R
  <2> QED
    BY <1>2, <1>8, <1>9, LandsIf
<1> QED
  BY <1>10 DEF r

(* Nodes that refer to nothing. *)
LEMMA FitsAlone ==
  ASSUME NEW t, NEW u, Alikes(t, u), NEW p \in 1..Len(t),
         t[p].type \notin {"list", "fixed_size_list", "struct", "sparse_union"}
  PROVE  FitsAt(u, p)
BY DEF Alikes, Same, FitsAt

(* ArrowArrayAppendInt leaves the tree in order. *)
LEMMA IntLands ==
  ASSUME NEW t, InOrder(t), NEW p \in 1..Len(t), NEW value, NEW f
  PROVE  Lands(t, OnNode(t, p, AppendInt(Begin(t[p], f), value)))
<1> DEFINE c == AppendInt(Begin(t[p], f), value)
<1>1. IsNode(t[p]) /\ Filled(t[p])
  BY DEF InOrder
<1>2. Refused(t[p], c) \/ Grows(t[p], 1, c)
  BY <1>1, AppendIntIs DEF Finished
<1>3. c.err = "OK" => t[p].type \in {"int16", "bool"}
  <2>1. Begin(t[p], f).node = t[p]
    BY DEF Begin
  <2> DEFINE b == Begin(t[p], f)
             r == Refuse(b, "EINVAL")
  <2>2. r.err = "EINVAL"
    BY DEF Refuse, Begin
  <2>3. t[p].type \notin {"int16", "bool"} => c = r
    <3> HIDE DEF r
    <3>1. b.node = t[p] /\ r = Refuse(b, "EINVAL")
      BY <2>1 DEF r
    <3> HIDE DEF b
    <3> QED
      BY <3>1 DEF AppendInt, b
  <2> HIDE DEF c, r
  <2> QED
    BY <2>2, <2>3
<1> HIDE DEF c
<1>4. ASSUME NEW u, Alikes(t, u), Lengthened(t, u), u[p] = c.node, Grows(t[p], 1, c),
             \A q \in 1..Len(t) : q # p => u[q] = t[q]
      PROVE  FitsAt(u, p)
  <2>1. t[p].type \in {"int16", "bool"}
    BY <1>3, <1>4 DEF Grows
  <2> QED
    BY <1>4, <2>1, FitsAlone
<1>5. Lands(t, OnNode(t, p, c))
  BY <1>2, <1>4, NodeLands
<1> QED
  BY <1>5 DEF c

(* ArrowArrayAppendString leaves the tree in order. *)
LEMMA BytesLand ==
  ASSUME NEW t, InOrder(t), NEW p \in 1..Len(t), NEW text, Len(text) \in Nat, NEW f
  PROVE  Lands(t, OnNode(t, p, AppendBytes(Begin(t[p], f), text)))
<1> DEFINE c == AppendBytes(Begin(t[p], f), text)
<1>1. IsNode(t[p]) /\ Filled(t[p])
  BY DEF InOrder
<1>2. Refused(t[p], c) \/ Grows(t[p], 1, c)
  BY <1>1, AppendBytesIs DEF Finished
<1>3. c.err = "OK" => t[p].type = "string"
  <2>1. Begin(t[p], f).node = t[p]
    BY DEF Begin
  <2> DEFINE b == Begin(t[p], f)
             r == Refuse(b, "EINVAL")
  <2>2. r.err = "EINVAL"
    BY DEF Refuse, Begin
  <2>3. t[p].type # "string" => c = r
    <3> HIDE DEF r
    <3>1. b.node = t[p] /\ r = Refuse(b, "EINVAL")
      BY <2>1 DEF r
    <3> HIDE DEF b
    <3> QED
      BY <3>1, Zenon DEF AppendBytes, b
  <2> HIDE DEF c, r
  <2> QED
    BY <2>2, <2>3
<1> HIDE DEF c
<1>4. ASSUME NEW u, Alikes(t, u), Lengthened(t, u), u[p] = c.node, Grows(t[p], 1, c),
             \A q \in 1..Len(t) : q # p => u[q] = t[q]
      PROVE  FitsAt(u, p)
  <2>1. t[p].type = "string"
    BY <1>3, <1>4 DEF Grows
  <2> QED
    BY <1>4, <2>1, FitsAlone
<1>5. Lands(t, OnNode(t, p, c))
  BY <1>2, <1>4, NodeLands
<1> QED
  BY <1>5 DEF c

(* Children of a tree that was lengthened are no shorter. *)
LEMMA KidsLonger ==
  ASSUME NEW t, Arranged(t), NEW u, Alikes(t, u), Lengthened(t, u), NEW p \in 1..Len(t), NEW k \in 1..Len(t[p].kids)
  PROVE  Kid(t, p, k).length \in Nat /\ Kid(u, p, k).length \in Nat /\ Kid(t, p, k).length <= Kid(u, p, k).length
<1>1. t[p].kids[k] \in 1..Len(t)
  BY DEF Arranged, KidsBelow
<1>2. u[p].kids = t[p].kids
  BY DEF Alikes, Same
<1>3. Kid(t, p, k) = t[t[p].kids[k]] /\ Kid(u, p, k) = u[t[p].kids[k]]
  BY <1>2 DEF Kid
<1> QED
  BY <1>1, <1>3 DEF Lengthened

(* A list has a last offset. *)
LEMMA ListOffset ==
  ASSUME NEW x, IsNode(x), Filled(x), x.type = "list"
  PROVE  x.at[2][x.length + 1] \in Nat
<1>1. x.type \in Types /\ x.length \in Nat
  BY NodeHas
<1>2. Kind(x, 2) = "data_offset"
  BY <1>1, Laid
<1>3. Rising(x.at[2], x.length)
  BY <1>2 DEF Filled, Second
<1> QED
  BY <1>1, <1>3, RisingLast

(* ArrowArrayFinishElement leaves the tree in order. *)
LEMMA FinishLands ==
  ASSUME NEW t, InOrder(t), NEW p \in 1..Len(t), NEW f
  PROVE  Lands(t, OnNode(t, p, FinishElement(t, p, f)))
<1> DEFINE c == FinishElement(t, p, f)
           length == Kid(t, p, 1).length
<1>1. IsNode(t[p]) /\ Filled(t[p]) /\ FitsAt(t, p) /\ Arranged(t) /\ t[p].length \in Nat
  BY NodeHas DEF InOrder
<1>2. t[p].type = "list" => length \in Nat /\ t[p].at[2][t[p].length + 1] <= length
  <2> SUFFICES ASSUME t[p].type = "list" PROVE length \in Nat /\ t[p].at[2][t[p].length + 1] <= length
    OBVIOUS
  <2>1. 1 \in 1..Len(t[p].kids)
    BY <1>1, FirstKid
  <2>2. t[p].kids[1] \in 1..Len(t)
    BY <1>1, <2>1 DEF Arranged, KidsBelow
  <2>3. IsNode(t[t[p].kids[1]])
    BY <2>2 DEF InOrder
  <2>4. t[t[p].kids[1]].length \in Nat
    BY <2>3, NodeHas
  <2>5. t[p].at[2][t[p].length + 1] <= length
    BY <1>1 DEF FitsAt
  <2> QED
    BY <2>4, <2>5 DEF Kid
<1>3. \/ Refused(t[p], c)
      \/ /\ Grows(t[p], 1, c)
         /\ t[p].type = "list" => c.node.at[2][c.node.length + 1] = length
         /\ t[p].type # "list" => ChildrenReady(t, p)
  BY <1>1, <1>2, FinishNode
<1> HIDE DEF c, length
<1>4. ASSUME NEW u, Alikes(t, u), Lengthened(t, u), u[p] = c.node, Grows(t[p], 1, c),
             \A q \in 1..Len(t) : q # p => u[q] = t[q]
      PROVE  FitsAt(u, p)
  <2>1. ~Refused(t[p], c)
    BY <1>4 DEF Refused, Spoilt, Stays, Grows
  <2>2. /\ t[p].type = "list" => u[p].at[2][u[p].length + 1] = length
        /\ t[p].type # "list" => ChildrenReady(t, p)
    BY <1>3, <1>4, <2>1
  <2>3. u[p].length = t[p].length + 1 /\ u[p].type = t[p].type /\ u[p].kids = t[p].kids
    BY <1>4 DEF Grows, Same
  <2>4. CASE t[p].type = "list"
    <3>1. 1 \in 1..Len(t[p].kids)
      BY <1>1, <2>4, FirstKid
    <3>2. length <= Kid(u, p, 1).length
      BY <1>1, <1>4, <3>1, KidsLonger DEF length
    <3> QED
      BY <2>2, <2>3, <2>4, <3>2 DEF FitsAt
  <2>5. CASE t[p].type = "fixed_size_list"
    <3>1. 1 \in 1..Len(t[p].kids)
      BY <1>1, <2>5, FirstKid
    <3>2. Kid(t, p, 1).length = (t[p].length + 1) * ListSize
      BY <2>2, <2>5 DEF ChildrenReady
    <3>3. Kid(t, p, 1).length <= Kid(u, p, 1).length
      BY <1>1, <1>4, <3>1, KidsLonger
    <3>4. u[p].length * ListSize <= Kid(u, p, 1).length
      BY <2>3, <3>2, <3>3
    <3> QED
      BY <2>3, <2>5, <3>4 DEF FitsAt
  <2>6. CASE t[p].type = "struct"
    <3>1. \A k \in DOMAIN t[p].kids : Kid(t, p, k).length = t[p].length + 1
      BY <2>2, <2>6 DEF ChildrenReady
    <3>2. DOMAIN t[p].kids = 1..Len(t[p].kids)
      BY <1>1 DEF Arranged, KidsBelow
    <3>3. \A k \in 1..Len(t[p].kids) : Kid(t, p, k).length <= Kid(u, p, k).length
      BY <1>1, <1>4, KidsLonger
    <3>4. \A k \in 1..Len(t[p].kids) : u[p].length <= Kid(u, p, k).length
      BY <2>3, <3>1, <3>2, <3>3
    <3> QED
      BY <2>3, <2>6, <3>4 DEF FitsAt
  <2>7. CASE t[p].type \notin {"list", "fixed_size_list", "struct"}
    <3>1. ~ChildrenReady(t, p)
      BY <2>7 DEF ChildrenReady
    <3> QED
      BY <2>2, <2>7, <3>1
  <2> QED
    BY <2>4, <2>5, <2>6, <2>7
<1>5. Lands(t, OnNode(t, p, c))
  BY <1>3, <1>4, NodeLands
<1> QED
  BY <1>5 DEF c

(* ArrowArrayFinishUnionElement: the visits. *)
Behind(t, p, id) == {q \in Others(t, p, id) : t[q].length = t[p].length}
(* The other children that are neither as long as the union nor one        *)
(* longer.                                                                 *)
Wrong(t, p, id) == Others(t, p, id) \ Behind(t, p, id)
(* What the children that lag behind are asked for: one empty element. *)
UnionAsks(t, p, id) == Asked(t, [q \in Behind(t, p, id) |-> [n |-> 1, is_valid |-> 1]])
(* The visit of a node by ArrowArrayFinishUnionElement. *)
UnionVisit(t, p, id, place, q) ==
  IF q = p THEN UnionElement(t, p, id, FailsAt(place, p))
  ELSE IF q \in Wrong(t, p, id) THEN Refuse(Begin(t[q], 0), "EINVAL")
  ELSE EmptyAt(t, q, UnionAsks(t, p, id), place)
(* Its visits to all nodes. *)
UnionVisits(t, p, id, place) == [q \in DOMAIN t |-> UnionVisit(t, p, id, place, q)]
(* FinishUnionElement makes these visits. *)
LEMMA UnionVisited ==
  ASSUME NEW t, NEW p, NEW id, NEW place
  PROVE  FinishUnionElement(t, p, id, place)
         = IF ~IsUnion(t[p]) \/ id + 1 \notin DOMAIN t[p].kids
           THEN OnNode(t, p, Refuse(Begin(t[p], 0), "EINVAL"))
           ELSE BottomUp(t, UnionVisits(t, p, id, place))
BY Zenon DEF FinishUnionElement, UnionVisits, UnionVisit, UnionAsks, Wrong, Behind

(* The other children lie below the union. *)
LEMMA OthersAre ==
  ASSUME NEW t, Arranged(t), NEW p \in 1..Len(t), NEW id, NEW q \in Others(t, p, id)
  PROVE  q \in 1..Len(t) /\ t[q].up = p /\ q > p
<1>1. PICK k \in DOMAIN t[p].kids : q = t[p].kids[k]
  BY DEF Others
<1>2. k \in 1..Len(t[p].kids)
  BY DEF Arranged, KidsBelow
<1> QED
  BY <1>1, <1>2 DEF Arranged, KidsBelow

(* Only what lies below the union is asked for anything, and hands it      *)
(* down.                                                                   *)
LEMMA UnionAsksAre ==
  ASSUME NEW t, Arranged(t), NEW p \in 1..Len(t), NEW id
  PROVE  LET f == UnionAsks(t, p, id) IN
           /\ \A q \in 1..Len(t) : IsAsk(f[q])
           /\ \A q \in Behind(t, p, id) : f[q].n = 1
           /\ \A q \in 1..Len(t) : q <= p => f[q].n = 0
           /\ \A q \in 1..Len(t) : q # p /\ f[q].n # 0 => \A k \in 1..Len(t[q].kids) :
                /\ t[q].type \in {"struct", "sparse_union"} => f[t[q].kids[k]].n = f[q].n
                /\ t[q].type = "fixed_size_list" => f[t[q].kids[k]].n = f[q].n * ListSize
<1> DEFINE a == [n |-> 1, is_valid |-> 1]
           B == Behind(t, p, id)
           first == [q \in B |-> a]
           f == UnionAsks(t, p, id)
<1>1. f = Asked(t, first)
  BY DEF UnionAsks
<1>2. IsAsk(a) /\ a.n = 1
  BY DEF IsAsk, Flags
<1>3. \A q \in B : q \in 1..Len(t) /\ t[q].up = p /\ q > p
  BY OthersAre DEF Behind
<1> HIDE DEF a, B, f
<1>4. DOMAIN first = B /\ \A q \in B : first[q] = a
  OBVIOUS
<1> HIDE DEF first
<1>5. \A q \in DOMAIN first : IsAsk(first[q])
  BY <1>2, <1>4
<1>6. \A q \in 1..Len(t) : AskRule(t, first, f, q) /\ IsAsk(f[q])
  <2>1. LET g == Asked(t, first) IN \A q \in 1..Len(t) : AskRule(t, first, g, q) /\ IsAsk(g[q])
    BY <1>5, AsksIs
  <2> QED
    BY <1>1, <2>1
<1>7. \A q \in B : f[q].n = 1
  BY <1>2, <1>3, <1>4, <1>6 DEF AskRule
<1>8. \A q \in 1..Len(t) : q <= p => f[q].n = 0
  <2>1. p \in Nat /\ \A q \in DOMAIN first : q \in Nat /\ q > p
    BY <1>3, <1>4
  <2>2. \A q \in 1..Len(t) : q <= p => Asked(t, first)[q] = NoElements
    BY <1>5, <2>1, AsksNone
  <2> QED
    BY <1>1, <2>2 DEF NoElements
<1>9. ASSUME NEW q \in 1..Len(t), q # p, f[q].n # 0, NEW k \in 1..Len(t[q].kids)
      PROVE  /\ t[q].type \in {"struct", "sparse_union"} => f[t[q].kids[k]].n = f[q].n
             /\ t[q].type = "fixed_size_list" => f[t[q].kids[k]].n = f[q].n * ListSize
  <2>1. t[q].kids[k] \notin DOMAIN first
    <3>1. t[t[q].kids[k]].up = q
      BY DEF Arranged, KidsBelow
    <3> QED
      BY <1>3, <1>4, <1>9, <3>1
  <2>2. Asked(t, first)[q].n # 0
    BY <1>1, <1>9
  <2>3. t[q].type \in {"struct", "sparse_union"} => Asked(t, first)[t[q].kids[k]].n = Asked(t, first)[q].n
    BY <1>5, <2>1, <2>2, KidAsked
  <2>4. t[q].type = "fixed_size_list" => Asked(t, first)[t[q].kids[k]].n = Asked(t, first)[q].n * ListSize
    BY <1>5, <2>1, <2>2, KidAsked
  <2> QED
    BY <1>1, <2>3, <2>4
<1> QED
  BY <1>6, <1>7, <1>8, <1>9 DEF f, B

(* What each visit gives its node. *)
UnionNews(t, p, id) ==
  [q \in 1..Len(t) |-> IF q = p THEN 1 ELSE IF q \in Wrong(t, p, id) THEN 0 ELSE UnionAsks(t, p, id)[q].n]
(* Each visit appends what was asked. *)
LEMMA UnionSteps ==
  ASSUME NEW t, InOrder(t), NEW p \in 1..Len(t), NEW id, IsUnion(t[p]), NEW place, NEW q \in 1..Len(t)
  PROVE  LET n == UnionNews(t, p, id)[q]
             d == UnionVisit(t, p, id, place, q)
         IN  /\ n \in Nat /\ Step(t[q], n, d)
             /\ q # p /\ d.err = "OK" => LastStays(t[q], d.node) /\ n = UnionAsks(t, p, id)[q].n
<1> DEFINE n == UnionNews(t, p, id)[q]
           f == UnionAsks(t, p, id)
           d == UnionVisit(t, p, id, place, q)
           Ended(m, c) == m \in Nat /\ Step(t[q], m, c) /\ (q # p /\ c.err = "OK" => LastStays(t[q], c.node) /\ m = f[q].n)
<1>1. n = IF q = p THEN 1 ELSE IF q \in Wrong(t, p, id) THEN 0 ELSE f[q].n
  BY DEF UnionNews
<1>2. IsNode(t[q]) /\ Filled(t[q]) /\ Arranged(t)
  BY DEF InOrder
<1>3. IsAsk(f[q])
  BY <1>2, UnionAsksAre
<1>4. ASSUME q = p PROVE Ended(n, d)
  <2> DEFINE e == UnionNode(t[p], id, Kid(t, p, id + 1).length, FailsAt(place, p))
  <2>1. d = e
    BY <1>4, UnionElementNode DEF UnionVisit
  <2>2. Finished(t[p], e)
    BY <1>2, <1>4, UnionNodeIs
  <2>3. n = 1
    BY <1>1, <1>4
  <2> HIDE DEF e, d, n
  <2>4. Step(t[p], 1, e)
    BY <2>2 DEF Finished, Grows, Moves, Step
  <2> QED
    BY <1>4, <2>1, <2>3, <2>4
<1>5. ASSUME q # p, q \in Wrong(t, p, id) PROVE Ended(n, d)
  <2> DEFINE e == Refuse(Begin(t[q], 0), "EINVAL")
  <2>1. d = e
    BY <1>5 DEF UnionVisit
  <2>2. Stays(t[q], e)
    BY RefusalStays
  <2>3. n = 0
    BY <1>1, <1>5
  <2> HIDE DEF e, d, n
  <2>4. Step(t[q], 0, e) /\ e.err # "OK"
    BY <2>2 DEF Step, Refused, Stays
  <2> QED
    BY <2>1, <2>3, <2>4
<1>6. ASSUME q # p, q \notin Wrong(t, p, id) PROVE Ended(n, d)
  <2> DEFINE e == EmptyAt(t, q, f, place)
  <2>1. d = e
    BY <1>6 DEF UnionVisit
  <2>2. Step(t[q], f[q].n, e) /\ (e.err = "OK" => LastStays(t[q], e.node))
    BY <1>2, <1>3, EmptyAtIs
  <2>3. n = f[q].n /\ f[q].n \in Nat
    BY <1>1, <1>3, <1>6 DEF IsAsk
  <2> HIDE DEF e, d, n, f
  <2> QED
    BY <2>1, <2>2, <2>3
<1> HIDE DEF n, d, f, Ended
<1>7. Ended(n, d)
  BY <1>4, <1>5, <1>6
<1> QED
  BY <1>7 DEF Ended, n, d, f

(* What a node below the union is asked for it asks of its children. *)
LEMMA UnionHandsDown ==
  ASSUME NEW t, Arranged(t), NEW p \in 1..Len(t), NEW id, NEW q \in 1..Len(t), q # p,
         UnionNews(t, p, id)[q] = UnionAsks(t, p, id)[q].n
  PROVE  HandsDown(t, UnionNews(t, p, id), q)
<1> DEFINE f == UnionAsks(t, p, id)
           ns == UnionNews(t, p, id)
<1>1. SUFFICES ASSUME ns[q] # 0, NEW k \in 1..Len(t[q].kids)
               PROVE  /\ t[q].type \in {"struct", "sparse_union"} => ns[t[q].kids[k]] = ns[q]
                      /\ t[q].type = "fixed_size_list" => ns[t[q].kids[k]] = ns[q] * ListSize
  BY DEF HandsDown
<1> DEFINE z == t[q].kids[k]
<1>2. /\ q <= p => f[q].n = 0
      /\ q # p /\ f[q].n # 0 =>
           /\ t[q].type \in {"struct", "sparse_union"} => f[z].n = f[q].n
           /\ t[q].type = "fixed_size_list" => f[z].n = f[q].n * ListSize
  BY UnionAsksAre
<1>3. z \in 1..Len(t) /\ t[z].up = q /\ z > q
  BY DEF Arranged, KidsBelow
<1>4. f[q].n # 0 /\ ns[q] = f[q].n
  BY <1>1
<1> HIDE DEF f
<1>5. ns[z] = f[z].n
  <2>1. z # p
    BY <1>2, <1>3, <1>4
  <2>2. z \notin Wrong(t, p, id)
    <3>1. z \notin Others(t, p, id)
      BY <1>3, OthersAre
    <3> QED
      BY <3>1 DEF Wrong
  <2> HIDE DEF z
  <2> QED
    BY <1>3, <2>1, <2>2 DEF UnionNews, f
<1> HIDE DEF ns, z
<1>6. /\ t[q].type \in {"struct", "sparse_union"} => ns[z] = ns[q]
      /\ t[q].type = "fixed_size_list" => ns[z] = ns[q] * ListSize
  BY <1>2, <1>4, <1>5
<1> QED
  BY <1>6 DEF z

(* The children have an element more, all of them. *)
LEMMA UnionFits ==
  ASSUME NEW t, InOrder(t), NEW p \in 1..Len(t), NEW id, NEW place,
         t[p].type = "sparse_union", id + 1 \in DOMAIN t[p].kids, HasElement(t, p, id),
         NEW u, Alikes(t, u), Lengthened(t, u), u[p].length = t[p].length + 1,
         \A k \in 1..Len(t[p].kids) :
           /\ UnionVisit(t, p, id, place, t[p].kids[k]).err = "OK"
           /\ Kid(u, p, k).length = Kid(t, p, k).length + UnionNews(t, p, id)[t[p].kids[k]]
  PROVE  FitsAt(u, p)
<1>1. Arranged(t) /\ FitsAt(t, p)
  BY DEF InOrder
<1>2. u[p].type = t[p].type /\ u[p].kids = t[p].kids
  BY DEF Alikes, Same
<1>3. t[p].length \in Nat
  BY DEF Lengthened
<1>4. DOMAIN t[p].kids = 1..Len(t[p].kids)
  BY <1>1 DEF Arranged, KidsBelow
<1>5. ASSUME NEW k \in 1..Len(t[p].kids) PROVE t[p].length + 1 <= Kid(u, p, k).length
  <2> DEFINE q == t[p].kids[k]
             a == Kid(t, p, k).length
             b == Kid(u, p, k).length
  <2>1. a \in Nat /\ b \in Nat /\ a <= b
    BY <1>1, KidsLonger
  <2>2. UnionVisit(t, p, id, place, q).err = "OK" /\ b = a + UnionNews(t, p, id)[q]
    OBVIOUS
  <2>3. q \in 1..Len(t) /\ q # p /\ t[q].length = a
    BY <1>1 DEF Arranged, KidsBelow, Kid
  <2> DEFINE d == UnionVisit(t, p, id, place, q)
  <2>4. CASE k = id + 1
    <3>1. IsUnion(t[p]) /\ Kid(t, p, id + 1).length = a
      BY <2>4 DEF IsUnion
    <3> HIDE DEF a
    <3>2. a > t[p].length
      BY <3>1 DEF HasElement
    <3> HIDE DEF b
    <3> QED
      BY <1>3, <2>1, <3>2 DEF b
  <2>5. CASE k # id + 1 /\ a # t[p].length + 1
    <3>1. q \in Others(t, p, id)
      BY <1>4, <2>5 DEF Others
    <3>2. q \notin Wrong(t, p, id)
      <4> SUFFICES ASSUME q \in Wrong(t, p, id) PROVE FALSE
        OBVIOUS
      <4> DEFINE e == Refuse(Begin(t[q], 0), "EINVAL")
      <4>1. d = e
        BY <2>3 DEF UnionVisit
      <4>2. e.err = "EINVAL"
        BY DEF Refuse, Begin
      <4> HIDE DEF e, q
      <4>3. d.err = "OK"
        BY <2>2
      <4> HIDE DEF d
      <4> QED
        BY <4>1, <4>2, <4>3
    <3>3. q \in Behind(t, p, id) /\ a = t[p].length
      <4>1. q \in Behind(t, p, id)
        BY <3>1, <3>2 DEF Wrong
      <4> QED
        BY <2>3, <4>1 DEF Behind
    <3>4. UnionAsks(t, p, id)[q].n = 1
      BY <1>1, <3>3, UnionAsksAre
    <3>5. UnionNews(t, p, id)[q] = 1
      <4> HIDE DEF q
      <4> QED
        BY <2>3, <3>2, <3>4 DEF UnionNews
    <3> HIDE DEF a, q
    <3>6. b = t[p].length + 1
      BY <2>2, <3>3, <3>5
    <3> HIDE DEF b
    <3> QED
      BY <1>3, <3>6 DEF b
  <2>6. CASE a = t[p].length + 1
    <3> HIDE DEF a, b
    <3> QED
      BY <2>1, <2>6 DEF b
  <2> QED
    BY <2>4, <2>5, <2>6
<1> QED
  BY <1>2, <1>5 DEF FitsAt

(* ArrowArrayFinishUnionElement leaves the tree in order, if an element    *)
(* was appended to the child it names (nanoarrow.h:3837).                  *)
LEMMA UnionLands ==
  ASSUME NEW t, InOrder(t), NEW p \in 1..Len(t), NEW id, HasElement(t, p, id), NEW place
  PROVE  Lands(t, FinishUnionElement(t, p, id, place))
<1> DEFINE N == Len(t)
           did == UnionVisits(t, p, id, place)
           r == BottomUp(t, did)
           ns == UnionNews(t, p, id)
           refused == Refuse(Begin(t[p], 0), "EINVAL")
<1>1. /\ Arranged(t) /\ DOMAIN t = 1..N /\ N \in Nat /\ \A q \in DOMAIN t : t[q].last \in Nat
  <2>1. Arranged(t) /\ DOMAIN t = 1..N /\ N \in Nat
    BY DEF InOrder, Arranged
  <2>2. \A q \in 1..N : t[q].last \in q..N
    BY <2>1 DEF Arranged
  <2> HIDE DEF N
  <2> QED
    BY <2>1, <2>2
<1>2. ASSUME ~IsUnion(t[p]) \/ id + 1 \notin DOMAIN t[p].kids
      PROVE  Lands(t, FinishUnionElement(t, p, id, place))
  <2>1. FinishUnionElement(t, p, id, place) = OnNode(t, p, refused)
    BY <1>2, UnionVisited
  <2>2. Stays(t[p], refused)
    BY RefusalStays
  <2> HIDE DEF refused
  <2>3. Refused(t[p], refused) /\ ~Grows(t[p], 1, refused)
    BY <2>2 DEF Refused, Stays, Grows
  <2>4. Lands(t, OnNode(t, p, refused))
    BY <2>3, NodeLands
  <2> QED
    BY <2>1, <2>4
<1>3. ASSUME IsUnion(t[p]), id + 1 \in DOMAIN t[p].kids PROVE Lands(t, r)
  <2>1. \A q \in 1..N : did[q] = UnionVisit(t, p, id, place, q)
    BY <1>1 DEF UnionVisits
  <2> HIDE DEF did, r
  <2>2. PICK R : Outcome(t, did, r, R) /\ DoneFirst(t, did, R)
    <3>1. \E R : /\ Outcome(t, did, BottomUp(t, did), R)
                 /\ \A a \in R, q \in DOMAIN t : DoneBefore(t, q, a) => q \in R /\ did[q].err = "OK"
      <4> HIDE DEF N
      <4> QED
        BY <1>1, BottomUpIs
    <3> QED
      BY <3>1 DEF DoneFirst, r
  <2>3. ASSUME NEW q \in 1..N
        PROVE  /\ ns[q] \in Nat /\ Step(t[q], ns[q], did[q])
               /\ q # p /\ did[q].err = "OK" => LastStays(t[q], did[q].node) /\ ns[q] = UnionAsks(t, p, id)[q].n
    <3> DEFINE d == UnionVisit(t, p, id, place, q)
    <3>1. /\ ns[q] \in Nat /\ Step(t[q], ns[q], d)
          /\ q # p /\ d.err = "OK" => LastStays(t[q], d.node) /\ ns[q] = UnionAsks(t, p, id)[q].n
      BY <1>3, UnionSteps
    <3>2. did[q] = d
      BY <2>1
    <3> HIDE DEF d, ns
    <3> QED
      BY <3>1, <3>2
  <2>4. ns[p] = 1
    BY DEF UnionNews
  <2>5. ASSUME r.err # "ENOMEM", Lengthened(t, r.tree), Alikes(t, r.tree),
               NEW q \in R, r.tree[q] = did[q].node, Moves(t[q], ns[q], did[q])
        PROVE  FitsAt(r.tree, q)
    <3>1. q \in 1..N /\ did[q].err = "OK"
      BY <1>1, <2>2, <2>5 DEF Outcome, Moves
    <3>2. \A z \in 1..Len(t) : ns[z] \in Nat /\ Step(t[z], ns[z], did[z])
      BY <2>3
    <3> HIDE DEF ns
    <3>3. CASE q # p
      <4>1. LastStays(t[q], did[q].node) /\ ns[q] = UnionAsks(t, p, id)[q].n
        BY <2>3, <3>1, <3>3
      <4>2. HandsDown(t, ns, q)
        BY <1>1, <3>1, <3>3, <4>1, UnionHandsDown DEF ns
      <4> QED
        BY <2>2, <2>5, <3>2, <4>1, <4>2, EmptyFits
    <3>4. CASE q = p /\ t[p].type = "sparse_union"
      <4> DEFINE u == r.tree
      <4>1. u[p].length = t[p].length + 1
        BY <2>4, <2>5, <3>4 DEF Moves
      <4>2. \A k \in 1..Len(t[p].kids) :
              did[t[p].kids[k]].err = "OK" /\ Kid(u, p, k).length = Kid(t, p, k).length + ns[t[p].kids[k]]
        <5>1. p \in R /\ \A z \in 1..Len(t) : Step(t[z], ns[z], did[z])
          BY <2>5, <3>2, <3>4
        <5>2. Arranged(t) /\ Outcome(t, did, r, R) /\ DoneFirst(t, did, R) /\ r.err # "ENOMEM" /\ Alikes(t, r.tree)
          BY <1>1, <2>2, <2>5
        <5> HIDE DEF N
        <5> SUFFICES ASSUME NEW k \in 1..Len(t[p].kids)
                     PROVE  /\ did[t[p].kids[k]].err = "OK"
                            /\ Kid(u, p, k).length = Kid(t, p, k).length + ns[t[p].kids[k]]
          OBVIOUS
        <5> QED
          BY <5>1, <5>2, KidsMoved
      <4>3. \A k \in 1..Len(t[p].kids) : did[t[p].kids[k]] = UnionVisit(t, p, id, place, t[p].kids[k])
        BY <1>1, <2>1 DEF Arranged, KidsBelow
      <4>4. \A k \in 1..Len(t[p].kids) :
              /\ UnionVisit(t, p, id, place, t[p].kids[k]).err = "OK"
              /\ Kid(u, p, k).length = Kid(t, p, k).length + UnionNews(t, p, id)[t[p].kids[k]]
        BY <4>2, <4>3 DEF ns
      <4>5. Alikes(t, u) /\ Lengthened(t, u)
        BY <2>5
      <4> HIDE DEF u
      <4>6. FitsAt(u, p)
        BY <1>3, <3>4, <4>1, <4>4, <4>5, UnionFits
      <4> QED
        BY <3>4, <4>6 DEF u
    <3>5. CASE q = p /\ t[p].type # "sparse_union"
      <4>1. t[p].type = "dense_union"
        BY <1>3, <3>5 DEF IsUnion
      <4> QED
        BY <2>5, <3>5, <4>1, FitsAlone
    <3> QED
      BY <3>3, <3>4, <3>5
  <2>6. \A q \in 1..Len(t) : ns[q] \in Nat /\ Step(t[q], ns[q], did[q])
    BY <2>3
  <2> HIDE DEF N, ns
  <2> QED
    BY <2>2, <2>5, <2>6, LandsIf
<1>4. IsUnion(t[p]) /\ id + 1 \in DOMAIN t[p].kids => FinishUnionElement(t, p, id, place) = r
  BY UnionVisited
<1> QED
  BY <1>2, <1>3, <1>4

(* Calls that change the room of the buffers of every node. *)
LEMMA WentSteps ==
  ASSUME NEW x, IsNode(x), NEW f, NEW d, Went(x, f, d)
  PROVE  /\ Sound(x, d) /\ d.wild = FALSE
         /\ d.err # "OK" => d.err = "ENOMEM"
         /\ d.err = "OK" => Eased(x, d.node)
         /\ Filled(x) => Step(x, 0, d)
<1>1. ASSUME Spoilt(x, d) PROVE Sound(x, d) /\ d.wild = FALSE /\ d.err = "ENOMEM" /\ Step(x, 0, d)
  BY <1>1 DEF Spoilt, Sound, Step, Refused
<1>2. ASSUME NEW y, d = Begin(y, f), Eased(x, y)
      PROVE  Sound(x, d) /\ d.wild = FALSE /\ d.err = "OK" /\ Eased(x, d.node) /\ (Filled(x) => Step(x, 0, d))
  <2>1. d.node = y /\ d.err = "OK" /\ d.wild = FALSE
    BY <1>2 DEF Begin
  <2>2. Same(x, y) /\ IsNode(y) /\ y.length = x.length /\ y.sizes = x.sizes
    BY <1>2 DEF Eased
  <2>3. x.length + 0 = x.length
    <3>1. x.length \in Nat
      BY NodeHas
    <3> QED
      BY <3>1
  <2>4. Filled(x) => Filled(y)
    BY <1>2, EasedFilled
  <2>5. Filled(x) => Moves(x, 0, d)
    BY <2>1, <2>2, <2>3, <2>4 DEF Moves
  <2> QED
    BY <1>2, <2>1, <2>2, <2>5 DEF Sound, Step
<1> QED
  BY <1>1, <1>2 DEF Went, Spoilt

(* Whatever state the nodes are in ... *)
KeepsNodes(t, r) ==
  /\ Alikes(t, r.tree) /\ r.wild = FALSE /\ \A p \in 1..Len(t) : IsNode(r.tree[p])
(* A call that only changes capacities keeps every node. *)
LEMMA WentKeeps ==
  ASSUME NEW t, Arranged(t), \A p \in 1..Len(t) : IsNode(t[p]), NEW did, NEW fails,
         \A p \in 1..Len(t) : Went(t[p], fails[p], did[p])
  PROVE  KeepsNodes(t, TopDown(t, did))
<1> DEFINE r == TopDown(t, did)
<1>1. DOMAIN t = 1..Len(t) /\ Len(t) \in Nat
  BY DEF Arranged
<1>2. PICK R : Outcome(t, did, r, R)
  BY <1>1, TopDownIs
<1> HIDE DEF r
<1>3. \A p \in 1..Len(t) : Sound(t[p], did[p]) /\ did[p].wild = FALSE
  BY WentSteps
<1>4. Alikes(t, r.tree) /\ \A p \in 1..Len(t) : IsNode(r.tree[p])
  BY <1>2, <1>3, SoundTree
<1>5. r.wild = FALSE
  <2>1. \A p \in R : did[p].wild = FALSE
    BY <1>1, <1>2, <1>3 DEF Outcome
  <2> QED
    BY <1>2, <2>1 DEF Outcome
<1> QED
  BY <1>4, <1>5 DEF KeepsNodes, r

(* ... and those that are in order. *)
Easing(t, r) ==
  /\ r.err # "OK" => r.err = "ENOMEM"
  /\ r.err = "OK" => \A p \in 1..Len(t) : Eased(t[p], r.tree[p])
(* And it leaves the order, or runs out of memory. *)
LEMMA WentLands ==
  ASSUME NEW t, InOrder(t), NEW did, NEW fails,
         \A p \in 1..Len(t) : Went(t[p], fails[p], did[p])
  PROVE  /\ Lands(t, TopDown(t, did)) /\ Easing(t, TopDown(t, did))
         /\ TopDown(t, did).err = "OK" => \A p \in 1..Len(t) :
              TopDown(t, did).tree[p] = did[p].node /\ did[p].err = "OK"
<1> DEFINE r == TopDown(t, did)
           ns == [p \in 1..Len(t) |-> 0]
<1>1. DOMAIN t = 1..Len(t) /\ Len(t) \in Nat /\ Arranged(t)
  BY DEF InOrder, Arranged
<1>2. PICK R : Outcome(t, did, r, R)
  BY <1>1, TopDownIs
<1> HIDE DEF r
<1>3. \A p \in 1..Len(t) : IsNode(t[p]) /\ Filled(t[p]) /\ FitsAt(t, p)
  BY DEF InOrder
<1>4. ASSUME NEW p \in 1..Len(t)
      PROVE  /\ ns[p] = 0 /\ ns[p] \in Nat /\ Step(t[p], ns[p], did[p])
             /\ did[p].err # "OK" => did[p].err = "ENOMEM"
             /\ did[p].err = "OK" => Eased(t[p], did[p].node)
  <2>1. ns[p] = 0
    OBVIOUS
  <2> HIDE DEF ns
  <2>2. Went(t[p], fails[p], did[p]) /\ IsNode(t[p]) /\ Filled(t[p])
    BY <1>3
  <2>3. Step(t[p], 0, did[p])
    BY <2>2, WentSteps
  <2>4. did[p].err # "OK" => did[p].err = "ENOMEM"
    BY <2>2, WentSteps
  <2>5. did[p].err = "OK" => Eased(t[p], did[p].node)
    BY <2>2, WentSteps
  <2> QED
    BY <2>1, <2>3, <2>4, <2>5
<1> HIDE DEF ns
<1>5. ASSUME r.err # "ENOMEM", Lengthened(t, r.tree), Alikes(t, r.tree),
             NEW p \in R, r.tree[p] = did[p].node, Moves(t[p], ns[p], did[p])
      PROVE  FitsAt(r.tree, p)
  <2> DEFINE u == r.tree
  <2>1. p \in 1..Len(t)
    BY <1>1, <1>2 DEF Outcome
  <2>2. Eased(t[p], u[p])
    BY <1>4, <1>5, <2>1 DEF Moves
  <2>3. u[p].length = t[p].length /\ u[p].at = t[p].at
    BY <2>2 DEF Eased
  <2>4. \A q \in 1..Len(t) : t[q].length \in Nat /\ u[q].length \in Nat /\ t[q].length <= u[q].length
    BY <1>5 DEF Lengthened
  <2>5. Alikes(t, u)
    BY <1>5
  <2> HIDE DEF u
  <2>6. FitsAt(u, p)
    BY <1>1, <1>3, <2>1, <2>3, <2>4, <2>5, FitsStay
  <2> QED
    BY <2>6 DEF u
<1>6. Lands(t, r)
  <2>1. \A p \in 1..Len(t) : ns[p] \in Nat /\ Step(t[p], ns[p], did[p])
    BY <1>4
  <2> QED
    BY <1>2, <1>5, <2>1, LandsIf
<1>7. ASSUME r.err # "OK" PROVE r.err = "ENOMEM"
  <2>1. PICK p \in R : did[p].err = r.err
    BY <1>2, <1>7 DEF Outcome
  <2> QED
    BY <1>1, <1>2, <1>4, <1>7, <2>1 DEF Outcome
<1>8. ASSUME r.err = "OK", NEW p \in 1..Len(t) PROVE r.tree[p] = did[p].node /\ did[p].err = "OK" /\ Eased(t[p], r.tree[p])
  <2>1. R = 1..Len(t) /\ Failed(t, did) = {}
    BY <1>1, <1>2, <1>8 DEF Outcome
  <2>2. r.tree = [q \in 1..Len(t) |-> IF q \in R THEN did[q].node ELSE t[q]]
    BY <1>1, <1>2 DEF Outcome
  <2>3. did[p].err = "OK"
    BY <1>1, <2>1 DEF Failed
  <2>4. r.tree[p] = did[p].node
    BY <2>1, <2>2
  <2> QED
    BY <1>4, <2>3, <2>4
<1> QED
  BY <1>6, <1>7, <1>8 DEF r, Easing

(* ArrowArrayShrinkToFit leaves the tree in order and only changes         *)
(* capacities.                                                             *)
LEMMA ShrinkLands ==
  ASSUME NEW t, InOrder(t), NEW place
  PROVE  Lands(t, ShrinkToFit(t, place)) /\ Easing(t, ShrinkToFit(t, place))
<1> DEFINE did == [p \in DOMAIN t |-> OnBuffers(Begin(t[p], FailsAt(place, p)), ShrinkBuffer)]
           fails == [p \in 1..Len(t) |-> FailsAt(place, p)]
<1>1. ShrinkToFit(t, place) = TopDown(t, did)
  BY Zenon DEF ShrinkToFit
<1>2. DOMAIN t = 1..Len(t) /\ \A p \in 1..Len(t) : IsNode(t[p])
  BY DEF InOrder, Arranged
<1>3. \A p \in 1..Len(t) : Went(t[p], fails[p], did[p])
  <2> SUFFICES ASSUME NEW p \in 1..Len(t) PROVE Went(t[p], fails[p], did[p])
    OBVIOUS
  <2>1. fails[p] = FailsAt(place, p)
    OBVIOUS
  <2> HIDE DEF fails
  <2>2. did[p] = OnBuffers(Begin(t[p], fails[p]), ShrinkBuffer)
    BY <1>2, <2>1, Zenon
  <2> HIDE DEF did
  <2>3. Went(t[p], fails[p], OnBuffers(Begin(t[p], fails[p]), ShrinkBuffer))
    BY <1>2, ShrinkIs
  <2> QED
    BY <2>2, <2>3, Zenon
<1> HIDE DEF did, fails
<1>4. Lands(t, TopDown(t, did)) /\ Easing(t, TopDown(t, did))
  BY <1>3, WentLands
<1> QED
  BY <1>1, <1>4

(* ArrowArrayFinalizeBuffers keeps the nodes, and leaves the order of a    *)
(* tree in order.                                                          *)
LEMMA FinalizeGoes ==
  ASSUME NEW t, Arranged(t), \A p \in 1..Len(t) : IsNode(t[p]), NEW place
  PROVE  /\ KeepsNodes(t, FinalizeBuffers(t, place))
         /\ InOrder(t) => Lands(t, FinalizeBuffers(t, place)) /\ Easing(t, FinalizeBuffers(t, place))
<1> DEFINE did == [p \in DOMAIN t |-> OnBuffers(Begin(t[p], FailsAt(place, p)), Allocate)]
           fails == [p \in 1..Len(t) |-> FailsAt(place, p)]
<1>1. FinalizeBuffers(t, place) = TopDown(t, did)
  BY Zenon DEF FinalizeBuffers
<1>2. DOMAIN t = 1..Len(t)
  BY DEF Arranged
<1>3. \A p \in 1..Len(t) : Went(t[p], fails[p], did[p])
  <2> SUFFICES ASSUME NEW p \in 1..Len(t) PROVE Went(t[p], fails[p], did[p])
    OBVIOUS
  <2>1. fails[p] = FailsAt(place, p)
    OBVIOUS
  <2> HIDE DEF fails
  <2>2. did[p] = OnBuffers(Begin(t[p], fails[p]), Allocate)
    BY <1>2, <2>1, Zenon
  <2> HIDE DEF did
  <2>3. Went(t[p], fails[p], OnBuffers(Begin(t[p], fails[p]), Allocate))
    BY FinalizeIs
  <2> QED
    BY <2>2, <2>3, Zenon
<1> HIDE DEF did, fails
<1>4. InOrder(t) => Lands(t, TopDown(t, did)) /\ Easing(t, TopDown(t, did))
  BY <1>3, WentLands
<1>5. KeepsNodes(t, TopDown(t, did))
  BY <1>3, WentKeeps
<1> QED
  BY <1>1, <1>4, <1>5

---------------------------------------------------------------------------
(* The view that ArrowArrayReserve sets a length on.                       *)
SeenNode(x) ==
  [type |-> x.type, offset |-> 0, length |-> x.length, null_count |-> x.null_count,
   sizes |-> x.sizes, types |-> IF IsUnion(x) THEN ZeroBased(x.at[1]) ELSE <<>>,
   ints |-> IF Kind(x, 2) \in {"data_offset", "union_offset"} THEN ZeroBased(x.at[2]) ELSE <<>>,
   ids |-> NoMap, kids |-> x.kids, dict |-> x.dict, up |-> x.up, last |-> x.last]
(* The view of the array so far, as ArrowArrayViewSetArray would give it.  *)
ViewOf(t) == InitFromArray(Seen(t))
(* It is the view of each node. *)
LEMMA ViewOfIs ==
  ASSUME NEW t
  PROVE  ViewOf(t) = [p \in DOMAIN t |-> SeenNode(t[p])]
<1>1. DOMAIN Seen(t) = DOMAIN t
  BY DEF Seen
<1> SUFFICES ASSUME NEW p \in DOMAIN t
             PROVE  [type |-> Seen(t)[p].type, offset |-> Seen(t)[p].offset, length |-> Seen(t)[p].length,
                     null_count |-> Seen(t)[p].null_count, sizes |-> Seen(t)[p].sizes,
                     types |-> Seen(t)[p].types, ints |-> Seen(t)[p].ints, ids |-> NoMap,
                     kids |-> Seen(t)[p].kids, dict |-> Seen(t)[p].dict,
                     up |-> Seen(t)[p].up, last |-> Seen(t)[p].last] = SeenNode(t[p])
  BY <1>1 DEF ViewOf, InitFromArray
<1> DEFINE a == IF IsUnion(t[p]) THEN ZeroBased(t[p].at[1]) ELSE <<>>
           b == IF Kind(t[p], 2) \in {"data_offset", "union_offset"} THEN ZeroBased(t[p].at[2]) ELSE <<>>
<1>2. Seen(t)[p] = [type |-> t[p].type, offset |-> 0, length |-> t[p].length, null_count |-> t[p].null_count,
     sizes |-> t[p].sizes, types |-> a, ints |-> b,
     kids |-> t[p].kids, dict |-> t[p].dict, up |-> t[p].up, last |-> t[p].last]
  BY DEF Seen
<1>3. SeenNode(t[p]) = [type |-> t[p].type, offset |-> 0, length |-> t[p].length, null_count |-> t[p].null_count,
     sizes |-> t[p].sizes, types |-> a, ints |-> b, ids |-> NoMap,
     kids |-> t[p].kids, dict |-> t[p].dict, up |-> t[p].up, last |-> t[p].last]
  BY DEF SeenNode
<1> HIDE DEF a, b
<1> QED
  BY <1>2, <1>3

(* The lengths that ArrowArrayViewSetLength hands down, as a rule. *)
LengthRule(w, n, f, p) ==
  f[p] = IF p = 1 THEN n ELSE HandedDown(w[w[p].up], p, f[w[p].up])
(* The recursion over the tree is well founded: there is a function with   *)
(* that rule.                                                              *)
LEMMA LengthsExist ==
  ASSUME NEW w, NEW n, NEW N \in Nat, \A p \in 2..N : w[p].up \in 1..(p - 1)
  PROVE  \E f : /\ f = [p \in 1..N |-> f[p]]
                /\ \A p \in 1..N : LengthRule(w, n, f, p)
<1> DEFINE Good(k) == k <= N => \E f : f = [p \in 1..k |-> f[p]] /\ \A p \in 1..k : LengthRule(w, n, f, p)
           T == {k \in Nat : Good(k)}
<1>1. 0 \in T
  <2> DEFINE f == [p \in 1..0 |-> 0]
  <2>1. f = [p \in 1..0 |-> f[p]] /\ \A p \in 1..0 : LengthRule(w, n, f, p)
    OBVIOUS
  <2> HIDE DEF f
  <2>2. Good(0)
    BY <2>1
  <2> QED
    BY <2>2
<1>2. ASSUME NEW k \in T PROVE k + 1 \in T
  <2> SUFFICES ASSUME k + 1 <= N
               PROVE  \E f : f = [p \in 1..(k + 1) |-> f[p]] /\ \A p \in 1..(k + 1) : LengthRule(w, n, f, p)
    OBVIOUS
  <2>1. PICK g : g = [p \in 1..k |-> g[p]] /\ \A p \in 1..k : LengthRule(w, n, g, p)
    OBVIOUS
  <2> DEFINE j == k + 1
             new == IF j = 1 THEN n ELSE HandedDown(w[w[j].up], j, g[w[j].up])
             f == [p \in 1..j |-> IF p = j THEN new ELSE g[p]]
  <2>2. k \in Nat /\ j \in 1..j /\ j \in 1..N /\ \A p \in 1..k : p \in 1..j /\ p # j
    OBVIOUS
  <2>3. \A p \in 1..j : p # j => p \in 1..k
    OBVIOUS
  <2>4. \A p \in 1..j : p # 1 => w[p].up \in 1..k /\ w[p].up # p
    <3> SUFFICES ASSUME NEW p \in 1..j, p # 1 PROVE w[p].up \in 1..k /\ w[p].up # p
      OBVIOUS
    <3>1. p \in 2..N
      BY <2>2
    <3> QED
      BY <2>2, <3>1
  <2> HIDE DEF T, j, new
  <2>5. \A p \in 1..k : f[p] = g[p]
    BY <2>2
  <2>6. f[j] = new
    BY <2>2
  <2>7. f = [p \in 1..j |-> f[p]]
    OBVIOUS
  <2> HIDE DEF f
  <2>8. ASSUME NEW p \in 1..j PROVE LengthRule(w, n, f, p)
    <3>1. p # 1 => f[w[p].up] = g[w[p].up]
      BY <2>4, <2>5
    <3>2. CASE p = j
      BY <2>6, <3>1, <3>2 DEF LengthRule, new
    <3>3. CASE p # j
      <4>1. p \in 1..k /\ f[p] = g[p]
        BY <2>3, <2>5, <3>3
      <4>2. LengthRule(w, n, g, p)
        BY <2>1, <4>1
      <4> QED
        BY <3>1, <4>1, <4>2 DEF LengthRule
    <3> QED
      BY <3>2, <3>3
  <2> QED
    BY <2>7, <2>8 DEF j
<1>3. T \subseteq Nat
  OBVIOUS
<1>4. Nat \subseteq T
  <2> HIDE DEF T
  <2> QED
    BY <1>1, <1>2, <1>3, NatInduct
<1>5. Good(N)
  BY <1>4
<1> QED
  BY <1>5

(* What int64 arithmetic makes of an integer. *)
Int64s == (-Int64Max - 1)..Int64Max

LEMMA WrappedIs ==
  ASSUME NEW n \in Int
  PROVE  /\ Wrapped(n) \in Int64s
         /\ n \in Int64s => Wrapped(n) = n
         /\ n >= 0 => Wrapped(n) <= n
<1> DEFINE x == n + Int64Max + 1
           d == 2 * (Int64Max + 1)
<1>1. /\ x \in Int /\ d \in Nat /\ d > 0
      /\ n \in Int64s => x \in Nat /\ x < d
      /\ n >= 0 => x \in Nat
  BY ViewAssumption DEF Int64s
<1>2. Wrapped(n) = (x % d) - (Int64Max + 1) /\ n = x - (Int64Max + 1)
  BY ViewAssumption DEF Wrapped
<1>3. d = 2 * (Int64Max + 1)
  OBVIOUS
<1> HIDE DEF x, d
<1>4. /\ x % d \in 0..(d - 1) /\ (x \in Nat /\ x < d => x % d = x)
      /\ x \in Nat => x % d <= x
  BY <1>1, Remainder
<1> QED
  BY <1>1, <1>2, <1>3, <1>4, ViewAssumption DEF Int64s

(* What it asks of the child of a fixed-size list. *)
LEMMA InChildIs ==
  ASSUME NEW n \in Int
  PROVE  /\ InChild(n) \in Int /\ (n = 0 => InChild(n) = 0)
         /\ InChild(n) \in Int64s
         /\ n >= 0 /\ ListSize >= 0 => InChild(n) <= n * ListSize
<1> DEFINE m == n * ListSize
<1>1. ListSize \in Int /\ Int64Max \in Nat
  BY ViewAssumption
<1>2. m \in Int /\ (n = 0 => m = 0)
  BY <1>1
<1>3. n >= 0 /\ ListSize >= 0 => m >= 0
  <2> SUFFICES ASSUME n >= 0, ListSize >= 0 PROVE m >= 0
    OBVIOUS
  <2>1. n \in Nat /\ ListSize \in Nat
    BY <1>1
  <2> QED
    BY <2>1
<1> HIDE DEF m
<1>4. /\ Wrapped(m) \in Int64s /\ Wrapped(m) \in Int /\ (m >= 0 => Wrapped(m) <= m)
      /\ m = 0 => Wrapped(m) = 0
  BY <1>1, <1>2, WrappedIs DEF Int64s
<1> QED
  BY <1>2, <1>3, <1>4 DEF InChild, m

(* AskedLengths follows the rule. *)
LEMMA LengthAt ==
  ASSUME NEW t, Arranged(t), NEW n \in Int, NEW f, f = AskedLengths(ViewOf(t), n)
  PROVE  \A p \in 1..Len(t) : LengthRule(t, n, f, p) /\ f[p] \in Int
<1> DEFINE w == ViewOf(t)
           N == Len(t)
           Body(g) == [p \in DOMAIN w |-> IF p = 1 THEN n ELSE HandedDown(w[w[p].up], p, g[w[p].up])]
<1>1. f = CHOOSE g : g = Body(g)
  BY DEF AskedLengths
<1>2. w = [p \in DOMAIN t |-> SeenNode(t[p])]
  BY ViewOfIs
<1>3. DOMAIN t = 1..N /\ N \in Nat /\ \A p \in 1..N : p > 1 => t[p].up \in 1..(p - 1)
  BY DEF Arranged
<1>4. \A p \in 2..N : t[p].up \in 1..(p - 1) /\ t[p].up \in 1..N /\ p \in 1..N
  <2> HIDE DEF N
  <2> QED
    BY <1>3
<1> HIDE DEF w, N
<1>5. DOMAIN w = 1..N /\ \A p \in 1..N : w[p] = SeenNode(t[p])
  BY <1>2, <1>3
<1>6. \A p \in 1..N : w[p].up = t[p].up /\ w[p].type = t[p].type /\ w[p].kids = t[p].kids
  BY <1>5 DEF SeenNode
<1>7. \A p \in 2..N : w[p].up \in 1..(p - 1)
  BY <1>4, <1>6
<1>8. PICK g : g = [p \in 1..N |-> g[p]] /\ \A p \in 1..N : LengthRule(w, n, g, p)
  BY <1>3, <1>7, LengthsExist
<1>9. g = Body(g)
  BY <1>5, <1>8 DEF LengthRule
<1>10. f = Body(f)
  <2> HIDE DEF Body
  <2> QED
    BY <1>1, <1>9
<1>11. ASSUME NEW p \in 1..N
       PROVE  f[p] = IF p = 1 THEN n ELSE HandedDown(t[t[p].up], p, f[t[p].up])
  <2> DEFINE h == Body(f)
  <2>1. h[p] = IF p = 1 THEN n ELSE HandedDown(w[w[p].up], p, f[w[p].up])
    BY <1>5
  <2> HIDE DEF h
  <2>2. f = h
    BY <1>10 DEF h
  <2>3. f[p] = IF p = 1 THEN n ELSE HandedDown(w[t[p].up], p, f[t[p].up])
    BY <1>6, <2>1, <2>2
  <2>4. CASE p = 1
    BY <2>3, <2>4
  <2>5. CASE p # 1
    <3> DEFINE q == t[p].up
               m == f[q]
    <3>1. q \in 1..N
      <4>1. p \in 2..N
        BY <1>3, <2>5
      <4> QED
        BY <1>4, <4>1
    <3> HIDE DEF q, m
    <3>2. w[q].type = t[q].type /\ w[q].kids = t[q].kids
      BY <1>6, <3>1
    <3>3. HandedDown(w[q], p, m) = HandedDown(t[q], p, m)
      BY <3>2 DEF HandedDown, Follows, ChildLength
    <3> QED
      BY <2>3, <2>5, <3>3 DEF q, m
  <2> QED
    BY <2>4, <2>5
<1> DEFINE T == {k \in Nat : \A p \in 1..N : p <= k => f[p] \in Int}
<1>12. 0 \in T
  OBVIOUS
<1>13. ASSUME NEW k \in T PROVE k + 1 \in T
  <2> SUFFICES ASSUME NEW p \in 1..N, p <= k + 1 PROVE f[p] \in Int
    OBVIOUS
  <2>1. CASE p = 1
    BY <1>11, <2>1
  <2>2. CASE p # 1
    <3> DEFINE q == t[p].up
               m == f[q]
    <3>1. q \in 1..N /\ q \in 1..(p - 1)
      <4>1. p \in 2..N
        BY <1>3, <2>2
      <4> QED
        BY <1>4, <4>1
    <3>2. f[p] = HandedDown(t[q], p, m)
      BY <1>11, <2>2
    <3>3. m \in Int
      <4> HIDE DEF q
      <4>1. q <= k
        BY <3>1
      <4> QED
        BY <3>1, <4>1
    <3> HIDE DEF m, q
    <3>4. InChild(m) \in Int /\ NotAsked \in Int
      BY <3>3, InChildIs, ViewAssumption DEF NotAsked
    <3>5. HandedDown(t[q], p, m) \in Int
      BY <3>3, <3>4 DEF HandedDown, ChildLength
    <3> QED
      BY <3>2, <3>5
  <2> QED
    BY <2>1, <2>2
<1>14. T \subseteq Nat
  OBVIOUS
<1>15. Nat \subseteq T
  <2> HIDE DEF T
  <2> QED
    BY <1>12, <1>13, <1>14, NatInduct
<1>16. N \in T
  BY <1>3, <1>15
<1>17. \A p \in 1..N : f[p] \in Int
  BY <1>3, <1>16
<1> QED
  BY <1>11, <1>17 DEF N, LengthRule

(* The same, for the lengths a call asks for. *)
LEMMA LengthsAre ==
  ASSUME NEW t, Arranged(t), NEW n \in Int
  PROVE  LET f == AskedLengths(ViewOf(t), n) IN
           \A p \in 1..Len(t) :
             /\ f[p] = IF p = 1 THEN n ELSE HandedDown(t[t[p].up], p, f[t[p].up])
             /\ f[p] \in Int
<1> DEFINE f == AskedLengths(ViewOf(t), n)
<1>1. \A p \in 1..Len(t) : LengthRule(t, n, f, p) /\ f[p] \in Int
  BY LengthAt
<1> QED
  BY <1>1 DEF LengthRule

(* The bytes that n elements need, by type. *)
LEMMA NeededIs ==
  ASSUME NEW x, x.type \in Types, NEW m \in Nat
  PROVE  /\ \A b \in 1..3 : Needed(x, b, m) \in Nat
         /\ Kind(x, 1) = "validity" => Needed(x, 1, m) = BytesForBits(m)
         /\ Kind(x, 1) = "type_id" => Needed(x, 1, m) = m
         /\ x.type = "bool" => Needed(x, 2, m) = BytesForBits(m)
         /\ x.type = "int16" => Needed(x, 2, m) = 2 * m
         /\ Kind(x, 2) = "data_offset" /\ m # 0 => Needed(x, 2, m) = Width(x, 2) * (m + 1)
<1> USE Laid, BytesHold
<1>1. Kind(x, 1) = "validity" => Needed(x, 1, m) = BytesForBits(m)
  BY DEF Needed
<1>2. Kind(x, 1) = "type_id" => Needed(x, 1, m) = m
  BY DEF Needed
<1>3. x.type = "bool" => Needed(x, 2, m) = BytesForBits(m)
  BY DEF Needed, BytesForBits
<1>4. x.type = "int16" => Needed(x, 2, m) = 2 * m
  <2> SUFFICES ASSUME x.type = "int16" PROVE Needed(x, 2, m) = 2 * m
    OBVIOUS
  <2>1. Needed(x, 2, m) = RoundUpToMultipleOf8(16 * m) \div 8
    BY DEF Needed
  <2> QED
    BY <2>1 DEF RoundUpToMultipleOf8
<1>5. Kind(x, 2) = "data_offset" /\ m # 0 => Needed(x, 2, m) = Width(x, 2) * (m + 1)
  BY DEF Needed
<1>6. Kind(x, 1) = "none" => Needed(x, 1, m) = 0
  BY DEF Needed
<1>7. Kind(x, 2) = "none" => Needed(x, 2, m) = 0
  BY DEF Needed
<1>8. Needed(x, 1, m) \in Nat
  BY <1>1, <1>2, <1>6
<1>9. Needed(x, 2, m) \in Nat
  <2>1. Kind(x, 2) = "union_offset" => Needed(x, 2, m) = 4 * m
    BY DEF Needed
  <2>2. Kind(x, 2) = "data_offset" /\ m = 0 => Needed(x, 2, m) = 0
    BY DEF Needed
  <2> QED
    BY <1>3, <1>4, <1>5, <1>7, <2>1, <2>2
<1>10. Needed(x, 3, m) \in Nat
  <2>1. Kind(x, 3) = "none" => Needed(x, 3, m) = 0
    BY DEF Needed
  <2>2. Kind(x, 3) = "data" => Needed(x, 3, m) = BytesForBits(0 * m)
    BY DEF Needed, BytesForBits
  <2>3. 0 * m = 0
    OBVIOUS
  <2> QED
    BY <2>1, <2>2, <2>3
<1>11. \A b \in 1..3 : Needed(x, b, m) \in Nat
  <2>1. \A b \in 1..3 : b = 1 \/ b = 2 \/ b = 3
    OBVIOUS
  <2> QED
    BY <1>8, <1>9, <1>10, <2>1
<1> QED
  BY <1>1, <1>2, <1>3, <1>4, <1>5, <1>11

(* The size nanoarrow works out is not above the one that is needed.       *)
LEMMA MinSizeIs ==
  ASSUME NEW x, x.type \in Types, NEW m \in Int
  PROVE  /\ \A b \in 1..3 : MinSize(x, b, m) \in Int
         /\ m \in Nat => \A b \in 1..3 : MinSize(x, b, m) <= Needed(x, b, m)
<1> SUFFICES ASSUME NEW b \in 1..3
             PROVE  MinSize(x, b, m) \in Int /\ (m \in Nat => MinSize(x, b, m) <= Needed(x, b, m))
  OBVIOUS
<1> DEFINE n == Needed(x, b, m)
<1>1. m \in Nat => n \in Nat
  BY NeededIs
<1>2. \A w \in Int64s : w \in Int
  BY ViewAssumption DEF Int64s
<1>3. CASE Kind(x, b) = "validity"
  <2>1. MinSize(x, b, m) = BytesForBits(m) /\ n = BytesForBits(m)
    BY <1>3 DEF MinSize, Needed
  <2>2. BytesForBits(m) \in Int
    BY DEF BytesForBits, RoundUpToMultipleOf8
  <2> QED
    BY <1>1, <2>1, <2>2
<1>4. CASE Kind(x, b) = "data"
  <2> DEFINE r == RoundUpToMultipleOf8(Bits(x, b) * m)
  <2>1. MinSize(x, b, m) = Wrapped(r) \div 8 /\ n = r \div 8
    BY <1>4 DEF MinSize, Needed
  <2>2. Bits(x, b) \in {0, 1, 16}
    <3>1. b = 2 \/ b = 3
      <4>1. b # 1
        BY <1>4, Laid
      <4> QED
        BY <4>1
    <3> QED
      BY <1>4, <3>1, Laid
  <2>3. Bits(x, b) * m \in Int /\ (m \in Nat => Bits(x, b) * m \in Nat)
    BY <2>2
  <2>4. r \in Int /\ (m \in Nat => r \in Nat)
    BY <2>3 DEF RoundUpToMultipleOf8
  <2> HIDE DEF r
  <2>5. Wrapped(r) \in Int /\ (m \in Nat => Wrapped(r) <= r)
    BY <1>2, <2>4, WrappedIs
  <2>6. Wrapped(r) \div 8 \in Int /\ (m \in Nat => Wrapped(r) \div 8 <= r \div 8)
    BY <2>4, <2>5
  <2> QED
    BY <2>1, <2>6
<1>5. CASE Kind(x, b) \notin {"validity", "data"}
  <2>1. MinSize(x, b, m) = Wrapped(n)
    BY <1>5 DEF MinSize
  <2>2. n \in Int
    <3>1. Kind(x, b) \in {"none", "type_id", "data_offset", "union_offset"}
      <4>1. b = 1 \/ b = 2 \/ b = 3
        OBVIOUS
      <4> QED
        BY <1>5, <4>1, Laid
    <3>2. CASE Kind(x, b) = "none"
      BY <3>2 DEF Needed
    <3>3. CASE Kind(x, b) = "data_offset"
      <4>1. Bits(x, b) \in {32, 64}
        <5>1. b = 2
          <6>1. b # 1 /\ b # 3
            BY <3>3, Laid
          <6> QED
            BY <6>1
        <5> QED
          BY <3>3, <5>1, Laid
      <4> QED
        BY <3>3, <4>1 DEF Needed
    <3>4. CASE Kind(x, b) \in {"type_id", "union_offset"}
      <4>1. Bits(x, b) \in {8, 32}
        <5>1. b = 1 \/ b = 2 \/ b = 3
          OBVIOUS
        <5> QED
          BY <3>4, <5>1, Laid
      <4> QED
        BY <3>4, <4>1 DEF Needed
    <3> QED
      BY <3>1, <3>2, <3>3, <3>4
  <2> HIDE DEF n
  <2>3. Wrapped(n) \in Int /\ (m \in Nat => Wrapped(n) <= n)
    BY <1>1, <1>2, <2>2, WrappedIs
  <2> QED
    BY <2>1, <2>3 DEF n
<1> QED
  BY <1>3, <1>4, <1>5

(* The sizes it gives the buffers. *)
LengthView(t, n) == SetLength(ViewOf(t), NewLength(t[1], n))
(* The view that ArrowArrayReserve makes asks each buffer for the bytes it *)
(* works out for the lengths it handed down.                               *)
LEMMA ViewSizes ==
  ASSUME NEW t, Arranged(t), \A p \in 1..Len(t) : IsNode(t[p]), NEW n \in Nat, NEW p \in 1..Len(t)
  PROVE  LET v == LengthView(t, n)[p]
             m == AskedLengths(ViewOf(t), NewLength(t[1], n))[p]
         IN  /\ \A b \in 1..3 : v.sizes[b] \in Int
             /\ m # NotAsked => m \in Int /\ \A b \in 1..3 : v.sizes[b] = MinSize(t[p], b, m)
<1> DEFINE w == ViewOf(t)
           f == AskedLengths(w, NewLength(t[1], n))
           m == f[p]
           sizes == [b \in 1..3 |-> MinSize(w[p], b, m)]
           v == LengthView(t, n)[p]
<1>1. w = [q \in DOMAIN t |-> SeenNode(t[q])]
  BY ViewOfIs
<1>2. DOMAIN t = 1..Len(t) /\ 1 \in 1..Len(t)
  <2> DEFINE N == Len(t)
  <2>1. N \in Nat \ {0} /\ DOMAIN t = 1..N
    BY DEF Arranged
  <2> HIDE DEF N
  <2>2. 1 \in 1..N
    BY <2>1
  <2> QED
    BY <2>1, <2>2 DEF N
<1> HIDE DEF w
<1>3. p \in DOMAIN w /\ w[p] = SeenNode(t[p])
  BY <1>1, <1>2
<1>4. v = IF m = NotAsked THEN w[p] ELSE [w[p] EXCEPT !.sizes = sizes]
  BY <1>3 DEF LengthView, SetLength, w
<1>5. m \in Int
  <2>1. NewLength(t[1], n) \in Int
    <3>1. t[1].length \in Nat
      BY <1>2, NodeHas
    <3>2. t[1].length + n \in Int
      BY <3>1
    <3> QED
      BY <3>2, WrappedIs, ViewAssumption DEF NewLength, Int64s
  <2> QED
    BY <2>1, LengthsAre DEF w
<1> HIDE DEF f, v
<1>6. w[p].sizes = t[p].sizes /\ w[p].type = t[p].type
  BY <1>3 DEF SeenNode
<1>7. m # NotAsked => v.sizes = sizes
  <2> DEFINE s == sizes
  <2>1. [w[p] EXCEPT !.sizes = s].sizes = s
    <3> HIDE DEF s
    <3> QED
      BY <1>3 DEF SeenNode
  <2> HIDE DEF s
  <2> QED
    BY <1>4, <2>1 DEF s
<1>8. \A b \in 1..3 : MinSize(w[p], b, m) = MinSize(t[p], b, m)
  BY <1>6 DEF MinSize, Needed, Kind, Bits
<1>9. t[p].type \in Types /\ \A b \in 1..3 : t[p].sizes[b] \in Nat
  BY NodeHas
<1>10. m # NotAsked => m \in Int /\ \A b \in 1..3 : v.sizes[b] = MinSize(t[p], b, m)
  BY <1>5, <1>7, <1>8
<1>11. \A b \in 1..3 : v.sizes[b] \in Int
  <2>1. CASE m = NotAsked
    <3>1. v.sizes = t[p].sizes
      BY <1>4, <1>6, <2>1
    <3> QED
      BY <1>9, <3>1
  <2>2. CASE m # NotAsked
    <3>1. m \in Int /\ \A b \in 1..3 : v.sizes[b] = MinSize(t[p], b, m)
      BY <1>10, <2>2
    <3>2. \A b \in 1..3 : MinSize(t[p], b, m) \in Int
      BY <1>9, <3>1, MinSizeIs
    <3> QED
      BY <3>1, <3>2
  <2> QED
    BY <2>1, <2>2
<1> QED
  BY <1>10, <1>11 DEF f, w, v

(* A node whose three buffers have their room only changed capacities. *)
LEMMA WentForIs ==
  ASSUME NEW x, NEW f, NEW v, NEW d, WentFor(x, f, v, 1..3, d)
  PROVE  Went(x, f, d) /\ (d.err = "OK" => \A b \in 1..3 : ReservedFor(d.node, v, b))
<1>1. ASSUME Spoilt(x, d) PROVE Went(x, f, d) /\ d.err # "OK"
  BY <1>1 DEF Went, Spoilt
<1>2. ASSUME NEW y, d = Begin(y, f), Eased(x, y), \A b \in 1..3 : ReservedFor(y, v, b)
      PROVE  Went(x, f, d) /\ \A b \in 1..3 : ReservedFor(d.node, v, b)
  <2>1. d.node = y
    BY <1>2 DEF Begin
  <2> QED
    BY <1>2, <2>1 DEF Went
<1> QED
  BY <1>1, <1>2 DEF WentFor

(* After ArrowArrayReserve each buffer has the room that the view asks     *)
(* for.                                                                    *)
ReserveLeaves(t, n, r) ==
  r.err = "OK" => \A p \in 1..Len(t), b \in 1..3 : ReservedFor(r.tree[p], LengthView(t, n)[p], b)
(* ArrowArrayReserve leaves the tree in order and the room it asked for.   *)
LEMMA ReserveLands ==
  ASSUME NEW t, InOrder(t), NEW n \in Nat, NEW place
  PROVE  Lands(t, Reserve(t, n, place)) /\ Easing(t, Reserve(t, n, place)) /\ ReserveLeaves(t, n, Reserve(t, n, place))
<1> DEFINE v == LengthView(t, n)
           did == [p \in DOMAIN t |-> ReserveAt(Begin(t[p], FailsAt(place, p)), v[p])]
           fails == [p \in 1..Len(t) |-> FailsAt(place, p)]
           r == TopDown(t, did)
<1>1. Reserve(t, n, place) = r
  BY Zenon DEF Reserve, LengthView, ViewOf
<1>2. Arranged(t) /\ DOMAIN t = 1..Len(t) /\ \A p \in 1..Len(t) : IsNode(t[p])
  BY DEF InOrder, Arranged
<1>3. \A p \in 1..Len(t) : \A b \in 1..3 : v[p].sizes[b] \in Int
  BY <1>2, ViewSizes
<1> HIDE DEF v
<1>4. \A p \in 1..Len(t) : Went(t[p], fails[p], did[p]) /\ (did[p].err = "OK" => \A b \in 1..3 : ReservedFor(did[p].node, v[p], b))
  <2> SUFFICES ASSUME NEW p \in 1..Len(t)
               PROVE  Went(t[p], fails[p], did[p]) /\ (did[p].err = "OK" => \A b \in 1..3 : ReservedFor(did[p].node, v[p], b))
    OBVIOUS
  <2>1. fails[p] = FailsAt(place, p)
    OBVIOUS
  <2> HIDE DEF fails
  <2> DEFINE d == ReserveAt(Begin(t[p], fails[p]), v[p])
  <2>2. did[p] = d
    BY <1>2, <2>1, Zenon
  <2> HIDE DEF did
  <2>3. IsNode(t[p]) /\ \A b \in 1..3 : v[p].sizes[b] \in Int
    BY <1>2, <1>3
  <2>4. WentFor(t[p], fails[p], v[p], 1..3, d)
    BY <2>3, ReserveAtIs
  <2> HIDE DEF d
  <2> QED
    BY <2>2, <2>4, WentForIs
<1> HIDE DEF did, fails
<1>5. \A p \in 1..Len(t) : Went(t[p], fails[p], did[p])
  BY <1>4
<1>6. Lands(t, r) /\ Easing(t, r) /\ (r.err = "OK" => \A p \in 1..Len(t) : r.tree[p] = did[p].node /\ did[p].err = "OK")
  BY <1>5, WentLands
<1>7. ASSUME r.err = "OK", NEW p \in 1..Len(t), NEW b \in 1..3 PROVE ReservedFor(r.tree[p], v[p], b)
  <2>1. r.tree[p] = did[p].node /\ Eased(t[p], r.tree[p])
    BY <1>6, <1>7 DEF Easing
  <2>2. did[p].err = "OK"
    BY <1>6, <1>7
  <2> QED
    BY <1>4, <2>1, <2>2
<1> HIDE DEF r
<1> QED
  BY <1>1, <1>6, <1>7 DEF ReserveLeaves, v

(* ArrowArrayStartAppending on an array that was just initialized. *)
LEMMA StartedFits ==
  ASSUME NEW t, Arranged(t), NEW u, Alikes(t, u),
         \A p \in 1..Len(t) : t[p].type \in Types /\ Started0(t[p], u[p])
  PROVE  InOrder(u) /\ BoolsSized(u)
<1>1. Arranged(u) /\ Len(u) = Len(t)
  BY AlikesArranged
<1>2. \A p \in 1..Len(t) : u[p].length = 0 /\ IsNode(u[p]) /\ Filled(u[p])
  BY DEF Started0
<1>3. ASSUME NEW p \in 1..Len(t), NEW k \in 1..Len(u[p].kids) PROVE Kid(u, p, k).length = 0
  <2>1. u[p].kids[k] \in 1..Len(t)
    BY <1>1 DEF Arranged, KidsBelow
  <2> QED
    BY <1>2, <2>1 DEF Kid
<1>4. ASSUME NEW p \in 1..Len(t) PROVE FitsAt(u, p)
  <2>1. Started0(t[p], u[p]) /\ u[p].length = 0
    BY <1>2
  <2>2. u[p].type \in {"list", "fixed_size_list"} => Kid(u, p, 1).length = 0
    BY <1>1, <1>3, FirstKid
  <2>3. u[p].type = "list" => u[p].at[2][u[p].length + 1] = 0
    <3> SUFFICES ASSUME u[p].type = "list" PROVE u[p].at[2][u[p].length + 1] = 0
      OBVIOUS
    <3>1. t[p].type = "list" /\ t[p].type \in Types
      BY <2>1 DEF Started0, Same
    <3>2. Kind(t[p], 2) = "data_offset"
      BY <3>1, Laid
    <3>3. u[p].at[2][1] = 0 /\ u[p].length + 1 = 1
      BY <2>1, <3>2 DEF Started0
    <3> QED
      BY <3>3
  <2>4. 0 * ListSize = 0
    BY ListSizeAssumption
  <2>5. u[p].type = "fixed_size_list" => u[p].length * ListSize <= Kid(u, p, 1).length
    BY <2>1, <2>2, <2>4
  <2>6. u[p].type = "list" => u[p].at[2][u[p].length + 1] <= Kid(u, p, 1).length
    BY <2>2, <2>3
  <2>7. \A k \in 1..Len(u[p].kids) : u[p].length <= Kid(u, p, k).length
    BY <1>3, <2>1
  <2> QED
    BY <2>5, <2>6, <2>7 DEF FitsAt
<1>5. ASSUME NEW p \in 1..Len(t) PROVE BoolSized(u[p])
  <2>1. BytesForBits(0) = 0
    <3>1. BytesForBits(0) = (0 + 7) \div 8
      BY BytesHold
    <3> QED
      BY <3>1
  <2> QED
    BY <1>2, <2>1 DEF Started0, Same, BoolSized
<1> QED
  BY <1>1, <1>2, <1>4, <1>5 DEF InOrder, BoolsSized

(* ArrowArrayStartAppending leaves a tree in order, or one with its nodes  *)
(* as they were initialized.                                               *)
LEMMA StartIs ==
  ASSUME NEW t, Arranged(t), \A p \in 1..Len(t) : Blank(t[p]), NEW place
  PROVE  LET r == StartAppending(t, place) IN
           /\ KeepsNodes(t, r)
           /\ r.err # "ENOMEM" => \A p \in 1..Len(t) : First(r.tree[p], r.tree[p].length, r.tree[p].null_count)
           /\ r.err = "OK" => InOrder(r.tree) /\ BoolsSized(r.tree)
<1> DEFINE did == [p \in DOMAIN t |-> StartAt(Begin(t[p], FailsAt(place, p)), p = 1)]
           r == TopDown(t, did)
           N == Len(t)
           u == r.tree
<1>1. StartAppending(t, place) = r
  BY Zenon DEF StartAppending
<1>2. DOMAIN t = 1..N /\ N \in Nat
  BY DEF Arranged
<1>3. ASSUME NEW p \in 1..N
      PROVE  Refused(t[p], did[p]) \/ (Started0(t[p], did[p].node) /\ did[p].err = "OK" /\ did[p].wild = FALSE)
  <2> DEFINE f == FailsAt(place, p)
             root == p = 1
             d == StartAt(Begin(t[p], f), root)
  <2>1. did[p] = d
    BY <1>2
  <2> HIDE DEF f, did, root
  <2>2. Refused(t[p], d) \/ \E y : d = Begin(y, f) /\ Started0(t[p], y)
    BY BlankStarts
  <2> HIDE DEF d
  <2>3. ASSUME NEW y, d = Begin(y, f), Started0(t[p], y)
        PROVE  Started0(t[p], d.node) /\ d.err = "OK" /\ d.wild = FALSE
    BY <2>3 DEF Begin
  <2> QED
    BY <2>1, <2>2, <2>3
<1> HIDE DEF did
<1>4. PICK R : Outcome(t, did, r, R)
  <2> HIDE DEF N
  <2> QED
    BY <1>2, TopDownIs
<1> HIDE DEF r
<1>5. \A p \in 1..N : IsNode(t[p]) /\ First(t[p], t[p].length, t[p].null_count)
  BY BlankFirst DEF Blank
<1>6. \A p \in 1..N : Sound(t[p], did[p]) /\ did[p].wild = FALSE
  <2> SUFFICES ASSUME NEW p \in 1..N PROVE Sound(t[p], did[p]) /\ did[p].wild = FALSE
    OBVIOUS
  <2>1. CASE Refused(t[p], did[p])
    <3>1. Step(t[p], 0, did[p]) /\ IsNode(t[p])
      BY <1>5, <2>1 DEF Step
    <3>2. Sound(t[p], did[p])
      BY <3>1, StepSound
    <3> QED
      BY <2>1, <3>2 DEF Refused, Spoilt, Stays
  <2>2. CASE ~Refused(t[p], did[p])
    BY <1>3, <2>2 DEF Started0, Sound
  <2> QED
    BY <2>1, <2>2
<1>7. Alikes(t, u) /\ \A p \in 1..N : IsNode(u[p])
  BY <1>4, <1>5, <1>6, SoundTree
<1>8. r.wild = FALSE
  <2>1. \A p \in R : did[p].wild = FALSE
    BY <1>2, <1>4, <1>6 DEF Outcome
  <2> QED
    BY <1>4, <2>1 DEF Outcome
<1>9. u = [p \in 1..N |-> IF p \in R THEN did[p].node ELSE t[p]]
  BY <1>2, <1>4 DEF Outcome
<1>10. ASSUME r.err # "ENOMEM", NEW p \in 1..N PROVE First(u[p], u[p].length, u[p].null_count)
  <2>1. CASE p \notin R
    BY <1>5, <1>9, <2>1
  <2>2. CASE p \in R
    <3>1. u[p] = did[p].node
      BY <1>9, <2>2
    <3>2. did[p].err # "ENOMEM"
      <4> SUFFICES ASSUME did[p].err = "ENOMEM" PROVE FALSE
        OBVIOUS
      <4>1. p \in Failed(t, did)
        BY <1>2 DEF Failed
      <4>2. r.err # "OK"
        BY <1>4, <4>1 DEF Outcome
      <4>3. PICK q \in R : did[q].err = r.err
        BY <1>4, <4>2 DEF Outcome
      <4>4. q \in Failed(t, did)
        BY <1>4, <4>2, <4>3 DEF Failed, Outcome
      <4>5. p = q
        BY <1>4, <2>2, <4>1, <4>3, <4>4 DEF Outcome
      <4> QED
        BY <1>10, <4>3, <4>5
    <3>3. CASE Stays(t[p], did[p])
      BY <1>5, <3>1, <3>3 DEF Stays
    <3>4. CASE Started0(t[p], did[p].node)
      BY <3>1, <3>4 DEF Started0, Filled
    <3> QED
      BY <1>3, <3>2, <3>3, <3>4 DEF Refused, Spoilt
  <2> QED
    BY <2>1, <2>2
<1>11. ASSUME r.err = "OK" PROVE InOrder(u) /\ BoolsSized(u)
  <2>1. R = DOMAIN t /\ Failed(t, did) = {}
    BY <1>4, <1>11 DEF Outcome
  <2>2. \A p \in 1..N : t[p].type \in Types /\ Started0(t[p], u[p])
    <3> SUFFICES ASSUME NEW p \in 1..N PROVE t[p].type \in Types /\ Started0(t[p], u[p])
      OBVIOUS
    <3>1. did[p].err = "OK"
      BY <1>2, <2>1 DEF Failed
    <3>2. ~Refused(t[p], did[p])
      BY <3>1 DEF Refused, Spoilt, Stays
    <3>3. u[p] = did[p].node
      BY <1>2, <1>9, <2>1
    <3> QED
      BY <1>3, <1>5, <3>2, <3>3, NodeHas
  <2> HIDE DEF u
  <2> QED
    BY <1>7, <2>2, StartedFits
<1> QED
  BY <1>1, <1>7, <1>8, <1>10, <1>11 DEF KeepsNodes

---------------------------------------------------------------------------
(* The inductive invariant. After ArrowArrayReserve, s is the tree that it *)
(* was called on.                                                          *)
ReservedFrom(s, t, n) ==
  /\ InOrder(s) /\ Alikes(s, t) /\ \A p \in 1..Len(s) : Eased(s[p], t[p])
  /\ \A p \in 1..Len(s), b \in 1..3 : ReservedFor(t[p], LengthView(s, n)[p], b)
(* ArrowArrayStartAppending has succeeded. *)
HasStarted(l) == l.call # "init" /\ ~(l.call = "start" /\ l.err # "OK")
(* What holds between calls of a tree, the last call and whether memory    *)
(* ran out.                                                                *)
Holds(t, l, hurt) ==
  /\ Arranged(t) /\ \A p \in 1..Len(t) : IsNode(t[p])
  /\ l.call = "init" => hurt = FALSE /\ \A p \in 1..Len(t) : Blank(t[p])
  /\ hurt = FALSE => \A p \in 1..Len(t) : First(t[p], t[p].length, t[p].null_count)
  /\ HasStarted(l) /\ hurt = FALSE => InOrder(t)
  /\ l.call = "reserve" /\ l.err = "OK" => hurt = FALSE /\ l.arg \in Nat /\ \E s : ReservedFrom(s, t, l.arg)
(* The inductive invariant of the builder. *)
IInv == counts \subseteq Nat /\ damaged \in BOOLEAN /\ Holds(tree, last, damaged)

(* What it takes for every write to land in its buffer: no call gives a    *)
(* bool array elements that reach beyond the byte of its next one.         *)
OneByteAtATime ==
  \A p \in DOMAIN tree :
    tree[p].type = "bool" /\ tree'[p].length > tree[p].length =>
      BytesForBits(tree'[p].length) = BytesForBits(tree[p].length + 1)
(* What holds besides while bools grow by one byte's worth at a time. *)
TamelyHolds(t, l, hurt, w) == w = FALSE /\ (HasStarted(l) /\ hurt = FALSE => BoolsSized(t))
(* The invariant that needs OneByteAtATime. *)
TameInv == TamelyHolds(tree, last, damaged, wild)

(* ArrowArrayInitFromSchema makes an empty node of the schema's type. *)
LEMMA NewNodeBlank ==
  ASSUME NEW x, x.type \in Types
  PROVE  Blank(NewNode(x)) /\ Same(x, NewNode(x))
<1> DEFINE y == NewNode(x)
           z == <<0, 0, 0>>
           e == << <<>>, <<>>, <<>> >>
<1>1. z \in [1..3 -> Nat] /\ \A b \in 1..3 : z[b] = 0
  OBVIOUS
<1>2. e = [b \in 1..3 |-> e[b]] /\ \A b \in 1..3 : e[b] = <<>>
  OBVIOUS
<1>3. y = [type |-> x.type, ids |-> x.ids, length |-> 0, null_count |-> 0, sizes |-> z, caps |-> z, at |-> e,
           kids |-> x.kids, dict |-> x.dict, up |-> x.up, last |-> x.last]
  BY DEF NewNode
<1> HIDE DEF y, z, e
<1>4. Room(z, z)
  BY <1>1 DEF Room
<1>5. Same(x, y)
  BY <1>3 DEF Same
<1>6. IsNode(y)
  BY <1>2, <1>3, <1>4 DEF IsNode, With
<1>7. Blank(y)
  BY <1>1, <1>2, <1>3, <1>6 DEF Blank
<1> QED
  BY <1>5, <1>7 DEF y

(* The initial states satisfy both invariants. *)
LEMMA InitHolds == Init => IInv /\ TameInv
<1> SUFFICES ASSUME Init PROVE IInv /\ TameInv
  OBVIOUS
<1>1. PICK b \in Builds : tree = [p \in DOMAIN b[1] |-> NewNode(b[1][p])] /\ counts = b[2]
  BY DEF Init
<1>2. damaged = FALSE /\ wild = FALSE /\ last.call = "init"
  BY DEF Init
<1> DEFINE s == b[1]
<1>3. IsSchema(s) /\ counts \subseteq Nat
  BY <1>1, BuilderAssumption
<1> HIDE DEF s
<1>4. Arranged(s)
  BY <1>3, SchemaArranged
<1>5. DOMAIN s = 1..Len(s)
  BY <1>4 DEF Arranged
<1>6. \A p \in 1..Len(s) : s[p].type \in Types
  BY <1>3, <1>5 DEF IsSchema, Types
<1>7. tree = [p \in 1..Len(s) |-> NewNode(s[p])]
  BY <1>1, <1>5 DEF s
<1>8. \A p \in 1..Len(s) : Blank(tree[p]) /\ Same(s[p], tree[p])
  BY <1>6, <1>7, NewNodeBlank
<1>9. Alikes(s, tree)
  BY <1>7, <1>8 DEF Alikes
<1>10. Arranged(tree) /\ Len(tree) = Len(s)
  BY <1>4, <1>9, AlikesArranged
<1>11. \A p \in 1..Len(tree) : Blank(tree[p]) /\ IsNode(tree[p]) /\ First(tree[p], tree[p].length, tree[p].null_count)
  BY <1>8, <1>10, BlankFirst DEF Blank
<1>12. Holds(tree, last, damaged)
  BY <1>2, <1>10, <1>11 DEF Holds, HasStarted
<1>13. TamelyHolds(tree, last, damaged, wild)
  BY <1>2 DEF TamelyHolds, HasStarted
<1> QED
  BY <1>2, <1>3, <1>12, <1>13 DEF IInv, TameInv

(* A tree in order has its nulls counted. *)
LEMMA InOrderFirst ==
  ASSUME NEW t, InOrder(t)
  PROVE  /\ Arranged(t) /\ \A p \in 1..Len(t) : IsNode(t[p])
         /\ \A p \in 1..Len(t) : First(t[p], t[p].length, t[p].null_count)
BY DEF InOrder, Filled

(* A call on an array in order. *)
Usable == Started /\ damaged = FALSE
(* While the array can be appended to it is in order. *)
LEMMA UsableMeans ==
  ASSUME IInv, Usable
  PROVE  InOrder(tree) /\ damaged = FALSE /\ DOMAIN tree = 1..Len(tree)
BY DEF IInv, Usable, Holds, Started, HasStarted, InOrder, Arranged

(* So it is when one more call may be made. *)
LEMMA MayMeans ==
  ASSUME IInv, May
  PROVE  Usable /\ InOrder(tree) /\ damaged = FALSE /\ DOMAIN tree = 1..Len(tree)
<1>1. Usable
  BY DEF IInv, May, Usable
<1> QED
  BY <1>1, UsableMeans

(* A call that lands keeps the invariants. *)
LEMMA CallStep ==
  ASSUME IInv, Usable, NEW call, call \notin {"init", "start", "reserve"}, NEW p, NEW arg, NEW r,
         Lands(tree, r), Result(call, p, arg, r)
  PROVE  IInv' /\ (TameInv /\ OneByteAtATime => TameInv') /\ Alikes(tree, tree')
<1>1. InOrder(tree) /\ damaged = FALSE /\ DOMAIN tree = 1..Len(tree)
  BY UsableMeans
<1>2. /\ tree' = r.tree /\ last' = [call |-> call, node |-> p, arg |-> arg, err |-> r.err]
      /\ damaged' = (damaged \/ r.err = "ENOMEM") /\ wild' = (wild \/ r.wild) /\ counts' = counts
  BY DEF Result
<1>3. last'.call = call /\ last'.err = r.err
  BY <1>2
<1>4. damaged' \in BOOLEAN /\ (damaged' = FALSE => r.err # "ENOMEM")
  BY <1>1, <1>2
<1>5. Arranged(tree') /\ Len(tree') = Len(tree) /\ \A q \in 1..Len(tree) : IsNode(tree'[q])
  BY <1>1, <1>2, AlikesArranged, InOrderFirst DEF Lands
<1>6. damaged' = FALSE => InOrder(tree')
  BY <1>2, <1>4 DEF Lands
<1>7. Holds(tree', last', damaged')
  <2>1. damaged' = FALSE => \A q \in 1..Len(tree') : First(tree'[q], tree'[q].length, tree'[q].null_count)
    BY <1>6, InOrderFirst
  <2> QED
    BY <1>3, <1>5, <1>6, <2>1 DEF Holds
<1>8. IInv'
  BY <1>2, <1>4, <1>7 DEF IInv
<1>9. ASSUME TameInv, OneByteAtATime PROVE TamelyHolds(tree', last', damaged', wild')
  <2>1. wild = FALSE /\ BoolsSized(tree)
    BY <1>1, <1>9 DEF TameInv, TamelyHolds, Usable, Started, HasStarted
  <2>2. BytesDo(tree, tree')
    BY <1>1, <1>9 DEF OneByteAtATime, BytesDo, OneByte
  <2>3. r.wild = FALSE /\ (damaged' = FALSE => BoolsSized(tree'))
    BY <1>2, <1>4, <2>1, <2>2 DEF Lands
  <2> QED
    BY <1>2, <2>1, <2>3 DEF TamelyHolds
<1>10. Alikes(tree, tree')
  BY <1>2 DEF Lands
<1> QED
  BY <1>8, <1>9, <1>10 DEF TameInv

(* ArrowArrayReserve keeps them, and they remember the room it left. *)
LEMMA ReserveStep ==
  ASSUME IInv, May, NEW n \in Nat, NEW place, Result("reserve", 1, n, Reserve(tree, n, place))
  PROVE  IInv' /\ (TameInv /\ OneByteAtATime => TameInv') /\ Alikes(tree, tree')
<1> DEFINE r == Reserve(tree, n, place)
<1>1. InOrder(tree) /\ damaged = FALSE /\ DOMAIN tree = 1..Len(tree)
  BY MayMeans
<1>2. Lands(tree, r) /\ Easing(tree, r) /\ ReserveLeaves(tree, n, r)
  BY <1>1, ReserveLands
<1>3. /\ tree' = r.tree /\ last' = [call |-> "reserve", node |-> 1, arg |-> n, err |-> r.err]
      /\ damaged' = (damaged \/ r.err = "ENOMEM") /\ wild' = (wild \/ r.wild) /\ counts' = counts
  BY DEF Result
<1> HIDE DEF r
<1>4. last'.call = "reserve" /\ last'.err = r.err /\ last'.arg = n
  BY <1>3
<1>5. damaged' \in BOOLEAN /\ (damaged' = FALSE => r.err # "ENOMEM") /\ (r.err = "OK" => damaged' = FALSE)
  BY <1>1, <1>3
<1>6. Arranged(tree') /\ Len(tree') = Len(tree) /\ \A q \in 1..Len(tree) : IsNode(tree'[q])
  BY <1>1, <1>2, <1>3, AlikesArranged, InOrderFirst DEF Lands
<1>7. damaged' = FALSE => InOrder(tree')
  BY <1>2, <1>3, <1>5 DEF Lands
<1>8. r.err = "OK" => ReservedFrom(tree, tree', n)
  BY <1>1, <1>2, <1>3 DEF ReservedFrom, Lands, Easing, ReserveLeaves
<1>9. Holds(tree', last', damaged')
  <2>1. damaged' = FALSE => \A q \in 1..Len(tree') : First(tree'[q], tree'[q].length, tree'[q].null_count)
    BY <1>7, InOrderFirst
  <2> QED
    BY <1>4, <1>5, <1>6, <1>7, <1>8, <2>1 DEF Holds
<1>10. IInv'
  BY <1>3, <1>5, <1>9 DEF IInv
<1>11. ASSUME TameInv, OneByteAtATime PROVE TamelyHolds(tree', last', damaged', wild')
  <2>1. wild = FALSE /\ BoolsSized(tree)
    BY <1>1, <1>11 DEF TameInv, TamelyHolds, May, Started, HasStarted
  <2>2. BytesDo(tree, tree')
    BY <1>1, <1>11 DEF OneByteAtATime, BytesDo, OneByte
  <2>3. r.wild = FALSE /\ (damaged' = FALSE => BoolsSized(tree'))
    BY <1>2, <1>3, <1>5, <2>1, <2>2 DEF Lands
  <2> QED
    BY <1>3, <2>1, <2>3 DEF TamelyHolds
<1>12. Alikes(tree, tree')
  BY <1>2, <1>3 DEF Lands
<1> QED
  BY <1>10, <1>11, <1>12 DEF TameInv

(* What each action owes the invariants. *)
Steps == IInv' /\ (TameInv /\ OneByteAtATime => TameInv') /\ Alikes(tree, tree')

(* ArrowArrayAppendNull keeps the invariants. *)
LEMMA AppendNullsStep == IInv /\ AppendNulls => Steps
<1> SUFFICES ASSUME IInv, AppendNulls PROVE Steps
  OBVIOUS
<1>1. PICK p \in DOMAIN tree, n \in counts : \E place \in Failures(p) :
        Aligned(tree, p) /\ Result("null", p, n, AppendEmpty(tree, p, n, 0, place))
  BY DEF AppendNulls
<1>2. PICK place : Result("null", p, n, AppendEmpty(tree, p, n, 0, place))
  BY <1>1
<1>3. May
  BY DEF AppendNulls
<1>4. InOrder(tree) /\ p \in 1..Len(tree) /\ n \in Nat /\ 0 \in Flags
  BY <1>3, MayMeans DEF IInv, Flags
<1>5. Lands(tree, AppendEmpty(tree, p, n, 0, place))
  BY <1>4, AppendEmptyIs
<1> QED
  BY <1>2, <1>3, <1>5, MayMeans, CallStep DEF Steps

(* ArrowArrayAppendEmpty keeps the invariants. *)
LEMMA AppendEmptiesStep == IInv /\ AppendEmpties => Steps
<1> SUFFICES ASSUME IInv, AppendEmpties PROVE Steps
  OBVIOUS
<1>1. PICK p \in DOMAIN tree, n \in counts : \E place \in Failures(p) :
        Aligned(tree, p) /\ Result("empty", p, n, AppendEmpty(tree, p, n, 1, place))
  BY DEF AppendEmpties
<1>2. PICK place : Result("empty", p, n, AppendEmpty(tree, p, n, 1, place))
  BY <1>1
<1>3. May
  BY DEF AppendEmpties
<1>4. InOrder(tree) /\ p \in 1..Len(tree) /\ n \in Nat /\ 1 \in Flags
  BY <1>3, MayMeans DEF IInv, Flags
<1>5. Lands(tree, AppendEmpty(tree, p, n, 1, place))
  BY <1>4, AppendEmptyIs
<1> QED
  BY <1>2, <1>3, <1>5, MayMeans, CallStep DEF Steps

(* ArrowArrayAppendInt keeps the invariants. *)
LEMMA AppendAnIntStep == IInv /\ AppendAnInt => Steps
<1> SUFFICES ASSUME IInv, AppendAnInt PROVE Steps
  OBVIOUS
<1>1. PICK p \in DOMAIN tree, i \in Ints : \E fails \in 0..Buffers(tree[p]) :
        Result("int", p, i, OnNode(tree, p, AppendInt(Begin(tree[p], fails), i)))
  BY DEF AppendAnInt
<1>2. PICK fails : Result("int", p, i, OnNode(tree, p, AppendInt(Begin(tree[p], fails), i)))
  BY <1>1
<1>3. May
  BY DEF AppendAnInt
<1>4. InOrder(tree) /\ p \in 1..Len(tree)
  BY <1>3, MayMeans
<1>5. Lands(tree, OnNode(tree, p, AppendInt(Begin(tree[p], fails), i)))
  BY <1>4, IntLands
<1> QED
  BY <1>2, <1>3, <1>5, MayMeans, CallStep DEF Steps

(* ArrowArrayAppendString keeps the invariants. *)
LEMMA AppendTextStep == IInv /\ AppendText => Steps
<1> SUFFICES ASSUME IInv, AppendText PROVE Steps
  OBVIOUS
<1>1. PICK p \in DOMAIN tree, x \in Texts : \E fails \in 0..Buffers(tree[p]) :
        Result("bytes", p, x, OnNode(tree, p, AppendBytes(Begin(tree[p], fails), x)))
  BY DEF AppendText
<1>2. PICK fails : Result("bytes", p, x, OnNode(tree, p, AppendBytes(Begin(tree[p], fails), x)))
  BY <1>1
<1>3. May
  BY DEF AppendText
<1>4. InOrder(tree) /\ p \in 1..Len(tree)
  BY <1>3, MayMeans
<1>5. Len(x) \in Nat
  <2>1. x \in Seq(Bytes)
    BY BuilderAssumption
  <2> QED
    BY <2>1
<1>6. Lands(tree, OnNode(tree, p, AppendBytes(Begin(tree[p], fails), x)))
  BY <1>4, <1>5, BytesLand
<1> QED
  BY <1>2, <1>3, <1>6, MayMeans, CallStep DEF Steps

(* ArrowArrayFinishElement keeps the invariants. *)
LEMMA FinishStep == IInv /\ Finish => Steps
<1> SUFFICES ASSUME IInv, Finish PROVE Steps
  OBVIOUS
<1>1. PICK p \in DOMAIN tree : \E fails \in 0..Buffers(tree[p]) :
        Result("finish", p, 0, OnNode(tree, p, FinishElement(tree, p, fails)))
  BY DEF Finish
<1>2. PICK fails : Result("finish", p, 0, OnNode(tree, p, FinishElement(tree, p, fails)))
  BY <1>1
<1>3. May
  BY DEF Finish
<1>4. InOrder(tree) /\ p \in 1..Len(tree)
  BY <1>3, MayMeans
<1>5. Lands(tree, OnNode(tree, p, FinishElement(tree, p, fails)))
  BY <1>4, FinishLands
<1> QED
  BY <1>2, <1>3, <1>5, MayMeans, CallStep DEF Steps

(* ArrowArrayFinishUnionElement keeps the invariants. *)
LEMMA FinishUnionStep == IInv /\ FinishUnion => Steps
<1> SUFFICES ASSUME IInv, FinishUnion PROVE Steps
  OBVIOUS
<1>1. PICK p \in DOMAIN tree : \E id \in 0..Len(tree[p].kids), place \in Failures(p) :
        HasElement(tree, p, id) /\ Result("union", p, id, FinishUnionElement(tree, p, id, place))
  BY DEF FinishUnion
<1>2. PICK id, place : HasElement(tree, p, id) /\ Result("union", p, id, FinishUnionElement(tree, p, id, place))
  BY <1>1
<1>3. May
  BY DEF FinishUnion
<1>4. InOrder(tree) /\ p \in 1..Len(tree)
  BY <1>3, MayMeans
<1>5. Lands(tree, FinishUnionElement(tree, p, id, place))
  BY <1>2, <1>4, UnionLands
<1> QED
  BY <1>2, <1>3, <1>5, MayMeans, CallStep DEF Steps

(* ArrowArrayReserve keeps the invariants. *)
LEMMA ReserveMoreStep == IInv /\ ReserveMore => Steps
<1> SUFFICES ASSUME IInv, ReserveMore PROVE Steps
  OBVIOUS
<1>1. PICK n \in Reserved, place \in Failures(1) : Result("reserve", 1, n, Reserve(tree, n, place))
  BY DEF ReserveMore
<1>2. May
  BY DEF ReserveMore
<1>3. n \in Nat
  BY BuilderAssumption
<1> QED
  BY <1>1, <1>2, <1>3, ReserveStep DEF Steps

(* ArrowArrayShrinkToFit keeps the invariants. *)
LEMMA ShrinkStep == IInv /\ Shrink => Steps
<1> SUFFICES ASSUME IInv, Shrink PROVE Steps
  OBVIOUS
<1>1. PICK place \in Failures(1) : Result("shrink", 1, 0, ShrinkToFit(tree, place))
  BY DEF Shrink
<1>2. May
  BY DEF Shrink
<1>3. Lands(tree, ShrinkToFit(tree, place))
  BY <1>2, MayMeans, ShrinkLands
<1> QED
  BY <1>1, <1>2, <1>3, MayMeans, CallStep DEF Steps

(* ArrowArrayStartAppending keeps the invariants. *)
LEMMA StartStep == IInv /\ Start => Steps
<1> SUFFICES ASSUME IInv, Start PROVE Steps
  OBVIOUS
<1>1. PICK place : Result("start", 1, 0, StartAppending(tree, place))
  BY DEF Start
<1> DEFINE r == StartAppending(tree, place)
<1>2. Arranged(tree) /\ damaged = FALSE /\ \A p \in 1..Len(tree) : IsNode(tree[p]) /\ Blank(tree[p])
  BY DEF IInv, Holds, Start
<1>3. /\ KeepsNodes(tree, r)
      /\ r.err # "ENOMEM" => \A p \in 1..Len(tree) : First(r.tree[p], r.tree[p].length, r.tree[p].null_count)
      /\ r.err = "OK" => InOrder(r.tree) /\ BoolsSized(r.tree)
  BY <1>2, StartIs
<1>4. /\ tree' = r.tree /\ last' = [call |-> "start", node |-> 1, arg |-> 0, err |-> r.err]
      /\ damaged' = (damaged \/ r.err = "ENOMEM") /\ wild' = (wild \/ r.wild) /\ counts' = counts
  BY <1>1 DEF Result
<1> HIDE DEF r
<1>5. last'.call = "start" /\ last'.err = r.err
  BY <1>4
<1>6. damaged' \in BOOLEAN /\ (damaged' = FALSE => r.err # "ENOMEM")
  BY <1>2, <1>4
<1>7. Arranged(tree') /\ Len(tree') = Len(tree) /\ \A q \in 1..Len(tree) : IsNode(tree'[q])
  BY <1>2, <1>3, <1>4, AlikesArranged DEF KeepsNodes
<1>8. HasStarted(last') => r.err = "OK"
  BY <1>5 DEF HasStarted
<1>9. Holds(tree', last', damaged')
  BY <1>3, <1>4, <1>5, <1>6, <1>7, <1>8 DEF Holds
<1>10. IInv'
  BY <1>4, <1>6, <1>9 DEF IInv
<1>11. ASSUME TameInv PROVE TamelyHolds(tree', last', damaged', wild')
  BY <1>3, <1>4, <1>8, <1>11 DEF TameInv, TamelyHolds, KeepsNodes
<1>12. Alikes(tree, tree')
  BY <1>3, <1>4 DEF KeepsNodes
<1> QED
  BY <1>10, <1>11, <1>12 DEF TameInv, Steps

(* ArrowArrayFinishBuilding: what the validation says changes no buffer.   *)
IsOutcome(r) == r = [tree |-> r.tree, err |-> r.err, wild |-> r.wild]
(* The outcome of ArrowArrayFinishBuilding once the array was validated.   *)
Judged(r, level) == Continue(r, LAMBDA s : IF Accepts(s.tree, level) THEN s ELSE Refuse(s, "EINVAL"))
(* Validation changes the error only. *)
LEMMA JudgedIs ==
  ASSUME NEW r, IsOutcome(r), NEW level
  PROVE  LET e == Judged(r, level) IN
           /\ e.tree = r.tree /\ e.wild = r.wild
           /\ e.err # "ENOMEM" => r.err # "ENOMEM"
           /\ r.err = "ENOMEM" => e.err = "ENOMEM"
<1> DEFINE e == Judged(r, level)
           refused == Refuse(r, "EINVAL")
<1>1. refused.tree = r.tree /\ refused.wild = r.wild /\ refused.err = "EINVAL"
  BY DEF IsOutcome, Refuse
<1>2. e = IF r.err = "OK" THEN (IF Accepts(r.tree, level) THEN r ELSE refused) ELSE r
  BY Zenon DEF Judged, Continue
<1> HIDE DEF e, refused
<1>3. e = r \/ (e = refused /\ r.err = "OK")
  BY <1>2
<1> QED
  BY <1>1, <1>3 DEF e

(* ArrowArrayFinishBuilding finalizes the buffers at the higher levels     *)
(* only.                                                                   *)
LEMMA FinalizedIs ==
  ASSUME NEW level, NEW place
  PROVE  /\ IsOutcome(Finalized(level, place))
         /\ \/ /\ Finalized(level, place).tree = tree /\ Finalized(level, place).err = "OK"
               /\ Finalized(level, place).wild = FALSE
            \/ Finalized(level, place) = FinalizeBuffers(tree, place)
<1> DEFINE none == [tree |-> tree, err |-> "OK", wild |-> FALSE]
           some == FinalizeBuffers(tree, place)
           did == [p \in DOMAIN tree |-> OnBuffers(Begin(tree[p], FailsAt(place, p)), Allocate)]
           r == Finalized(level, place)
<1>1. r = IF level < Default THEN none ELSE some
  BY DEF Finalized
<1>2. IsOutcome(none) /\ none.tree = tree /\ none.err = "OK" /\ none.wild = FALSE
  BY DEF IsOutcome
<1>3. IsOutcome(some)
  <2>1. some = TopResult(tree, did)
    <3>1. some = TopDown(tree, did)
      BY Zenon DEF FinalizeBuffers
    <3> HIDE DEF some, did
    <3> QED
      BY <3>1, TopDownResult
  <2> HIDE DEF some, did
  <2>2. IsOutcome(TopResult(tree, did))
    BY DEF TopResult, IsOutcome
  <2> QED
    BY <2>1, <2>2
<1> HIDE DEF r, none, some
<1> QED
  BY <1>1, <1>2, <1>3 DEF r, some

(* ArrowArrayFinishBuilding keeps the invariants. *)
LEMMA FinishBuildingStep == IInv /\ FinishBuilding => Steps
<1> SUFFICES ASSUME IInv, FinishBuilding PROVE Steps
  OBVIOUS
<1>0. PICK level \in None..Full :
        \E place \in IF level < Default THEN {NoFailure} ELSE Failures(1) :
          Result("build", 1, level,
                 Continue(Finalized(level, place),
                          LAMBDA s : IF Accepts(s.tree, level) THEN s ELSE Refuse(s, "EINVAL")))
  BY Zenon DEF FinishBuilding
<1>1. PICK place \in IF level < Default THEN {NoFailure} ELSE Failures(1) :
        Result("build", 1, level, Judged(Finalized(level, place), level))
  BY Zenon, <1>0 DEF Judged
<1> DEFINE f == Finalized(level, place)
           r == Judged(f, level)
<1>2. /\ IsOutcome(f)
      /\ \/ f.tree = tree /\ f.err = "OK" /\ f.wild = FALSE
         \/ f = FinalizeBuffers(tree, place)
  BY FinalizedIs
<1>3. Result("build", 1, level, r)
  BY <1>1
<1> HIDE DEF f
<1>4. r.tree = f.tree /\ r.wild = f.wild /\ (r.err # "ENOMEM" => f.err # "ENOMEM")
  BY <1>2, JudgedIs
<1> HIDE DEF r
<1>5. Arranged(tree) /\ (\A p \in 1..Len(tree) : IsNode(tree[p])) /\ counts \subseteq Nat /\ damaged \in BOOLEAN
  BY DEF IInv, Holds
<1>6. Alikes(tree, tree)
  BY <1>5 DEF Alikes, Arranged, Same
<1>7. CASE damaged = FALSE
  <2>1. Usable
    BY <1>7 DEF FinishBuilding, Usable
  <2>2. InOrder(tree)
    BY <2>1, UsableMeans
  <2>3. Lands(tree, f)
    <3>1. CASE f.tree = tree /\ f.err = "OK" /\ f.wild = FALSE
      BY <1>5, <1>6, <2>2, <3>1 DEF Lands
    <3>2. CASE f = FinalizeBuffers(tree, place)
      BY <1>5, <2>2, <3>2, FinalizeGoes
    <3> QED
      BY <1>2, <3>1, <3>2
  <2>4. Lands(tree, r)
    BY <1>4, <2>3 DEF Lands
  <2> QED
    BY <1>3, <2>1, <2>4, CallStep DEF Steps
<1>8. CASE damaged = TRUE
  <2>1. KeepsNodes(tree, f)
    <3>1. CASE f.tree = tree /\ f.err = "OK" /\ f.wild = FALSE
      BY <1>5, <1>6, <3>1 DEF KeepsNodes
    <3>2. CASE f = FinalizeBuffers(tree, place)
      BY <1>5, <3>2, FinalizeGoes
    <3> QED
      BY <1>2, <3>1, <3>2
  <2>2. /\ tree' = f.tree /\ last' = [call |-> "build", node |-> 1, arg |-> level, err |-> r.err]
        /\ damaged' = (damaged \/ r.err = "ENOMEM") /\ wild' = (wild \/ r.wild) /\ counts' = counts
    BY <1>3, <1>4 DEF Result
  <2>3. last'.call = "build" /\ damaged' = TRUE
    BY <1>8, <2>2
  <2>4. Arranged(tree') /\ Len(tree') = Len(tree) /\ \A q \in 1..Len(tree) : IsNode(tree'[q])
    BY <1>5, <2>1, <2>2, AlikesArranged DEF KeepsNodes
  <2>5. Holds(tree', last', damaged')
    BY <2>3, <2>4 DEF Holds
  <2>6. IInv'
    BY <1>5, <2>2, <2>3, <2>5 DEF IInv
  <2>7. ASSUME TameInv PROVE TamelyHolds(tree', last', damaged', wild')
    BY <1>4, <2>1, <2>2, <2>3, <2>7 DEF TameInv, TamelyHolds, KeepsNodes
  <2>8. Alikes(tree, tree')
    BY <2>1, <2>2 DEF KeepsNodes
  <2> QED
    BY <2>6, <2>7, <2>8 DEF TameInv, Steps
<1> QED
  BY <1>5, <1>7, <1>8

(* IInv is inductive. *)
LEMMA StepHolds == IInv /\ [Next]_vars => IInv'
<1> SUFFICES ASSUME IInv, [Next]_vars PROVE IInv'
  OBVIOUS
<1>1. CASE Next
  BY <1>1, StartStep, AppendNullsStep, AppendEmptiesStep, AppendAnIntStep, AppendTextStep, FinishStep,
     FinishUnionStep, ReserveMoreStep, ShrinkStep, FinishBuildingStep DEF Next, Steps
<1>2. CASE UNCHANGED vars
  BY <1>2 DEF vars, IInv
<1> QED
  BY <1>1, <1>2

(* TameInv is inductive, given IInv and OneByteAtATime. *)
LEMMA TameStepHolds == IInv /\ TameInv /\ [Next]_vars /\ [OneByteAtATime]_vars => TameInv'
<1> SUFFICES ASSUME IInv, TameInv, [Next]_vars, [OneByteAtATime]_vars PROVE TameInv'
  OBVIOUS
<1>1. CASE Next /\ OneByteAtATime
  BY <1>1, StartStep, AppendNullsStep, AppendEmptiesStep, AppendAnIntStep, AppendTextStep, FinishStep,
     FinishUnionStep, ReserveMoreStep, ShrinkStep, FinishBuildingStep DEF Next, Steps
<1>2. CASE UNCHANGED vars
  BY <1>2 DEF vars, TameInv
<1> QED
  BY <1>1, <1>2

(* IInv holds of every behaviour. *)
LEMMA IInvHolds == Spec => []IInv
BY InitHolds, StepHolds, PTL DEF Spec

(* TameInv holds of every behaviour under OneByteAtATime. *)
LEMMA TameInvHolds == Spec /\ [][OneByteAtATime]_vars => []TameInv
<1>1. Init => TameInv
  BY InitHolds
<1> QED
  BY <1>1, IInvHolds, TameStepHolds, PTL DEF Spec

(* Schemas without bools: what is said of them needs no OneByteAtATime.    *)
NoBools == \A b \in Builds : \A p \in DOMAIN b[1] : b[1][p].type # "bool"

(* No node of the array is a bool.                                         *)
BoolFree == \A p \in DOMAIN tree : tree[p].type # "bool"

(* Without bools in the schemas the array has none at first.               *)
LEMMA BoolFreeFirst == ASSUME NoBools PROVE Init => BoolFree
<1> SUFFICES ASSUME Init PROVE BoolFree
  OBVIOUS
<1>1. PICK b \in Builds : tree = [p \in DOMAIN b[1] |-> NewNode(b[1][p])]
  BY DEF Init
<1>2. ASSUME NEW p \in DOMAIN b[1] PROVE NewNode(b[1][p]).type # "bool"
  <2>1. b[1][p].type \in Types
    BY <1>1, BuilderAssumption DEF IsSchema, Types
  <2> QED
    BY <2>1, NewNodeBlank DEF NoBools, Same
<1> QED
  BY <1>1, <1>2 DEF BoolFree

(* Nor does it get any, and so no bool outgrows its byte.                  *)
LEMMA BoolFreeStep == IInv /\ BoolFree /\ [Next]_vars => BoolFree' /\ [OneByteAtATime]_vars
<1> SUFFICES ASSUME IInv, BoolFree, [Next]_vars PROVE BoolFree' /\ [OneByteAtATime]_vars
  OBVIOUS
<1>1. CASE Next
  <2>1. Alikes(tree, tree')
    BY <1>1, StartStep, AppendNullsStep, AppendEmptiesStep, AppendAnIntStep, AppendTextStep, FinishStep,
       FinishUnionStep, ReserveMoreStep, ShrinkStep, FinishBuildingStep DEF Next, Steps
  <2>2. DOMAIN tree = 1..Len(tree)
    BY DEF IInv, Holds, Arranged
  <2>3. BoolFree'
    BY <2>1, <2>2 DEF BoolFree, Alikes, Same
  <2> QED
    BY <2>3 DEF BoolFree, OneByteAtATime
<1>2. CASE UNCHANGED vars
  BY <1>2 DEF vars, BoolFree
<1> QED
  BY <1>1, <1>2

(* So no bool is made when there are none in the schemas.                  *)
LEMMA BoolsAreTame == ASSUME NoBools PROVE Spec => [][OneByteAtATime]_vars
<1>1. Init => BoolFree
  BY BoolFreeFirst
<1> QED
  BY <1>1, IInvHolds, BoolFreeStep, PTL DEF Spec

(* Once every call of a run ends a bool element inside the byte that was   *)
(* made room for, every write of every call lands in its buffer.           *)
THEOREM BuilderWritesInside == Spec /\ [][OneByteAtATime]_vars => []WritesInside
<1>1. IInv /\ TameInv => WritesInside
  <2> SUFFICES ASSUME IInv, TameInv PROVE WritesInside
    OBVIOUS
  <2>1. DOMAIN tree = 1..Len(tree) /\ \A p \in 1..Len(tree) : IsNode(tree[p])
    BY DEF IInv, Holds, Arranged
  <2>2. \A p \in 1..Len(tree) : \A b \in 1..3 : tree[p].sizes[b] \in 0..tree[p].caps[b]
    <3> SUFFICES ASSUME NEW p \in 1..Len(tree), NEW b \in 1..3 PROVE tree[p].sizes[b] \in 0..tree[p].caps[b]
      OBVIOUS
    <3>1. tree[p].sizes[b] \in Nat /\ tree[p].caps[b] \in Nat /\ tree[p].sizes[b] <= tree[p].caps[b]
      BY <2>1, NodeHas
    <3> QED
      BY <3>1
  <2> QED
    BY <2>1, <2>2 DEF WritesInside, TameInv, TamelyHolds
<1> QED
  BY <1>1, IInvHolds, TameInvHolds, PTL

(* Of schemas without bools, every write of every call lands in its buffer *)
(* whatever is called.                                                     *)
THEOREM WritesInsideWithoutBools == ASSUME NoBools PROVE Spec => []WritesInside
BY BoolsAreTame, BuilderWritesInside, PTL

(* The elements that ArrowArrayViewIsNull calls null. *)
Nulls(x) == {i \in 0..(x.length - 1) : IsNull(x, i)}
(* A bitmap that counts its zeros counts the nulls. *)
LEMMA BitmapNulls ==
  ASSUME NEW x, x.length \in Nat, Bitmap(x, x.length, x.null_count), x.type # "na", ~IsUnion(x)
  PROVE  x.null_count = Cardinality(Nulls(x))
<1> DEFINE s == x.at[1]
<1>1. s \in Seq(Flags) /\ ZeroCount(s) = x.null_count /\ (s = <<>> \/ Len(s) = x.length)
  BY DEF Bitmap, HasBitmap
<1>2. Nulls(x) = {i \in 0..(x.length - 1) : s # <<>> /\ s[i + 1] = 0}
  BY DEF Nulls, IsNull
<1> HIDE DEF s
<1>3. CASE s = <<>>
  BY <1>1, <1>2, <1>3, NoZeros, FS_EmptySet
<1>4. CASE s # <<>>
  BY <1>1, <1>2, <1>4 DEF Zeros, ZeroCount
<1> QED
  BY <1>3, <1>4

(* The first buffer's invariant is that the null count is right. *)
LEMMA FirstNulls ==
  ASSUME NEW x, IsNode(x), First(x, x.length, x.null_count)
  PROVE  x.null_count = Cardinality(Nulls(x))
<1>1. x.length \in Nat /\ x.type \in Types
  BY DEF IsNode
<1>2. CASE x.type = "na"
  <2>1. x.null_count = x.length
    BY <1>2 DEF First, IsUnion
  <2>2. Nulls(x) = 0..(x.length - 1)
    BY <1>2 DEF Nulls, IsNull
  <2>3. Cardinality(0..(x.length - 1)) = x.length
    BY <1>1, FS_Interval
  <2> QED
    BY <2>1, <2>2, <2>3
<1>3. CASE IsUnion(x)
  <2>1. x.null_count = 0 /\ x.type # "na"
    BY <1>3 DEF First, IsUnion
  <2>2. Nulls(x) = {}
    BY <1>3, <2>1 DEF Nulls, IsNull
  <2> QED
    BY <2>1, <2>2, FS_EmptySet
<1>4. CASE x.type # "na" /\ ~IsUnion(x)
  <2>1. Bitmap(x, x.length, x.null_count)
    BY <1>4 DEF First
  <2> QED
    BY <1>1, <1>4, <2>1, BitmapNulls
<1> QED
  BY <1>2, <1>3, <1>4

(* null_count is the number of nulls a reader finds, whatever was appended *)
(* to the array or refused by it.                                          *)
THEOREM BuilderCountsNulls == Spec => []NullsAreCounted
<1>1. IInv => NullsAreCounted
  <2> SUFFICES ASSUME IInv, damaged = FALSE, NEW p \in DOMAIN tree
               PROVE  tree[p].null_count = Cardinality({i \in 0..(tree[p].length - 1) : IsNull(tree[p], i)})
    BY DEF NullsAreCounted, IInv
  <2>1. p \in 1..Len(tree) /\ IsNode(tree[p]) /\ First(tree[p], tree[p].length, tree[p].null_count)
    BY DEF IInv, Holds, Arranged
  <2> QED
    BY <2>1, FirstNulls DEF Nulls
<1> QED
  BY <1>1, IInvHolds, PTL

(* What validation finds of an array in order.                             *)
LEMMA UnionNeeds ==
  ASSUME NEW x, x.type = "dense_union", NEW m \in Nat
  PROVE  Needed(x, 2, m) = 4 * m
<1>1. x.type \in Types
  BY DEF Types, Layout
<1>2. Kind(x, 2) = "union_offset" /\ Bits(x, 2) = 32
  BY <1>1, Laid
<1> QED
  BY <1>2 DEF Needed

(* Buffer b has the bytes of the node's elements, or needs none. *)
Suffices(x, b) ==
  \/ Kind(x, b) = "none"
  \/ Kind(x, b) = "validity" /\ x.null_count = 0 /\ x.sizes[b] = 0
  \/ x.sizes[b] >= Needed(x, b, x.length)
(* The first buffer of a filled node suffices. *)
LEMMA FirstSuffices ==
  ASSUME NEW x, IsNode(x), Filled(x)
  PROVE  Suffices(x, 1)
<1> DEFINE n == x.length
           s == x.at[1]
<1>1. x.type \in Types /\ n \in Nat /\ First(x, n, x.null_count)
  BY NodeHas DEF Filled
<1>2. x.sizes[1] \in Nat
  BY NodeSizes
<1> HIDE DEF n
<1>3. CASE x.type = "na"
  BY <1>1, <1>3, Laid DEF Suffices
<1>4. CASE IsUnion(x)
  <2>1. x.sizes[1] = n
    BY <1>1, <1>4 DEF First, IsUnion
  <2>2. Kind(x, 1) = "type_id"
    BY <1>1, <1>4, Laid DEF IsUnion
  <2>3. Needed(x, 1, n) = n
    BY <1>1, <2>2, NeededIs
  <2> QED
    BY <1>1, <2>1, <2>3 DEF Suffices, n
<1>5. CASE x.type # "na" /\ ~IsUnion(x)
  <2>1. Bitmap(x, n, x.null_count)
    BY <1>1, <1>5 DEF First
  <2>2. Kind(x, 1) = "validity"
    BY <1>1, <1>5, Laid
  <2>3. Needed(x, 1, n) = BytesForBits(n)
    BY <1>1, <2>2, NeededIs
  <2>4. ZeroCount(s) = x.null_count /\ x.sizes[1] = BytesForBits(Len(s)) /\ (s = <<>> \/ Len(s) = n)
    BY <2>1 DEF Bitmap, HasBitmap
  <2> HIDE DEF s
  <2>5. CASE s = <<>>
    <3>1. x.null_count = 0 /\ Len(s) = 0
      BY <2>4, <2>5, NoZeros
    <3>2. BytesForBits(0) = 0
      BY BytesHold
    <3> QED
      BY <2>2, <2>4, <3>1, <3>2 DEF Suffices
  <2>6. CASE Len(s) = n
    BY <1>2, <2>3, <2>4, <2>6 DEF Suffices, n
  <2> QED
    BY <2>4, <2>5, <2>6
<1> QED
  BY <1>3, <1>4, <1>5

(* So does the second, of a bool too while its size is that of its length. *)
LEMMA SecondSuffices ==
  ASSUME NEW x, IsNode(x), Filled(x), BoolSized(x)
  PROVE  Suffices(x, 2)
<1> DEFINE n == x.length
<1>1. x.type \in Types /\ n \in Nat /\ Second(x, n)
  BY NodeHas DEF Filled
<1>2. x.sizes[2] \in Nat
  BY NodeSizes
<1> HIDE DEF n
<1>3. CASE Kind(x, 2) = "data_offset"
  <2>1. x.sizes[2] = Width(x, 2) * (n + 1)
    BY <1>1, <1>3 DEF Second
  <2>2. CASE n = 0
    <3>1. Needed(x, 2, 0) = 0
      BY <1>3 DEF Needed
    <3> QED
      BY <1>2, <2>2, <3>1 DEF Suffices, n
  <2>3. CASE n # 0
    <3>1. Needed(x, 2, n) = Width(x, 2) * (n + 1)
      BY <1>1, <1>3, <2>3, NeededIs
    <3> QED
      BY <1>2, <2>1, <3>1 DEF Suffices, n
  <2> QED
    BY <2>2, <2>3
<1>4. CASE x.type = "bool"
  <2>1. x.sizes[2] = BytesForBits(n) /\ Needed(x, 2, n) = BytesForBits(n)
    BY <1>1, <1>4, NeededIs DEF BoolSized, n
  <2> QED
    BY <1>2, <2>1 DEF Suffices, n
<1>5. CASE x.type = "int16"
  <2>1. x.sizes[2] = 2 * n /\ Needed(x, 2, n) = 2 * n
    BY <1>1, <1>5, NeededIs DEF Second
  <2> QED
    BY <1>2, <2>1 DEF Suffices, n
<1>6. CASE x.type = "dense_union"
  <2>1. x.sizes[2] = 4 * n /\ Needed(x, 2, n) = 4 * n
    BY <1>1, <1>6, UnionNeeds DEF Second
  <2> QED
    BY <1>2, <2>1 DEF Suffices, n
<1>7. CASE Kind(x, 2) = "none"
  BY <1>7 DEF Suffices
<1> QED
  BY <1>1, <1>3, <1>4, <1>5, <1>6, <1>7, Laid

---------------------------------------------------------------------------
(* What the view of a node says of it. *)
LEMMA SeenIs ==
  ASSUME NEW x, x.length \in Nat
  PROVE  LET v == SeenNode(x) IN
           /\ v.type = x.type /\ v.offset = 0 /\ v.length = x.length /\ v.null_count = x.null_count
           /\ v.sizes = x.sizes /\ v.kids = x.kids /\ End(v) = x.length
           /\ \A b : Kind(v, b) = Kind(x, b) /\ Bits(v, b) = Bits(x, b)
           /\ \A b, m : Needed(v, b, m) = Needed(x, b, m) /\ MinSize(v, b, m) = MinSize(x, b, m)
<1> DEFINE v == SeenNode(x)
<1>1. /\ v.type = x.type /\ v.offset = 0 /\ v.length = x.length /\ v.null_count = x.null_count
      /\ v.sizes = x.sizes /\ v.kids = x.kids
  BY DEF SeenNode
<1> HIDE DEF v
<1>2. End(v) = x.length
  BY <1>1 DEF End
<1>3. \A b : Kind(v, b) = Kind(x, b) /\ Bits(v, b) = Bits(x, b)
  BY <1>1 DEF Kind, Bits
<1>4. \A b, m : Needed(v, b, m) = Needed(x, b, m)
  BY <1>3 DEF Needed
<1>5. \A b, m : MinSize(v, b, m) = MinSize(x, b, m)
  BY <1>3, <1>4 DEF MinSize
<1> QED
  BY <1>1, <1>2, <1>3, <1>4, <1>5 DEF v

(* A buffer that suffices passes ArrowArrayViewValidateMinimal's test of   *)
(* it.                                                                     *)
LEMMA FitPasses ==
  ASSUME NEW x, x.type \in Types, x.length \in Nat, NEW b \in 1..3, Suffices(x, b), x.sizes[b] \in Nat
  PROVE  Fit(SeenNode(x), b) = OK(SeenNode(x))
<1> DEFINE v == SeenNode(x)
<1>1. /\ v.null_count = x.null_count /\ v.sizes = x.sizes /\ End(v) = x.length
      /\ Kind(v, b) = Kind(x, b) /\ MinSize(v, b, x.length) = MinSize(x, b, x.length)
  BY SeenIs
<1> HIDE DEF v
<1>7. /\ MinSize(x, b, x.length) \in Int /\ Needed(x, b, x.length) \in Nat
      /\ MinSize(x, b, x.length) <= Needed(x, b, x.length)
  BY MinSizeIs, NeededIs
<1>2. Extent(v) = x.length
  BY <1>1 DEF Extent
<1>3. v.sizes[b] # Unknown
  BY <1>1 DEF Unknown
<1>4. Fit(v, b) = IF Kind(v, b) = "none" \/ Optional(v, b) THEN OK(v) ELSE Check(v, v.sizes[b] >= MinSize(v, b, Extent(v)))
  BY <1>3 DEF Fit
<1>5. CASE Kind(v, b) = "none" \/ Optional(v, b)
  BY <1>4, <1>5 DEF v
<1>6. CASE ~(Kind(v, b) = "none" \/ Optional(v, b))
  <2>1. x.sizes[b] >= Needed(x, b, x.length)
    BY <1>1, <1>6 DEF Suffices, Optional
  <2>2. v.sizes[b] >= MinSize(v, b, Extent(v))
    BY <1>1, <1>2, <1>7, <2>1
  <2> QED
    BY <1>4, <1>6, <2>2 DEF Check, v
<1> QED
  BY <1>5, <1>6

(* A check that passes. *)
LEMMA OKIs == ASSUME NEW v PROVE OK(v).view = v /\ OK(v).ok = TRUE /\ OK(v).wild = FALSE
BY DEF OK

(* What the view of a tree in order says of its nodes. *)
LEMMA SeenNodes ==
  ASSUME NEW t, InOrder(t)
  PROVE  LET v == ViewOf(t) IN
           /\ DOMAIN v = 1..Len(t) /\ v = [p \in 1..Len(t) |-> v[p]]
           /\ \A p \in 1..Len(t) :
                /\ v[p] = SeenNode(t[p]) /\ t[p].length \in Nat /\ v[p].kids = t[p].kids
                /\ v[p].type = t[p].type /\ End(v[p]) = t[p].length
                /\ v[p].offset = 0 /\ v[p].length = t[p].length /\ v[p].sizes = t[p].sizes
                /\ \A b : Kind(v[p], b) = Kind(t[p], b)
                /\ \A k \in 1..Len(t[p].kids) : Kid(v, p, k).length = Kid(t, p, k).length
<1> DEFINE v == ViewOf(t)
<1>1. v = [p \in DOMAIN t |-> SeenNode(t[p])]
  BY ViewOfIs
<1>2. DOMAIN t = 1..Len(t) /\ \A p \in 1..Len(t) : KidsBelow(t, p)
  BY DEF InOrder, Arranged
<1> HIDE DEF v
<1>3. DOMAIN v = 1..Len(t) /\ v = [p \in 1..Len(t) |-> v[p]] /\ \A p \in 1..Len(t) : v[p] = SeenNode(t[p])
  BY <1>1, <1>2
<1>4. \A p \in 1..Len(t) : t[p].length \in Nat
  BY NodeHas DEF InOrder
<1>5. ASSUME NEW p \in 1..Len(t)
      PROVE  /\ v[p].kids = t[p].kids /\ v[p].type = t[p].type /\ End(v[p]) = t[p].length
             /\ v[p].offset = 0 /\ v[p].length = t[p].length /\ v[p].sizes = t[p].sizes
             /\ \A b : Kind(v[p], b) = Kind(t[p], b)
  BY <1>3, <1>4, SeenIs
<1>6. ASSUME NEW p \in 1..Len(t), NEW k \in 1..Len(t[p].kids)
      PROVE  Kid(v, p, k).length = Kid(t, p, k).length
  <2>1. t[p].kids[k] \in 1..Len(t)
    BY <1>2 DEF KidsBelow
  <2> QED
    BY <1>5, <2>1 DEF Kid
<1> QED
  BY <1>3, <1>4, <1>5, <1>6 DEF v

(* The children of a node in order are long enough for the view. *)
LEMMA KidsSuffice ==
  ASSUME NEW t, InOrder(t), NEW p \in 1..Len(t)
  PROVE  ChildrenSuffice(ViewOf(t), p)
<1> DEFINE v == ViewOf(t)
           n == t[p].length
           s == t[p].kids
<1>1. /\ v[p].type = t[p].type /\ v[p].kids = s /\ End(v[p]) = n
      /\ \A k \in 1..Len(s) : Kid(v, p, k).length = Kid(t, p, k).length
  BY SeenNodes
<1>2. FitsAt(t, p) /\ t[p].type \in Types /\ DOMAIN s = 1..Len(s)
      /\ (t[p].type \in {"list", "fixed_size_list"} => Len(s) = 1)
  BY NodeHas DEF InOrder, Arranged, KidsBelow
<1>3. \A k \in 1..Len(s) : Kid(t, p, k).length \in Nat
  BY SeenNodes DEF InOrder, Arranged, KidsBelow, Kid
<1>4. n \in Nat
  BY SeenNodes
<1> HIDE DEF v
<1>5. t[p].type # "run_end_encoded"
  BY <1>2 DEF Types
<1>6. CASE t[p].type = "list"
  BY <1>1, <1>2, <1>6 DEF ChildrenSuffice, v
<1>7. CASE t[p].type = "fixed_size_list"
  <2>1. Len(s) = 1 /\ n * ListSize <= Kid(t, p, 1).length
    BY <1>2, <1>7 DEF FitsAt
  <2>2. Kid(v, p, 1).length = Kid(t, p, 1).length /\ Kid(t, p, 1).length \in Nat
    BY <1>1, <1>3, <2>1
  <2>3. n * ListSize \in Nat
    BY <1>4, ListSizeAssumption, Products
  <2>4. InChild(n) \in Int /\ InChild(n) <= n * ListSize
    <3> HIDE DEF n
    <3>1. InChild(n) \in Int /\ (n >= 0 /\ ListSize >= 0 => InChild(n) <= n * ListSize)
      BY <1>4, InChildIs
    <3> QED
      BY <1>4, <3>1, ListSizeAssumption
  <2> DEFINE m == n * ListSize
             k == InChild(n)
  <2>5. k \in Int /\ m \in Nat /\ k <= m /\ m <= Kid(t, p, 1).length
    BY <2>1, <2>3, <2>4
  <2> HIDE DEF m, k
  <2>6. Kid(v, p, 1).length >= k
    BY <2>2, <2>5
  <2>7. Len(v[p].kids) = 1 /\ Kid(v, p, 1).length >= InChild(End(v[p]))
    BY <1>1, <2>1, <2>6 DEF k
  <2> QED
    BY <1>1, <1>7, <2>7 DEF ChildrenSuffice, v
<1>8. CASE t[p].type \in {"struct", "sparse_union"}
  <2>1. \A k \in 1..Len(s) : n <= Kid(t, p, k).length
    BY <1>2, <1>8 DEF FitsAt
  <2>2. \A k \in 1..Len(s) : Kid(v, p, k).length >= n
    BY <1>1, <1>3, <1>4, <2>1
  <2> QED
    BY <1>1, <1>2, <1>8, <2>2 DEF ChildrenSuffice, v
<1>9. CASE t[p].type \notin {"list", "fixed_size_list", "struct", "sparse_union"}
  BY <1>1, <1>5, <1>9 DEF ChildrenSuffice, v
<1> QED
  BY <1>6, <1>7, <1>8, <1>9

(* A node in order passes ArrowArrayViewValidateMinimal. *)
LEMMA MinimalPasses ==
  ASSUME NEW t, InOrder(t), BoolsSized(t), Countable(t), NEW p \in 1..Len(t)
  PROVE  MinimalAt(ViewOf(t), p) = OK(ViewOf(t)[p])
<1> DEFINE v == ViewOf(t)
           x == t[p]
<1>1. /\ v[p] = SeenNode(x) /\ x.length \in Nat /\ v[p].offset = 0 /\ v[p].length = x.length
      /\ End(v[p]) = x.length
  BY SeenNodes
<1>2. IsNode(x) /\ Filled(x) /\ BoolSized(x)
  BY DEF InOrder, BoolsSized
<1>3. Suffices(x, 1) /\ Suffices(x, 2) /\ x.sizes[1] \in Nat /\ x.sizes[2] \in Nat /\ x.type \in Types
  BY <1>2, FirstSuffices, SecondSuffices, NodeSizes, NodeHas
<1>4. Fit(v[p], 1) = OK(v[p]) /\ Fit(v[p], 2) = OK(v[p])
  <2> HIDE DEF v, x
  <2>1. 1 \in 1..3 /\ 2 \in 1..3
    OBVIOUS
  <2> QED
    BY <1>1, <1>3, <2>1, FitPasses
<1>5. Check(v[p], ChildrenSuffice(v, p)) = OK(v[p])
  BY KidsSuffice DEF Check
<1>6. ~(v[p].length < 0 \/ v[p].offset < 0 \/ End(v[p]) > Int64Max)
  <2>1. x.length <= Int64Max
    BY DEF Countable, InOrder, Arranged
  <2> HIDE DEF v, x
  <2> QED
    BY <1>1, <2>1, ViewAssumption
<1> HIDE DEF v, x
<1>7. MinimalAt(v, p) = Then(Then(Fit(v[p], 1), LAMBDA u : Fit(u, 2)), LAMBDA u : Check(u, ChildrenSuffice(v, p)))
  BY Zenon, <1>6 DEF MinimalAt
<1>8. MinimalAt(v, p) = Then(Then(OK(v[p]), LAMBDA u : Fit(u, 2)), LAMBDA u : Check(u, ChildrenSuffice(v, p)))
  BY Zenon, <1>4, <1>7
<1>9. Then(OK(v[p]), LAMBDA u : Fit(u, 2)) = OK(v[p])
  BY Zenon, <1>4, OKIs DEF Then
<1>10. Then(OK(v[p]), LAMBDA u : Check(u, ChildrenSuffice(v, p))) = OK(v[p])
  BY Zenon, <1>5, OKIs DEF Then
<1> QED
  BY Zenon, <1>8, <1>9, <1>10 DEF v

(* The offsets the view reads are those that were appended. *)
LEMMA OffsetsRead ==
  ASSUME NEW t, InOrder(t), NEW p \in 1..Len(t), Kind(t[p], 2) = "data_offset", NEW i \in 0..t[p].length
  PROVE  LET v == ViewOf(t)[p] IN
           HasInt(v, i) /\ GetInt(v, i) = t[p].at[2][i + 1] /\ GetInt(v, i) \in Nat
<1> DEFINE v == ViewOf(t)[p]
           s == t[p].at[2]
           n == t[p].length
<1>1. v = SeenNode(t[p]) /\ n \in Nat /\ v.offset = 0
  BY SeenNodes
<1>2. Rising(s, n)
  BY DEF InOrder, Filled, Second
<1> HIDE DEF v
<1>3. v.ints = ZeroBased(s)
  BY <1>1 DEF SeenNode
<1> HIDE DEF s, n
<1>4. s \in Seq(Nat) /\ Len(s) = n + 1
  BY <1>2 DEF Rising
<1>5. i \in 0..n
  BY DEF n
<1>6. 0 + i = i /\ i \in 0..(Len(s) - 1) /\ i + 1 \in 1..Len(s)
  BY <1>1, <1>4, <1>5
<1>7. v.ints[0 + i] = s[i + 1] /\ 0 + i \in DOMAIN v.ints
  BY <1>3, <1>6 DEF ZeroBased
<1>8. s[i + 1] \in Nat
  BY <1>4, <1>6
<1> QED
  BY <1>1, <1>7, <1>8 DEF HasInt, GetInt, v, s

(* The last offset lies within the child or the data. *)
LEMMA LastPasses ==
  ASSUME NEW t, InOrder(t), NEW p \in 1..Len(t), Kind(t[p], 2) = "data_offset"
  PROVE  LastOffset(ViewOf(t), p) = OK(ViewOf(t)[p])
<1> DEFINE w == ViewOf(t)
           v == w[p]
           x == t[p]
           n == x.length
           final == GetInt(v, v.length)
<1>1. /\ v.type = x.type /\ v.length = n /\ v.sizes = x.sizes /\ n \in Nat
      /\ \A k \in 1..Len(x.kids) : Kid(w, p, k).length = Kid(t, p, k).length
  BY SeenNodes
<1>2. IsNode(x) /\ Second(x, n) /\ FitsAt(t, p) /\ x.type \in Types
  BY NodeHas DEF InOrder, Filled
<1>3. 0 \in 0..n /\ n \in 0..n
  BY <1>1
<1>4. HasInt(v, 0) /\ GetInt(v, 0) \in Nat
  BY <1>3, OffsetsRead
<1>5. HasInt(v, v.length) /\ final = x.at[2][n + 1] /\ final \in Nat
  BY <1>1, <1>3, OffsetsRead
<1>6. x.sizes[3] \in Nat
  BY <1>2, NodeSizes
<1>7. x.sizes[2] # 0
  <2>1. x.sizes[2] = Width(x, 2) * (n + 1) /\ Width(x, 2) \in {4, 8}
    BY <1>2, Laid DEF Second
  <2> HIDE DEF x, n
  <2> QED
    BY <1>1, <2>1
<1>8. EndsNonNegative(v)
  BY <1>4, <1>5 DEF EndsNonNegative
<1>9. v.type = "list" => Kid(w, p, 1).length >= final
  <2> SUFFICES ASSUME v.type = "list" PROVE Kid(w, p, 1).length >= final
    OBVIOUS
  <2>1. Len(x.kids) = 1 /\ x.kids[1] \in 1..Len(t)
    BY <1>1, FirstKid DEF InOrder, Arranged, KidsBelow
  <2>2. Kid(t, p, 1).length \in Nat /\ Kid(w, p, 1).length = Kid(t, p, 1).length
    <3>1. Kid(t, p, 1).length \in Nat
      BY <2>1, SeenNodes DEF Kid
    <3>2. 1 \in 1..Len(x.kids)
      BY <2>1
    <3> QED
      BY <1>1, <3>1, <3>2
  <2>3. x.at[2][n + 1] <= Kid(t, p, 1).length
    BY <1>1, <1>2 DEF FitsAt
  <2> QED
    BY <1>5, <2>2, <2>3
<1>10. v.type # "list" => v.sizes[3] >= final
  BY <1>1, <1>2, <1>5, <1>6 DEF Second, Ends
<1>11. v.sizes[3] # Unknown
  BY <1>1, <1>6 DEF Unknown
<1> HIDE DEF w, v, x, n, final
<1>12. LastOffset(w, p) =
         IF v.type = "list" THEN Check(v, Kid(w, p, 1).length >= final) ELSE Check(v, v.sizes[3] >= final)
  BY <1>1, <1>4, <1>5, <1>7, <1>8, <1>11, Zenon DEF LastOffset, v, final
<1> QED
  BY <1>9, <1>10, <1>12 DEF Check, v, w

(* A node in order passes ArrowArrayViewValidateDefault. *)
LEMMA DefaultPasses ==
  ASSUME NEW t, InOrder(t), NEW p \in 1..Len(t)
  PROVE  DefaultAt(ViewOf(t), p) = OK(ViewOf(t)[p])
<1> DEFINE w == ViewOf(t)
           v == w[p]
<1>1. v.type = t[p].type /\ Kind(v, 2) = Kind(t[p], 2) /\ v.type \in Types
  <2>1. t[p].type \in Types
    BY NodeHas DEF InOrder
  <2>2. v.type = t[p].type
    BY SeenNodes
  <2>3. Kind(v, 2) = Kind(t[p], 2)
    BY <2>2 DEF Kind
  <2> QED
    BY <2>1, <2>2, <2>3
<1>2. v.type # "run_end_encoded"
  BY <1>1 DEF Types
<1>3. ChildrenSuffice(w, p)
  BY KidsSuffice
<1>4. Kind(v, 2) = "data_offset" => LastOffset(w, p) = OK(v)
  BY <1>1, LastPasses
<1> HIDE DEF w, v
<1>5. Check(v, v.type = "struct" => ChildrenSuffice(w, p)) = OK(v)
  BY <1>3 DEF Check
<1> QED
  BY <1>2, <1>4, <1>5 DEF DefaultAt, v, w

(* The offsets that are compared are no more than there are. *)
LEMMA ComparedIs ==
  ASSUME NEW x, x.type \in Types, Kind(x, 2) = "data_offset", x.length \in Nat
  PROVE  Compared(x) \in Int /\ Compared(x) <= x.length + 1
<1> DEFINE w == Bits(x, 2) \div 8
           n == x.length + 1
           k == w * n
           h == Wrapped(k)
<1>1. w \in {4, 8} /\ n \in Nat
  BY Laid
<1>2. Compared(x) = h \div w
  BY DEF Compared
<1> HIDE DEF w, n
<1>3. k \in Nat /\ k \div w = n
  BY <1>1
<1> HIDE DEF k
<1>4. h \in Int /\ h <= k
  BY <1>3, WrappedIs, ViewAssumption DEF Int64s
<1> HIDE DEF h
<1>5. h \div w \in Int /\ h \div w <= k \div w
  BY <1>1, <1>3, <1>4
<1> QED
  BY <1>2, <1>3, <1>5 DEF n

(* A node in order that is no union passes ArrowArrayViewValidateFull. *)
LEMMA FullPasses ==
  ASSUME NEW t, InOrder(t), NEW p \in 1..Len(t), ~IsUnion(t[p])
  PROVE  FullAt(ViewOf(t), p) = OK(ViewOf(t)[p])
<1> DEFINE w == ViewOf(t)
           v == w[p]
           n == t[p].length
           s == t[p].at[2]
<1>1. v.type = t[p].type /\ Kind(v, 2) = Kind(t[p], 2) /\ v.type \in Types /\ v.length = n /\ n \in Nat
  <2>1. t[p].type \in Types
    BY NodeHas DEF InOrder
  <2>2. v.type = t[p].type
    BY SeenNodes
  <2>3. Kind(v, 2) = Kind(t[p], 2)
    BY <2>2 DEF Kind
  <2>4. v.length = n /\ n \in Nat
    BY SeenNodes
  <2> QED
    BY <2>1, <2>2, <2>3, <2>4
<1>2. v.type \notin {"run_end_encoded", "sparse_union", "dense_union"}
  BY <1>1 DEF Types, IsUnion
<1>3. ASSUME Kind(v, 2) = "data_offset" PROVE OffsetsIncrease(v) = OK(v)
  <2> DEFINE c == Compared(v)
  <2>6. n > 0 => c \in Int /\ c <= n + 1
    <3> SUFFICES ASSUME n > 0 PROVE c \in Int /\ c <= n + 1
      OBVIOUS
    <3>1. v.offset = 0
      BY SeenNodes
    <3> HIDE DEF v, n
    <3> QED
      BY <1>1, <1>3, <3>1, ComparedIs
  <2>1. Rising(s, n)
    BY <1>1, <1>3 DEF InOrder, Filled, Second
  <2>2. \A i \in 0..n : HasInt(v, i) /\ GetInt(v, i) = s[i + 1] /\ GetInt(v, i) \in Nat
    BY <1>1, <1>3, OffsetsRead
  <2> HIDE DEF v, n, s, c
  <2>3. ASSUME NEW i \in 1..n PROVE GetInt(v, i) >= GetInt(v, i - 1)
    <3>1. i \in 0..n /\ i - 1 \in 0..n /\ (i - 1) + 1 = i
      BY <1>1
    <3>2. s[i] <= s[i + 1]
      BY <2>1 DEF Rising
    <3>3. GetInt(v, i) = s[i + 1] /\ GetInt(v, i) \in Nat
      BY <2>2, <3>1
    <3>4. GetInt(v, i - 1) = s[i] /\ GetInt(v, i - 1) \in Nat
      BY <2>2, <3>1
    <3> QED
      BY <3>2, <3>3, <3>4
  <2>4. CASE n = 0
    BY <1>1, <2>4 DEF OffsetsIncrease
  <2>5. CASE n # 0
    <3>1. c \in Int /\ c <= n + 1 /\ v.length # 0
      BY <1>1, <2>5, <2>6
    <3>2. ~(\E i \in 0..(c - 1) : ~HasInt(v, i))
      <4>1. \A i \in 0..(c - 1) : i \in 0..n
        BY <1>1, <3>1
      <4> QED
        BY <2>2, <4>1
    <3>3. \A i \in 1..(c - 1) : GetInt(v, i) >= GetInt(v, i - 1)
      <4>1. \A i \in 1..(c - 1) : i \in 1..n
        BY <1>1, <3>1
      <4> QED
        BY <2>3, <4>1
    <3> QED
      BY <3>1, <3>2, <3>3, Zenon DEF OffsetsIncrease, Check, c
  <2> QED
    BY <2>4, <2>5
<1> HIDE DEF w, v
<1> QED
  BY <1>2, <1>3 DEF FullAt, v, w

---------------------------------------------------------------------------
(* A tree in order passes ArrowArrayViewValidateMinimal. *)
LEMMA MinimalTree ==
  ASSUME NEW t, InOrder(t), BoolsSized(t), Countable(t)
  PROVE  ValidateMinimal(ViewOf(t)).ok = TRUE /\ ValidateMinimal(ViewOf(t)).view = ViewOf(t)
<1> DEFINE v == ViewOf(t)
           Reached(p) == \A q \in 1..(p - 1) : MinimalAt(v, q).ok
<1>1. DOMAIN v = 1..Len(t) /\ v = [p \in 1..Len(t) |-> v[p]]
  BY SeenNodes
<1>2. \A p \in 1..Len(t) : MinimalAt(v, p).ok = TRUE /\ MinimalAt(v, p).view = v[p]
  <2> SUFFICES ASSUME NEW p \in 1..Len(t) PROVE MinimalAt(v, p).ok = TRUE /\ MinimalAt(v, p).view = v[p]
    OBVIOUS
  <2>1. MinimalAt(v, p) = OK(v[p])
    BY MinimalPasses
  <2> HIDE DEF v
  <2> QED
    BY <2>1, OKIs, Zenon
<1> HIDE DEF v
<1>3. /\ ValidateMinimal(v).ok = \A p \in DOMAIN v : MinimalAt(v, p).ok
      /\ ValidateMinimal(v).view = [p \in DOMAIN v |-> IF Reached(p) THEN MinimalAt(v, p).view ELSE v[p]]
  BY DEF ValidateMinimal, Visit
<1> HIDE DEF Reached
<1>4. [p \in DOMAIN v |-> IF Reached(p) THEN MinimalAt(v, p).view ELSE v[p]] = v
  BY <1>1, <1>2
<1> QED
  BY <1>1, <1>2, <1>3, <1>4 DEF v

(* A tree in order passes ArrowArrayViewValidateDefault. *)
LEMMA DefaultTree ==
  ASSUME NEW t, InOrder(t), BoolsSized(t), Countable(t)
  PROVE  ValidateDefault(ViewOf(t)).ok = TRUE /\ ValidateDefault(ViewOf(t)).view = ViewOf(t)
<1> DEFINE v == ViewOf(t)
           Reached(p) == \A q \in 1..(p - 1) : DefaultAt(v, q).ok
           r == Visit(v, LAMBDA p : DefaultAt(v, p))
<1>1. DOMAIN v = 1..Len(t) /\ v = [p \in 1..Len(t) |-> v[p]]
  BY SeenNodes
<1>2. \A p \in 1..Len(t) : DefaultAt(v, p).ok = TRUE /\ DefaultAt(v, p).view = v[p]
  <2> SUFFICES ASSUME NEW p \in 1..Len(t) PROVE DefaultAt(v, p).ok = TRUE /\ DefaultAt(v, p).view = v[p]
    OBVIOUS
  <2>1. DefaultAt(v, p) = OK(v[p])
    BY DefaultPasses
  <2> HIDE DEF v
  <2> QED
    BY <2>1, OKIs, Zenon
<1>3. ValidateMinimal(v).ok = TRUE /\ ValidateMinimal(v).view = v
  BY MinimalTree
<1> HIDE DEF v
<1>4. /\ r.ok = \A p \in DOMAIN v : DefaultAt(v, p).ok
      /\ r.view = [p \in DOMAIN v |-> IF Reached(p) THEN DefaultAt(v, p).view ELSE v[p]]
  BY DEF Visit
<1>5. ValidateDefault(v) = r
  BY <1>3 DEF ValidateDefault, Then, Visit
<1> HIDE DEF r, Reached
<1>6. [p \in DOMAIN v |-> IF Reached(p) THEN DefaultAt(v, p).view ELSE v[p]] = v
  BY <1>1, <1>2
<1> QED
  BY <1>1, <1>2, <1>4, <1>5, <1>6 DEF v

(* A tree in order without unions passes ArrowArrayViewValidateFull. *)
LEMMA FullTree ==
  ASSUME NEW t, InOrder(t), \A p \in 1..Len(t) : ~IsUnion(t[p])
  PROVE  ValidateFull(ViewOf(t)).ok = TRUE
<1> DEFINE v == ViewOf(t)
<1>1. DOMAIN v = 1..Len(t)
  BY SeenNodes
<1>2. \A p \in 1..Len(t) : FullAt(v, p).ok = TRUE
  <2> SUFFICES ASSUME NEW p \in 1..Len(t) PROVE FullAt(v, p).ok = TRUE
    OBVIOUS
  <2>1. FullAt(v, p) = OK(v[p])
    BY FullPasses
  <2> HIDE DEF v
  <2> QED
    BY <2>1, OKIs, Zenon
<1> HIDE DEF v
<1>3. ValidateFull(v).ok = \A p \in DOMAIN v : FullAt(v, p).ok
  BY DEF ValidateFull, Visit
<1> QED
  BY <1>1, <1>2, <1>3 DEF v

(* ArrowArrayFinishBuilding accepts a tree in order: at the default level  *)
(* always, at the full one if it has no unions.                            *)
LEMMA InOrderAccepted ==
  ASSUME NEW t, InOrder(t), BoolsSized(t), Countable(t)
  PROVE  /\ Accepts(t, Default)
         /\ (\A p \in 1..Len(t) : ~IsUnion(t[p])) => Accepts(t, Full)
<1> DEFINE v == ViewOf(t)
<1>1. /\ ValidateDefault(v).ok = TRUE /\ ValidateDefault(v).view = v
      /\ (\A p \in 1..Len(t) : ~IsUnion(t[p])) => ValidateFull(v).ok = TRUE
  BY DefaultTree, FullTree
<1>2. \A level : Accepts(t, level) = Validated(v, level).ok
  BY Zenon DEF Accepts, ViewOf
<1> HIDE DEF v
<1>3. Validated(v, Default) = ValidateDefault(v)
  BY DEF Validated, None, Minimal, Default, Full
<1>4. Validated(v, Full) = Then(ValidateDefault(v), ValidateFull)
  BY DEF Validated, None, Minimal, Default, Full
<1>5. Then(ValidateDefault(v), ValidateFull) = ValidateFull(v)
  BY Zenon, <1>1 DEF Then
<1> QED
  BY <1>1, <1>2, <1>3, <1>4, <1>5

(* No call leaves more elements than int64 counts. *)
CountInv == Countable(tree)
LEMMA CountableHolds == Spec => []CountInv
<1>1. Init => CountInv
  <2> SUFFICES ASSUME Init, NEW p \in DOMAIN tree PROVE tree[p].length <= Int64Max
    BY DEF Countable, CountInv
  <2>1. PICK b \in Builds : tree = [q \in DOMAIN b[1] |-> NewNode(b[1][q])]
    BY DEF Init
  <2>2. tree[p].length = 0
    BY <2>1 DEF NewNode
  <2> QED
    BY <2>2, ViewAssumption
<1>2. ASSUME CountInv, [Next]_vars PROVE CountInv'
  <2>1. ASSUME NEW call, NEW p, NEW arg, NEW r, Result(call, p, arg, r) PROVE CountInv'
    BY <2>1 DEF Result, CountInv
  <2>2. CASE Start
    BY <2>1, <2>2 DEF Start
  <2>3. CASE AppendNulls
    BY <2>1, <2>3 DEF AppendNulls
  <2>4. CASE AppendEmpties
    BY <2>1, <2>4 DEF AppendEmpties
  <2>5. CASE AppendAnInt
    BY <2>1, <2>5 DEF AppendAnInt
  <2>6. CASE AppendText
    BY <2>1, <2>6 DEF AppendText
  <2>7. CASE Finish
    BY <2>1, <2>7 DEF Finish
  <2>8. CASE FinishUnion
    BY <2>1, <2>8 DEF FinishUnion
  <2>9. CASE ReserveMore
    BY <2>1, <2>9 DEF ReserveMore
  <2>10. CASE Shrink
    BY <2>1, <2>10 DEF Shrink
  <2>11. CASE FinishBuilding
    <3>1. \E p, arg, r : Result("build", p, arg, r)
      BY <2>11 DEF FinishBuilding
    <3> QED
      BY <2>1, <3>1
  <2>12. CASE UNCHANGED vars
    BY <1>2, <2>12 DEF vars, CountInv
  <2> QED
    BY <1>2, <2>2, <2>3, <2>4, <2>5, <2>6, <2>7, <2>8, <2>9, <2>10, <2>11, <2>12 DEF Next
<1> QED
  BY <1>1, <1>2, PTL DEF Spec

(* Built under the same condition, an array whose allocations succeeded is *)
(* accepted at every level, and one that holds a union up to the default.  *)
THEOREM BuilderIsAcceptable == Spec /\ [][OneByteAtATime]_vars => []AlwaysAcceptable
<1>1. IInv /\ TameInv /\ CountInv => AlwaysAcceptable
  <2> SUFFICES ASSUME IInv, TameInv, CountInv, Started, damaged = FALSE
               PROVE  Accepts(tree, IF HasUnion THEN Default ELSE Full)
    BY DEF AlwaysAcceptable, IInv
  <2>1. InOrder(tree) /\ DOMAIN tree = 1..Len(tree)
    BY UsableMeans DEF Usable
  <2>2. BoolsSized(tree)
    BY DEF TameInv, TamelyHolds, Started, HasStarted
  <2>3. Accepts(tree, Default) /\ ((\A p \in 1..Len(tree) : ~IsUnion(tree[p])) => Accepts(tree, Full))
    BY <2>1, <2>2, InOrderAccepted DEF CountInv
  <2> QED
    BY <2>1, <2>3 DEF HasUnion
<1> QED
  BY <1>1, IInvHolds, TameInvHolds, CountableHolds, PTL

(* Of schemas without bools, what is built in full is accepted.            *)
THEOREM AcceptableWithoutBools == ASSUME NoBools PROVE Spec => []AlwaysAcceptable
BY BoolsAreTame, BuilderIsAcceptable, PTL

(* Calls that find the room they need reallocate nothing.                  *)
LEMMA RoomLeft ==
  ASSUME NEW x, NEW f, NEW b, NEW extra, x.sizes[b] + extra <= x.caps[b]
  PROVE  BufferReserve(Begin(x, f), b, extra) = Begin(x, f)
BY Goes DEF BufferReserve

(* An append within the room needs no memory. *)
LEMMA AppendsFine ==
  ASSUME NEW x, NEW f, NEW b, NEW items, NEW bytes, x.sizes[b] + bytes <= x.caps[b]
  PROVE  BufferAppend(Begin(x, f), b, items, bytes).err = "OK"
<1> DEFINE c == Begin(x, f)
           r == BufferReserve(c, b, bytes)
           d == BufferAppendUnsafe(c, b, items, bytes)
<1>0. c.err = "OK"
  BY DEF Begin
<1>1. r = c
  BY RoomLeft
<1>2. BufferAppend(c, b, items, bytes) = IF r.err = "OK" THEN BufferAppendUnsafe(r, b, items, bytes) ELSE r
  BY Zenon DEF BufferAppend, Continue
<1>3. d.err = "OK"
  BY DEF BufferAppendUnsafe, Begin
<1> HIDE DEF c, r, d
<1> QED
  BY <1>0, <1>1, <1>2, <1>3 DEF c, d

(* So does an append of bits. *)
LEMMA MarksFine ==
  ASSUME NEW x, NEW f, NEW bit, NEW n, BytesForBits(Len(x.at[1]) + n) <= x.caps[1]
  PROVE  BitmapAppend(Begin(x, f), bit, n).err = "OK"
<1> DEFINE c == Begin(x, f)
           r == BitmapReserve(c, n)
           d == BitmapAppendUnsafe(c, bit, n)
<1>0. c.err = "OK" /\ c.node = x
  BY DEF Begin
<1>1. r = c
  <2> HIDE DEF c
  <2> QED
    BY <1>0 DEF BitmapReserve
<1>2. BitmapAppend(c, bit, n) = IF r.err = "OK" THEN BitmapAppendUnsafe(r, bit, n) ELSE r
  BY Zenon DEF BitmapAppend, Continue
<1>3. d.err = "OK"
  BY DEF BitmapAppendUnsafe, Begin
<1> HIDE DEF c, r, d
<1> QED
  BY <1>0, <1>1, <1>2, <1>3 DEF c, d

(* And one of data bits. *)
LEMMA BitsFine ==
  ASSUME NEW x, IsNode(x), NEW f, NEW v, NEW n \in Nat \ {0}, BytesForBits(x.length + n) <= x.caps[2]
  PROVE  AppendBits(Begin(x, f), v, n).err = "OK"
<1> DEFINE c == Begin(x, f)
           extra == BytesForBits(x.length + 1) - x.sizes[2]
           room == IF extra <= 0 THEN c ELSE BufferReserve(c, 2, extra)
           size == IF extra > 0 THEN x.sizes[2] + extra ELSE x.sizes[2]
           items == SubSeq(x.at[2], 1, x.length) \o Repeat(v, n)
           over == BytesForBits(x.length + n) > x.caps[2]
           d == AppendBits(c, v, n)
<1>1. x.length \in Nat /\ x.sizes[2] \in Nat /\ x.caps[2] \in Nat
  BY NodeHas, NodeSizes
<1>2. BytesForBits(x.length + 1) <= BytesForBits(x.length + n) /\ BytesForBits(x.length + 1) \in Nat
      /\ BytesForBits(x.length + n) \in Nat
  <2>1. x.length + 1 \in Nat /\ x.length + n \in Nat /\ x.length + 1 <= x.length + n
    BY <1>1
  <2> QED
    BY <2>1, BytesGrow, BytesHold
<1>3. x.sizes[2] + extra <= x.caps[2]
  BY <1>1, <1>2
<1>4. BufferReserve(c, 2, extra) = c
  BY <1>3, RoomLeft
<1>5. room = c
  <2> HIDE DEF c, extra
  <2> QED
    BY <1>4
<1>6. c.node = x
  BY DEF Begin
<1>7. c.err = "OK"
  BY DEF Begin
<1>8. room = LET node == c.node
                 e == BytesForBits(node.length + 1) - node.sizes[2]
             IN  IF e <= 0 THEN c ELSE BufferReserve(c, 2, e)
  BY <1>6
<1>9. extra = BytesForBits(c.node.length + 1) - c.node.sizes[2]
  BY <1>6
<1> DEFINE e == [c EXCEPT !.node.sizes[2] = IF extra > 0 THEN @ + extra ELSE @,
                          !.node.at[2] = SubSeq(@, 1, c.node.length) \o Repeat(v, n),
                          !.wild = @ \/ BytesForBits(c.node.length + n) > c.node.caps[2]]
<1>10. d = e
  <2> HIDE DEF room, c, extra
  <2> QED
    BY <1>5, <1>7, <1>8, <1>9 DEF AppendBits, Continue
<1>11. e.err = "OK"
  <2> HIDE DEF extra
  <2> QED
    BY DEF Begin
<1> HIDE DEF d, e
<1> QED
  BY <1>10, <1>11 DEF d

(* What the visit of a node for so many valid elements needs.              *)
RoomFirst(x, n) ==
  /\ Kind(x, 1) = "validity" /\ x.caps[1] # 0 => BytesForBits(x.length + n) <= x.caps[1]
  /\ Kind(x, 1) = "type_id" => x.length + n <= x.caps[1]
(* The second buffer has room for n elements more. *)
RoomSecond(x, n) ==
  /\ Kind(x, 2) = "data_offset" => Width(x, 2) * (x.length + n + 1) <= x.caps[2]
  /\ x.type = "bool" => BytesForBits(x.length + n) <= x.caps[2]
  /\ x.type = "int16" => 2 * (x.length + n) <= x.caps[2]

(* With that room the data part of an append needs no memory. *)
LEMMA FillFine ==
  ASSUME NEW x, IsNode(x), Second(x, x.length), NEW n \in Nat \ {0}, RoomSecond(x, n), NEW f
  PROVE  Fill(Begin(x, f), n).err = "OK"
<1> DEFINE c == Begin(x, f)
           d == Fill(c, n)
           l == x.length
           w == Width(x, 2)
<1>0. c.node = x /\ c.err = "OK"
  BY DEF Begin
<1>1. x.type \in Types /\ l \in Nat /\ n \in Nat /\ x.sizes[2] \in Nat /\ x.caps[2] \in Nat
  BY NodeHas, NodeSizes
<1>8. (x.type \in {"bool", "int16"} <=> Kind(x, 2) = "data")
  BY <1>1, Laid
<1>2. d = CASE Kind(x, 2) = "data_offset" ->
                 BufferAppend(c, 2, Repeat(OffsetAt(x, l), n), w * n)
            [] x.type = "bool" -> AppendBits(c, 0, n)
            [] Kind(x, 2) = "data" /\ x.type # "bool" -> BufferAppend(c, 2, Repeat(0, n), w * n)
            [] OTHER -> c
  <2> HIDE DEF c, d
  <2> QED
    BY <1>0 DEF Fill, d
<1> SUFFICES d.err = "OK"
  OBVIOUS
<1> HIDE DEF c, d
<1>3. CASE Kind(x, 2) = "data_offset"
  <2>1. x.sizes[2] = w * (l + 1) /\ w * (l + n + 1) <= x.caps[2] /\ w \in {4, 8}
    BY <1>1, <1>3, Laid DEF Second, RoomSecond
  <2> HIDE DEF w, l
  <2>2. x.sizes[2] + w * n <= x.caps[2]
    BY <1>1, <2>1
  <2>3. BufferAppend(c, 2, Repeat(OffsetAt(x, l), n), w * n).err = "OK"
    BY <2>2, AppendsFine DEF c
  <2> QED
    BY <1>2, <1>3, <1>8, <2>3
<1>4. CASE x.type = "bool"
  <2>1. AppendBits(c, 0, n).err = "OK"
    BY <1>4, BitsFine DEF RoomSecond, c
  <2> QED
    BY <1>2, <1>4, <1>8, <2>1
<1>5. CASE x.type = "int16"
  <2>1. x.sizes[2] = 2 * l /\ 2 * (l + n) <= x.caps[2] /\ w = 2
    BY <1>1, <1>5, Laid DEF Second, RoomSecond
  <2> HIDE DEF w, l
  <2>2. x.sizes[2] + w * n <= x.caps[2]
    BY <1>1, <2>1
  <2>3. BufferAppend(c, 2, Repeat(0, n), w * n).err = "OK"
    BY <2>2, AppendsFine DEF c
  <2> QED
    BY <1>2, <1>5, <1>8, <2>3
<1>6. CASE Kind(x, 2) \notin {"data_offset", "data"}
  BY <1>0, <1>2, <1>6, <1>8
<1> QED
  BY <1>3, <1>4, <1>5, <1>6, <1>8 DEF d, c

(* Room in the second buffer depends on that buffer only. *)
LEMMA RoomSecondAlike ==
  ASSUME NEW x, NEW y, Same(x, y), y.length = x.length, Alike(x, y, 2), NEW n, RoomSecond(x, n)
  PROVE  RoomSecond(y, n)
<1>1. Kind(y, 2) = Kind(x, 2) /\ Width(y, 2) = Width(x, 2) /\ y.type = x.type
  BY SameKinds DEF Same
<1> QED
  BY <1>1 DEF RoomSecond, Alike

(* With room in the first buffer the validity of valid elements needs no   *)
(* memory.                                                                 *)
LEMMA ValidityFine ==
  ASSUME NEW x, IsNode(x), Kind(x, 1) = "validity", Bitmap(x, x.length, x.null_count),
         NEW n \in Nat \ {0}, RoomFirst(x, n), NEW f
  PROVE  \E y : AppendValidity(Begin(x, f), n, 1) = Begin(y, f) /\ Turned(x, y, 1)
<1> DEFINE c == Begin(x, f)
           d == AppendValidity(c, n, 1)
<1>1. c.node = x
  BY DEF Begin
<1>2. x.null_count \in Nat /\ 1 \in Flags
  BY NodeHas DEF Flags
<1> HIDE DEF c
<1>3. d = IF x.caps[1] # 0 THEN BitmapAppend(c, 1, n) ELSE c
  BY <1>1 DEF AppendValidity
<1> HIDE DEF d
<1>4. CASE x.caps[1] = 0
  <2>1. Turned(x, x, 1)
    BY Itself
  <2> QED
    BY <1>3, <1>4, <2>1 DEF c, d
<1>5. CASE x.caps[1] # 0
  <2>1. Len(x.at[1]) = x.length
    BY <1>5 DEF Bitmap
  <2>2. BytesForBits(Len(x.at[1]) + n) <= x.caps[1]
    BY <1>5, <2>1 DEF RoomFirst
  <2>3. BitmapAppend(c, 1, n).err = "OK"
    BY <2>2, MarksFine DEF c
  <2>4. d.err = "OK"
    BY <1>3, <1>5, <2>3
  <2>5. \/ Spoilt(x, d)
        \/ \E y : d = Begin(y, f) /\ Turned(x, y, 1)
    <3>1. \/ Spoilt(x, AppendValidity(Begin(x, f), n, 1))
          \/ \E y : /\ AppendValidity(Begin(x, f), n, 1) = Begin(y, f) /\ Turned(x, y, 1)
                    /\ Bitmap(y, x.length + n, x.null_count + n * (1 - 1))
      BY <1>2, AppendValidityIs
    <3> QED
      BY <3>1 DEF d, c
  <2> QED
    BY <2>4, <2>5 DEF Spoilt, d, c
<1> QED
  BY <1>4, <1>5

(* With room in both a node's own part of an append needs no memory. *)
LEMMA OwnFine ==
  ASSUME NEW x, IsNode(x), Filled(x), x.type # "dense_union",
         NEW n \in Nat \ {0}, RoomFirst(x, n), RoomSecond(x, n), NEW length, NEW f
  PROVE  EmptyOwn(x, n, 1, length, f).err = "OK"
<1> DEFINE d == EmptyOwn(x, n, 1, length, f)
<1>1. x.type \in Types /\ x.length \in Nat /\ n \in Nat
  BY NodeHas
<1>2. CASE x.type = "na"
  <2>1. d = Begin(x, f)
    BY <1>2 DEF EmptyOwn
  <2> QED
    BY <2>1 DEF Begin
<1>3. CASE x.type = "sparse_union"
  <2>1. d = TypeIds(Begin(x, f), 0, n)
    BY <1>3 DEF EmptyOwn
  <2>2. x.sizes[1] = x.length
    BY <1>3 DEF Filled, First, IsUnion
  <2>3. x.length + n <= x.caps[1]
    BY <1>1, <1>3, Laid DEF RoomFirst, IsUnion
  <2>4. TypeIds(Begin(x, f), 0, n).err = "OK"
    BY <2>2, <2>3, AppendsFine DEF TypeIds
  <2> QED
    BY <2>1, <2>4
<1>4. CASE x.type \notin {"na", "sparse_union"}
  <2> DEFINE e == AppendValidity(Begin(x, f), n, 1)
  <2>1. Kind(x, 1) = "validity" /\ Bitmap(x, x.length, x.null_count) /\ Second(x, x.length)
    <3>1. Kind(x, 1) = "validity"
      BY <1>1, <1>4, Laid DEF IsUnion
    <3> QED
      BY <1>1, <3>1, FilledValid DEF Filled
  <2>2. PICK y : e = Begin(y, f) /\ Turned(x, y, 1)
    BY <2>1, ValidityFine
  <2>3. Same(x, y) /\ IsNode(y) /\ y.length = x.length /\ Alike(x, y, 2) /\ Alike(x, y, 3)
    BY <2>2, TurnedHas, TurnedAlike
  <2>4. Second(y, y.length) /\ RoomSecond(y, n)
    BY <2>1, <2>3, SecondAlike, RoomSecondAlike
  <2>5. Fill(Begin(y, f), n).err = "OK"
    BY <2>3, <2>4, FillFine
  <2>6. d = IF e.err = "OK" THEN Fill(e, n) ELSE e
    BY <1>4 DEF EmptyOwn, Continue
  <2>7. Begin(y, f).err = "OK"
    BY DEF Begin
  <2> HIDE DEF d, e
  <2> QED
    BY <2>2, <2>5, <2>6, <2>7 DEF d
<1> QED
  BY <1>2, <1>3, <1>4

(* So it is with its visit. *)
LEMMA EmptyFine ==
  ASSUME NEW x, IsNode(x), Filled(x), NEW n \in Nat,
         n # 0 => x.type # "dense_union" /\ RoomFirst(x, n) /\ RoomSecond(x, n), NEW length, NEW f
  PROVE  EmptyNode(x, n, 1, length, f).err = "OK"
<1> DEFINE e == EmptyOwn(x, n, 1, length, f)
           w == Valid(x, 1)
           d == IF e.err = "OK" THEN CountElements(e, n, w) ELSE e
<1>1. CASE n = 0
  <2>1. EmptyNode(x, n, 1, length, f) = Begin(x, f)
    BY <1>1 DEF EmptyNode
  <2> QED
    BY <2>1 DEF Begin
<1>2. CASE n # 0
  <2>1. n \in Nat \ {0} /\ 1 \in Flags /\ w \in Flags
    BY <1>2 DEF Flags, Valid
  <2>2. EmptyNode(x, n, 1, length, f) = d
    BY <1>2, Zenon DEF EmptyNode, Continue
  <2>3. e.err = "OK"
    BY <1>2, <2>1, OwnFine
  <2>4. Spoilt(x, e) \/ Ready(x, n, w, e)
    BY <2>1, EmptyReady
  <2> HIDE DEF e, w
  <2>5. Ready(x, n, w, e)
    BY <2>3, <2>4 DEF Spoilt
  <2>6. Grows(x, n, CountElements(e, n, w))
    BY <2>1, <2>5, CountedUp
  <2> QED
    BY <2>2, <2>3, <2>6 DEF Grows
<1> QED
  BY <1>1, <1>2

(* What ArrowArrayReserve reckoned with is what an append asks for.        *)
Passing(a, v, q) == HandedOn(v, q, a).n # 0
(* Who hands elements on to a child. *)
LEMMA PassedTo ==
  ASSUME NEW a, IsAsk(a), NEW v, NEW q, Passing(a, v, q), v.type # "dense_union"
  PROVE  a.n # 0 /\ v.type \in {"struct", "sparse_union", "fixed_size_list"}
<1>1. a.n # 0
  <2> SUFFICES ASSUME a.n = 0 PROVE FALSE
    OBVIOUS
  <2>1. HandedOn(v, q, a) = NoElements
    BY HandedIs
  <2> QED
    BY <2>1 DEF Passing, NoElements
<1>2. ASSUME v.type \notin {"struct", "sparse_union", "fixed_size_list"} PROVE FALSE
  <2>1. HandedOn(v, q, a) = NoElements
    BY <1>1, <1>2 DEF HandedOn
  <2> QED
    BY <2>1 DEF Passing, NoElements
<1> QED
  BY <1>1, <1>2

(* A tree whose reserved lengths are those that it will have.              *)
Level(t, q) ==
  /\ t[q].type \in {"struct", "sparse_union"} => \A k \in 1..Len(t[q].kids) : Kid(t, q, k).length = t[q].length
  /\ t[q].type = "fixed_size_list" => Kid(t, q, 1).length = t[q].length * ListSize
(* Where an append of n asks for a elements, ArrowArrayReserve reckoned    *)
(* with the length that makes.                                             *)
Agrees(t, p, a, one, m) ==
  a.n # 0 => a.is_valid = 1 /\ one.n # 0 /\ m = t[p].length + a.n
(* If they agree at a node whose children are level with it they agree at  *)
(* its children.                                                           *)
LEMMA HandedAgrees ==
  ASSUME NEW t, Arranged(t), NEW p \in 1..Len(t), p > 1, NEW q, q = t[p].up,
         \A z \in 1..Len(t) : t[z].length \in Nat,
         NEW a, IsAsk(a), NEW one, IsAsk(one), NEW m, Agrees(t, q, a, one, m),
         one.n # 0 => Level(t, q), t[q].type # "dense_union",
         t[q].type = "fixed_size_list" /\ m # NotAsked => InChild(m) = m * ListSize,
         NEW b, b = HandedOn(t[q], p, a), NEW two, two = HandedOn(t[q], p, one),
         NEW k, k = HandedDown(t[q], p, m)
  PROVE  Agrees(t, p, b, two, k)
<1> SUFFICES ASSUME b.n # 0 PROVE b.is_valid = 1 /\ two.n # 0 /\ k = t[p].length + b.n
  BY DEF Agrees
<1>1. a.n # 0 /\ t[q].type \in {"struct", "sparse_union", "fixed_size_list"}
  BY PassedTo DEF Passing
<1>2. a.is_valid = 1 /\ one.n # 0 /\ m = t[q].length + a.n
  BY <1>1 DEF Agrees
<1>3. b.is_valid = 1
  BY <1>2, HandedIs
<1>4. q \in 1..Len(t) /\ p \in ToSet(t[q].kids) /\ KidsBelow(t, q)
  <2> DEFINE N == Len(t)
  <2>1. t[p].up \in 1..(p - 1) /\ p \in ToSet(t[t[p].up].kids) /\ N \in Nat
    BY DEF Arranged
  <2>2. p \in 1..N
    OBVIOUS
  <2> HIDE DEF N
  <2>3. q \in 1..N
    BY <2>1, <2>2
  <2> QED
    BY <2>1, <2>3 DEF N, Arranged
<1>5. PICK i \in 1..Len(t[q].kids) : t[q].kids[i] = p
  BY <1>4 DEF ToSet, KidsBelow
<1>6. a.n \in Nat /\ one.n \in Nat /\ t[q].length \in Nat /\ t[p].length \in Nat
  BY <1>4 DEF IsAsk
<1>7. m # NotAsked /\ m \in Nat
  BY <1>2, <1>6, ViewAssumption DEF NotAsked
<1>8. Level(t, q)
  BY <1>2
<1>9. CASE t[q].type \in {"struct", "sparse_union"}
  <2>1. b.n = a.n
    BY <1>1, <1>9, HandedIs
  <2>2. two.n = one.n
    BY <1>2, <1>9, HandedIs
  <2>3. t[p].length = t[q].length
    BY <1>5, <1>8, <1>9 DEF Level, Kid
  <2>4. k = m
    BY <1>4, <1>7, <1>9 DEF HandedDown, Follows, ChildLength
  <2> QED
    BY <1>2, <1>3, <2>1, <2>2, <2>3, <2>4
<1>10. CASE t[q].type = "fixed_size_list"
  <2>1. b.n = a.n * ListSize
    BY <1>1, <1>10, HandedIs
  <2>2. two.n = one.n * ListSize
    BY <1>2, <1>10, HandedIs
  <2>3. Len(t[q].kids) = 1
    BY <1>4, <1>10 DEF Arranged
  <2>4. t[q].kids[1] = p
    <3> DEFINE l == Len(t[q].kids)
    <3>1. l = 1 /\ i \in 1..l
      BY <2>3
    <3> HIDE DEF l
    <3>2. i = 1
      BY <3>1
    <3> QED
      BY <1>5, <3>2
  <2>5. t[p].length = t[q].length * ListSize
    BY <1>8, <1>10, <2>4 DEF Level, Kid
  <2>6. t[q].kids # <<>>
    <3> SUFFICES ASSUME t[q].kids = <<>> PROVE FALSE
      OBVIOUS
    <3>1. Len(<<>>) = 0
      OBVIOUS
    <3> QED
      BY <2>3, <3>1
  <2>7. k = m * ListSize
    <3>1. k = InChild(m)
      BY <1>7, <1>10, <2>4, <2>6 DEF HandedDown, Follows, ChildLength
    <3> QED
      BY <1>7, <1>10, <3>1
  <2> DEFINE x == t[q].length
             y == a.n
             z == one.n
  <2>8. x \in Nat /\ y \in Nat /\ z \in Nat \ {0}
    BY <1>2, <1>6
  <2> HIDE DEF x, y, z
  <2>9. (x + y) * ListSize = x * ListSize + y * ListSize
    BY <2>8, ListSizeAssumption
  <2>10. z * ListSize # 0
    BY <2>8, ListSizeAssumption
  <2>11. two.n # 0
    BY <2>2, <2>10 DEF z
  <2>12. k = t[p].length + b.n
    BY <1>2, <2>1, <2>5, <2>7, <2>9 DEF x, y
  <2> QED
    BY <1>3, <2>11, <2>12
<1> QED
  BY <1>1, <1>9, <1>10

(* The lengths handed down depend on the type only. *)
LEMMA HandedSame ==
  ASSUME NEW v, NEW w, Same(v, w), NEW p, NEW m
  PROVE  HandedDown(w, p, m) = HandedDown(v, p, m)
BY DEF Same, HandedDown, Follows, ChildLength

(* So ArrowArrayViewSetLength asks for the same lengths before a call and  *)
(* after it.                                                               *)
LEMMA SameLengths ==
  ASSUME NEW s, NEW t, Arranged(s), Arranged(t), Alikes(s, t), NEW n \in Int
  PROVE  \A p \in 1..Len(t) : AskedLengths(ViewOf(s), n)[p] = AskedLengths(ViewOf(t), n)[p]
<1> DEFINE N == Len(t)
           f == AskedLengths(ViewOf(s), n)
           g == AskedLengths(ViewOf(t), n)
           T == {k \in Nat : \A p \in 1..N : p <= k => f[p] = g[p]}
<1>1. /\ N \in Nat /\ Len(s) = N
      /\ \A p \in 1..N : p > 1 => t[p].up \in 1..(p - 1)
      /\ \A p \in 1..N : Same(s[p], t[p])
  <2>1. Len(s) = N
    BY AlikesArranged
  <2>2. N \in Nat /\ \A p \in 1..N : p > 1 => t[p].up \in 1..(p - 1)
    BY DEF Arranged
  <2>3. \A p \in 1..N : Same(s[p], t[p])
    BY <2>1 DEF Alikes
  <2> QED
    BY <2>1, <2>2, <2>3
<1>2. \A p \in 1..N : f[p] = IF p = 1 THEN n ELSE HandedDown(s[s[p].up], p, f[s[p].up])
  BY <1>1, LengthsAre
<1>3. \A p \in 1..N : g[p] = IF p = 1 THEN n ELSE HandedDown(t[t[p].up], p, g[t[p].up])
  <2> SUFFICES ASSUME NEW p \in 1..Len(t)
               PROVE  g[p] = IF p = 1 THEN n ELSE HandedDown(t[t[p].up], p, g[t[p].up])
    OBVIOUS
  <2>1. g = AskedLengths(ViewOf(t), n)
    OBVIOUS
  <2> HIDE DEF g
  <2>2. LengthRule(t, n, g, p)
    BY <2>1, LengthAt
  <2> QED
    BY <2>2 DEF LengthRule
<1> HIDE DEF f, g, N
<1>4. 0 \in T
  OBVIOUS
<1>5. ASSUME NEW k \in T PROVE k + 1 \in T
  <2>1. \A p \in 1..N : p <= k => f[p] = g[p]
    OBVIOUS
  <2> SUFFICES ASSUME NEW p \in 1..N, p <= k + 1 PROVE f[p] = g[p]
    OBVIOUS
  <2>2. CASE p = 1
    BY <1>2, <1>3, <2>2
  <2>3. CASE p # 1
    <3> DEFINE u == t[p].up
    <3>1. u \in 1..(p - 1)
      BY <1>1, <2>3
    <3>2. s[p].up = u
      BY <1>1 DEF Same
    <3>3. f[p] = HandedDown(s[u], p, f[u]) /\ g[p] = HandedDown(t[u], p, g[u])
      BY <1>2, <1>3, <2>3, <3>2
    <3> HIDE DEF u
    <3>4. u \in 1..N /\ u <= k
      BY <1>1, <3>1
    <3>5. f[u] = g[u] /\ Same(s[u], t[u])
      BY <1>1, <2>1, <3>4
    <3>6. HandedDown(t[u], p, g[u]) = HandedDown(s[u], p, g[u])
      BY <3>5, HandedSame
    <3> QED
      BY <3>3, <3>5, <3>6
  <2> QED
    BY <2>2, <2>3
<1>6. T \subseteq Nat
  OBVIOUS
<1>7. Nat \subseteq T
  <2> HIDE DEF T
  <2> QED
    BY <1>4, <1>5, <1>6, NatInduct
<1>8. N \in T
  BY <1>1, <1>7
<1>9. \A p \in 1..N : f[p] = g[p]
  BY <1>1, <1>8
<1> QED
  BY <1>9 DEF f, g, N

(* In an aligned tree the nodes that an append comes to are level with     *)
(* their children.                                                         *)
LEMMA AlignedLevel ==
  ASSUME NEW t, Arranged(t), Aligned(t, 1), NEW q \in 1..Len(t), Asked(t, OneAsk(1, 1, 1))[q].n # 0,
         IsAsk(Asked(t, OneAsk(1, 1, 1))[q])
  PROVE  Level(t, q)
<1> DEFINE one == Asked(t, OneAsk(1, 1, 1))
<1>1. \A z \in DOMAIN t : one[z].n > 0 =>
        CASE t[z].type \in {"struct", "sparse_union"} ->
               \A k \in DOMAIN t[z].kids : Kid(t, z, k).length = t[z].length
          [] t[z].type = "fixed_size_list" -> Kid(t, z, 1).length = t[z].length * ListSize
          [] OTHER -> TRUE
  BY DEF Aligned, OneAsk
<1>2. q \in DOMAIN t /\ DOMAIN t[q].kids = 1..Len(t[q].kids)
  BY DEF Arranged, KidsBelow
<1>3. one[q].n > 0
  BY DEF IsAsk
<1> HIDE DEF one
<1>4. t[q].type \in {"struct", "sparse_union"} => \A k \in 1..Len(t[q].kids) : Kid(t, q, k).length = t[q].length
  BY <1>1, <1>2, <1>3
<1>5. t[q].type = "fixed_size_list" => Kid(t, q, 1).length = t[q].length * ListSize
  BY <1>1, <1>2, <1>3
<1> QED
  BY <1>4, <1>5 DEF Level

(* So they agree at every node. *)
LEMMA ReservedAgrees ==
  ASSUME NEW s, NEW t, InOrder(s), InOrder(t), Alikes(s, t), s[1].length = t[1].length, NEW n \in Nat,
         \A p \in 1..Len(t) : t[p].type # "dense_union", Aligned(t, 1), NEW p \in 1..Len(t),
         NEW g, \A q \in 1..Len(t) :
           /\ LengthRule(s, s[1].length + n, g, q)
           /\ t[q].type = "fixed_size_list" /\ g[q] # NotAsked => InChild(g[q]) = g[q] * ListSize
  PROVE  Agrees(t, p, Asked(t, OneAsk(1, n, 1))[p], Asked(t, OneAsk(1, 1, 1))[p],
                g[p])
<1> DEFINE N == Len(t)
           f == Asked(t, OneAsk(1, n, 1))
           one == Asked(t, OneAsk(1, 1, 1))
           T == {k \in Nat : \A q \in 1..N : q <= k => Agrees(t, q, f[q], one[q], g[q])}
<1>1. /\ Arranged(t) /\ Arranged(s) /\ N \in Nat \ {0} /\ Len(s) = N
      /\ \A q \in 1..N : t[q].length \in Nat /\ (q > 1 => t[q].up \in 1..(q - 1))
      /\ \A q \in 1..N : Same(s[q], t[q])
  <2>1. Arranged(t) /\ Arranged(s) /\ N \in Nat \ {0}
    BY DEF InOrder, Arranged
  <2>2. Len(s) = N
    BY <2>1, AlikesArranged
  <2>3. \A q \in 1..N : t[q].length \in Nat
    BY SeenNodes
  <2>4. \A q \in 1..N : q > 1 => t[q].up \in 1..(q - 1)
    BY <2>1 DEF Arranged
  <2>5. \A q \in 1..N : Same(s[q], t[q])
    BY <2>2 DEF Alikes
  <2> QED
    BY <2>1, <2>2, <2>3, <2>4, <2>5
<1>2. 1 \in Nat /\ 1 \in Flags
  BY DEF Flags
<1>3. /\ DOMAIN OneAsk(1, n, 1) = {1} /\ OneAsk(1, n, 1)[1] = [n |-> n, is_valid |-> 1]
      /\ IsAsk(OneAsk(1, n, 1)[1])
  BY <1>2, OneAskIs
<1>4. /\ DOMAIN OneAsk(1, 1, 1) = {1} /\ OneAsk(1, 1, 1)[1] = [n |-> 1, is_valid |-> 1]
      /\ IsAsk(OneAsk(1, 1, 1)[1])
  BY <1>2, OneAskIs
<1>5. \A q \in 1..N : AskRule(t, OneAsk(1, n, 1), f, q) /\ IsAsk(f[q])
  BY <1>1, <1>3, AsksIs
<1>6. \A q \in 1..N : AskRule(t, OneAsk(1, 1, 1), one, q) /\ IsAsk(one[q])
  BY <1>1, <1>4, AsksIs
<1>7. 1 \in 1..N
  <2> HIDE DEF N
  <2> QED
    BY <1>1
<1>9. \A q \in 1..N : LengthRule(s, s[1].length + n, g, q)
  OBVIOUS
<1>10. \A q \in 1..N : one[q].n # 0 => Level(t, q)
  BY <1>1, <1>6, AlignedLevel
<1>19. \A q \in 1..N : t[q].type = "fixed_size_list" /\ g[q] # NotAsked => InChild(g[q]) = g[q] * ListSize
  OBVIOUS
<1> HIDE DEF f, one, N
<1>11. Agrees(t, 1, f[1], one[1], g[1])
  <2>1. f[1] = [n |-> n, is_valid |-> 1] /\ one[1] = [n |-> 1, is_valid |-> 1] /\ g[1] = s[1].length + n
    BY <1>3, <1>4, <1>5, <1>6, <1>7, <1>9 DEF AskRule, LengthRule
  <2> QED
    BY <2>1 DEF Agrees
<1>12. ASSUME NEW q \in 1..N, q > 1, Agrees(t, t[q].up, f[t[q].up], one[t[q].up], g[t[q].up])
       PROVE  Agrees(t, q, f[q], one[q], g[q])
  <2> DEFINE u == t[q].up
  <2>1. u \in 1..N /\ s[q].up = u /\ q # 1
    <3>1. u \in 1..(q - 1)
      BY <1>1, <1>12
    <3>2. s[q].up = u
      BY <1>1 DEF Same
    <3>3. u \in 1..N
      <4> HIDE DEF u
      <4> QED
        BY <1>1, <1>12, <3>1
    <3> QED
      BY <1>12, <3>2, <3>3
  <2>2. f[q] = HandedOn(t[u], q, f[u])
    BY <1>3, <1>5, <2>1 DEF AskRule
  <2>3. one[q] = HandedOn(t[u], q, one[u])
    BY <1>4, <1>6, <2>1 DEF AskRule
  <2>4. g[q] = HandedDown(t[u], q, g[u])
    <3>1. Same(s[u], t[u])
      BY <1>1, <2>1
    <3> HIDE DEF u
    <3>2. HandedDown(t[u], q, g[u]) = HandedDown(s[u], q, g[u])
      BY <3>1, HandedSame
    <3>3. LengthRule(s, s[1].length + n, g, q)
      BY <1>9
    <3> QED
      BY <2>1, <3>2, <3>3 DEF LengthRule
  <2>9. t[u].type = "fixed_size_list" /\ g[u] # NotAsked => InChild(g[u]) = g[u] * ListSize
    BY <1>19, <2>1
  <2>5. IsAsk(f[u]) /\ IsAsk(one[u]) /\ (one[u].n # 0 => Level(t, u)) /\ t[u].type # "dense_union"
    BY <1>5, <1>6, <1>10, <2>1 DEF N
  <2>6. q \in 1..Len(t) /\ \A z \in 1..Len(t) : t[z].length \in Nat
    BY <1>1 DEF N
  <2>7. Agrees(t, u, f[u], one[u], g[u])
    BY <1>12
  <2>8. u = t[q].up
    OBVIOUS
  <2> HIDE DEF u
  <2> QED
    BY <1>1, <1>12, <2>2, <2>3, <2>4, <2>5, <2>6, <2>7, <2>8, <2>9, HandedAgrees
<1>13. 0 \in T
  OBVIOUS
<1>14. ASSUME NEW k \in T PROVE k + 1 \in T
  <2>1. \A q \in 1..N : q <= k => Agrees(t, q, f[q], one[q], g[q])
    OBVIOUS
  <2> SUFFICES ASSUME NEW q \in 1..N, q <= k + 1 PROVE Agrees(t, q, f[q], one[q], g[q])
    OBVIOUS
  <2>2. CASE q = 1
    BY <1>11, <2>2
  <2>3. CASE q # 1
    <3>1. q > 1 /\ t[q].up \in 1..N /\ t[q].up <= k
      <4> DEFINE u == t[q].up
      <4>1. q > 1
        BY <2>3
      <4>2. u \in 1..(q - 1)
        BY <1>1, <4>1
      <4> HIDE DEF u
      <4>3. u \in 1..N /\ u <= k
        BY <1>1, <4>1, <4>2
      <4> QED
        BY <4>1, <4>3 DEF u
    <3>2. Agrees(t, t[q].up, f[t[q].up], one[t[q].up], g[t[q].up])
      BY <2>1, <3>1
    <3> QED
      BY <1>12, <3>1, <3>2
  <2> QED
    BY <2>2, <2>3
<1>15. T \subseteq Nat
  OBVIOUS
<1>16. Nat \subseteq T
  <2> HIDE DEF T
  <2> QED
    BY <1>13, <1>14, <1>15, NatInduct
<1>17. N \in T
  BY <1>1, <1>16
<1>18. p \in 1..N
  BY DEF N
<1> QED
  BY <1>1, <1>17, <1>18 DEF f, one

(* A type has the buffers that its layout names. *)
LEMMA BuffersHave ==
  ASSUME NEW x, x.type \in Types
  PROVE  /\ Kind(x, 1) # "none" => ~(1 > Buffers(x))
         /\ Kind(x, 2) # "none" => ~(2 > Buffers(x))
<1> DEFINE B == {b \in 1..3 : Kind(x, b) # "none"}
<1>1. B = {} \/ B = 1..1 \/ B = 1..2 \/ B = 1..3
  <2>1. 1..3 = {1, 2, 3} /\ 1..1 = {1} /\ 1..2 = {1, 2}
    OBVIOUS
  <2>2. Kind(x, 3) # "none" => Kind(x, 2) # "none"
    BY Laid
  <2>3. Kind(x, 2) # "none" => Kind(x, 1) # "none"
    BY Laid
  <2> QED
    BY <2>1, <2>2, <2>3
<1>2. Cardinality(1..1) = 1 /\ Cardinality(1..2) = 2 /\ Cardinality(1..3) = 3
  <2>1. \A k \in Nat \ {0} : Cardinality(1..k) = k
    <3> SUFFICES ASSUME NEW k \in Nat \ {0} PROVE Cardinality(1..k) = k
      OBVIOUS
    <3>1. Cardinality(1..k) = IF 1 > k THEN 0 ELSE k - 1 + 1
      BY FS_Interval
    <3> QED
      BY <3>1
  <2>2. 1 \in Nat \ {0} /\ 2 \in Nat \ {0} /\ 3 \in Nat \ {0}
    OBVIOUS
  <2> QED
    BY <2>1, <2>2, Zenon
<1>3. Kind(x, 1) # "none" => 1 \in B
  OBVIOUS
<1>4. Kind(x, 2) # "none" => 2 \in B
  OBVIOUS
<1>5. Buffers(x) = Cardinality(B)
  BY DEF Buffers
<1> HIDE DEF B
<1>6. Kind(x, 1) # "none" => Buffers(x) \in {1, 2, 3}
  BY <1>1, <1>2, <1>3, <1>5
<1>7. Kind(x, 2) # "none" => Buffers(x) \in {2, 3}
  BY <1>1, <1>2, <1>4, <1>5
<1> QED
  BY <1>6, <1>7

(* Room for the bytes that n elements more need is room for them. *)
LEMMA RoomReserved ==
  ASSUME NEW x, IsNode(x), NEW n \in Nat \ {0}, NEW v, \A b \in 1..3 : v.sizes[b] = Needed(x, b, x.length + n),
         \A b \in 1..3 : ReservedFor(x, v, b)
  PROVE  RoomFirst(x, n) /\ RoomSecond(x, n)
<1> DEFINE m == x.length + n
<1>1. x.type \in Types /\ x.length \in Nat
  BY NodeHas
<1>2. m \in Nat /\ m # 0
  BY <1>1
<1>3. Kind(x, 1) # "none" =>
        Needed(x, 1, m) <= x.caps[1] \/ (Kind(x, 1) = "validity" /\ x.caps[1] = 0)
  BY <1>1, BuffersHave DEF ReservedFor
<1>4. Kind(x, 2) # "none" =>
        Needed(x, 2, m) <= x.caps[2] \/ (Kind(x, 2) = "validity" /\ x.caps[2] = 0)
  BY <1>1, BuffersHave DEF ReservedFor
<1>5. Kind(x, 2) # "validity"
  BY <1>1, Laid
<1> HIDE DEF m
<1>6. /\ Kind(x, 1) = "validity" => Needed(x, 1, m) = BytesForBits(m)
      /\ Kind(x, 1) = "type_id" => Needed(x, 1, m) = m
      /\ x.type = "bool" => Needed(x, 2, m) = BytesForBits(m)
      /\ x.type = "int16" => Needed(x, 2, m) = 2 * m
      /\ Kind(x, 2) = "data_offset" => Needed(x, 2, m) = Width(x, 2) * (m + 1)
  BY <1>1, <1>2, NeededIs
<1>7. RoomFirst(x, n)
  BY <1>3, <1>6 DEF RoomFirst, m
<1>8. x.type \in {"bool", "int16"} => Kind(x, 2) = "data"
  BY <1>1, Laid
<1>9. RoomSecond(x, n)
  BY <1>4, <1>5, <1>6, <1>8 DEF RoomSecond, m
<1> QED
  BY <1>7, <1>9

(* After ArrowArrayReserve of n an append of n to an aligned tree needs no *)
(* memory.                                                                 *)
LEMMA ReservedAppends ==
  ASSUME NEW s, NEW t, NEW n \in Nat, InOrder(t), ReservedFrom(s, t, n),
         \A p \in 1..Len(t) : t[p].type # "dense_union", Aligned(t, 1), NEW place,
         SizesFit(t, t[1].length + n)
  PROVE  AppendEmpty(t, 1, n, 1, place).err = "OK"
<1> DEFINE N == Len(t)
           first == OneAsk(1, n, 1)
           f == Asked(t, first)
           l == NewLength(s[1], n)
           g == AskedLengths(ViewOf(s), l)
           did == EmptyVisits(t, f, place)
<1>1. /\ Arranged(t) /\ DOMAIN t = 1..N /\ N \in Nat \ {0} /\ \A q \in DOMAIN t : t[q].last \in Nat
  <2>1. Arranged(t) /\ DOMAIN t = 1..N /\ N \in Nat \ {0}
    BY DEF InOrder, Arranged
  <2>2. \A q \in 1..N : t[q].last \in q..N
    BY <2>1 DEF Arranged
  <2> HIDE DEF N
  <2> QED
    BY <2>1, <2>2
<1>2. InOrder(s) /\ Alikes(s, t) /\ \A p \in 1..Len(s) : Eased(s[p], t[p])
  BY DEF ReservedFrom
<1>3. Len(s) = N /\ Arranged(s) /\ \A p \in 1..Len(s) : IsNode(s[p])
  <2>1. Arranged(s) /\ \A p \in 1..Len(s) : IsNode(s[p])
    BY <1>2 DEF InOrder
  <2> QED
    BY <1>2, <2>1, AlikesArranged
<1>4. 1 \in 1..N
  <2> HIDE DEF N
  <2> QED
    BY <1>1
<1>5. s[1].length = t[1].length
  BY <1>2, <1>3, <1>4 DEF Eased
<1>6. /\ DOMAIN first = {1} /\ IsAsk(first[1])
  BY OneAskIs DEF Flags
<1>7. \A q \in 1..N : IsAsk(f[q])
  <2> HIDE DEF first
  <2> QED
    BY <1>1, <1>6, AsksIs
<1>12. l = t[1].length + n /\ l \in Nat
  <2>1. t[1].length \in Nat
    BY <1>4, SeenNodes
  <2>2. t[1].length + n <= Int64Max
    BY DEF SizesFit
  <2>3. l = Wrapped(t[1].length + n)
    BY <1>5 DEF NewLength
  <2> DEFINE k == t[1].length + n
  <2>4. k \in Nat /\ k <= Int64Max
    BY <2>1, <2>2
  <2> HIDE DEF k, l
  <2>5. k \in Int64s /\ k \in Int
    BY <2>4, ViewAssumption DEF Int64s
  <2>6. Wrapped(k) = k
    BY <2>5, WrappedIs
  <2> QED
    BY <2>3, <2>4, <2>6 DEF k
<1>13. \A q \in 1..N : g[q] # NotAsked =>
         /\ \A b \in 1..3 : MinSize(t[q], b, g[q]) = Needed(t[q], b, g[q])
         /\ t[q].type = "fixed_size_list" => InChild(g[q]) = g[q] * ListSize
  <2> HIDE DEF l
  <2> DEFINE h == AskedLengths(ViewOf(t), l)
  <2>1. \A q \in 1..N : g[q] = h[q]
    <3>1. l \in Int /\ Arranged(s) /\ Arranged(t) /\ Alikes(s, t)
      BY <1>1, <1>2, <1>3, <1>12
    <3> QED
      BY <3>1, SameLengths, Zenon
  <2>2. h = AskedLengths(InitFromArray(Seen(t)), t[1].length + n)
    BY <1>12 DEF ViewOf
  <2> HIDE DEF g, h
  <2>3. \A q \in DOMAIN t : h[q] # NotAsked =>
          /\ \A b \in 1..3 : MinSize(t[q], b, h[q]) = Needed(t[q], b, h[q])
          /\ t[q].type = "fixed_size_list" => InChild(h[q]) = h[q] * ListSize
    BY <2>2, Zenon DEF SizesFit
  <2> QED
    BY <1>1, <2>1, <2>3
<1>8. ASSUME NEW q \in 1..N PROVE did[q].err = "OK"
  <2> DEFINE x == t[q]
             k == f[q].n
             length == t[t[q].kids[1]].length + f[t[q].kids[1]].n
             z == FailsAt(place, q)
  <2>1. IsNode(x) /\ Filled(x)
    BY DEF InOrder
  <2>2. k \in Nat
    BY <1>7 DEF IsAsk
  <2>3. k # 0 => f[q].is_valid = 1 /\ g[q] = x.length + k
    <3>1. Agrees(t, q, f[q], Asked(t, OneAsk(1, 1, 1))[q], g[q])
      <4>1. \A y \in 1..N : t[y].type = "fixed_size_list" /\ g[y] # NotAsked => InChild(g[y]) = g[y] * ListSize
        BY <1>13
      <4>2. l = s[1].length + n
        BY <1>5, <1>12
      <4>3. \A y \in 1..N : LengthRule(s, l, g, y)
        <5>1. Arranged(s) /\ l \in Int /\ N = Len(s) /\ g = AskedLengths(ViewOf(s), l)
          BY <1>3, <1>12
        <5> HIDE DEF N, l, g
        <5> SUFFICES ASSUME NEW y \in 1..Len(s) PROVE LengthRule(s, l, g, y)
          BY <5>1
        <5> QED
          BY <5>1, LengthAt
      <4> HIDE DEF g, l
      <4> QED
        BY <1>2, <1>5, <4>1, <4>2, <4>3, ReservedAgrees
    <3> HIDE DEF f, g
    <3> QED
      BY <3>1 DEF Agrees
  <2>4. k # 0 => x.type # "dense_union" /\ RoomFirst(x, k) /\ RoomSecond(x, k)
    <3> SUFFICES ASSUME k # 0 PROVE RoomFirst(x, k) /\ RoomSecond(x, k)
      OBVIOUS
    <3> DEFINE v == LengthView(s, n)[q]
    <3>1. \A b \in 1..3 : ReservedFor(x, v, b)
      BY <1>3 DEF ReservedFrom
    <3>2. g[q] # NotAsked => \A b \in 1..3 : v.sizes[b] = MinSize(s[q], b, g[q])
      BY <1>3, ViewSizes
    <3>3. g[q] = x.length + k /\ x.length \in Nat
      BY <2>1, <2>3, NodeHas
    <3>4. g[q] # NotAsked
      <4> HIDE DEF g, k, x
      <4> QED
        BY <2>2, <3>3, ViewAssumption DEF NotAsked
    <3>8. \A b \in 1..3 : MinSize(x, b, g[q]) = Needed(x, b, g[q])
      BY <1>13, <3>4
    <3>5. x.type = s[q].type
      BY <1>2, <1>3 DEF Alikes, Same
    <3>6. \A b \in 1..3 : MinSize(s[q], b, g[q]) = MinSize(x, b, g[q])
      <4> HIDE DEF g, x
      <4> QED
        BY <3>5 DEF MinSize, Needed, Kind, Bits
    <3> HIDE DEF v, g, k, x, f
    <3>7. \A b \in 1..3 : v.sizes[b] = Needed(x, b, x.length + k)
      BY <3>2, <3>3, <3>4, <3>6, <3>8
    <3> QED
      BY <2>1, <2>2, <3>1, <3>7, RoomReserved
  <2>5. EmptyNode(x, k, 1, length, z).err = "OK"
    <3> HIDE DEF x, k, length, z
    <3> QED
      BY <2>1, <2>2, <2>4, EmptyFine
  <2>6. did[q] = EmptyAt(t, q, f, place)
    BY <1>1 DEF EmptyVisits
  <2>7. EmptyAt(t, q, f, place) = EmptyNode(x, k, f[q].is_valid, length, z)
    BY EmptyAtNode
  <2> HIDE DEF x, k, length, z, did, f
  <2>8. EmptyNode(x, 0, f[q].is_valid, length, z) = Begin(x, z) /\ EmptyNode(x, 0, 1, length, z) = Begin(x, z)
    BY DEF EmptyNode
  <2>9. CASE k = 0
    BY <2>5, <2>6, <2>7, <2>8, <2>9
  <2>10. CASE k # 0
    BY <2>3, <2>5, <2>6, <2>7, <2>10
  <2> QED
    BY <2>9, <2>10
<1> HIDE DEF did, f
<1>9. \E R : Outcome(t, did, BottomUp(t, did), R)
  <2> HIDE DEF N
  <2> QED
    BY <1>1, BottomUpIs
<1>10. BottomUp(t, did).err = "OK"
  BY <1>1, <1>8, <1>9 DEF Outcome
<1>11. AppendEmpty(t, 1, n, 1, place) = BottomUp(t, did)
  BY DEF AppendEmpty, OneAsk, EmptyVisits, did, f
<1> QED
  BY <1>10, <1>11

(* After ArrowArrayReserve, the elements that it was called for need no    *)
(* reallocation: none of them can fail.                                    *)
THEOREM BuilderReservesEnough == Spec => []ReservedIsEnough
<1>1. IInv => ReservedIsEnough
  <2> SUFFICES ASSUME IInv, last.call = "reserve", last.err = "OK", ~HasDense, Aligned(tree, 1),
                      SizesFit(tree, tree[1].length + last.arg),
                      NEW place \in Failures(1)
               PROVE  AppendEmpty(tree, 1, last.arg, 1, place).err = "OK"
    BY DEF ReservedIsEnough
  <2>1. damaged = FALSE /\ last.arg \in Nat /\ \E s : ReservedFrom(s, tree, last.arg)
    BY DEF IInv, Holds
  <2>2. InOrder(tree)
    BY <2>1 DEF IInv, Holds, HasStarted
  <2>3. \A p \in 1..Len(tree) : tree[p].type # "dense_union"
    BY <2>2 DEF HasDense, InOrder, Arranged
  <2> QED
    BY <2>1, <2>2, <2>3, ReservedAppends
<1> QED
  BY <1>1, IInvHolds, PTL

==============================================================================
