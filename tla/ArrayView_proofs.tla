-------------------------- MODULE ArrayView_proofs --------------------------
(***************************************************************************)
(* Proofs about ArrayView: that validation reads inside the buffers of an  *)
(* array, that what it fully accepts is safe to read, that it rejects no   *)
(* array that is well formed, that a view used again is as a new one and   *)
(* that the lengths ArrowArrayViewSetLength is given are sized for.        *)
(*                                                                         *)
(* First one node, then a tree, of each level of validation; what a level  *)
(* establishes of the array behind the view (Room, Held, Sound), level by  *)
(* level up to Safe; the same backwards for a well-formed array; then the  *)
(* life of a view as an inductive invariant, IInv.                         *)
(***************************************************************************)
EXTENDS ArrayView, SequenceLemmas, TLAPS

(* What there is to know of the layouts. *)
LEMMA Laid ==
  ASSUME NEW x, x.type \in DOMAIN Layout
  PROVE  /\ Kind(x, 1) \in {"none", "validity", "type_id"}
         /\ Kind(x, 2) \in {"none", "data", "data_offset", "union_offset"}
         /\ Kind(x, 3) \in {"none", "data"}
         /\ Kind(x, 1) = "validity" => Bits(x, 1) = 1
         /\ Kind(x, 1) = "type_id" => Bits(x, 1) = 8
         /\ Kind(x, 1) = "type_id" <=> x.type \in {"sparse_union", "dense_union"}
         /\ Kind(x, 2) = "data" => Bits(x, 2) \in {1, 16} /\ x.type \in {"bool", "int16"}
         /\ x.type = "int16" => Kind(x, 2) = "data" /\ Bits(x, 2) = 16
         /\ Kind(x, 2) = "data_offset" => Bits(x, 2) \in {32, 64}
         /\ Kind(x, 2) = "data_offset" <=> x.type \in {"list", "string", "large_string"}
         /\ Kind(x, 2) = "union_offset" => Bits(x, 2) = 32
         /\ Kind(x, 2) = "union_offset" <=> x.type = "dense_union"
         /\ Kind(x, 3) = "data" <=> x.type \in {"string", "large_string"}
<1>1. x.type \in {"na", "run_end_encoded", "bool", "int16", "string", "large_string", "list",
                  "fixed_size_list", "struct", "sparse_union", "dense_union"}
  BY Zenon DEF Layout
<1> QED
  BY <1>1 DEF Kind, Bits, Layout, NoBuffer, Validity, TypeId

(* Bytes for bits. *)
LEMMA BytesHold ==
  ASSUME NEW n \in Nat
  PROVE  /\ BytesForBits(n) \in Nat /\ 8 * BytesForBits(n) >= n
         /\ BytesForBits(n) = RoundUpToMultipleOf8(n) \div 8
         /\ n = 0 => BytesForBits(n) = 0
<1>1. RoundUpToMultipleOf8(n) = 8 * ((n + 7) \div 8) /\ (n + 7) \div 8 \in Nat
  BY DEF RoundUpToMultipleOf8
<1>2. RoundUpToMultipleOf8(n) \div 8 = (n + 7) \div 8
  BY <1>1
<1>3. 8 * ((n + 7) \div 8) >= n
  OBVIOUS
<1>4. n = 0 => (n + 7) \div 8 = 0
  OBVIOUS
<1> QED
  BY <1>1, <1>2, <1>3, <1>4 DEF BytesForBits

(* An element below n has its bit in the bytes for n bits. *)
LEMMA ByteOf ==
  ASSUME NEW n \in Nat, NEW j \in Nat, NEW m \in Int, j < n, 8 * m >= n
  PROVE  j \div 8 < m
OBVIOUS

(* The bytes a buffer needs, in the terms the accessors use. *)
LEMMA NeededIs ==
  ASSUME NEW x, x.type \in DOMAIN Layout, NEW n \in Nat
  PROVE  /\ \A b \in 1..2 : Needed(x, b, n) \in Nat
         /\ n = 0 => \A b \in 1..2 : Needed(x, b, n) = 0
         /\ Kind(x, 1) = "validity" => 8 * Needed(x, 1, n) >= n
         /\ Kind(x, 1) = "type_id" => Needed(x, 1, n) = n
         /\ Kind(x, 2) = "data" => 8 * Needed(x, 2, n) >= Bits(x, 2) * n
         /\ x.type = "int16" => Needed(x, 2, n) = 2 * n
         /\ Kind(x, 2) = "data_offset" /\ n # 0 =>
              Needed(x, 2, n) = (Bits(x, 2) \div 8) * (n + 1)
         /\ Kind(x, 2) = "union_offset" => Needed(x, 2, n) = 4 * n
<1> USE Laid
<1>1. CASE Kind(x, 2) = "none"
  <2>1. Needed(x, 2, n) = 0
    BY <1>1 DEF Needed
  <2> QED
    BY <1>1, <2>1, BytesHold DEF Needed
<1>2. CASE Kind(x, 2) = "data"
  <2>1. Needed(x, 2, n) = RoundUpToMultipleOf8(Bits(x, 2) * n) \div 8
    BY <1>2 DEF Needed
  <2>2. Bits(x, 2) * n \in Nat /\ (n = 0 => Bits(x, 2) * n = 0)
    BY <1>2
  <2>3. /\ Needed(x, 2, n) \in Nat /\ 8 * Needed(x, 2, n) >= Bits(x, 2) * n
        /\ n = 0 => Needed(x, 2, n) = 0
    BY <2>1, <2>2, BytesHold
  <2>4. x.type = "int16" => Needed(x, 2, n) = 2 * n
    BY <2>1 DEF RoundUpToMultipleOf8
  <2> QED
    BY <1>2, <2>3, <2>4, BytesHold DEF Needed
<1>3. CASE Kind(x, 2) = "data_offset"
  BY <1>3, BytesHold DEF Needed
<1>4. CASE Kind(x, 2) = "union_offset"
  BY <1>4, BytesHold DEF Needed
<1> QED
  BY <1>1, <1>2, <1>3, <1>4

(* What int64 arithmetic makes of an integer. *)
Int64s == (-Int64Max - 1)..Int64Max

LEMMA WrappedIs ==
  ASSUME NEW n \in Int
  PROVE  /\ Wrapped(n) \in Int64s
         /\ n \in Int64s => Wrapped(n) = n
         /\ n >= 0 => Wrapped(n) <= n
<1> DEFINE x == n + Int64Max + 1
           d == 2 * (Int64Max + 1)
<1>1. /\ x \in Int /\ d \in Nat /\ d > 0
      /\ n \in Int64s => x \in Nat /\ x < d
      /\ n >= 0 => x \in Nat
  BY ViewAssumption DEF Int64s
<1>2. Wrapped(n) = (x % d) - (Int64Max + 1) /\ n = x - (Int64Max + 1)
  BY ViewAssumption DEF Wrapped
<1>3. d = 2 * (Int64Max + 1)
  OBVIOUS
<1> HIDE DEF x, d
<1>4. /\ x % d \in 0..(d - 1) /\ (x \in Nat /\ x < d => x % d = x)
      /\ x \in Nat => x % d <= x
  BY <1>1, Remainder
<1> QED
  BY <1>1, <1>2, <1>3, <1>4, ViewAssumption DEF Int64s

(* The size nanoarrow works out is not above the one that is needed. *)
LEMMA MinSizeIs ==
  ASSUME NEW x, x.type \in DOMAIN Layout, NEW n \in Nat
  PROVE  /\ \A b \in 1..2 : MinSize(x, b, n) \in Int /\ MinSize(x, b, n) <= Needed(x, b, n)
         /\ n = 0 => \A b \in 1..2 : MinSize(x, b, n) = 0
<1> SUFFICES ASSUME NEW b \in 1..2
             PROVE  /\ MinSize(x, b, n) \in Int /\ MinSize(x, b, n) <= Needed(x, b, n)
                    /\ n = 0 => MinSize(x, b, n) = 0
  OBVIOUS
<1> DEFINE m == Needed(x, b, n)
<1>1. m \in Nat /\ (n = 0 => m = 0)
  BY NeededIs
<1>2. 0 \in Int64s /\ \A w \in Int64s : w \in Int
  BY ViewAssumption DEF Int64s
<1>3. CASE Kind(x, b) = "validity"
  <2>1. MinSize(x, b, n) = m
    BY <1>3 DEF MinSize, Needed
  <2> QED
    BY <1>1, <2>1
<1>4. CASE Kind(x, b) = "data"
  <2> DEFINE r == RoundUpToMultipleOf8(Bits(x, b) * n)
  <2>1. MinSize(x, b, n) = Wrapped(r) \div 8 /\ m = r \div 8
    BY <1>4 DEF MinSize, Needed
  <2>2. Bits(x, b) \in {1, 16}
    BY <1>4, Laid
  <2>3. Bits(x, b) * n \in Nat /\ (n = 0 => Bits(x, b) * n = 0)
    BY <2>2
  <2>4. r \in Nat /\ (n = 0 => r = 0)
    BY <2>3 DEF RoundUpToMultipleOf8
  <2> HIDE DEF r
  <2>5. Wrapped(r) \in Int /\ Wrapped(r) <= r /\ (n = 0 => Wrapped(r) = 0)
    BY <1>2, <2>4, WrappedIs
  <2>6. Wrapped(r) \div 8 \in Int /\ Wrapped(r) \div 8 <= r \div 8
    BY <2>4, <2>5
  <2> QED
    BY <2>1, <2>4, <2>5, <2>6
<1>5. CASE Kind(x, b) \notin {"validity", "data"}
  <2>1. MinSize(x, b, n) = Wrapped(m)
    BY <1>5 DEF MinSize
  <2> HIDE DEF m
  <2> QED
    BY <1>1, <1>2, <2>1, WrappedIs DEF m
<1> QED
  BY <1>3, <1>4, <1>5

(* Nor is the length that it asks of a child. *)
LEMMA InChildIs ==
  ASSUME NEW n \in Int
  PROVE  /\ InChild(n) \in Int /\ (n = 0 => InChild(n) = 0)
         /\ InChild(n) \in Int64s
         /\ n >= 0 /\ ListSize >= 0 => InChild(n) <= n * ListSize
<1> DEFINE m == n * ListSize
<1>1. ListSize \in Int /\ Int64Max \in Nat
  BY ViewAssumption
<1>2. m \in Int /\ (n = 0 => m = 0)
  BY <1>1
<1>3. n >= 0 /\ ListSize >= 0 => m >= 0
  <2> SUFFICES ASSUME n >= 0, ListSize >= 0 PROVE m >= 0
    OBVIOUS
  <2>1. n \in Nat /\ ListSize \in Nat
    BY <1>1
  <2> QED
    BY <2>1
<1> HIDE DEF m
<1>4. /\ Wrapped(m) \in Int64s /\ Wrapped(m) \in Int /\ (m >= 0 => Wrapped(m) <= m)
      /\ m = 0 => Wrapped(m) = 0
  BY <1>1, <1>2, WrappedIs DEF Int64s
<1> QED
  BY <1>2, <1>3, <1>4 DEF InChild, m

(* The nodes of a view, as records. *)
Node(x, sizes) ==
  [type |-> x.type, offset |-> x.offset, length |-> x.length, null_count |-> x.null_count,
   sizes |-> sizes, types |-> x.types, ints |-> x.ints, ids |-> x.ids,
   kids |-> x.kids, dict |-> x.dict, up |-> x.up, last |-> x.last]
IsNode(x) ==
  /\ x = Node(x, x.sizes) /\ x.sizes = [b \in 1..3 |-> x.sizes[b]]
  /\ x.type \in DOMAIN Layout
  /\ x.length \in Int /\ x.offset \in Int /\ x.null_count \in Int
  /\ \A b \in 1..3 : x.sizes[b] \in Int /\ (Kind(x, b) = "none" => x.sizes[b] = 0)
  /\ HoldsInts(x) => \A i \in DOMAIN x.ints : x.ints[i] \in Int

LEMMA NodeIs ==
  ASSUME NEW x, NEW f
  PROVE  /\ Node(x, f).type = x.type /\ Node(x, f).offset = x.offset
         /\ Node(x, f).length = x.length /\ Node(x, f).null_count = x.null_count
         /\ Node(x, f).sizes = f /\ Node(x, f).types = x.types /\ Node(x, f).ints = x.ints
         /\ Node(x, f).ids = x.ids /\ Node(x, f).kids = x.kids /\ Node(x, f).dict = x.dict
         /\ Node(x, f).up = x.up /\ Node(x, f).last = x.last
BY DEF Node

(* What a resized node still says of itself. *)
LEMMA NodeSays ==
  ASSUME NEW x, NEW f
  PROVE  /\ \A b : Kind(Node(x, f), b) = Kind(x, b) /\ Bits(Node(x, f), b) = Bits(x, b)
         /\ \A b, n : Needed(Node(x, f), b, n) = Needed(x, b, n)
         /\ \A b, n : MinSize(Node(x, f), b, n) = MinSize(x, b, n)
         /\ End(Node(x, f)) = End(x) /\ Extent(Node(x, f)) = End(x)
         /\ \A i : GetInt(Node(x, f), i) = GetInt(x, i) /\ HasInt(Node(x, f), i) = HasInt(x, i)
         /\ HoldsInts(Node(x, f)) = HoldsInts(x)
<1>1. \A b : Kind(Node(x, f), b) = Kind(x, b) /\ Bits(Node(x, f), b) = Bits(x, b)
  <2>1. Node(x, f).type = x.type
    BY NodeIs, Zenon
  <2> QED
    BY <2>1 DEF Kind, Bits
<1>2. \A b, n : /\ Needed(Node(x, f), b, n) = Needed(x, b, n)
                 /\ MinSize(Node(x, f), b, n) = MinSize(x, b, n)
  <2>1. \A b, n : Needed(Node(x, f), b, n) = Needed(x, b, n)
    BY <1>1 DEF Needed
  <2> QED
    BY <1>1, <2>1 DEF MinSize
<1>3. End(Node(x, f)) = End(x) /\ Extent(Node(x, f)) = End(x)
  BY NodeIs, Zenon DEF End, Extent
<1>4. \A i : GetInt(Node(x, f), i) = GetInt(x, i) /\ HasInt(Node(x, f), i) = HasInt(x, i)
  BY NodeIs, Zenon DEF GetInt, HasInt
<1>5. HoldsInts(Node(x, f)) = HoldsInts(x)
  <2>1. Kind(Node(x, f), 2) = Kind(x, 2) /\ Node(x, f).type = x.type
    BY <1>1, NodeIs, Zenon
  <2> QED
    BY <2>1 DEF HoldsInts
<1> QED
  BY <1>1, <1>2, <1>3, <1>4, <1>5, Zenon

LEMMA NodeSized ==
  ASSUME NEW x, IsNode(x), NEW f
  PROVE  [x EXCEPT !.sizes = f] = Node(x, f)
BY DEF IsNode, Node

LEMMA NodeResized ==
  ASSUME NEW x, IsNode(x), NEW b \in 1..3, NEW n
  PROVE  [x EXCEPT !.sizes[b] = n] = Node(x, [x.sizes EXCEPT ![b] = n])
BY DEF IsNode, Node

(* The trees that views are, and trees that differ in sizes alone. *)
ViewTree(t) ==
  /\ t = [p \in DOMAIN t |-> t[p]] /\ DOMAIN t = 1..Len(t) /\ Len(t) \in Nat
  /\ \A p \in DOMAIN t : IsNode(t[p]) /\ t[p].kids \in Seq(DOMAIN t)
Resized(u, t) ==
  /\ DOMAIN u = DOMAIN t
  /\ \A p \in DOMAIN t : u[p] = Node(t[p], u[p].sizes)

(* A node resized twice. *)
LEMMA NodeAgain ==
  ASSUME NEW x, NEW f, IsNode(x),
         f = [b \in 1..3 |-> f[b]],
         \A b \in 1..3 : f[b] \in Int /\ (Kind(x, b) = "none" => f[b] = 0)
  PROVE  IsNode(Node(x, f))
<1> DEFINE y == Node(x, f)
<1>1. y = Node(y, y.sizes)
  BY DEF Node
<1>2. /\ y.type = x.type /\ y.length = x.length /\ y.offset = x.offset /\ y.null_count = x.null_count
      /\ y.ints = x.ints /\ y.sizes = f
  BY NodeIs
<1>3. (\A b : Kind(y, b) = Kind(x, b)) /\ HoldsInts(y) = HoldsInts(x)
  BY NodeSays
<1> HIDE DEF y
<1>4. y.sizes = [b \in 1..3 |-> y.sizes[b]]
  BY <1>2
<1>5. /\ y.type \in DOMAIN Layout
      /\ y.length \in Int /\ y.offset \in Int /\ y.null_count \in Int
  BY <1>2 DEF IsNode
<1>6. \A b \in 1..3 : y.sizes[b] \in Int /\ (Kind(y, b) = "none" => y.sizes[b] = 0)
  BY <1>2, <1>3
<1>7. HoldsInts(y) => \A i \in DOMAIN y.ints : y.ints[i] \in Int
  BY <1>2, <1>3 DEF IsNode
<1>8. IsNode(y)
  BY <1>1, <1>4, <1>5, <1>6, <1>7 DEF IsNode
<1> QED
  BY <1>8 DEF y

(* Resizing the nodes of a tree leaves the lengths of their children. *)
LEMMA KidsResized ==
  ASSUME NEW t, NEW u, ViewTree(t), Resized(u, t), NEW p \in DOMAIN t, NEW k \in DOMAIN t[p].kids
  PROVE  /\ t[p].kids[k] \in DOMAIN t /\ u[p].kids = t[p].kids
         /\ Kid(u, p, k) = u[t[p].kids[k]] /\ Kid(t, p, k) = t[t[p].kids[k]]
         /\ Kid(u, p, k).length = Kid(t, p, k).length
         /\ Kid(u, p, k).offset = Kid(t, p, k).offset
         /\ Kid(u, p, k).null_count = Kid(t, p, k).null_count
         /\ Kid(u, p, k).type = Kid(t, p, k).type
         /\ \A i : GetInt(Kid(u, p, k), i) = GetInt(Kid(t, p, k), i)
         /\ \A i : HasInt(Kid(u, p, k), i) = HasInt(Kid(t, p, k), i)
<1>1. u[p].kids = t[p].kids
  <2>1. u[p] = Node(t[p], u[p].sizes)
    BY DEF Resized
  <2> QED
    BY <2>1, NodeIs
<1>2. t[p].kids[k] \in DOMAIN t
  <2>1. t[p].kids \in Seq(DOMAIN t)
    BY DEF ViewTree
  <2> QED
    BY <2>1
<1> DEFINE q == t[p].kids[k]
<1>3. u[q] = Node(t[q], u[q].sizes)
  BY <1>2 DEF Resized
<1>4. Kid(u, p, k) = u[q] /\ Kid(t, p, k) = t[q]
  BY <1>1 DEF Kid
<1>5. /\ u[q].length = t[q].length /\ u[q].offset = t[q].offset /\ u[q].null_count = t[q].null_count
      /\ u[q].type = t[q].type
  <2> HIDE DEF q
  <2> QED
    BY <1>3, NodeIs
<1>6. \A i : GetInt(u[q], i) = GetInt(t[q], i) /\ HasInt(u[q], i) = HasInt(t[q], i)
  <2> HIDE DEF q
  <2> QED
    BY <1>3, NodeSays
<1> QED
  BY <1>1, <1>2, <1>4, <1>5, <1>6

LEMMA SufficeResized ==
  ASSUME NEW t, NEW u, ViewTree(t), Resized(u, t), NEW p \in DOMAIN t
  PROVE  ChildrenSuffice(u, p) = ChildrenSuffice(t, p)
<1>1. /\ u[p].type = t[p].type /\ u[p].kids = t[p].kids /\ End(u[p]) = End(t[p])
  <2>1. u[p] = Node(t[p], u[p].sizes)
    BY DEF Resized
  <2> QED
    BY <2>1, NodeIs, NodeSays
<1>2. t[p].kids \in Seq(DOMAIN t)
  BY DEF ViewTree
<1>3. DOMAIN t[p].kids = 1..Len(t[p].kids) /\ Len(t[p].kids) \in Nat
  BY <1>2
<1>4. \A k \in DOMAIN t[p].kids :
         /\ Kid(u, p, k).length = Kid(t, p, k).length
         /\ Kid(u, p, k).null_count = Kid(t, p, k).null_count
         /\ Kid(u, p, k).type = Kid(t, p, k).type
  BY KidsResized
<1>5. (Len(t[p].kids) = 1 => 1 \in DOMAIN t[p].kids)
      /\ (Len(t[p].kids) = 2 => 1 \in DOMAIN t[p].kids /\ 2 \in DOMAIN t[p].kids)
  BY <1>3
<1> QED
  BY <1>1, <1>4, <1>5 DEF ChildrenSuffice

(* Minimal validation of a node. *)
Assigned(x) ==
  [b \in 1..3 |-> IF b # 3 /\ Kind(x, b) # "none" /\ x.sizes[b] = Unknown
                  THEN MinSize(x, b, End(x)) ELSE x.sizes[b]]
Fits(x, b) ==
  \/ Kind(x, b) = "none" \/ Optional(x, b) \/ x.sizes[b] = Unknown
  \/ x.sizes[b] >= MinSize(x, b, End(x))

(* The check of one buffer, and the size it assigns. *)
LEMMA FitIs ==
  ASSUME NEW x, IsNode(x), NEW b \in 1..2, End(x) \in Nat
  PROVE  /\ Fit(x, b).wild = FALSE /\ (Fit(x, b).ok <=> Fits(x, b)) /\ Fit(x, b).ok \in BOOLEAN
         /\ Fit(x, b).view =
              Node(x, [c \in 1..3 |-> IF c = b /\ Kind(x, b) # "none" /\ x.sizes[b] = Unknown
                                      THEN MinSize(x, b, End(x)) ELSE x.sizes[c]])
         /\ IsNode(Fit(x, b).view)
<1> DEFINE g == [c \in 1..3 |-> IF c = b /\ Kind(x, b) # "none" /\ x.sizes[b] = Unknown
                                THEN MinSize(x, b, End(x)) ELSE x.sizes[c]]
<1>0. /\ x.type \in DOMAIN Layout /\ x = Node(x, x.sizes)
      /\ x.sizes = [c \in 1..3 |-> x.sizes[c]]
      /\ \A c \in 1..3 : x.sizes[c] \in Int /\ (Kind(x, c) = "none" => x.sizes[c] = 0)
  BY Zenon DEF IsNode
<1>1. Extent(x) = End(x) /\ MinSize(x, b, End(x)) \in Int
  BY <1>0, MinSizeIs DEF Extent
<1>2. CASE Kind(x, b) # "none" /\ ~Optional(x, b) /\ x.sizes[b] = Unknown
  <2>1. Fit(x, b) = OK([x EXCEPT !.sizes[b] = MinSize(x, b, End(x))])
    BY <1>1, <1>2, Zenon DEF Fit
  <2>2. [x EXCEPT !.sizes[b] = MinSize(x, b, End(x))] = Node(x, [x.sizes EXCEPT ![b] = MinSize(x, b, End(x))])
    BY NodeResized, b \in 1..3
  <2>3. [x.sizes EXCEPT ![b] = MinSize(x, b, End(x))] = g
    BY <1>0, <1>2
  <2>4. g = [c \in 1..3 |-> g[c]] /\ \A c \in 1..3 : g[c] \in Int /\ (Kind(x, c) = "none" => g[c] = 0)
    BY <1>0, <1>1
  <2>5. Fits(x, b)
    BY <1>2 DEF Fits
  <2> HIDE DEF g
  <2>6. IsNode(Node(x, g))
    BY <2>4, NodeAgain, Zenon
  <2>7. Fit(x, b) = OK(Node(x, g))
    BY <2>1, <2>2, <2>3, Zenon
  <2> QED
    BY <2>5, <2>6, <2>7 DEF OK, g
<1>3. CASE ~(Kind(x, b) # "none" /\ ~Optional(x, b) /\ x.sizes[b] = Unknown)
  <2>1. x.sizes[b] # Unknown \/ Kind(x, b) = "none"
    BY <1>3 DEF Optional, Unknown
  <2>2. g = x.sizes
    BY <1>0, <2>1
  <2>3. /\ Fit(x, b).wild = FALSE /\ (Fit(x, b).ok <=> Fits(x, b)) /\ Fit(x, b).ok \in BOOLEAN
        /\ Fit(x, b).view = x
    <3>1. CASE Kind(x, b) = "none" \/ Optional(x, b)
      <4>1. Fit(x, b) = OK(x)
        BY <3>1, Zenon DEF Fit
      <4> QED
        BY <4>1, <3>1 DEF OK, Fits
    <3>2. CASE ~(Kind(x, b) = "none" \/ Optional(x, b))
      <4>1. Fit(x, b) = Check(x, x.sizes[b] >= MinSize(x, b, End(x)))
        BY <3>2, <2>1, <1>1, Zenon DEF Fit
      <4> QED
        BY <4>1, <3>2, <2>1 DEF OK, EINVAL, Check, Fits
    <3> QED
      BY <3>1, <3>2
  <2> QED
    BY <1>0, <2>2, <2>3
<1> QED
  BY <1>2, <1>3

(* A size that was assigned fits. *)
LEMMA FitsAfter ==
  ASSUME NEW x, IsNode(x), End(x) \in Nat
  PROVE  /\ Fits(Fit(x, 1).view, 2) <=> Fits(x, 2)
         /\ Fit(Fit(x, 1).view, 2).view =
              Node(x, [b \in 1..3 |-> IF b = 2 /\ Kind(x, 2) # "none" /\ x.sizes[2] = Unknown
                                      THEN MinSize(x, 2, End(x)) ELSE Fit(x, 1).view.sizes[b]])
         /\ IsNode(Fit(Fit(x, 1).view, 2).view)
         /\ Fit(Fit(x, 1).view, 2).wild = FALSE
         /\ Fit(Fit(x, 1).view, 2).ok <=> Fits(x, 2)
         /\ Fit(Fit(x, 1).view, 2).ok \in BOOLEAN
<1> DEFINE g == [c \in 1..3 |-> IF c = 1 /\ Kind(x, 1) # "none" /\ x.sizes[1] = Unknown
                                THEN MinSize(x, 1, End(x)) ELSE x.sizes[c]]
           y == Fit(x, 1).view
<1>1. y = Node(x, g) /\ IsNode(y)
  <2>1. 1 \in 1..2
    OBVIOUS
  <2> QED
    BY <2>1, FitIs
<1>2. g[2] = x.sizes[2]
  OBVIOUS
<1> HIDE DEF g
<1>3. /\ y.sizes[2] = x.sizes[2] /\ End(y) = End(x) /\ Kind(y, 2) = Kind(x, 2)
      /\ y.null_count = x.null_count /\ MinSize(y, 2, End(y)) = MinSize(x, 2, End(x))
  <2> HIDE DEF y
  <2> QED
    BY <1>1, <1>2, NodeIs, NodeSays
<1>4. \A f : Node(y, f) = Node(x, f)
  <2> HIDE DEF y
  <2> QED
    BY <1>1, NodeIs DEF Node
<1> HIDE DEF y
<1>5. Fits(y, 2) <=> Fits(x, 2)
  BY <1>3 DEF Fits, Optional
<1>6. /\ Fit(y, 2).wild = FALSE /\ (Fit(y, 2).ok <=> Fits(y, 2)) /\ Fit(y, 2).ok \in BOOLEAN
      /\ Fit(y, 2).view =
           Node(y, [c \in 1..3 |-> IF c = 2 /\ Kind(y, 2) # "none" /\ y.sizes[2] = Unknown
                                   THEN MinSize(y, 2, End(y)) ELSE y.sizes[c]])
      /\ IsNode(Fit(y, 2).view)
  <2>1. 2 \in 1..2 /\ End(y) \in Nat
    BY <1>3
  <2> QED
    BY <2>1, <1>1, FitIs
<1>7. [c \in 1..3 |-> IF c = 2 /\ Kind(y, 2) # "none" /\ y.sizes[2] = Unknown
                      THEN MinSize(y, 2, End(y)) ELSE y.sizes[c]]
      = [c \in 1..3 |-> IF c = 2 /\ Kind(x, 2) # "none" /\ x.sizes[2] = Unknown
                        THEN MinSize(x, 2, End(x)) ELSE y.sizes[c]]
  BY <1>3
<1> QED
  BY <1>4, <1>5, <1>6, <1>7 DEF y

Passes(t, p) ==
  /\ t[p].length >= 0 /\ t[p].offset >= 0 /\ End(t[p]) <= Int64Max
  /\ Fits(t[p], 1) /\ Fits(t[p], 2) /\ ChildrenSuffice(t, p)

(* Minimal validation of one node: whether it passes and what it is then.  *)
LEMMA MinimalNode ==
  ASSUME NEW t, ViewTree(t), NEW p \in DOMAIN t
  PROVE  /\ MinimalAt(t, p).wild = FALSE
         /\ MinimalAt(t, p).ok <=> Passes(t, p)
         /\ MinimalAt(t, p).ok => MinimalAt(t, p).view = Node(t[p], Assigned(t[p]))
         /\ MinimalAt(t, p).view = Node(t[p], MinimalAt(t, p).view.sizes)
         /\ IsNode(MinimalAt(t, p).view)
<1> DEFINE x == t[p]
           y == Fit(x, 1).view
           z == Fit(y, 2).view
<1>0. IsNode(x) /\ x.length \in Int /\ x.offset \in Int /\ x = Node(x, x.sizes)
  BY DEF ViewTree, IsNode
<1>1. CASE x.length < 0 \/ x.offset < 0 \/ End(x) > Int64Max
  <2>1. MinimalAt(t, p) = EINVAL(x)
    BY <1>1 DEF MinimalAt
  <2>2. ~Passes(t, p)
    BY <1>0, <1>1, ViewAssumption DEF Passes, End
  <2> QED
    BY <1>0, <2>1, <2>2 DEF EINVAL
<1>2. CASE ~(x.length < 0 \/ x.offset < 0 \/ End(x) > Int64Max)
  <2>1. End(x) \in Nat
    BY <1>0, <1>2 DEF End
  <2>2. /\ Fit(x, 1).wild = FALSE /\ (Fit(x, 1).ok <=> Fits(x, 1)) /\ Fit(x, 1).ok \in BOOLEAN
        /\ y = Node(x, [c \in 1..3 |-> IF c = 1 /\ Kind(x, 1) # "none" /\ x.sizes[1] = Unknown
                                       THEN MinSize(x, 1, End(x)) ELSE x.sizes[c]])
        /\ IsNode(y)
    <3>1. 1 \in 1..2
      OBVIOUS
    <3> HIDE DEF x
    <3> QED
      BY <1>0, <2>1, <3>1, FitIs
  <2>3. /\ Fit(y, 2).wild = FALSE /\ (Fit(y, 2).ok <=> Fits(x, 2)) /\ Fit(y, 2).ok \in BOOLEAN
        /\ z = Node(x, [b \in 1..3 |-> IF b = 2 /\ Kind(x, 2) # "none" /\ x.sizes[2] = Unknown
                                       THEN MinSize(x, 2, End(x)) ELSE y.sizes[b]])
        /\ IsNode(z)
    <3> HIDE DEF x
    <3> QED
      BY <1>0, <2>1, FitsAfter
  <2>4. z = Node(x, Assigned(x))
    <3> HIDE DEF x
    <3>1. y.sizes = [c \in 1..3 |-> IF c = 1 /\ Kind(x, 1) # "none" /\ x.sizes[1] = Unknown
                                    THEN MinSize(x, 1, End(x)) ELSE x.sizes[c]]
      BY <2>2, NodeIs
    <3>2. Assigned(x) = [b \in 1..3 |-> IF b = 2 /\ Kind(x, 2) # "none" /\ x.sizes[2] = Unknown
                                        THEN MinSize(x, 2, End(x)) ELSE y.sizes[b]]
      <4> HIDE DEF y
      <4> QED
        BY <3>1 DEF Assigned
    <3> QED
      BY <2>3, <3>2
  <2>5. y = Node(x, y.sizes) /\ z = Node(x, z.sizes)
    <3> HIDE DEF x
    <3> QED
      BY <2>2, <2>3, NodeIs
  <2>6. MinimalAt(t, p) = Then(Then(Fit(x, 1), LAMBDA v : Fit(v, 2)), LAMBDA v : Check(v, ChildrenSuffice(t, p)))
    BY <1>2 DEF MinimalAt
  <2> HIDE DEF x
  <2>7. CASE ~Fits(x, 1)
    <3>1. MinimalAt(t, p) = Fit(x, 1)
      BY <2>2, <2>6, <2>7 DEF Then
    <3>2. ~Passes(t, p)
      BY <2>7 DEF Passes, x
    <3> QED
      BY <2>2, <2>5, <2>7, <3>1, <3>2 DEF x
  <2>8. CASE Fits(x, 1) /\ ~Fits(x, 2)
    <3>1. MinimalAt(t, p) = Fit(y, 2)
      BY <2>2, <2>3, <2>6, <2>8 DEF Then
    <3>2. ~Passes(t, p)
      BY <2>8 DEF Passes, x
    <3> QED
      BY <2>3, <2>5, <2>8, <3>1, <3>2 DEF x
  <2>9. CASE Fits(x, 1) /\ Fits(x, 2)
    <3>1. MinimalAt(t, p) = Check(z, ChildrenSuffice(t, p))
      BY <2>2, <2>3, <2>6, <2>9 DEF Then
    <3>2. Passes(t, p) <=> ChildrenSuffice(t, p)
      BY <1>0, <1>2, <2>9, ViewAssumption DEF Passes, End, x
    <3> HIDE DEF z
    <3> QED
      BY <2>3, <2>4, <2>5, <3>1, <3>2 DEF Check, OK, EINVAL, x
  <2> QED
    BY <2>7, <2>8, <2>9
<1> QED
  BY <1>1, <1>2

(* Minimal validation of a tree. Once it accepted a tree it accepts it     *)
(* again, as it is.                                                        *)
Passed(u) == \A p \in DOMAIN u : Passes(u, p) /\ Assigned(u[p]) = u[p].sizes

LEMMA MinimalTree ==
  ASSUME NEW t, ViewTree(t)
  PROVE  LET r == ValidateMinimal(t) IN
           /\ r.wild = FALSE /\ r.ok \in BOOLEAN
           /\ ViewTree(r.view) /\ Resized(r.view, t)
           /\ r.ok <=> \A p \in DOMAIN t : Passes(t, p)
           /\ r.ok => r.view = [p \in DOMAIN t |-> Node(t[p], Assigned(t[p]))]
<1> DEFINE r == ValidateMinimal(t)
           Reached(p) == \A q \in 1..(p - 1) : MinimalAt(t, q).ok
           w == [p \in DOMAIN t |-> IF Reached(p) THEN MinimalAt(t, p).view ELSE t[p]]
<1>1. /\ r.view = w
      /\ r.ok = (\A p \in DOMAIN t : MinimalAt(t, p).ok)
      /\ r.wild = (\E p \in DOMAIN t : Reached(p) /\ MinimalAt(t, p).wild)
  BY DEF ValidateMinimal, Visit
<1>2. \A p \in DOMAIN t :
         /\ MinimalAt(t, p).wild = FALSE /\ (MinimalAt(t, p).ok <=> Passes(t, p))
         /\ (MinimalAt(t, p).ok => MinimalAt(t, p).view = Node(t[p], Assigned(t[p])))
         /\ MinimalAt(t, p).view = Node(t[p], MinimalAt(t, p).view.sizes)
         /\ IsNode(MinimalAt(t, p).view)
  BY MinimalNode
<1>3. /\ t = [p \in DOMAIN t |-> t[p]] /\ DOMAIN t = 1..Len(t) /\ Len(t) \in Nat
      /\ \A p \in DOMAIN t : IsNode(t[p]) /\ t[p].kids \in Seq(DOMAIN t)
  BY DEF ViewTree
<1>4. DOMAIN w = DOMAIN t /\ w = [p \in DOMAIN w |-> w[p]] /\ Len(w) = Len(t)
  <2>1. DOMAIN w = DOMAIN t /\ w = [p \in DOMAIN w |-> w[p]]
    BY Zenon
  <2> HIDE DEF w
  <2> QED
    BY <1>3, <2>1
<1>5. ASSUME NEW p \in DOMAIN t
      PROVE  w[p] = Node(t[p], w[p].sizes) /\ IsNode(w[p]) /\ w[p].kids \in Seq(DOMAIN t)
  <2>1. w[p] = MinimalAt(t, p).view \/ w[p] = t[p]
    BY Zenon
  <2>2. w[p] = Node(t[p], w[p].sizes) /\ IsNode(w[p])
    <3> HIDE DEF w
    <3>1. t[p] = Node(t[p], t[p].sizes)
      BY <1>3 DEF IsNode
    <3> QED
      BY <1>2, <1>3, <2>1, <3>1
  <2> HIDE DEF w
  <2>3. w[p].kids = t[p].kids
    BY <2>2, NodeIs
  <2> QED
    BY <1>3, <2>2, <2>3
<1>6. (\A p \in DOMAIN t : MinimalAt(t, p).ok) => w = [p \in DOMAIN t |-> Node(t[p], Assigned(t[p]))]
  <2> SUFFICES ASSUME \A p \in DOMAIN t : MinimalAt(t, p).ok
               PROVE  \A p \in DOMAIN t : w[p] = Node(t[p], Assigned(t[p]))
    BY <1>4
  <2> TAKE p \in DOMAIN t
  <2>1. w[p] = IF Reached(p) THEN MinimalAt(t, p).view ELSE t[p]
    OBVIOUS
  <2> HIDE DEF w
  <2>2. CASE Reached(p)
    BY <1>2, <2>1, <2>2
  <2>3. CASE ~Reached(p)
    <3>1. PICK q \in 1..(p - 1) : ~MinimalAt(t, q).ok
      BY <2>3
    <3>2. q \in DOMAIN t
      BY <1>3, <3>1
    <3> QED
      BY <3>1, <3>2
  <2> QED
    BY <2>2, <2>3
<1> HIDE DEF r, w
<1>7. ViewTree(w) /\ Resized(w, t)
  BY <1>3, <1>4, <1>5 DEF ViewTree, Resized
<1> QED
  BY <1>1, <1>2, <1>6, <1>7 DEF r

LEMMA PassesResized ==
  ASSUME NEW t, NEW u, ViewTree(t), Resized(u, t), NEW p \in DOMAIN t,
         \A b \in 1..2 : u[p].sizes[b] \in {t[p].sizes[b], MinSize(t[p], b, End(t[p]))},
         Passes(t, p)
  PROVE  Passes(u, p)
<1> DEFINE x == t[p]
           y == u[p]
<1>1. y = Node(x, y.sizes) /\ IsNode(x)
  BY DEF Resized, ViewTree
<1>2. \A b \in 1..2 : y.sizes[b] \in {x.sizes[b], MinSize(x, b, End(x))}
  OBVIOUS
<1>3. ChildrenSuffice(u, p) = ChildrenSuffice(t, p)
  BY SufficeResized
<1>4. /\ x.length >= 0 /\ x.offset >= 0 /\ End(x) <= Int64Max
      /\ Fits(x, 1) /\ Fits(x, 2) /\ ChildrenSuffice(t, p)
  BY DEF Passes
<1> HIDE DEF x, y
<1>5. /\ y.length = x.length /\ y.offset = x.offset /\ y.null_count = x.null_count
      /\ End(y) = End(x)
      /\ \A b : Kind(y, b) = Kind(x, b) /\ \A n : MinSize(y, b, n) = MinSize(x, b, n)
  <2>1. \A f : /\ Node(x, f).length = x.length /\ Node(x, f).offset = x.offset
               /\ Node(x, f).null_count = x.null_count
               /\ End(Node(x, f)) = End(x)
               /\ \A b : Kind(Node(x, f), b) = Kind(x, b) /\ \A n : MinSize(Node(x, f), b, n) = MinSize(x, b, n)
    BY NodeIs, NodeSays
  <2>2. PICK f : y = Node(x, f)
    BY <1>1
  <2> QED
    BY <2>1, <2>2
<1>6. \A b \in 1..2 : MinSize(x, b, End(x)) \in Int
  BY <1>1, <1>4, MinSizeIs DEF IsNode, End
<1>7. \A b \in 1..2 : x.sizes[b] \in Int
  BY <1>1 DEF IsNode
<1>8. ASSUME NEW b \in 1..2, Fits(x, b) PROVE Fits(y, b)
  BY <1>2, <1>5, <1>6, <1>7, <1>8 DEF Fits, Optional, Unknown
<1> QED
  BY <1>3, <1>4, <1>5, <1>8 DEF Passes, x, y

(* A tree that passed is accepted as it is. *)
LEMMA MinimalPassed ==
  ASSUME NEW t, ViewTree(t), ValidateMinimal(t).ok
  PROVE  Passed(ValidateMinimal(t).view)
<1> DEFINE u == ValidateMinimal(t).view
<1>1. /\ ViewTree(u) /\ Resized(u, t) /\ (\A p \in DOMAIN t : Passes(t, p))
      /\ u = [p \in DOMAIN t |-> Node(t[p], Assigned(t[p]))]
  BY MinimalTree
<1> HIDE DEF u
<1> SUFFICES ASSUME NEW p \in DOMAIN t PROVE Passes(u, p) /\ Assigned(u[p]) = u[p].sizes
  BY <1>1 DEF Passed, Resized, u
<1> DEFINE x == t[p]
           y == u[p]
<1>2. y = Node(x, Assigned(x)) /\ IsNode(x) /\ Passes(t, p)
  BY <1>1 DEF ViewTree
<1>3. x.length >= 0 /\ x.offset >= 0 /\ x.length \in Int /\ x.offset \in Int
  BY <1>2 DEF Passes, IsNode
<1> HIDE DEF x, y
<1>4. /\ y.sizes = Assigned(x) /\ End(y) = End(x)
      /\ \A b : Kind(y, b) = Kind(x, b) /\ \A n : MinSize(y, b, n) = MinSize(x, b, n)
  BY <1>2, NodeIs, NodeSays
<1>5. \A b \in 1..2 : MinSize(x, b, End(x)) \in Int
  BY <1>2, <1>3, MinSizeIs DEF IsNode, End
<1>6. \A b \in 1..2 : y.sizes[b] \in {x.sizes[b], MinSize(x, b, End(x))}
  BY <1>4 DEF Assigned
<1>7. Passes(u, p)
  BY <1>1, <1>2, <1>6, PassesResized DEF x, y
<1>8. \A b \in 1..3 : (b # 3 /\ Kind(y, b) # "none" /\ y.sizes[b] = Unknown) =>
                        y.sizes[b] = MinSize(y, b, End(y))
  BY <1>4 DEF Assigned
<1>9. Assigned(y) = [b \in 1..3 |-> y.sizes[b]]
  BY <1>8 DEF Assigned
<1>10. y.sizes = [b \in 1..3 |-> y.sizes[b]]
  BY <1>4 DEF Assigned
<1> QED
  BY <1>7, <1>9, <1>10 DEF y

LEMMA MinimalTwice ==
  ASSUME NEW u, ViewTree(u), Passed(u)
  PROVE  ValidateMinimal(u) = OK(u)
<1> DEFINE r == ValidateMinimal(u)
<1>1. /\ r.wild = FALSE /\ r.ok \in BOOLEAN /\ r.ok
      /\ r.view = [p \in DOMAIN u |-> Node(u[p], Assigned(u[p]))]
  BY MinimalTree DEF Passed
<1>2. \A p \in DOMAIN u : Node(u[p], Assigned(u[p])) = u[p]
  BY DEF Passed, ViewTree, IsNode
<1>3. r.view = u
  <2>1. u = [p \in DOMAIN u |-> u[p]]
    BY DEF ViewTree
  <2> HIDE DEF r
  <2> QED
    BY <1>1, <1>2, <2>1
<1>4. r = [view |-> r.view, ok |-> r.ok, wild |-> r.wild]
  BY DEF ValidateMinimal, Visit
<1> HIDE DEF r
<1>5. r = OK(u)
  BY <1>1, <1>3, <1>4 DEF OK
<1> QED
  BY <1>5 DEF r

(* What default validation assigns does not undo what passed. *)
LEMMA PassedResized ==
  ASSUME NEW u, NEW d, ViewTree(u), ViewTree(d), Passed(u), Resized(d, u),
         \A p \in DOMAIN u : \A b \in 1..2 : d[p].sizes[b] = u[p].sizes[b]
  PROVE  Passed(d)
<1> SUFFICES ASSUME NEW p \in DOMAIN u PROVE Passes(d, p) /\ Assigned(d[p]) = d[p].sizes
  BY DEF Passed, Resized
<1>1. Passes(d, p)
  <2>1. \A b \in 1..2 : d[p].sizes[b] \in {u[p].sizes[b], MinSize(u[p], b, End(u[p]))}
    OBVIOUS
  <2>2. Passes(u, p)
    BY DEF Passed
  <2> QED
    BY <2>1, <2>2, PassesResized
<1> DEFINE x == u[p]
           y == d[p]
<1>2. y = Node(x, y.sizes) /\ IsNode(y) /\ Assigned(x) = x.sizes
  BY DEF Passed, ViewTree, Resized
<1>3. \A b \in 1..2 : y.sizes[b] = x.sizes[b]
  OBVIOUS
<1> HIDE DEF x, y
<1>4. /\ \A b : Kind(y, b) = Kind(x, b) /\ \A n : MinSize(y, b, n) = MinSize(x, b, n)
      /\ End(y) = End(x)
  <2>1. \A f : /\ End(Node(x, f)) = End(x)
               /\ \A b : Kind(Node(x, f), b) = Kind(x, b) /\ \A n : MinSize(Node(x, f), b, n) = MinSize(x, b, n)
    BY NodeSays
  <2>2. PICK f : y = Node(x, f)
    BY <1>2
  <2> QED
    BY <2>1, <2>2
<1>5. \A b \in 1..3 : Assigned(x)[b] = x.sizes[b]
  BY <1>2
<1>6. \A b \in 1..3 : Assigned(y)[b] = y.sizes[b]
  BY <1>3, <1>4, <1>5 DEF Assigned
<1>7. Assigned(y) = [b \in 1..3 |-> Assigned(y)[b]] /\ y.sizes = [b \in 1..3 |-> y.sizes[b]]
  BY <1>2 DEF Assigned, IsNode
<1>8. Assigned(y) = y.sizes
  BY <1>6, <1>7
<1> QED
  BY <1>1, <1>8 DEF y

(* Default validation of a node: what it does to the sizes, and that it    *)
(* comes to the same on a node that was resized by it already.             *)
DefaultSame(u, d, p) ==
  /\ DefaultAt(d, p).ok = DefaultAt(u, p).ok /\ DefaultAt(d, p).wild = DefaultAt(u, p).wild
  /\ DefaultAt(d, p).view = DefaultAt(u, p).view
Sizing(u, p) ==
  LET r == DefaultAt(u, p) IN
    /\ r.ok \in BOOLEAN /\ r.wild \in BOOLEAN /\ (r.wild => ~r.ok)
    /\ r.view = u[p] \/ \E n \in Nat : r.view = Node(u[p], [u[p].sizes EXCEPT ![3] = n])
                                       /\ u[p].sizes[3] = Unknown
                                       /\ Kind(u[p], 2) = "data_offset"
    /\ IsNode(r.view) /\ r.view = Node(u[p], r.view.sizes)
    /\ ~r.ok => r.view = u[p]

(* A node whose third size is known is left as it is. *)
LEMMA Settled ==
  ASSUME NEW u, NEW p, IsNode(u[p]),
         DefaultAt(u, p) \in {OK(u[p]), EINVAL(u[p]), Wild(u[p])}
  PROVE  Sizing(u, p)
<1> DEFINE r == DefaultAt(u, p)
<1>1. r.ok \in BOOLEAN /\ r.wild \in BOOLEAN /\ (r.wild => ~r.ok) /\ r.view = u[p]
  <2>1. r = OK(u[p]) \/ r = EINVAL(u[p]) \/ r = Wild(u[p])
    OBVIOUS
  <2> HIDE DEF r
  <2>2. CASE r = OK(u[p])
    BY <2>2 DEF OK
  <2>3. CASE r = EINVAL(u[p])
    BY <2>3 DEF EINVAL
  <2>4. CASE r = Wild(u[p])
    BY <2>4 DEF Wild
  <2> QED
    BY <2>1, <2>2, <2>3, <2>4
<1>2. u[p] = Node(u[p], u[p].sizes)
  BY DEF IsNode
<1> HIDE DEF r
<1> QED
  BY <1>1, <1>2 DEF Sizing, r

(* The check of the last offset, and the size of the data it tells. *)
LEMMA LastOffsetIs ==
  ASSUME NEW u, ViewTree(u), NEW p \in DOMAIN u, Kind(u[p], 2) = "data_offset"
  PROVE  Sizing(u, p)
<1> DEFINE x == u[p]
           last == GetInt(x, x.length)
           grown(n) == Node(x, [x.sizes EXCEPT ![3] = n])
<1>0. IsNode(x) /\ DefaultAt(u, p) = LastOffset(u, p)
  <2>1. IsNode(x)
    BY DEF ViewTree
  <2>2. x.type # "run_end_encoded"
    <3> HIDE DEF x
    <3> QED
      BY <2>1, Laid DEF IsNode, x
  <2> QED
    BY <2>1, <2>2 DEF DefaultAt
<1>1. x = Node(x, x.sizes) /\ x.sizes = [b \in 1..3 |-> x.sizes[b]]
  BY <1>0 DEF IsNode
<1>2. ASSUME NEW n \in Nat, x.sizes[3] = Unknown
      PROVE  /\ [x EXCEPT !.sizes[3] = n] = grown(n) /\ IsNode(grown(n))
             /\ grown(n) = Node(x, grown(n).sizes)
  <2> DEFINE f == [x.sizes EXCEPT ![3] = n]
  <2> HIDE DEF x
  <2>1. [x EXCEPT !.sizes[3] = n] = Node(x, f)
    <3>1. 3 \in 1..3
      OBVIOUS
    <3> QED
      BY <1>0, <3>1, NodeResized
  <2>2. f = [b \in 1..3 |-> f[b]] /\ f[3] = n /\ f[1] = x.sizes[1] /\ f[2] = x.sizes[2]
    BY <1>1
  <2>3. Kind(x, 3) # "none"
    BY <1>0, <1>2 DEF IsNode, Unknown
  <2>4. \A b \in 1..3 : f[b] \in Int /\ (Kind(x, b) = "none" => f[b] = 0)
    <3>1. \A b \in 1..3 : x.sizes[b] \in Int /\ (Kind(x, b) = "none" => x.sizes[b] = 0)
      BY <1>0 DEF IsNode
    <3> HIDE DEF f
    <3> QED
      BY <2>2, <2>3, <3>1
  <2> HIDE DEF f
  <2>5. IsNode(Node(x, f)) /\ Node(x, f).sizes = f
    BY <1>0, <2>2, <2>4, NodeAgain, NodeIs
  <2> QED
    BY <2>1, <2>5 DEF f
<1>3. HoldsInts(x)
  BY DEF HoldsInts
<1>4. HasInt(x, x.length) => last \in Int
  BY <1>0, <1>3 DEF IsNode, HasInt, GetInt
<1>5. CASE x.sizes[2] = 0
  <2>1. LastOffset(u, p) = OK(IF x.sizes[3] = Unknown THEN [x EXCEPT !.sizes[3] = 0] ELSE x)
    BY <1>5 DEF LastOffset
  <2>2. CASE x.sizes[3] = Unknown
    <3>1. LastOffset(u, p) = OK(grown(0))
      BY <1>2, <2>1, <2>2, 0 \in Nat
    <3>2. IsNode(grown(0)) /\ grown(0) = Node(x, grown(0).sizes)
      BY <1>2, <2>2, 0 \in Nat
    <3> QED
      BY <1>0, <2>2, <3>1, <3>2 DEF Sizing, OK
  <2>3. CASE x.sizes[3] # Unknown
    <3>1. LastOffset(u, p) = OK(x)
      BY <2>1, <2>3
    <3> QED
      BY <1>0, <1>1, <3>1, Settled
  <2> QED
    BY <2>2, <2>3
<1>6. CASE x.sizes[2] # 0 /\ (~HasInt(x, 0) \/ ~HasInt(x, x.length))
  <2>1. LastOffset(u, p) = Wild(x)
    BY <1>6 DEF LastOffset
  <2> QED
    BY <1>0, <1>1, <2>1, Settled
<1>7. CASE x.sizes[2] # 0 /\ HasInt(x, 0) /\ HasInt(x, x.length)
  <2>1. CASE ~EndsNonNegative(x)
    <3>1. LastOffset(u, p) = EINVAL(x)
      BY <1>7, <2>1 DEF LastOffset
    <3> QED
      BY <1>0, <1>1, <3>1, Settled
  <2>2. CASE EndsNonNegative(x) /\ (x.type = "list" \/ x.sizes[3] # Unknown)
    <3>1. LastOffset(u, p) = IF x.type = "list" THEN Check(x, Kid(u, p, 1).length >= last)
                             ELSE Check(x, x.sizes[3] >= last)
      BY <1>7, <2>2 DEF LastOffset
    <3>2. LastOffset(u, p) = OK(x) \/ LastOffset(u, p) = EINVAL(x)
      BY <3>1 DEF Check
    <3> QED
      BY <1>0, <1>1, <3>2, Settled
  <2>3. CASE EndsNonNegative(x) /\ x.type # "list" /\ x.sizes[3] = Unknown
    <3>1. LastOffset(u, p) = OK([x EXCEPT !.sizes[3] = last])
      BY <1>7, <2>3 DEF LastOffset
    <3>2. last \in Nat
      BY <1>4, <1>7, <2>3 DEF EndsNonNegative
    <3> HIDE DEF last
    <3>3. /\ LastOffset(u, p) = OK(grown(last)) /\ IsNode(grown(last))
          /\ grown(last) = Node(x, grown(last).sizes)
      BY <1>2, <2>3, <3>1, <3>2
    <3> QED
      BY <1>0, <2>3, <3>2, <3>3 DEF Sizing, OK
  <2> QED
    BY <2>1, <2>2, <2>3
<1> QED
  BY <1>5, <1>6, <1>7

(* Default validation of one node. *)
LEMMA DefaultNode ==
  ASSUME NEW u, ViewTree(u), NEW p \in DOMAIN u
  PROVE  Sizing(u, p)
<1>1. CASE Kind(u[p], 2) = "data_offset"
  BY <1>1, LastOffsetIs
<1>2. CASE Kind(u[p], 2) # "data_offset"
  <2> DEFINE r == DefaultAt(u, p)
  <2>1. r = Wild(u[p]) \/ r = OK(u[p]) \/ r = EINVAL(u[p])
    <3>1. CASE u[p].type = "run_end_encoded"
      <4>1. r = LastRunEnd(u, p)
        BY <1>2, <3>1 DEF DefaultAt
      <4> QED
        BY <4>1 DEF LastRunEnd, Check
    <3>2. CASE u[p].type # "run_end_encoded"
      <4>1. r = Check(u[p], u[p].type = "struct" => ChildrenSuffice(u, p))
        BY <1>2, <3>2 DEF DefaultAt
      <4> QED
        BY <4>1 DEF Check
    <3> QED
      BY <3>1, <3>2
  <2>2. IsNode(u[p]) /\ u[p] = Node(u[p], u[p].sizes)
    BY DEF ViewTree, IsNode
  <2> QED
    BY <2>1, <2>2, Settled
<1> QED
  BY <1>1, <1>2

(* A node that default validation settled is left as it is. *)
LEMMA DefaultUnmoved ==
  ASSUME NEW u, NEW d, ViewTree(u), Resized(d, u), NEW p \in DOMAIN u, Passes(u, p), d[p] = u[p]
  PROVE  DefaultAt(d, p) = DefaultAt(u, p)
<1>1. ChildrenSuffice(d, p) = ChildrenSuffice(u, p) /\ ChildrenSuffice(u, p)
  BY SufficeResized DEF Passes
<1>2. u[p].type \in {"list", "run_end_encoded"} => 1 \in DOMAIN u[p].kids
  <2>1. u[p].kids \in Seq(DOMAIN u)
    BY DEF ViewTree
  <2>2. u[p].type \in {"list", "run_end_encoded"} => Len(u[p].kids) \in {1, 2}
    BY <1>1 DEF ChildrenSuffice
  <2> QED
    BY <2>1, <2>2
<1>3. 1 \in DOMAIN u[p].kids =>
        /\ Kid(d, p, 1).length = Kid(u, p, 1).length
        /\ \A i : GetInt(Kid(d, p, 1), i) = GetInt(Kid(u, p, 1), i)
        /\ \A i : HasInt(Kid(d, p, 1), i) = HasInt(Kid(u, p, 1), i)
  BY KidsResized
<1>4. u[p].type = "list" => Kid(d, p, 1).length = Kid(u, p, 1).length
  BY <1>2, <1>3
<1>5. LastOffset(d, p) = LastOffset(u, p)
  BY <1>4 DEF LastOffset
<1>6. u[p].type = "run_end_encoded" => LastRunEnd(d, p) = LastRunEnd(u, p)
  BY <1>2, <1>3 DEF LastRunEnd
<1> QED
  BY <1>1, <1>5, <1>6 DEF DefaultAt

(* Default validation of a node does not depend on what was assigned       *)
(* elsewhere.                                                              *)
LEMMA DefaultGrown ==
  ASSUME NEW u, NEW d, ViewTree(u), Resized(d, u), NEW p \in DOMAIN u, Passes(u, p),
         d[p] = DefaultAt(u, p).view, d[p] # u[p]
  PROVE  DefaultAt(d, p) = OK(d[p]) /\ DefaultAt(u, p) = OK(d[p])
<1> DEFINE x == u[p]
           y == d[p]
           last == GetInt(x, x.length)
<1>1. PICK n \in Nat : /\ y = Node(x, [x.sizes EXCEPT ![3] = n]) /\ x.sizes[3] = Unknown
                       /\ Kind(x, 2) = "data_offset"
  BY DefaultNode DEF Sizing
<1>2. IsNode(x)
  BY DEF ViewTree
<1>3. x.type \in {"string", "large_string"}
  <2> HIDE DEF x
  <2>1. Kind(x, 3) # "none"
    BY <1>1, <1>2 DEF IsNode, Unknown
  <2> QED
    BY <1>2, <2>1, Laid DEF IsNode
<1>4. DefaultAt(u, p) = LastOffset(u, p)
  BY <1>1, <1>3 DEF DefaultAt
<1>5. LastOffset(u, p).view # x
  BY <1>4
<1>6. /\ x.sizes[2] = 0 => LastOffset(u, p) = OK(y) /\ y = [x EXCEPT !.sizes[3] = 0]
      /\ x.sizes[2] # 0 => /\ HasInt(x, 0) /\ HasInt(x, x.length) /\ EndsNonNegative(x)
                           /\ LastOffset(u, p) = OK(y) /\ y = [x EXCEPT !.sizes[3] = last]
  <2>1. CASE x.sizes[2] = 0
    <3>1. LastOffset(u, p) = OK([x EXCEPT !.sizes[3] = 0])
      BY <1>1, <2>1 DEF LastOffset
    <3> QED
      BY <1>4, <2>1, <3>1 DEF OK
  <2>2. CASE x.sizes[2] # 0 /\ (~HasInt(x, 0) \/ ~HasInt(x, x.length))
    BY <1>5, <2>2 DEF LastOffset, Wild
  <2>3. CASE x.sizes[2] # 0 /\ HasInt(x, 0) /\ HasInt(x, x.length) /\ ~EndsNonNegative(x)
    BY <1>5, <2>3 DEF LastOffset, EINVAL
  <2>4. CASE x.sizes[2] # 0 /\ HasInt(x, 0) /\ HasInt(x, x.length) /\ EndsNonNegative(x)
    <3>1. LastOffset(u, p) = OK([x EXCEPT !.sizes[3] = last])
      BY <1>1, <1>3, <2>4 DEF LastOffset
    <3> QED
      BY <1>4, <2>4, <3>1 DEF OK
  <2> QED
    BY <2>1, <2>2, <2>3, <2>4
<1>7. /\ y.sizes[2] = x.sizes[2] /\ y.sizes[3] = n
      /\ x.sizes[2] # 0 => n = last
  <2> HIDE DEF last, y
  <2>1. y.sizes = [x.sizes EXCEPT ![3] = n] /\ x.sizes = [b \in 1..3 |-> x.sizes[b]]
    BY <1>1, <1>2, NodeIs DEF IsNode
  <2>2. x.sizes[2] # 0 => y = Node(x, [x.sizes EXCEPT ![3] = last])
    <3>1. 3 \in 1..3
      OBVIOUS
    <3> HIDE DEF x
    <3> QED
      BY <1>2, <1>6, <3>1, NodeResized
  <2>3. x.sizes[2] # 0 => y.sizes = [x.sizes EXCEPT ![3] = last]
    BY <2>2, NodeIs
  <2> HIDE DEF x
  <2>4. y.sizes[3] = n /\ y.sizes[2] = x.sizes[2]
    BY <2>1
  <2>5. x.sizes[2] # 0 => y.sizes[3] = last
    BY <2>1, <2>3
  <2> QED
    BY <2>4, <2>5
<1>8. /\ y.type = x.type /\ y.length = x.length
      /\ \A b : Kind(y, b) = Kind(x, b)
      /\ \A i : GetInt(y, i) = GetInt(x, i) /\ HasInt(y, i) = HasInt(x, i)
  <2>1. PICK f : y = Node(x, f)
    BY <1>1
  <2> HIDE DEF x, y
  <2> QED
    BY <2>1, NodeIs, NodeSays
<1>9. DefaultAt(d, p) = LastOffset(d, p)
  BY <1>1, <1>3, <1>8 DEF DefaultAt
<1>10. EndsNonNegative(y) = EndsNonNegative(x)
  BY <1>8 DEF EndsNonNegative
<1>11. n # Unknown /\ (x.sizes[2] # 0 => n >= GetInt(y, y.length))
  <2> HIDE DEF x, y
  <2> QED
    BY <1>7, <1>8 DEF Unknown
<1>12. LastOffset(d, p) = OK(y)
  <2>1. CASE x.sizes[2] = 0
    BY <1>7, <1>11, <2>1 DEF LastOffset
  <2>2. CASE x.sizes[2] # 0
    <3>1. LastOffset(d, p) = Check(y, y.sizes[3] >= GetInt(y, y.length))
      BY <1>3, <1>6, <1>7, <1>8, <1>10, <1>11, <2>2 DEF LastOffset
    <3> QED
      BY <1>7, <1>11, <2>2, <3>1 DEF Check
  <2> QED
    BY <2>1, <2>2
<1> QED
  BY <1>4, <1>6, <1>9, <1>12

(* Default validation of a tree that passed the minimal one: done again it *)
(* comes to the same.                                                      *)
Defaulted(u) == Visit(u, LAMBDA p : DefaultAt(u, p))
Before(u, p) == \A q \in 1..(p - 1) : DefaultAt(u, q).ok

LEMMA DefaultTree ==
  ASSUME NEW u, ViewTree(u), Passed(u)
  PROVE  LET r == Defaulted(u)
             d == r.view IN
           /\ ViewTree(d) /\ Resized(d, u) /\ Passed(d)
           /\ \A p \in DOMAIN u : d[p] = IF Before(u, p) THEN DefaultAt(u, p).view ELSE u[p]
           /\ \A p \in DOMAIN u : d[p] = u[p] \/ d[p] = DefaultAt(u, p).view
           /\ r.ok = \A p \in DOMAIN u : DefaultAt(u, p).ok
           /\ r.wild = \E p \in DOMAIN u : Before(u, p) /\ DefaultAt(u, p).wild
           /\ r = [view |-> d, ok |-> r.ok, wild |-> r.wild]
<1> DEFINE d == [p \in DOMAIN u |-> IF Before(u, p) THEN DefaultAt(u, p).view ELSE u[p]]
           r == Defaulted(u)
<1>1. r = [view |-> d, ok |-> \A p \in DOMAIN u : DefaultAt(u, p).ok,
           wild |-> \E p \in DOMAIN u : Before(u, p) /\ DefaultAt(u, p).wild]
  BY DEF Defaulted, Visit, Before
<1>2. /\ u = [p \in DOMAIN u |-> u[p]] /\ DOMAIN u = 1..Len(u) /\ Len(u) \in Nat
      /\ \A p \in DOMAIN u : IsNode(u[p]) /\ u[p].kids \in Seq(DOMAIN u)
  BY DEF ViewTree
<1>3. /\ DOMAIN d = DOMAIN u /\ d = [p \in DOMAIN d |-> d[p]]
      /\ \A p \in DOMAIN u : d[p] = IF Before(u, p) THEN DefaultAt(u, p).view ELSE u[p]
  OBVIOUS
<1> HIDE DEF d, r
<1>4. Len(d) = Len(u)
  BY <1>2, <1>3
<1>5. ASSUME NEW p \in DOMAIN u
      PROVE  /\ d[p] = Node(u[p], d[p].sizes) /\ IsNode(d[p]) /\ d[p].kids = u[p].kids
             /\ \A b \in 1..2 : d[p].sizes[b] = u[p].sizes[b]
  <2> DEFINE w == DefaultAt(u, p).view
  <2>0. /\ w = u[p] \/ \E n \in Nat : w = Node(u[p], [u[p].sizes EXCEPT ![3] = n])
        /\ IsNode(w) /\ w = Node(u[p], w.sizes)
    BY DefaultNode DEF Sizing
  <2> HIDE DEF w
  <2>6. d[p] = u[p] \/ d[p] = w
    BY <1>3 DEF w
  <2>7. u[p] = Node(u[p], u[p].sizes) /\ IsNode(u[p])
    BY <1>2 DEF IsNode
  <2>1. d[p] = u[p] \/ \E n \in Nat : d[p] = Node(u[p], [u[p].sizes EXCEPT ![3] = n])
    BY <2>0, <2>6
  <2>2. d[p] = Node(u[p], d[p].sizes) /\ IsNode(d[p])
    BY <2>0, <2>6, <2>7
  <2>3. u[p].sizes = [b \in 1..3 |-> u[p].sizes[b]]
    BY <1>2 DEF IsNode
  <2>4. \A b \in 1..2 : d[p].sizes[b] = u[p].sizes[b]
    <3>1. CASE d[p] = u[p]
      BY <3>1
    <3>2. ASSUME NEW n \in Nat, d[p] = Node(u[p], [u[p].sizes EXCEPT ![3] = n])
          PROVE  \A b \in 1..2 : d[p].sizes[b] = u[p].sizes[b]
      <4>1. d[p].sizes = [u[p].sizes EXCEPT ![3] = n]
        BY <3>2, NodeIs
      <4> QED
        BY <2>3, <4>1
    <3> QED
      BY <2>1, <3>1, <3>2
  <2>5. d[p].kids = u[p].kids
    BY <2>2, NodeIs
  <2> QED
    BY <2>2, <2>4, <2>5
<1>6. ViewTree(d)
  BY <1>2, <1>3, <1>4, <1>5 DEF ViewTree
<1>7. Resized(d, u)
  BY <1>3, <1>5 DEF Resized
<1>8. Passed(d)
  BY <1>5, <1>6, <1>7, PassedResized
<1>9. /\ r.view = d /\ r.ok = (\A p \in DOMAIN u : DefaultAt(u, p).ok)
      /\ r.wild = (\E p \in DOMAIN u : Before(u, p) /\ DefaultAt(u, p).wild)
      /\ r = [view |-> d, ok |-> r.ok, wild |-> r.wild]
  BY <1>1
<1> QED
  BY <1>3, <1>6, <1>7, <1>8, <1>9 DEF r

LEMMA DefaultTwice ==
  ASSUME NEW u, ViewTree(u), Passed(u)
  PROVE  Defaulted(Defaulted(u).view) = Defaulted(u)
<1> DEFINE r == Defaulted(u)
           d == r.view
           e == Defaulted(d)
<1>1. /\ ViewTree(d) /\ Resized(d, u) /\ Passed(d)
      /\ \A p \in DOMAIN u : d[p] = IF Before(u, p) THEN DefaultAt(u, p).view ELSE u[p]
      /\ \A p \in DOMAIN u : d[p] = u[p] \/ d[p] = DefaultAt(u, p).view
      /\ r.ok = (\A p \in DOMAIN u : DefaultAt(u, p).ok)
      /\ r.wild = (\E p \in DOMAIN u : Before(u, p) /\ DefaultAt(u, p).wild)
      /\ r = [view |-> d, ok |-> r.ok, wild |-> r.wild]
  BY DefaultTree
<1> HIDE DEF r, d
<1>2. /\ \A p \in DOMAIN d : e.view[p] = IF Before(d, p) THEN DefaultAt(d, p).view ELSE d[p]
      /\ ViewTree(e.view) /\ Resized(e.view, d)
      /\ e.ok = (\A p \in DOMAIN d : DefaultAt(d, p).ok)
      /\ e.wild = (\E p \in DOMAIN d : Before(d, p) /\ DefaultAt(d, p).wild)
      /\ e = [view |-> e.view, ok |-> e.ok, wild |-> e.wild]
  BY <1>1, DefaultTree
<1>3. DOMAIN d = DOMAIN u /\ DOMAIN e.view = DOMAIN u
  BY <1>1, <1>2 DEF Resized
<1> HIDE DEF e
<1>4. ASSUME NEW p \in DOMAIN u
      PROVE  /\ DefaultAt(d, p).ok = DefaultAt(u, p).ok
             /\ DefaultAt(d, p).wild = DefaultAt(u, p).wild
             /\ DefaultAt(d, p).view = DefaultAt(u, p).view
  <2>1. Passes(u, p)
    BY DEF Passed
  <2>2. CASE d[p] = u[p]
    BY <1>1, <2>1, <2>2, DefaultUnmoved
  <2>3. CASE d[p] # u[p]
    <3>1. d[p] = DefaultAt(u, p).view
      BY <1>1, <2>3
    <3>2. DefaultAt(d, p) = OK(d[p]) /\ DefaultAt(u, p) = OK(d[p])
      BY <1>1, <2>1, <2>3, <3>1, DefaultGrown
    <3> QED
      BY <3>2
  <2> QED
    BY <2>2, <2>3
<1>5. DOMAIN u = 1..Len(u) /\ Len(u) \in Nat
  BY DEF ViewTree
<1>6. \A p \in DOMAIN u : Before(d, p) = Before(u, p)
  BY <1>4, <1>5 DEF Before
<1>7. \A p \in DOMAIN u : e.view[p] = d[p]
  BY <1>1, <1>2, <1>3, <1>4, <1>6
<1>8. e.view = d
  <2>1. d = [p \in DOMAIN d |-> d[p]] /\ e.view = [p \in DOMAIN e.view |-> e.view[p]]
    BY <1>1, <1>2 DEF ViewTree
  <2> QED
    BY <1>3, <1>7, <2>1
<1>9. e.ok = r.ok /\ e.wild = r.wild
  BY <1>1, <1>2, <1>3, <1>4, <1>6
<1>10. e = r
  BY <1>1, <1>2, <1>8, <1>9
<1> QED
  BY <1>10 DEF e, d, r

(* What a view that was accepted once says to validation.                  *)
LEMMA DefaultIs ==
  ASSUME NEW t
  PROVE  ValidateDefault(t) = IF ValidateMinimal(t).ok THEN Defaulted(ValidateMinimal(t).view)
                              ELSE ValidateMinimal(t)
BY DEF ValidateDefault, Then, Defaulted

(* Of a view that was accepted, a further validation changes no size but   *)
(* the third.                                                              *)
LEMMA ValidatedAgain ==
  ASSUME NEW t, ViewTree(t), ValidateMinimal(t).ok,
         NEW v \in {ValidateMinimal(t).view, ValidateDefault(t).view}
  PROVE  /\ ViewTree(v) /\ Resized(v, t) /\ Passed(v)
         /\ Validated(v, Minimal) = OK(v)
         /\ Validated(v, Default) = Validated(t, Default)
         /\ Validated(v, Full) = Validated(t, Full)
<1> DEFINE u == ValidateMinimal(t).view
           d == ValidateDefault(t).view
<1>1. ViewTree(u) /\ Resized(u, t) /\ Passed(u)
  BY MinimalTree, MinimalPassed
<1>2. ValidateDefault(t) = Defaulted(u)
  BY DefaultIs
<1> HIDE DEF u
<1>3. ViewTree(d) /\ Resized(d, u) /\ Passed(d)
  BY <1>1, <1>2, DefaultTree
<1>4. Resized(d, t)
  <2> SUFFICES ASSUME NEW p \in DOMAIN t PROVE d[p] = Node(t[p], d[p].sizes)
    BY <1>1, <1>3 DEF Resized
  <2>1. u[p] = Node(t[p], u[p].sizes) /\ d[p] = Node(u[p], d[p].sizes)
    BY <1>1, <1>3 DEF Resized
  <2> HIDE DEF d
  <2>2. \A f, g : Node(Node(t[p], f), g) = Node(t[p], g)
    BY DEF Node
  <2> QED
    BY <2>1, <2>2
<1>5. Defaulted(d) = Defaulted(u)
  BY <1>1, <1>2, DefaultTwice
<1> HIDE DEF d
<1>6. v = u \/ v = d
  BY DEF u, d
<1>7. ViewTree(v) /\ Resized(v, t) /\ Passed(v)
  BY <1>1, <1>3, <1>4, <1>6
<1>8. ValidateMinimal(v) = OK(v)
  BY <1>7, MinimalTwice
<1>9. ValidateDefault(v) = Defaulted(v)
  <2>1. ValidateMinimal(v).ok /\ ValidateMinimal(v).view = v
    BY <1>8 DEF OK
  <2> QED
    BY <2>1, DefaultIs
<1>10. ValidateDefault(v) = ValidateDefault(t)
  BY <1>2, <1>5, <1>6, <1>9
<1> QED
  BY <1>7, <1>8, <1>10 DEF Validated, None, Minimal, Default, Full

(* Trees: two whose nodes have as many children are laid out alike.        *)
LEMMA TreeIs ==
  ASSUME NEW t, IsTree(t)
  PROVE  /\ DOMAIN t = 1..Len(t) /\ Len(t) \in Nat /\ 1 \in DOMAIN t /\ t[1].last = Len(t)
         /\ t = [p \in DOMAIN t |-> t[p]]
         /\ \A p \in DOMAIN t : t[p].last \in p..Len(t)
<1>1. t \in Seq({t[p] : p \in DOMAIN t}) /\ t # <<>> /\ t[1].last = Len(t)
  BY DEF IsTree
<1>2. DOMAIN t = 1..Len(t) /\ Len(t) \in Nat /\ t = [p \in DOMAIN t |-> t[p]]
  BY <1>1
<1>3. Len(t) # 0
  BY <1>1, <1>2
<1>4. \A p \in DOMAIN t : t[p].last \in p..Len(t)
  BY DEF IsTree
<1> QED
  BY <1>1, <1>2, <1>3, <1>4

(* Sequences of one length with the same elements. *)
LEMMA SameSequence ==
  ASSUME NEW S, NEW s \in Seq(S), NEW t \in Seq(S), Len(s) = Len(t),
         \A k \in 1..Len(s) : s[k] = t[k]
  PROVE  s = t
<1>1. DOMAIN s = 1..Len(s) /\ DOMAIN t = 1..Len(t)
  BY Items
<1>2. s = [k \in 1..Len(s) |-> s[k]] /\ t = [k \in 1..Len(t) |-> t[k]]
  OBVIOUS
<1> QED
  BY <1>2

(* The nodes below p, as a sequence b of positions.                        *)
Under(t, p, b) ==
  /\ t[p].kids \in Seq(Nat) /\ t[p].dict \in Seq(Nat) /\ b \in Seq(Nat)
  /\ Len(t[p].kids) \in Nat /\ Len(t[p].dict) \in {0, 1} /\ Len(b) = Len(t[p].kids) + Len(t[p].dict)
  /\ \A k \in 1..Len(t[p].kids) : b[k] = t[p].kids[k]
  /\ Len(t[p].dict) = 1 => b[Len(b)] = t[p].dict[1]
  /\ \A k \in 1..Len(b) :
       /\ b[k] \in DOMAIN t /\ t[b[k]].up = p /\ b[k] > p
       /\ b[k] = 1 + IF k = 1 THEN p ELSE t[b[k - 1]].last
  /\ t[p].last = IF Len(b) = 0 THEN p ELSE t[b[Len(b)]].last

(* The positions below a node, one after the other. *)
LEMMA BelowIs ==
  ASSUME NEW t, IsTree(t), NEW p \in DOMAIN t
  PROVE  Under(t, p, Below(t[p]))
<1> DEFINE below == Below(t[p])
           kids == t[p].kids
           dict == t[p].dict
<1>1. /\ kids \in Seq(Nat) /\ dict \in Seq(Nat) /\ Len(dict) <= 1
      /\ \A k \in DOMAIN below :
            /\ below[k] \in DOMAIN t /\ t[below[k]].up = p
            /\ below[k] = 1 + IF k = 1 THEN p ELSE t[below[k - 1]].last
      /\ t[p].last = IF below = <<>> THEN p ELSE t[below[Len(below)]].last
  BY DEF IsTree
<1>2. \A q \in DOMAIN t : q > 1 => t[q].up \in 1..(q - 1)
  BY DEF IsTree
<1>3. below = kids \o dict
  BY DEF Below
<1> HIDE DEF below, kids, dict
<1>4. /\ below \in Seq(Nat) /\ Len(kids) \in Nat /\ Len(dict) \in Nat
      /\ Len(below) = Len(kids) + Len(dict)
      /\ \A k \in 1..Len(kids) : below[k] = kids[k]
      /\ \A k \in 1..Len(dict) : below[Len(kids) + k] = dict[k]
  BY <1>1, <1>3, Glued
<1>5. DOMAIN below = 1..Len(below) /\ Len(dict) \in {0, 1}
  <2>1. Len(dict) \in Nat /\ Len(dict) <= 1
    BY <1>1, <1>4, Zenon
  <2> DEFINE n == Len(dict)
  <2> HIDE DEF n
  <2>2. n \in {0, 1}
    BY <2>1 DEF n
  <2> QED
    BY <1>4, <2>2, Items DEF n
<1>6. Len(dict) = 1 => below[Len(below)] = dict[1]
  BY <1>4
<1>7. below = <<>> <=> Len(below) = 0
  BY <1>4
<1>8. ASSUME NEW k \in 1..Len(below) PROVE below[k] > p
  <2>1. below[k] \in DOMAIN t /\ t[below[k]].up = p
    BY <1>1, <1>5
  <2>2. DOMAIN t = 1..Len(t) /\ Len(t) \in Nat /\ \A q \in DOMAIN t : t[q].last \in q..Len(t)
    BY TreeIs
  <2>3. below[k] > 1
    <3>1. CASE k = 1
      BY <1>1, <1>5, <2>2, <3>1
    <3>2. CASE k # 1
      <4>1. k - 1 \in 1..Len(below)
        BY <1>4, <3>2
      <4>2. below[k - 1] \in DOMAIN t
        BY <1>1, <1>5, <4>1
      <4>3. below[k] = 1 + t[below[k - 1]].last
        BY <1>1, <1>5, <3>2
      <4> QED
        BY <2>2, <4>2, <4>3
    <3> QED
      BY <3>1, <3>2
  <2> QED
    BY <1>2, <2>1, <2>2, <2>3
<1>9. \A k \in 1..Len(below) :
         /\ below[k] \in DOMAIN t /\ t[below[k]].up = p
         /\ below[k] = 1 + IF k = 1 THEN p ELSE t[below[k - 1]].last
  BY <1>1, <1>5
<1>10. t[p].last = IF Len(below) = 0 THEN p ELSE t[below[Len(below)]].last
  BY <1>1, <1>7
<1> QED
  BY <1>1, <1>4, <1>5, <1>6, <1>8, <1>9, <1>10 DEF Under, kids, dict, below

Branches(s, a) ==
  \A p \in DOMAIN s : Len(s[p].kids) = Len(a[p].kids) /\ Len(s[p].dict) = Len(a[p].dict)

(* Two nodes with as many children have them at the same positions. *)
LEMMA BelowAlike ==
  ASSUME NEW s, NEW a, IsTree(s), IsTree(a), NEW p \in DOMAIN s, p \in DOMAIN a,
         Len(s[p].kids) = Len(a[p].kids), Len(s[p].dict) = Len(a[p].dict),
         \A q \in DOMAIN s : q > p /\ q \in DOMAIN a => s[q].last = a[q].last
  PROVE  /\ s[p].kids = a[p].kids /\ s[p].dict = a[p].dict
         /\ s[p].last = a[p].last
<1> DEFINE b == Below(s[p])
           c == Below(a[p])
           T == {k \in Nat : k \in 1..Len(b) => b[k] = c[k]}
<1>1. Under(s, p, b) /\ Under(a, p, c)
  BY BelowIs
<1> HIDE DEF b, c
<1>2. b \in Seq(Nat) /\ c \in Seq(Nat)
  BY <1>1 DEF Under
<1>3. Len(b) = Len(c) /\ Len(b) \in Nat
  <2>1. /\ Len(b) = Len(s[p].kids) + Len(s[p].dict)
        /\ Len(c) = Len(a[p].kids) + Len(a[p].dict)
    BY <1>1 DEF Under
  <2>2. Len(b) = Len(c)
    BY <2>1, Zenon
  <2> QED
    BY <1>2, <2>2, Items
<1>4. ASSUME NEW k \in 1..Len(b), b[k] = c[k] PROVE s[b[k]].last = a[c[k]].last
  <2>1. b[k] \in DOMAIN s /\ b[k] > p /\ c[k] \in DOMAIN a
    BY <1>1, <1>3 DEF Under
  <2> QED
    BY <1>4, <2>1
<1>5. 0 \in T
  OBVIOUS
<1>6. ASSUME NEW k \in T PROVE k + 1 \in T
  <2> SUFFICES ASSUME k + 1 \in 1..Len(b) PROVE b[k + 1] = c[k + 1]
    OBVIOUS
  <2>1. /\ b[k + 1] = 1 + IF k + 1 = 1 THEN p ELSE s[b[(k + 1) - 1]].last
        /\ c[k + 1] = 1 + IF k + 1 = 1 THEN p ELSE a[c[(k + 1) - 1]].last
    BY <1>1, <1>3 DEF Under
  <2>2. CASE k = 0
    BY <2>1, <2>2
  <2>3. CASE k # 0
    <3>1. k \in 1..Len(b) /\ b[k] = c[k] /\ k + 1 # 1 /\ (k + 1) - 1 = k
      BY <1>3, <2>3
    <3>2. s[b[k]].last = a[c[k]].last
      BY <1>4, <3>1
    <3> QED
      BY <2>1, <3>1, <3>2
  <2> QED
    BY <2>2, <2>3
<1>7. \A k \in 1..Len(b) : b[k] = c[k]
  <2>1. T \subseteq Nat
    OBVIOUS
  <2>2. Nat \subseteq T
    <3> HIDE DEF T
    <3> QED
      BY <1>5, <1>6, <2>1, NatInduct
  <2> QED
    BY <1>3, <2>2
<1>8. b = c
  BY <1>2, <1>3, <1>7, SameSequence
<1>9. s[p].last = a[p].last
  <2>1. /\ s[p].last = IF Len(b) = 0 THEN p ELSE s[b[Len(b)]].last
        /\ a[p].last = IF Len(c) = 0 THEN p ELSE a[c[Len(c)]].last
    BY <1>1 DEF Under
  <2>2. CASE Len(b) = 0
    BY <1>3, <2>1, <2>2
  <2>3. CASE Len(b) # 0
    <3>1. Len(b) \in 1..Len(b)
      BY <1>3, <2>3
    <3>2. s[b[Len(b)]].last = a[c[Len(b)]].last
      BY <1>4, <1>7, <3>1
    <3> QED
      BY <1>3, <2>1, <2>3, <3>2
  <2> QED
    BY <2>2, <2>3
<1>10. s[p].kids = a[p].kids
  <2>1. /\ s[p].kids \in Seq(Nat) /\ a[p].kids \in Seq(Nat)
        /\ \A k \in 1..Len(s[p].kids) : s[p].kids[k] = a[p].kids[k]
    BY <1>1, <1>8 DEF Under
  <2> QED
    BY <2>1, SameSequence
<1>11. s[p].dict = a[p].dict
  <2>1. /\ s[p].dict \in Seq(Nat) /\ a[p].dict \in Seq(Nat) /\ Len(s[p].dict) \in {0, 1}
        /\ Len(s[p].dict) = 1 => s[p].dict[1] = a[p].dict[1]
    BY <1>1, <1>8 DEF Under
  <2>2. \A k \in 1..Len(s[p].dict) : s[p].dict[k] = a[p].dict[k]
    BY <2>1
  <2> QED
    BY <2>1, <2>2, SameSequence
<1> QED
  BY <1>9, <1>10, <1>11

(* Trees of the same shape have their nodes at the same positions. *)
LEMMA TreesAlike ==
  ASSUME NEW s, NEW a, IsTree(s), IsTree(a), Branches(s, a)
  PROVE  /\ DOMAIN s = DOMAIN a
         /\ \A p \in DOMAIN s : /\ s[p].kids = a[p].kids /\ s[p].dict = a[p].dict
                                /\ s[p].last = a[p].last
<1> DEFINE Alike(p) == /\ s[p].kids = a[p].kids /\ s[p].dict = a[p].dict /\ s[p].last = a[p].last
           n == Len(s)
           T == {k \in Nat : \A p \in DOMAIN s : p > n - k /\ p \in DOMAIN a => Alike(p)}
<1>1. DOMAIN s = 1..n /\ n \in Nat /\ 1 \in DOMAIN s /\ s[1].last = n
  BY TreeIs
<1>2. DOMAIN a = 1..Len(a) /\ Len(a) \in Nat /\ 1 \in DOMAIN a /\ a[1].last = Len(a)
  BY TreeIs
<1> HIDE DEF n
<1>3. 0 \in T
  BY <1>1
<1>4. ASSUME NEW k \in T PROVE k + 1 \in T
  <2>1. k \in Nat /\ \A p \in DOMAIN s : p > n - k /\ p \in DOMAIN a => Alike(p)
    OBVIOUS
  <2> SUFFICES ASSUME NEW p \in DOMAIN s, p > n - (k + 1), p \in DOMAIN a PROVE Alike(p)
    BY <2>1
  <2>2. \A q \in DOMAIN s : q > p /\ q \in DOMAIN a => s[q].last = a[q].last
    BY <1>1, <2>1
  <2>3. Len(s[p].kids) = Len(a[p].kids) /\ Len(s[p].dict) = Len(a[p].dict)
    BY DEF Branches
  <2> QED
    BY <2>2, <2>3, BelowAlike
<1>5. Nat \subseteq T
  <2>1. T \subseteq Nat
    OBVIOUS
  <2> HIDE DEF T
  <2> QED
    BY <1>3, <1>4, <2>1, NatInduct
<1>6. \A p \in DOMAIN s : p \in DOMAIN a => Alike(p)
  <2>1. n \in T
    BY <1>1, <1>5
  <2> QED
    BY <1>1, <2>1
<1>7. n = Len(a)
  BY <1>1, <1>2, <1>6
<1> HIDE DEF Alike
<1>8. DOMAIN s = DOMAIN a
  BY <1>1, <1>2, <1>7
<1>9. \A p \in DOMAIN s : Alike(p)
  BY <1>6, <1>8
<1> QED
  BY <1>8, <1>9 DEF Alike

(* Filling a view in from an array.                                        *)
Outline(v, s) ==
  /\ DOMAIN v = DOMAIN s /\ v = [p \in DOMAIN s |-> v[p]]
  /\ \A p \in DOMAIN s :
       /\ v[p] = Node(v[p], v[p].sizes) /\ v[p].sizes = [b \in 1..3 |-> v[p].sizes[b]]
       /\ \A b \in 1..3 : Kind(s[p], b) = "none" => v[p].sizes[b] = 0
       /\ v[p].type = s[p].type /\ v[p].ids = s[p].ids /\ v[p].kids = s[p].kids
       /\ v[p].dict = s[p].dict /\ v[p].up = s[p].up /\ v[p].last = s[p].last

FilledNode(x, y) ==
  [type |-> x.type, offset |-> y.offset, length |-> y.length, null_count |-> y.null_count,
   sizes |-> [b \in 1..3 |-> IF Kind(x, b) = "none" \/ y.sizes[b] = 0 THEN 0 ELSE Unknown],
   types |-> y.types, ints |-> y.ints, ids |-> x.ids,
   kids |-> x.kids, dict |-> x.dict, up |-> x.up, last |-> x.last]
Filled(s, a) == [p \in DOMAIN s |-> FilledNode(s[p], a[p])]

(* A node after ArrowArrayViewSetArrayInternal. *)
LEMMA NodeSetIs ==
  ASSUME NEW s, NEW v, Outline(v, s), NEW p \in DOMAIN s, NEW y
  PROVE  NodeSet(v[p], y) = FilledNode(s[p], y)
<1> DEFINE x == v[p]
           z == s[p]
           f == [b \in 1..3 |-> SizeSet(x, y, b)]
           g == [b \in 1..3 |-> IF Kind(z, b) = "none" \/ y.sizes[b] = 0 THEN 0 ELSE Unknown]
<1>1. /\ x = Node(x, x.sizes)
      /\ \A b \in 1..3 : Kind(z, b) = "none" => x.sizes[b] = 0
      /\ x.type = z.type /\ x.ids = z.ids /\ x.kids = z.kids
      /\ x.dict = z.dict /\ x.up = z.up /\ x.last = z.last
  BY DEF Outline
<1>2. \A b \in 1..3 : Kind(x, b) = Kind(z, b)
  BY <1>1 DEF Kind
<1> HIDE DEF x, z
<1>3. f = g
  BY <1>1, <1>2 DEF SizeSet
<1>4. NodeSet(x, y) = [x EXCEPT !.offset = y.offset, !.length = y.length, !.null_count = y.null_count,
                                !.types = y.types, !.ints = y.ints, !.sizes = f]
  BY DEF NodeSet
<1> HIDE DEF f, g
<1>5. NodeSet(x, y) =
        [type |-> x.type, offset |-> y.offset, length |-> y.length, null_count |-> y.null_count,
         sizes |-> f, types |-> y.types, ints |-> y.ints, ids |-> x.ids,
         kids |-> x.kids, dict |-> x.dict, up |-> x.up, last |-> x.last]
  BY <1>1, <1>4 DEF Node
<1>6. FilledNode(z, y) =
        [type |-> z.type, offset |-> y.offset, length |-> y.length, null_count |-> y.null_count,
         sizes |-> g, types |-> y.types, ints |-> y.ints, ids |-> z.ids,
         kids |-> z.kids, dict |-> z.dict, up |-> z.up, last |-> z.last]
  BY DEF FilledNode, g
<1>7. NodeSet(x, y) = FilledNode(z, y)
  BY <1>1, <1>3, <1>5, <1>6
<1> QED
  BY <1>7 DEF x, z

(* Where the children of a node end, in both trees. *)
LEMMA ChildrenEndIs ==
  ASSUME NEW t, IsTree(t), NEW p \in DOMAIN t
  PROVE  ChildrenEnd(t, p) \in p..Len(t)
<1> DEFINE b == Below(t[p])
<1>1. Under(t, p, b)
  BY BelowIs
<1> HIDE DEF b
<1>2. DOMAIN t = 1..Len(t) /\ Len(t) \in Nat /\ t[p].last \in p..Len(t)
  BY TreeIs
<1>3. CASE t[p].dict = <<>>
  BY <1>2, <1>3 DEF ChildrenEnd
<1>4. CASE t[p].dict # <<>>
  <2>1. t[p].dict \in Seq(Nat) /\ Len(t[p].dict) \in {0, 1}
    BY <1>1 DEF Under
  <2>2. Len(t[p].dict) = 1
    BY <1>4, <2>1
  <2>3. b \in Seq(Nat) /\ Len(b) = Len(t[p].kids) + Len(t[p].dict) /\ Len(t[p].kids) \in Nat
    BY <1>1 DEF Under
  <2>4. Len(b) \in 1..Len(b)
    <3> DEFINE n == Len(b)
               m == Len(t[p].kids)
    <3>1. n = m + 1 /\ m \in Nat
      BY <2>2, <2>3, Zenon
    <3> HIDE DEF n, m
    <3> QED
      BY <3>1 DEF n
  <2>5. b[Len(b)] = t[p].dict[1] /\ b[Len(b)] \in DOMAIN t /\ b[Len(b)] > p
    BY <1>1, <2>2, <2>4 DEF Under
  <2>6. ChildrenEnd(t, p) = t[p].dict[1] - 1
    BY <1>4 DEF ChildrenEnd
  <2> QED
    BY <1>2, <2>5, <2>6
<1> QED
  BY <1>3, <1>4

(* What ArrowArrayViewSetArrayInternal accepts, and the view it leaves. *)
LEMMA SetIs ==
  ASSUME NEW s, NEW a, NEW v, IsSchema(s), IsArray(a), Outline(v, s)
  PROVE  LET r == SetArrayInternal(v, a) IN
           /\ r.wild = FALSE /\ r.ok \in BOOLEAN /\ Outline(r.view, s)
           /\ r.ok => SameShape(s, a) /\ r.view = Filled(s, a)
           /\ r.ok => \A p \in DOMAIN s : Buffers(s[p]) = a[p].n_buffers
           /\ SameShape(s, a) /\ (\A p \in DOMAIN s : Buffers(s[p]) = a[p].n_buffers) => r.ok
<1> DEFINE Matches(p) ==
             /\ Buffers(v[p]) = a[p].n_buffers /\ Len(v[p].kids) = Len(a[p].kids)
             /\ \A q \in 1..p : ChildrenEnd(v, q) = p => Len(v[q].dict) = Len(a[q].dict)
           At(p) == Check(NodeSet(v[p], a[p]), Matches(p))
           Reached(p) == \A q \in 1..(p - 1) : At(q).ok
           w == [p \in DOMAIN v |-> IF Reached(p) THEN At(p).view ELSE v[p]]
           r == SetArrayInternal(v, a)
<1>1. r = [view |-> w, ok |-> \A p \in DOMAIN v : At(p).ok,
           wild |-> \E p \in DOMAIN v : Reached(p) /\ At(p).wild]
  BY DEF SetArrayInternal, Visit
<1>2. \A p : At(p).view = NodeSet(v[p], a[p]) /\ (At(p).ok <=> Matches(p)) /\ At(p).wild = FALSE
  BY DEF Check, OK, EINVAL
<1>3. IsTree(s) /\ IsTree(a)
  BY DEF IsSchema, IsArray
<1>4. /\ DOMAIN s = 1..Len(s) /\ Len(s) \in Nat
  BY <1>3, TreeIs
<1>5. DOMAIN v = DOMAIN s /\ v = [p \in DOMAIN s |-> v[p]]
  BY DEF Outline
<1>6. ASSUME NEW p \in DOMAIN s
      PROVE  /\ v[p].kids = s[p].kids /\ v[p].dict = s[p].dict /\ Buffers(v[p]) = Buffers(s[p])
             /\ ChildrenEnd(v, p) = ChildrenEnd(s, p) /\ ChildrenEnd(s, p) \in p..Len(s)
  <2>1. /\ v[p].kids = s[p].kids /\ v[p].dict = s[p].dict /\ v[p].last = s[p].last
        /\ v[p].type = s[p].type
    BY DEF Outline
  <2>2. Buffers(v[p]) = Buffers(s[p])
    BY <2>1 DEF Buffers, Kind
  <2>3. ChildrenEnd(v, p) = ChildrenEnd(s, p)
    BY <2>1 DEF ChildrenEnd
  <2> QED
    BY <1>3, <2>1, <2>2, <2>3, ChildrenEndIs
<1>7. /\ r.view = w /\ r.wild = FALSE /\ r.ok \in BOOLEAN
      /\ r.ok <=> \A p \in DOMAIN s : Matches(p)
  <2> HIDE DEF At, Matches, w, r
  <2>1. /\ r.view = w /\ r.ok = (\A p \in DOMAIN v : At(p).ok)
        /\ r.wild = (\E p \in DOMAIN v : Reached(p) /\ At(p).wild)
    BY <1>1
  <2>2. r.wild = FALSE
    BY <1>2, <2>1
  <2> QED
    BY <1>2, <1>5, <2>1, <2>2
<1>8. ASSUME NEW p \in DOMAIN s PROVE NodeSet(v[p], a[p]) = FilledNode(s[p], a[p])
  BY NodeSetIs
<1>9. Outline(w, s)
  <2>1. DOMAIN w = DOMAIN s /\ w = [p \in DOMAIN s |-> w[p]]
    BY <1>5
  <2>2. ASSUME NEW p \in DOMAIN s PROVE w[p] = FilledNode(s[p], a[p]) \/ w[p] = v[p]
    <3>1. w[p] = At(p).view \/ w[p] = v[p]
      BY <1>5
    <3> HIDE DEF w, At
    <3> QED
      BY <1>2, <1>8, <3>1
  <2> HIDE DEF w
  <2>3. ASSUME NEW p \in DOMAIN s, w[p] = FilledNode(s[p], a[p])
        PROVE  /\ w[p] = Node(w[p], w[p].sizes) /\ w[p].sizes = [b \in 1..3 |-> w[p].sizes[b]]
               /\ \A b \in 1..3 : Kind(s[p], b) = "none" => w[p].sizes[b] = 0
               /\ w[p].type = s[p].type /\ w[p].ids = s[p].ids /\ w[p].kids = s[p].kids
               /\ w[p].dict = s[p].dict /\ w[p].up = s[p].up /\ w[p].last = s[p].last
    BY <2>3 DEF FilledNode, Node
  <2> QED
    BY <2>1, <2>2, <2>3 DEF Outline
<1>10. (\A p \in DOMAIN s : Matches(p)) => SameShape(s, a)
  <2> SUFFICES ASSUME \A p \in DOMAIN s : Matches(p) PROVE SameShape(s, a)
    OBVIOUS
  <2>1. Branches(s, a)
    <3> SUFFICES ASSUME NEW p \in DOMAIN s
                 PROVE  Len(s[p].kids) = Len(a[p].kids) /\ Len(s[p].dict) = Len(a[p].dict)
      BY DEF Branches
    <3>1. Len(s[p].kids) = Len(a[p].kids)
      BY <1>6
    <3> DEFINE e == ChildrenEnd(s, p)
    <3>2. e \in p..Len(s) /\ ChildrenEnd(v, p) = e
      BY <1>6
    <3>3. e \in DOMAIN s /\ p \in 1..e
      BY <1>4, <3>2
    <3>4. Len(v[p].dict) = Len(a[p].dict)
      BY <3>2, <3>3
    <3> QED
      BY <1>6, <3>1, <3>4
  <2> QED
    BY <1>3, <2>1, TreesAlike DEF SameShape, Branches
<1>11. (\A p \in DOMAIN s : Matches(p)) => w = Filled(s, a)
  <2> SUFFICES ASSUME \A p \in DOMAIN s : Matches(p)
               PROVE  \A p \in DOMAIN s : w[p] = FilledNode(s[p], a[p])
    BY <1>5 DEF Filled
  <2> TAKE p \in DOMAIN s
  <2>1. \A q \in 1..(p - 1) : At(q).ok
    <3>1. \A q \in 1..(p - 1) : q \in DOMAIN s
      BY <1>4
    <3> HIDE DEF At, Matches
    <3> QED
      BY <1>2, <3>1
  <2>2. w[p] = At(p).view
    BY <1>5, <2>1
  <2> HIDE DEF w, At
  <2> QED
    BY <1>2, <1>8, <2>2
<1>12. SameShape(s, a) /\ (\A p \in DOMAIN s : Buffers(s[p]) = a[p].n_buffers)
       => \A p \in DOMAIN s : Matches(p)
  <2> SUFFICES ASSUME SameShape(s, a), \A p \in DOMAIN s : Buffers(s[p]) = a[p].n_buffers
               PROVE  \A p \in DOMAIN s : Matches(p)
    OBVIOUS
  <2> TAKE p \in DOMAIN s
  <2>1. \A q \in 1..p : q \in DOMAIN s
    BY <1>4
  <2>2. \A q \in DOMAIN s : Len(s[q].kids) = Len(a[q].kids) /\ Len(s[q].dict) = Len(a[q].dict)
    BY DEF SameShape
  <2> QED
    BY <1>6, <2>1, <2>2
<1>13. (\A p \in DOMAIN s : Matches(p)) => \A p \in DOMAIN s : Buffers(s[p]) = a[p].n_buffers
  BY <1>6
<1> HIDE DEF w, Matches, r
<1> QED
  BY <1>7, <1>9, <1>10, <1>11, <1>12, <1>13 DEF r

(* What minimal validation establishes of the buffers an array really has. *)
Fed(t, a) ==
  /\ ViewTree(t) /\ DOMAIN t = DOMAIN a
  /\ \A p \in DOMAIN t :
       /\ t[p].type = a[p].type /\ t[p].offset = a[p].offset /\ t[p].length = a[p].length
       /\ t[p].null_count = a[p].null_count /\ t[p].types = a[p].types /\ t[p].ints = a[p].ints
       /\ t[p].kids = a[p].kids
Exact(t, a) == \A p \in DOMAIN t : \A b \in 1..3 : t[p].sizes[b] = a[p].sizes[b]
Blank(t, a) ==
  \A p \in DOMAIN t : \A b \in 1..3 :
    t[p].sizes[b] = IF Kind(t[p], b) = "none" \/ a[p].sizes[b] = 0 THEN 0 ELSE Unknown
Source(t, a) ==
  /\ IsArray(a) /\ Fed(t, a)
  /\ Exact(t, a) \/ (Blank(t, a) /\ Conforms(a))

Room(x, y) ==
  /\ x.length >= 0 /\ x.offset >= 0 /\ x.length \in Int /\ x.offset \in Int
  /\ x.type \in DOMAIN Layout
  /\ Kind(x, 1) = "type_id" => \A i \in 0..(End(x) - 1) : i \in DOMAIN y.types
  /\ Kind(x, 1) = "validity" /\ y.sizes[1] # 0 => 8 * y.sizes[1] >= End(x)
  /\ Kind(x, 2) = "data" => 8 * y.sizes[2] >= Bits(x, 2) * End(x)
  /\ Kind(x, 2) = "union_offset" \/ x.type = "int16" => \A i \in 0..(End(x) - 1) : i \in DOMAIN y.ints
  /\ Kind(x, 2) = "data_offset" /\ x.sizes[2] # 0 => \A i \in 0..End(x) : i \in DOMAIN y.ints
  /\ Kind(x, 2) = "data_offset" /\ End(x) > 0 => \A i \in 0..End(x) : i \in DOMAIN y.ints
  /\ HoldsInts(x) => \A i \in DOMAIN y.ints : y.ints[i] \in Int
  /\ y.sizes[3] \in Nat
  /\ Kind(x, 3) = "data" /\ x.sizes[3] = Unknown /\ End(x) > 0 => y.sizes[3] >= y.ints[End(x)]
  /\ x.sizes[3] # Unknown => x.sizes[3] = y.sizes[3]

(* The buffers of an array are as long as its lengths ask for. *)
Ample(a) ==
  \A p \in DOMAIN a : \A b \in 1..2 :
    LET y == a[p] IN
      Kind(y, b) # "none" =>
        /\ y.sizes[b] # 0 => y.sizes[b] >= Needed(y, b, End(y))
        /\ Kind(y, b) # "validity" => y.sizes[b] >= Needed(y, b, End(y))

(* They are when the view passed and its sizes were worked out right. *)
LEMMA AmpleIs ==
  ASSUME NEW t, NEW a, Source(t, a), SizesFit(a), \A p \in DOMAIN t : Passes(t, p)
  PROVE  Ample(a)
<1> SUFFICES ASSUME NEW p \in DOMAIN a, NEW b \in 1..2, Kind(a[p], b) # "none"
             PROVE  /\ a[p].sizes[b] # 0 => a[p].sizes[b] >= Needed(a[p], b, End(a[p]))
                    /\ Kind(a[p], b) # "validity" => a[p].sizes[b] >= Needed(a[p], b, End(a[p]))
  BY DEF Ample
<1> DEFINE v == t[p]
           y == a[p]
           n == End(y)
<1>1. p \in DOMAIN t /\ Passes(t, p) /\ b \in 1..3
  BY DEF Source, Fed
<1>2. v.type = y.type /\ v.offset = y.offset /\ v.length = y.length
  BY <1>1 DEF Source, Fed
<1>3. /\ Kind(v, b) = Kind(y, b) /\ End(v) = n
      /\ MinSize(v, b, n) = Needed(y, b, n)
  <2>1. \A c : Kind(v, c) = Kind(y, c) /\ Bits(v, c) = Bits(y, c)
    BY <1>2 DEF Kind, Bits
  <2>2. MinSize(v, b, n) = MinSize(y, b, n)
    <3>1. Needed(v, b, n) = Needed(y, b, n)
      BY <2>1 DEF Needed
    <3> QED
      BY <2>1, <3>1 DEF MinSize
  <2>3. MinSize(y, b, n) = Needed(y, b, n)
    BY DEF SizesFit
  <2> QED
    BY <1>2, <2>1, <2>2, <2>3 DEF End
<1>4. Fits(v, b)
  BY <1>1 DEF Passes
<1>5. y.sizes[b] \in Nat
  BY <1>1 DEF Source, IsArray
<1>6. \/ v.sizes[b] = y.sizes[b]
      \/ /\ v.sizes[b] = IF y.sizes[b] = 0 THEN 0 ELSE Unknown
         /\ y.sizes[b] # 0 => y.sizes[b] >= Needed(y, b, n)
  <2>1. CASE Exact(t, a)
    BY <1>1, <2>1 DEF Exact
  <2>2. CASE Blank(t, a) /\ Conforms(a)
    BY <1>1, <1>3, <2>2 DEF Blank, Conforms
  <2> QED
    BY <2>1, <2>2 DEF Source
<1> HIDE DEF v, y, n
<1>7. \/ Kind(y, b) = "validity" /\ v.sizes[b] = 0
      \/ v.sizes[b] = Unknown
      \/ v.sizes[b] >= Needed(y, b, n)
  BY <1>3, <1>4 DEF Fits, Optional, y
<1> QED
  BY <1>5, <1>6, <1>7 DEF Unknown, y, n

(* A view that passed has the bytes the array really has. *)
LEMMA RoomOf ==
  ASSUME NEW t, NEW a, Source(t, a), Ample(a), NEW p \in DOMAIN t, Passes(t, p), NEW x,
         x = Node(t[p], Assigned(t[p]))
  PROVE  Room(x, a[p])
<1> DEFINE v == t[p]
           y == a[p]
           n == End(x)
<1>1. IsNode(v) /\ p \in DOMAIN a
  BY DEF Source, Fed, ViewTree
<1>2. /\ v.type = y.type /\ v.offset = y.offset /\ v.length = y.length
      /\ v.null_count = y.null_count /\ v.types = y.types /\ v.ints = y.ints
  BY DEF Source, Fed
<1>3. /\ y.type \in DOMAIN Layout /\ DOMAIN y.sizes = 1..3
      /\ \A b \in 1..3 : y.sizes[b] \in Nat /\ (Kind(y, b) = "none" => y.sizes[b] = 0)
      /\ Kind(y, 1) = "type_id" => DOMAIN y.types = 0..(y.sizes[1] - 1)
      /\ HoldsInts(y) => /\ y.sizes[2] % (Bits(y, 2) \div 8) = 0
                         /\ DOMAIN y.ints = 0..((y.sizes[2] \div (Bits(y, 2) \div 8)) - 1)
                         /\ \A i \in DOMAIN y.ints : y.ints[i] \in Int
  BY <1>1 DEF Source, IsArray
<1>4. v.length >= 0 /\ v.offset >= 0 /\ Fits(v, 1) /\ Fits(v, 2)
  BY DEF Passes
<1>5. \/ \A b \in 1..3 : v.sizes[b] = y.sizes[b]
      \/ /\ \A b \in 1..3 : v.sizes[b] = IF Kind(v, b) = "none" \/ y.sizes[b] = 0 THEN 0 ELSE Unknown
         /\ \A b \in 1..2 : y.sizes[b] # 0 => y.sizes[b] >= Needed(y, b, End(y))
         /\ Kind(y, 3) = "data" /\ y.sizes[2] # 0 /\ End(y) > 0 /\ y.sizes[3] # 0
              => y.sizes[3] >= y.ints[End(y)]
  BY <1>1 DEF Source, Exact, Blank, Conforms
<1>6. /\ x.type = v.type /\ x.length = v.length /\ x.offset = v.offset /\ x.sizes = Assigned(v)
      /\ n = End(v) /\ HoldsInts(x) = HoldsInts(v)
      /\ \A b : Kind(x, b) = Kind(v, b) /\ Bits(x, b) = Bits(v, b) /\ \A m : Needed(x, b, m) = Needed(v, b, m)
  <2>1. \A f : /\ Node(v, f).type = v.type /\ Node(v, f).length = v.length /\ Node(v, f).offset = v.offset
               /\ Node(v, f).sizes = f /\ End(Node(v, f)) = End(v) /\ HoldsInts(Node(v, f)) = HoldsInts(v)
               /\ \A b : /\ Kind(Node(v, f), b) = Kind(v, b) /\ Bits(Node(v, f), b) = Bits(v, b)
                         /\ \A m : Needed(Node(v, f), b, m) = Needed(v, b, m)
    BY NodeIs, NodeSays
  <2> HIDE DEF v
  <2> QED
    BY <2>1 DEF v
<1>7. /\ \A b : Kind(v, b) = Kind(y, b) /\ Bits(v, b) = Bits(y, b) /\ \A m : Needed(v, b, m) = Needed(y, b, m)
      /\ End(v) = End(y) /\ HoldsInts(v) = HoldsInts(y)
  <2>1. \A b : Kind(v, b) = Kind(y, b) /\ Bits(v, b) = Bits(y, b)
    BY <1>2 DEF Kind, Bits
  <2>2. \A b, m : Needed(v, b, m) = Needed(y, b, m)
    BY <2>1 DEF Needed
  <2>3. End(v) = End(y) /\ HoldsInts(v) = HoldsInts(y)
    BY <1>2, <2>1 DEF End, HoldsInts
  <2> QED
    BY <2>1, <2>2, <2>3
<1>8. n \in Nat /\ v.type \in DOMAIN Layout /\ v.length \in Int /\ v.offset \in Int
      /\ \A b \in 1..3 : v.sizes[b] \in Int
  BY <1>1, <1>4, <1>6 DEF IsNode, End
<1> HIDE DEF v, y, n
<1>9. \A b \in 1..2 : Needed(x, b, n) \in Nat
  BY <1>6, <1>8, NeededIs
<1>10. ASSUME NEW b \in 1..2, Kind(x, b) # "none"
       PROVE  /\ y.sizes[b] # 0 => y.sizes[b] >= Needed(x, b, n)
              /\ Kind(x, b) # "validity" => y.sizes[b] >= Needed(x, b, n)
              /\ x.sizes[b] # 0 => y.sizes[b] # 0
  <2>1. b # 3 /\ b \in 1..3
    OBVIOUS
  <2>2. v.sizes[b] # Unknown => x.sizes[b] = v.sizes[b]
    BY <1>6, <1>7, <1>10, <2>1 DEF Assigned
  <2>3. y.sizes[b] = 0 => v.sizes[b] = 0
    BY <1>5, <1>6, <1>7, <1>10, <2>1
  <2>4. /\ y.sizes[b] # 0 => y.sizes[b] >= Needed(y, b, End(y))
        /\ Kind(y, b) # "validity" => y.sizes[b] >= Needed(y, b, End(y))
    BY <1>1, <1>6, <1>7, <1>10 DEF Ample, y
  <2> QED
    BY <1>6, <1>7, <2>2, <2>3, <2>4 DEF Unknown
<1>11. /\ Kind(x, 1) = "type_id" => \A i \in 0..(n - 1) : i \in DOMAIN y.types
       /\ Kind(x, 1) = "validity" /\ y.sizes[1] # 0 => 8 * y.sizes[1] >= n
  <2>1. /\ Kind(x, 1) = "type_id" => Needed(x, 1, n) = n
        /\ Kind(x, 1) = "validity" => 8 * Needed(x, 1, n) >= n
    BY <1>6, <1>8, NeededIs
  <2>2. /\ Kind(x, 1) = "type_id" => y.sizes[1] >= Needed(x, 1, n)
        /\ Kind(x, 1) = "validity" /\ y.sizes[1] # 0 => y.sizes[1] >= Needed(x, 1, n)
    BY <1>10
  <2>3. y.sizes[1] \in Nat /\ Needed(x, 1, n) \in Nat
    BY <1>3, <1>9
  <2>4. Kind(x, 1) = "type_id" => DOMAIN y.types = 0..(y.sizes[1] - 1)
    BY <1>3, <1>6, <1>7
  <2> QED
    BY <1>8, <2>1, <2>2, <2>3, <2>4
<1>12. Kind(x, 2) = "data" => 8 * y.sizes[2] >= Bits(x, 2) * n
  <2> SUFFICES ASSUME Kind(x, 2) = "data" PROVE 8 * y.sizes[2] >= Bits(x, 2) * n
    OBVIOUS
  <2>1. 8 * Needed(x, 2, n) >= Bits(x, 2) * n /\ Bits(x, 2) \in {1, 16}
    BY <1>6, <1>8, NeededIs, Laid
  <2>2. y.sizes[2] >= Needed(x, 2, n)
    BY <1>10
  <2>3. y.sizes[2] \in Nat /\ Needed(x, 2, n) \in Nat
    BY <1>3, <1>9
  <2> QED
    BY <1>8, <2>1, <2>2, <2>3
<1>13. HoldsInts(x) => /\ y.sizes[2] \in Nat /\ y.sizes[2] % (Bits(x, 2) \div 8) = 0
                       /\ DOMAIN y.ints = 0..((y.sizes[2] \div (Bits(x, 2) \div 8)) - 1)
                       /\ \A i \in DOMAIN y.ints : y.ints[i] \in Int
  BY <1>3, <1>6, <1>7
<1>14. Kind(x, 2) = "union_offset" \/ x.type = "int16" => \A i \in 0..(n - 1) : i \in DOMAIN y.ints
  <2>1. CASE Kind(x, 2) = "union_offset"
    <3>1. Needed(x, 2, n) = 4 * n /\ Bits(x, 2) \div 8 = 4 /\ HoldsInts(x)
      <4>1. Bits(x, 2) = 32
        BY <1>6, <1>8, <2>1, Laid
      <4> QED
        BY <1>6, <1>8, <2>1, <4>1, NeededIs DEF HoldsInts
    <3>2. y.sizes[2] >= Needed(x, 2, n)
      BY <1>10, <2>1
    <3> QED
      BY <1>8, <1>13, <2>1, <3>1, <3>2, Laid
  <2>2. CASE x.type = "int16"
    <3>1. Needed(x, 2, n) = 2 * n /\ Bits(x, 2) \div 8 = 2 /\ HoldsInts(x) /\ Kind(x, 2) = "data"
      <4>1. Bits(x, 2) = 16 /\ Kind(x, 2) = "data"
        BY <1>6, <1>8, <2>2, Laid
      <4> QED
        BY <1>6, <1>8, <2>2, <4>1, NeededIs DEF HoldsInts
    <3>2. y.sizes[2] >= Needed(x, 2, n)
      BY <1>10, <3>1
    <3> QED
      BY <1>8, <1>13, <3>1, <3>2
  <2> QED
    BY <2>1, <2>2
<1>15. Kind(x, 2) = "data_offset" =>
         (x.sizes[2] # 0 \/ n > 0 => \A i \in 0..n : i \in DOMAIN y.ints)
  <2> SUFFICES ASSUME Kind(x, 2) = "data_offset"
               PROVE  x.sizes[2] # 0 \/ n > 0 => \A i \in 0..n : i \in DOMAIN y.ints
    OBVIOUS
  <2>1. Bits(x, 2) \in {32, 64} /\ HoldsInts(x)
    BY <1>6, <1>8, Laid DEF HoldsInts
  <2>2. PICK w \in {4, 8} : w = Bits(x, 2) \div 8
    BY <2>1
  <2>3. Needed(x, 2, n) = IF n = 0 THEN 0 ELSE w * (n + 1)
    BY <1>6, <1>8, <2>2, NeededIs
  <2>4. /\ y.sizes[2] >= Needed(x, 2, n)
        /\ x.sizes[2] # 0 => y.sizes[2] # 0
    BY <1>10
  <2>5. y.sizes[2] \in Nat /\ y.sizes[2] % w = 0 /\ DOMAIN y.ints = 0..((y.sizes[2] \div w) - 1)
    BY <1>13, <2>1, <2>2
  <2>7. x.sizes[2] # 0 \/ n > 0 => y.sizes[2] >= w * (n + 1)
    <3>1. CASE n = 0
      <4>1. x.sizes[2] # 0 => y.sizes[2] # 0
        BY <2>4
      <4> QED
        BY <2>5, <3>1, <4>1
    <3>2. CASE n # 0
      BY <2>3, <2>4, <3>2
    <3> QED
      BY <3>1, <3>2
  <2>8. y.sizes[2] >= w * (n + 1) => (y.sizes[2] \div w) - 1 >= n
    BY <1>8, <2>5
  <2> QED
    BY <1>8, <2>5, <2>7, <2>8
<1>16. /\ y.sizes[3] \in Nat
       /\ Kind(x, 3) = "data" /\ x.sizes[3] = Unknown /\ n > 0 => y.sizes[3] >= y.ints[n]
       /\ x.sizes[3] # Unknown => x.sizes[3] = y.sizes[3]
  <2>1. x.sizes[3] = v.sizes[3] /\ y.sizes[3] \in Nat
    BY <1>3, <1>6 DEF Assigned
  <2>2. Kind(x, 3) = "data" => Kind(x, 2) = "data_offset"
    BY <1>6, <1>8, Laid
  <2>3. Kind(x, 2) = "data_offset" /\ n > 0 => y.sizes[2] # 0
    <3> SUFFICES ASSUME Kind(x, 2) = "data_offset", n > 0 PROVE y.sizes[2] # 0
      OBVIOUS
    <3>1. Bits(x, 2) \div 8 \in {4, 8}
      BY <1>6, <1>8, Laid
    <3>2. Needed(x, 2, n) = (Bits(x, 2) \div 8) * (n + 1)
      BY <1>6, <1>8, NeededIs
    <3>3. y.sizes[2] >= Needed(x, 2, n)
      BY <1>10
    <3> QED
      BY <1>8, <3>1, <3>2, <3>3
  <2>4. CASE v.sizes[3] = y.sizes[3]
    BY <2>1, <2>4 DEF Unknown
  <2>5. CASE /\ v.sizes[3] = IF Kind(v, 3) = "none" \/ y.sizes[3] = 0 THEN 0 ELSE Unknown
             /\ Kind(y, 3) = "data" /\ y.sizes[2] # 0 /\ End(y) > 0 /\ y.sizes[3] # 0
                  => y.sizes[3] >= y.ints[End(y)]
    <3>1. Kind(y, 3) = "none" => y.sizes[3] = 0
      BY <1>3
    <3> QED
      BY <1>6, <1>7, <2>1, <2>2, <2>3, <2>5, <3>1 DEF Unknown
  <2> QED
    BY <1>5, <2>4, <2>5
<1> QED
  BY <1>4, <1>6, <1>8, <1>11, <1>12, <1>13, <1>14, <1>15, <1>16 DEF Room, n, y, v

(* The children of a view have the lengths of those of the array. *)
LEMMA FedKid ==
  ASSUME NEW u, NEW a, Fed(u, a), NEW p \in DOMAIN u, NEW k \in 1..Len(u[p].kids)
  PROVE  LET q == u[p].kids[k] IN
           /\ q \in DOMAIN u /\ q \in DOMAIN a
           /\ Kid(u, p, k) = u[q] /\ Kid(a, p, k) = a[q]
           /\ u[q].type = a[q].type /\ u[q].offset = a[q].offset /\ u[q].length = a[q].length
           /\ u[q].null_count = a[q].null_count /\ u[q].ints = a[q].ints /\ u[q].length \in Int
<1> DEFINE q == u[p].kids[k]
<1>1. u[p].kids \in Seq(DOMAIN u) /\ a[p].kids = u[p].kids
  BY DEF Fed, ViewTree
<1>2. q \in DOMAIN u
  BY <1>1
<1>3. Kid(u, p, k) = u[q] /\ Kid(a, p, k) = a[q]
  BY <1>1 DEF Kid
<1> HIDE DEF q
<1>4. IsNode(u[q]) /\ q \in DOMAIN a
  BY <1>2 DEF Fed, ViewTree
<1> QED
  BY <1>2, <1>3, <1>4 DEF Fed, IsNode, q

(* Children suffice in the view when they do in the array. *)
LEMMA FedSuffice ==
  ASSUME NEW u, NEW a, Fed(u, a), NEW p \in DOMAIN u
  PROVE  /\ ChildrenSuffice(u, p) = ChildrenSuffice(a, p)
         /\ DOMAIN u[p].kids = 1..Len(u[p].kids) /\ Len(u[p].kids) \in Nat /\ a[p].kids = u[p].kids
<1>1. /\ u[p].kids \in Seq(DOMAIN u) /\ a[p].kids = u[p].kids /\ u[p].type = a[p].type
      /\ u[p].offset = a[p].offset /\ u[p].length = a[p].length
  BY DEF Fed, ViewTree
<1>2. DOMAIN u[p].kids = 1..Len(u[p].kids) /\ Len(u[p].kids) \in Nat
  BY <1>1, Items
<1>3. \A k \in 1..Len(u[p].kids) : /\ Kid(u, p, k).type = Kid(a, p, k).type
                                   /\ Kid(u, p, k).length = Kid(a, p, k).length
                                   /\ Kid(u, p, k).null_count = Kid(a, p, k).null_count
  BY FedKid
<1>4. /\ Len(u[p].kids) = 1 => 1 \in 1..Len(u[p].kids)
      /\ Len(u[p].kids) = 2 => 1 \in 1..Len(u[p].kids) /\ 2 \in 1..Len(u[p].kids)
  <2> DEFINE n == Len(u[p].kids)
  <2> HIDE DEF n
  <2>1. (n = 1 => 1 \in 1..n) /\ (n = 2 => 1 \in 1..n /\ 2 \in 1..n)
    OBVIOUS
  <2> QED
    BY <2>1 DEF n
<1>5. End(u[p]) = End(a[p])
  BY <1>1 DEF End
<1> QED
  BY <1>1, <1>2, <1>3, <1>4, <1>5 DEF ChildrenSuffice

Checked(u, a) == Fed(u, a) /\ Passed(u) /\ \A p \in DOMAIN u : Room(u[p], a[p])

(* After minimal validation of a view that was filled in. *)
LEMMA CheckedIs ==
  ASSUME NEW t, NEW a, Source(t, a), Ample(a), ValidateMinimal(t).ok
  PROVE  Checked(ValidateMinimal(t).view, a)
<1> DEFINE u == ValidateMinimal(t).view
<1>1. Fed(t, a) /\ ViewTree(t)
  BY DEF Source, Fed
<1>2. /\ ViewTree(u) /\ Resized(u, t) /\ (\A p \in DOMAIN t : Passes(t, p)) /\ Passed(u)
      /\ u = [p \in DOMAIN t |-> Node(t[p], Assigned(t[p]))]
  BY <1>1, MinimalTree, MinimalPassed
<1> HIDE DEF u
<1>3. DOMAIN u = DOMAIN t /\ DOMAIN u = DOMAIN a
  BY <1>1, <1>2 DEF Fed
<1>4. ASSUME NEW p \in DOMAIN u
      PROVE  /\ u[p].type = a[p].type /\ u[p].offset = a[p].offset /\ u[p].length = a[p].length
             /\ u[p].null_count = a[p].null_count /\ u[p].types = a[p].types /\ u[p].ints = a[p].ints
             /\ u[p].kids = a[p].kids
  <2>1. PICK f : u[p] = Node(t[p], f)
    BY <1>2, <1>3
  <2>2. /\ t[p].type = a[p].type /\ t[p].offset = a[p].offset /\ t[p].length = a[p].length
        /\ t[p].null_count = a[p].null_count /\ t[p].types = a[p].types /\ t[p].ints = a[p].ints
        /\ t[p].kids = a[p].kids
    BY <1>1, <1>3 DEF Fed
  <2> QED
    BY <2>1, <2>2, NodeIs
<1>5. Fed(u, a)
  BY <1>2, <1>3, <1>4 DEF Fed
<1>6. ASSUME NEW p \in DOMAIN u PROVE Room(u[p], a[p])
  <2>1. p \in DOMAIN t /\ Passes(t, p) /\ u[p] = Node(t[p], Assigned(t[p]))
    BY <1>2, <1>3
  <2> QED
    BY <2>1, RoomOf
<1> QED
  BY <1>2, <1>5, <1>6 DEF Checked, u

(* A node of a view has the ints of the array's. *)
LEMMA FedInts ==
  ASSUME NEW x, NEW y, x.offset = y.offset, x.ints = y.ints
  PROVE  \A i : GetInt(x, i) = GetInt(y, i) /\ HasInt(x, i) = HasInt(y, i)
BY DEF GetInt, HasInt

(* A check of default validation reads inside the buffers. *)
LEMMA DefaultTame ==
  ASSUME NEW u, NEW a, Checked(u, a), NEW p \in DOMAIN u
  PROVE  ~DefaultAt(u, p).wild
<1> DEFINE x == u[p]
           y == a[p]
<1>1. Fed(u, a) /\ Room(x, y) /\ Passes(u, p)
  BY DEF Checked, Passed
<1>2. x.ints = y.ints /\ x.type \in DOMAIN Layout
  BY <1>1 DEF Fed, Room
<1>3. CASE Kind(x, 2) = "data_offset"
  <2>1. DefaultAt(u, p) = LastOffset(u, p)
    <3>1. x.type # "run_end_encoded"
      <4> HIDE DEF x
      <4> QED
        BY <1>2, <1>3, Laid
    <3> QED
      BY <1>3, <3>1 DEF DefaultAt
  <2>2. x.sizes[2] # 0 => HasInt(x, 0) /\ HasInt(x, x.length)
    <3> HIDE DEF x, y
    <3> QED
      BY <1>1, <1>2, <1>3 DEF Room, HasInt, End
  <2>3. ~LastOffset(u, p).wild
    BY <2>2 DEF LastOffset, OK, EINVAL, Check
  <2> QED
    BY <2>1, <2>3
<1>4. CASE Kind(x, 2) # "data_offset" /\ x.type = "run_end_encoded"
  <2>1. DefaultAt(u, p) = LastRunEnd(u, p)
    BY <1>4 DEF DefaultAt
  <2> DEFINE ends == Kid(u, p, 1)
             q == x.kids[1]
  <2>2. Len(x.kids) = 2 /\ ends.type = "int16"
    BY <1>1, <1>4 DEF Passes, ChildrenSuffice
  <2>3. q \in DOMAIN u /\ ends = u[q] /\ u[q].ints = a[q].ints
    <3>1. 1 \in 1..Len(u[p].kids)
      BY <2>2
    <3> QED
      BY <1>1, <3>1, FedKid
  <2>4. Room(u[q], a[q])
    BY <2>3 DEF Checked
  <2> HIDE DEF q, x
  <2>5. ends.length # 0 => HasInt(ends, 0) /\ HasInt(ends, ends.length - 1)
    BY <2>2, <2>3, <2>4 DEF Room, HasInt, End
  <2>6. ~LastRunEnd(u, p).wild
    BY <2>5 DEF LastRunEnd, OK, EINVAL, Check
  <2> QED
    BY <2>1, <2>6
<1>5. CASE Kind(x, 2) # "data_offset" /\ x.type # "run_end_encoded"
  <2>1. DefaultAt(u, p) = Check(x, x.type = "struct" => ChildrenSuffice(u, p))
    BY <1>5 DEF DefaultAt
  <2> QED
    BY <2>1 DEF Check, OK, EINVAL
<1> QED
  BY <1>3, <1>4, <1>5

(* What default validation establishes of the array itself.                *)
EndsInside(a, p) ==
  LET y == a[p] IN
    Kind(y, 2) = "data_offset" /\ End(y) > 0 =>
      /\ y.ints[y.offset] >= 0
      /\ y.ints[End(y)] <= IF y.type = "list" THEN Kid(a, p, 1).length ELSE y.sizes[3]
Held(a, p) ==
  LET y == a[p] IN
    /\ y.length \in Int /\ y.offset \in Int /\ y.length >= 0 /\ y.offset >= 0
    /\ y.type \in DOMAIN Layout
    /\ Kind(y, 1) = "type_id" => \A i \in 0..(End(y) - 1) : i \in DOMAIN y.types
    /\ Kind(y, 1) = "validity" /\ y.sizes[1] # 0 => 8 * y.sizes[1] >= End(y)
    /\ Kind(y, 2) = "data" => 8 * y.sizes[2] >= Bits(y, 2) * End(y)
    /\ Kind(y, 2) = "union_offset" \/ y.type = "int16" => \A i \in 0..(End(y) - 1) : i \in DOMAIN y.ints
    /\ Kind(y, 2) = "data_offset" /\ End(y) > 0 => \A i \in 0..End(y) : i \in DOMAIN y.ints
    /\ HoldsInts(y) => \A i \in DOMAIN y.ints : y.ints[i] \in Int
    /\ ChildrenSuffice(a, p)
    /\ EndsInside(a, p)
    /\ y.type = "run_end_encoded" /\ Kid(a, p, 1).length # 0 =>
         GetInt(Kid(a, p, 1), Kid(a, p, 1).length - 1) >= End(y)

(* The last offsets and run ends of an array that passed. *)
LEMMA HeldIs ==
  ASSUME NEW u, NEW a, Checked(u, a), NEW p \in DOMAIN u, DefaultAt(u, p).ok,
         SizesFit(a) \/ EndsInside(a, p)
  PROVE  Held(a, p)
<1> DEFINE x == u[p]
           y == a[p]
<1>1. Fed(u, a) /\ Room(x, y) /\ Passes(u, p)
  BY DEF Checked, Passed
<1>2. /\ x.type = y.type /\ x.offset = y.offset /\ x.length = y.length /\ x.types = y.types
      /\ x.ints = y.ints /\ x.kids = y.kids
  BY <1>1 DEF Fed
<1>3. /\ \A b : Kind(x, b) = Kind(y, b) /\ Bits(x, b) = Bits(y, b)
      /\ End(x) = End(y) /\ HoldsInts(x) = HoldsInts(y)
  <2>1. \A b : Kind(x, b) = Kind(y, b) /\ Bits(x, b) = Bits(y, b)
    BY <1>2 DEF Kind, Bits
  <2> QED
    BY <1>2, <2>1 DEF End, HoldsInts
<1>4. ChildrenSuffice(a, p)
  BY <1>1, FedSuffice DEF Passes
<1>5. y.type \in DOMAIN Layout /\ y.length >= 0 /\ y.offset >= 0 /\ y.length \in Int /\ y.offset \in Int
  BY <1>1, <1>2 DEF Room
<1>6. EndsInside(a, p)
  <2> SUFFICES ASSUME Kind(y, 2) = "data_offset", End(y) > 0, SizesFit(a)
               PROVE  /\ y.ints[y.offset] >= 0
                      /\ y.ints[End(y)] <= IF y.type = "list" THEN Kid(a, p, 1).length ELSE y.sizes[3]
    BY DEF EndsInside
  <2>1. DefaultAt(u, p) = LastOffset(u, p)
    <3>1. y.type # "run_end_encoded"
      <4> HIDE DEF y
      <4> QED
        BY <1>5, Laid
    <3> QED
      BY <1>2, <1>3, <3>1 DEF DefaultAt
  <2>2. x.sizes[2] # 0
    <3>1. x.type \in DOMAIN Layout /\ End(x) \in Nat /\ Fits(x, 2)
      BY <1>1 DEF Room, End, Passes
    <3>2. MinSize(x, 2, End(x)) = Needed(x, 2, End(x))
      <4>1. MinSize(y, 2, End(y)) = Needed(y, 2, End(y))
        BY <1>1 DEF SizesFit, Fed
      <4>2. Needed(x, 2, End(x)) = Needed(y, 2, End(y))
        BY <1>3 DEF Needed
      <4> QED
        BY <1>3, <4>1, <4>2 DEF MinSize
    <3>3. Kind(x, 2) = "data_offset" /\ End(x) > 0
      BY <1>3
    <3> HIDE DEF x, y
    <3>4. Needed(x, 2, End(x)) > 0 /\ Needed(x, 2, End(x)) \in Nat
      <4>1. Bits(x, 2) \div 8 \in {4, 8}
        BY <3>1, <3>3, Laid
      <4>2. Needed(x, 2, End(x)) = (Bits(x, 2) \div 8) * (End(x) + 1)
        BY <3>1, <3>3, NeededIs
      <4> QED
        BY <3>1, <4>1, <4>2
    <3>5. x.sizes[2] = Unknown \/ x.sizes[2] >= MinSize(x, 2, End(x))
      BY <3>1, <3>3 DEF Fits, Optional
    <3> QED
      BY <3>2, <3>4, <3>5 DEF Unknown
  <2>3. LastOffset(u, p).ok
    BY <2>1
  <2> DEFINE last == GetInt(x, x.length)
  <2>4. HasInt(x, 0) /\ HasInt(x, x.length) /\ EndsNonNegative(x)
    BY <2>2, <2>3 DEF LastOffset, Wild, EINVAL
  <2>5. GetInt(x, 0) = y.ints[y.offset] /\ last = y.ints[End(y)]
    <3>1. y.offset + 0 = y.offset
      BY <1>5
    <3> QED
      BY <1>2, <3>1 DEF GetInt, End
  <2>6. last \in Int
    <3>1. HoldsInts(x)
      BY <1>3 DEF HoldsInts
    <3> QED
      BY <1>1, <1>2, <2>4, <3>1 DEF Room, HasInt, GetInt
  <2>7. CASE y.type = "list"
    <3>1. LastOffset(u, p) = Check(x, Kid(u, p, 1).length >= last)
      BY <1>2, <2>2, <2>4, <2>7 DEF LastOffset
    <3>2. Kid(u, p, 1).length >= last
      BY <2>3, <3>1 DEF Check, EINVAL
    <3>3. Kid(u, p, 1).length = Kid(a, p, 1).length /\ Kid(u, p, 1).length \in Int
      <4>1. Len(x.kids) = 1
        BY <1>1, <1>2, <2>7 DEF Passes, ChildrenSuffice
      <4>2. 1 \in 1..Len(u[p].kids)
        BY <4>1
      <4> QED
        BY <1>1, <4>2, FedKid
    <3> QED
      BY <2>4, <2>5, <2>6, <2>7, <3>2, <3>3 DEF EndsNonNegative
  <2>8. CASE y.type # "list"
    <3>1. Kind(x, 3) = "data"
      <4> HIDE DEF x, y
      <4> QED
        BY <1>2, <1>3, <1>5, <2>8, Laid
    <3>2. y.sizes[3] >= last
      <4>1. CASE x.sizes[3] = Unknown
        BY <1>1, <1>2, <1>3, <2>5, <3>1, <4>1 DEF Room
      <4>2. CASE x.sizes[3] # Unknown
        <5>1. LastOffset(u, p) = Check(x, x.sizes[3] >= last)
          BY <1>2, <2>2, <2>4, <2>8, <4>2 DEF LastOffset
        <5>2. x.sizes[3] >= last /\ x.sizes[3] = y.sizes[3]
          BY <1>1, <2>3, <4>2, <5>1 DEF Check, EINVAL, Room
        <5> QED
          BY <5>2
      <4> QED
        BY <4>1, <4>2
    <3>3. y.sizes[3] \in Nat
      BY <1>1 DEF Room
    <3> QED
      BY <2>4, <2>5, <2>6, <2>8, <3>2, <3>3 DEF EndsNonNegative
  <2> QED
    BY <2>7, <2>8
<1>7. y.type = "run_end_encoded" /\ Kid(a, p, 1).length # 0 =>
        GetInt(Kid(a, p, 1), Kid(a, p, 1).length - 1) >= End(y)
  <2> SUFFICES ASSUME y.type = "run_end_encoded", Kid(a, p, 1).length # 0
               PROVE  GetInt(Kid(a, p, 1), Kid(a, p, 1).length - 1) >= End(y)
    OBVIOUS
  <2>1. DefaultAt(u, p) = LastRunEnd(u, p)
    <3>1. Kind(x, 2) # "data_offset"
      <4> HIDE DEF x, y
      <4> QED
        BY <1>2, <1>3, <1>5, Laid
    <3> QED
      BY <1>2, <3>1 DEF DefaultAt
  <2>2. Len(x.kids) = 2
    BY <1>1, <1>2 DEF Passes, ChildrenSuffice
  <2>3. 1 \in 1..Len(u[p].kids)
    BY <2>2
  <2>4. /\ Kid(u, p, 1).length = Kid(a, p, 1).length
        /\ \A i : GetInt(Kid(u, p, 1), i) = GetInt(Kid(a, p, 1), i)
    BY <1>1, <2>3, FedKid, FedInts
  <2>5. Covers(x, GetInt(Kid(u, p, 1), Kid(u, p, 1).length - 1))
    BY <2>1, <2>4 DEF LastRunEnd, Check, Wild, EINVAL
  <2> QED
    BY <1>3, <2>4, <2>5 DEF Covers
<1> HIDE DEF x, y
<1>8. /\ Kind(y, 1) = "type_id" => \A i \in 0..(End(y) - 1) : i \in DOMAIN y.types
      /\ Kind(y, 1) = "validity" /\ y.sizes[1] # 0 => 8 * y.sizes[1] >= End(y)
      /\ Kind(y, 2) = "data" => 8 * y.sizes[2] >= Bits(y, 2) * End(y)
      /\ Kind(y, 2) = "union_offset" \/ y.type = "int16" => \A i \in 0..(End(y) - 1) : i \in DOMAIN y.ints
      /\ Kind(y, 2) = "data_offset" /\ End(y) > 0 => \A i \in 0..End(y) : i \in DOMAIN y.ints
      /\ HoldsInts(y) => \A i \in DOMAIN y.ints : y.ints[i] \in Int
  BY <1>1, <1>2, <1>3 DEF Room
<1> QED
  BY <1>4, <1>5, <1>6, <1>7, <1>8 DEF Held, y

(* Full validation.                                                        *)
LEMMA Rising ==
  ASSUME NEW f, NEW n \in Nat, NEW o \in Nat, \A i \in 0..n : f[o + i] \in Int,
         \A i \in 1..n : f[o + i] >= f[o + (i - 1)]
  PROVE  \A i \in 0..n : f[o] <= f[o + i] /\ f[o + i] <= f[o + n]
<1> DEFINE T == {i \in Nat : i <= n => f[o] <= f[o + i]}
           U == {i \in Nat : i <= n => f[o + (n - i)] <= f[o + n]}
<1>1. 0 \in T /\ 0 \in U
  <2>1. f[o + 0] \in Int /\ f[o + n] \in Int /\ o + 0 = o /\ n - 0 = n
    OBVIOUS
  <2> QED
    BY <2>1
<1>2. ASSUME NEW i \in T PROVE i + 1 \in T
  <2> SUFFICES ASSUME i + 1 <= n PROVE f[o] <= f[o + (i + 1)]
    OBVIOUS
  <2>1. i \in 0..n /\ i + 1 \in 1..n /\ i + 1 \in 0..n /\ (i + 1) - 1 = i /\ f[o] <= f[o + i]
    OBVIOUS
  <2>2. f[o + (i + 1)] >= f[o + i] /\ f[o + i] \in Int /\ f[o + (i + 1)] \in Int
    BY <2>1
  <2>3. f[o] \in Int
    <3>1. 0 \in 0..n /\ o + 0 = o
      OBVIOUS
    <3> QED
      BY <3>1
  <2> QED
    BY <2>1, <2>2, <2>3
<1>3. ASSUME NEW i \in U PROVE i + 1 \in U
  <2> SUFFICES ASSUME i + 1 <= n PROVE f[o + (n - (i + 1))] <= f[o + n]
    OBVIOUS
  <2> DEFINE k == n - i
  <2>1. /\ k \in 1..n /\ k \in 0..n /\ k - 1 \in 0..n /\ n - (i + 1) = k - 1
        /\ f[o + k] <= f[o + n] /\ n \in 0..n
    OBVIOUS
  <2> HIDE DEF k
  <2>2. /\ f[o + k] >= f[o + (k - 1)] /\ f[o + k] \in Int /\ f[o + (k - 1)] \in Int /\ f[o + n] \in Int
    BY <2>1
  <2> QED
    BY <2>1, <2>2
<1>4. Nat \subseteq T /\ Nat \subseteq U
  <2>1. T \subseteq Nat /\ U \subseteq Nat
    OBVIOUS
  <2> HIDE DEF T, U
  <2> QED
    BY <1>1, <1>2, <1>3, <2>1, NatInduct
<1> SUFFICES ASSUME NEW i \in 0..n PROVE f[o] <= f[o + i] /\ f[o + i] <= f[o + n]
  OBVIOUS
<1>5. i \in T /\ n - i \in U
  <2>1. i \in Nat /\ n - i \in Nat
    OBVIOUS
  <2> HIDE DEF T, U
  <2> QED
    BY <1>4, <2>1
<1> QED
  BY <1>5

(* The last of the positions at which a sequence has an element.           *)
LEMMA LastPosition ==
  ASSUME NEW ids \in Seq(Nat), NEW id \in ToSet(ids)
  PROVE  \E k \in DOMAIN ids : ids[k] = id /\ \A l \in (k + 1)..Len(ids) : ids[l] # id
<1> DEFINE n == Len(ids)
           T == {m \in Nat : m < n /\ ids[n - m] = id}
<1>1. DOMAIN ids = 1..n /\ n \in Nat
  BY Items
<1>2. PICK j \in 1..n : ids[j] = id
  BY <1>1 DEF ToSet
<1>3. n - j \in T
  BY <1>1, <1>2
<1>4. PICK m \in T : \A o \in T : m <= o
  <2>1. T \subseteq Nat /\ T # {}
    BY <1>3
  <2> HIDE DEF T
  <2> QED
    BY <2>1, Least
<1> DEFINE k == n - m
<1>5. k \in 1..n /\ ids[k] = id
  BY <1>1, <1>4
<1>6. ASSUME NEW l \in (k + 1)..n, ids[l] = id PROVE FALSE
  <2>1. n - l \in Nat /\ n - l < n /\ n - (n - l) = l /\ n - l < m
    BY <1>1, <1>4, <1>5, <1>6
  <2>2. n - l \in T
    BY <1>6, <2>1
  <2> QED
    BY <1>4, <2>1, <2>2
<1> QED
  BY <1>1, <1>5, <1>6

Mapped(d) ==
  \A p \in DOMAIN d :
    d[p].type \in {"sparse_union", "dense_union"} /\ d[p].ids # NoMap
      => d[p].ids \in Seq(Nat) /\ Len(d[p].ids) = Len(d[p].kids)

(* The child that the map of a view gives for a type id. *)
LEMMA ChildIndexIs ==
  ASSUME NEW d, Mapped(d), NEW p \in DOMAIN d, d[p].type \in {"sparse_union", "dense_union"},
         d[p].ids # NoMap, NEW id \in ToSet(d[p].ids)
  PROVE  ChildIndex(d[p], id) \in 1..Len(d[p].kids)
<1> DEFINE ids == d[p].ids
           P(k) == ids[k] = id /\ \A l \in (k + 1)..Len(ids) : ids[l] # id
<1>1. ids \in Seq(Nat) /\ Len(ids) = Len(d[p].kids)
  BY DEF Mapped
<1>2. \E k \in DOMAIN ids : P(k)
  <2> HIDE DEF ids
  <2> QED
    BY <1>1, LastPosition DEF ids
<1>3. ChildIndex(d[p], id) = CHOOSE k \in DOMAIN ids : P(k)
  BY DEF ChildIndex
<1>4. ChildIndex(d[p], id) \in DOMAIN ids
  <2> HIDE DEF P
  <2> QED
    BY <1>2, <1>3
<1> HIDE DEF ids
<1>5. DOMAIN ids = 1..Len(ids)
  BY <1>1, Items
<1> QED
  BY <1>1, <1>4, <1>5

(* The ints of a node that are read.                                       *)
LEMMA IntsRead ==
  ASSUME NEW a, NEW p, Held(a, p), HoldsInts(a[p])
  PROVE  \A i : HasInt(a[p], i) => GetInt(a[p], i) \in Int
BY DEF Held, HasInt, GetInt

(* The type ids are read inside their buffer. *)
LEMMA TypeIdsTame ==
  ASSUME NEW d, NEW a, Fed(d, a), NEW p \in DOMAIN d, Held(a, p),
         d[p].type \in {"sparse_union", "dense_union"}
  PROVE  /\ ~TypeIdsKnown(d[p]).wild /\ TypeIdsKnown(d[p]).view = d[p]
         /\ TypeIdsKnown(d[p]).ok <=>
              /\ d[p].ids # NoMap
              /\ \A i \in 0..(a[p].length - 1) : /\ a[p].offset + i \in DOMAIN a[p].types
                                                 /\ a[p].types[a[p].offset + i] \in ToSet(d[p].ids)
<1> DEFINE x == d[p]
           y == a[p]
<1>1. /\ x.type = y.type /\ x.offset = y.offset /\ x.length = y.length /\ x.types = y.types
  BY DEF Fed
<1>2. \A i \in 0..(y.length - 1) : y.offset + i \in DOMAIN y.types
  <2>1. Kind(y, 1) = "type_id"
    <3>1. y.type \in DOMAIN Layout
      BY DEF Held
    <3> HIDE DEF x, y
    <3> QED
      BY <1>1, <3>1, Laid DEF x
  <2>2. y.length \in Int /\ y.offset \in Int /\ y.offset >= 0
        /\ \A i \in 0..(y.offset + y.length - 1) : i \in DOMAIN y.types
    BY <2>1 DEF Held, End
  <2> HIDE DEF x, y
  <2> QED
    BY <2>2
<1> HIDE DEF x, y
<1>3. CASE x.ids = NoMap
  <2>1. TypeIdsKnown(x) = EINVAL(x)
    BY <1>3 DEF TypeIdsKnown
  <2> QED
    BY <1>3, <2>1 DEF EINVAL, x
<1>4. CASE x.ids # NoMap
  <2>1. TypeIdsKnown(x) = Check(x, \A i \in 0..(y.length - 1) : y.types[y.offset + i] \in ToSet(x.ids))
    BY <1>1, <1>2, <1>4 DEF TypeIdsKnown
  <2> QED
    BY <1>2, <1>4, <2>1 DEF Check, OK, EINVAL, x, y
<1> QED
  BY <1>3, <1>4

Sound(d, a, p) ==
  LET y == a[p]
      ends == Kid(a, p, 1) IN
    /\ Kind(y, 2) = "data_offset" => \A i \in 1..y.length : GetInt(y, i) >= GetInt(y, i - 1)
    /\ y.type \in {"sparse_union", "dense_union"} =>
         /\ d[p].ids # NoMap
         /\ \A i \in 0..(y.length - 1) : /\ y.offset + i \in DOMAIN y.types
                                         /\ y.types[y.offset + i] \in ToSet(d[p].ids)
    /\ y.type = "dense_union" =>
         \A i \in 0..(y.length - 1) :
           /\ GetInt(y, i) >= 0
           /\ GetInt(y, i) <= Kid(a, p, ChildIndex(d[p], y.types[y.offset + i])).length
    /\ y.type = "run_end_encoded" =>
         \A i \in 1..(ends.length - 1) : GetInt(ends, i) > GetInt(ends, i - 1)

(* Full validation changes nothing. *)
LEMMA FullLeaves ==
  ASSUME NEW d, NEW p
  PROVE  FullAt(d, p).view = d[p] /\ FullAt(d, p).ok \in BOOLEAN
<1>1. \A x, b : Check(x, b).view = x /\ Check(x, b).ok \in BOOLEAN
  BY DEF Check, OK, EINVAL
<1>2. \A x : /\ OK(x).view = x /\ EINVAL(x).view = x /\ Wild(x).view = x
             /\ OK(x).ok \in BOOLEAN /\ EINVAL(x).ok \in BOOLEAN /\ Wild(x).ok \in BOOLEAN
  BY DEF OK, EINVAL, Wild
<1>3. OffsetsIncrease(d[p]).view = d[p] /\ OffsetsIncrease(d[p]).ok \in BOOLEAN
  BY <1>1, <1>2, Zenon DEF OffsetsIncrease
<1>4. TypeIdsKnown(d[p]).view = d[p] /\ TypeIdsKnown(d[p]).ok \in BOOLEAN
  BY <1>1, <1>2, Zenon DEF TypeIdsKnown
<1>5. UnionOffsetsFit(d, p).view = d[p] /\ UnionOffsetsFit(d, p).ok \in BOOLEAN
  BY <1>1, <1>2, Zenon DEF UnionOffsetsFit
<1>6. RunEndsIncrease(d, p).view = d[p] /\ RunEndsIncrease(d, p).ok \in BOOLEAN
  BY <1>1, <1>2, Zenon DEF RunEndsIncrease
<1>7. /\ Then(TypeIdsKnown(d[p]), LAMBDA v : UnionOffsetsFit(d, p)).view = d[p]
      /\ Then(TypeIdsKnown(d[p]), LAMBDA v : UnionOffsetsFit(d, p)).ok \in BOOLEAN
  BY <1>4, <1>5, Zenon DEF Then
<1> QED
  BY <1>2, <1>3, <1>4, <1>6, <1>7 DEF FullAt

(* The offsets that are compared are not more than there are, and all of   *)
(* them if the size of the buffer was worked out right.                    *)
LEMMA ComparedIs ==
  ASSUME NEW x, x.type \in DOMAIN Layout, Kind(x, 2) = "data_offset",
         x.length \in Int, x.length > 0, x.offset \in Int, x.offset >= 0
  PROVE  /\ Compared(x) \in Int /\ Compared(x) <= x.length + 1
         /\ MinSize(x, 2, End(x)) = Needed(x, 2, End(x)) => Compared(x) = x.length + 1
<1> DEFINE w == Bits(x, 2) \div 8
           n == x.length + 1
           e == End(x) + 1
<1>1. w \in {4, 8}
  BY Laid
<1>2. n \in Nat /\ e \in Nat /\ n <= e /\ End(x) \in Nat /\ End(x) # 0
  BY DEF End
<1>3. Compared(x) = Wrapped(w * n) \div w
  BY DEF Compared
<1>4. /\ Needed(x, 2, End(x)) = w * e
      /\ MinSize(x, 2, End(x)) = Wrapped(Needed(x, 2, End(x)))
  BY <1>2 DEF Needed, MinSize
<1> HIDE DEF w, n, e
<1>5. w * n \in Nat /\ w * e \in Nat /\ w * n <= w * e
  BY <1>1, <1>2
<1>6. (w * n) \div w = n
  BY <1>1, <1>2
<1>7. /\ Wrapped(w * n) \in Int /\ Wrapped(w * n) <= w * n /\ Wrapped(w * e) \in Int64s
      /\ w * n \in Int64s => Wrapped(w * n) = w * n
  <2> DEFINE k == w * n
             l == w * e
  <2>1. k \in Nat /\ l \in Nat
    BY <1>5
  <2> HIDE DEF k, l
  <2>2. /\ Wrapped(k) \in Int64s /\ Wrapped(k) <= k /\ Wrapped(l) \in Int64s
        /\ k \in Int64s => Wrapped(k) = k
    BY <2>1, WrappedIs
  <2>3. \A i \in Int64s : i \in Int
    BY ViewAssumption DEF Int64s
  <2> QED
    BY <2>2, <2>3 DEF k, l
<1>8. Wrapped(w * n) \div w \in Int /\ Wrapped(w * n) \div w <= (w * n) \div w
  <2> DEFINE k == w * n
             h == Wrapped(k)
  <2>1. k \in Int /\ h \in Int /\ h <= k
    BY <1>5, <1>7
  <2> HIDE DEF k, h
  <2>2. h \div w \in Int /\ h \div w <= k \div w
    BY <1>1, <2>1
  <2> QED
    BY <2>2 DEF k, h
<1>9. ASSUME MinSize(x, 2, End(x)) = Needed(x, 2, End(x)) PROVE Wrapped(w * n) = w * n
  <2>1. w * e \in Int64s
    BY <1>4, <1>7, <1>9
  <2>2. w * n \in Int64s
    <3> DEFINE k == w * n
               l == w * e
    <3>1. k \in Nat /\ l \in Nat /\ k <= l /\ l \in Int64s
      BY <1>5, <2>1
    <3> HIDE DEF k, l
    <3>2. k \in Int64s
      BY <3>1, ViewAssumption DEF Int64s
    <3> QED
      BY <3>2 DEF k
  <2> QED
    BY <1>7, <2>2
<1> QED
  BY <1>3, <1>6, <1>8, <1>9 DEF n

(* Full validation of one node: what it reads and what it establishes. *)
LEMMA FullIs ==
  ASSUME NEW d, NEW a, Fed(d, a), \A q \in DOMAIN d : Held(a, q), Mapped(d), NEW p \in DOMAIN d
  PROVE  /\ ~FullAt(d, p).wild
         /\ Sound(d, a, p) => FullAt(d, p).ok
         /\ SizesFit(a) /\ FullAt(d, p).ok => Sound(d, a, p)
<1> DEFINE x == d[p]
           y == a[p]
<1>1. /\ x.type = y.type /\ x.offset = y.offset /\ x.length = y.length /\ x.types = y.types
      /\ x.ints = y.ints
  BY DEF Fed
<1>2. Held(a, p)
  OBVIOUS
<1>3. /\ y.length \in Int /\ y.offset \in Int /\ y.length >= 0 /\ y.offset >= 0
      /\ y.type \in DOMAIN Layout
  BY <1>2 DEF Held
<1>4. \A i : GetInt(x, i) = GetInt(y, i) /\ HasInt(x, i) = HasInt(y, i)
  BY <1>1, FedInts
<1>5. \A b : Kind(x, b) = Kind(y, b)
  BY <1>1 DEF Kind
<1>6. /\ Kind(y, 2) = "data_offset" <=> y.type \in {"list", "string", "large_string"}
      /\ Kind(y, 2) = "union_offset" <=> y.type = "dense_union"
  <2> HIDE DEF y
  <2> QED
    BY <1>3, Laid
<1>7. CASE Kind(y, 2) = "data_offset"
  <2>1. FullAt(d, p) = OffsetsIncrease(x)
    BY <1>1, <1>5, <1>6, <1>7 DEF FullAt
  <2>2. y.length > 0 => \A i \in 0..x.length : HasInt(x, i)
    <3> HIDE DEF x, y
    <3> QED
      BY <1>1, <1>2, <1>3, <1>7 DEF Held, HasInt, End, y
  <2>3. Sound(d, a, p) <=> \A i \in 1..y.length : GetInt(y, i) >= GetInt(y, i - 1)
    BY <1>6, <1>7 DEF Sound
  <2> HIDE DEF x, y
  <2>4. CASE y.length = 0
    BY <1>1, <2>1, <2>3, <2>4 DEF OffsetsIncrease, OK, x
  <2>5. CASE y.length # 0
    <3> DEFINE m == Compared(x) - 1
    <3>1. /\ x.length # 0 /\ y.length > 0 /\ x.length \in Nat /\ x.type \in DOMAIN Layout
          /\ x.offset \in Int /\ x.offset >= 0 /\ Kind(x, 2) = "data_offset"
      BY <1>1, <1>3, <1>5, <1>7, <2>5
    <3>2. /\ m \in Int /\ m <= x.length
          /\ MinSize(x, 2, End(x)) = Needed(x, 2, End(x)) => m = x.length
      BY <3>1, ComparedIs
    <3>3. SizesFit(a) => MinSize(x, 2, End(x)) = Needed(x, 2, End(x))
      <4>1. SizesFit(a) => MinSize(y, 2, End(y)) = Needed(y, 2, End(y))
        BY DEF SizesFit, Fed, y
      <4>2. End(x) = End(y) /\ \A b : Kind(x, b) = Kind(y, b) /\ Bits(x, b) = Bits(y, b)
        BY <1>1 DEF End, Kind, Bits
      <4>3. Needed(x, 2, End(x)) = Needed(y, 2, End(y))
        BY <4>2 DEF Needed
      <4> QED
        BY <4>1, <4>2, <4>3 DEF MinSize
    <3> HIDE DEF m
    <3>4. \A i \in 0..m : HasInt(x, i)
      BY <2>2, <3>1, <3>2
    <3>5. OffsetsIncrease(x) = Check(x, \A i \in 1..m : GetInt(x, i) >= GetInt(x, i - 1))
      <4>1. ~\E i \in 0..m : ~HasInt(x, i)
        BY <3>4
      <4> QED
        BY <3>1, <4>1 DEF OffsetsIncrease, m
    <3>6. (\A i \in 1..y.length : GetInt(y, i) >= GetInt(y, i - 1))
            => \A i \in 1..m : GetInt(x, i) >= GetInt(x, i - 1)
      BY <1>1, <1>4, <3>1, <3>2
    <3>7. m = x.length => ((\A i \in 1..m : GetInt(x, i) >= GetInt(x, i - 1))
                             => \A i \in 1..y.length : GetInt(y, i) >= GetInt(y, i - 1))
      BY <1>1, <1>4
    <3>8. /\ ~FullAt(d, p).wild
          /\ FullAt(d, p).ok <=> \A i \in 1..m : GetInt(x, i) >= GetInt(x, i - 1)
      BY <2>1, <3>5 DEF Check, OK, EINVAL
    <3> QED
      BY <2>3, <3>2, <3>3, <3>6, <3>7, <3>8
  <2> QED
    BY <2>4, <2>5
<1>8. CASE y.type = "sparse_union"
  <2>1. FullAt(d, p) = TypeIdsKnown(x)
    BY <1>1, <1>5, <1>6, <1>8 DEF FullAt
  <2>2. /\ ~TypeIdsKnown(x).wild /\ TypeIdsKnown(x).view = x
        /\ TypeIdsKnown(x).ok <=>
              /\ x.ids # NoMap
              /\ \A i \in 0..(y.length - 1) : y.offset + i \in DOMAIN y.types
                                              /\ y.types[y.offset + i] \in ToSet(x.ids)
    BY <1>1, <1>2, <1>8, TypeIdsTame
  <2> QED
    BY <1>6, <1>8, <2>1, <2>2 DEF Sound
<1>9. CASE y.type = "dense_union"
  <2>1. FullAt(d, p) = Then(TypeIdsKnown(x), LAMBDA v : UnionOffsetsFit(d, p))
    BY <1>1, <1>5, <1>6, <1>9 DEF FullAt
  <2> DEFINE Known == /\ x.ids # NoMap
                      /\ \A i \in 0..(y.length - 1) : y.offset + i \in DOMAIN y.types
                                                      /\ y.types[y.offset + i] \in ToSet(x.ids)
             Fit2(i) == /\ GetInt(y, i) >= 0
                        /\ GetInt(y, i) <= Kid(a, p, ChildIndex(x, y.types[y.offset + i])).length
  <2>2. /\ ~TypeIdsKnown(x).wild /\ TypeIdsKnown(x).view = x
        /\ TypeIdsKnown(x).ok <=> Known
    BY <1>1, <1>2, <1>9, TypeIdsTame
  <2>3. Sound(d, a, p) <=> Known /\ \A i \in 0..(y.length - 1) : Fit2(i)
    BY <1>6, <1>9 DEF Sound
  <2>4. CASE ~Known
    <3>1. FullAt(d, p) = TypeIdsKnown(x)
      BY <2>1, <2>2, <2>4 DEF Then
    <3> QED
      BY <2>2, <2>3, <2>4, <3>1
  <2>5. CASE Known
    <3>1. FullAt(d, p) = UnionOffsetsFit(d, p)
      BY <2>1, <2>2, <2>5 DEF Then
    <3>2. \A i \in 0..(x.length - 1) : HasInt(x, i)
      <4>1. Kind(y, 2) = "union_offset"
        BY <1>6, <1>9
      <4> HIDE DEF x, y
      <4> QED
        BY <1>1, <1>2, <1>3, <4>1 DEF Held, HasInt, End, y
    <3>3. ASSUME NEW i \in 0..(y.length - 1) PROVE UnionOffsetFits(d, p, i) <=> Fit2(i)
      <4> DEFINE id == y.types[y.offset + i]
                 k == ChildIndex(x, id)
      <4>1. x.ids # NoMap /\ id \in ToSet(x.ids) /\ x.type \in {"sparse_union", "dense_union"}
        BY <1>1, <1>9, <2>5
      <4>2. k \in 1..Len(x.kids)
        <5> HIDE DEF id
        <5> QED
          BY <4>1, ChildIndexIs
      <4> HIDE DEF k
      <4>3. Kid(d, p, k).length = Kid(a, p, k).length
        BY <4>2, FedKid
      <4>4. x.types[x.offset + i] = id
        BY <1>1
      <4> QED
        BY <1>4, <4>3, <4>4 DEF UnionOffsetFits, k
    <3>4. UnionOffsetsFit(d, p) = Check(x, \A i \in 0..(x.length - 1) : UnionOffsetFits(d, p, i))
      BY <3>2 DEF UnionOffsetsFit
    <3>5. (\A i \in 0..(x.length - 1) : UnionOffsetFits(d, p, i)) <=> \A i \in 0..(y.length - 1) : Fit2(i)
      BY <1>1, <3>3
    <3> HIDE DEF Known, Fit2
    <3> QED
      BY <2>3, <2>5, <3>1, <3>4, <3>5 DEF Check, OK, EINVAL
  <2> QED
    BY <2>4, <2>5
<1>10. CASE y.type = "run_end_encoded"
  <2>1. FullAt(d, p) = RunEndsIncrease(d, p)
    BY <1>1, <1>5, <1>6, <1>10 DEF FullAt
  <2> DEFINE ends == Kid(d, p, 1)
             e == Kid(a, p, 1)
             q == x.kids[1]
  <2>2. Len(x.kids) = 2 /\ e.type = "int16"
    <3>1. ChildrenSuffice(a, p) /\ y.kids = x.kids
      BY <1>2, FedSuffice DEF Held
    <3> QED
      BY <1>10, <3>1 DEF ChildrenSuffice
  <2>3. /\ q \in DOMAIN d /\ ends = d[q] /\ e = a[q]
        /\ d[q].length = a[q].length /\ d[q].ints = a[q].ints /\ d[q].offset = a[q].offset
    <3>1. 1 \in 1..Len(d[p].kids)
      BY <2>2
    <3> QED
      BY <3>1, FedKid
  <2>4. Held(a, q)
    BY <2>3
  <2> HIDE DEF q
  <2>5. ends.length = e.length /\ \A i : GetInt(ends, i) = GetInt(e, i) /\ HasInt(ends, i) = HasInt(e, i)
    BY <2>3, FedInts
  <2>6. \A i \in 0..(e.length - 1) : HasInt(e, i)
    <3> HIDE DEF e, ends, x, y
    <3> QED
      BY <2>2, <2>3, <2>4 DEF Held, HasInt, End
  <2>7. RunEndsIncrease(d, p) = Check(x, \A i \in 1..(ends.length - 1) : GetInt(ends, i) > GetInt(ends, i - 1))
    BY <2>5, <2>6 DEF RunEndsIncrease
  <2>8. Sound(d, a, p) <=> \A i \in 1..(e.length - 1) : GetInt(e, i) > GetInt(e, i - 1)
    BY <1>6, <1>10 DEF Sound
  <2>9. (\A i \in 1..(ends.length - 1) : GetInt(ends, i) > GetInt(ends, i - 1))
        <=> \A i \in 1..(e.length - 1) : GetInt(e, i) > GetInt(e, i - 1)
    BY <2>5
  <2> HIDE DEF ends, e
  <2> QED
    BY <2>1, <2>7, <2>8, <2>9 DEF Check, OK, EINVAL
<1>11. CASE /\ Kind(y, 2) # "data_offset"
            /\ y.type \notin {"sparse_union", "dense_union", "run_end_encoded"}
  <2>1. FullAt(d, p) = OK(x)
    BY <1>1, <1>5, <1>11 DEF FullAt
  <2>2. Sound(d, a, p)
    BY <1>11 DEF Sound
  <2> QED
    BY <2>1, <2>2 DEF OK
<1> QED
  BY <1>7, <1>8, <1>9, <1>10, <1>11

(* Full validation of a tree. *)
LEMMA FullTree ==
  ASSUME NEW d, NEW a, Fed(d, a), \A q \in DOMAIN d : Held(a, q), Mapped(d)
  PROVE  /\ ~ValidateFull(d).wild
         /\ (\A p \in DOMAIN d : Sound(d, a, p)) => ValidateFull(d).ok
         /\ SizesFit(a) /\ ValidateFull(d).ok => \A p \in DOMAIN d : Sound(d, a, p)
<1>1. \A p \in DOMAIN d : /\ ~FullAt(d, p).wild
                          /\ Sound(d, a, p) => FullAt(d, p).ok
                          /\ SizesFit(a) /\ FullAt(d, p).ok => Sound(d, a, p)
  BY FullIs
<1> DEFINE Reached(p) == \A q \in 1..(p - 1) : FullAt(d, q).ok
<1>2. /\ ValidateFull(d).ok = (\A p \in DOMAIN d : FullAt(d, p).ok)
      /\ ValidateFull(d).wild = (\E p \in DOMAIN d : Reached(p) /\ FullAt(d, p).wild)
  BY DEF ValidateFull, Visit
<1> HIDE DEF Reached
<1> QED
  BY <1>1, <1>2

(* It gives back the view it got. *)
LEMMA FullGives ==
  ASSUME NEW d, d = [p \in DOMAIN d |-> d[p]]
  PROVE  ValidateFull(d).view = d /\ ValidateFull(d).ok \in BOOLEAN /\ ValidateFull(d).wild \in BOOLEAN
<1> DEFINE Reached(p) == \A q \in 1..(p - 1) : FullAt(d, q).ok
           w == [p \in DOMAIN d |-> IF Reached(p) THEN FullAt(d, p).view ELSE d[p]]
<1>1. /\ ValidateFull(d).view = w
      /\ ValidateFull(d).ok = (\A p \in DOMAIN d : FullAt(d, p).ok)
      /\ ValidateFull(d).wild = (\E p \in DOMAIN d : Reached(p) /\ FullAt(d, p).wild)
  BY DEF ValidateFull, Visit
<1>2. \A p \in DOMAIN d : FullAt(d, p).view = d[p]
  BY FullLeaves
<1>3. w = d
  BY <1>2
<1> HIDE DEF w, Reached
<1> QED
  BY <1>1, <1>3

(* Products of naturals grow. *)
LEMMA TimesGrows ==
  ASSUME NEW m \in Nat, NEW n \in Nat, m <= n, NEW s \in Nat
  PROVE  m * s <= n * s
<1>1. n * s = m * s + (n - m) * s /\ (n - m) * s >= 0 /\ m * s \in Nat
  OBVIOUS
<1> QED
  BY <1>1

(* What has been checked of an array is what the accessors rely on.        *)
LEMMA SafeIs ==
  ASSUME NEW d, NEW a, IsArray(a), SizesFit(a), Fed(d, a), \A q \in DOMAIN d : Held(a, q), Mapped(d),
         NEW p \in DOMAIN d, Sound(d, a, p), NEW i \in 0..(a[p].length - 1)
  PROVE  Safe(d, a, p, i)
<1> DEFINE x == d[p]
           y == a[p]
           j == y.offset + i
           n == End(y)
<1>1. x.type = y.type /\ \A b : Kind(x, b) = Kind(y, b) /\ Bits(x, b) = Bits(y, b)
  <2>1. x.type = y.type
    BY DEF Fed
  <2> QED
    BY <2>1 DEF Kind, Bits
<1>2. Held(a, p) /\ p \in DOMAIN a
  BY DEF Fed
<1>3. /\ y.length \in Nat /\ y.offset \in Nat /\ y.type \in DOMAIN Layout /\ i \in 0..(y.length - 1)
      /\ n = y.offset + y.length
  BY <1>2 DEF Held, End
<1>4. \A b \in 1..3 : y.sizes[b] \in Nat
  BY <1>2 DEF IsArray
<1>5. /\ \A k \in 1..Len(y.kids) : Kid(a, p, k).length \in Int
      /\ DOMAIN y.kids = 1..Len(y.kids) /\ Len(y.kids) \in Nat /\ y.kids = x.kids
      /\ ChildrenSuffice(a, p)
  <2>1. y.kids = x.kids /\ DOMAIN x.kids = 1..Len(x.kids) /\ Len(x.kids) \in Nat
    BY FedSuffice
  <2> QED
    BY <1>2, <2>1, FedKid DEF Held
<1> HIDE DEF y, x
<1>6. n \in Nat /\ n > 0 /\ j \in Nat /\ j < n /\ j + 1 <= n
  BY <1>3
<1>7. Len(y.kids) = 1 => 1 \in 1..Len(y.kids)
  BY <1>5
<1> HIDE DEF n, j
<1>8. Kind(x, 1) = "validity" /\ y.sizes[1] # 0 => j \div 8 < y.sizes[1]
  <2> SUFFICES ASSUME Kind(x, 1) = "validity" /\ y.sizes[1] # 0 PROVE j \div 8 < y.sizes[1]
    OBVIOUS
  <2>1. 8 * y.sizes[1] >= n
    BY <1>1, <1>2 DEF Held, y, n
  <2>2. y.sizes[1] \in Int
    BY <1>4
  <2> QED
    BY <1>6, <2>1, <2>2, ByteOf
<1>9. Kind(x, 2) = "data" => Bits(x, 2) * (j + 1) <= 8 * y.sizes[2]
  <2> SUFFICES ASSUME Kind(x, 2) = "data" PROVE Bits(x, 2) * (j + 1) <= 8 * y.sizes[2]
    OBVIOUS
  <2>1. 8 * y.sizes[2] >= Bits(x, 2) * n
    BY <1>1, <1>2 DEF Held, y, n
  <2>2. y.sizes[2] \in Int /\ Bits(x, 2) \in {1, 16}
    BY <1>1, <1>3, <1>4, Laid
  <2> QED
    BY <1>6, <2>1, <2>2
<1>10. Kind(x, 2) = "data_offset" =>
         /\ {j, j + 1} \subseteq DOMAIN y.ints
         /\ 0 <= y.ints[j] /\ y.ints[j] <= y.ints[j + 1]
         /\ y.ints[j + 1] <= IF x.type = "list" THEN Kid(a, p, 1).length ELSE y.sizes[3]
  <2> SUFFICES ASSUME Kind(x, 2) = "data_offset"
               PROVE  /\ {j, j + 1} \subseteq DOMAIN y.ints
                      /\ 0 <= y.ints[j] /\ y.ints[j] <= y.ints[j + 1]
                      /\ y.ints[j + 1] <= IF x.type = "list" THEN Kid(a, p, 1).length ELSE y.sizes[3]
    OBVIOUS
  <2> DEFINE bound == IF y.type = "list" THEN Kid(a, p, 1).length ELSE y.sizes[3]
             f == y.ints
             o == y.offset
             m == y.length
  <2>1. /\ \A k \in 0..n : k \in DOMAIN f
        /\ \A k \in DOMAIN f : f[k] \in Int
        /\ f[o] >= 0 /\ f[n] <= bound
    BY <1>1, <1>2, <1>6 DEF Held, EndsInside, HoldsInts, y, n
  <2>2. \A k \in 1..m : f[o + k] >= f[o + (k - 1)]
    <3>1. \A k \in 1..y.length : GetInt(y, k) >= GetInt(y, k - 1)
      BY <1>1 DEF Sound, y
    <3> QED
      BY <3>1 DEF GetInt
  <2>3. bound \in Int
    <3>1. y.type = "list" => Len(y.kids) = 1
      BY <1>5 DEF ChildrenSuffice, y
    <3> QED
      BY <1>4, <1>5, <1>7, <3>1
  <2> HIDE DEF f, bound, o, m
  <2>4. o \in Nat /\ m \in Nat /\ n = o + m /\ i \in 0..(m - 1) /\ j = o + i
    BY <1>3 DEF o, m, j
  <2>5. \A k \in 0..m : o + k \in 0..n
    BY <2>4
  <2>6. \A k \in 0..m : f[o + k] \in Int
    BY <2>1, <2>5
  <2>7. \A k \in 0..m : f[o] <= f[o + k] /\ f[o + k] <= f[o + m]
    BY <2>2, <2>4, <2>6, Rising
  <2>8. i \in 0..m /\ i + 1 \in 0..m /\ i + 1 \in 1..m /\ (i + 1) - 1 = i /\ j + 1 = o + (i + 1) /\ 0 \in 0..m
    BY <2>4
  <2>9. f[j] \in Int /\ f[j + 1] \in Int /\ f[o] <= f[j] /\ f[j] <= f[j + 1] /\ f[j + 1] <= f[n]
    BY <2>2, <2>4, <2>6, <2>7, <2>8
  <2>10. f[o] \in Int /\ f[n] \in Int
    <3>1. o \in 0..n /\ n \in 0..n
      BY <2>4
    <3> QED
      BY <2>1, <3>1
  <2>11. 0 <= f[j] /\ f[j + 1] <= bound
    BY <2>1, <2>3, <2>9, <2>10
  <2>12. j \in DOMAIN f /\ j + 1 \in DOMAIN f
    BY <2>1, <2>4, <2>5, <2>8
  <2>13. x.type = y.type
    BY <1>1
  <2> QED
    BY <2>9, <2>11, <2>12, <2>13 DEF f, bound
<1>11. x.type \in {"struct", "sparse_union"} => \A k \in DOMAIN y.kids : j < Kid(a, p, k).length
  <2> SUFFICES ASSUME x.type \in {"struct", "sparse_union"}, NEW k \in DOMAIN y.kids
               PROVE  j < Kid(a, p, k).length
    OBVIOUS
  <2>1. Kid(a, p, k).length >= n
    BY <1>1, <1>5 DEF ChildrenSuffice, y, n
  <2>2. Kid(a, p, k).length \in Int
    BY <1>5
  <2> QED
    BY <1>6, <2>1, <2>2
<1>12. x.type = "fixed_size_list" => (j + 1) * ListSize <= Kid(a, p, 1).length
  <2> SUFFICES ASSUME x.type = "fixed_size_list" PROVE (j + 1) * ListSize <= Kid(a, p, 1).length
    OBVIOUS
  <2>1. Len(y.kids) = 1 /\ Kid(a, p, 1).length >= n * ListSize
    <3>1. InChild(n) = n * ListSize
      BY <1>1, <1>2 DEF SizesFit, y, n
    <3> QED
      BY <1>1, <1>5, <3>1 DEF ChildrenSuffice, y, n
  <2>2. Kid(a, p, 1).length \in Int
    BY <1>5, <1>7, <2>1
  <2>3. (j + 1) * ListSize <= n * ListSize /\ (j + 1) * ListSize \in Int /\ n * ListSize \in Int
    <3>1. ListSize \in Nat
      BY ViewAssumption DEF SizesFit
    <3> QED
      BY <1>6, <3>1, TimesGrows
  <2> QED
    BY <2>1, <2>2, <2>3
<1>13. x.type \in {"sparse_union", "dense_union"} => j \in DOMAIN y.types /\ y.types[j] \in ToSet(x.ids)
  BY <1>1 DEF Sound, x, y, j
<1>14. x.type = "dense_union" =>
         j \in DOMAIN y.ints /\ y.ints[j] \in 0..Kid(a, p, ChildIndex(x, y.types[j])).length
  <2> SUFFICES ASSUME x.type = "dense_union"
               PROVE  j \in DOMAIN y.ints /\ y.ints[j] \in 0..Kid(a, p, ChildIndex(x, y.types[j])).length
    OBVIOUS
  <2>1. Kind(y, 2) = "union_offset"
    BY <1>1, <1>3, Laid
  <2>2. (\A k \in 0..(n - 1) : k \in DOMAIN y.ints) /\ \A k \in DOMAIN y.ints : y.ints[k] \in Int
    BY <1>2, <2>1 DEF Held, HoldsInts, y, n
  <2>3. j \in DOMAIN y.ints /\ y.ints[j] \in Int
    BY <1>6, <2>2
  <2>4. y.ints[j] >= 0 /\ y.ints[j] <= Kid(a, p, ChildIndex(x, y.types[j])).length
    BY <1>1 DEF Sound, GetInt, x, y, j
  <2>5. Kid(a, p, ChildIndex(x, y.types[j])).length \in Int
    <3>1. x.ids # NoMap /\ y.types[j] \in ToSet(x.ids)
      BY <1>1 DEF Sound, x, y, j
    <3>2. ChildIndex(x, y.types[j]) \in 1..Len(x.kids)
      BY <3>1, ChildIndexIs DEF x
    <3> QED
      BY <1>5, <3>2
  <2> QED
    BY <2>3, <2>4, <2>5
<1>15. x.type = "run_end_encoded" /\ Kid(a, p, 1).length > 0 =>
         \E r \in 0..(Kid(a, p, 1).length - 1) : GetInt(Kid(a, p, 1), r) > j /\ r < Kid(a, p, 2).length
  <2> DEFINE e == Kid(a, p, 1)
             l == e.length
             r == l - 1
  <2> SUFFICES ASSUME x.type = "run_end_encoded" /\ l > 0
               PROVE  \E s \in 0..(l - 1) : GetInt(e, s) > j /\ s < Kid(a, p, 2).length
    OBVIOUS
  <2>1. Len(y.kids) = 2 /\ l <= Kid(a, p, 2).length /\ e.type = "int16"
    BY <1>1, <1>5 DEF ChildrenSuffice, y
  <2>2. 1 \in 1..Len(y.kids) /\ 2 \in 1..Len(y.kids)
    BY <2>1
  <2>3. l \in Int /\ Kid(a, p, 2).length \in Int
    BY <1>5, <2>2
  <2>4. GetInt(e, r) >= n
    BY <1>1, <1>2, <2>3 DEF Held, y, n
  <2>5. GetInt(e, r) \in Int
    <3> DEFINE q == y.kids[1]
    <3>1. e = a[q] /\ Held(a, q)
      <4>1. 1 \in 1..Len(d[p].kids)
        BY <1>5, <2>2 DEF x
      <4> QED
        BY <1>5, <4>1, FedKid DEF x
    <3> HIDE DEF q, e
    <3>2. Kind(e, 2) = "data" /\ HoldsInts(e)
      <4>1. e.type \in DOMAIN Layout
        BY <3>1 DEF Held
      <4> QED
        BY <2>1, <4>1, Laid DEF HoldsInts
    <3>3. /\ \A k \in 0..(End(e) - 1) : k \in DOMAIN e.ints
          /\ \A k \in DOMAIN e.ints : e.ints[k] \in Int
          /\ e.offset \in Int /\ e.offset >= 0
      BY <2>1, <3>1, <3>2 DEF Held
    <3>4. e.offset + r \in 0..(End(e) - 1)
      BY <2>3, <3>3 DEF End
    <3> QED
      BY <3>3, <3>4 DEF GetInt
  <2> HIDE DEF e
  <2>6. r \in 0..(l - 1) /\ GetInt(e, r) > j /\ r < Kid(a, p, 2).length
    BY <1>6, <2>1, <2>3, <2>4, <2>5
  <2> QED
    BY <2>6
<1> HIDE DEF Kid
<1> QED
  BY <1>8, <1>9, <1>10, <1>11, <1>12, <1>13, <1>14, <1>15 DEF Safe, x, y, j

(* Sizes that are assigned change nothing of what the array has. *)
LEMMA FedResized ==
  ASSUME NEW u, NEW d, NEW a, Fed(u, a), Mapped(u), ViewTree(d), Resized(d, u)
  PROVE  Fed(d, a) /\ Mapped(d)
<1>1. ASSUME NEW p \in DOMAIN u
      PROVE  /\ d[p].type = u[p].type /\ d[p].offset = u[p].offset /\ d[p].length = u[p].length
             /\ d[p].null_count = u[p].null_count /\ d[p].types = u[p].types /\ d[p].ints = u[p].ints
             /\ d[p].kids = u[p].kids /\ d[p].ids = u[p].ids
  <2>1. d[p] = Node(u[p], d[p].sizes)
    BY DEF Resized
  <2> QED
    BY <2>1, NodeIs
<1>2. DOMAIN d = DOMAIN u
  BY DEF Resized
<1> QED
  BY <1>1, <1>2 DEF Fed, Mapped

(* Nor of what is safe to read. *)
LEMMA SafeResized ==
  ASSUME NEW t, NEW d, NEW a, Resized(d, t), NEW p \in DOMAIN t, NEW i
  PROVE  Safe(d, a, p, i) = Safe(t, a, p, i)
<1>1. /\ d[p].type = t[p].type /\ d[p].ids = t[p].ids
  <2>1. d[p] = Node(t[p], d[p].sizes)
    BY DEF Resized
  <2> QED
    BY <2>1, NodeIs
<1>2. \A b : Kind(d[p], b) = Kind(t[p], b) /\ Bits(d[p], b) = Bits(t[p], b)
  BY <1>1 DEF Kind, Bits
<1>3. \A id : ChildIndex(d[p], id) = ChildIndex(t[p], id)
  BY <1>1 DEF ChildIndex
<1> QED
  BY <1>1, <1>2, <1>3 DEF Safe

(* What validation makes of a view, and of an array whose sizes fit int64: *)
(* no level reads where there is no room, whether the sizes are those of   *)
(* the array or unknown, and what is accepted at the highest one is safe   *)
(* to read.                                                                *)
LEMMA ValidationIs ==
  ASSUME NEW t, NEW a, Source(t, a), Mapped(t)
  PROVE  /\ \A level \in Minimal..Full :
              LET r == Validated(t, level) IN
                /\ r.wild \in BOOLEAN /\ r.ok \in BOOLEAN /\ (SizesFit(a) => r.wild = FALSE)
                /\ r.view \in {ValidateMinimal(t).view, ValidateDefault(t).view}
                /\ r.ok => ValidateMinimal(t).ok
                /\ level = Minimal => r.view = ValidateMinimal(t).view
                /\ level # Minimal => r.view = ValidateDefault(t).view
         /\ SizesFit(a) /\ Validated(t, Full).ok =>
              \A p \in DOMAIN t : \A i \in 0..(a[p].length - 1) : Safe(t, a, p, i)
         /\ ViewTree(ValidateDefault(t).view) /\ Resized(ValidateDefault(t).view, t)
<1> DEFINE m == ValidateMinimal(t)
           u == m.view
           e == ValidateDefault(t)
           d == e.view
           f == ValidateFull(d)
<1>1. Fed(t, a) /\ ViewTree(t) /\ IsArray(a)
  BY DEF Source, Fed
<1>2. m.wild = FALSE /\ m.ok \in BOOLEAN /\ ViewTree(u) /\ Resized(u, t)
  BY <1>1, MinimalTree
<1>3. /\ Validated(t, Minimal) = m /\ Validated(t, Default) = e
      /\ Validated(t, Full) = IF e.ok THEN f ELSE e
  BY DEF Validated, Then, None, Minimal, Default, Full
<1>4. CASE ~m.ok
  <2>1. e = m
    BY <1>4, DefaultIs
  <2>2. Validated(t, Full) = m
    BY <1>3, <1>4, <2>1
  <2>3. \A level \in Minimal..Full : Validated(t, level) = m
    BY <1>3, <2>1, <2>2 DEF Minimal, Default, Full
  <2> HIDE DEF m, e, f
  <2> QED
    BY <1>2, <1>4, <2>1, <2>2, <2>3 DEF m, e
<1>5. CASE m.ok
  <2>1. SizesFit(a) => Checked(u, a)
    <3>1. \A p \in DOMAIN t : Passes(t, p)
      BY <1>1, <1>5, MinimalTree
    <3> QED
      BY <1>5, <3>1, AmpleIs, CheckedIs
  <2>2. Fed(u, a) /\ Mapped(u) /\ Passed(u)
    <3>1. Fed(u, a) /\ Mapped(u)
      <4> HIDE DEF u
      <4> QED
        BY <1>1, <1>2, FedResized
    <3> QED
      BY <1>1, <1>5, <3>1, MinimalPassed
  <2>3. e = Defaulted(u)
    BY <1>5, DefaultIs
  <2> HIDE DEF u
  <2>4. /\ ViewTree(d) /\ Resized(d, u)
        /\ e.ok = (\A p \in DOMAIN u : DefaultAt(u, p).ok)
        /\ e.wild = (\E p \in DOMAIN u : Before(u, p) /\ DefaultAt(u, p).wild)
    <3> DEFINE g == Defaulted(u)
    <3>1. /\ ViewTree(g.view) /\ Resized(g.view, u)
          /\ g.ok = (\A p \in DOMAIN u : DefaultAt(u, p).ok)
          /\ g.wild = (\E p \in DOMAIN u : Before(u, p) /\ DefaultAt(u, p).wild)
      BY <1>2, <2>2, DefaultTree
    <3> HIDE DEF e, g
    <3>2. e = g
      BY <2>3 DEF g
    <3> QED
      BY <3>1, <3>2
  <2>5. e.wild \in BOOLEAN /\ (SizesFit(a) => e.wild = FALSE)
    <3> HIDE DEF e
    <3> QED
      BY <2>1, <2>4, DefaultTame
  <2>6. Fed(d, a) /\ Mapped(d) /\ DOMAIN d = DOMAIN t /\ DOMAIN u = DOMAIN t
    <3>1. Fed(d, a) /\ Mapped(d)
      <4> HIDE DEF d
      <4> QED
        BY <2>2, <2>4, FedResized
    <3>2. DOMAIN d = DOMAIN t /\ DOMAIN u = DOMAIN t
      BY <1>2, <2>4 DEF Resized
    <3> QED
      BY <3>1, <3>2
  <2>7. ViewTree(d) /\ Resized(d, t)
    <3>1. ASSUME NEW p \in DOMAIN t PROVE d[p] = Node(t[p], d[p].sizes)
      <4>1. u[p] = Node(t[p], u[p].sizes) /\ d[p] = Node(u[p], d[p].sizes)
        BY <1>2, <2>4, <2>6 DEF Resized
      <4> HIDE DEF d
      <4>2. \A g, h : Node(Node(t[p], g), h) = Node(t[p], h)
        BY DEF Node
      <4> QED
        BY <4>1, <4>2
    <3> QED
      BY <2>4, <2>6, <3>1 DEF Resized
  <2>8. f.wild \in BOOLEAN /\ f.ok \in BOOLEAN /\ f.view = d
    <3>1. d = [p \in DOMAIN d |-> d[p]]
      BY <2>4 DEF ViewTree
    <3> HIDE DEF d
    <3> QED
      BY <3>1, FullGives
  <2>9. ASSUME e.ok, SizesFit(a)
         PROVE  /\ f.wild = FALSE
                /\ f.ok => \A p \in DOMAIN t : \A i \in 0..(a[p].length - 1) : Safe(t, a, p, i)
    <3>1. \A q \in DOMAIN d : Held(a, q)
      BY <2>1, <2>4, <2>6, <2>9, HeldIs
    <3>2. ~f.wild /\ (f.ok => \A p \in DOMAIN d : Sound(d, a, p))
      <4> HIDE DEF d
      <4> QED
        BY <2>6, <2>9, <3>1, FullTree
    <3>3. ASSUME f.ok, NEW p \in DOMAIN t, NEW i \in 0..(a[p].length - 1) PROVE Safe(t, a, p, i)
      <4>1. p \in DOMAIN d /\ Sound(d, a, p)
        BY <2>6, <3>2, <3>3
      <4> HIDE DEF d
      <4>2. Safe(d, a, p, i)
        BY <1>1, <2>6, <2>9, <3>1, <4>1, SafeIs
      <4> QED
        BY <2>7, <4>2, SafeResized
    <3> HIDE DEF f, d, e
    <3> QED
      BY <2>8, <3>2, <3>3
  <2>10. e.ok \in BOOLEAN
    <3> HIDE DEF e
    <3> QED
      BY <2>4
  <2> HIDE DEF f, e, m
  <2>11. ASSUME NEW level \in Minimal..Full
         PROVE  LET r == Validated(t, level) IN
                  /\ r.wild \in BOOLEAN /\ r.ok \in BOOLEAN /\ (SizesFit(a) => r.wild = FALSE)
                  /\ r.view \in {u, d}
                  /\ level = Minimal => r.view = u
                  /\ level # Minimal => r.view = d
    <3>1. level = Minimal \/ level = Default \/ level = Full
      BY DEF Minimal, Default, Full
    <3>2. CASE level = Minimal
      BY <1>2, <1>3, <3>2 DEF u
    <3>3. CASE level = Default
      BY <1>3, <2>5, <2>10, <3>3 DEF Minimal, Default, d
    <3>4. CASE level = Full
      <4>1. CASE e.ok
        <5>1. Validated(t, level) = f /\ level # Minimal
          BY <1>3, <3>4, <4>1 DEF Minimal, Full
        <5>2. /\ f.wild \in BOOLEAN /\ f.ok \in BOOLEAN /\ f.view = d
              /\ SizesFit(a) => f.wild = FALSE
          BY <2>8, <2>9, <4>1
        <5> HIDE DEF d
        <5> QED
          BY <5>1, <5>2
      <4>2. CASE ~e.ok
        <5>1. Validated(t, level) = e /\ level # Minimal
          BY <1>3, <3>4, <4>2 DEF Minimal, Full
        <5>2. e.view = d
          OBVIOUS
        <5> QED
          BY <2>5, <2>10, <5>1, <5>2
      <4> QED
        BY <4>1, <4>2
    <3> QED
      BY <3>1, <3>2, <3>3, <3>4
  <2>12. SizesFit(a) /\ Validated(t, Full).ok =>
              \A p \in DOMAIN t : \A i \in 0..(a[p].length - 1) : Safe(t, a, p, i)
    BY <1>3, <2>9
  <2> QED
    BY <1>5, <2>7, <2>11, <2>12 DEF m, u, d, e
<1> QED
  BY <1>4, <1>5

(* Where views are filled in from.                                         *)
LEMMA KidsInside ==
  ASSUME NEW s, IsTree(s), NEW p \in DOMAIN s
  PROVE  s[p].kids \in Seq(DOMAIN s) /\ DOMAIN s = 1..Len(s) /\ Len(s) \in Nat
<1> DEFINE b == Below(s[p])
           n == Len(s[p].kids)
           D == DOMAIN s
<1>1. Under(s, p, b)
  BY BelowIs
<1> HIDE DEF b
<1> DEFINE m == Len(s[p].dict)
           l == Len(b)
<1>2. /\ s[p].kids \in Seq(Nat) /\ n \in Nat /\ l = n + m /\ m \in {0, 1}
      /\ \A k \in 1..n : b[k] = s[p].kids[k]
      /\ \A k \in 1..l : b[k] \in DOMAIN s
  BY <1>1, Zenon DEF Under
<1> HIDE DEF n, m, l
<1>3. \A k \in 1..n : k \in 1..l
  BY <1>2
<1>4. \A k \in 1..n : s[p].kids[k] \in D
  BY <1>2, <1>3
<1>5. DOMAIN s = 1..Len(s) /\ Len(s) \in Nat
  BY TreeIs
<1> DEFINE q == s[p].kids
<1>6. q \in Seq(Nat) /\ \A k \in 1..Len(q) : q[k] \in D
  BY <1>2, <1>4 DEF n
<1> HIDE DEF D, q
<1>7. q \in Seq(D)
  BY <1>6
<1> QED
  BY <1>5, <1>7 DEF q, D

(* A view that was filled in from an array that conforms. *)
LEMMA FilledIs ==
  ASSUME NEW s, NEW a, IsSchema(s), IsArray(a), TypesAgree(s, a), SameShape(s, a)
  PROVE  LET t == Filled(s, a) IN
           /\ Fed(t, a) /\ Mapped(t) /\ Blank(t, a) /\ Outline(t, s)
           /\ \A p \in DOMAIN s : t[p].type \in {"sparse_union", "dense_union"} => t[p].ids # NoMap
<1> DEFINE t == Filled(s, a)
<1>1. IsTree(s) /\ IsTree(a) /\ DOMAIN s = DOMAIN a
  BY DEF IsSchema, IsArray, SameShape
<1>2. \A p \in DOMAIN s : s[p].kids = a[p].kids
  BY <1>1, TreesAlike DEF SameShape, Branches
<1>3. /\ DOMAIN t = DOMAIN s /\ t = [p \in DOMAIN t |-> t[p]]
      /\ \A p \in DOMAIN s : t[p] = FilledNode(s[p], a[p])
  BY DEF Filled
<1> HIDE DEF t
<1>4. ASSUME NEW p \in DOMAIN s
      PROVE  /\ IsNode(t[p]) /\ t[p].kids \in Seq(DOMAIN t)
             /\ t[p].type = a[p].type /\ t[p].offset = a[p].offset /\ t[p].length = a[p].length
             /\ t[p].null_count = a[p].null_count /\ t[p].types = a[p].types /\ t[p].ints = a[p].ints
             /\ t[p].kids = a[p].kids /\ t[p].type = s[p].type /\ t[p].ids = s[p].ids
             /\ t[p].kids = s[p].kids /\ t[p].dict = s[p].dict /\ t[p].up = s[p].up
             /\ t[p].last = s[p].last
             /\ \A b \in 1..3 : t[p].sizes[b] =
                  IF Kind(t[p], b) = "none" \/ a[p].sizes[b] = 0 THEN 0 ELSE Unknown
             /\ t[p] = Node(t[p], t[p].sizes) /\ t[p].sizes = [b \in 1..3 |-> t[p].sizes[b]]
             /\ \A b \in 1..3 : Kind(s[p], b) = "none" => t[p].sizes[b] = 0
  <2> DEFINE x == s[p]
             y == a[p]
             z == t[p]
             f == [b \in 1..3 |-> IF Kind(x, b) = "none" \/ y.sizes[b] = 0 THEN 0 ELSE Unknown]
  <2>1. z = FilledNode(x, y)
    BY <1>3
  <2>2. x.kids \in Seq(DOMAIN t) /\ x.kids = y.kids /\ x.type = y.type
    BY <1>1, <1>2, <1>3, KidsInside DEF TypesAgree
  <2>3. /\ y.length \in Int /\ y.offset \in Int /\ y.null_count \in Int
        /\ HoldsInts(y) => \A i \in DOMAIN y.ints : y.ints[i] \in Int
    BY <1>1 DEF IsArray
  <2>4. x.type \in DOMAIN Layout
    BY DEF IsSchema
  <2> HIDE DEF x, y, z
  <2>5. /\ z.type = x.type /\ z.offset = y.offset /\ z.length = y.length
        /\ z.null_count = y.null_count /\ z.sizes = f
        /\ z.types = y.types /\ z.ints = y.ints /\ z.ids = x.ids
        /\ z.kids = x.kids /\ z.dict = x.dict /\ z.up = x.up /\ z.last = x.last
        /\ z = Node(z, z.sizes)
    BY <2>1 DEF FilledNode, Node
  <2>6. \A b : Kind(z, b) = Kind(x, b) /\ Kind(y, b) = Kind(x, b)
    BY <2>2, <2>5 DEF Kind
  <2>7. HoldsInts(z) = HoldsInts(y)
    BY <2>2, <2>5, <2>6 DEF HoldsInts
  <2>8. \A b \in 1..3 : /\ z.sizes[b] = IF Kind(z, b) = "none" \/ y.sizes[b] = 0 THEN 0 ELSE Unknown
                        /\ z.sizes[b] \in Int /\ (Kind(z, b) = "none" => z.sizes[b] = 0)
    BY <2>5, <2>6 DEF Unknown
  <2>9. z.sizes = [b \in 1..3 |-> z.sizes[b]]
    BY <2>5
  <2>10. IsNode(z)
    BY <2>2, <2>3, <2>4, <2>5, <2>7, <2>8, <2>9 DEF IsNode
  <2> HIDE DEF f
  <2> QED
    BY <2>2, <2>5, <2>6, <2>8, <2>9, <2>10 DEF x, y, z
<1>5. DOMAIN t = 1..Len(s) /\ Len(s) \in Nat /\ Len(t) = Len(s)
  <2>1. DOMAIN t = 1..Len(s) /\ Len(s) \in Nat
    BY <1>1, <1>3, TreeIs
  <2>2. t \in Seq({t[p] : p \in DOMAIN t})
    BY <1>3, <2>1
  <2> QED
    BY <2>1, <2>2
<1>6. ViewTree(t)
  BY <1>3, <1>4, <1>5 DEF ViewTree
<1>7. Fed(t, a)
  BY <1>1, <1>3, <1>4, <1>6 DEF Fed
<1>8. Blank(t, a)
  BY <1>3, <1>4 DEF Blank
<1>9. Outline(t, s)
  BY <1>3, <1>4 DEF Outline
<1>10. ASSUME NEW p \in DOMAIN s, t[p].type \in {"sparse_union", "dense_union"}
       PROVE  t[p].ids # NoMap /\ t[p].ids \in Seq(Nat) /\ Len(t[p].ids) = Len(t[p].kids)
  <2>1. t[p].ids \in Seq(Nat) /\ Len(t[p].ids) = Len(t[p].kids)
    BY <1>4, <1>10 DEF IsSchema
  <2>2. NoMap \notin Seq(Nat)
    BY DEF NoMap, Unknown
  <2> QED
    BY <2>1, <2>2
<1> QED
  BY <1>3, <1>7, <1>8, <1>9, <1>10 DEF Mapped, t

(* A view of an array that is being built. *)
LEMMA BuiltIs ==
  ASSUME NEW a, IsArray(a)
  PROVE  LET t == InitFromArray(a) IN Source(t, a) /\ Mapped(t) /\ Exact(t, a)
<1> DEFINE t == InitFromArray(a)
<1>1. IsTree(a)
  BY DEF IsArray
<1>2. DOMAIN t = DOMAIN a /\ t = [p \in DOMAIN t |-> t[p]]
  BY DEF InitFromArray
<1>3. ASSUME NEW p \in DOMAIN a
      PROVE  /\ IsNode(t[p]) /\ t[p].kids \in Seq(DOMAIN t)
             /\ t[p].type = a[p].type /\ t[p].offset = a[p].offset /\ t[p].length = a[p].length
             /\ t[p].null_count = a[p].null_count /\ t[p].types = a[p].types /\ t[p].ints = a[p].ints
             /\ t[p].kids = a[p].kids /\ t[p].ids = NoMap /\ t[p].sizes = a[p].sizes
  <2> DEFINE y == a[p]
             z == t[p]
  <2>1. z = [type |-> y.type, offset |-> y.offset, length |-> y.length,
             null_count |-> y.null_count, sizes |-> y.sizes, types |-> y.types,
             ints |-> y.ints, ids |-> NoMap,
             kids |-> y.kids, dict |-> y.dict, up |-> y.up, last |-> y.last]
    BY DEF InitFromArray
  <2>2. /\ y.length \in Int /\ y.offset \in Int /\ y.null_count \in Int /\ y.type \in DOMAIN Layout
        /\ HoldsInts(y) => \A i \in DOMAIN y.ints : y.ints[i] \in Int
        /\ y.sizes \in [1..3 -> Nat] /\ \A b \in 1..3 : Kind(y, b) = "none" => y.sizes[b] = 0
    BY DEF IsArray
  <2>3. y.kids \in Seq(DOMAIN t)
    BY <1>1, <1>2, KidsInside
  <2> HIDE DEF y, z
  <2>4. /\ z.type = y.type /\ z.offset = y.offset /\ z.length = y.length
        /\ z.null_count = y.null_count /\ z.sizes = y.sizes
        /\ z.types = y.types /\ z.ints = y.ints /\ z.ids = NoMap /\ z.kids = y.kids
        /\ z = Node(z, z.sizes)
    BY <2>1 DEF Node
  <2>5. \A b : Kind(z, b) = Kind(y, b)
    BY <2>4 DEF Kind
  <2>6. HoldsInts(z) = HoldsInts(y)
    BY <2>4, <2>5 DEF HoldsInts
  <2>7. IsNode(z)
    BY <2>2, <2>4, <2>5, <2>6 DEF IsNode
  <2> QED
    BY <2>3, <2>4, <2>7 DEF y, z
<1> HIDE DEF t
<1>4. DOMAIN t = 1..Len(a) /\ Len(a) \in Nat /\ Len(t) = Len(a)
  <2>1. DOMAIN t = 1..Len(a) /\ Len(a) \in Nat
    BY <1>1, <1>2, TreeIs
  <2>2. t \in Seq({t[p] : p \in DOMAIN t})
    BY <1>2, <2>1
  <2> QED
    BY <2>1, <2>2
<1>5. ViewTree(t)
  BY <1>2, <1>3, <1>4 DEF ViewTree
<1>6. Fed(t, a)
  BY <1>2, <1>3, <1>5 DEF Fed
<1>7. Exact(t, a) /\ Mapped(t)
  BY <1>2, <1>3 DEF Exact, Mapped
<1> QED
  BY <1>6, <1>7 DEF Source, t

(* What is asked of an array does not depend on the view's sizes.          *)
LEMMA SafeOutlined ==
  ASSUME NEW v, NEW s, NEW a, Outline(v, s), NEW p \in DOMAIN s, NEW i
  PROVE  Safe(v, a, p, i) = Safe(s, a, p, i)
<1>1. v[p].type = s[p].type /\ v[p].ids = s[p].ids
  BY DEF Outline
<1>2. \A b : Kind(v[p], b) = Kind(s[p], b) /\ Bits(v[p], b) = Bits(s[p], b)
  BY <1>1 DEF Kind, Bits
<1>3. \A id : ChildIndex(v[p], id) = ChildIndex(s[p], id)
  BY <1>1 DEF ChildIndex
<1> QED
  BY <1>1, <1>2, <1>3 DEF Safe

(* Well-formedness is asked of the array, not of the view. *)
LEMMA WellFormedOutlined ==
  ASSUME NEW v, NEW s, NEW a, Outline(v, s)
  PROVE  WellFormed(v, a) <=> WellFormed(s, a)
<1>1. DOMAIN v = DOMAIN s
      /\ \A p \in DOMAIN s : v[p].type = s[p].type /\ v[p].kids = s[p].kids /\ v[p].dict = s[p].dict
  BY DEF Outline
<1>2. SameShape(v, a) <=> SameShape(s, a)
  BY <1>1 DEF SameShape
<1>3. ASSUME DOMAIN s = DOMAIN a, NEW p \in DOMAIN a
      PROVE  WellFormedAt(v, a, p) <=> WellFormedAt(s, a, p)
  <2>1. \A i : Safe(v, a, p, i) = Safe(s, a, p, i)
    BY <1>3, SafeOutlined
  <2> QED
    BY <1>1, <1>3, <2>1 DEF WellFormedAt
<1> QED
  BY <1>2, <1>3 DEF WellFormed, SameShape

(* A well-formed array passes each level, its sizes not being known.       *)
LEMMA WellFormedPasses ==
  ASSUME NEW s, NEW a, IsSchema(s), IsArray(a), NEW t, Fed(t, a), Blank(t, a),
         NEW p \in DOMAIN t, p \in DOMAIN s, t[p].type = s[p].type, t[p].kids = s[p].kids,
         WellFormedAt(s, a, p)
  PROVE  Passes(t, p)
<1> DEFINE x == t[p]
           y == a[p]
<1>1. /\ x.type = y.type /\ x.offset = y.offset /\ x.length = y.length
      /\ x.null_count = y.null_count /\ p \in DOMAIN a
      /\ \A b : Kind(x, b) = Kind(y, b)
  <2>1. /\ x.type = y.type /\ x.offset = y.offset /\ x.length = y.length
        /\ x.null_count = y.null_count /\ p \in DOMAIN a
    BY DEF Fed
  <2> QED
    BY <2>1 DEF Kind
<1>2. \A b \in 1..3 : x.sizes[b] = IF Kind(x, b) = "none" \/ y.sizes[b] = 0 THEN 0 ELSE Unknown
  BY DEF Blank
<1>3. /\ y.type \in DOMAIN Layout /\ y.length \in Int /\ y.offset \in Int
  BY <1>1 DEF IsArray
<1>4. /\ y.length >= 0 /\ y.offset >= 0 /\ End(x) = End(y) /\ End(y) <= Int64Max
      /\ Kind(y, 1) = "validity" /\ y.sizes[1] = 0 => y.null_count = 0
      /\ \A b \in 1..2 : Kind(y, b) \notin {"none", "validity"} /\ End(y) > 0 => y.sizes[b] # 0
  <2>1. /\ y.length >= 0 /\ y.offset >= 0 /\ End(y) <= Int64Max
        /\ Kind(y, 1) = "validity" /\ y.sizes[1] = 0 => y.null_count = 0
        /\ \A b \in 1..2 : Kind(y, b) \notin {"none", "validity"} /\ End(y) > 0 => y.sizes[b] # 0
    BY DEF WellFormedAt
  <2> QED
    BY <1>1, <2>1 DEF End
<1>5. ChildrenSuffice(t, p)
  <2>1. ChildrenSuffice(t, p) = ChildrenSuffice(a, p) /\ y.kids = x.kids
        /\ \A k \in 1..Len(y.kids) : Kid(a, p, k).length \in Int
    BY FedSuffice, FedKid
  <2>2. /\ y.type \in {"list", "fixed_size_list"} => Len(y.kids) = 1
        /\ y.type = "run_end_encoded" => Len(y.kids) = 2
    BY <1>1, <2>1 DEF IsSchema
  <2>3. Len(y.kids) = 2 => 1 \in 1..Len(y.kids) /\ 2 \in 1..Len(y.kids)
    <3> DEFINE n == Len(y.kids)
    <3> HIDE DEF n
    <3>1. n = 2 => 1 \in 1..n /\ 2 \in 1..n
      OBVIOUS
    <3> QED
      BY <3>1 DEF n
  <2>4. y.type = "run_end_encoded" =>
          /\ Kid(a, p, 1).type = "int16" /\ Kid(a, p, 1).null_count = 0 /\ End(y) <= Int16Max
          /\ Kid(a, p, 1).length = Kid(a, p, 2).length
    BY DEF WellFormedAt
  <2>5. y.type = "run_end_encoded" => Kid(a, p, 1).length <= Kid(a, p, 2).length
    BY <2>1, <2>2, <2>3, <2>4
  <2>6. /\ y.type \in {"struct", "sparse_union"} => \A k \in DOMAIN y.kids : Kid(a, p, k).length >= End(y)
        /\ y.type = "fixed_size_list" => ListSize >= 0 /\ Kid(a, p, 1).length >= End(y) * ListSize
    BY DEF WellFormedAt
  <2>7. y.type = "fixed_size_list" => Kid(a, p, 1).length >= InChild(End(y))
    <3> SUFFICES ASSUME y.type = "fixed_size_list" PROVE Kid(a, p, 1).length >= InChild(End(y))
      OBVIOUS
    <3> DEFINE n == Len(y.kids)
               e == End(y)
    <3>1. n = 1 /\ e \in Nat /\ ListSize \in Nat
      BY <1>3, <1>4, <2>2, <2>6, ViewAssumption DEF End
    <3>2. Kid(a, p, 1).length \in Int
      BY <2>1, <3>1
    <3> HIDE DEF n, e
    <3>3. InChild(e) \in Int /\ InChild(e) <= e * ListSize
      BY <3>1, InChildIs
    <3> QED
      BY <2>6, <3>1, <3>2, <3>3 DEF e
  <2> QED
    BY <2>1, <2>2, <2>4, <2>5, <2>6, <2>7 DEF ChildrenSuffice
<1> HIDE DEF x, y
<1>6. End(y) \in Nat
  BY <1>3, <1>4 DEF End
<1>7. ASSUME NEW b \in 1..2 PROVE Fits(x, b)
  <2>1. Kind(x, b) = "none" \/ Kind(x, b) = "validity" \/ Kind(x, b) \notin {"none", "validity"}
    OBVIOUS
  <2>2. CASE Kind(x, b) = "none"
    BY <2>2 DEF Fits
  <2>3. CASE y.sizes[b] # 0 /\ Kind(x, b) # "none"
    <3>1. b \in 1..3
      OBVIOUS
    <3> QED
      BY <1>2, <2>3, <3>1 DEF Fits
  <2>4. CASE y.sizes[b] = 0 /\ Kind(x, b) = "validity"
    <3>1. b = 1 /\ b \in 1..3 /\ x.sizes[b] = 0
      BY <1>1, <1>2, <1>3, <2>4, Laid
    <3>2. x.null_count = 0
      BY <1>1, <1>4, <2>4, <3>1
    <3> QED
      BY <2>4, <3>1, <3>2 DEF Fits, Optional
  <2>5. CASE y.sizes[b] = 0 /\ Kind(x, b) \notin {"none", "validity"}
    <3>1. End(y) = 0
      BY <1>1, <1>4, <1>6, <2>5
    <3>2. b \in 1..3 /\ x.sizes[b] = 0
      BY <1>2, <2>5
    <3>3. MinSize(x, b, End(x)) = 0
      BY <1>1, <1>3, <1>4, <3>1, MinSizeIs
    <3> QED
      BY <3>2, <3>3 DEF Fits
  <2> QED
    BY <2>1, <2>2, <2>3, <2>4, <2>5
<1> QED
  BY <1>1, <1>4, <1>5, <1>7 DEF Passes, x

(* A well-formed array passes default validation. *)
LEMMA WellFormedDefault ==
  ASSUME NEW s, NEW a, IsArray(a), NEW u, Checked(u, a), NEW p \in DOMAIN u, WellFormedAt(s, a, p),
         \A b \in 2..3 : a[p].sizes[b] = 0 => u[p].sizes[b] = 0,
         u[p].sizes[3] \in {0, Unknown}, u[p].sizes[3] = 0 /\ Kind(a[p], 3) = "data" => a[p].sizes[3] = 0
  PROVE  DefaultAt(u, p).ok
<1> DEFINE x == u[p]
           y == a[p]
           last == GetInt(x, x.length)
<1>1. Fed(u, a) /\ Room(x, y) /\ Passes(u, p) /\ ~DefaultAt(u, p).wild
  BY DefaultTame DEF Checked, Passed
<1>2. /\ x.type = y.type /\ x.offset = y.offset /\ x.length = y.length /\ x.ints = y.ints
      /\ p \in DOMAIN a /\ \A b : Kind(x, b) = Kind(y, b)
  <2>1. /\ x.type = y.type /\ x.offset = y.offset /\ x.length = y.length /\ x.ints = y.ints
        /\ p \in DOMAIN a
    BY <1>1 DEF Fed
  <2> QED
    BY <2>1 DEF Kind
<1>3. /\ y.length \in Int /\ y.offset \in Int /\ y.type \in DOMAIN Layout
      /\ \A i : GetInt(x, i) = GetInt(y, i) /\ HasInt(x, i) = HasInt(y, i)
  BY <1>2, FedInts DEF IsArray
<1>4. CASE Kind(x, 2) = "data_offset"
  <2>1. DefaultAt(u, p) = LastOffset(u, p)
    <3>1. x.type # "run_end_encoded"
      <4> HIDE DEF x
      <4> QED
        BY <1>2, <1>3, <1>4, Laid
    <3> QED
      BY <1>4, <3>1 DEF DefaultAt
  <2>2. CASE x.sizes[2] = 0
    BY <2>1, <2>2 DEF LastOffset, OK
  <2>3. CASE x.sizes[2] # 0
    <3>1. HasInt(x, 0) /\ HasInt(x, x.length)
      <4> HIDE DEF x, y
      <4> QED
        BY <1>1, <1>2, <1>3, <1>4, <2>3 DEF Room, HasInt, End
    <3>2. /\ GetInt(x, 0) >= 0
          /\ last \in 0..(IF y.type = "list" THEN Kid(a, p, 1).length ELSE y.sizes[3])
      <4>1. y.sizes[2] # 0
        BY <2>3
      <4>2. /\ y.ints[y.offset] >= 0
            /\ y.ints[End(y)] \in 0..(IF y.type = "list" THEN Kid(a, p, 1).length ELSE y.sizes[3])
        BY <1>2, <1>4, <4>1 DEF WellFormedAt
      <4>3. y.offset + 0 = y.offset
        BY <1>3
      <4> QED
        BY <1>2, <4>2, <4>3 DEF GetInt, End
    <3>3. EndsNonNegative(x)
      BY <3>2 DEF EndsNonNegative
    <3>4. CASE x.type = "list"
      <4>1. Kid(u, p, 1).length = Kid(a, p, 1).length
        <5>1. Len(x.kids) = 1
          BY <1>1, <3>4 DEF Passes, ChildrenSuffice
        <5>2. 1 \in 1..Len(x.kids)
          BY <5>1
        <5> QED
          BY <1>1, <5>2, FedKid
      <4>2. Kid(u, p, 1).length >= last
        BY <1>2, <3>2, <3>4, <4>1
      <4>3. LastOffset(u, p) = Check(x, Kid(u, p, 1).length >= last)
        BY <2>3, <3>1, <3>3, <3>4 DEF LastOffset
      <4> QED
        BY <2>1, <4>2, <4>3 DEF Check, OK
    <3>5. CASE x.type # "list"
      <4>1. CASE x.sizes[3] = Unknown
        <5>1. LastOffset(u, p) = OK([x EXCEPT !.sizes[3] = last])
          BY <2>3, <3>1, <3>3, <3>5, <4>1 DEF LastOffset
        <5> QED
          BY <2>1, <5>1 DEF OK
      <4>2. CASE x.sizes[3] # Unknown
        <5>1. x.sizes[3] = 0
          BY <4>2
        <5>2. Kind(y, 3) = "data"
          <6> HIDE DEF x, y
          <6> QED
            BY <1>2, <1>3, <1>4, <3>5, Laid
        <5>3. last \in 0..0
          BY <1>2, <3>2, <3>5, <5>1, <5>2
        <5>4. x.sizes[3] >= last
          <6> HIDE DEF last, x
          <6> QED
            BY <5>1, <5>3
        <5>5. LastOffset(u, p) = Check(x, x.sizes[3] >= last)
          BY <2>3, <3>1, <3>3, <3>5, <4>2 DEF LastOffset
        <5> QED
          BY <2>1, <5>4, <5>5 DEF Check, OK
      <4> QED
        BY <4>1, <4>2
    <3> QED
      BY <3>4, <3>5
  <2> QED
    BY <2>2, <2>3
<1>5. CASE Kind(x, 2) # "data_offset" /\ x.type = "run_end_encoded"
  <2>1. DefaultAt(u, p) = LastRunEnd(u, p)
    BY <1>5 DEF DefaultAt
  <2> DEFINE ends == Kid(u, p, 1)
             e == Kid(a, p, 1)
  <2>2. /\ ends.length = e.length /\ ends.offset = e.offset /\ ends.ints = e.ints
        /\ ends.length \in Int /\ ends.type = "int16"
        /\ \E q \in DOMAIN u : ends = u[q] /\ Room(u[q], a[q]) /\ e = a[q]
    <3>1. Len(x.kids) = 2 /\ ends.type = "int16"
      BY <1>1, <1>5 DEF Passes, ChildrenSuffice
    <3>2. 1 \in 1..Len(x.kids)
      BY <3>1
    <3> QED
      BY <1>1, <3>1, <3>2, FedKid DEF Checked
  <2>3. \A i : GetInt(ends, i) = GetInt(e, i) /\ HasInt(ends, i) = HasInt(e, i)
    BY <2>2, FedInts
  <2>4. e.length > 0 => GetInt(e, 0) > 0 /\ GetInt(e, e.length - 1) >= End(y)
    BY <1>2, <1>5 DEF WellFormedAt
  <2>5. CASE ends.length = 0
    BY <2>1, <2>5 DEF LastRunEnd, OK
  <2>6. CASE ends.length # 0
    <3> HIDE DEF x, y, ends
    <3>1. PICK q \in DOMAIN u : ends = u[q] /\ Room(ends, a[q]) /\ e = a[q]
      BY <2>2
    <3>2. HasInt(ends, 0) /\ HasInt(ends, ends.length - 1) /\ ends.length > 0
      BY <2>2, <2>6, <3>1 DEF Room, HasInt, End
    <3>3. GetInt(ends, 0) \in Int
      <4>1. Kind(ends, 2) = "data" /\ HoldsInts(ends)
        BY <2>2, <3>1, Laid DEF Room, HoldsInts
      <4> QED
        BY <2>2, <3>1, <3>2, <4>1 DEF Room, HasInt, GetInt
    <3>4. e.length > 0
      BY <2>2, <3>2
    <3>5. GetInt(ends, 0) >= 1 /\ GetInt(ends, ends.length - 1) >= End(x)
      <4>1. GetInt(ends, 0) > 0 /\ GetInt(ends, ends.length - 1) >= End(y)
        BY <2>2, <2>3, <2>4, <3>4
      <4> QED
        BY <1>2, <3>3, <4>1 DEF End
    <3>6. LastRunEnd(u, p) = Check(u[p], GetInt(ends, 0) >= 1 /\ Covers(u[p], GetInt(ends, ends.length - 1)))
      BY <2>6, <3>2 DEF LastRunEnd, ends
    <3> QED
      BY <2>1, <3>5, <3>6 DEF Check, OK, Covers, x
  <2> QED
    BY <2>5, <2>6
<1>6. CASE Kind(x, 2) # "data_offset" /\ x.type # "run_end_encoded"
  <2>1. DefaultAt(u, p) = Check(x, x.type = "struct" => ChildrenSuffice(u, p))
    BY <1>6 DEF DefaultAt
  <2> QED
    BY <1>1, <2>1 DEF Passes, Check, OK
<1> QED
  BY <1>4, <1>5, <1>6

(* A well-formed array passes full validation. *)
LEMMA WellFormedSound ==
  ASSUME NEW s, NEW a, IsArray(a), NEW p \in DOMAIN a, WellFormedAt(s, a, p),
         s[p].type = a[p].type,
         a[p].type \in {"sparse_union", "dense_union"} => s[p].ids # NoMap,
         NEW d, d[p].ids = s[p].ids, d[p].type = s[p].type
  PROVE  Sound(d, a, p)
<1> DEFINE y == a[p]
           ends == Kid(a, p, 1)
<1>1. /\ y.type \in DOMAIN Layout /\ y.length \in Int /\ y.offset \in Int
      /\ \A b : Kind(s[p], b) = Kind(y, b)
  BY DEF IsArray, Kind
<1>2. \A i \in 0..(y.length - 1) : Safe(s, a, p, i)
  BY DEF WellFormedAt
<1>3. ASSUME Kind(y, 2) = "data_offset", NEW i \in 1..y.length
      PROVE  GetInt(y, i) >= GetInt(y, i - 1)
  <2>1. /\ i - 1 \in 0..(y.length - 1) /\ y.offset + (i - 1) + 1 = y.offset + i
        /\ y.offset + (i - 1) \in Int
    BY <1>1
  <2>2. Safe(s, a, p, i - 1)
    BY <1>2, <2>1
  <2>3. /\ {y.offset + (i - 1), y.offset + i} \subseteq DOMAIN y.ints
        /\ y.ints[y.offset + (i - 1)] <= y.ints[y.offset + i]
    BY <1>1, <1>3, <2>1, <2>2 DEF Safe
  <2>4. HoldsInts(y) /\ \A j \in DOMAIN y.ints : y.ints[j] \in Int
    BY <1>3 DEF IsArray, HoldsInts
  <2> QED
    BY <2>3, <2>4 DEF GetInt
<1>4. ASSUME y.type \in {"sparse_union", "dense_union"}
      PROVE  /\ d[p].ids # NoMap
             /\ \A i \in 0..(y.length - 1) : /\ y.offset + i \in DOMAIN y.types
                                             /\ y.types[y.offset + i] \in ToSet(d[p].ids)
  BY <1>2, <1>4 DEF Safe
<1>5. ASSUME y.type = "dense_union", NEW i \in 0..(y.length - 1)
      PROVE  /\ GetInt(y, i) >= 0
             /\ GetInt(y, i) <= Kid(a, p, ChildIndex(d[p], y.types[y.offset + i])).length
  <2>1. Safe(s, a, p, i)
    BY <1>2
  <2>2. ChildIndex(d[p], y.types[y.offset + i]) = ChildIndex(s[p], y.types[y.offset + i])
    BY DEF ChildIndex
  <2>3. GetInt(y, i) \in 0..Kid(a, p, ChildIndex(s[p], y.types[y.offset + i])).length
    BY <1>5, <2>1 DEF Safe, GetInt
  <2> QED
    BY <2>2, <2>3
<1>6. ASSUME y.type = "run_end_encoded"
      PROVE  \A i \in 1..(ends.length - 1) : GetInt(ends, i) > GetInt(ends, i - 1)
  BY <1>6 DEF WellFormedAt
<1> QED
  BY <1>3, <1>4, <1>5, <1>6 DEF Sound

(* The buffers of a well-formed array are long enough. *)
LEMMA WellFormedAmple ==
  ASSUME NEW s, NEW a, IsArray(a), Conforms(a), \A p \in DOMAIN a : WellFormedAt(s, a, p)
  PROVE  Ample(a)
<1> SUFFICES ASSUME NEW p \in DOMAIN a, NEW b \in 1..2, Kind(a[p], b) # "none"
             PROVE  /\ a[p].sizes[b] # 0 => a[p].sizes[b] >= Needed(a[p], b, End(a[p]))
                    /\ Kind(a[p], b) # "validity" => a[p].sizes[b] >= Needed(a[p], b, End(a[p]))
  BY DEF Ample
<1> DEFINE y == a[p]
<1>1. y.sizes[b] # 0 => y.sizes[b] >= Needed(y, b, End(y))
  BY DEF Conforms
<1>2. ASSUME Kind(y, b) # "validity", y.sizes[b] = 0 PROVE y.sizes[b] >= Needed(y, b, End(y))
  <2>1. /\ y.length >= 0 /\ y.offset >= 0 /\ y.length \in Int /\ y.offset \in Int
        /\ y.type \in DOMAIN Layout
    BY DEF WellFormedAt, IsArray
  <2>2. ~(End(y) > 0)
    BY <1>2 DEF WellFormedAt
  <2> HIDE DEF y
  <2>3. Needed(y, b, End(y)) = 0
    BY <2>1, <2>2, NeededIs DEF End
  <2> QED
    BY <1>2, <2>3
<1> QED
  BY <1>1, <1>2

(* No level rejects a well-formed array. *)
LEMMA WellFormedAccepted ==
  ASSUME NEW s, NEW a, IsSchema(s), IsArray(a), TypesAgree(s, a), Conforms(a), WellFormed(s, a)
  PROVE  /\ SameShape(s, a) /\ \A p \in DOMAIN s : Buffers(s[p]) = a[p].n_buffers
         /\ \A level \in Minimal..Full : Validated(Filled(s, a), level).ok
<1> DEFINE t == Filled(s, a)
           m == ValidateMinimal(t)
           u == m.view
           e == ValidateDefault(t)
           d == e.view
           f == ValidateFull(d)
<1>1. /\ SameShape(s, a) /\ DOMAIN s = DOMAIN a /\ \A p \in DOMAIN s : s[p].type = a[p].type
      /\ \A p \in DOMAIN a : WellFormedAt(s, a, p)
  BY DEF WellFormed, SameShape, TypesAgree
<1>2. \A p \in DOMAIN s : Buffers(s[p]) = a[p].n_buffers
  <2> SUFFICES ASSUME NEW p \in DOMAIN s PROVE Buffers(s[p]) = a[p].n_buffers
    OBVIOUS
  <2>1. s[p].type = a[p].type /\ a[p].n_buffers = Buffers(a[p])
    BY <1>1 DEF WellFormedAt
  <2>2. \A b : Kind(s[p], b) = Kind(a[p], b)
    BY <2>1 DEF Kind
  <2> QED
    BY <2>1, <2>2 DEF Buffers
<1>3. /\ Fed(t, a) /\ Mapped(t) /\ Blank(t, a) /\ Outline(t, s)
      /\ \A p \in DOMAIN s : t[p].type \in {"sparse_union", "dense_union"} => t[p].ids # NoMap
  BY <1>1, FilledIs
<1>4. Source(t, a) /\ ViewTree(t) /\ DOMAIN t = DOMAIN s
  BY <1>3 DEF Source, Fed, Outline
<1> HIDE DEF t
<1>5. \A p \in DOMAIN t : /\ t[p].type = s[p].type /\ t[p].kids = s[p].kids
                          /\ t[p].ids = s[p].ids
  BY <1>3, <1>4 DEF Outline
<1>6. \A p \in DOMAIN t : Passes(t, p)
  BY <1>1, <1>3, <1>4, <1>5, WellFormedPasses
<1>7. m.ok /\ u = [p \in DOMAIN t |-> Node(t[p], Assigned(t[p]))] /\ ViewTree(u) /\ Resized(u, t)
  BY <1>4, <1>6, MinimalTree
<1>8. Checked(u, a) /\ Passed(u)
  BY <1>1, <1>4, <1>7, WellFormedAmple, CheckedIs DEF Checked
<1>9. e = Defaulted(u)
  BY <1>7, DefaultIs
<1>10. Validated(t, Minimal) = m /\ Validated(t, Default) = e
       /\ Validated(t, Full) = IF e.ok THEN f ELSE e
  BY DEF Validated, Then, None, Minimal, Default, Full
<1>11. DOMAIN u = DOMAIN t
  BY <1>7 DEF Resized
<1> HIDE DEF m, u
<1>12. ASSUME NEW p \in DOMAIN u PROVE DefaultAt(u, p).ok
  <2> DEFINE x == t[p]
             y == a[p]
  <2>1. /\ p \in DOMAIN t /\ u[p].sizes = Assigned(x) /\ x.type = y.type /\ y.type \in DOMAIN Layout
        /\ \A b : Kind(x, b) = Kind(y, b)
    <3>1. p \in DOMAIN t /\ u[p] = Node(x, Assigned(x)) /\ x.type = y.type /\ y.type \in DOMAIN Layout
      BY <1>1, <1>4, <1>5, <1>7, <1>11 DEF IsArray
    <3>2. u[p].sizes = Assigned(x)
      BY <3>1, NodeIs
    <3> QED
      BY <3>1, <3>2 DEF Kind
  <2>2. \A b \in 1..3 : x.sizes[b] = IF Kind(x, b) = "none" \/ y.sizes[b] = 0 THEN 0 ELSE Unknown
    BY <1>3, <2>1 DEF Blank
  <2> HIDE DEF x, y
  <2>3. \A b \in 1..3 : u[p].sizes[b] = IF b # 3 /\ Kind(x, b) # "none" /\ x.sizes[b] = Unknown
                                        THEN MinSize(x, b, End(x)) ELSE x.sizes[b]
    BY <2>1 DEF Assigned
  <2>4. \A b \in 2..3 : y.sizes[b] = 0 => u[p].sizes[b] = 0
    BY <2>2, <2>3 DEF Unknown
  <2>5. u[p].sizes[3] \in {0, Unknown} /\ (u[p].sizes[3] = 0 /\ Kind(y, 3) = "data" => y.sizes[3] = 0)
    BY <2>1, <2>2, <2>3 DEF Unknown
  <2> QED
    BY <1>1, <1>4, <1>8, <2>1, <2>4, <2>5, WellFormedDefault DEF y
<1>13. e.ok /\ ViewTree(d) /\ Resized(d, u)
  <2> DEFINE g == Defaulted(u)
  <2>1. /\ ViewTree(g.view) /\ Resized(g.view, u)
        /\ g.ok = (\A p \in DOMAIN u : DefaultAt(u, p).ok)
    BY <1>7, <1>8, DefaultTree DEF u
  <2>2. g.ok
    BY <1>12, <2>1
  <2> HIDE DEF g, e
  <2>3. e = g
    BY <1>9 DEF g
  <2> QED
    BY <2>1, <2>2, <2>3
<1> HIDE DEF d, e, f
<1>14. Fed(d, a) /\ Mapped(d) /\ DOMAIN d = DOMAIN t
  <2>1. Fed(u, a) /\ Mapped(u)
    BY <1>3, <1>7, FedResized DEF u
  <2> QED
    BY <1>11, <1>13, <2>1, FedResized DEF Resized
<1>15. \A q \in DOMAIN d : Held(a, q)
  <2> SUFFICES ASSUME NEW q \in DOMAIN d PROVE Held(a, q)
    OBVIOUS
  <2>1. q \in DOMAIN u /\ q \in DOMAIN a
    BY <1>1, <1>4, <1>11, <1>14
  <2>2. EndsInside(a, q)
    <3> DEFINE y == a[q]
    <3> SUFFICES ASSUME Kind(y, 2) = "data_offset", End(y) > 0
                 PROVE  /\ y.ints[y.offset] >= 0
                        /\ y.ints[End(y)] <= IF y.type = "list" THEN Kid(a, q, 1).length ELSE y.sizes[3]
      BY DEF EndsInside
    <3>1. WellFormedAt(s, a, q)
      BY <1>1, <2>1
    <3>2. y.sizes[2] # 0
      BY <3>1 DEF WellFormedAt
    <3>3. /\ y.ints[y.offset] >= 0
          /\ y.ints[End(y)] \in 0..(IF y.type = "list" THEN Kid(a, q, 1).length ELSE y.sizes[3])
      BY <3>1, <3>2 DEF WellFormedAt
    <3> HIDE DEF y
    <3> QED
      BY <3>3
  <2> QED
    BY <1>8, <1>12, <2>1, <2>2, HeldIs
<1>16. ASSUME NEW p \in DOMAIN d PROVE Sound(d, a, p)
  <2>1. d[p].type = s[p].type /\ d[p].ids = s[p].ids /\ p \in DOMAIN a /\ p \in DOMAIN s
    <3>1. /\ p \in DOMAIN t /\ p \in DOMAIN u /\ p \in DOMAIN s
          /\ u[p] = Node(t[p], u[p].sizes) /\ d[p] = Node(u[p], d[p].sizes)
      BY <1>4, <1>7, <1>11, <1>13, <1>14 DEF Resized, u
    <3>2. d[p].type = t[p].type /\ d[p].ids = t[p].ids
      BY <3>1, NodeIs
    <3> QED
      BY <1>1, <1>5, <3>1, <3>2
  <2>2. a[p].type \in {"sparse_union", "dense_union"} => s[p].ids # NoMap
    BY <1>1, <1>3, <1>4, <1>5, <2>1
  <2> QED
    BY <1>1, <2>1, <2>2, WellFormedSound
<1>17. f.ok
  <2>1. (\A p \in DOMAIN d : Sound(d, a, p)) => f.ok
    BY <1>14, <1>15, FullTree DEF f
  <2> QED
    BY <1>16, <2>1
<1>18. \A level \in Minimal..Full : Validated(t, level).ok
  <2>1. m.ok
    BY <1>7 DEF m
  <2>2. \A level \in Minimal..Full : level = Minimal \/ level = Default \/ level = Full
    BY DEF Minimal, Default, Full
  <2> QED
    BY <1>10, <1>13, <1>17, <2>1, <2>2
<1> QED
  BY <1>1, <1>2, <1>18 DEF t

(* The lengths that ArrowArrayViewSetLength hands down: the recursion ends *)
(* since each node comes after the node above it.                          *)
AskedRule(t, n, f, p) == f[p] = IF p = 1 THEN n ELSE HandedDown(t[t[p].up], p, f[t[p].up])

LEMMA AskedExists ==
  ASSUME NEW t, NEW n, NEW N \in Nat, \A p \in 2..N : t[p].up \in 1..(p - 1)
  PROVE  \E f : /\ f = [p \in 1..N |-> f[p]]
                /\ \A p \in 1..N : AskedRule(t, n, f, p)
<1> DEFINE Good(k) == k <= N => \E f : f = [p \in 1..k |-> f[p]] /\ \A p \in 1..k : AskedRule(t, n, f, p)
           T == {k \in Nat : Good(k)}
<1>1. 0 \in T
  <2> DEFINE f == [p \in 1..0 |-> 0]
  <2>1. f = [p \in 1..0 |-> f[p]] /\ \A p \in 1..0 : AskedRule(t, n, f, p)
    OBVIOUS
  <2> HIDE DEF f
  <2>2. Good(0)
    BY <2>1
  <2> QED
    BY <2>2
<1>2. ASSUME NEW k \in T PROVE k + 1 \in T
  <2> SUFFICES ASSUME k + 1 <= N
               PROVE  \E f : f = [p \in 1..(k + 1) |-> f[p]] /\ \A p \in 1..(k + 1) : AskedRule(t, n, f, p)
    OBVIOUS
  <2>1. PICK g : g = [p \in 1..k |-> g[p]] /\ \A p \in 1..k : AskedRule(t, n, g, p)
    OBVIOUS
  <2> DEFINE new == IF k + 1 = 1 THEN n ELSE HandedDown(t[t[k + 1].up], k + 1, g[t[k + 1].up])
             f == [p \in 1..(k + 1) |-> IF p = k + 1 THEN new ELSE g[p]]
  <2>2. k \in Nat /\ k + 1 \in 1..(k + 1) /\ k + 1 \in 1..N /\ \A p \in 1..k : p \in 1..(k + 1) /\ p # k + 1
    OBVIOUS
  <2> HIDE DEF T
  <2>3. \A p \in 1..k : f[p] = g[p]
    BY <2>2
  <2>4. f[k + 1] = new
    BY <2>2
  <2>5. f = [p \in 1..(k + 1) |-> f[p]]
    OBVIOUS
  <2> HIDE DEF f
  <2>6. ASSUME NEW p \in 1..(k + 1) PROVE AskedRule(t, n, f, p)
    <3>1. p # 1 => t[p].up \in 1..(p - 1) /\ t[p].up \in 1..k
      <4>1. p # 1 => p \in 2..N
        BY <2>2, <2>6
      <4> QED
        BY <2>2, <4>1
    <3>2. p # 1 => f[t[p].up] = g[t[p].up]
      BY <2>3, <3>1
    <3>3. CASE p = k + 1
      BY <2>4, <3>2, <3>3 DEF AskedRule
    <3>4. CASE p # k + 1
      <4>1. p \in 1..k
        BY <2>2, <3>4
      <4>2. f[p] = g[p] /\ AskedRule(t, n, g, p)
        BY <2>1, <2>3, <4>1
      <4> QED
        BY <3>2, <4>2 DEF AskedRule
    <3> QED
      BY <3>3, <3>4
  <2> QED
    BY <2>5, <2>6
<1>3. N \in T
  <2> HIDE DEF T
  <2>1. T \subseteq Nat
    BY DEF T
  <2> QED
    BY <1>1, <1>2, <2>1, NatInduct
<1> QED
  BY <1>3

(* The lengths follow their rule at every node. *)
LEMMA AskedIs ==
  ASSUME NEW t, NEW n \in Int64s, NEW N \in Nat, DOMAIN t = 1..N, \A p \in 2..N : t[p].up \in 1..(p - 1)
  PROVE  LET f == AskedLengths(t, n) IN
           /\ \A p \in 1..N : AskedRule(t, n, f, p)
           /\ \A p \in 1..N : f[p] \in Int64s \cup {NotAsked}
<1> DEFINE Body(f) == [p \in DOMAIN t |-> IF p = 1 THEN n ELSE HandedDown(t[t[p].up], p, f[t[p].up])]
           f == AskedLengths(t, n)
<1>1. f = CHOOSE g : g = Body(g)
  BY DEF AskedLengths
<1>2. PICK g : g = [p \in 1..N |-> g[p]] /\ \A p \in 1..N : AskedRule(t, n, g, p)
  BY AskedExists
<1>3. g = Body(g)
  BY <1>2 DEF AskedRule
<1>4. f = Body(f)
  <2> HIDE DEF Body
  <2> QED
    BY <1>1, <1>3
<1> HIDE DEF f
<1>5. \A p \in 1..N : AskedRule(t, n, f, p)
  <2> SUFFICES ASSUME NEW p \in 1..N PROVE AskedRule(t, n, f, p)
    OBVIOUS
  <2> DEFINE h == Body(f)
  <2>1. h[p] = IF p = 1 THEN n ELSE HandedDown(t[t[p].up], p, f[t[p].up])
    OBVIOUS
  <2> HIDE DEF h
  <2>2. f = h
    BY <1>4 DEF h
  <2> QED
    BY <2>1, <2>2 DEF AskedRule
<1> DEFINE T == {k \in Nat : \A p \in 1..N : p <= k => f[p] \in Int64s \cup {NotAsked}}
<1>6. 0 \in T
  OBVIOUS
<1>7. ASSUME NEW k \in T PROVE k + 1 \in T
  <2> SUFFICES ASSUME NEW p \in 1..N, p <= k + 1 PROVE f[p] \in Int64s \cup {NotAsked}
    OBVIOUS
  <2>1. CASE p = 1
    BY <1>5, <2>1 DEF AskedRule
  <2>2. CASE p # 1
    <3>1. t[p].up \in 1..(p - 1)
      <4>1. p \in 2..N
        BY <2>2
      <4> QED
        BY <4>1
    <3>2. t[p].up \in 1..N /\ t[p].up <= k
      BY <3>1
    <3>3. f[t[p].up] \in Int64s \cup {NotAsked}
      BY <3>2
    <3>4. f[p] = HandedDown(t[t[p].up], p, f[t[p].up])
      BY <1>5, <2>2 DEF AskedRule
    <3>5. f[t[p].up] \in Int64s => InChild(f[t[p].up]) \in Int64s
      <4>1. \A l \in Int64s : l \in Int
        BY ViewAssumption DEF Int64s
      <4> QED
        BY <4>1, InChildIs
    <3> QED
      BY <3>3, <3>4, <3>5 DEF HandedDown, ChildLength
  <2> QED
    BY <2>1, <2>2
<1>8. N \in T
  <2>1. T \subseteq Nat
    OBVIOUS
  <2> HIDE DEF T
  <2> QED
    BY <1>6, <1>7, <2>1, NatInduct
<1>9. \A p \in 1..N : p <= N
  OBVIOUS
<1> QED
  BY <1>5, <1>8, <1>9 DEF f

(* Resizing a tree changes none of the lengths. *)
LEMMA AskedSame ==
  ASSUME NEW t, NEW u, NEW n \in Int64s, NEW N \in Nat, DOMAIN t = 1..N, DOMAIN u = 1..N,
         \A p \in 2..N : t[p].up \in 1..(p - 1),
         \A p \in 1..N : u[p].up = t[p].up /\ u[p].type = t[p].type /\ u[p].kids = t[p].kids
  PROVE  \A p \in 1..N : AskedLengths(u, n)[p] = AskedLengths(t, n)[p]
<1> DEFINE f == AskedLengths(t, n)
           g == AskedLengths(u, n)
           T == {k \in Nat : \A p \in 1..N : p <= k => g[p] = f[p]}
<1>1. \A p \in 2..N : p \in 1..N /\ u[p].up \in 1..(p - 1)
  OBVIOUS
<1>2. \A p \in 1..N : AskedRule(t, n, f, p) /\ AskedRule(u, n, g, p)
  BY <1>1, AskedIs
<1> HIDE DEF f, g
<1>3. 0 \in T
  OBVIOUS
<1>4. ASSUME NEW k \in T PROVE k + 1 \in T
  <2> SUFFICES ASSUME NEW p \in 1..N, p <= k + 1 PROVE g[p] = f[p]
    OBVIOUS
  <2>1. CASE p = 1
    BY <1>2, <2>1 DEF AskedRule
  <2>2. CASE p # 1
    <3> DEFINE q == t[p].up
    <3>1. q \in 1..(p - 1) /\ u[p].up = q
      <4>1. p \in 2..N
        BY <2>2
      <4> QED
        BY <4>1
    <3> HIDE DEF q
    <3>2. q \in 1..N /\ q <= k
      BY <3>1
    <3>3. f[q] = g[q] /\ u[q].type = t[q].type /\ u[q].kids = t[q].kids
      BY <3>2
    <3>4. f[p] = HandedDown(t[q], p, f[q]) /\ g[p] = HandedDown(u[q], p, g[q])
      BY <1>2, <2>2, <3>1 DEF AskedRule, q
    <3> QED
      BY <3>3, <3>4 DEF HandedDown, Follows, ChildLength
  <2> QED
    BY <2>1, <2>2
<1>5. N \in T
  <2>1. T \subseteq Nat
    OBVIOUS
  <2> HIDE DEF T
  <2> QED
    BY <1>3, <1>4, <2>1, NatInduct
<1>6. \A p \in 1..N : p <= N
  OBVIOUS
<1> QED
  BY <1>5, <1>6 DEF f, g

(* A view for a schema, and what ArrowArrayViewSetLength makes of it.      *)
LEMMA ViewForIs ==
  ASSUME NEW s, IsSchema(s), NEW size \in Nat \cup {Unknown}
  PROVE  LET w == ViewFor(s, size) IN
           /\ Outline(w, s)
           /\ \A p \in DOMAIN s : /\ w[p].length = 0 /\ w[p].offset = 0 /\ w[p].null_count = 0
                                  /\ w[p].types = <<>> /\ w[p].ints = <<>>
                                  /\ \A b \in 1..3 : w[p].sizes[b] = IF Kind(s[p], b) = "none" THEN 0 ELSE size
<1> DEFINE w == ViewFor(s, size)
<1>1. /\ DOMAIN w = DOMAIN s /\ w = [p \in DOMAIN s |-> w[p]]
      /\ \A p \in DOMAIN s : w[p] =
          [type |-> s[p].type, offset |-> 0, length |-> 0, null_count |-> 0,
           sizes |-> [b \in 1..3 |-> IF Kind(s[p], b) = "none" THEN 0 ELSE size],
           types |-> <<>>, ints |-> <<>>, ids |-> s[p].ids,
           kids |-> s[p].kids, dict |-> s[p].dict, up |-> s[p].up, last |-> s[p].last]
  BY DEF ViewFor
<1> HIDE DEF w
<1>2. ASSUME NEW p \in DOMAIN s
      PROVE  /\ w[p] = Node(w[p], w[p].sizes) /\ w[p].sizes = [b \in 1..3 |-> w[p].sizes[b]]
             /\ \A b \in 1..3 : w[p].sizes[b] = IF Kind(s[p], b) = "none" THEN 0 ELSE size
             /\ w[p].type = s[p].type /\ w[p].ids = s[p].ids /\ w[p].kids = s[p].kids
             /\ w[p].dict = s[p].dict /\ w[p].up = s[p].up /\ w[p].last = s[p].last
             /\ w[p].length = 0 /\ w[p].offset = 0 /\ w[p].null_count = 0
             /\ w[p].types = <<>> /\ w[p].ints = <<>>
  BY <1>1 DEF Node
<1> QED
  BY <1>1, <1>2 DEF Outline, w

(* The view ArrowArrayViewSetLength leaves, node by node. *)
LEMMA SetLengthIs ==
  ASSUME NEW s, IsSchema(s), NEW w, Outline(w, s), NEW n
  PROVE  LET v == SetLength(w, n)
             f == AskedLengths(w, n) IN
           /\ Outline(v, s)
           /\ \A p \in DOMAIN s :
                v[p] = Node(w[p], IF f[p] = NotAsked THEN w[p].sizes
                                  ELSE [b \in 1..3 |-> MinSize(w[p], b, f[p])])
<1> DEFINE v == SetLength(w, n)
           f == AskedLengths(w, n)
           g(p) == [b \in 1..3 |-> MinSize(w[p], b, f[p])]
<1>1. /\ DOMAIN w = DOMAIN s
      /\ \A p \in DOMAIN s :
           /\ w[p] = Node(w[p], w[p].sizes) /\ w[p].sizes = [b \in 1..3 |-> w[p].sizes[b]]
           /\ \A b \in 1..3 : Kind(s[p], b) = "none" => w[p].sizes[b] = 0
           /\ w[p].type = s[p].type /\ w[p].ids = s[p].ids /\ w[p].kids = s[p].kids
           /\ w[p].dict = s[p].dict /\ w[p].up = s[p].up /\ w[p].last = s[p].last
  BY DEF Outline
<1>2. v = [p \in DOMAIN s |-> IF f[p] = NotAsked THEN w[p] ELSE [w[p] EXCEPT !.sizes = g(p)]]
  BY <1>1 DEF SetLength
<1>3. DOMAIN v = DOMAIN s /\ v = [p \in DOMAIN s |-> v[p]]
  BY <1>2
<1>4. \A p \in DOMAIN s : v[p] = IF f[p] = NotAsked THEN w[p] ELSE [w[p] EXCEPT !.sizes = g(p)]
  BY <1>2
<1> HIDE DEF v, f
<1>5. ASSUME NEW p \in DOMAIN s
      PROVE  /\ v[p] = Node(w[p], IF f[p] = NotAsked THEN w[p].sizes ELSE g(p))
             /\ v[p] = Node(v[p], v[p].sizes) /\ v[p].sizes = [b \in 1..3 |-> v[p].sizes[b]]
             /\ \A b \in 1..3 : Kind(s[p], b) = "none" => v[p].sizes[b] = 0
             /\ v[p].type = s[p].type /\ v[p].ids = s[p].ids /\ v[p].kids = s[p].kids
             /\ v[p].dict = s[p].dict /\ v[p].up = s[p].up /\ v[p].last = s[p].last
  <2> DEFINE h == IF f[p] = NotAsked THEN w[p].sizes ELSE g(p)
  <2>1. v[p] = Node(w[p], h)
    <3> DEFINE x == w[p]
               k == g(p)
    <3>1. x = Node(x, x.sizes)
      BY <1>1
    <3>2. v[p] = IF f[p] = NotAsked THEN x ELSE [x EXCEPT !.sizes = k]
      BY <1>4
    <3> HIDE DEF x, k
    <3>3. [x EXCEPT !.sizes = k] = Node(x, k)
      BY <3>1 DEF Node
    <3> QED
      BY <3>1, <3>2, <3>3 DEF x, k
  <2>2. h = [b \in 1..3 |-> h[b]] /\ \A b \in 1..3 : Kind(s[p], b) = "none" => h[b] = 0
    <3>1. \A b \in 1..3 : Kind(w[p], b) = Kind(s[p], b)
      BY <1>1 DEF Kind
    <3>2. \A b \in 1..3 : Kind(w[p], b) = "none" => g(p)[b] = 0
      <4>1. Wrapped(0) = 0
        BY WrappedIs, ViewAssumption DEF Int64s
      <4> QED
        BY <4>1 DEF MinSize, Needed
    <3>3. g(p) = [b \in 1..3 |-> g(p)[b]]
      OBVIOUS
    <3> HIDE DEF g
    <3> QED
      BY <1>1, <3>1, <3>2, <3>3
  <2> HIDE DEF h
  <2>3. /\ v[p].sizes = h /\ v[p].type = w[p].type /\ v[p].ids = w[p].ids /\ v[p].kids = w[p].kids
        /\ v[p].dict = w[p].dict /\ v[p].up = w[p].up /\ v[p].last = w[p].last
    BY <2>1, NodeIs
  <2>4. v[p] = Node(v[p], v[p].sizes)
    BY <2>1 DEF Node
  <2> QED
    BY <1>1, <2>1, <2>2, <2>3, <2>4 DEF h
<1>6. Outline(v, s)
  BY <1>3, <1>5 DEF Outline
<1> QED
  BY <1>5, <1>6 DEF v, f

(* Each node has the sizes that its length asks for. *)
LEMMA LengthFits ==
  ASSUME NEW s, IsSchema(s), NEW size \in Nat \cup {Unknown}, NEW n \in 0..Int64Max,
         MayAsk(SetLength(ViewFor(s, size), n), n)
  PROVE  ValidateMinimal(Sized(SetLength(ViewFor(s, size), n), n)).ok
<1> DEFINE w == ViewFor(s, size)
           v == SetLength(w, n)
           f == AskedLengths(w, n)
           g == AskedLengths(v, n)
           z == Sized(v, n)
           N == Len(s)
           long(p) == IF f[p] = NotAsked THEN 0 ELSE f[p]
<1>1. /\ DOMAIN s = 1..N /\ N \in Nat /\ \A p \in DOMAIN s : s[p].kids \in Seq(DOMAIN s)
      /\ \A p \in 2..N : s[p].up \in 1..(p - 1)
  <2>1. IsTree(s)
    BY DEF IsSchema
  <2>2. DOMAIN s = 1..N /\ N \in Nat
    BY <2>1, TreeIs
  <2>3. \A p \in 2..N : p \in DOMAIN s /\ p > 1
    BY <2>2
  <2>4. \A p \in DOMAIN s : p > 1 => s[p].up \in 1..(p - 1)
    BY <2>1 DEF IsTree
  <2> HIDE DEF N
  <2> QED
    BY <2>1, <2>2, <2>3, <2>4, KidsInside
<1> HIDE DEF N
<1>2. /\ Outline(w, s)
      /\ \A p \in DOMAIN s : /\ w[p].length = 0 /\ w[p].offset = 0 /\ w[p].null_count = 0
                             /\ w[p].types = <<>> /\ w[p].ints = <<>>
                             /\ \A b \in 1..3 : w[p].sizes[b] = IF Kind(s[p], b) = "none" THEN 0 ELSE size
  BY ViewForIs
<1> HIDE DEF w
<1>3. /\ Outline(v, s)
      /\ \A p \in DOMAIN s :
           v[p] = Node(w[p], IF f[p] = NotAsked THEN w[p].sizes
                             ELSE [b \in 1..3 |-> MinSize(w[p], b, f[p])])
  BY <1>2, SetLengthIs
<1>4. /\ DOMAIN w = 1..N /\ DOMAIN v = 1..N
      /\ \A p \in 1..N : /\ w[p].up = s[p].up /\ w[p].type = s[p].type /\ w[p].kids = s[p].kids
                         /\ v[p].up = s[p].up /\ v[p].type = s[p].type /\ v[p].kids = s[p].kids
  <2> HIDE DEF v
  <2> QED
    BY <1>1, <1>2, <1>3 DEF Outline
<1> HIDE DEF v
<1>5. \A p \in 2..N : p \in 1..N /\ w[p].up \in 1..(p - 1) /\ w[p].up = s[p].up
  <2>1. \A p \in 2..N : p \in 1..N
    OBVIOUS
  <2> QED
    BY <1>1, <1>4, <2>1
<1> n \in Int64s
  BY ViewAssumption DEF Int64s
<1>6. /\ \A p \in 1..N : AskedRule(w, n, f, p)
      /\ \A p \in 1..N : f[p] \in Int64s \cup {NotAsked}
  BY <1>1, <1>4, <1>5, AskedIs
<1>7. \A p \in 1..N : g[p] = f[p]
  <2>1. \A p \in 2..N : w[p].up \in 1..(p - 1)
    BY <1>5
  <2>2. \A p \in 1..N : v[p].up = w[p].up /\ v[p].type = w[p].type /\ v[p].kids = w[p].kids
    BY <1>4
  <2>3. DOMAIN w = 1..N /\ DOMAIN v = 1..N /\ N \in Nat
    BY <1>1, <1>4
  <2> QED
    BY <2>1, <2>2, <2>3, AskedSame
<1>8. /\ DOMAIN z = 1..N /\ z = [p \in DOMAIN z |-> z[p]]
      /\ \A p \in 1..N : z[p] = IF g[p] = NotAsked THEN v[p]
                                ELSE [v[p] EXCEPT !.length = g[p], !.offset = 0, !.null_count = -1]
  BY <1>4 DEF Sized
<1> MayAsk(v, n)
  BY DEF v, w
<1> HIDE DEF z
<1>9. \A p \in 1..N : /\ long(p) \in Nat /\ long(p) <= Int64Max
                      /\ s[p].type = "run_end_encoded" => long(p) <= Int16Max
                      /\ f[p] # NotAsked => f[p] \in Nat
  <2>1. \A p \in 1..N : g[p] # NotAsked =>
          g[p] >= 0 /\ (v[p].type = "run_end_encoded" => g[p] <= Int16Max)
    BY <1>4 DEF MayAsk
  <2> HIDE DEF f, g
  <2>2. \A p \in 1..N : f[p] # NotAsked =>
          f[p] \in Int64s /\ f[p] >= 0 /\ (s[p].type = "run_end_encoded" => f[p] <= Int16Max)
    BY <1>4, <1>6, <1>7, <2>1
  <2> QED
    BY <2>2, ViewAssumption DEF Int64s
<1> HIDE DEF f, g
<1>10. ASSUME NEW p \in 1..N
       PROVE  /\ IsNode(z[p]) /\ z[p].type = s[p].type /\ z[p].kids = s[p].kids
              /\ z[p].length = long(p) /\ z[p].offset = 0
              /\ f[p] = NotAsked => z[p].null_count = 0
              /\ z[p].null_count \in {0, -1}
              /\ \A b \in 1..3 : Kind(z[p], b) # "none" =>
                   IF f[p] = NotAsked THEN z[p].sizes[b] = size
                   ELSE z[p].sizes[b] = MinSize(z[p], b, long(p)) /\ z[p].null_count = -1
  <2> DEFINE x == v[p]
             y == z[p]
             o == w[p]
             h == IF f[p] = NotAsked THEN o.sizes ELSE [b \in 1..3 |-> MinSize(o, b, f[p])]
             c == IF f[p] = NotAsked THEN 0 ELSE -1
  <2>1. /\ x = Node(o, h) /\ x = Node(x, x.sizes) /\ x.sizes = [b \in 1..3 |-> x.sizes[b]]
        /\ \A b \in 1..3 : Kind(s[p], b) = "none" => x.sizes[b] = 0
        /\ x.type = s[p].type /\ x.kids = s[p].kids
    BY <1>1, <1>3 DEF Outline
  <2>2. /\ o.length = 0 /\ o.offset = 0 /\ o.null_count = 0 /\ o.ints = <<>> /\ o.type = s[p].type
        /\ \A b \in 1..3 : o.sizes[b] = IF Kind(s[p], b) = "none" THEN 0 ELSE size
    BY <1>1, <1>2, <1>4
  <2>3. y = IF f[p] = NotAsked THEN x ELSE [x EXCEPT !.length = f[p], !.offset = 0, !.null_count = -1]
    BY <1>7, <1>8
  <2>4. s[p].type \in DOMAIN Layout
    BY <1>1 DEF IsSchema
  <2> HIDE DEF x, y, o, h
  <2>5. /\ x.length = 0 /\ x.offset = 0 /\ x.null_count = 0 /\ x.ints = <<>> /\ x.sizes = h
    BY <2>1, <2>2, NodeIs
  <2>6. /\ y.type = x.type /\ y.kids = x.kids /\ y.sizes = x.sizes /\ y.ints = x.ints
        /\ y.length = long(p) /\ y.offset = 0 /\ y.null_count = c /\ y = Node(y, y.sizes)
    <3>1. CASE f[p] = NotAsked
      <4>1. y = x
        BY <2>3, <3>1
      <4> QED
        BY <2>1, <2>5, <3>1, <4>1
    <3>2. CASE f[p] # NotAsked
      <4>1. y = [x EXCEPT !.length = f[p], !.offset = 0, !.null_count = -1]
        BY <2>3, <3>2
      <4>2. y = [type |-> x.type, offset |-> 0, length |-> f[p], null_count |-> -1,
                 sizes |-> x.sizes, types |-> x.types, ints |-> x.ints, ids |-> x.ids,
                 kids |-> x.kids, dict |-> x.dict, up |-> x.up, last |-> x.last]
        BY <2>1, <4>1 DEF Node
      <4> QED
        BY <3>2, <4>2 DEF Node
    <3> QED
      BY <3>1, <3>2
  <2>7. \A b : Kind(y, b) = Kind(s[p], b) /\ Kind(o, b) = Kind(s[p], b) /\ Bits(o, b) = Bits(y, b)
    BY <2>1, <2>2, <2>6 DEF Kind, Bits
  <2>8. \A b, k : MinSize(y, b, k) = MinSize(o, b, k)
    <3>1. \A b, k : Needed(y, b, k) = Needed(o, b, k)
      BY <2>7 DEF Needed
    <3> QED
      BY <2>7, <3>1 DEF MinSize
  <2>9. \A b \in 1..3 : Kind(y, b) # "none" =>
                   IF f[p] = NotAsked THEN y.sizes[b] = size
                   ELSE y.sizes[b] = MinSize(y, b, long(p)) /\ y.null_count = -1
    BY <2>2, <2>5, <2>6, <2>7, <2>8 DEF h
  <2>10. \A b \in 1..3 : y.sizes[b] \in Int
    <3>1. CASE f[p] = NotAsked
      <4>1. \A b \in 1..3 : y.sizes[b] = o.sizes[b] /\ o.sizes[b] \in {0, size}
        BY <2>2, <2>5, <2>6, <3>1 DEF h
      <4> QED
        BY <4>1 DEF Unknown
    <3>2. CASE f[p] # NotAsked
      <4>1. \A b \in 1..3 : y.sizes[b] = MinSize(o, b, f[p])
        BY <2>5, <2>6, <3>2 DEF h
      <4>2. f[p] \in Nat
        BY <1>9, <3>2
      <4>3. \A b \in 1..2 : MinSize(o, b, f[p]) \in Int
        BY <2>2, <2>4, <4>2, MinSizeIs
      <4>4. MinSize(o, 3, f[p]) \in Int
        <5>1. o.type \in {"na", "run_end_encoded", "bool", "int16", "string", "large_string", "list",
                  "fixed_size_list", "struct", "sparse_union", "dense_union"}
          BY <2>2, <2>4, Zenon DEF Layout
        <5>2. Kind(o, 3) = "none" \/ (Kind(o, 3) = "data" /\ Bits(o, 3) = 0)
          BY <5>1 DEF Kind, Bits, Layout, NoBuffer, Validity, TypeId
        <5> Wrapped(0) = 0
          BY WrappedIs, ViewAssumption DEF Int64s
        <5>3. CASE Kind(o, 3) = "none"
          BY <5>3 DEF MinSize, Needed
        <5>4. CASE Kind(o, 3) = "data" /\ Bits(o, 3) = 0
          <6>1. MinSize(o, 3, f[p]) = Wrapped(RoundUpToMultipleOf8(0 * f[p])) \div 8
            BY <5>4 DEF MinSize
          <6>2. 0 * f[p] = 0
            BY <4>2
          <6>3. RoundUpToMultipleOf8(0) = 0
            BY DEF RoundUpToMultipleOf8
          <6> QED
            BY <6>1, <6>2, <6>3
        <5> QED
          BY <5>2, <5>3, <5>4
      <4>5. \A b \in 1..3 : b \in 1..2 \/ b = 3
        OBVIOUS
      <4> QED
        BY <4>1, <4>3, <4>4, <4>5
    <3> QED
      BY <3>1, <3>2
  <2>11. IsNode(y)
    <3>1. /\ y.sizes = [b \in 1..3 |-> y.sizes[b]] /\ y.ints = <<>>
          /\ \A b \in 1..3 : Kind(y, b) = "none" => y.sizes[b] = 0
      BY <2>1, <2>5, <2>6, <2>7
    <3>2. y.length \in Int /\ y.offset \in Int /\ y.null_count \in Int
      BY <1>9, <2>6
    <3> QED
      BY <2>1, <2>4, <2>6, <2>10, <3>1, <3>2 DEF IsNode
  <2> QED
    BY <2>1, <2>6, <2>9, <2>11 DEF y
<1>11. ViewTree(z)
  <2>1. z \in Seq({z[p] : p \in 1..N}) /\ Len(z) = N
    <3>1. z = [p \in 1..N |-> z[p]]
      BY <1>8
    <3> QED
      BY <1>1, <3>1
  <2>2. \A p \in 1..N : z[p].kids \in Seq(DOMAIN z)
    BY <1>1, <1>8, <1>10
  <2> QED
    BY <1>1, <1>8, <1>10, <2>1, <2>2 DEF ViewTree
<1>12. ASSUME NEW p \in 1..N PROVE Passes(z, p)
  <2> DEFINE y == z[p]
  <2>1. /\ IsNode(y) /\ y.type = s[p].type /\ y.kids = s[p].kids
        /\ y.length = long(p) /\ y.offset = 0 /\ End(y) = long(p) /\ long(p) \in Nat
        /\ long(p) <= Int64Max /\ (y.type = "run_end_encoded" => long(p) <= Int16Max)
        /\ y.type \in DOMAIN Layout
    <3>1. End(y) = long(p)
      BY <1>9, <1>10 DEF End
    <3> HIDE DEF long
    <3> QED
      BY <1>9, <1>10, <3>1 DEF IsNode
  <2>2. ASSUME NEW b \in 1..2 PROVE Fits(y, b)
    <3>1. Kind(y, b) # "none" =>
            IF f[p] = NotAsked THEN y.sizes[b] = size
            ELSE y.sizes[b] = MinSize(y, b, long(p))
      BY <1>10
    <3>2. MinSize(y, b, long(p)) \in Int /\ (long(p) = 0 => MinSize(y, b, long(p)) = 0)
      BY <2>1, MinSizeIs
    <3>3. f[p] = NotAsked => long(p) = 0
      OBVIOUS
    <3> HIDE DEF y, long
    <3> QED
      BY <2>1, <3>1, <3>2, <3>3 DEF Fits, Unknown
  <2>3. ASSUME NEW k \in 1..Len(y.kids)
        PROVE  /\ y.kids[k] \in 1..N /\ Kid(z, p, k) = z[y.kids[k]]
               /\ f[y.kids[k]] = HandedDown(w[p], y.kids[k], f[p])
               /\ Kid(z, p, k).length = long(y.kids[k]) /\ long(y.kids[k]) \in Nat
               /\ Kid(z, p, k).type = s[y.kids[k]].type
               /\ f[y.kids[k]] = NotAsked => Kid(z, p, k).null_count = 0
    <3> DEFINE q == y.kids[k]
               b == Below(s[p])
    <3>1. IsTree(s) /\ p \in DOMAIN s
      BY <1>1 DEF IsSchema
    <3>2. /\ q \in DOMAIN s /\ s[q].up = p /\ q > p
      <4>1. Under(s, p, b)
        BY <3>1, BelowIs
      <4> HIDE DEF b
      <4> DEFINE i == Len(s[p].kids)
                 j == Len(s[p].dict)
                 l == Len(b)
      <4>2. i \in Nat /\ j \in {0, 1} /\ l = i + j
            /\ (\A m \in 1..i : b[m] = s[p].kids[m])
            /\ (\A m \in 1..l : b[m] \in DOMAIN s /\ s[b[m]].up = p /\ b[m] > p)
        BY <4>1, Zenon DEF Under
      <4>3. k \in 1..i
        BY <2>1, <2>3
      <4> HIDE DEF i, j, l, q
      <4>4. k \in 1..l
        BY <4>2, <4>3
      <4>5. q = b[k]
        BY <2>1, <4>2, <4>3 DEF q
      <4> QED
        BY <4>2, <4>4, <4>5
    <3>3. q \in 1..N /\ q # 1
      BY <1>1, <3>2
    <3>4. w[q].up = p /\ f[q] = HandedDown(w[p], q, f[p])
      <4>1. w[q].up = s[q].up
        BY <1>4, <3>3
      <4> QED
        BY <1>6, <3>2, <3>3, <4>1 DEF AskedRule
    <3>5. Kid(z, p, k) = z[q]
      BY DEF Kid
    <3> HIDE DEF q, long
    <3> QED
      BY <1>9, <1>10, <3>3, <3>4, <3>5 DEF q
  <2>4. ASSUME NEW k \in 1..Len(y.kids), ~Follows(w[p], y.kids[k])
        PROVE  Kid(z, p, k).length = 0 /\ Kid(z, p, k).null_count = 0
    BY <2>3, <2>4 DEF HandedDown
  <2>5. w[p].type = y.type /\ w[p].kids = y.kids /\ DOMAIN y.kids = 1..Len(y.kids)
    <3>1. y.kids \in Seq(DOMAIN s)
      BY <1>1, <2>1
    <3>2. DOMAIN y.kids = 1..Len(y.kids)
      BY <3>1
    <3> QED
      BY <1>4, <2>1, <3>2
  <2>6. CASE y.type \in {"struct", "sparse_union"}
    <3>1. ASSUME NEW k \in 1..Len(y.kids) PROVE Kid(z, p, k).length >= long(p)
      <4>1. y.kids[k] \in ToSet(w[p].kids)
        BY <2>5 DEF ToSet
      <4>2. Follows(w[p], y.kids[k])
        BY <2>5, <2>6, <4>1 DEF Follows
      <4>3. f[y.kids[k]] = f[p]
        BY <2>3, <2>5, <2>6, <4>2 DEF HandedDown, ChildLength
      <4>4. Kid(z, p, k).length = long(p)
        BY <2>3, <4>3
      <4> HIDE DEF long
      <4> QED
        BY <2>1, <4>4
    <3> HIDE DEF y, long
    <3> QED
      BY <2>1, <2>5, <2>6, <3>1, <2>2 DEF ChildrenSuffice, Passes, y
  <2>7. CASE y.type = "fixed_size_list"
    <3>1. Len(y.kids) = 1
      BY <1>1, <2>1, <2>7 DEF IsSchema
    <3>2. 1 \in 1..Len(y.kids) /\ y.kids # <<>>
      <4> DEFINE e == y.kids
      <4>1. Len(<< >>) = 0 /\ Len(e) = 1
        BY <3>1
      <4> HIDE DEF e
      <4>2. 1 \in 1..Len(e) /\ e # << >>
        BY <4>1
      <4> QED
        BY <4>2 DEF e
    <3>3. Follows(w[p], y.kids[1])
      BY <2>5, <2>7, <3>2 DEF Follows
    <3>4. f[y.kids[1]] = IF f[p] = NotAsked THEN NotAsked ELSE InChild(f[p])
      BY <2>3, <2>5, <2>7, <3>2, <3>3 DEF HandedDown, ChildLength
    <3>5. Kid(z, p, 1).length = InChild(long(p)) /\ InChild(long(p)) \in Int
      <4>1. Kid(z, p, 1).length = long(y.kids[1])
        BY <2>3, <3>2
      <4>2. CASE f[p] = NotAsked
        <5>1. InChild(0) = 0
          BY InChildIs
        <5> QED
          BY <3>4, <4>1, <4>2, <5>1
      <4>3. CASE f[p] # NotAsked
        <5>1. f[p] \in Nat
          BY <2>1, <4>3
        <5>2. InChild(f[p]) \in Int64s
          BY <5>1, InChildIs
        <5>3. InChild(f[p]) # NotAsked /\ InChild(f[p]) \in Int
          BY <5>2, ViewAssumption DEF Int64s, NotAsked
        <5> QED
          BY <3>4, <4>1, <4>3, <5>3
      <4> QED
        BY <4>2, <4>3
    <3> HIDE DEF y, long
    <3>7. ChildrenSuffice(z, p)
      BY <2>1, <2>7, <3>1, <3>5 DEF ChildrenSuffice, y
    <3> QED
      BY <2>1, <2>2, <3>7 DEF Passes, y
  <2>8. CASE y.type = "run_end_encoded"
    <3>1. Len(y.kids) = 2 /\ Kid(s, p, 1).type = "int16"
      BY <1>1, <2>1, <2>8 DEF IsSchema
    <3>2. 1 \in 1..Len(y.kids) /\ 2 \in 1..Len(y.kids)
      BY <3>1
    <3>3. \A k \in 1..2 : ~Follows(w[p], y.kids[k])
      BY <2>5, <2>8 DEF Follows
    <3>4. Kid(z, p, 1).length = 0 /\ Kid(z, p, 1).null_count = 0 /\ Kid(z, p, 2).length = 0
      <4>1. 1 \in 1..2 /\ 2 \in 1..2
        OBVIOUS
      <4> QED
        BY <2>4, <3>2, <3>3, <4>1
    <3>5. Kid(z, p, 1).type = "int16"
      BY <2>1, <2>3, <3>1, <3>2 DEF Kid
    <3> HIDE DEF y, long
    <3>6. ChildrenSuffice(z, p)
      BY <2>1, <2>8, <3>1, <3>4, <3>5 DEF ChildrenSuffice, y
    <3> QED
      BY <2>1, <2>2, <3>6 DEF Passes, y
  <2>9. CASE y.type \notin {"struct", "sparse_union", "fixed_size_list", "run_end_encoded"}
    <3>1. y.type = "list" => Len(y.kids) = 1
      BY <1>1, <2>1 DEF IsSchema
    <3> HIDE DEF y, long
    <3>2. ChildrenSuffice(z, p)
      BY <2>9, <3>1 DEF ChildrenSuffice, y
    <3> QED
      BY <2>1, <2>2, <3>2 DEF Passes, y
  <2> QED
    BY <2>6, <2>7, <2>8, <2>9
<1>13. ValidateMinimal(z).ok
  BY <1>8, <1>11, <1>12, MinimalTree
<1> QED
  BY <1>13 DEF z, v, w

(* An array that is being built tells its sizes: none is assigned.         *)
LEMMA KnownFit ==
  ASSUME NEW x, IsNode(x), NEW b \in 1..2, End(x) \in Nat, x.sizes[b] # Unknown
  PROVE  Fit(x, b).view = x
<1> DEFINE f == [c \in 1..3 |-> IF c = b /\ Kind(x, b) # "none" /\ x.sizes[b] = Unknown
                                THEN MinSize(x, b, End(x)) ELSE x.sizes[c]]
<1>1. Fit(x, b).view = Node(x, f)
  BY FitIs
<1>2. x = Node(x, x.sizes) /\ x.sizes = [c \in 1..3 |-> x.sizes[c]]
  BY DEF IsNode
<1>3. f = [c \in 1..3 |-> x.sizes[c]]
  OBVIOUS
<1> QED
  BY <1>1, <1>2, <1>3

(* Minimal validation of known sizes leaves them. *)
LEMMA KnownStays ==
  ASSUME NEW t, ViewTree(t), \A p \in DOMAIN t : \A b \in 1..3 : t[p].sizes[b] # Unknown
  PROVE  ValidateMinimal(t).view = t /\ ValidateDefault(t).view = t
<1>1. ASSUME NEW p \in DOMAIN t PROVE MinimalAt(t, p).view = t[p]
  <2> DEFINE x == t[p]
  <2>1. IsNode(x) /\ x.sizes[1] # Unknown /\ x.sizes[2] # Unknown
    <3>1. 1 \in 1..3 /\ 2 \in 1..3
      OBVIOUS
    <3> QED
      BY <3>1 DEF ViewTree
  <2>2. CASE x.length < 0 \/ x.offset < 0 \/ End(x) > Int64Max
    BY <2>2 DEF MinimalAt, EINVAL
  <2>3. CASE ~(x.length < 0 \/ x.offset < 0 \/ End(x) > Int64Max)
    <3>1. End(x) \in Nat
      BY <2>1, <2>3 DEF IsNode, End
    <3>2. Fit(x, 1).view = x /\ Fit(x, 2).view = x
      <4>1. 1 \in 1..2 /\ 2 \in 1..2
        OBVIOUS
      <4> HIDE DEF x
      <4> QED
        BY <2>1, <3>1, <4>1, KnownFit
    <3>3. MinimalAt(t, p) = Then(Then(Fit(x, 1), LAMBDA v : Fit(v, 2)),
                                 LAMBDA v : Check(v, ChildrenSuffice(t, p)))
      BY <2>3 DEF MinimalAt
    <3> DEFINE y == Then(Fit(x, 1), LAMBDA v : Fit(v, 2))
    <3>4. y.view = x
      BY <3>2 DEF Then
    <3>5. MinimalAt(t, p) = IF y.ok THEN Check(y.view, ChildrenSuffice(t, p)) ELSE y
      BY <3>3 DEF Then
    <3> HIDE DEF y, x
    <3> QED
      BY <3>4, <3>5 DEF Check, OK, EINVAL, x
  <2> QED
    BY <2>2, <2>3
<1>2. t = [p \in DOMAIN t |-> t[p]]
  BY DEF ViewTree
<1>3. ValidateMinimal(t).view = t
  <2> DEFINE Reached(p) == \A q \in 1..(p - 1) : MinimalAt(t, q).ok
  <2>1. ValidateMinimal(t).view = [p \in DOMAIN t |-> IF Reached(p) THEN MinimalAt(t, p).view ELSE t[p]]
    BY DEF ValidateMinimal, Visit
  <2> HIDE DEF Reached
  <2> QED
    BY <1>1, <1>2, <2>1
<1>4. CASE ~ValidateMinimal(t).ok
  BY <1>3, <1>4, DefaultIs
<1>5. CASE ValidateMinimal(t).ok
  <2> DEFINE d == Defaulted(t).view
  <2>1. Passed(t)
    BY <1>3, <1>5, MinimalPassed
  <2>2. ValidateDefault(t) = Defaulted(t)
    BY <1>3, <1>5, DefaultIs
  <2>3. ViewTree(d) /\ DOMAIN d = DOMAIN t /\ \A p \in DOMAIN t : d[p] = t[p] \/ d[p] = DefaultAt(t, p).view
    BY <2>1, DefaultTree DEF Resized
  <2> HIDE DEF d
  <2>4. ASSUME NEW p \in DOMAIN t PROVE DefaultAt(t, p).view = t[p]
    <3>1. 3 \in 1..3
      OBVIOUS
    <3>2. t[p].sizes[3] # Unknown
      BY <3>1
    <3>3. Sizing(t, p)
      BY DefaultNode
    <3> QED
      BY <3>2, <3>3 DEF Sizing
  <2>5. d = [p \in DOMAIN d |-> d[p]]
    BY <2>3 DEF ViewTree
  <2>6. d = t
    BY <1>2, <2>3, <2>4, <2>5
  <2> QED
    BY <1>3, <2>2, <2>6 DEF d
<1> QED
  BY <1>3, <1>4, <1>5

(* A resized view is still one for its schema. *)
LEMMA OutlineResized ==
  ASSUME NEW t, NEW v, NEW s, Outline(t, s), ViewTree(v), Resized(v, t)
  PROVE  Outline(v, s)
<1>1. DOMAIN v = DOMAIN s /\ v = [p \in DOMAIN s |-> v[p]]
  BY DEF Outline, ViewTree, Resized
<1>2. ASSUME NEW p \in DOMAIN s
      PROVE  /\ v[p] = Node(v[p], v[p].sizes) /\ v[p].sizes = [b \in 1..3 |-> v[p].sizes[b]]
             /\ \A b \in 1..3 : Kind(s[p], b) = "none" => v[p].sizes[b] = 0
             /\ v[p].type = s[p].type /\ v[p].ids = s[p].ids /\ v[p].kids = s[p].kids
             /\ v[p].dict = s[p].dict /\ v[p].up = s[p].up /\ v[p].last = s[p].last
  <2>1. /\ v[p] = Node(t[p], v[p].sizes) /\ IsNode(v[p])
        /\ t[p].type = s[p].type /\ t[p].ids = s[p].ids /\ t[p].kids = s[p].kids
        /\ t[p].dict = s[p].dict /\ t[p].up = s[p].up /\ t[p].last = s[p].last
    BY <1>1 DEF Outline, ViewTree, Resized
  <2>2. /\ v[p].type = s[p].type /\ v[p].ids = s[p].ids /\ v[p].kids = s[p].kids
        /\ v[p].dict = s[p].dict /\ v[p].up = s[p].up /\ v[p].last = s[p].last
    BY <2>1, NodeIs
  <2>3. \A b : Kind(v[p], b) = Kind(s[p], b)
    BY <2>2 DEF Kind
  <2> QED
    BY <2>1, <2>2, <2>3 DEF IsNode
<1> QED
  BY <1>1, <1>2 DEF Outline

(* A view v that was filled in, from an array a and for a schema s, and    *)
(* accepted: its sizes are those that minimal or default validation        *)
(* assigned.                                                               *)
FilledFrom(v, s, a) ==
  LET t == Filled(s, a) IN
    /\ SameShape(s, a) /\ Conforms(a) /\ \A p \in DOMAIN s : Buffers(s[p]) = a[p].n_buffers
    /\ ValidateMinimal(t).ok /\ v \in {ValidateMinimal(t).view, ValidateDefault(t).view}
Case(s, a) == IsSchema(s) /\ IsArray(a) /\ TypesAgree(s, a)
SafeAll(v, a) == \A p \in DOMAIN v : \A i \in 0..(a[p].length - 1) : Safe(v, a, p, i)
SetAt(v, a, level) == Then(SetArrayInternal(v, a), LAMBDA w : Validated(w, level))

(* A filled-in view is a tree. *)
LEMMA FilledTree ==
  ASSUME NEW s, NEW a, Case(s, a), SameShape(s, a), Conforms(a)
  PROVE  LET t == Filled(s, a) IN
           /\ Source(t, a) /\ Mapped(t) /\ ViewTree(t) /\ Outline(t, s)
           /\ Outline(ValidateMinimal(t).view, s) /\ Outline(ValidateDefault(t).view, s)
           /\ Resized(ValidateMinimal(t).view, t) /\ Resized(ValidateDefault(t).view, t)
           /\ SafeAll(t, a) => SafeAll(s, a)
<1> DEFINE t == Filled(s, a)
           u == ValidateMinimal(t).view
           d == ValidateDefault(t).view
<1>1. /\ Fed(t, a) /\ Mapped(t) /\ Blank(t, a) /\ Outline(t, s)
  BY FilledIs DEF Case
<1>2. Source(t, a) /\ ViewTree(t)
  BY <1>1 DEF Source, Fed, Case
<1> HIDE DEF t
<1>3. ViewTree(u) /\ Resized(u, t) /\ ViewTree(d) /\ Resized(d, t)
  BY <1>1, <1>2, MinimalTree, ValidationIs
<1>4. SafeAll(t, a) => SafeAll(s, a)
  <2>1. DOMAIN t = DOMAIN s
    BY <1>1 DEF Outline
  <2>2. \A p \in DOMAIN s : \A i : Safe(t, a, p, i) = Safe(s, a, p, i)
    BY <1>1, SafeOutlined
  <2> QED
    BY <2>1, <2>2 DEF SafeAll
<1> HIDE DEF u, d
<1>5. Outline(u, s) /\ Outline(d, s)
  BY <1>1, <1>3, OutlineResized
<1> QED
  BY <1>1, <1>2, <1>3, <1>4, <1>5 DEF t, u, d

(* What ArrowArrayViewSetArray leaves at either level. *)
LEMMA SetArrayIs ==
  ASSUME NEW s, NEW a, Case(s, a), Conforms(a), NEW v, Outline(v, s), NEW level \in Minimal..Full
  PROVE  LET r == SetAt(v, a, level) IN
           /\ r.wild \in BOOLEAN /\ (SizesFit(a) => r.wild = FALSE)
           /\ r.ok \in BOOLEAN /\ Outline(r.view, s)
           /\ r.ok => FilledFrom(r.view, s, a)
           /\ ~r.ok => ~WellFormed(s, a)
<1> DEFINE t == Filled(s, a)
           i == SetArrayInternal(v, a)
           r == SetAt(v, a, level)
           q == Validated(t, level)
<1>1. /\ i.wild = FALSE /\ i.ok \in BOOLEAN /\ Outline(i.view, s)
      /\ i.ok => SameShape(s, a) /\ i.view = t
      /\ i.ok => \A p \in DOMAIN s : Buffers(s[p]) = a[p].n_buffers
      /\ SameShape(s, a) /\ (\A p \in DOMAIN s : Buffers(s[p]) = a[p].n_buffers) => i.ok
  BY SetIs DEF Case
<1>2. r = IF i.ok THEN Validated(i.view, level) ELSE i
  BY DEF SetAt, Then
<1>3. WellFormed(s, a) => i.ok /\ q.ok
  BY <1>1, WellFormedAccepted DEF Case
<1> HIDE DEF i, r, t
<1>4. CASE ~i.ok
  <2>1. r = i
    BY <1>2, <1>4
  <2> QED
    BY <1>1, <1>3, <1>4, <2>1 DEF r
<1>5. CASE i.ok
  <2>1. SameShape(s, a) /\ r = q /\ \A p \in DOMAIN s : Buffers(s[p]) = a[p].n_buffers
    BY <1>1, <1>2, <1>5
  <2>2. /\ Source(t, a) /\ Mapped(t)
        /\ Outline(ValidateMinimal(t).view, s) /\ Outline(ValidateDefault(t).view, s)
    BY <2>1, FilledTree DEF t
  <2>3. /\ q.wild \in BOOLEAN /\ (SizesFit(a) => q.wild = FALSE) /\ q.ok \in BOOLEAN
        /\ q.view \in {ValidateMinimal(t).view, ValidateDefault(t).view}
        /\ q.ok => ValidateMinimal(t).ok
    BY <2>2, ValidationIs
  <2> HIDE DEF q
  <2>4. Outline(q.view, s)
    BY <2>2, <2>3
  <2>5. q.ok => FilledFrom(q.view, s, a)
    BY <2>1, <2>3 DEF FilledFrom, t
  <2> QED
    BY <1>3, <2>1, <2>3, <2>4, <2>5 DEF r
<1> QED
  BY <1>4, <1>5

(* Validation of a view filled in from an array. *)
LEMMA ValidateFilled ==
  ASSUME NEW s, NEW a, Case(s, a), NEW v, FilledFrom(v, s, a), NEW level \in Minimal..Full
  PROVE  LET r == Validated(v, level) IN
           /\ r.wild \in BOOLEAN /\ (SizesFit(a) => r.wild = FALSE)
           /\ r.ok \in BOOLEAN /\ Outline(r.view, s)
           /\ FilledFrom(r.view, s, a)
           /\ ~r.ok => ~WellFormed(s, a)
           /\ r.ok /\ level = Full /\ SizesFit(a) => SafeAll(s, a)
<1> DEFINE t == Filled(s, a)
           r == Validated(v, level)
           u == ValidateMinimal(t).view
           d == ValidateDefault(t).view
<1>1. /\ SameShape(s, a) /\ Conforms(a) /\ \A p \in DOMAIN s : Buffers(s[p]) = a[p].n_buffers
      /\ ValidateMinimal(t).ok /\ v \in {u, d}
  BY DEF FilledFrom
<1>2. /\ Source(t, a) /\ Mapped(t) /\ ViewTree(t) /\ Outline(t, s) /\ Outline(u, s) /\ Outline(d, s)
      /\ SafeAll(t, a) => SafeAll(s, a)
  BY <1>1, FilledTree
<1> HIDE DEF t
<1>3. /\ Validated(v, Minimal) = OK(v)
      /\ Validated(v, Default) = Validated(t, Default)
      /\ Validated(v, Full) = Validated(t, Full)
  BY <1>1, <1>2, ValidatedAgain
<1>4. /\ Validated(t, level).wild \in BOOLEAN /\ (SizesFit(a) => Validated(t, level).wild = FALSE)
      /\ Validated(t, level).ok \in BOOLEAN /\ Validated(t, level).view \in {u, d}
      /\ SizesFit(a) /\ Validated(t, Full).ok => SafeAll(t, a)
  BY <1>2, ValidationIs DEF SafeAll
<1>5. WellFormed(s, a) => Validated(t, level).ok
  BY <1>1, WellFormedAccepted DEF Case, t
<1>6. level = Minimal \/ level = Default \/ level = Full
  BY DEF Minimal, Default, Full
<1> HIDE DEF r, u, d
<1>7. /\ r.wild \in BOOLEAN /\ (SizesFit(a) => r.wild = FALSE)
      /\ r.ok \in BOOLEAN /\ r.view \in {u, d}
      /\ ~r.ok => ~WellFormed(s, a)
      /\ r.ok /\ level = Full /\ SizesFit(a) => SafeAll(s, a)
  <2>1. CASE level = Minimal
    <3>1. r = OK(v)
      BY <1>3, <2>1 DEF r
    <3>2. r.wild = FALSE /\ r.ok = TRUE /\ r.view = v
      BY <3>1 DEF OK
    <3>3. level # Full
      BY <2>1 DEF Minimal, Full
    <3>4. r.view \in {u, d} /\ r.ok \in BOOLEAN
      BY <1>1, <3>2
    <3> QED
      BY <3>2, <3>3, <3>4
  <2>2. CASE level # Minimal
    <3>1. r = Validated(t, level)
      BY <1>3, <1>6, <2>2 DEF r
    <3> QED
      BY <1>2, <1>4, <1>5, <3>1
  <2> QED
    BY <2>1, <2>2
<1>8. FilledFrom(r.view, s, a)
  BY <1>1, <1>7 DEF FilledFrom, t, u, d
<1>9. Outline(r.view, s)
  BY <1>2, <1>7
<1> QED
  BY <1>7, <1>8, <1>9 DEF r

(* Validation of a view of an array that is being built. *)
LEMMA ValidateBuilt ==
  ASSUME NEW a, IsArray(a), NEW level \in Minimal..Full
  PROVE  LET t == InitFromArray(a)
             r == Validated(t, level) IN
           /\ r.wild \in BOOLEAN /\ (SizesFit(a) => r.wild = FALSE)
           /\ r.ok \in BOOLEAN /\ r.view = t
           /\ r.ok /\ level = Full /\ SizesFit(a) => SafeAll(t, a)
<1> DEFINE t == InitFromArray(a)
           r == Validated(t, level)
<1>1. Source(t, a) /\ Mapped(t) /\ Exact(t, a)
  BY BuiltIs
<1>2. ViewTree(t) /\ DOMAIN t = DOMAIN a
  BY <1>1 DEF Source, Fed
<1>3. \A p \in DOMAIN t : \A b \in 1..3 : t[p].sizes[b] # Unknown
  BY <1>1, <1>2 DEF Exact, IsArray, Unknown
<1> HIDE DEF t
<1>4. ValidateMinimal(t).view = t /\ ValidateDefault(t).view = t
  BY <1>2, <1>3, KnownStays
<1>5. /\ r.wild \in BOOLEAN /\ (SizesFit(a) => r.wild = FALSE) /\ r.ok \in BOOLEAN
      /\ r.view \in {ValidateMinimal(t).view, ValidateDefault(t).view}
      /\ SizesFit(a) /\ Validated(t, Full).ok => SafeAll(t, a)
  BY <1>1, ValidationIs DEF SafeAll
<1> QED
  BY <1>4, <1>5 DEF t

(* A view filled in once more, or for the first time, is the same. *)
LEMMA Fresh ==
  ASSUME NEW s, NEW a, Case(s, a), NEW v, Outline(v, s), FilledFrom(v, s, a)
  PROVE  v \in {SetAt(ViewFor(v, 0), a, level).view : level \in Minimal..Full}
<1> DEFINE t == Filled(s, a)
           w == ViewFor(v, 0)
           i == SetArrayInternal(w, a)
<1>1. /\ SameShape(s, a) /\ Conforms(a) /\ \A p \in DOMAIN s : Buffers(s[p]) = a[p].n_buffers
      /\ v \in {ValidateMinimal(t).view, ValidateDefault(t).view}
  BY DEF FilledFrom
<1>2. w = ViewFor(s, 0)
  <2>1. /\ DOMAIN v = DOMAIN s
        /\ \A p \in DOMAIN s : /\ v[p].type = s[p].type /\ v[p].ids = s[p].ids /\ v[p].kids = s[p].kids
                               /\ v[p].dict = s[p].dict /\ v[p].up = s[p].up /\ v[p].last = s[p].last
    BY DEF Outline
  <2>2. \A p \in DOMAIN s : \A b : Kind(v[p], b) = Kind(s[p], b)
    BY <2>1 DEF Kind
  <2> QED
    BY <2>1, <2>2 DEF ViewFor
<1>3. Outline(w, s)
  BY <1>2, ViewForIs DEF Case
<1> HIDE DEF w
<1>4. i.ok /\ i.view = t
  BY <1>1, <1>3, SetIs DEF Case
<1>5. \A level : SetAt(w, a, level) = Validated(t, level)
  <2> HIDE DEF i, t
  <2> QED
    BY <1>4 DEF SetAt, Then, i
<1>6. /\ Validated(t, Minimal).view = ValidateMinimal(t).view
      /\ Validated(t, Default).view = ValidateDefault(t).view
  <2>1. Source(t, a) /\ Mapped(t)
    BY <1>1, FilledTree
  <2> HIDE DEF t
  <2>2. Minimal \in Minimal..Full /\ Default \in Minimal..Full /\ Default # Minimal
    BY DEF Minimal, Default, Full
  <2> QED
    BY <2>1, <2>2, ValidationIs
<1>7. Minimal \in Minimal..Full /\ Default \in Minimal..Full
  BY DEF Minimal, Default, Full
<1> HIDE DEF t
<1> QED
  BY <1>1, <1>5, <1>6, <1>7 DEF w

---------------------------------------------------------------------------
(* What a view is at each stage of its life. That nothing was read where   *)
(* there is no room needs this whole: the sizes of an accepted view are    *)
(* those that validation itself assigned.                                  *)
Stage(s, a, size) ==
  /\ array = a
  /\ from # "buffers" => Outline(view, s) /\ (failed => ~WellFormed(s, a))
  /\ from = "nothing" => accepted = None /\ (~failed => view = ViewFor(s, size))
  /\ from = "array" => FilledFrom(view, s, a)
  /\ from = "buffers" => view = InitFromArray(a)
  /\ from = "length" => view = SetLength(ViewFor(s, size), asked) /\ asked \in 0..Int64Max /\ accepted = None
  /\ accepted = Full /\ SizesFit(a) => SafeAll(view, a)

IInv ==
  /\ wild \in BOOLEAN /\ (SizesFit(array) => wild = FALSE) /\ failed \in BOOLEAN /\ accepted \in None..Full
  /\ from \in {"nothing", "array", "buffers", "length"}
  /\ \E c \in Cases, size \in OldSizes : Stage(c[2], c[1], size)

LEMMA SafeAllOutlined ==
  ASSUME NEW v, NEW s, NEW a, Outline(v, s)
  PROVE  SafeAll(v, a) <=> SafeAll(s, a)
<1>1. DOMAIN v = DOMAIN s
  BY DEF Outline
<1>2. \A p \in DOMAIN s : \A i : Safe(v, a, p, i) = Safe(s, a, p, i)
  BY SafeOutlined
<1> QED
  BY <1>1, <1>2 DEF SafeAll

(* What the cases are assumed to be. *)
LEMMA CaseIs ==
  ASSUME NEW c \in Cases
  PROVE  Case(c[2], c[1])
BY CasesAssumption DEF Case

(* The states the view starts in. *)
LEMMA InitHolds == Init => IInv
<1> SUFFICES ASSUME Init PROVE IInv
  OBVIOUS
<1>1. PICK c \in Cases, size \in OldSizes : array = c[1] /\ view = ViewFor(c[2], size)
  BY DEF Init
<1>2. from = "nothing" /\ accepted = None /\ failed = FALSE /\ wild = FALSE
  BY DEF Init
<1>3. Outline(view, c[2])
  BY <1>1, CaseIs, LengthsAssumption, ViewForIs DEF Case
<1>4. Stage(c[2], c[1], size)
  BY <1>1, <1>2, <1>3 DEF Stage, None, Full
<1>5. accepted \in None..Full
  BY <1>2 DEF None, Full
<1> QED
  BY <1>2, <1>4, <1>5 DEF IInv

(* One lemma per action. *)
LEMMA SetArrayStep ==
  ASSUME IInv, SetArray
  PROVE  IInv'
<1>1. PICK c \in Cases, size \in OldSizes : Stage(c[2], c[1], size)
  BY DEF IInv
<1> DEFINE s == c[2]
           a == c[1]
<1>2. Case(s, a) /\ array = a /\ from = "nothing" /\ Outline(view, s) /\ Conforms(a)
      /\ wild \in BOOLEAN /\ (SizesFit(a) => wild = FALSE)
  BY <1>1, CaseIs DEF Stage, SetArray, IInv
<1>3. PICK level \in {Minimal, Default} : Finish(SetArrayAt(view, level), level)
  BY DEF SetArray
<1> DEFINE r == SetAt(view, a, level)
<1>4. SetArrayAt(view, level) = r
  BY <1>2 DEF SetArrayAt, SetAt
<1>5. level \in Minimal..Full /\ level # Full /\ None # Full /\ level \in None..Full /\ None \in None..Full
  BY DEF None, Minimal, Default, Full
<1>6. /\ r.wild \in BOOLEAN /\ (SizesFit(a) => r.wild = FALSE) /\ r.ok \in BOOLEAN /\ Outline(r.view, s)
      /\ r.ok => FilledFrom(r.view, s, a)
      /\ ~r.ok => ~WellFormed(s, a)
  <2> HIDE DEF s, a
  <2> QED
    BY <1>2, <1>5, SetArrayIs
<1>7. /\ view' = r.view /\ failed' = ~r.ok /\ wild' = (wild \/ r.wild)
      /\ accepted' = IF r.ok THEN level ELSE None
      /\ array' = a /\ from' = IF failed' THEN "nothing" ELSE "array"
  BY <1>2, <1>3, <1>4 DEF Finish, SetArray
<1> HIDE DEF r, s, a
<1>8. Stage(s, a, size)'
  BY <1>5, <1>6, <1>7 DEF Stage
<1>9. /\ wild' \in BOOLEAN /\ (SizesFit(array') => wild' = FALSE)
      /\ failed' \in BOOLEAN /\ accepted' \in None..Full /\ from' \in {"nothing", "array"}
  BY <1>2, <1>5, <1>6, <1>7
<1> QED
  BY <1>8, <1>9 DEF IInv, s, a

LEMMA SetFromBuffersStep ==
  ASSUME IInv, SetFromBuffers
  PROVE  IInv'
<1>1. PICK c \in Cases, size \in OldSizes : Stage(c[2], c[1], size)
  BY DEF IInv
<1>2. array = c[1] /\ wild \in BOOLEAN /\ (SizesFit(array) => wild = FALSE)
  BY <1>1 DEF IInv, Stage
<1>3. /\ view' = InitFromArray(c[1]) /\ failed' = FALSE /\ wild' = wild /\ accepted' = None
      /\ array' = c[1] /\ from' = "buffers"
  BY <1>2 DEF SetFromBuffers, Finish, OK, None
<1>4. Stage(c[2], c[1], size)'
  BY <1>3 DEF Stage, None, Full
<1>5. accepted' \in None..Full
  BY <1>3 DEF None, Full
<1> QED
  BY <1>2, <1>3, <1>4, <1>5 DEF IInv

LEMMA ViewSetLengthStep ==
  ASSUME IInv, ViewSetLength
  PROVE  IInv'
<1>1. PICK c \in Cases, size \in OldSizes : Stage(c[2], c[1], size)
  BY DEF IInv
<1>2. from = "nothing" /\ ~failed /\ array = c[1] /\ view = ViewFor(c[2], size)
      /\ wild \in BOOLEAN /\ (SizesFit(array) => wild = FALSE)
  BY <1>1 DEF IInv, Stage, ViewSetLength
<1>3. PICK n \in Lengths : view' = SetLength(view, n) /\ asked' = n
  BY DEF ViewSetLength
<1>4. n \in 0..Int64Max
  BY LengthsAssumption
<1>5. from' = "length" /\ accepted' = None /\ failed' = FALSE /\ array' = c[1] /\ wild' = wild
  BY <1>2 DEF ViewSetLength
<1>6. Outline(view', c[2])
  BY <1>1, <1>2, <1>3, CaseIs, SetLengthIs DEF Case, Stage
<1>7. Stage(c[2], c[1], size)'
  BY <1>2, <1>3, <1>4, <1>5, <1>6 DEF Stage, None, Full
<1>8. accepted' \in None..Full
  BY <1>5 DEF None, Full
<1> QED
  BY <1>2, <1>5, <1>7, <1>8 DEF IInv

LEMMA ValidateStep ==
  ASSUME IInv, Validate
  PROVE  IInv'
<1>1. PICK c \in Cases, size \in OldSizes : Stage(c[2], c[1], size)
  BY DEF IInv
<1> DEFINE s == c[2]
           a == c[1]
<1>2. /\ Case(s, a) /\ array = a /\ from \in {"array", "buffers"}
      /\ wild \in BOOLEAN /\ (SizesFit(a) => wild = FALSE)
      /\ accepted \in None..Full
  BY <1>1, CaseIs DEF Stage, Validate, IInv
<1>3. PICK level \in Minimal..Full :
        LET r == Validated(view, level) IN
         /\ view' = r.view /\ failed' = ~r.ok /\ wild' = (wild \/ r.wild)
         /\ accepted' = IF r.ok /\ level > accepted THEN level ELSE accepted
  BY DEF Validate
<1> DEFINE r == Validated(view, level)
<1>4. /\ view' = r.view /\ failed' = ~r.ok /\ wild' = (wild \/ r.wild)
      /\ accepted' = IF r.ok /\ level > accepted THEN level ELSE accepted
      /\ array' = a /\ from' = from
  BY <1>2, <1>3 DEF Validate
<1>5. level \in None..Full
  BY DEF None, Minimal, Full
<1>6. CASE from = "array"
  <2>1. FilledFrom(view, s, a) /\ Outline(view, s) /\ (accepted = Full /\ SizesFit(a) => SafeAll(view, a))
    BY <1>1, <1>6 DEF Stage
  <2>2. /\ r.wild \in BOOLEAN /\ (SizesFit(a) => r.wild = FALSE)
        /\ r.ok \in BOOLEAN /\ Outline(r.view, s)
        /\ FilledFrom(r.view, s, a)
        /\ ~r.ok => ~WellFormed(s, a)
        /\ r.ok /\ level = Full /\ SizesFit(a) => SafeAll(s, a)
    BY <1>2, <2>1, ValidateFilled
  <2> HIDE DEF r, s, a
  <2>3. accepted' = Full /\ SizesFit(a) => SafeAll(view', a)
    <3>1. SafeAll(view, a) <=> SafeAll(s, a)
      BY <2>1, SafeAllOutlined
    <3>2. SafeAll(r.view, a) <=> SafeAll(s, a)
      BY <2>2, SafeAllOutlined
    <3> QED
      BY <1>4, <2>1, <2>2, <3>1, <3>2
  <2>4. Stage(s, a, size)'
    BY <1>4, <1>6, <2>2, <2>3 DEF Stage
  <2>5. /\ wild' \in BOOLEAN /\ (SizesFit(array') => wild' = FALSE)
        /\ failed' \in BOOLEAN /\ accepted' \in None..Full
    BY <1>2, <1>4, <1>5, <2>2
  <2> QED
    BY <1>4, <1>6, <2>4, <2>5 DEF IInv, s, a
<1>7. CASE from = "buffers"
  <2>1. view = InitFromArray(a) /\ (accepted = Full /\ SizesFit(a) => SafeAll(view, a))
    BY <1>1, <1>7 DEF Stage
  <2>2. /\ r.wild \in BOOLEAN /\ (SizesFit(a) => r.wild = FALSE)
        /\ r.ok \in BOOLEAN /\ r.view = view
        /\ r.ok /\ level = Full /\ SizesFit(a) => SafeAll(view, a)
    BY <1>2, <2>1, ValidateBuilt DEF Case
  <2> HIDE DEF r, s, a
  <2>3. Stage(s, a, size)'
    BY <1>4, <1>7, <2>1, <2>2 DEF Stage
  <2>4. /\ wild' \in BOOLEAN /\ (SizesFit(array') => wild' = FALSE)
        /\ failed' \in BOOLEAN /\ accepted' \in None..Full
    BY <1>2, <1>4, <1>5, <2>2
  <2> QED
    BY <1>4, <1>7, <2>3, <2>4 DEF IInv, s, a
<1> QED
  BY <1>2, <1>6, <1>7

LEMMA StepHolds == IInv /\ [Next]_vars => IInv'
<1> SUFFICES ASSUME IInv, [Next]_vars PROVE IInv'
  OBVIOUS
<1>1. CASE SetArray
  BY <1>1, SetArrayStep
<1>2. CASE SetFromBuffers
  BY <1>2, SetFromBuffersStep
<1>3. CASE ViewSetLength
  BY <1>3, ViewSetLengthStep
<1>4. CASE Validate
  BY <1>4, ValidateStep
<1>5. CASE UNCHANGED vars
  <2>1. \A s, a, size : Stage(s, a, size)' = Stage(s, a, size)
    BY <1>5 DEF vars, Stage
  <2> QED
    BY <1>5, <2>1 DEF vars, IInv
<1> QED
  BY <1>1, <1>2, <1>3, <1>4, <1>5 DEF Next

LEMMA IInvHolds == Spec => []IInv
BY InitHolds, StepHolds, PTL DEF Spec

(* Validation never reads an offset, a run end or a type id where the      *)
(* buffer has no room, at any level, called in any order, for an array of  *)
(* any nesting and any length and offset whose sizes fit int64: the        *)
(* products that wrap around are part of the model, and of an array whose  *)
(* products do nothing is said.                                            *)
THEOREM ReadsInside == Spec => []ChecksReadInside
<1>1. IInv => ChecksReadInside
  BY DEF IInv, ChecksReadInside
<1> QED
  BY <1>1, IInvHolds, PTL

(* A view that ArrowArrayViewValidateFull accepted can be read without a   *)
(* check: each accessor stays inside the buffers and inside the children,  *)
(* if its sizes fit int64 and no list has fewer than no elements.          *)
THEOREM AcceptedIsSafe == Spec => []FullIsSafe
<1>1. IInv => FullIsSafe
  <2> SUFFICES ASSUME IInv, accepted = Full, SizesFit(array) PROVE SafeAll(view, array)
    BY DEF FullIsSafe, SafeAll
  <2> QED
    BY DEF IInv, Stage
<1> QED
  BY <1>1, IInvHolds, PTL

(* What the format allows is never rejected, by ArrowArrayViewSetArray or  *)
(* by a later validation.                                                  *)
THEOREM WellFormedIsAccepted == Spec => []AcceptsWellFormed
<1>1. IInv => AcceptsWellFormed
  <2> SUFFICES ASSUME IInv, failed, from # "buffers" PROVE ~WellFormed(view, array)
    BY DEF AcceptsWellFormed
  <2>1. PICK c \in Cases, size \in OldSizes : Stage(c[2], c[1], size)
    BY DEF IInv
  <2>2. array = c[1] /\ Outline(view, c[2]) /\ ~WellFormed(c[2], c[1])
    BY <2>1 DEF Stage
  <2> QED
    BY <2>2, WellFormedOutlined
<1> QED
  BY <1>1, IInvHolds, PTL

(* A view that is used again holds what a new one would: nothing of an     *)
(* earlier array is left in it.                                            *)
THEOREM ReuseLeavesNothing == Spec => []ReuseIsFresh
<1>1. IInv => ReuseIsFresh
  <2> SUFFICES ASSUME IInv, from = "array"
               PROVE  view \in {SetArrayAt(ViewFor(view, 0), level).view : level \in Minimal..Full}
    BY DEF ReuseIsFresh
  <2>1. PICK c \in Cases, size \in OldSizes : Stage(c[2], c[1], size)
    BY DEF IInv
  <2>2. array = c[1] /\ Outline(view, c[2]) /\ FilledFrom(view, c[2], c[1]) /\ Case(c[2], c[1])
    BY <2>1, CaseIs DEF Stage
  <2>3. view \in {SetAt(ViewFor(view, 0), array, level).view : level \in Minimal..Full}
    BY <2>2, Fresh
  <2>4. \A level : SetArrayAt(ViewFor(view, 0), level) = SetAt(ViewFor(view, 0), array, level)
    BY DEF SetArrayAt, SetAt
  <2> QED
    BY <2>3, <2>4
<1> QED
  BY <1>1, IInvHolds, PTL

(* The sizes that ArrowArrayViewSetLength computes are those that minimal  *)
(* validation asks of an array of that length, children included, where    *)
(* the lengths of the children stay in int64.                              *)
THEOREM LengthSizesSuffice == Spec => []LengthSizesFit
<1>1. IInv => LengthSizesFit
  <2> SUFFICES ASSUME IInv, from = "length", MayAsk(view, asked)
               PROVE  ValidateMinimal(Sized(view, asked)).ok
    BY DEF LengthSizesFit
  <2>1. PICK c \in Cases, size \in OldSizes : Stage(c[2], c[1], size)
    BY DEF IInv
  <2>2. /\ IsSchema(c[2]) /\ size \in Nat \cup {Unknown} /\ asked \in 0..Int64Max
        /\ view = SetLength(ViewFor(c[2], size), asked)
    BY <2>1, CaseIs, LengthsAssumption DEF Stage, Case
  <2> QED
    BY <2>2, LengthFits
<1> QED
  BY <1>1, IInvHolds, PTL
=============================================================================
