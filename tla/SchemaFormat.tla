---------------------------- MODULE SchemaFormat ----------------------------
(***************************************************************************)
(* The type of an ArrowSchema, as its setters write it into the format     *)
(* string and the children, and as ArrowSchemaViewInit reads it back       *)
(* (src/src/nanoarrow/nanoarrow.c).                                        *)
(*                                                                         *)
(* A format is a sequence of tokens: the letters up to the first argument  *)
(* ("tdD", "+w", "tss") are one token, and so are a number and a time      *)
(* zone; <<>> is a format that is NULL. C reads a format letter by letter, *)
(* and no letters of a format begin another's, so the tokens are found as  *)
(* there. Memory never runs out here: TreeMemory is about what happens     *)
(* then.                                                                   *)
(***************************************************************************)
EXTENDS Integers, Sequences, SequencesExt, FiniteSetsExt, TLC

CONSTANTS
  Numeral,      \* the numbers a format may hold: a function from token to number
  IntMax,       \* the largest int32_t
  StackDepth,   \* how many dictionaries below one another fit on the stack
  MaxCalls,     \* how many calls change the schema
  SetterCalls,  \* the setters called, with their arguments
  LongZones,    \* time zones that do not fit the 128 bytes a format is written to
  ForeignNodes, \* schemas that come from another library
  FlagSets,     \* the flags a user gives a schema
  ExtensionNames, \* what the metadata holds under ARROW:extension:name; "" is no such key
  OldViews      \* what a view held before its first use

ASSUME NumeralAssumption ==
  /\ \A t \in DOMAIN Numeral : t \in STRING /\ Numeral[t] \in Int /\ ToString(Numeral[t]) = t
  /\ {"32", "64", "256"} \subseteq DOMAIN Numeral
  /\ Numeral["32"] = 32 /\ Numeral["64"] = 64 /\ Numeral["256"] = 256
ASSUME IntMaxAssumption  == IntMax \in Nat /\ IntMax >= 256
ASSUME StackAssumption   == StackDepth \in Nat

(* struct ArrowSchemaView: the members a format or a schema is read into.  *)
ViewMembers == {"type", "storage", "unit", "precision", "scale", "bitwidth", "fixed_size", "type_ids",
                "timezone", "element_bits", "child_size", "extension"}
IsView(v) == v = [m \in ViewMembers |-> v[m]]
ASSUME ViewsAssumption == \A v \in OldViews : IsView(v)

(* struct ArrowSchema, and what the setters are called with: an integer of *)
(* 32 bits that has a numeral, an array of many children.                  *)
NodeMembers == {"live", "format", "flags", "children", "dictionary", "extension"}
IsNode(s) ==
  /\ s = [m \in NodeMembers |-> s[m]]
  /\ Len(s.children) \in Nat /\ DOMAIN s.children = 1..Len(s.children)
ASSUME NodesAssumption == \A s \in ForeignNodes : IsNode(s) /\ s.format \in Seq(STRING)

IsWritten(n) == n \in -(IntMax + 1)..IntMax /\ \E t \in DOMAIN Numeral : Numeral[t] = n
IsCall(call, a) ==
  \/ call = "SetType"
  \/ call = "SetTypeStruct" /\ a[1] \in Nat
  \/ call = "SetTypeFixedSize" /\ a[2] \in Int /\ (a[2] > 0 => IsWritten(a[2]))
  \/ call = "SetTypeDecimal" /\ a[2] \in Int /\ (a[2] > 0 => IsWritten(a[2])) /\ IsWritten(a[3])
  \/ call = "SetTypeRunEndEncoded"
  \/ call = "SetTypeDateTime" /\ a[3] \in Seq(STRING)
  \/ call = "SetTypeUnion" /\ a[2] \in Int /\ \A k \in 0..(a[2] - 1) : IsWritten(k)
ASSUME CallsAssumption == \A c \in SetterCalls : IsCall(c[1], c[2])

VARIABLES
  schema,       \* the schema, a tree of nodes
  view,         \* an ArrowSchemaView, filled in again and again
  viewed,       \* has view been filled in since schema last changed?
  last,         \* the last setter call, its result and the node before it
  calls         \* the calls made so far

schemaVars == <<schema, view, viewed, last, calls>>

(* A conversion to int32_t.                                                *)
ToInt32(n) == LET w == 2 * (IntMax + 1) IN ((n + IntMax + 1) % w) - IntMax - 1
Digits(n)   == CHOOSE t \in DOMAIN Numeral : Numeral[t] = n

---------------------------------------------------------------------------
(* Nodes. ArrowSchemaInit leaves Fresh; ArrowSchemaAllocateChildren and    *)
(* AllocateDictionary leave memory nobody wrote to but the release member. *)

Fresh == [live |-> TRUE, format |-> <<>>, flags |-> {"nullable"}, children |-> <<>>,
          dictionary |-> <<>>, extension |-> ""]
Unset == [Fresh EXCEPT !.live = FALSE]

Done(s)         == [error |-> "ok", node |-> s]
Fails(error, s) == [error |-> error, node |-> s]

AllocateChildren(s, n) ==
  IF s.children # <<>> THEN Fails("EEXIST", s)
  ELSE Done([s EXCEPT !.children = [i \in 1..n |-> Unset]])

(* Allocates n children and initialises each.                              *)
AddChildren(s, n, child) ==
  LET r == AllocateChildren(s, n) IN
    IF r.error = "ok" THEN Done([r.node EXCEPT !.children = [i \in 1..n |-> child[i]]]) ELSE r

FormatTemplate ==
  [na |-> <<"n">>, bool |-> <<"b">>, uint8 |-> <<"C">>, int8 |-> <<"c">>, uint16 |-> <<"S">>,
   int16 |-> <<"s">>, uint32 |-> <<"I">>, int32 |-> <<"i">>, uint64 |-> <<"L">>, int64 |-> <<"l">>,
   half_float |-> <<"e">>, float |-> <<"f">>, double |-> <<"g">>, string |-> <<"u">>,
   large_string |-> <<"U">>, string_view |-> <<"vu">>, binary |-> <<"z">>, binary_view |-> <<"vz">>,
   large_binary |-> <<"Z">>, date32 |-> <<"tdD">>, date64 |-> <<"tdm">>,
   interval_months |-> <<"tiM">>, interval_day_time |-> <<"tiD">>,
   interval_month_day_nano |-> <<"tin">>, list |-> <<"+l">>, large_list |-> <<"+L">>,
   struct |-> <<"+s">>, map |-> <<"+m">>, run_end_encoded |-> <<"+r">>]

NonNull(s) == [s EXCEPT !.flags = @ \ {"nullable"}]

InitChildrenIfNeeded(s, type) ==
  CASE type \in {"list", "large_list", "fixed_size_list"} -> AddChildren(s, 1, <<Fresh>>)
    [] type = "map" ->
         AddChildren(s, 1, <<[NonNull(Fresh) EXCEPT !.format = <<"+s">>,
                                                    !.children = <<NonNull(Fresh), Fresh>>]>>)
    [] type = "run_end_encoded" -> AddChildren(s, 2, <<NonNull(Fresh), Fresh>>)
    [] OTHER -> Done(s)

---------------------------------------------------------------------------
(* The setters, as functions of the node and their arguments.              *)

SetFormat(s, format) == [s EXCEPT !.format = format]

SetType(s, type) ==
  CASE type = "uninitialized" -> Done(SetFormat(s, <<>>))
    [] type \in DOMAIN FormatTemplate ->
         InitChildrenIfNeeded(SetFormat(s, FormatTemplate[type]), type)
    [] OTHER -> Fails("EINVAL", s)

SetTypeStruct(s, n) ==
  LET r == SetType(s, "struct") IN
    IF r.error = "ok" THEN AddChildren(r.node, n, [i \in 1..n |-> Fresh]) ELSE r

SetTypeFixedSize(s, type, size) ==
  LET head == IF type = "fixed_size_binary" THEN "w" ELSE "+w" IN
  IF size <= 0 \/ type \notin {"fixed_size_binary", "fixed_size_list"} THEN Fails("EINVAL", s)
  ELSE InitChildrenIfNeeded(SetFormat(s, <<head, ":", Digits(size)>>), type)

BitWidthUnsaid == [decimal32 |-> <<",", "32">>, decimal64 |-> <<",", "64">>,
                   decimal128 |-> <<>>, decimal256 |-> <<>>]                 \* mutant
BitWidthArgument == [decimal32 |-> <<",", "32">>, decimal64 |-> <<",", "64">>,
                     decimal128 |-> <<>>, decimal256 |-> <<",", "256">>]
SetTypeDecimal(s, type, precision, scale) ==
  IF precision <= 0 \/ type \notin DOMAIN BitWidthArgument THEN Fails("EINVAL", s)
  ELSE Done(SetFormat(s, <<"d", ":", Digits(precision), ",", Digits(scale)>> \o BitWidthArgument[type]))

SetTypeRunEndEncoded(s, run_end_type) ==
  IF run_end_type \notin {"int16", "int32", "int64"} THEN Fails("EINVAL", s)
  ELSE LET r == InitChildrenIfNeeded(SetFormat(s, <<"+r">>), "run_end_encoded") IN
    IF r.error # "ok" THEN r
    ELSE LET ends == r.node.children IN
      Done([r.node EXCEPT !.children = <<SetType(ends[1], run_end_type).node,
                                         SetType(ends[2], "uninitialized").node>>])

(* The head of a date-time format; the unit is its last letter.            *)
DateTimeHead == [time32 |-> [s |-> "tts", m |-> "ttm"], time64 |-> [u |-> "ttu", n |-> "ttn"],
                 timestamp |-> [s |-> "tss", m |-> "tsm", u |-> "tsu", n |-> "tsn"],
                 duration |-> [s |-> "tDs", m |-> "tDm", u |-> "tDu", n |-> "tDn"]]
NoZone == <<"NULL">>             \* a NULL time zone; <<>> is the empty one
Zone(timezone) == IF timezone = NoZone THEN <<>> ELSE timezone
SetTypeDateTime(s, type, unit, timezone) ==
  IF \/ type \notin DOMAIN DateTimeHead
     \/ (type # "timestamp" /\ timezone # NoZone)
     \/ unit \notin DOMAIN DateTimeHead[type]
  THEN Fails("EINVAL", s)
  ELSE IF type = "timestamp" /\ timezone \in LongZones THEN Fails("ERANGE", s)
  ELSE Done(SetFormat(s, <<DateTimeHead[type][unit]>> \o
                         (IF type = "timestamp" THEN <<":">> \o Zone(timezone) ELSE <<>>)))

(* The type ids 0,1,...,n-1, with commas between them.                     *)
TypeIds(n) == [i \in 1..(IF n = 0 THEN 0 ELSE 2 * n - 1) |->
                 IF i % 2 = 1 THEN Digits(i \div 2) ELSE ","]
SetTypeUnion(s, type, n) ==
  IF n \notin 0..127 \/ type \notin {"sparse_union", "dense_union"} THEN Fails("EINVAL", s)
  ELSE AddChildren(SetFormat(s, <<IF type = "sparse_union" THEN "+us" ELSE "+ud", ":">> \o TypeIds(n)),
                   n, [i \in 1..n |-> Fresh])

AllocateDictionary(s) ==
  IF s.dictionary # <<>> THEN Fails("EEXIST", s) ELSE Done([s EXCEPT !.dictionary = <<Unset>>])
InitFromType(type) == [SetType(Fresh, type) EXCEPT !.error = IF @ = "ok" THEN "ok" ELSE "EINVAL"]

---------------------------------------------------------------------------
(* Reading a format. A parse leaves the view and the place where it ended. *)
(* What a refused format leaves in the view is not modelled: nobody may    *)
(* read it, and OldViews has worse.                                        *)

At(f, i) == IF i \in DOMAIN f THEN f[i] ELSE "end"
Strtol(f, i) ==                      \* strtol does not move when there is no number
  IF At(f, i) \in DOMAIN Numeral THEN [value |-> Numeral[At(f, i)], next |-> i + 1]
  ELSE [value |-> 0, next |-> i]

Parsed(v, next) == [error |-> "ok", view |-> v, next |-> next]
Refused(v)      == [error |-> "EINVAL", view |-> v, next |-> 0]

SelfStored ==
  [n |-> "na", b |-> "bool", c |-> "int8", C |-> "uint8", s |-> "int16", S |-> "uint16",
   i |-> "int32", I |-> "uint32", l |-> "int64", L |-> "uint64", e |-> "half_float", f |-> "float",
   g |-> "double", z |-> "binary", u |-> "string", Z |-> "large_binary", U |-> "large_string",
   tiM |-> "interval_months", tiD |-> "interval_day_time", tin |-> "interval_month_day_nano",
   vu |-> "string_view", vz |-> "binary_view"]
Nested ==
  [head \in {"+l", "+L", "+r", "+s", "+m"} |->
     CASE head = "+l" -> "list" [] head = "+L" -> "large_list" [] head = "+r" -> "run_end_encoded"
       [] head = "+s" -> "struct" [] head = "+m" -> "map"]
DateTime ==          \* type, storage type and time unit, if the format says one
  [tdD |-> <<"date32", "int32", "">>, tdm |-> <<"date64", "int64", "">>,
   tts |-> <<"time32", "int32", "s">>, ttm |-> <<"time32", "int32", "m">>,
   ttu |-> <<"time64", "int64", "u">>, ttn |-> <<"time64", "int64", "n">>,
   tDs |-> <<"duration", "int64", "s">>, tDm |-> <<"duration", "int64", "m">>,
   tDu |-> <<"duration", "int64", "u">>, tDn |-> <<"duration", "int64", "n">>,
   tss |-> <<"timestamp", "int64", "s">>, tsm |-> <<"timestamp", "int64", "m">>,
   tsu |-> <<"timestamp", "int64", "u">>, tsn |-> <<"timestamp", "int64", "n">>]

SetPrimitive(v, type) == [v EXCEPT !.type = type, !.storage = type]

ParseDateTime(v, f) ==
  LET d == DateTime[f[1]]
      w == [v EXCEPT !.type = d[1], !.storage = d[2], !.unit = IF d[3] = "" THEN @ ELSE d[3]] IN
  IF d[1] # "timestamp" THEN Parsed(w, 2)
  ELSE IF At(f, 2) # ":" THEN Refused(v)
  ELSE Parsed([w EXCEPT !.timezone = SubSeq(f, 3, Len(f))], Len(f) + 1)

DecimalOf(bitwidth) ==
  CASE bitwidth = 32 -> "decimal32" [] bitwidth = 64 -> "decimal64"
    [] bitwidth = 128 -> "decimal128" [] bitwidth = 256 -> "decimal256" [] OTHER -> "none"
KeptBitWidth(v)    == v.bitwidth      \* mutant
DefaultBitWidth(v) == 128
ParseDecimal(v, f) ==
  LET precision == Strtol(f, 3)
      scale == Strtol(f, precision.next + 1)
      width == Strtol(f, scale.next + 1)
      given == At(f, scale.next) = ","
      bits  == IF given THEN ToInt32(width.value) ELSE DefaultBitWidth(v) IN
  IF \/ At(f, 2) # ":" \/ precision.next = 3 \/ At(f, precision.next) # ","
     \/ scale.next = precision.next + 1
     \/ (given /\ width.next = scale.next + 1)
     \/ DecimalOf(bits) = "none"
  THEN Refused(v)
  ELSE Parsed([SetPrimitive(v, DecimalOf(bits)) EXCEPT !.precision = ToInt32(precision.value),
                 !.scale = ToInt32(scale.value), !.bitwidth = bits],
              IF given THEN width.next ELSE scale.next)

ParseFixedSize(v, f) ==
  LET size == Strtol(f, 3) IN
  IF At(f, 2) # ":" \/ Len(f) < 3 THEN Refused(v)
  ELSE Parsed([SetPrimitive(v, IF f[1] = "w" THEN "fixed_size_binary" ELSE "fixed_size_list")
                 EXCEPT !.fixed_size = ToInt32(size.value)], size.next)

(* _ArrowParseUnionTypeIds: how many type ids, or -1.                      *)
IsTypeId(t) == t \in DOMAIN Numeral /\ Numeral[t] \in 0..127
CountTypeIds(ids) ==
  CASE ids = <<>> -> 0
    [] /\ Len(ids) % 2 = 1
       /\ \A i \in DOMAIN ids : IF i % 2 = 1 THEN IsTypeId(ids[i]) ELSE ids[i] = "," -> (Len(ids) + 1) \div 2
    [] OTHER -> -1
AnyCount(ids, n)  == CountTypeIds(ids) # -1                          \* mutant
CountFits(ids, n) == CountTypeIds(ids) = n
ParseUnion(v, f, n_children) ==
  LET ids == SubSeq(f, 3, Len(f)) IN
  IF At(f, 2) # ":" \/ ~CountFits(ids, n_children) THEN Refused(v)
  ELSE Parsed([SetPrimitive(v, IF f[1] = "+ud" THEN "dense_union" ELSE "sparse_union")
                 EXCEPT !.type_ids = ids], Len(f) + 1)

Parse(v, s) ==
  LET f == s.format  head == f[1] IN
  CASE head \in DOMAIN SelfStored -> Parsed(SetPrimitive(v, SelfStored[head]), 2)
    [] head \in DOMAIN Nested -> Parsed(SetPrimitive(v, Nested[head]), 2)
    [] head \in DOMAIN DateTime -> ParseDateTime(v, f)
    [] head = "d" -> ParseDecimal(v, f)
    [] head \in {"w", "+w"} -> ParseFixedSize(v, f)
    [] head \in {"+ud", "+us"} -> ParseUnion(v, f, Len(s.children))
    [] OTHER -> Refused(v)

---------------------------------------------------------------------------
(* Validation of a schema against the type read from its format: "ok",     *)
(* "EINVAL", or "wild" when C reads a NULL format or memory nobody wrote.  *)

Integers == {"uint8", "int8", "uint16", "int16", "uint32", "int32", "uint64", "int64"}

ValidateNChildren(s, n) ==           \* -1: as many as there are
  IF n \in {-1, Len(s.children)} /\ \A i \in DOMAIN s.children : s.children[i].live THEN "ok"
  ELSE "EINVAL"

ValidateMap(s) ==
  IF ValidateNChildren(s, 1) # "ok" THEN "EINVAL"
  ELSE LET entries == s.children[1] IN
    IF Len(entries.children) # 2 THEN "EINVAL"
    ELSE IF entries.format = <<>> THEN "wild"
    ELSE IF entries.format # <<"+s">> \/ "nullable" \in entries.flags THEN "EINVAL"
    ELSE IF ~entries.children[1].live THEN "wild"
    ELSE IF "nullable" \in entries.children[1].flags THEN "EINVAL"
    ELSE "ok"

NChildren(type) ==
  CASE type \in {"list", "large_list", "fixed_size_list"} -> 1
    [] type = "run_end_encoded" -> 2
    [] type \in {"struct", "sparse_union", "dense_union"} -> -1
    [] OTHER -> 0

(* The indices are checked, then the dictionary, through a view of its     *)
(* own: inner is what that comes to.                                       *)
ValidateDictionary(v, inner) ==
  IF v.storage \notin Integers THEN "EINVAL" ELSE inner

Validate(v, s, type, inner) ==
  CASE type = "fixed_size_binary" /\ v.fixed_size <= 0 -> "EINVAL"
    [] type = "map" -> ValidateMap(s)
    [] type = "dictionary" -> ValidateDictionary(v, inner)
    [] OTHER -> ValidateNChildren(s, NChildren(type))

FlagsFit(s, type) ==
  /\ s.flags \subseteq {"nullable", "dictionary_ordered", "map_keys_sorted"}
  /\ "dictionary_ordered" \in s.flags => type = "dictionary"
  /\ "map_keys_sorted" \in s.flags => type = "map"

(* The two members of the layout that depend on the format's argument.     *)
Layout(v) ==
  [v EXCEPT !.element_bits = IF v.storage = "fixed_size_binary" THEN ToInt32(v.fixed_size * 8) ELSE 0,
            !.child_size   = IF v.storage = "fixed_size_list" THEN v.fixed_size ELSE 0]

(* What was read of s into r.view is checked, and w taken over or refused. *)
Typed(r, s) == IF s.dictionary # <<>> THEN [r.view EXCEPT !.type = "dictionary"] ELSE r.view
Verdict(w, s, inner) ==
  LET first == Validate(w, s, w.storage, inner) IN
    IF first = "ok" /\ w.type # w.storage THEN Validate(w, s, w.type, inner) ELSE first
Unreadable(r, s) == r.error # "ok" \/ r.next # Len(s.format) + 1
Checked(v, s, r, w, verdict) ==
  IF Unreadable(r, s) THEN Refused(v)
  ELSE IF verdict # "ok" THEN [Refused(v) EXCEPT !.error = verdict]
  ELSE IF ~FlagsFit(s, w.type) THEN Refused(v)
  ELSE Parsed([Layout(w) EXCEPT !.extension = s.extension], r.next)
ViewLevel(v, s, inner) ==
  LET r == Parse(v, s)
      w == Typed(r, s)
  IN  IF ~s.live \/ s.format = <<>> THEN Refused(v) ELSE Checked(v, s, r, w, Verdict(w, s, inner))

(* node[k] is the schema k dictionaries down, below[room] what the check   *)
(* of a dictionary comes to when so many more views fit on the stack.      *)
ViewInit(v, s) ==
  LET node[k \in 0..StackDepth] == IF k = 0 THEN s ELSE node[k - 1].dictionary[1]
      below[room \in 0..StackDepth] ==
        IF room = 0 THEN "wild" ELSE ViewLevel(v, node[StackDepth - room + 1], below[room - 1]).error
  IN  ViewLevel(v, s, below[StackDepth])

---------------------------------------------------------------------------
(* The calls. A path leads from the schema to a child, 0 to the dictionary.*)

Paths == {<<>>, <<0>>, <<1>>, <<1, 1>>}
HasStep(s, k) == IF k = 0 THEN s.dictionary # <<>> ELSE k <= Len(s.children)
NodeAfter(s, k) == IF k = 0 THEN s.dictionary[1] ELSE s.children[k]
HasNode(p) ==
  CASE Len(p) = 0 -> TRUE
    [] Len(p) = 1 -> HasStep(schema, p[1])
    [] OTHER -> HasStep(schema, p[1]) /\ HasStep(NodeAfter(schema, p[1]), p[2])
NodeAt(p) ==
  CASE p = <<>> -> schema
    [] Len(p) = 1 -> NodeAfter(schema, p[1])
    [] OTHER -> NodeAfter(NodeAfter(schema, p[1]), p[2])
Replaced(p, node) ==
  CASE p = <<>> -> node
    [] p = <<0>> -> [schema EXCEPT !.dictionary[1] = node]
    [] Len(p) = 1 /\ p # <<0>> -> [schema EXCEPT !.children[p[1]] = node]
    [] OTHER -> [schema EXCEPT !.children[p[1]].children[p[2]] = node]

NoCall == [call |-> "none", args |-> <<>>, path |-> <<>>, error |-> "ok", fresh |-> FALSE]

Changes(p, call, args, r) ==
  /\ calls < MaxCalls
  /\ calls' = calls + 1
  /\ schema' = Replaced(p, r.node)
  /\ last' = [call |-> call, args |-> args, path |-> p, error |-> r.error, fresh |-> NodeAt(p) = Fresh]
  /\ viewed' = FALSE
  /\ UNCHANGED view

(* What each setter makes of a node.                                       *)
Result(call, args, s) ==
  CASE call = "SetType" -> SetType(s, args[1])
    [] call = "SetTypeStruct" -> SetTypeStruct(s, args[1])
    [] call = "SetTypeFixedSize" -> SetTypeFixedSize(s, args[1], args[2])
    [] call = "SetTypeDecimal" -> SetTypeDecimal(s, args[1], args[2], args[3])
    [] call = "SetTypeRunEndEncoded" -> SetTypeRunEndEncoded(s, args[1])
    [] call = "SetTypeDateTime" -> SetTypeDateTime(s, args[1], args[2], args[3])
    [] call = "SetTypeUnion" -> SetTypeUnion(s, args[1], args[2])

Set(p) ==
  \E c \in SetterCalls :
    /\ HasNode(p) /\ NodeAt(p).live
    /\ Changes(p, c[1], c[2], Result(c[1], c[2], NodeAt(p)))

Allocate(p) ==
  \E n \in 1..2 :
    /\ HasNode(p) /\ NodeAt(p).live
    /\ Changes(p, "AllocateChildren", <<n>>, AllocateChildren(NodeAt(p), n))

AllocateDict ==
  Changes(<<>>, "AllocateDictionary", <<>>, AllocateDictionary(schema))

(* ArrowSchemaInitFromType, of memory that holds no schema.                *)
InitNode(p) ==
  \E type \in {"struct", "string", "int32"} :
    /\ HasNode(p) /\ ~NodeAt(p).live
    /\ Changes(p, "InitFromType", <<type>>, InitFromType(type))

(* The user sets the flags, or metadata that may hold an extension name.   *)
SetFlags(p) ==
  \E flags \in FlagSets :
    /\ HasNode(p) /\ NodeAt(p).live
    /\ Changes(p, "flags", <<>>, Done([NodeAt(p) EXCEPT !.flags = flags]))
SetMetadata ==
  \E name \in ExtensionNames :
    Changes(<<>>, "SetMetadata", <<>>, Done([schema EXCEPT !.extension = name]))

(* ArrowSchemaViewInit on a view that may have been used before.           *)
View ==
  /\ ViewInit(view, schema).error # "wild"
  /\ view' = ViewInit(view, schema).view
  /\ viewed' = (ViewInit(view, schema).error = "ok")
  /\ UNCHANGED <<schema, last, calls>>

SchemaInit ==
  /\ schema \in {Fresh} \cup ForeignNodes
  /\ view \in OldViews
  /\ viewed = FALSE
  /\ last = NoCall
  /\ calls = IF schema = Fresh THEN 0 ELSE MaxCalls

SchemaNext ==
  \/ \E p \in Paths : Set(p) \/ Allocate(p) \/ InitNode(p) \/ SetFlags(p)
  \/ AllocateDict \/ SetMetadata \/ View

SchemaSpec == SchemaInit /\ [][SchemaNext]_schemaVars

---------------------------------------------------------------------------
(* Properties.                                                             *)

Blank == [type |-> "none", storage |-> "none", unit |-> "", precision |-> 0, scale |-> 0,
          bitwidth |-> 0, fixed_size |-> 0, type_ids |-> <<>>, timezone |-> <<>>,
          element_bits |-> 0, child_size |-> 0, extension |-> ""]
Outcome(node) == {ViewInit(Blank, node)}                 \* of one element
Accepted(node) == {r.view : r \in {q \in Outcome(node) : q.error = "ok"}}

(* The members of a view a reader of its type may look at.                 *)
Members(v) ==
  [type |-> v.type, storage |-> v.storage, extension |-> v.extension,
   element_bits |-> v.element_bits, child_size |-> v.child_size,
   arguments |->
     CASE v.type \in DOMAIN BitWidthArgument -> <<v.precision, v.scale, v.bitwidth>>
       [] v.type \in {"fixed_size_binary", "fixed_size_list"} -> <<v.fixed_size>>
       [] v.type \in {"time32", "time64", "duration"} -> <<v.unit>>
       [] v.type = "timestamp" -> <<v.unit, v.timezone>>
       [] v.type \in {"sparse_union", "dense_union"} -> v.type_ids
       [] OTHER -> <<>>]

(* What a setter call says of the schema.                                  *)
Asked(call, a) ==
  CASE call = "SetType" -> <<a[1], <<>>>>
    [] call = "SetTypeStruct" -> <<"struct", <<>>>>
    [] call = "SetTypeFixedSize" -> <<a[1], <<a[2]>>>>
    [] call = "SetTypeDecimal" ->
         <<a[1], <<a[2], a[3], [decimal32 |-> 32, decimal64 |-> 64, decimal128 |-> 128, decimal256 |-> 256][a[1]]>>>>
    [] call = "SetTypeRunEndEncoded" -> <<"run_end_encoded", <<>>>>
    [] call = "SetTypeDateTime" -> <<a[1], IF a[1] = "timestamp" THEN <<a[2], Zone(a[3])>> ELSE <<a[2]>>>>
    [] call = "SetTypeUnion" -> <<a[1], TypeIds(a[2])>>

(* A setter that succeeds on a new schema has written a format, and        *)
(* children, from which ArrowSchemaViewInit reads the same type and        *)
(* arguments: for every setter, whatever the view was used for before.     *)
SetterIsViewed ==
  (/\ last.fresh /\ last.error = "ok" /\ last.path = <<>>
   /\ last.call \in {c[1] : c \in SetterCalls} /\ schema.format # <<>>) =>
    \A r \in {ViewInit(old, schema) : old \in OldViews} :
      /\ r.error = "ok"
      /\ <<r.view.type, Members(r.view).arguments>> = Asked(last.call, last.args)

(* However a schema came about (setters that failed half-way, children     *)
(* allocated by hand, formats of another library), one that                *)
(* ArrowSchemaViewInit accepts has what the array functions take from it   *)
(* without a look: live children in the number the type needs; type ids    *)
(* from 0 to 127 in a union's format, as many as it has children, and      *)
(* nothing after them; elements of some size; integral indices of a        *)
(* dictionary that is accepted itself. An element of more than IntMax bits *)
(* is excepted (fixed_size * 8 overflows). Not promised: that type ids     *)
(* differ, or that a fixed-size list has a size above 0; the code looks at *)
(* neither.                                                                *)
AcceptedIsUsable ==
  \A v \in Accepted(schema) :
    /\ \A i \in DOMAIN schema.children : schema.children[i].live
    /\ Len(schema.children) =
         CASE v.storage \in {"list", "large_list", "fixed_size_list", "map"} -> 1
           [] v.storage = "run_end_encoded" -> 2
           [] v.storage \in {"struct", "sparse_union", "dense_union"} -> Len(schema.children)
           [] OTHER -> 0
    /\ v.storage = "map" => Len(schema.children[1].children) = 2
    /\ v.storage \in {"sparse_union", "dense_union"} =>
         /\ {k \in DOMAIN v.type_ids : k % 2 = 1} = {2 * i - 1 : i \in DOMAIN schema.children}
         /\ \A i \in DOMAIN schema.children : Numeral[v.type_ids[2 * i - 1]] \in 0..127
         /\ v.type_ids # <<>> => Len(v.type_ids) = 2 * Len(schema.children) - 1
    /\ v.storage = "fixed_size_binary" => v.element_bits > 0 \/ v.fixed_size > IntMax \div 8
    /\ (v.type = "dictionary") = (schema.dictionary # <<>>)
    /\ v.type = "dictionary" =>
         v.storage \in Integers /\ Accepted(schema.dictionary[1]) # {}

(* A view tells nothing of the schemas it was used for before: what a      *)
(* reader of its type may look at is what a new view would hold.           *)
ViewIsFresh == viewed => \A r \in Outcome(schema) : Members(view) = Members(r.view)
=============================================================================
