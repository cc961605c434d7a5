----------------------------- MODULE MCHelpers ------------------------------
EXTENDS Helpers

MCRuns      == {0, 1, 6, 18}
MCBitRows   == {<<1, 0>>, <<0, 1, 1, 0, 1, 0, 0, 1, 1, 0, 1>>}
MCLeftovers == {{}, Positions}

(* The limits of each width and of half a word, groups of digits that are  *)
(* 0, and a spread between.                                                *)
MCInts == {-8192, -8191, -129, -128, -64, -1, 0, 5, 63, 64, 99, 100, 127, 128, 8191}
          \cup {37 * k : k \in -221..221}
DigitsOf(number) ==
  LET width == CHOOSE w \in 1..9 : number < 10^w /\ (w = 1 \/ number >= 10^(w - 1)) IN
    PaddedDigits(number, width)
MCTexts ==
  {DigitsOf(number) : number \in {0, 7, 64, 100, 16383, 16384, 134217727}}
  \cup {<<Minus>> \o DigitsOf(number) : number \in {0, 64, 128, 10000, 16384, 134217728}}
  \cup {<<Plus, 0, 0, 4, 2>>, <<4, Minus>>, <<Minus>>, <<1, 0, 0, 2, 0, 0, 3, 0, 0>>}
MCBlocks == {<<0, 1>>, <<0, 8192>>, <<16383, 16383>>, <<128, 0>>, <<8192, 77>>}

MCKeys     == {<<>>, <<1>>, <<1, 2>>}
MCValues   == {<<>>, <<2>>}
MCImported == {<<>>, <<<<<<1>>, <<2>>>>>>, <<<<<<1>>, <<>>>>, <<<<1, 2>>, <<2>>>>, <<<<1>>, <<2>>>>>>}

MCOffsets == {o \in UNION {[0..k -> 0..4] : k \in 1..5} :
                o[0] = 0 /\ \A i, j \in DOMAIN o : i <= j => o[i] <= o[j]}

---------------------------------------------------------------------------
(* Schemas.                                                                *)

MCIntMax == 1023
MCNumeral == [t \in {ToString(number) : number \in {-1, 0, 1, 2, 3, 32, 64, 128, 256, 2047}} |->
                CHOOSE number \in {-1, 0, 1, 2, 3, 32, 64, 128, 256, 2047} : ToString(number) = t]

Types == (DOMAIN FormatTemplate) \cup
         {"uninitialized", "decimal128", "timestamp", "fixed_size_list", "dense_union", "dictionary"}
MCLongZones == {<<"Long">>}
MCSetterCalls ==
  {<<"SetType", <<type>>>> : type \in Types}
  \cup {<<"SetTypeStruct", <<many>>>> : many \in 0..2}
  \cup {<<"SetTypeFixedSize", <<type, size>>>> :
          type \in {"fixed_size_binary", "fixed_size_list", "binary"}, size \in {-1, 0, 3, 128}}
  \cup {<<"SetTypeDecimal", <<type, p[1], p[2]>>>> :
          type \in {"decimal32", "decimal64", "decimal128", "decimal256", "double"},
          p \in {<<0, 2>>, <<1, -1>>, <<32, 0>>}}
  \cup {<<"SetTypeRunEndEncoded", <<type>>>> : type \in {"int8", "int16", "int32", "int64"}}
  \cup {<<"SetTypeDateTime", <<type, unit, NoZone>>>> :
          type \in {"time32", "time64", "timestamp", "duration", "date32"},
          unit \in {"s", "m", "u", "n", "h"}}
  \cup {<<"SetTypeDateTime", <<type, unit, zone>>>> :
          type \in {"timestamp", "duration"}, unit \in {"s", "n"}, zone \in {<<>>, <<"UTC">>, <<"Long">>}}
  \cup {<<"SetTypeUnion", <<type, many>>>> :
          type \in {"sparse_union", "dense_union", "struct"}, many \in -1..2}

(* Foreign formats: one a setter writes, with a token dropped, replaced or *)
(* added. Two numbers in a row would be one number.                        *)
Written == {Result(c[1], c[2], Fresh).node.format : c \in MCSetterCalls} \ {<<>>}
Tokens  == {",", ":", "x", "-1", "0", "64", "2047", "i", "d", "w", "+us", "tss"}
Foreign ==
  {f \in Written \cup UNION {{RemoveAt(f, i) : i \in DOMAIN f} : f \in Written}
       \cup UNION {{ReplaceAt(f, i, t) : i \in DOMAIN f, t \in Tokens} : f \in Written}
       \cup {Append(f, t) : f \in Written, t \in Tokens} :
     \A i \in 1..(Len(f) - 1) : ~(f[i] \in DOMAIN MCNumeral /\ f[i + 1] \in DOMAIN MCNumeral)}
MCFlagSets == {{}, {"dictionary_ordered"}, {"nullable", "map_keys_sorted"}, {"unknown"}}
Child == [Fresh EXCEPT !.format = <<"i">>]
MCForeignNodes ==
  {[Fresh EXCEPT !.format = f, !.children = [i \in 1..many |-> Child]] : f \in Foreign \ {<<>>}, many \in 0..2}
  \cup {[Fresh EXCEPT !.format = f, !.flags = flags, !.dictionary = <<d>>] :
          f \in Written, flags \in MCFlagSets, d \in {Unset, Child, [Child EXCEPT !.format = <<"+l">>],
                                               [Child EXCEPT !.dictionary = <<Child>>]}}

Junk == [Blank EXCEPT !.type = "timestamp", !.storage = "int64", !.unit = "u", !.precision = 3, !.scale = 1,
           !.bitwidth = 64, !.fixed_size = 3, !.type_ids = <<"0">>, !.timezone = <<"UTC">>,
           !.element_bits = 24, !.child_size = 3, !.extension = "geo"]
MCOldViews == {Blank, Junk}
=============================================================================
