------------------------------- MODULE Helpers ------------------------------
(***************************************************************************)
(* The parts of nanoarrow that do not call one another: bitmaps, decimals, *)
(* schema metadata, the search for a chunk, a schema's setters and its     *)
(* view, the stream in C and the streams in C++. A behaviour takes one of  *)
(* them through its calls and leaves the others as they begin, so one      *)
(* model run checks them all without multiplying them.                     *)
(***************************************************************************)
EXTENDS Bitmap, Decimal, Metadata, ChunkSearch, SchemaFormat, BasicArrayStream, CppStreams

VARIABLE taken        \* which of them the behaviour is about

helperVars == <<bitmapVars, decimalVars, metadataVars, searchVars>>
streamVars == <<vars, cppVars>>

---------------------------------------------------------------------------
BitmapIdle   == BitmapInit
DecimalIdle  == decimal = [n_words |-> 1, words |-> <<0>>] /\ value = 0 /\ decimalCalls = 0
MetadataIdle == block = NoBlock /\ entries = <<>> /\ builds = 0
SearchIdle ==
  /\ offsets = [i \in 0..1 |-> i] /\ index = 0 /\ hi = 1 /\ lo = 0 /\ n = 1
  /\ searching = TRUE
SchemaIdle ==
  schema = Fresh /\ view = Blank /\ viewed = FALSE /\ last = NoCall /\ calls = 0
StreamIdle == Init
CppIdle    == CppInit /\ given = 0

HelpersInit ==
  /\ taken \in {"bitmap", "decimal", "metadata", "chunk", "schema", "stream", "C++ stream"}
  /\ BitmapIdle /\ StreamIdle          \* both begin in one state only
  /\ IF taken = "decimal"    THEN DecimalInit  ELSE DecimalIdle
  /\ IF taken = "metadata"   THEN MetadataInit ELSE MetadataIdle
  /\ IF taken = "chunk"      THEN SearchInit   ELSE SearchIdle
  /\ IF taken = "schema"     THEN SchemaInit   ELSE SchemaIdle
  /\ IF taken = "C++ stream" THEN CppInit      ELSE CppIdle

HelpersNext ==
  /\ UNCHANGED taken
  /\ \/ /\ \/ taken = "bitmap" /\ BitmapNext /\ UNCHANGED <<decimalVars, metadataVars, searchVars>>
           \/ taken = "decimal" /\ DecimalNext /\ UNCHANGED <<bitmapVars, metadataVars, searchVars>>
           \/ taken = "metadata" /\ MetadataNext /\ UNCHANGED <<bitmapVars, decimalVars, searchVars>>
           \/ taken = "chunk" /\ Probe /\ UNCHANGED <<bitmapVars, decimalVars, metadataVars>>
        /\ UNCHANGED <<schemaVars, streamVars>>
     \/ taken = "schema" /\ SchemaNext /\ UNCHANGED <<helperVars, streamVars>>
     \/ taken = "stream" /\ Next /\ UNCHANGED <<helperVars, schemaVars, cppVars>>
     \/ taken = "C++ stream" /\ CppNext /\ UNCHANGED <<helperVars, schemaVars, vars>>

HelpersSpec ==
  HelpersInit /\ [][HelpersNext]_<<helperVars, schemaVars, streamVars, taken>>
=============================================================================
