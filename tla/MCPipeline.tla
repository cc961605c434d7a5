----------------------------- MODULE MCPipeline -----------------------------
EXTENDS Pipeline

(* Slots with an array of no or one row, and slots nobody filled, whose    *)
(* struct says anything of its length.                                     *)
Slots ==
  {[set |-> set, length |-> length, offset |-> 0,
    clen |-> [c \in 1..K |-> longer], coff |-> [c \in 1..K |-> 0]] :
     set \in BOOLEAN, length \in {0, 1}, longer \in {1, 2}}
=============================================================================
