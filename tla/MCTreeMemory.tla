---------------------------- MODULE MCTreeMemory ----------------------------
(* Small instances of TreeMemory: a struct of two fields of which the      *)
(* second is dictionary-encoded, and a list of structs. The root and the   *)
(* first child may be unions.                                              *)
EXTENDS TreeMemory

TwoShapes ==
  {{<<>>, <<1>>, <<2>>, <<2, 0>>}, {<<>>, <<1>>, <<1, 1>>}}
SomeUnions == {<<>>, <<1>>}
=============================================================================
