--------------------------- MODULE MCFactorLevels ---------------------------
(* Small instances of FactorLevels: the empty string, a string, one that   *)
(* continues it and one that follows it.                                   *)
EXTENDS FactorLevels

FourTexts  == {<<>>, <<1>>, <<1, 1>>, <<2>>}
ThreeTexts == {<<>>, <<1>>, <<1, 1>>}
=============================================================================
