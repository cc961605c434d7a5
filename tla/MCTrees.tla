------------------------------ MODULE MCTrees ------------------------------
(* Trees are written nested in the MC modules, kids and dict being the     *)
(* nodes below, and laid out here in the order of a recursion: Tree(x) is  *)
(* the sequence of nodes that ViewOperations speaks of.                    *)
EXTENDS Integers, Sequences, SequencesExt, TLC

RECURSIVE NodeCount(_), LaidOut(_, _, _)
NodeCount(x) == FoldLeft(LAMBDA n, y : n + NodeCount(y), 1, x.kids \o x.dict)

(* x and what is below it, where x is at a position and below another one. *)
LaidOut(x, at, up) ==
  LET below == x.kids \o x.dict
      start[k \in 1..(Len(below) + 1)] ==
        IF k = 1 THEN at + 1 ELSE start[k - 1] + NodeCount(below[k - 1])
      node == [x EXCEPT !.kids = [k \in DOMAIN x.kids |-> start[k]],
                        !.dict = [k \in DOMAIN x.dict |-> start[Len(x.kids) + k]]]
  IN  <<[up |-> up, last |-> start[Len(below) + 1] - 1] @@ node>>
      \o FlattenSeq([k \in DOMAIN below |-> LaidOut(below[k], start[k], at)])
Tree(x) == LaidOut(x, 1, 0)
=============================================================================
