------------------------- MODULE CollectRefinement -------------------------
(* The stepwise function implements its contract, MatrixFromStream.        *)
EXTENDS CollectStream, SequencesExt

(* The stream as a matrix: its kept arrays, one below the other.           *)
Block(a) ==
  [r \in 1..source[a].length |-> [c \in 1..K |-> CopiedCell(a, c, r - 1)]]
Blocks == [a \in 1..Cardinality(Kept) |-> Block(a)]
Concatenation == FlattenSeq(Blocks)

(* What a caller sees of a state.                                          *)
Running  == pc \notin {"idle", "gone"}
Holder   == IF robj THEN "R" ELSE IF aas THEN "call" ELSE "nobody"
Borrowed == {a \in DOMAIN source : Owned(a)} \cup (IF sch THEN {0} ELSE {})
Outcome  == IF Running THEN "none" ELSE result
Value    == IF Running THEN <<>> ELSE m

Promise == INSTANCE MatrixFromStream WITH
  arrays  <- 0..Len(source),
  whole   <- AllFilled,
  matrix  <- Concatenation,
  stream  <- Holder,
  lent    <- Borrowed,
  busy    <- Running,
  outcome <- Outcome,
  value   <- Value

(* Whatever the producer does, a caller sees the contract: a call delivers *)
(* the concatenation of the stream or fails, returns what it borrowed, and *)
(* only the first call on an R object can deliver.                         *)
KeepsPromise == Promise!Spec

(* Every call returns: the stream is finite, and the loops advance. A slot *)
(* that nobody filled may instead lead it into undefined behaviour.        *)
CallReturns == Promise!Returns
=============================================================================
