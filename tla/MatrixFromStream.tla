-------------------------- MODULE MatrixFromStream --------------------------
(***************************************************************************)
(* What collectMatrixFromStream promises the R code that calls it          *)
(* (src/man/collectMatrixFromStream.Rd, src/inst/tinytest/test_stream.R):  *)
(* a call takes the stream out of the R object, works on it, and either    *)
(* delivers the stream as one matrix or fails. When it returns, nothing    *)
(* the producer lent is still out and the stream is released, so only a    *)
(* call that found the stream in the R object can deliver.                 *)
(***************************************************************************)
VARIABLES
  arrays,       \* what the stream may lend: its arrays, and 0 for its schema
  whole,        \* does the stream deliver no released array before its end?
  matrix,       \* the stream as a matrix
  stream,       \* who owns the stream: "R", "call" or "nobody" (released)
  lent,         \* what the producer handed over and nobody released yet
  busy,         \* is a call running?
  outcome,      \* "none", "ok" or "error": what the last call returned
  value         \* the matrix it returned

vars == <<arrays, whole, matrix, stream, lent, busy, outcome, value>>

Init ==
  /\ stream = "R" /\ lent = {} /\ busy = FALSE
  /\ outcome = "none" /\ value = <<>>

(* A call refuses an R object that is not a stream, and leaves it alone. *)
Refuse ==
  /\ ~busy
  /\ outcome' = "error" /\ value' = <<>>
  /\ UNCHANGED <<arrays, whole, matrix, stream, lent, busy>>

(* A call moves the stream out of the R object. *)
Begin ==
  /\ ~busy
  /\ busy' = TRUE
  /\ stream' = IF stream = "R" THEN "call" ELSE stream
  /\ outcome' = "none" /\ value' = <<>>
  /\ UNCHANGED <<arrays, whole, matrix, lent>>

(* It borrows arrays and the schema, and gives them back. *)
Work ==
  /\ busy /\ stream = "call"
  /\ lent' \in SUBSET arrays
  /\ UNCHANGED <<arrays, whole, matrix, stream, busy, outcome, value>>

Return ==
  /\ busy /\ lent = {}
  /\ \/ /\ stream = "call"
        /\ outcome' = "ok" /\ value' = matrix
     \/ outcome' = "error" /\ UNCHANGED value
  /\ stream' = "nobody" /\ busy' = FALSE
  /\ UNCHANGED <<arrays, whole, matrix, lent>>

(* R collects the object. *)
Drop ==
  /\ ~busy /\ stream = "R"
  /\ stream' = "nobody"
  /\ UNCHANGED <<arrays, whole, matrix, lent, busy, outcome, value>>

Next == Refuse \/ Begin \/ Work \/ Return \/ Drop

Spec == Init /\ [][Next]_vars

(* A call that runs comes to an end, if it need not read released arrays.  *)
Returns == []<>(~busy \/ ~whole)
=============================================================================
