---------------------------- MODULE ArrowStream ----------------------------
(***************************************************************************)
(* What a consumer may rely on when it holds an ArrowArrayStream (the      *)
(* comments of struct ArrowArrayStream, src/src/nanoarrow/nanoarrow.h):    *)
(* get_next delivers the arrays in order, each once, then a released array *)
(* which says that the stream has ended, at every further call. A struct   *)
(* whose release callback is NULL answers with an error.                   *)
(***************************************************************************)
EXTENDS Naturals, Sequences

VARIABLES
  exported,     \* has the producer finished the stream?
  left,         \* the arrays to deliver
  open,         \* has the stream not been released?
  reply         \* the last answer of get_next: "none", "array", "end", "error"

vars == <<exported, left, open, reply>>

Init == exported = FALSE /\ left = <<>> /\ open = FALSE /\ reply = <<"none", 0>>

(* The producer hands the stream over. *)
Export ==
  /\ ~exported
  /\ exported' = TRUE /\ left' \in Seq(Nat \ {0}) /\ open' = TRUE
  /\ UNCHANGED reply

Deliver ==
  /\ open /\ left # <<>>
  /\ reply' = <<"array", Head(left)>> /\ left' = Tail(left)
  /\ UNCHANGED <<exported, open>>

End ==
  /\ open /\ left = <<>>
  /\ reply' = <<"end", 0>>
  /\ UNCHANGED <<exported, left, open>>

(* A call through a struct that was moved from or released. *)
Refuse ==
  /\ exported
  /\ reply' = <<"error", 0>>
  /\ UNCHANGED <<exported, left, open>>

Release ==
  /\ open
  /\ open' = FALSE /\ left' = <<>>
  /\ UNCHANGED <<exported, reply>>

Next == Export \/ Deliver \/ End \/ Refuse \/ Release
Spec == Init /\ [][Next]_vars
=============================================================================
