------------------------ MODULE MCCollectRefinement ------------------------
(* A small instance of CollectRefinement.                                  *)
EXTENDS CollectRefinement, MCCollect
=============================================================================
