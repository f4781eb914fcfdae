------------------------------ MODULE MCDebate ------------------------------
(* Debate for model checking; its sets are finite as they stand. *)
EXTENDS Debate
=============================================================================
