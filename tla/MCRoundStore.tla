----------------------------- MODULE MCRoundStore -----------------------------
(* RoundStore for model checking; its sets are finite as they stand. *)
EXTENDS RoundStore
=============================================================================
