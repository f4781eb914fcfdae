----------------------------- MODULE MCLimitGate -----------------------------
(* LimitGate for model checking; its sets are finite as they stand. *)
EXTENDS LimitGate
=============================================================================
