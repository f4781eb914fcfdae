---------------------------- MODULE MCCliProcess ----------------------------
(* CliProcess for model checking; its sets are finite as they stand. *)
EXTENDS CliProcess
=============================================================================
