-------------------------- MODULE MCSessionEngine --------------------------
(* Bounds for model checking SessionEngine: the grants a session can be given *)
(* are as many as its commands, so every set below is finite.                 *)
EXTENDS SessionEngine, TLC

CommandSymmetry == Permutations(CommandIds)
=============================================================================
