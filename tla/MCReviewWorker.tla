--------------------------- MODULE MCReviewWorker ---------------------------
(* Bounds for model checking ReviewWorker: a review that is cancelled twice  *)
(* beside one that is not, and the least that jams a worker.                 *)
EXTENDS ReviewWorker

CONSTANT r1

Twice == {[target |-> r1, uuid |-> 1], [target |-> r1, uuid |-> 2]}

Once == {[target |-> r1, uuid |-> 1]}
=============================================================================
