---------------------------- MODULE RoundHistory ----------------------------
(***************************************************************************)
(* What the engine and the store keep together: a debate is a history of   *)
(* committed rounds, of which only the next is ever under review, and which*)
(* grows by a round that was.  A history is cut short only by a power      *)
(* failure, and as long as it is not broken -- no round that recover had   *)
(* returned is gone -- nothing beyond its next round was ever reviewed.    *)
(*                                                                         *)
(* SessionEngine implements it with what it publishes to the workers, and  *)
(* RoundStore with what is on the disk.                                    *)
(***************************************************************************)
EXTENDS Naturals

VARIABLES
  rounds,     \* how many rounds are committed
  submitted,  \* reviews ever submitted; the field round is that of the debate
  broken      \* a round that was relied on is gone

Init == rounds = 0 /\ submitted = {} /\ broken = FALSE

Submit(j) ==
  /\ j.round = rounds + 1
  /\ submitted' = submitted \cup {j}
  /\ UNCHANGED <<rounds, broken>>

Commit ==
  /\ \E j \in submitted : j.round = rounds + 1
  /\ rounds' = rounds + 1
  /\ UNCHANGED <<submitted, broken>>

Cut ==
  /\ rounds' \in 0 .. rounds
  /\ broken => broken'
  /\ broken' \/ \A j \in submitted : j.round <= rounds' + 1
  /\ UNCHANGED submitted

Next == Commit \/ Cut \/ \E j \in submitted' : Submit(j)

Spec == Init /\ [][Next]_<<rounds, submitted, broken>>
=============================================================================
