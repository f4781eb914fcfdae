------------------------------ MODULE RoundLog ------------------------------
(***************************************************************************)
(* What a session store promises its engine and every reader: a log of     *)
(* numbered rounds that grows at its end.  An entry may disappear again    *)
(* only in a power failure, only together with all that follow it, and     *)
(* never once it is settled.  No entry is ever replaced.                   *)
(***************************************************************************)
EXTENDS Naturals

CONSTANT Entries   \* what can be logged; the field round is its number

VARIABLES
  log,      \* the entries a reader finds
  settled   \* those of them that no power failure takes away

Numbers(S) == {e.round : e \in S}

Init == log = {} /\ settled = {}

Append ==
  /\ \E e \in Entries :
       /\ Numbers(log) = 1 .. e.round - 1
       /\ log' = log \cup {e}
  /\ UNCHANGED settled

Settle == settled' = log /\ UNCHANGED log

Cut ==
  /\ \E n \in {0} \cup Numbers(log) : log' = {e \in log : e.round <= n}
  /\ settled \subseteq log'
  /\ settled' = log'

Next == Append \/ Settle \/ Cut

Spec == Init /\ [][Next]_<<log, settled>>
=============================================================================
