---------------------------- MODULE SessionTurns ----------------------------
(***************************************************************************)
(* What a sessions root promises: its sessions are debated one at a time,  *)
(* each from its start to its end, and none again after that.              *)
(***************************************************************************)
CONSTANT Names   \* names of sessions

VARIABLE life    \* of each session: "new", "active" or "ended"

Init == life = [s \in Names |-> "new"]

Start(s) ==
  /\ life[s] = "new"
  /\ \A t \in Names : life[t] # "active"
  /\ life' = [life EXCEPT ![s] = "active"]

End(s) ==
  /\ life[s] = "active"
  /\ life' = [life EXCEPT ![s] = "ended"]

Next == \E s \in Names : Start(s) \/ End(s)

Spec == Init /\ [][Next]_life
=============================================================================
