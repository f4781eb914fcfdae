----------------------------- MODULE ReviewJobs -----------------------------
(***************************************************************************)
(* What a worker promises the engine about review jobs.  A job is published*)
(* once; it is live while its review may still begin or be going on; it    *)
(* stops being live for good, because it was answered or because a         *)
(* cancellation took it back.                                              *)
(*                                                                         *)
(* SessionEngine uses this contract and ReviewWorker provides it.          *)
(***************************************************************************)

CONSTANT Code   \* what an answer may say

VARIABLES
  published,    \* jobs ever published to the worker
  live,         \* those that may still start or be running
  answers       \* [job, code] records

vars == <<published, live, answers>>

Init == published = {} /\ live = {} /\ answers = {}

\* A job withdrawn before it is seen is published without ever being live.
Publish(j) ==
  /\ j \notin published
  /\ published' = published \cup {j}
  /\ live' \in {live, live \cup {j}}
  /\ UNCHANGED answers

Answer(j, code) ==
  /\ j \in live
  /\ live' = live \ {j}
  /\ answers' = answers \cup {[job |-> j, code |-> code]}
  /\ UNCHANGED published

Withdraw(j) ==
  /\ j \in live
  /\ live' = live \ {j}
  /\ UNCHANGED <<published, answers>>

\* Any job may be the next one published.
Next ==
  \/ \E j \in published' \ published : Publish(j)
  \/ \E j \in live : Withdraw(j) \/ \E code \in Code : Answer(j, code)

Spec == Init /\ [][Next]_vars

-----------------------------------------------------------------------------

\* What the engine may conclude: an answered job is not live any more and has one
\* answer, so an answer, however late, is final and stands for one review.
AnswersFinal ==
  /\ live \subseteq published
  /\ \A a \in answers : a.job \in published \ live
  /\ \A a, b \in answers : a.job = b.job => a = b
=============================================================================
