-------------------------- MODULE ReviewJobs_proofs --------------------------
(***************************************************************************)
(* What follows from the contract alone, for whoever keeps it.             *)
(***************************************************************************)
EXTENDS ReviewJobs, TLAPS

\* A worker's answer to a job is the only one and comes after the job has stopped
\* being live: the engine may take it whenever it arrives (WorkerClient.poll).
THEOREM AnswersStay == Spec => []AnswersFinal
<1>1. Init => AnswersFinal
  BY DEF Init, AnswersFinal
<1>2. AnswersFinal /\ [Next]_vars => AnswersFinal'
  <2> SUFFICES ASSUME AnswersFinal, [Next]_vars PROVE AnswersFinal'
    OBVIOUS
  <2>1. CASE \E j \in published' \ published : Publish(j)
    <3>1. PICK j \in published' \ published : Publish(j)
      BY <2>1
    <3>2. QED
      BY <3>1 DEF Publish, AnswersFinal
  <2>2. ASSUME NEW j \in live, Withdraw(j) PROVE AnswersFinal'
    BY <2>2 DEF Withdraw, AnswersFinal
  <2>3. ASSUME NEW j \in live, NEW code \in Code, Answer(j, code) PROVE AnswersFinal'
    <3>1. \A a \in answers : a.job # j
      BY DEF AnswersFinal
    <3>2. QED
      BY <2>3, <3>1 DEF Answer, AnswersFinal
  <2>4. CASE UNCHANGED vars
    BY <2>4 DEF vars, AnswersFinal
  <2>5. QED
    BY <2>1, <2>2, <2>3, <2>4 DEF Next
<1>3. QED
  BY <1>1, <1>2, PTL DEF Spec
=============================================================================
