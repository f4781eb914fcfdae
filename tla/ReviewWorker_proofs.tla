------------------------- MODULE ReviewWorker_proofs -------------------------
(***************************************************************************)
(* Proofs about ReviewWorker, for any jobs, cancellations and crashes.     *)
(***************************************************************************)
EXTENDS ReviewWorker, TLAPS

(* The inductive invariant: how the durable records of a job relate to each *)
(* other and to the stage the process is in.                                *)

Working   == {"begin", "review"}
Finishing == {"publish", "record", "unlink"}

\* Answers and running records belong to jobs that were received; an answer is
\* single and its job is recorded as completed or still as running.
Records_Inv ==
  /\ running \subseteq inbox
  /\ \A j, k \in running : j = k
  /\ \A a \in outbox : a.job \in Jobs => a.job \in inbox /\ a.job \in completed \cup running
  /\ \A a, b \in outbox : a.job = b.job => a = b

\* A cancellation is answered, or about to be, once its target is at rest.
AtRest(r) == r \in completed /\ r \notin running

Cancels_Inv ==
  /\ \A a \in outbox : a.job \in Cancels => AtRest(a.job.target)
  /\ pc \in Finishing /\ cur.job \in Cancels => AtRest(cur.job.target) /\ running = {}
  /\ \A c \in noticed : /\ pc \in {"review"} \cup Finishing
                        /\ IF cur.job \in Cancels THEN c.target = cur.job.target
                                                  ELSE c.target = cur.job

\* The stage of the process against the records of its job.
Stage_Inv ==
  /\ pc \in Working \/ (pc \in Finishing /\ cur.job \in Jobs)
       => running = {cur.job}
  /\ pc \in Working \cup {"publish"} /\ cur.job \in Jobs
       => cur.job \notin completed /\ ~Answered(cur.job)
  /\ pc \in {"record", "unlink"} => cur \in outbox
  /\ pc = "unlink" => cur.job \in completed
  /\ pc = "review" => cur.job \in Reviews

\* A review that was started is under way or over.
Started_Inv ==
  \A r \in Reviews :
    /\ inferences[r] <= 1
    /\ inferences[r] > 0 => r \in running \cup completed
    /\ pc = "begin" /\ cur.job = r => inferences[r] = 0

Coherent == Records_Inv /\ Cancels_Inv /\ Stage_Inv /\ Started_Inv
IInv     == TypeOK /\ Coherent

-----------------------------------------------------------------------------

\* A process that is gone leaves the records as they are.
LEMMA ForgetStep ==
  ASSUME IInv, Forget,
         UNCHANGED <<inbox, outbox, running, completed, inferences>>, crashes' \in 0 .. MaxCrashes
  PROVE  IInv'
<1>1. TypeOK'
  BY DEF IInv, TypeOK, Forget, Stages
<1>2. Records_Inv' /\ Cancels_Inv'
  BY DEF IInv, Coherent, Records_Inv, Cancels_Inv, AtRest, Forget, Finishing
<1>3. Stage_Inv' /\ Started_Inv'
  BY DEF IInv, Coherent, Stage_Inv, Started_Inv, Forget, Working, Finishing
<1>4. QED
  BY <1>1, <1>2, <1>3 DEF IInv, Coherent

LEMMA RecoverCompletedStep == ASSUME IInv, RecoverCompleted PROVE IInv'
<1>1. TypeOK'
  BY DEF IInv, TypeOK, RecoverCompleted, memory
<1>2. Records_Inv'
  BY DEF IInv, Coherent, Records_Inv, RecoverCompleted, memory
<1>3. Cancels_Inv'
  BY DEF IInv, Coherent, Cancels_Inv, AtRest, RecoverCompleted, memory, Finishing
<1>4. Stage_Inv' /\ Started_Inv'
  BY DEF IInv, Coherent, Stage_Inv, Started_Inv, RecoverCompleted, memory, Working, Finishing
<1>5. QED
  BY <1>1, <1>2, <1>3, <1>4 DEF IInv, Coherent

LEMMA RecoverAnsweredStep == ASSUME IInv, RecoverAnswered PROVE IInv'
<1>1. PICK a \in outbox : /\ a.job \in running \ completed
                          /\ completed' = completed \cup {a.job}
                          /\ cur' = a
  BY DEF RecoverAnswered
<1>2. /\ pc = "scan" /\ pc' = "unlink" /\ a.job \in Jobs /\ a \in Messages
      /\ UNCHANGED <<inbox, outbox, running, noticed, expired, inferences, crashes>>
  BY <1>1 DEF RecoverAnswered, IInv, TypeOK
<1>3. a.job \notin Cancels /\ noticed = {}
  BY <1>2, KindsAssumption DEF IInv, Coherent, Cancels_Inv, Finishing
<1>4. TypeOK'
  BY <1>1, <1>2 DEF IInv, TypeOK, Stages
<1>5. Records_Inv'
  BY <1>1, <1>2 DEF IInv, Coherent, Records_Inv
<1>6. Cancels_Inv'
  BY <1>1, <1>2, <1>3 DEF IInv, Coherent, Cancels_Inv, AtRest
<1>7. Stage_Inv'
  BY <1>1, <1>2 DEF IInv, Coherent, Records_Inv, Stage_Inv, Working
<1>8. Started_Inv'
  BY <1>1, <1>2 DEF IInv, Coherent, Started_Inv
<1>9. QED
  BY <1>4, <1>5, <1>6, <1>7, <1>8 DEF IInv, Coherent

LEMMA RecoverInterruptedStep == ASSUME IInv, RecoverInterrupted PROVE IInv'
<1>1. PICK j \in running \ completed : ~Answered(j) /\ Finish(j, "interrupted")
  BY DEF RecoverInterrupted
<1>2. /\ pc = "scan" /\ pc' = "publish" /\ cur' = Says(j, "interrupted") /\ j \in Jobs
      /\ UNCHANGED <<inbox, outbox, running, completed, noticed, expired, inferences, crashes>>
  BY <1>1 DEF RecoverInterrupted, Finish, IInv, TypeOK
<1>3. /\ cur' \in Messages /\ cur'.job = j /\ j \notin Cancels /\ noticed = {}
  BY <1>2, KindsAssumption
     DEF IInv, Coherent, Cancels_Inv, Finishing, Says, Messages, ReviewCodes
<1>4. TypeOK'
  BY <1>2, <1>3 DEF IInv, TypeOK, Stages
<1>5. Records_Inv'
  BY <1>2 DEF IInv, Coherent, Records_Inv
<1>6. Cancels_Inv'
  BY <1>2, <1>3 DEF IInv, Coherent, Cancels_Inv, AtRest
<1>7. Stage_Inv'
  BY <1>1, <1>2, <1>3 DEF IInv, Coherent, Records_Inv, Stage_Inv, Working, Answered
<1>8. Started_Inv'
  BY <1>2 DEF IInv, Coherent, Started_Inv
<1>9. QED
  BY <1>4, <1>5, <1>6, <1>7, <1>8 DEF IInv, Coherent

\* A cancellation read from the inbox finds no job at work, so its target is at
\* rest as soon as there is a record of it.
LEMMA TakeCancelStep ==
  ASSUME IInv, Scanning, NEW c \in Cancels, NEW code \in CancelCodes, Finish(c, code),
         completed' \in {completed, completed \cup {c.target}}, c.target \in completed',
         UNCHANGED <<inbox, outbox, running, noticed, expired, inferences, crashes>>
  PROVE  IInv'
<1>1. /\ pc = "scan" /\ running = {} /\ pc' = "publish" /\ cur' = Says(c, code)
      /\ cur'.job = c /\ c \notin Jobs /\ c.target \in Reviews /\ completed \subseteq completed'
  BY KindsAssumption DEF Scanning, Finish, Says
<1>2. noticed = {} /\ cur' \in Messages
  BY <1>1 DEF IInv, Coherent, Cancels_Inv, Finishing, Says, Messages
<1>3. TypeOK'
  BY <1>1, <1>2 DEF IInv, TypeOK, Stages, Jobs
<1>4. Records_Inv'
  BY <1>1 DEF IInv, Coherent, Records_Inv
<1>5. Cancels_Inv'
  BY <1>1, <1>2 DEF IInv, Coherent, Cancels_Inv, AtRest
<1>6. Stage_Inv'
  BY <1>1 DEF IInv, Coherent, Stage_Inv, Working, Finishing
<1>7. Started_Inv'
  BY <1>1 DEF IInv, Coherent, Started_Inv
<1>8. QED
  BY <1>3, <1>4, <1>5, <1>6, <1>7 DEF IInv, Coherent

LEMMA CancelNeverStartedStep == ASSUME IInv, CancelNeverStarted PROVE IInv'
<1>1. PICK c \in Todo \cap Cancels : completed' = completed \cup {c.target} /\ Finish(c, "never_started")
  BY DEF CancelNeverStarted
<1>2. QED
  BY <1>1, TakeCancelStep DEF CancelNeverStarted, CancelCodes

LEMMA CancelStoppedStep == ASSUME IInv, CancelStopped PROVE IInv'
<1>1. PICK c \in Todo \cap Cancels : c.target \in completed /\ Finish(c, "already_stopped")
  BY DEF CancelStopped
<1>2. QED
  BY <1>1, TakeCancelStep DEF CancelStopped, CancelCodes

\* A job taken from the inbox is neither completed nor running, hence unanswered
\* and never started.
LEMMA TakeJobStep == ASSUME IInv, TakeJob PROVE IInv'
<1>1. PICK j \in Todo \cap Jobs : running' = running \cup {j} /\ cur' = Says(j, "none")
  BY DEF TakeJob
<1>2. /\ pc = "scan" /\ running = {} /\ pc' = "begin" /\ running' = {j}
      /\ UNCHANGED <<inbox, outbox, completed, noticed, expired, inferences, crashes>>
      /\ cur'.job = j /\ cur' \in [job : Jobs, code : {"none"}]
      /\ j \in inbox /\ j \notin completed /\ j \in Jobs /\ j \notin Cancels
  BY <1>1, KindsAssumption DEF TakeJob, Scanning, Says, Todo
<1>3. ~Answered(j) /\ noticed = {}
  BY <1>2 DEF Answered, IInv, Coherent, Records_Inv, Cancels_Inv, Finishing
<1>4. TypeOK'
  BY <1>2 DEF IInv, TypeOK, Stages
<1>5. Records_Inv'
  BY <1>2 DEF IInv, Coherent, Records_Inv
<1>6. Cancels_Inv'
  <2>1. \A a \in outbox : a.job \in Cancels => a.job.target # j
    BY <1>2 DEF IInv, Coherent, Cancels_Inv, AtRest
  <2>2. QED
    BY <1>2, <1>3, <2>1 DEF IInv, Coherent, Cancels_Inv, AtRest, Finishing
<1>7. Stage_Inv'
  BY <1>2, <1>3 DEF Stage_Inv, Answered, Working, Finishing
<1>8. Started_Inv'
  <2>1. \A r \in Reviews : r = j => inferences[r] = 0
    BY <1>2 DEF IInv, TypeOK, Coherent, Started_Inv
  <2>2. QED
    BY <1>2, <2>1 DEF IInv, Coherent, Started_Inv
<1>9. QED
  BY <1>4, <1>5, <1>6, <1>7, <1>8 DEF IInv, Coherent

\* The job at work answers: the same for a deadline, a limit reading, a review.
LEMMA AnswerStep ==
  ASSUME IInv, pc \in Working, NEW code \in ReviewCodes, Finish(cur.job, code),
         noticed = {} \/ pc = "review", expired' \in BOOLEAN,
         UNCHANGED <<inbox, outbox, running, completed, noticed, inferences, crashes>>
  PROVE  IInv'
<1>1. /\ cur.job \in Jobs /\ cur.job \notin Cancels /\ pc' = "publish"
      /\ cur' = Says(cur.job, code) /\ cur'.job = cur.job /\ cur' \in Messages
  BY KindsAssumption DEF IInv, TypeOK, Working, Finish, Says, Messages
<1>2. TypeOK'
  BY <1>1 DEF IInv, TypeOK, Stages
<1>3. Records_Inv'
  BY DEF IInv, Coherent, Records_Inv
<1>4. Cancels_Inv'
  BY <1>1 DEF IInv, Coherent, Cancels_Inv, AtRest, Working, Finishing
<1>5. Stage_Inv'
  BY <1>1 DEF IInv, Coherent, Stage_Inv, Answered, Working, Finishing
<1>6. Started_Inv'
  BY <1>1 DEF IInv, Coherent, Started_Inv
<1>7. QED
  BY <1>2, <1>3, <1>4, <1>5, <1>6 DEF IInv, Coherent

LEMMA BeginStep == ASSUME IInv, BeginExpired \/ ReadLimits PROVE IInv'
<1>1. pc = "begin" /\ pc \in Working /\ noticed = {} /\ expired \in BOOLEAN
  BY DEF BeginExpired, ReadLimits, IInv, TypeOK, Coherent, Cancels_Inv, Working, Finishing
<1>2. CASE BeginExpired
  BY <1>1, <1>2, AnswerStep DEF BeginExpired, ReviewCodes
<1>3. CASE ReadLimits
  BY <1>1, <1>3, AnswerStep DEF ReadLimits, ReviewCodes
<1>4. QED
  BY <1>2, <1>3

LEMMA AdapterReturnsStep == ASSUME IInv, AdapterReturns PROVE IInv'
<1>1. PICK code \in ReviewCodes : Finish(cur.job, code)
  BY DEF AdapterReturns, ReviewCodes
<1>2. QED
  BY <1>1, AnswerStep DEF AdapterReturns, Working

\* The running record is there before the review is counted as started.
LEMMA BeginReviewStep == ASSUME IInv, BeginReview PROVE IInv'
<1>1. /\ pc = "begin" /\ pc' = "review" /\ cur.job \in Reviews
      /\ inferences' = [inferences EXCEPT ![cur.job] = @ + 1]
      /\ UNCHANGED <<inbox, outbox, running, completed, cur, noticed, expired, crashes>>
  BY DEF BeginReview, memory
<1>2. inferences[cur.job] = 0 /\ running = {cur.job} /\ inferences \in [Reviews -> Nat]
  BY <1>1 DEF IInv, TypeOK, Coherent, Started_Inv, Stage_Inv, Working
<1>3. TypeOK'
  BY <1>1, <1>2 DEF IInv, TypeOK, Stages
<1>4. Records_Inv' /\ Cancels_Inv'
  BY <1>1 DEF IInv, Coherent, Records_Inv, Cancels_Inv, AtRest, Finishing
<1>5. Stage_Inv'
  BY <1>1 DEF IInv, Coherent, Stage_Inv, Answered, Working, Finishing
<1>6. Started_Inv'
  BY <1>1, <1>2 DEF IInv, Coherent, Started_Inv
<1>7. QED
  BY <1>3, <1>4, <1>5, <1>6 DEF IInv, Coherent

LEMMA WhileReviewingStep == ASSUME IInv, Expire \/ NoticeCancel PROVE IInv'
<1>1. /\ pc = "review" /\ expired' \in BOOLEAN
      /\ UNCHANGED <<inbox, outbox, running, completed, pc, cur, inferences, crashes>>
      /\ \A c \in noticed' : c \in noticed \/ (c \in Cancels /\ c.target = cur.job)
  <2>1. expired \in BOOLEAN
    BY DEF IInv, TypeOK
  <2>2. CASE Expire
    BY <2>1, <2>2 DEF Expire
  <2>3. CASE NoticeCancel
    BY <2>1, <2>3 DEF NoticeCancel, Todo
  <2>4. QED
    BY <2>2, <2>3
<1>2. cur.job \notin Cancels /\ noticed' \subseteq Cancels
  BY <1>1, KindsAssumption DEF IInv, TypeOK
<1>3. TypeOK'
  BY <1>1, <1>2 DEF IInv, TypeOK
<1>4. Records_Inv' /\ Stage_Inv' /\ Started_Inv'
  BY <1>1 DEF IInv, Coherent, Records_Inv, Stage_Inv, Answered, Started_Inv
<1>5. Cancels_Inv'
  BY <1>1, <1>2 DEF IInv, Coherent, Cancels_Inv, AtRest, Finishing
<1>6. QED
  BY <1>3, <1>4, <1>5 DEF IInv, Coherent

LEMMA PublishAnswerStep == ASSUME IInv, PublishAnswer PROVE IInv'
<1>1. /\ pc = "publish" /\ ~Conflict /\ outbox' = outbox \cup {cur} /\ pc' = "record"
      /\ UNCHANGED <<inbox, running, completed, cur, noticed, expired, inferences, crashes>>
      /\ cur \in Messages
  BY DEF PublishAnswer, memory, IInv, TypeOK
<1>2. /\ cur.job \in Jobs => running = {cur.job}
      /\ cur.job \in Cancels => AtRest(cur.job.target) /\ running = {}
  BY <1>1 DEF IInv, Coherent, Stage_Inv, Cancels_Inv, Finishing
<1>3. TypeOK'
  BY <1>1 DEF IInv, TypeOK, Stages
<1>4. Records_Inv'
  BY <1>1, <1>2 DEF Conflict, IInv, Coherent, Records_Inv
<1>5. Cancels_Inv'
  BY <1>1, <1>2 DEF IInv, Coherent, Cancels_Inv, AtRest, Finishing
<1>6. Stage_Inv'
  BY <1>1, <1>2 DEF Stage_Inv, Working
<1>7. Started_Inv'
  BY <1>1 DEF IInv, Coherent, Started_Inv
<1>8. QED
  BY <1>3, <1>4, <1>5, <1>6, <1>7 DEF IInv, Coherent

LEMMA RecordAnswerStep == ASSUME IInv, RecordAnswer PROVE IInv'
<1>1. /\ pc = "record" /\ completed' = completed \cup {cur.job} /\ pc' = "unlink"
      /\ UNCHANGED <<inbox, outbox, running, cur, noticed, expired, inferences, crashes>>
      /\ cur.job \in Jobs \cup Cancels
  BY DEF RecordAnswer, memory, IInv, TypeOK, Messages
<1>2. TypeOK'
  BY <1>1 DEF IInv, TypeOK, Stages
<1>3. Records_Inv'
  BY <1>1 DEF IInv, Coherent, Records_Inv
<1>4. Cancels_Inv'
  BY <1>1 DEF IInv, Coherent, Cancels_Inv, AtRest, Finishing
<1>5. Stage_Inv'
  BY <1>1 DEF IInv, Coherent, Stage_Inv, Working, Finishing
<1>6. Started_Inv'
  BY <1>1 DEF IInv, Coherent, Started_Inv
<1>7. QED
  BY <1>2, <1>3, <1>4, <1>5, <1>6 DEF IInv, Coherent

\* The target of a noticed cancellation is at rest once its record is dropped.
LEMMA UnlinkStep == ASSUME IInv, Unlink PROVE IInv'
<1>1. /\ pc = "unlink" /\ running' = running \ {cur.job} /\ cur.job \in completed
      /\ UNCHANGED <<inbox, outbox, completed, expired, inferences, crashes>>
      /\ cur \in Messages /\ cur \in outbox
  BY DEF Unlink, IInv, TypeOK, Coherent, Stage_Inv
<1>2. running' = {} /\ \A c \in noticed : c.target \in completed
  BY <1>1 DEF IInv, TypeOK, Messages, Coherent, Stage_Inv, Cancels_Inv, AtRest, Finishing
<1>3. Records_Inv'
  BY <1>1 DEF IInv, Coherent, Records_Inv
<1>4. \A a \in outbox : a.job \in Cancels => AtRest(a.job.target)'
  BY <1>1 DEF IInv, Coherent, Cancels_Inv, AtRest
<1>5. \A r \in Reviews : inferences[r] <= 1 /\ (inferences[r] > 0 => r \in completed)
  BY <1>1, <1>2 DEF IInv, Coherent, Started_Inv, Records_Inv
<1>6. CASE noticed = {} /\ pc' = "scan" /\ UNCHANGED noticed
  <2>1. TypeOK'
    BY <1>1, <1>2, <1>6 DEF IInv, TypeOK, Stages
  <2>2. Cancels_Inv' /\ Stage_Inv' /\ Started_Inv'
    BY <1>1, <1>4, <1>5, <1>6 DEF Cancels_Inv, Stage_Inv, Started_Inv, Working, Finishing
  <2>3. QED
    BY <1>3, <2>1, <2>2 DEF IInv, Coherent
<1>7. CASE \E c \in noticed : noticed' = noticed \ {c} /\ Finish(c, "confirmed")
  <2>1. PICK c \in noticed : noticed' = noticed \ {c} /\ Finish(c, "confirmed")
    BY <1>7
  <2>2. /\ c \in Cancels /\ c \notin Jobs /\ pc' = "publish" /\ cur' = Says(c, "confirmed")
        /\ cur'.job = c /\ cur' \in Messages
    BY <2>1, KindsAssumption DEF IInv, TypeOK, Finish, Says, Messages, CancelCodes
  <2>3. TypeOK'
    BY <1>1, <1>2, <2>1, <2>2 DEF IInv, TypeOK, Stages
  <2>4. \A d \in noticed' : d.target = c.target
    BY <1>1, <2>1 DEF IInv, Coherent, Cancels_Inv
  <2>5. Cancels_Inv'
    BY <1>1, <1>2, <1>4, <2>1, <2>2, <2>4 DEF Cancels_Inv, AtRest, Finishing
  <2>6. Stage_Inv' /\ Started_Inv'
    BY <1>1, <1>5, <2>2 DEF Stage_Inv, Started_Inv, Working, Finishing
  <2>7. QED
    BY <1>3, <2>3, <2>5, <2>6 DEF IInv, Coherent
<1>8. QED
  BY <1>6, <1>7 DEF Unlink

LEMMA StartStep == ASSUME IInv, Start PROVE IInv'
<1>1. TypeOK'
  BY DEF IInv, TypeOK, Start, Stages, memory
<1>2. Records_Inv' /\ Cancels_Inv'
  BY DEF IInv, Coherent, Records_Inv, Cancels_Inv, AtRest, Start, memory, Finishing
<1>3. Stage_Inv' /\ Started_Inv'
  BY DEF IInv, Coherent, Stage_Inv, Started_Inv, Start, memory, Working, Finishing
<1>4. QED
  BY <1>1, <1>2, <1>3 DEF IInv, Coherent

LEMMA SendStep == ASSUME IInv, Send PROVE IInv'
<1>1. /\ inbox \subseteq inbox' /\ inbox' \subseteq Jobs \cup Cancels
      /\ UNCHANGED <<outbox, running, completed, pc, cur, noticed, expired, inferences, crashes>>
  BY DEF Send, memory, IInv, TypeOK
<1>2. TypeOK'
  BY <1>1 DEF IInv, TypeOK
<1>3. Records_Inv' /\ Cancels_Inv'
  BY <1>1 DEF IInv, Coherent, Records_Inv, Cancels_Inv, AtRest
<1>4. Stage_Inv' /\ Started_Inv'
  BY <1>1 DEF IInv, Coherent, Stage_Inv, Answered, Started_Inv
<1>5. QED
  BY <1>2, <1>3, <1>4 DEF IInv, Coherent

-----------------------------------------------------------------------------

LEMMA InitIInv == Init => IInv
<1> SUFFICES ASSUME Init PROVE IInv
  OBVIOUS
<1>1. TypeOK
  <2>1. inferences \in [Reviews -> Nat] /\ crashes \in 0 .. MaxCrashes
    BY KindsAssumption DEF Init
  <2>2. expired \in BOOLEAN /\ pc \in Stages
    BY DEF Init, Stages
  <2>3. pc \notin {"publish", "record", "unlink", "begin", "review"}
    BY DEF Init
  <2>4. QED
    BY <2>1, <2>2, <2>3 DEF Init, TypeOK
<1>2. Records_Inv /\ Cancels_Inv
  BY DEF Init, Records_Inv, Cancels_Inv, Finishing
<1>3. Stage_Inv /\ Started_Inv
  BY DEF Init, Stage_Inv, Started_Inv, Working, Finishing
<1>4. QED
  BY <1>1, <1>2, <1>3 DEF IInv, Coherent

LEMMA NextIInv == IInv /\ [Next]_vars => IInv'
<1> SUFFICES ASSUME IInv, [Next]_vars PROVE IInv'
  OBVIOUS
<1>1. CASE RunOnce
  <2>1. CASE RecoverCompleted \/ RecoverAnswered \/ RecoverInterrupted
    BY <2>1, RecoverCompletedStep, RecoverAnsweredStep, RecoverInterruptedStep
  <2>2. CASE CancelNeverStarted \/ CancelStopped \/ TakeJob
    BY <2>2, CancelNeverStartedStep, CancelStoppedStep, TakeJobStep
  <2>3. CASE BeginExpired \/ ReadLimits \/ BeginReview \/ AdapterReturns
    BY <2>3, BeginStep, BeginReviewStep, AdapterReturnsStep
  <2>4. CASE PublishAnswer \/ RecordAnswer \/ Unlink
    BY <2>4, PublishAnswerStep, RecordAnswerStep, UnlinkStep
  <2>5. CASE PublishConflict
    BY <2>5, ForgetStep DEF PublishConflict, IInv, TypeOK
  <2>6. QED
    BY <1>1, <2>1, <2>2, <2>3, <2>4, <2>5 DEF RunOnce
<1>2. CASE Crash
  <2>1. crashes' \in 0 .. MaxCrashes
    BY <1>2, KindsAssumption DEF Crash, IInv, TypeOK
  <2>2. QED
    BY <1>2, <2>1, ForgetStep DEF Crash
<1>3. CASE Start \/ Send \/ Expire \/ NoticeCancel
  BY <1>3, StartStep, SendStep, WhileReviewingStep
<1>4. CASE UNCHANGED vars
  BY <1>4 DEF vars, memory, IInv, TypeOK, Coherent, Records_Inv, Cancels_Inv, AtRest,
              Stage_Inv, Answered, Started_Inv
<1>5. QED
  BY <1>1, <1>2, <1>3, <1>4 DEF Next

\* The inductive invariant holds in every reachable state.
THEOREM Invariant == Spec => []IInv
  BY InitIInv, NextIInv, PTL DEF Spec

\* The worker's files and memory hold what worker.py puts there.
THEOREM TypeCorrect == Spec => []TypeOK
<1>1. IInv => TypeOK
  BY DEF IInv
<1>2. QED
  BY <1>1, Invariant, PTL

\* No review is started twice, however often the worker dies and wherever
\* (running record before the CLI, _recover_interrupted instead of a new start).
THEOREM ReviewedOnce == Spec => []InferredOnce
<1>1. IInv => InferredOnce
  BY DEF IInv, Coherent, Started_Inv, InferredOnce
<1>2. QED
  BY <1>1, Invariant, PTL

\* A confirmed cancellation holds for good, although cancellations race with their
\* targets, with deadlines and with crashes (run_once's cancel branch, _run_review).
THEOREM CancelHolds == Spec => []CancelledStays
<1>1. IInv => CancelledStays
  <2> SUFFICES ASSUME IInv, NEW c \in Cancels, Answered(c),
                      pc \in {"begin", "review"}, cur.job = c.target
               PROVE  FALSE
    BY DEF CancelledStays
  <2>1. c.target \notin running
    BY DEF IInv, Coherent, Cancels_Inv, AtRest, Answered
  <2>2. QED
    BY <2>1 DEF IInv, Coherent, Stage_Inv, Working
<1>2. QED
  BY <1>1, Invariant, PTL

\* A job is never given a second, different answer: recovery finds the published
\* one (_recover_interrupted against mailbox.publish).
THEOREM AnswersReconciled == Spec => []JobsReconciled
<1>1. IInv => JobsReconciled
  <2> SUFFICES ASSUME IInv, pc = "publish", cur.job \in Jobs PROVE ~Conflict
    BY DEF JobsReconciled
  <2>1. ~Answered(cur.job)
    BY DEF IInv, Coherent, Stage_Inv
  <2>2. QED
    BY <2>1 DEF Conflict, Answered
<1>2. QED
  BY <1>1, Invariant, PTL

-----------------------------------------------------------------------------
(* The worker keeps the contract of ReviewJobs.                             *)

\* Steps that neither receive a review, nor answer one, nor record one that was
\* not answered are not seen through the contract.
LEMMA Unseen ==
  ASSUME inbox' = inbox, outbox' = outbox,
         completed \subseteq completed', \A r \in completed' : r \in completed \/ Answered(r)
  PROVE  UNCHANGED Contract!vars
<1>1. UNCHANGED (inbox \cap Reviews) /\ UNCHANGED ReviewAnswers
  BY DEF ReviewAnswers
<1>2. Live' = Live
  BY DEF Live, Answered
<1>3. QED
  BY <1>1, <1>2 DEF Contract!vars

LEMMA SendRefines == ASSUME IInv, Send PROVE [Contract!Next]_(Contract!vars)
<1>1. PICK j \in Jobs \cup Cancels : j \notin inbox /\ inbox' = inbox \cup {j}
  BY DEF Send
<1>2. UNCHANGED <<outbox, completed>>
  BY DEF Send
<1>3. UNCHANGED ReviewAnswers
  BY <1>2 DEF ReviewAnswers
<1>4. CASE j \in Reviews
  <2>1. j \notin inbox \cap Reviews /\ (inbox \cap Reviews)' = (inbox \cap Reviews) \cup {j}
    BY <1>1, <1>4
  <2>2. ~Answered(j)
    BY <1>1, <1>4 DEF Answered, IInv, Coherent, Records_Inv, Jobs
  <2>3. Live' \in {Live, Live \cup {j}}
    <3>1. CASE j \in completed
      BY <1>1, <1>2, <1>4, <3>1 DEF Live, Answered
    <3>2. CASE j \notin completed
      <4>1. \A r : r \in Live' <=> r \in Live \cup {j}
        BY <1>1, <1>2, <1>4, <2>2, <3>2 DEF Live, Answered
      <4>2. QED
        BY <4>1
    <3>3. QED
      BY <3>1, <3>2
  <2>4. Contract!Publish(j)
    BY <1>3, <2>1, <2>3 DEF Contract!Publish
  <2>5. QED
    BY <2>1, <2>4 DEF Contract!Next
<1>5. CASE j \notin Reviews
  <2>1. UNCHANGED (inbox \cap Reviews)
    BY <1>1, <1>5
  <2>2. Live' = Live
    BY <1>2, <2>1 DEF Live, Answered
  <2>3. QED
    BY <1>3, <2>1, <2>2 DEF Contract!vars
<1>6. QED
  BY <1>4, <1>5

\* An early cancellation takes its target back, if it has been received.
LEMMA WithdrawRefines == ASSUME IInv, CancelNeverStarted PROVE [Contract!Next]_(Contract!vars)
<1>1. PICK c \in Todo \cap Cancels : c.target \notin completed /\ completed' = completed \cup {c.target}
  BY DEF CancelNeverStarted
<1>2. UNCHANGED <<inbox, outbox>> /\ running = {} /\ c.target \in Reviews
  BY KindsAssumption, <1>1 DEF CancelNeverStarted, Scanning
<1>3. ~Answered(c.target)
  BY <1>1, <1>2 DEF Answered, IInv, Coherent, Records_Inv, Jobs
<1>4. UNCHANGED (inbox \cap Reviews) /\ UNCHANGED ReviewAnswers
  BY <1>2 DEF ReviewAnswers
<1>5. Live' = Live \ {c.target}
  BY <1>1, <1>2 DEF Live, Answered
<1>6. CASE c.target \in inbox
  <2>1. c.target \in Live
    BY <1>1, <1>2, <1>3, <1>6 DEF Live
  <2>2. Contract!Withdraw(c.target)
    BY <1>4, <1>5, <2>1 DEF Contract!Withdraw
  <2>3. QED
    BY <2>1, <2>2 DEF Contract!Next
<1>7. CASE c.target \notin inbox
  <2>1. Live' = Live
    BY <1>5, <1>7 DEF Live
  <2>2. QED
    BY <1>4, <2>1 DEF Contract!vars
<1>8. QED
  BY <1>6, <1>7

\* Publishing the answer to a review is the step that answers it.
LEMMA AnswerRefines == ASSUME IInv, PublishAnswer PROVE [Contract!Next]_(Contract!vars)
<1>1. /\ pc = "publish" /\ outbox' = outbox \cup {cur} /\ UNCHANGED <<inbox, completed>>
      /\ cur \in Messages
  BY DEF PublishAnswer, IInv, TypeOK
<1>2. UNCHANGED (inbox \cap Reviews)
  BY <1>1
<1>3. CASE cur.job \in Reviews
  <2>1. /\ cur.job \in inbox /\ cur.job \notin completed /\ ~Answered(cur.job)
    BY <1>1, <1>3 DEF IInv, Coherent, Records_Inv, Stage_Inv, Finishing, Jobs
  <2>2. cur.job \in Live
    BY <1>3, <2>1 DEF Live
  <2>3. Live' = Live \ {cur.job}
    BY <1>1, <1>3 DEF Live, Answered
  <2>4. cur = [job |-> cur.job, code |-> cur.code] /\ cur.code \in ReviewCodes
    BY <1>1, <1>3, KindsAssumption DEF Messages, Jobs
  <2>5. ReviewAnswers' = ReviewAnswers \cup {[job |-> cur.job, code |-> cur.code]}
    BY <1>1, <1>3, <2>4 DEF ReviewAnswers
  <2>6. Contract!Answer(cur.job, cur.code)
    BY <1>2, <2>2, <2>3, <2>5 DEF Contract!Answer
  <2>7. QED
    BY <2>2, <2>4, <2>6 DEF Contract!Next
<1>4. CASE cur.job \notin Reviews
  <2>1. Live' = Live
    BY <1>1, <1>4 DEF Live, Answered
  <2>2. UNCHANGED ReviewAnswers
    BY <1>1, <1>4 DEF ReviewAnswers
  <2>3. QED
    BY <1>2, <2>1, <2>2 DEF Contract!vars
<1>5. QED
  BY <1>3, <1>4

\* Every step maps to a step of the contract or to none.
LEMMA NextRefines == IInv /\ [Next]_vars => [Contract!Next]_(Contract!vars)
<1> SUFFICES ASSUME IInv, [Next]_vars PROVE [Contract!Next]_(Contract!vars)
  OBVIOUS
<1>1. CASE RecoverAnswered
  <2>1. PICK a \in outbox : completed' = completed \cup {a.job}
    BY <1>1 DEF RecoverAnswered
  <2>2. \A r \in completed' : r \in completed \/ Answered(r)
    BY <2>1 DEF Answered
  <2>3. QED
    BY <1>1, <2>1, <2>2, Unseen DEF RecoverAnswered
<1>2. CASE RecordAnswer
  <2>1. completed' = completed \cup {cur.job} /\ Answered(cur.job)
    BY <1>2 DEF RecordAnswer, IInv, Coherent, Stage_Inv, Answered
  <2>2. QED
    BY <1>2, <2>1, Unseen DEF RecordAnswer
<1>3. CASE PublishAnswer \/ CancelNeverStarted \/ Send
  BY <1>3, AnswerRefines, WithdrawRefines, SendRefines
<1>4. CASE UNCHANGED <<inbox, outbox, completed>>
  BY <1>4, Unseen
<1>5. QED
  BY <1>1, <1>2, <1>3, <1>4
     DEF Next, RunOnce, vars, Start, RecoverCompleted, RecoverInterrupted, CancelStopped,
         TakeJob, BeginExpired, ReadLimits, BeginReview, AdapterReturns, PublishConflict,
         Unlink, Expire, NoticeCancel, Crash

\* A worker, with its crashes and recoveries, is the one-shot job service that the
\* engine is modelled with: a review stops being live once, by its answer or by an
\* early cancellation.
THEOREM WorkerKeepsContract == Spec => KeepsContract
<1>1. Init => Contract!Init
  BY DEF Init, Contract!Init, Live, ReviewAnswers
<1>2. QED
  BY <1>1, Invariant, NextRefines, PTL DEF Spec, KeepsContract, Contract!Spec
=============================================================================
