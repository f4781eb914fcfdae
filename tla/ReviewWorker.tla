---------------------------- MODULE ReviewWorker ----------------------------
(***************************************************************************)
(* A worker container (worker.py): it takes jobs from its inbox one at a   *)
(* time, runs the reviewer's CLI for a review, and publishes an answer.    *)
(* It may die between any two durable writes and is started again; it must *)
(* neither review a job twice nor answer it in two ways, and what it says  *)
(* has been cancelled must not be running or start later.                  *)
(*                                                                         *)
(* A message is its identifier: the identifier of a cancellation holds the *)
(* job it cancels.  Mailbox files are named by hashes, so the order of a   *)
(* scan is arbitrary.  cur, noticed and expired are the process's memory.  *)
(***************************************************************************)
EXTENDS Naturals

CONSTANTS
  Reviews,     \* review jobs
  LimitReads,  \* jobs that read the provider's limits
  Cancels,     \* cancellations; the field target is the review, and one may have several
  None,        \* no message
  MaxCrashes   \* bound on crashes of the worker

Jobs == Reviews \cup LimitReads

ASSUME KindsAssumption ==
  /\ Reviews \cap LimitReads = {}
  /\ Jobs \cap Cancels = {}
  /\ \A c \in Cancels : c.target \in Reviews
  /\ None \notin Jobs \cup Cancels
  /\ MaxCrashes \in Nat

VARIABLES
  inbox,       \* published jobs and cancellations
  outbox,      \* published answers
  running,     \* running/ records
  completed,   \* completed/ records and tombstones
  pc,          \* the worker process: "down", or what it does next
  cur,         \* the job being run, or the answer being finished
  noticed,     \* cancellations seen while the job was running
  expired,     \* the job's deadline passed while it was running
  inferences,  \* how often each review was started
  crashes      \* number of crashes so far

memory == <<cur, noticed, expired>>
vars   == <<inbox, outbox, running, completed, pc, memory, inferences, crashes>>

ReviewCodes == {"ok", "error", "deadline", "cancelled", "interrupted"}
CancelCodes == {"confirmed", "already_stopped", "never_started"}
Messages    == [job : Jobs, code : ReviewCodes] \cup [job : Cancels, code : CancelCodes]
Idle        == [job |-> None, code |-> "none"]
Stages      == {"down", "scan", "begin", "review", "publish", "record", "unlink"}

Says(j, code) == [job |-> j, code |-> code]
Answered(j)   == \E a \in outbox : a.job = j

\* _finish: publish the answer, record the job as completed, drop its running
\* record; each is a durable write of its own.
Finish(j, code) == cur' = Says(j, code) /\ pc' = "publish"

-----------------------------------------------------------------------------
(* run_once begins: what a dead process left comes first.                   *)

Start ==
  /\ pc = "down"
  /\ pc' = "scan"
  /\ UNCHANGED <<inbox, outbox, running, completed, memory, inferences, crashes>>

RecoverCompleted ==
  /\ pc = "scan"
  /\ \E j \in running : j \in completed /\ running' = running \ {j}
  /\ UNCHANGED <<inbox, outbox, completed, pc, memory, inferences, crashes>>

RecoverAnswered ==
  /\ pc = "scan"
  /\ \E a \in outbox :
       /\ a.job \in running \ completed
       /\ completed' = completed \cup {a.job}
       /\ cur' = a
  /\ pc' = "unlink"
  /\ UNCHANGED <<inbox, outbox, running, noticed, expired, inferences, crashes>>

\* Mutants: the answer already published is not looked for; the running record
\* is dropped and the job taken again.
RecoverInterruptedBlindly ==
  /\ pc = "scan"
  /\ \E j \in running \ completed : Finish(j, "interrupted")
  /\ UNCHANGED <<inbox, outbox, running, completed, noticed, expired, inferences, crashes>>

RecoverByRunningAgain ==
  /\ pc = "scan"
  /\ \E j \in running \ completed : ~Answered(j) /\ running' = running \ {j}
  /\ UNCHANGED <<inbox, outbox, completed, pc, memory, inferences, crashes>>

\* The job was cut off: that is its answer, and the engine decides on a new attempt.
RecoverInterrupted ==
  /\ pc = "scan"
  /\ \E j \in running \ completed : ~Answered(j) /\ Finish(j, "interrupted")
  /\ UNCHANGED <<inbox, outbox, running, completed, noticed, expired, inferences, crashes>>

-----------------------------------------------------------------------------
(* run_once takes a message.                                                *)

\* Mutant: completed jobs are not skipped.
TodoAll == {j \in inbox : TRUE}

Todo == {j \in inbox : j \notin completed}

Scanning == pc = "scan" /\ running = {}

\* Mutant: the target of an early cancellation is not recorded.
CancelWithoutTombstone ==
  /\ Scanning
  /\ \E c \in Todo \cap Cancels : c.target \notin completed /\ Finish(c, "never_started")
  /\ UNCHANGED <<inbox, outbox, running, completed, noticed, expired, inferences, crashes>>

\* The tombstone keeps a target that is seen later from ever starting.
CancelNeverStarted ==
  /\ Scanning
  /\ \E c \in Todo \cap Cancels :
       /\ c.target \notin completed
       /\ completed' = completed \cup {c.target}
       /\ Finish(c, "never_started")
  /\ UNCHANGED <<inbox, outbox, running, noticed, expired, inferences, crashes>>

CancelStopped ==
  /\ Scanning
  /\ \E c \in Todo \cap Cancels : c.target \in completed /\ Finish(c, "already_stopped")
  /\ UNCHANGED <<inbox, outbox, running, completed, noticed, expired, inferences, crashes>>

TakeJob ==
  /\ Scanning
  /\ \E j \in Todo \cap Jobs :
       /\ running' = running \cup {j}
       /\ cur' = Says(j, "none")
  /\ pc' = "begin"
  /\ UNCHANGED <<inbox, outbox, completed, noticed, expired, inferences, crashes>>

-----------------------------------------------------------------------------
(* A job runs.                                                              *)

BeginExpired ==
  /\ pc = "begin"
  /\ Finish(cur.job, "deadline")
  /\ UNCHANGED <<inbox, outbox, running, completed, noticed, expired, inferences, crashes>>

ReadLimits ==
  /\ pc = "begin"
  /\ cur.job \in LimitReads
  /\ \E code \in {"ok", "error"} : Finish(cur.job, code)
  /\ UNCHANGED <<inbox, outbox, running, completed, noticed, expired, inferences, crashes>>

BeginReview ==
  /\ pc = "begin"
  /\ cur.job \in Reviews
  /\ inferences' = [inferences EXCEPT ![cur.job] = @ + 1]
  /\ pc' = "review"
  /\ UNCHANGED <<inbox, outbox, running, completed, memory, crashes>>

\* The deadline and a cancellation only ask the adapter to stop.
Expire ==
  /\ pc = "review"
  /\ expired' = TRUE
  /\ UNCHANGED <<inbox, outbox, running, completed, pc, cur, noticed, inferences, crashes>>

NoticeCancel ==
  /\ pc = "review"
  /\ \E c \in Todo \cap Cancels : c.target = cur.job /\ noticed' = noticed \cup {c}
  /\ UNCHANGED <<inbox, outbox, running, completed, pc, cur, expired, inferences, crashes>>

\* The adapter has returned, with a result or an error: the deadline outweighs a
\* cancellation, and a cancellation what the adapter says.
AdapterReturns ==
  /\ pc = "review"
  /\ \E code \in IF expired THEN {"deadline"}
                 ELSE IF noticed # {} THEN {"cancelled"}
                 ELSE {"ok", "error"} : Finish(cur.job, code)
  /\ expired' = FALSE
  /\ UNCHANGED <<inbox, outbox, running, completed, noticed, inferences, crashes>>

-----------------------------------------------------------------------------
(* The answer is finished.                                                  *)

\* mailbox.publish refuses an identifier that is there with other content.
Conflict == \E a \in outbox : a.job = cur.job /\ a # cur

PublishAnswer ==
  /\ pc = "publish"
  /\ ~Conflict
  /\ outbox' = outbox \cup {cur}
  /\ pc' = "record"
  /\ UNCHANGED <<inbox, running, completed, memory, inferences, crashes>>

Forget == cur' = Idle /\ noticed' = {} /\ expired' = FALSE /\ pc' = "down"

\* Nothing catches MailboxConflict: the process ends.
PublishConflict ==
  /\ pc = "publish"
  /\ Conflict
  /\ Forget
  /\ UNCHANGED <<inbox, outbox, running, completed, inferences, crashes>>

RecordAnswer ==
  /\ pc = "record"
  /\ completed' = completed \cup {cur.job}
  /\ pc' = "unlink"
  /\ UNCHANGED <<inbox, outbox, running, memory, inferences, crashes>>

\* The cancellations noticed in the run are confirmed after the job's own answer.
Unlink ==
  /\ pc = "unlink"
  /\ running' = running \ {cur.job}
  /\ \/ noticed = {} /\ pc' = "scan" /\ cur' = Idle /\ UNCHANGED noticed
     \/ \E c \in noticed : noticed' = noticed \ {c} /\ Finish(c, "confirmed")
  /\ UNCHANGED <<inbox, outbox, completed, expired, inferences, crashes>>

Crash ==
  /\ pc # "down"
  /\ crashes < MaxCrashes
  /\ crashes' = crashes + 1
  /\ Forget
  /\ UNCHANGED <<inbox, outbox, running, completed, inferences>>

\* The engine's client publishes a job or a cancellation.
Send ==
  /\ \E j \in Jobs \cup Cancels : j \notin inbox /\ inbox' = inbox \cup {j}
  /\ UNCHANGED <<outbox, running, completed, pc, memory, inferences, crashes>>

-----------------------------------------------------------------------------

Init ==
  /\ inbox = {} /\ outbox = {} /\ running = {} /\ completed = {}
  /\ pc = "down" /\ cur = Idle /\ noticed = {} /\ expired = FALSE
  /\ inferences = [r \in Reviews |-> 0]
  /\ crashes = 0

RunOnce ==
  \/ RecoverCompleted \/ RecoverAnswered \/ RecoverInterrupted
  \/ CancelNeverStarted \/ CancelStopped \/ TakeJob
  \/ BeginExpired \/ ReadLimits \/ BeginReview
  \/ AdapterReturns
  \/ PublishAnswer \/ PublishConflict \/ RecordAnswer \/ Unlink

Next == Start \/ RunOnce \/ Expire \/ NoticeCancel \/ Crash \/ Send

Spec == Init /\ [][Next]_vars

-----------------------------------------------------------------------------
(* Properties. *)

TypeOK ==
  /\ inbox \subseteq Jobs \cup Cancels
  /\ outbox \subseteq Messages
  /\ running \subseteq Jobs
  /\ completed \subseteq Jobs \cup Cancels
  /\ pc \in Stages
  /\ pc \in {"publish", "record", "unlink"} => cur \in Messages
  /\ pc \in {"begin", "review"} => cur \in [job : Jobs, code : {"none"}]
  /\ noticed \subseteq Cancels
  /\ expired \in BOOLEAN
  /\ inferences \in [Reviews -> Nat]
  /\ crashes \in 0 .. MaxCrashes

\* A review is started at most once, wherever the worker dies: the running record
\* is there before the CLI is, and recovery answers instead of starting again.
InferredOnce == \A r \in Reviews : inferences[r] <= 1

\* Whatever is confirmed as cancelled is not being reviewed, and never will be.
CancelledStays ==
  \A c \in Cancels :
    Answered(c) => ~(pc \in {"begin", "review"} /\ cur.job = c.target)

\* A worker started again finishes a job with the answer it had published.
JobsReconciled == pc = "publish" /\ cur.job \in Jobs => ~Conflict

\* The same of every message, which test_restart_reconciles_response_published_
\* before_completion_record says of the worker's restart.
Reconciled == pc = "publish" => ~Conflict

\* docker starts the worker again; its loop goes on; an adapter stops by its own
\* timeout or when it is told to.
FairSpec == Spec /\ WF_vars(Start) /\ WF_vars(RunOnce)

\* The worker died between publishing the answer of a cancellation and recording it,
\* and the answer it will give now is another one (Reconciled): it can go on dying.
Jammed ==
  \E a \in outbox :
    /\ a.job \in Cancels \ completed
    /\ a.code # "already_stopped"
    /\ ~(pc = "record" /\ cur = a)

\* Every message the engine sends is answered, unless it is a review taken back or
\* the worker has jammed.
AllAnswered ==
  \A j \in Jobs \cup Cancels :
    j \in inbox ~>
      (Answered(j) \/ Jammed \/ \E c \in Cancels : c.target = j /\ Answered(c))

\* The worker keeps the contract the engine is modelled with: an answered or
\* recorded review is not live.
Live          == {r \in inbox \cap Reviews : r \notin completed /\ ~Answered(r)}
ReviewAnswers == {a \in outbox : a.job \in Reviews}

Contract ==
  INSTANCE ReviewJobs WITH
    Code <- ReviewCodes, published <- inbox \cap Reviews,
    live <- Live, answers <- ReviewAnswers

KeepsContract == Contract!Spec
=============================================================================
