---------------------------- MODULE SessionEngine ----------------------------
(***************************************************************************)
(* The session engine of Peer Reviewer: engine.py's Engine, driven by the  *)
(* loop of cli._serve, committing through SessionStore.commit_round, taking*)
(* human commands from control.py and handing review jobs to two workers.  *)
(*                                                                         *)
(* A debate is a sequence of rounds.  In an attempt at round n reviewer A  *)
(* answers a job, then reviewer B answers one, and the round is committed. *)
(* A committed round is followed by a checkpoint, a window in which a human*)
(* may veto, before anything of round n + 1 is submitted.                  *)
(*                                                                         *)
(* One action is one tick of the engine, cut only where the code makes one *)
(* durable write after another, so that Crash can fall between them: pc    *)
(* names the write that comes next.  mem is the engine's self.state, disk  *)
(* is runtime/state.json; everything else but pc and ackFor is durable too.*)
(*                                                                         *)
(* Time: a deadline may have passed or not each time it is read, except    *)
(* the veto deadline, whose passing is recorded in vetoOver because the    *)
(* properties tell the two apart.                                          *)
(***************************************************************************)
EXTENDS Naturals, Sequences, FiniteSets

CONSTANTS
  MaxRounds,    \* session.max_rounds
  MaxAttempts,  \* attempts in one group (4 in the code)
  Results,      \* material results a round can end with
  Agreed,       \* the result for which has_consensus holds
  CommandIds,   \* identifiers of human commands; bounds their number
  Codes,        \* what a worker's answer may say
  Faults,       \* which of AllFaults can happen
  MaxCrashes    \* bound on engine crashes

AllCodes  == {"ok", "transient", "rate_limit", "permanent"}
AllFaults == {"transport", "cancel", "timeout", "storage", "integrity"}

ASSUME ConstantsAssumption ==
  /\ MaxRounds \in Nat \ {0}
  /\ MaxAttempts \in Nat \ {0}
  /\ MaxCrashes \in Nat
  /\ Agreed \in Results
  /\ Codes \subseteq AllCodes
  /\ Faults \subseteq AllFaults

VARIABLES
  rounds,       \* results of the committed round directories, in order
  disk,         \* runtime/state.json
  checkpoints,  \* rounds with a durable checkpoint event
  vetoOver,     \* those of them whose veto deadline has passed
  cmds,         \* command requests
  acks,         \* command acknowledgements
  marker,       \* .peer-reviewer-active.json names this session
  submitted,    \* jobs ever published to a worker's inbox
  live,         \* published jobs a worker may still start or be running
  answers,      \* published answers
  pc,           \* the engine process: "down", or what it does next
  mem,          \* Engine.state
  ackFor,       \* the acknowledgement _apply_commands is about to publish
  crashes       \* number of crashes so far

workerVars == <<submitted, live, answers>>
vars == <<rounds, disk, checkpoints, vetoOver, cmds, acks, marker,
          submitted, live, answers, pc, mem, ackFor, crashes>>

-----------------------------------------------------------------------------
(* Data. *)

Rounds    == 1 .. MaxRounds
RoundKeys == 1 .. MaxRounds + 1   \* rounds an attempt counter is read for
Terminal  == {"CONSENSUS", "NO_CONSENSUS", "STOPPED", "ERROR"}
Pauses    == {"PAUSED_LIMIT_LOW", "PAUSED_LIMIT_UNKNOWN"}
Waiting   == Pauses \cup {"READY", "RETRY_WAIT"}
Reviewing == {"REVIEWING_A", "REVIEWING_B"}

\* "unset" is the phase of a state.json that has none: the file is absent, or
\* commit_round has just replaced it by the round number alone.
Phases == Terminal \cup Waiting \cup Reviewing \cup {"unset", "CHECKPOINT", "NO_PROGRESS"}
Errors == {"none", "transient", "permanent", "integrity", "storage",
           "cancel_unconfirmed", "attempts_exhausted"}

\* job_id and attempt_id are functions of these four fields.
Jobs  == [round : Rounds, grant : Nat, attempt : Nat, reviewer : {"A", "B"}]
NoJob == [round |-> 0, grant |-> 0, attempt |-> 0, reviewer |-> "none"]

States == [phase : Phases, outcome : Terminal \cup {"none"}, err : Errors, lcr : Nat,
           attempts : [RoundKeys -> Nat], grants : [RoundKeys -> Nat],
           active : Jobs \cup {NoJob}]

Outcomes == {"STOPPED", "ERROR", "RESUMED", "rejected_stale_round"}
Stages   == {"down", "resume", "idle", "acknowledge", "submit", "commit", "status",
             "checkpoint", "saveCheckpoint", "exit"}

\* The state.json that holds nothing but last_completed_round (no file: 0).
Bare(n) == [phase |-> "unset", outcome |-> "none", err |-> "none", lcr |-> n,
            attempts |-> [r \in RoundKeys |-> 0], grants |-> [r \in RoundKeys |-> 0],
            active |-> NoJob]

\* The round being worked on: recovered["last_completed_round"] + 1.
Current == mem.lcr + 1

Job(s, reviewer, attempt) ==
  [round |-> s.lcr + 1, grant |-> s.grants[s.lcr + 1], attempt |-> attempt,
   reviewer |-> reviewer]

TerminalError(s, code) ==
  [s EXCEPT !.phase = "ERROR", !.outcome = "ERROR", !.err = code, !.active = NoJob]

Paused(s, reason) == [s EXCEPT !.phase = reason, !.active = NoJob]

\* _failure for a transient code, and the same choice in resume.
Retry(s) ==
  IF s.active.attempt >= MaxAttempts
  THEN TerminalError(s, "attempts_exhausted")
  ELSE [s EXCEPT !.phase = "RETRY_WAIT", !.err = "transient", !.active = NoJob]

IsFinal(s) ==
  \/ s.phase \in Terminal \ {"ERROR"}
  \/ s.phase = "ERROR" /\ s.err # "attempts_exhausted"

-----------------------------------------------------------------------------
(* Recovery: what a new process makes of the durable state. *)

\* Mutant: only the round numbers are compared.
NeedsCheckpointByNumber == Len(rounds) > disk.lcr

NeedsCheckpoint ==
  \/ Len(rounds) > disk.lcr
  \/ Len(rounds) > 0 /\ disk.phase = "unset"

\* Mutants: the round number of state.json is believed when it has one; the saved
\* phase is not restored.
LoadRuntimeOldNumber ==
  [disk EXCEPT !.lcr    = IF disk.lcr = 0 THEN Len(rounds) ELSE @,
               !.phase  = IF NeedsCheckpoint \/ disk.phase = "unset" THEN "READY" ELSE @,
               !.active = IF NeedsCheckpoint THEN NoJob ELSE @]

LoadRuntimeForgetsPhase ==
  [disk EXCEPT !.lcr = Len(rounds), !.phase = "READY",
               !.active = IF NeedsCheckpoint THEN NoJob ELSE @]

LoadRuntime ==
  [disk EXCEPT !.lcr    = Len(rounds),
               !.phase  = IF NeedsCheckpoint \/ disk.phase = "unset" THEN "READY" ELSE @,
               !.active = IF NeedsCheckpoint THEN NoJob ELSE @]

\* What _serve does next: it leaves its loop on a terminal phase, but ticks once
\* more when resume was the one to reach it, which the later stages of a tick do
\* not remember.
After(s) ==
  IF s.phase \notin Terminal \/ pc = "resume" THEN {"idle"}
  ELSE IF pc \in {"acknowledge", "submit"} THEN {"idle", "exit"}
  ELSE {"exit"}

Save(s) == mem' = s /\ disk' = s /\ pc' \in After(s)

\* docker starts engine again whenever it is down; without an active session
\* the process returns at once.
Boot ==
  /\ pc = "down"
  /\ marker
  /\ mem' = LoadRuntime
  /\ pc' = IF NeedsCheckpoint THEN "checkpoint" ELSE "resume"
  /\ UNCHANGED <<rounds, disk, checkpoints, vetoOver, cmds, acks, marker, ackFor, crashes>>
  /\ UNCHANGED workerVars

\* Mutant: the cancellation is sent, its acknowledgement not awaited.
CancelUnheard(j) == UNCHANGED live

\* The worker confirms that job j neither runs nor will start.
CancelConfirmed(j) == live' = live \ {j}

\* The worker does not answer the cancellation in time.
CancelUnconfirmed ==
  /\ "cancel" \in Faults
  /\ UNCHANGED live

\* resume cancels whatever the previous process had submitted.
ResumeActive ==
  /\ pc = "resume"
  /\ mem.active # NoJob
  /\ \/ CancelConfirmed(mem.active) /\ Save(Retry(mem))
     \/ CancelUnconfirmed /\ Save(TerminalError(mem, "cancel_unconfirmed"))
  /\ UNCHANGED <<rounds, checkpoints, vetoOver, cmds, acks, marker,
                 submitted, answers, ackFor, crashes>>

ResumeCheckpoint ==
  /\ pc = "resume"
  /\ mem.active = NoJob
  /\ mem.phase = "CHECKPOINT"
  /\ pc' = "idle"
  /\ UNCHANGED <<rounds, disk, checkpoints, vetoOver, cmds, acks, marker,
                 mem, ackFor, crashes>>
  /\ UNCHANGED workerVars

-----------------------------------------------------------------------------
(* Commands.  Control.poll runs at the start of every tick: it rejects what *)
(* names another round than state.json and delivers the rest.               *)

Acked(c)    == \E a \in acks : a.id = c.id
Pending     == {c \in cmds : ~Acked(c)}
Delivered   == {c \in Pending : c.round = disk.lcr}
Stale       == Pending \ Delivered

\* Mutant: a request that names another round is passed over.
PassOverStale == UNCHANGED acks

RejectStale == acks' = acks \cup {[id |-> c.id, outcome |-> "rejected_stale_round"] : c \in Stale}

Exhausted(s) == s.phase = "ERROR" /\ s.err = "attempts_exhausted"

\* A stop applies in every phase; a resume for any other state than an exhausted
\* one is neither applied nor acknowledged.
Applies(c) == c.kind = "stop" \/ Exhausted(mem)

\* A tick begins: in the loop, or as the last thing resume does.
Ticking ==
  \/ pc = "idle"
  \/ pc = "resume" /\ mem.active = NoJob /\ mem.phase # "CHECKPOINT"

Tick ==
  /\ Ticking
  /\ RejectStale
  /\ UNCHANGED <<cmds, crashes>>

TickNoCommand ==
  /\ Tick
  /\ \A c \in Delivered : ~Applies(c)
  /\ UNCHANGED <<vetoOver, checkpoints, ackFor, marker, rounds>>

Stopped(s) == [s EXCEPT !.phase = "STOPPED", !.outcome = "STOPPED", !.active = NoJob]

\* _stop: nothing is stopped before the active job's cancellation is confirmed.
ApplyStop(c) ==
  /\ Tick
  /\ c \in Delivered /\ c.kind = "stop" /\ Applies(c)
  /\ \/ /\ CancelConfirmed(mem.active)
        /\ mem' = Stopped(mem)
     \/ /\ mem.active # NoJob
        /\ CancelUnconfirmed
        /\ mem' = TerminalError(mem, "cancel_unconfirmed")
  /\ disk' = mem'
  /\ ackFor' = [id |-> c.id, outcome |-> mem'.phase]
  /\ pc' = "acknowledge"
  /\ UNCHANGED <<rounds, checkpoints, vetoOver, marker, submitted, answers>>

\* The retry grant: a new group of attempts at the round that used up its own.
Granted(s) ==
  [s EXCEPT !.phase = "READY", !.outcome = "none", !.err = "none",
            !.attempts[s.lcr + 1] = 0, !.grants[s.lcr + 1] = @ + 1]

ApplyResume(c) ==
  /\ Tick
  /\ c \in Delivered /\ c.kind = "resume" /\ Applies(c)
  /\ mem' = Granted(mem)
  /\ disk' = mem'
  /\ ackFor' = [id |-> c.id, outcome |-> "RESUMED"]
  /\ pc' = "acknowledge"
  /\ UNCHANGED <<rounds, checkpoints, vetoOver, marker>>
  /\ UNCHANGED workerVars

\* Mutant: the acknowledgement does not come through.
AcknowledgeLost ==
  /\ pc = "acknowledge"
  /\ pc' \in After(mem)
  /\ UNCHANGED <<rounds, disk, checkpoints, vetoOver, cmds, acks, marker, mem, ackFor, crashes>>
  /\ UNCHANGED workerVars

Acknowledge ==
  /\ pc = "acknowledge"
  /\ acks' = acks \cup {ackFor}
  /\ pc' \in After(mem)
  /\ UNCHANGED <<rounds, disk, checkpoints, vetoOver, cmds, marker, mem, ackFor, crashes>>
  /\ UNCHANGED workerVars

-----------------------------------------------------------------------------
(* A tick without a command to apply, by phase. *)

\* The answer to the active job, if it is there.
Answered(code) == [job |-> mem.active, code |-> code] \in answers
Unanswered     == \A code \in AllCodes : ~Answered(code)

\* Nothing is due: the only effect is what poll rejects.
TickWait ==
  /\ TickNoCommand
  /\ \/ mem.phase \in Pauses \cup {"RETRY_WAIT"}
     \/ mem.phase = "CHECKPOINT" /\ mem.lcr \notin vetoOver
     \/ mem.phase \in Reviewing /\ Unanswered
  /\ pc' = "idle"
  /\ UNCHANGED <<disk, mem>>
  /\ UNCHANGED workerVars

TickTerminal ==
  /\ TickNoCommand
  /\ mem.phase \in Terminal
  /\ pc' \in After(mem)
  /\ UNCHANGED <<disk, mem>>
  /\ UNCHANGED workerVars

\* Mutants: the round limit is off by one; it is tested before agreement.
CheckpointVerdictLate(s) ==
  IF rounds[s.lcr] = Agreed
  THEN [s EXCEPT !.phase = "CONSENSUS", !.outcome = "CONSENSUS"]
  ELSE IF s.lcr > MaxRounds
  THEN [s EXCEPT !.phase = "NO_CONSENSUS", !.outcome = "NO_CONSENSUS"]
  ELSE [s EXCEPT !.phase = "READY", !.err = "none"]

CheckpointVerdictLimitFirst(s) ==
  IF s.lcr >= MaxRounds
  THEN [s EXCEPT !.phase = "NO_CONSENSUS", !.outcome = "NO_CONSENSUS"]
  ELSE IF rounds[s.lcr] = Agreed
  THEN [s EXCEPT !.phase = "CONSENSUS", !.outcome = "CONSENSUS"]
  ELSE [s EXCEPT !.phase = "READY", !.err = "none"]

\* _finish_checkpoint, once the veto deadline has passed.
CheckpointVerdict(s) ==
  IF rounds[s.lcr] = Agreed
  THEN [s EXCEPT !.phase = "CONSENSUS", !.outcome = "CONSENSUS"]
  ELSE IF s.lcr >= MaxRounds
  THEN [s EXCEPT !.phase = "NO_CONSENSUS", !.outcome = "NO_CONSENSUS"]
  ELSE IF s.lcr >= 2 /\ rounds[s.lcr] = rounds[s.lcr - 1]
  THEN [s EXCEPT !.phase = "NO_PROGRESS"]
  ELSE [s EXCEPT !.phase = "READY", !.err = "none"]

FinishCheckpoint ==
  /\ TickNoCommand
  /\ mem.phase = "CHECKPOINT"
  /\ mem.lcr \in vetoOver
  /\ Save(CheckpointVerdict(mem))
  /\ UNCHANGED workerVars

\* Repetition is reported, then the debate goes on.
LeaveNoProgress ==
  /\ TickNoCommand
  /\ mem.phase = "NO_PROGRESS"
  /\ Save([mem EXCEPT !.phase = "READY"])
  /\ UNCHANGED workerVars

\* The limit gate refuses a start.
PauseStart ==
  /\ TickNoCommand
  /\ mem.phase \in Waiting
  /\ \E reason \in Pauses : Save(Paused(mem, reason))
  /\ UNCHANGED workerVars

\* The attempt counted, its first job about to be submitted.
Begun(s) ==
  LET a == s.attempts[s.lcr + 1] + 1 IN
  [s EXCEPT !.phase = "REVIEWING_A", !.attempts[s.lcr + 1] = a, !.active = Job(s, "A", a)]

\* Mutant: the attempt is submitted before its count is saved.
StartAttemptUnsaved ==
  /\ TickNoCommand
  /\ mem.phase \in Waiting
  /\ mem.attempts[Current] < MaxAttempts
  /\ mem' = Begun(mem)
  /\ pc' = "submit"
  /\ UNCHANGED disk
  /\ UNCHANGED workerVars

\* _start_attempt, once the wait is over and the gate allows: the attempt is
\* counted and saved before its first job is submitted.
StartAttempt ==
  /\ TickNoCommand
  /\ mem.phase \in Waiting
  /\ mem.attempts[Current] < MaxAttempts
  /\ mem' = Begun(mem)
  /\ disk' = mem'
  /\ pc' = "submit"
  /\ UNCHANGED workerVars

\* A pause can consume the group's last attempt; the next start finds out.
AttemptsUsedUp ==
  /\ TickNoCommand
  /\ mem.phase \in Waiting
  /\ mem.attempts[Current] >= MaxAttempts
  /\ Save(TerminalError(mem, "attempts_exhausted"))
  /\ UNCHANGED workerVars

\* The job reaches the inbox, or submit raises, with or without effect.
Submit ==
  /\ pc = "submit"
  /\ \/ /\ submitted' = submitted \cup {mem.active}
        /\ live' = live \cup {mem.active}
        /\ pc' = "idle"
        /\ UNCHANGED <<mem, disk>>
     \/ /\ "transport" \in Faults
        /\ \/ submitted' = submitted \cup {mem.active} /\ live' = live \cup {mem.active}
           \/ UNCHANGED <<submitted, live>>
        /\ Save(Retry(mem))
  /\ UNCHANGED <<rounds, checkpoints, vetoOver, cmds, acks, marker, answers, ackFor, crashes>>

\* Mutant: nothing happens in REVIEWING_B.
PollReviewOnlyA ==
  /\ TickNoCommand
  /\ mem.phase = "REVIEWING_A"

\* _poll_a and _poll_b: a tick while job mem.active is being reviewed.
PollReview ==
  /\ TickNoCommand
  /\ mem.phase \in Reviewing

PollRaises ==
  /\ PollReview
  /\ "transport" \in Faults
  /\ Save(Retry(mem))
  /\ UNCHANGED workerVars

DeadlinePassed ==
  /\ PollReview
  /\ "timeout" \in Faults
  /\ Unanswered
  /\ \/ CancelConfirmed(mem.active) /\ Save(Retry(mem))
     \/ CancelUnconfirmed /\ Save(TerminalError(mem, "cancel_unconfirmed"))
  /\ UNCHANGED <<submitted, answers>>

ReviewFailed ==
  /\ PollReview
  /\ \/ Answered("transient") /\ Save(Retry(mem))
     \/ Answered("rate_limit") /\ Save(Paused(mem, "PAUSED_LIMIT_UNKNOWN"))
     \/ Answered("permanent") /\ Save(TerminalError(mem, "permanent"))
  /\ UNCHANGED workerVars

\* A has answered: the gate is asked again, and a refusal drops A's turn.
PauseBetween ==
  /\ PollReview
  /\ mem.phase = "REVIEWING_A"
  /\ Answered("ok")
  /\ \E reason \in Pauses : Save(Paused(mem, reason))
  /\ UNCHANGED workerVars

Handed(s) ==
  [s EXCEPT !.phase = "REVIEWING_B", !.active = Job(s, "B", s.active.attempt)]

HandToB ==
  /\ PollReview
  /\ mem.phase = "REVIEWING_A"
  /\ Answered("ok")
  /\ mem' = Handed(mem)
  /\ disk' = mem'
  /\ pc' = "submit"
  /\ UNCHANGED workerVars

\* Both turns are in; reduce_round accepts the pair or does not.
ReduceRound ==
  /\ PollReview
  /\ mem.phase = "REVIEWING_B"
  /\ Answered("ok")
  /\ \/ pc' = "commit" /\ UNCHANGED <<mem, disk>>
     \/ "integrity" \in Faults /\ Save(TerminalError(mem, "integrity"))
  /\ UNCHANGED workerVars

-----------------------------------------------------------------------------
(* Committing a round: the rename, commit_round's own state.json, the       *)
(* checkpoint event, the engine's state.json.                               *)

CommitRound ==
  /\ pc = "commit"
  /\ \/ /\ \E r \in Results : /\ r = Agreed => Len(rounds) > 0   \* from round 2 on
                              /\ rounds' = Append(rounds, r)
        /\ pc' = "status"
        /\ UNCHANGED <<mem, disk>>
     \/ /\ "storage" \in Faults
        /\ UNCHANGED rounds
        /\ Save(TerminalError(mem, "storage"))
  /\ UNCHANGED <<checkpoints, vetoOver, cmds, acks, marker, ackFor, crashes>>
  /\ UNCHANGED workerVars

\* commit_round replaces state.json by the round number alone; then recover
\* reads the round back, which may fail.
WriteRoundStatus ==
  /\ pc = "status"
  /\ \/ /\ disk' = Bare(Len(rounds))
        /\ mem' = [mem EXCEPT !.lcr = Len(rounds), !.active = NoJob]
        /\ pc' = "checkpoint"
     \/ /\ "storage" \in Faults
        /\ Save(TerminalError(mem, "storage"))
  /\ UNCHANGED <<rounds, checkpoints, vetoOver, cmds, acks, marker, ackFor, crashes>>
  /\ UNCHANGED workerVars

\* The event carries the deadline; one that exists already is reused.
CheckpointEvent ==
  /\ pc = "checkpoint"
  /\ checkpoints' = checkpoints \cup {mem.lcr}
  /\ pc' = "saveCheckpoint"
  /\ UNCHANGED <<rounds, disk, vetoOver, cmds, acks, marker, mem, ackFor, crashes>>
  /\ UNCHANGED workerVars

SaveCheckpoint ==
  /\ pc = "saveCheckpoint"
  /\ Save([mem EXCEPT !.phase = "CHECKPOINT", !.active = NoJob])
  /\ UNCHANGED <<rounds, checkpoints, vetoOver, cmds, acks, marker, ackFor, crashes>>
  /\ UNCHANGED workerVars

-----------------------------------------------------------------------------
(* The process ends, and its surroundings. *)

\* After the report, _serve removes the marker of a session that is final.
Exit ==
  /\ pc = "exit"
  /\ marker' = (marker /\ ~IsFinal(mem))
  /\ pc' = "down"
  /\ mem' = Bare(0)
  /\ UNCHANGED <<rounds, disk, checkpoints, vetoOver, cmds, acks, ackFor, crashes>>
  /\ UNCHANGED workerVars

Crash ==
  /\ pc # "down"
  /\ crashes < MaxCrashes
  /\ crashes' = crashes + 1
  /\ pc' = "down"
  /\ mem' = Bare(0)
  /\ UNCHANGED <<rounds, disk, checkpoints, vetoOver, cmds, acks, marker, ackFor>>
  /\ UNCHANGED workerVars

\* peer-reviewer stop / resume: the command names the round state.json shows,
\* and a resume of a final session is not sent.
IssueCommand(id, kind) ==
  /\ \A c \in cmds : c.id # id
  /\ disk # Bare(0)
  /\ kind = "resume" => ~IsFinal(disk)
  /\ cmds' = cmds \cup {[id |-> id, kind |-> kind, round |-> disk.lcr]}
  /\ UNCHANGED <<rounds, disk, checkpoints, vetoOver, acks, marker, pc, mem, ackFor, crashes>>
  /\ UNCHANGED workerVars

VetoElapses ==
  /\ \E n \in checkpoints \ vetoOver : vetoOver' = vetoOver \cup {n}
  /\ UNCHANGED <<rounds, disk, checkpoints, cmds, acks, marker, pc, mem, ackFor, crashes>>
  /\ UNCHANGED workerVars

\* A worker finishes a job.  A late answer, to a job that is not active any more,
\* is an "ok", the only kind that could do harm if it were taken for another's.
WorkerAnswers ==
  /\ \E j \in live, code \in Codes :
       /\ j \notin {mem.active, disk.active} => code = "ok"
       /\ live' = live \ {j}
       /\ answers' = answers \cup {[job |-> j, code |-> code]}
  /\ UNCHANGED <<rounds, disk, checkpoints, vetoOver, cmds, acks, marker,
                 submitted, pc, mem, ackFor, crashes>>

-----------------------------------------------------------------------------

Init ==
  /\ rounds = <<>>
  /\ disk = Bare(0)
  /\ checkpoints = {} /\ vetoOver = {}
  /\ cmds = {} /\ acks = {}
  /\ marker = TRUE
  /\ submitted = {} /\ live = {} /\ answers = {}
  /\ pc = "down"
  /\ mem = Bare(0)
  /\ ackFor = [id |-> "none", outcome |-> "none"]
  /\ crashes = 0

EngineTick ==
  \/ \E c \in cmds : ApplyStop(c) \/ ApplyResume(c)
  \/ TickWait \/ TickTerminal
  \/ FinishCheckpoint \/ LeaveNoProgress
  \/ PauseStart \/ StartAttempt \/ AttemptsUsedUp
  \/ PollRaises \/ DeadlinePassed \/ ReviewFailed
  \/ PauseBetween \/ HandToB \/ ReduceRound

EngineStage ==
  \/ ResumeActive \/ ResumeCheckpoint
  \/ Acknowledge \/ Submit
  \/ CommitRound \/ WriteRoundStatus \/ CheckpointEvent \/ SaveCheckpoint
  \/ Exit

Environment ==
  \/ Crash
  \/ \E id \in CommandIds, kind \in {"stop", "resume"} : IssueCommand(id, kind)
  \/ VetoElapses
  \/ WorkerAnswers

Next == Boot \/ EngineTick \/ EngineStage \/ Environment

Spec == Init /\ [][Next]_vars

-----------------------------------------------------------------------------
(* Properties. *)

\* Every variable keeps to the values engine.py, store.py and control.py give it.
TypeOK ==
  /\ rounds \in Seq(Results)
  /\ disk \in States /\ mem \in States
  /\ checkpoints \subseteq Rounds /\ vetoOver \subseteq checkpoints
  /\ cmds \subseteq [id : CommandIds, kind : {"stop", "resume"}, round : Nat]
  /\ acks \subseteq [id : CommandIds, outcome : Outcomes]
  /\ marker \in BOOLEAN
  /\ submitted \subseteq Jobs /\ live \subseteq submitted
  /\ answers \subseteq [job : submitted, code : Codes]
  /\ pc \in Stages
  /\ ackFor \in [id : CommandIds \cup {"none"}, outcome : Outcomes \cup {"none"}]
  /\ pc = "acknowledge" => ackFor \in [id : CommandIds, outcome : Outcomes]
  /\ crashes \in 0 .. MaxCrashes

\* A job is published once, and only for the round after the last committed one:
\* whatever is lost in a crash, _load_runtime and the attempt count saved before
\* submit keep a new process from reviewing a committed round again or reusing a
\* job id.
SubmissionsFresh ==
  pc = "submit" => /\ mem.active \notin submitted
                   /\ mem.active.round = Len(rounds) + 1

\* Nothing of a round is submitted before the veto deadline of the one before it
\* has passed, whether the checkpoint was reached in one go or by recovery.
VetoRespected ==
  \A j \in submitted : j.round > 1 => j.round - 1 \in vetoOver

\* The session stops at max_rounds, and a group of attempts at MaxAttempts, however
\* crashes, pauses, failures and grants follow one another.
WithinBudget ==
  \A j \in submitted : j.round <= MaxRounds /\ j.attempt <= MaxAttempts

\* A verdict rests on committed rounds whose veto window is over, and agreement in
\* the last permitted round counts as agreement.
VerdictJustified ==
  /\ disk.phase = "CONSENSUS" => /\ Len(rounds) \in vetoOver
                                 /\ rounds[Len(rounds)] = Agreed
  /\ disk.phase = "NO_CONSENSUS" => /\ Len(rounds) = MaxRounds
                                    /\ MaxRounds \in vetoOver
                                    /\ rounds[MaxRounds] # Agreed

\* Once a final state is saved with all its rounds, an error in which a cancellation
\* was not confirmed among them, no later tick or process commits a round, submits a
\* job or changes state.json, unless a pending stop makes it STOPPED.
FinalHolds ==
  [][IsFinal(disk) /\ disk.lcr = Len(rounds) =>
       /\ rounds' = rounds /\ submitted' = submitted
       /\ \/ disk' = disk
          \/ disk'.phase = "STOPPED" /\ \E c \in Delivered : c.kind = "stop"]_vars

\* Once STOPPED is saved no later tick or process leaves it, commits a round or
\* submits a job.
StopFinal ==
  [][disk.phase = "STOPPED" => /\ disk'.phase = "STOPPED"
                               /\ submitted' = submitted
                               /\ rounds' = rounds]_vars

\* A group of attempts after the first is one that a human granted, and a grant is
\* not used again: a resume command opens one group, and a second one only if the
\* engine crashes between saving the grant and acknowledging the command.
ResumesOf(r) == {c \in cmds : c.kind = "resume" /\ c.round = r - 1}

GroupsGranted ==
  \A j \in submitted : j.grant <= Cardinality(ResumesOf(j.round)) + crashes

\* An acknowledged stop is in state.json and has left no job at a worker: _stop
\* waits for the cancellation, and resume's cancels the previous process's job.
AckedStopHolds ==
  (\E a \in acks : a.outcome = "STOPPED") => disk.phase = "STOPPED" /\ live = {}

\* To the workers the engine is a client of the contract in ReviewJobs: every job is
\* published once, and no step but a publication makes a job live.
Contract == INSTANCE ReviewJobs WITH Code <- Codes, published <- submitted

UsesContract == Contract!Spec

\* With its published jobs the engine keeps the history of rounds that the store keeps
\* on its disk: a job is always for the next round, a commit is of a round reviewed.
History == INSTANCE RoundHistory WITH rounds <- Len(rounds), broken <- FALSE

UsesHistory == History!Spec

\* Weak fairness of the engine (docker restarts it, its loop never waits without a
\* bound), of the veto clock, and of the workers, which answer by their deadline.
\* Crashes are bounded by MaxCrashes; the gate may refuse for ever.
FairSpec ==
  /\ Spec
  /\ WF_vars(Boot) /\ WF_vars(EngineTick) /\ WF_vars(EngineStage)
  /\ WF_vars(VetoElapses) /\ WF_vars(WorkerAnswers)

\* While a stop waits, nothing is submitted beyond the round after the one it names: it
\* is applied or refused before the engine goes past that round's checkpoint.
StopNotMissed ==
  [][\A c \in Pending, j \in submitted' \ submitted :
       c.kind = "stop" => j.round <= c.round + 1]_vars

\* A stop request takes effect, as STOPPED or as the error that a cancellation was not
\* confirmed, or its session ends before.  It is refused for one reason only, that a round
\* was committed after it was sent, and then in time to be sent again.
Overtaken(c) == Len(rounds) > c.round /\ [id |-> c.id, outcome |-> "rejected_stale_round"] \in acks

StopHeeded ==
  /\ \A id \in CommandIds :
       (\E c \in cmds : c.id = id /\ c.kind = "stop")
         ~> \/ ~marker
            \/ \E a \in acks : a.id = id /\ a.outcome \in {"STOPPED", "ERROR"}
            \/ \E c \in cmds : c.id = id /\ Overtaken(c)
  /\ StopNotMissed

\* The debate comes to an end unless the limit gate keeps it paused: retries,
\* restarts and grants do not go on for ever.
Settles == <>[](disk.phase \in Terminal) \/ []<>(disk.phase \in Pauses)

-----------------------------------------------------------------------------
(* What the documentation says and the code does not do.                    *)

\* "The engine processes commands idempotently": a resume grants one group.
OneGrantPerResume ==
  \A r \in Rounds : disk.grants[r] <= Cardinality(ResumesOf(r))
=============================================================================
