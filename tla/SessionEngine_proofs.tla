------------------------ MODULE SessionEngine_proofs ------------------------
(***************************************************************************)
(* Proofs about SessionEngine, for every value of its constants.           *)
(***************************************************************************)
EXTENDS SessionEngine, FiniteSetTheorems, TLAPS

(* The inductive invariant.  TypeOK says what kind of value each variable   *)
(* holds; the parts below say how state.json, the engine's memory, the      *)
(* committed rounds and the published jobs hang together at each stage.     *)

Committing    == {"checkpoint", "saveCheckpoint"}
UpToDate      == {"resume", "idle", "acknowledge", "submit", "commit"} \cup Committing
Verdicts      == {"CONSENSUS", "NO_CONSENSUS"}
N             == Len(rounds)

\* Memory knows the committed rounds, but for the moment between the rename and
\* recover; a failure of recover ends the process on the old number.
Rounds_Inv ==
  /\ N <= MaxRounds
  /\ disk.lcr <= N
  /\ mem.lcr <= N
  /\ pc \in UpToDate => mem.lcr = N
  /\ pc = "status" => mem.lcr + 1 = N
  /\ pc \in Committing => N > 0

\* A state in which the next round may be worked on: it is permitted and the veto
\* window before it is over.
AtWork(s) == s.phase \in Waiting \cup Reviewing \cup {"NO_PROGRESS"} \/ Exhausted(s)
Entitled(s) == AtWork(s) => s.lcr < MaxRounds /\ (s.lcr > 0 => s.lcr \in vetoOver)

Entitled_Inv ==
  /\ Entitled(disk)
  /\ pc \notin Committing => Entitled(mem)

\* The active job is the current attempt's, and there is one only while reviewing.
Reviewer(s) == IF s.phase = "REVIEWING_A" THEN "A" ELSE "B"
ActiveOK(s) ==
  IF s.phase \in Reviewing
  THEN s.active = Job(s, Reviewer(s), s.attempts[s.lcr + 1])
  ELSE s.active = NoJob

Active_Inv ==
  /\ ActiveOK(disk)
  /\ IF pc \in Committing THEN mem.active = NoJob ELSE ActiveOK(mem)
  /\ pc \in {"submit", "commit", "status"} => mem.phase \in Reviewing
  /\ pc = "acknowledge" => mem.phase \notin Reviewing
  /\ pc \in {"submit", "commit", "status"} \/ (pc = "idle" /\ mem.phase \in Reviewing)
       => disk = mem

\* Attempt counters cover the jobs ever published for the round they count.
Covers(s, published) ==
  \A j \in published :
    j.round = s.lcr + 1 =>
      \/ j.grant < s.grants[j.round]
      \/ j.grant = s.grants[j.round] /\ j.attempt <= s.attempts[j.round]

Submitted_Inv ==
  /\ \A j \in submitted : j.round <= N + 1
  /\ disk.phase = "unset" \/ disk.lcr < N \/ pc \in Committing \cup {"status"}
       => \A j \in submitted : j.round <= N
  /\ Covers(disk, submitted)
  /\ pc \in UpToDate => Covers(mem, submitted)
  /\ pc = "submit" => mem.active \notin submitted
  /\ pc \in {"idle", "submit"} /\ mem.phase = "REVIEWING_A"
       => Job(mem, "B", mem.active.attempt) \notin submitted

\* No counter passes the limit.
Budget_Inv ==
  /\ \A r \in RoundKeys : disk.attempts[r] <= MaxAttempts /\ mem.attempts[r] <= MaxAttempts
  /\ WithinBudget

\* Verdicts and stops are about the rounds there are now, and memory agrees.
Verdict_Inv ==
  /\ disk.phase \in Verdicts \cup {"STOPPED"} => disk.lcr = N
  /\ VerdictJustified

Stop_Inv ==
  disk.phase = "STOPPED" /\ pc # "down" =>
    pc \in {"resume", "idle", "acknowledge", "exit"} /\ mem.phase = "STOPPED"

Coherent ==
  /\ Rounds_Inv
  /\ Entitled_Inv
  /\ Active_Inv
  /\ Submitted_Inv
  /\ Budget_Inv
  /\ VetoRespected
  /\ Verdict_Inv
  /\ Stop_Inv

IInv == TypeOK /\ Coherent

-----------------------------------------------------------------------------

(* What the state transformers do to each field.                            *)

LEMMA BareFields ==
  ASSUME NEW n \in Nat
  PROVE  /\ Bare(n) \in States
         /\ Bare(n).phase = "unset" /\ Bare(n).lcr = n /\ Bare(n).active = NoJob
         /\ \A r \in RoundKeys : Bare(n).attempts[r] = 0
  BY DEF Bare, States, Phases, Errors, RoundKeys, Jobs, NoJob

LEMMA TerminalErrorFields ==
  ASSUME NEW s \in States, NEW code \in Errors
  PROVE  /\ TerminalError(s, code) \in States
         /\ TerminalError(s, code).phase = "ERROR"
         /\ TerminalError(s, code).err = code
         /\ TerminalError(s, code).active = NoJob
         /\ TerminalError(s, code).lcr = s.lcr
         /\ TerminalError(s, code).attempts = s.attempts
         /\ TerminalError(s, code).grants = s.grants
  BY DEF TerminalError, States, Phases, Terminal

LEMMA PausedFields ==
  ASSUME NEW s \in States, NEW reason \in Pauses
  PROVE  /\ Paused(s, reason) \in States
         /\ Paused(s, reason).phase = reason
         /\ Paused(s, reason).active = NoJob
         /\ Paused(s, reason).lcr = s.lcr
         /\ Paused(s, reason).attempts = s.attempts
         /\ Paused(s, reason).grants = s.grants
  BY DEF Paused, States, Phases, Waiting

LEMMA StoppedFields ==
  ASSUME NEW s \in States
  PROVE  /\ Stopped(s) \in States
         /\ Stopped(s).phase = "STOPPED"
         /\ Stopped(s).active = NoJob
         /\ Stopped(s).lcr = s.lcr
         /\ Stopped(s).attempts = s.attempts
         /\ Stopped(s).grants = s.grants
  BY DEF Stopped, States, Phases, Terminal

LEMMA RetryFields ==
  ASSUME NEW s \in States
  PROVE  /\ Retry(s) \in States
         /\ \/ Retry(s).phase = "RETRY_WAIT"
            \/ Retry(s).phase = "ERROR" /\ Retry(s).err = "attempts_exhausted"
         /\ Retry(s).active = NoJob
         /\ Retry(s).lcr = s.lcr
         /\ Retry(s).attempts = s.attempts
         /\ Retry(s).grants = s.grants
<1>1. CASE s.active.attempt >= MaxAttempts
  <2>1. "attempts_exhausted" \in Errors
    BY DEF Errors
  <2>2. QED
    BY <1>1, <2>1, TerminalErrorFields DEF Retry
<1>2. CASE ~(s.active.attempt >= MaxAttempts)
  BY <1>2 DEF Retry, States, Phases, Waiting, Errors
<1>3. QED
  BY <1>1, <1>2

LEMMA CounterInRange ==
  ASSUME NEW n \in Nat, n <= MaxRounds
  PROVE  n + 1 \in RoundKeys
  BY ConstantsAssumption DEF RoundKeys

LEMMA GrantedFields ==
  ASSUME NEW s \in States, s.lcr <= MaxRounds
  PROVE  /\ Granted(s) \in States
         /\ Granted(s).phase = "READY"
         /\ Granted(s).active = s.active
         /\ Granted(s).lcr = s.lcr
         /\ Granted(s).attempts = [s.attempts EXCEPT ![s.lcr + 1] = 0]
         /\ Granted(s).grants = [s.grants EXCEPT ![s.lcr + 1] = @ + 1]
<1>1. s.lcr + 1 \in RoundKeys /\ s.grants[s.lcr + 1] + 1 \in Nat
  BY CounterInRange DEF States
<1>2. 0 \in Nat /\ "none" \in Terminal \cup {"none"} /\ "none" \in Errors /\ "READY" \in Phases
  BY DEF Errors, Phases, Waiting
<1>3. QED
  BY <1>1, <1>2 DEF Granted, States

LEMMA JobFields ==
  ASSUME NEW s \in States, s.lcr < MaxRounds, NEW reviewer \in {"A", "B"}, NEW a \in Nat
  PROVE  /\ Job(s, reviewer, a) \in Jobs
         /\ Job(s, reviewer, a).round = s.lcr + 1
         /\ Job(s, reviewer, a).grant = s.grants[s.lcr + 1]
         /\ Job(s, reviewer, a).attempt = a
         /\ Job(s, reviewer, a).reviewer = reviewer
         /\ Job(s, reviewer, a) # NoJob
<1>1. s.lcr + 1 \in Rounds /\ s.lcr + 1 \in RoundKeys /\ s.lcr + 1 # 0
  BY ConstantsAssumption DEF Rounds, RoundKeys, States
<1>2. s.grants[s.lcr + 1] \in Nat
  BY <1>1 DEF States
<1>3. QED
  BY <1>1, <1>2 DEF Job, Jobs, NoJob

LEMMA BegunFields ==
  ASSUME NEW s \in States, s.lcr < MaxRounds
  PROVE  /\ Begun(s) \in States
         /\ Begun(s).phase = "REVIEWING_A"
         /\ Begun(s).active = Job(s, "A", s.attempts[s.lcr + 1] + 1)
         /\ Begun(s).lcr = s.lcr
         /\ Begun(s).attempts = [s.attempts EXCEPT ![s.lcr + 1] = s.attempts[s.lcr + 1] + 1]
         /\ Begun(s).grants = s.grants
<1> DEFINE a == s.attempts[s.lcr + 1] + 1
<1>1. s.lcr + 1 \in RoundKeys /\ a \in Nat
  BY ConstantsAssumption DEF RoundKeys, States
<1>2. Job(s, "A", a) \in Jobs
  BY <1>1, JobFields
<1>3. QED
  BY <1>1, <1>2 DEF Begun, States, Phases, Reviewing

LEMMA HandedFields ==
  ASSUME NEW s \in States, s.lcr < MaxRounds, s.active.attempt \in Nat
  PROVE  /\ Handed(s) \in States
         /\ Handed(s).phase = "REVIEWING_B"
         /\ Handed(s).active = Job(s, "B", s.active.attempt)
         /\ Handed(s).lcr = s.lcr
         /\ Handed(s).attempts = s.attempts
         /\ Handed(s).grants = s.grants
<1>1. Job(s, "B", s.active.attempt) \in Jobs
  BY JobFields
<1>2. QED
  BY <1>1 DEF Handed, States, Phases, Reviewing

-----------------------------------------------------------------------------
(* Steps that save a state which is not reviewing: published is what the    *)
(* step leaves in submitted.                                                *)

PublishedOK(published) ==
  \A j \in published :
    /\ j.round <= N + 1
    /\ j.round <= MaxRounds /\ j.attempt <= MaxAttempts
    /\ j.round > 1 => j.round - 1 \in vetoOver

Justified(s) ==
  /\ s.phase = "CONSENSUS" => N \in vetoOver /\ rounds[N] = Agreed
  /\ s.phase = "NO_CONSENSUS" =>
       N = MaxRounds /\ MaxRounds \in vetoOver /\ rounds[MaxRounds] # Agreed

LEMMA SaveCoherent ==
  ASSUME IInv,
         NEW s \in States, mem' = s, disk' = s,
         pc' \in {"idle", "exit", "acknowledge"},
         UNCHANGED <<rounds, vetoOver>>,
         s.phase \notin Reviewing \cup {"unset"}, s.active = NoJob,
         s.lcr = N \/ (pc' = "exit" /\ s.phase = "ERROR"),
         s.lcr <= N,
         s.lcr < N => \A j \in submitted' : j.round <= N,
         Entitled(s), Justified(s),
         \A r \in RoundKeys : s.attempts[r] <= MaxAttempts,
         PublishedOK(submitted'), Covers(s, submitted')
  PROVE  Coherent'
<1>1. N' = N
  BY DEF N
<1>2. Rounds_Inv'
  <2>1. N <= MaxRounds
    BY DEF IInv, Coherent, Rounds_Inv
  <2>2. QED
    BY <1>1, <2>1 DEF Rounds_Inv, UpToDate, Committing
<1>3. Entitled_Inv'
  BY DEF Entitled_Inv, Entitled, AtWork, Exhausted
<1>4. Active_Inv'
  BY DEF Active_Inv, ActiveOK, Committing
<1>5. Submitted_Inv'
  <2>1. s.phase # "unset" /\ s.phase # "REVIEWING_A" /\ pc' # "submit"
    BY DEF Reviewing
  <2>2. \A j \in submitted' : j.round <= N + 1
    BY DEF PublishedOK
  <2>3. pc' \notin Committing \cup {"status"} /\ ~(mem'.phase = "REVIEWING_A")
    BY <2>1 DEF Committing
  <2>4. disk'.lcr < N => \A j \in submitted' : j.round <= N
    OBVIOUS
  <2>5. Covers(disk', submitted') /\ Covers(mem', submitted')
    OBVIOUS
  <2>6. QED
    BY <1>1, <2>1, <2>2, <2>3, <2>4, <2>5 DEF Submitted_Inv
<1>6. Budget_Inv' /\ VetoRespected'
  BY DEF Budget_Inv, WithinBudget, VetoRespected, PublishedOK
<1>7. Verdict_Inv'
  BY <1>1 DEF Verdict_Inv, Verdicts, VerdictJustified, Justified, N
<1>8. Stop_Inv'
  BY DEF Stop_Inv
<1>9. QED
  BY <1>2, <1>3, <1>4, <1>5, <1>6, <1>7, <1>8 DEF Coherent

\* What the invariant says of the engine's memory while it is at work.
LEMMA AtRest ==
  ASSUME IInv, pc \in {"resume", "idle", "submit", "commit"}
  PROVE  /\ mem \in States /\ mem.lcr = N /\ N \in Nat /\ N <= MaxRounds
         /\ Entitled(mem) /\ ActiveOK(mem)
         /\ Covers(mem, submitted) /\ PublishedOK(submitted)
         /\ \A r \in RoundKeys : mem.attempts[r] <= MaxAttempts
<1>1. mem \in States /\ N \in Nat
  BY DEF IInv, TypeOK, N
<1>2. mem.lcr = N /\ N <= MaxRounds
  BY DEF IInv, Coherent, Rounds_Inv, UpToDate
<1>3. Entitled(mem) /\ ActiveOK(mem)
  BY DEF IInv, Coherent, Entitled_Inv, Active_Inv, Committing
<1>4. Covers(mem, submitted)
  BY DEF IInv, Coherent, Submitted_Inv, UpToDate
<1>5. PublishedOK(submitted)
  BY DEF IInv, Coherent, Submitted_Inv, Budget_Inv, WithinBudget, VetoRespected, PublishedOK
<1>6. \A r \in RoundKeys : mem.attempts[r] <= MaxAttempts
  BY DEF IInv, Coherent, Budget_Inv
<1>7. QED
  BY <1>1, <1>2, <1>3, <1>4, <1>5, <1>6

LEMMA EntitledSame ==
  ASSUME NEW s, NEW t, s.lcr = t.lcr, Entitled(s), AtWork(s)
  PROVE  Entitled(t)
  BY DEF Entitled

\* A retry, a pause, an error or a stop keeps the round and its counters.
LEMMA QuietCoherent ==
  ASSUME IInv, pc \in {"resume", "idle", "submit", "commit"},
         NEW s \in States, mem' = s, disk' = s,
         pc' \in {"idle", "exit", "acknowledge"},
         UNCHANGED <<rounds, vetoOver, submitted>>,
         s.phase \notin Reviewing \cup Verdicts \cup {"unset"}, s.active = NoJob,
         s.lcr = mem.lcr, s.attempts = mem.attempts, s.grants = mem.grants,
         AtWork(s) => AtWork(mem)
  PROVE  Coherent'
<1>1. s.lcr = N /\ s.lcr <= N /\ ~(s.lcr < N)
  BY AtRest
<1>2. Entitled(s)
  BY AtRest, EntitledSame DEF Entitled
<1>3. Justified(s)
  BY DEF Justified, Verdicts
<1>4. PublishedOK(submitted') /\ Covers(s, submitted')
  BY AtRest DEF Covers
<1>5. QED
  BY <1>1, <1>2, <1>3, <1>4, AtRest, SaveCoherent

\* Once mem is about to be reviewed, its round is a permitted one.
LEMMA ReviewingFacts ==
  ASSUME IInv, pc \in {"resume", "idle", "submit", "commit"}, mem.phase \in Reviewing
  PROVE  /\ mem.lcr < MaxRounds /\ (mem.lcr > 0 => mem.lcr \in vetoOver)
         /\ mem.lcr + 1 \in RoundKeys
         /\ mem.active = Job(mem, Reviewer(mem), mem.attempts[mem.lcr + 1])
         /\ mem.active \in Jobs /\ mem.active # NoJob
         /\ mem.active.round = N + 1
         /\ mem.active.attempt = mem.attempts[mem.lcr + 1]
         /\ mem.active.reviewer = Reviewer(mem)
         /\ AtWork(mem)
<1>1. AtWork(mem) /\ mem \in States /\ mem.lcr \in Nat
  BY AtRest DEF AtWork, States
<1>2. mem.lcr < MaxRounds /\ (mem.lcr > 0 => mem.lcr \in vetoOver) /\ mem.lcr + 1 \in RoundKeys
  BY <1>1, AtRest, ConstantsAssumption DEF Entitled, RoundKeys
<1>3. mem.active = Job(mem, Reviewer(mem), mem.attempts[mem.lcr + 1])
  BY AtRest DEF ActiveOK
<1>4. Reviewer(mem) \in {"A", "B"} /\ mem.attempts[mem.lcr + 1] \in Nat
  BY <1>1, <1>2 DEF Reviewer, States
<1>5. QED
  BY <1>1, <1>2, <1>3, <1>4, AtRest, JobFields

LEMMA TickType ==
  ASSUME TypeOK, Tick
  PROVE  /\ acks' \subseteq [id : CommandIds, outcome : Outcomes]
         /\ UNCHANGED <<cmds, crashes>>
         /\ pc \in {"resume", "idle"}
  BY DEF TypeOK, Tick, RejectStale, Stale, Pending, Outcomes, Ticking

LEMMA CancelType ==
  ASSUME TypeOK, NEW j, CancelConfirmed(j) \/ CancelUnconfirmed
  PROVE  live' \subseteq submitted
  BY DEF TypeOK, CancelConfirmed, CancelUnconfirmed

\* A tick or stage that saves s and moves on, with the other variables as they
\* usually are.
LEMMA SavedType ==
  ASSUME TypeOK, mem' \in States, disk' \in States, pc' \in Stages,
         UNCHANGED <<rounds, checkpoints, vetoOver, marker, submitted, answers>>,
         live' \subseteq submitted,
         acks' \subseteq [id : CommandIds, outcome : Outcomes],
         UNCHANGED <<cmds, crashes>>,
         ackFor' \in [id : CommandIds \cup {"none"}, outcome : Outcomes \cup {"none"}],
         pc' = "acknowledge" => ackFor' \in [id : CommandIds, outcome : Outcomes]
  PROVE  TypeOK'
  BY DEF TypeOK

LEMMA SaveStages ==
  ASSUME NEW s, pc' \in After(s)
  PROVE  pc' \in {"idle", "exit"} /\ pc' \in Stages
  BY DEF After, Stages

\* The common case: a tick without a command saves a quiet state.
LEMMA QuietTick ==
  ASSUME IInv, TickNoCommand,
         NEW s \in States, Save(s), UNCHANGED <<submitted, answers>>, live' \subseteq submitted,
         s.phase \notin Reviewing \cup Verdicts \cup {"unset"}, s.active = NoJob,
         s.lcr = mem.lcr, s.attempts = mem.attempts, s.grants = mem.grants,
         AtWork(s) => AtWork(mem)
  PROVE  IInv'
<1>1. /\ pc \in {"resume", "idle"}
      /\ acks' \subseteq [id : CommandIds, outcome : Outcomes]
      /\ UNCHANGED <<cmds, crashes>>
  BY TickType DEF TickNoCommand, IInv
<1>2. mem' = s /\ disk' = s /\ pc' \in {"idle", "exit"} /\ pc' \in Stages
  BY SaveStages DEF Save
<1>3. UNCHANGED <<rounds, checkpoints, vetoOver, marker, ackFor>>
  BY DEF TickNoCommand
<1>4. TypeOK'
  <2>1. ackFor' \in [id : CommandIds \cup {"none"}, outcome : Outcomes \cup {"none"}]
    BY <1>3 DEF IInv, TypeOK
  <2>2. QED
    BY <1>1, <1>2, <1>3, <2>1, SavedType DEF IInv
<1>5. Coherent'
  BY <1>1, <1>2, <1>3, QuietCoherent
<1>6. QED
  BY <1>4, <1>5 DEF IInv

-----------------------------------------------------------------------------
(* The ticks of a review.                                                   *)

LEMMA RetryTick ==
  ASSUME IInv, TickNoCommand, mem.phase \in Reviewing, Save(Retry(mem)),
         UNCHANGED <<submitted, answers>>, live' \subseteq submitted
  PROVE  IInv'
<1>1. pc \in {"resume", "idle"}
  BY TickType DEF TickNoCommand, IInv
<1>2. AtWork(mem) /\ mem \in States
  BY <1>1, ReviewingFacts, AtRest
<1>3. Retry(mem).phase \notin Reviewing \cup Verdicts \cup {"unset"}
  BY <1>2, RetryFields DEF Reviewing, Verdicts
<1>4. QED
  BY <1>2, <1>3, RetryFields, QuietTick

LEMMA ErrorTick ==
  ASSUME IInv, TickNoCommand, NEW code \in Errors, Save(TerminalError(mem, code)),
         code = "attempts_exhausted" => AtWork(mem),
         UNCHANGED <<submitted, answers>>, live' \subseteq submitted
  PROVE  IInv'
<1>1. mem \in States
  BY DEF IInv, TypeOK
<1>2. TerminalError(mem, code).phase \notin Reviewing \cup Verdicts \cup {"unset"}
  BY <1>1, TerminalErrorFields DEF Reviewing, Verdicts
<1>3. AtWork(TerminalError(mem, code)) => AtWork(mem)
  BY <1>1, TerminalErrorFields DEF AtWork, Exhausted, Waiting, Pauses, Reviewing
<1>4. QED
  BY <1>1, <1>2, <1>3, TerminalErrorFields, QuietTick

LEMMA PauseTick ==
  ASSUME IInv, TickNoCommand, NEW reason \in Pauses, Save(Paused(mem, reason)),
         AtWork(mem), UNCHANGED <<submitted, live, answers>>
  PROVE  IInv'
<1>1. mem \in States
  BY DEF IInv, TypeOK
<1>2. Paused(mem, reason).phase \notin Reviewing \cup Verdicts \cup {"unset"}
  BY <1>1, PausedFields DEF Reviewing, Verdicts, Pauses
<1>3. live' \subseteq submitted
  BY DEF IInv, TypeOK
<1>4. QED
  BY <1>1, <1>2, <1>3, PausedFields, QuietTick

LEMMA PollStep ==
  ASSUME IInv, PollRaises \/ DeadlinePassed \/ ReviewFailed \/ PauseBetween
  PROVE  IInv'
<1>1. TickNoCommand /\ mem.phase \in Reviewing
  BY DEF PollRaises, DeadlinePassed, ReviewFailed, PauseBetween, PollReview
<1>2. AtWork(mem)
  BY <1>1 DEF AtWork
<1>3. live \subseteq submitted
  BY DEF IInv, TypeOK
<1>4. "cancel_unconfirmed" \in Errors /\ "permanent" \in Errors
      /\ "PAUSED_LIMIT_UNKNOWN" \in Pauses
  BY DEF Errors, Pauses
<1>5. CASE PollRaises
  BY <1>1, <1>3, <1>5, RetryTick DEF PollRaises, workerVars
<1>6. CASE DeadlinePassed
  <2>1. live' \subseteq submitted /\ UNCHANGED <<submitted, answers>>
    BY <1>6, CancelType DEF DeadlinePassed, IInv
  <2>2. CASE Save(Retry(mem))
    BY <1>1, <2>1, <2>2, RetryTick
  <2>3. CASE Save(TerminalError(mem, "cancel_unconfirmed"))
    BY <1>1, <1>2, <1>4, <2>1, <2>3, ErrorTick
  <2>4. QED
    BY <1>6, <2>2, <2>3 DEF DeadlinePassed
<1>7. CASE ReviewFailed
  <2>1. UNCHANGED <<submitted, live, answers>>
    BY <1>7 DEF ReviewFailed, workerVars
  <2>2. CASE Save(Retry(mem))
    BY <1>1, <1>3, <2>1, <2>2, RetryTick
  <2>3. CASE Save(Paused(mem, "PAUSED_LIMIT_UNKNOWN"))
    BY <1>1, <1>2, <1>4, <2>1, <2>3, PauseTick
  <2>4. CASE Save(TerminalError(mem, "permanent"))
    BY <1>1, <1>2, <1>3, <1>4, <2>1, <2>4, ErrorTick
  <2>5. QED
    BY <1>7, <2>2, <2>3, <2>4 DEF ReviewFailed
<1>8. CASE PauseBetween
  <2>1. PICK reason \in Pauses : Save(Paused(mem, reason))
    BY <1>8 DEF PauseBetween
  <2>2. QED
    BY <1>1, <1>2, <1>8, <2>1, PauseTick DEF PauseBetween, workerVars
<1>9. QED
  BY <1>5, <1>6, <1>7, <1>8

\* Reviewer B's job has the attempt of A's and was never published.
LEMMA HandToBStep ==
  ASSUME IInv, HandToB
  PROVE  IInv'
<1> DEFINE s == Handed(mem)
<1>1. /\ TickNoCommand /\ mem.phase = "REVIEWING_A" /\ mem.phase \in Reviewing
      /\ mem' = s /\ disk' = s /\ pc' = "submit"
      /\ UNCHANGED <<submitted, live, answers>>
      /\ UNCHANGED <<rounds, checkpoints, vetoOver, marker, ackFor>>
  BY DEF HandToB, PollReview, workerVars, TickNoCommand, Reviewing
<1>2. /\ pc \in {"resume", "idle"}
      /\ acks' \subseteq [id : CommandIds, outcome : Outcomes]
      /\ UNCHANGED <<cmds, crashes>>
  BY <1>1, TickType DEF TickNoCommand, IInv
<1>3. pc = "idle"
  BY <1>1, <1>2, ReviewingFacts DEF TickNoCommand, Tick, Ticking
<1>4. /\ mem \in States /\ mem.lcr = N /\ mem.lcr < MaxRounds /\ mem.lcr \in Nat
      /\ (mem.lcr > 0 => mem.lcr \in vetoOver)
      /\ mem.active.attempt = mem.attempts[mem.lcr + 1]
      /\ mem.attempts[mem.lcr + 1] \in Nat
  BY <1>1, <1>2, AtRest, ReviewingFacts DEF States
<1>5. /\ s \in States /\ s.phase = "REVIEWING_B" /\ s.lcr = mem.lcr
      /\ s.active = Job(mem, "B", mem.active.attempt)
      /\ s.attempts = mem.attempts /\ s.grants = mem.grants
  BY <1>4, HandedFields
<1>6. s.active = Job(s, "B", s.attempts[s.lcr + 1]) /\ s.active \notin submitted
  <2>1. s.active \notin submitted
    BY <1>1, <1>3, <1>5 DEF IInv, Coherent, Submitted_Inv
  <2>2. QED
    BY <1>4, <1>5, <2>1 DEF Job
<1>7. TypeOK'
  <2>1. ackFor' \in [id : CommandIds \cup {"none"}, outcome : Outcomes \cup {"none"}]
        /\ live' \subseteq submitted /\ pc' \in Stages
    BY <1>1 DEF IInv, TypeOK, Stages
  <2>2. QED
    BY <1>1, <1>2, <1>5, <2>1, SavedType DEF IInv
<1> HIDE DEF s
<1>8. N' = N
  BY <1>1 DEF N
<1>9. Rounds_Inv'
  BY <1>1, <1>2, <1>4, <1>5, <1>8, AtRest DEF Rounds_Inv, Committing
<1>10. Entitled_Inv'
  BY <1>1, <1>4, <1>5 DEF Entitled_Inv, Entitled
<1>11. Active_Inv'
  BY <1>1, <1>5, <1>6 DEF Active_Inv, ActiveOK, Reviewer, Reviewing, Committing
<1>12. Submitted_Inv'
  <2>1. Covers(s, submitted) /\ PublishedOK(submitted)
    BY <1>2, <1>5, AtRest DEF Covers
  <2>2. QED
    BY <1>1, <1>4, <1>5, <1>6, <1>8, <2>1 DEF Submitted_Inv, PublishedOK, Committing
<1>13. Budget_Inv' /\ VetoRespected'
  BY <1>1, <1>2, <1>5, AtRest DEF Budget_Inv, WithinBudget, VetoRespected, PublishedOK
<1>14. Verdict_Inv' /\ Stop_Inv'
  BY <1>1, <1>5 DEF Verdict_Inv, Verdicts, VerdictJustified, Stop_Inv
<1>15. QED
  BY <1>7, <1>9, <1>10, <1>11, <1>12, <1>13, <1>14 DEF IInv, Coherent

-----------------------------------------------------------------------------
(* Starting an attempt and submitting its jobs.                             *)

\* The counter saved before the first job is submitted is above every attempt
\* ever published, so neither job of the new attempt can have been.
LEMMA StartAttemptStep ==
  ASSUME IInv, StartAttempt
  PROVE  IInv'
<1> DEFINE s == Begun(mem)
           k == mem.lcr + 1
           a == mem.attempts[mem.lcr + 1] + 1
<1>1. /\ TickNoCommand /\ mem.phase \in Waiting
      /\ mem.attempts[k] < MaxAttempts
      /\ mem' = s /\ disk' = s /\ pc' = "submit"
      /\ UNCHANGED <<submitted, live, answers>>
      /\ UNCHANGED <<rounds, checkpoints, vetoOver, marker, ackFor>>
  BY DEF StartAttempt, workerVars, TickNoCommand, Current
<1>2. /\ pc \in {"resume", "idle"}
      /\ acks' \subseteq [id : CommandIds, outcome : Outcomes]
      /\ UNCHANGED <<cmds, crashes>>
  BY <1>1, TickType DEF TickNoCommand, IInv
<1>3. /\ mem \in States /\ mem.lcr = N /\ mem.lcr < MaxRounds /\ mem.lcr \in Nat
      /\ (mem.lcr > 0 => mem.lcr \in vetoOver)
  BY <1>1, <1>2, AtRest DEF States, Entitled, AtWork
<1>4. k \in RoundKeys /\ mem.attempts[k] \in Nat /\ mem.grants[k] \in Nat
  BY <1>3, CounterInRange, ConstantsAssumption DEF States
<1>5. /\ s \in States /\ s.phase = "REVIEWING_A" /\ s.lcr = mem.lcr
      /\ s.active = Job(mem, "A", a)
      /\ s.attempts = [mem.attempts EXCEPT ![k] = a]
      /\ s.grants = mem.grants
  BY <1>3, BegunFields
<1>6. s.attempts[k] = a /\ s.active = Job(s, "A", s.attempts[s.lcr + 1]) /\ s.active.attempt = a
  <2>1. s.attempts[k] = a
    BY <1>3, <1>4, <1>5 DEF States
  <2>2. QED
    BY <1>3, <1>4, <1>5, <2>1 DEF Job
<1>7. ASSUME NEW j \in submitted, j.round = k
      PROVE  j.grant < mem.grants[k] \/ (j.grant = mem.grants[k] /\ j.attempt < a)
  <2>1. j.attempt \in Nat
    BY DEF IInv, TypeOK, Jobs
  <2>2. QED
    BY <1>2, <1>4, <1>7, <2>1, AtRest DEF Covers
<1>8. ASSUME NEW reviewer \in {"A", "B"}
      PROVE  Job(mem, reviewer, a) \notin submitted
  <2>1. a \in Nat /\ mem.grants[k] \in Nat
    BY <1>4
  <2>2. /\ Job(mem, reviewer, a).round = k
        /\ Job(mem, reviewer, a).grant = mem.grants[k]
        /\ Job(mem, reviewer, a).attempt = a
    BY <1>3, <2>1, JobFields
  <2>3. QED
    BY <1>7, <2>1, <2>2
<1>9. TypeOK'
  <2>1. ackFor' \in [id : CommandIds \cup {"none"}, outcome : Outcomes \cup {"none"}]
        /\ live' \subseteq submitted /\ pc' \in Stages
    BY <1>1 DEF IInv, TypeOK, Stages
  <2>2. QED
    BY <1>1, <1>2, <1>5, <2>1, SavedType DEF IInv
<1>10. Job(s, "B", s.active.attempt) \notin submitted /\ s.active \notin submitted
  BY <1>5, <1>6, <1>8 DEF Job
<1> HIDE DEF s
<1>11. N' = N
  BY <1>1 DEF N
<1>12. Rounds_Inv'
  BY <1>1, <1>2, <1>3, <1>5, <1>11, AtRest DEF Rounds_Inv, Committing
<1>13. Entitled_Inv'
  BY <1>1, <1>3, <1>5 DEF Entitled_Inv, Entitled
<1>14. Active_Inv'
  BY <1>1, <1>5, <1>6 DEF Active_Inv, ActiveOK, Reviewer, Reviewing, Committing
<1>15. Submitted_Inv'
  <2>1. PublishedOK(submitted)
    BY <1>2, AtRest
  <2>2. Covers(s, submitted)
    <3>1. SUFFICES ASSUME NEW j \in submitted, j.round = k
                   PROVE  \/ j.grant < s.grants[j.round]
                          \/ j.grant = s.grants[j.round] /\ j.attempt <= s.attempts[j.round]
      BY <1>5 DEF Covers
    <3>2. j.attempt \in Nat
      BY DEF IInv, TypeOK, Jobs
    <3>3. QED
      BY <1>4, <1>5, <1>6, <1>7, <3>1, <3>2
  <2>3. QED
    BY <1>1, <1>3, <1>5, <1>10, <1>11, <2>1, <2>2
       DEF Submitted_Inv, PublishedOK, Committing
<1>16. Budget_Inv' /\ VetoRespected'
  <2>1. \A r \in RoundKeys : s.attempts[r] <= MaxAttempts
    <3>1. a <= MaxAttempts
      BY <1>1, <1>4, ConstantsAssumption
    <3>2. QED
      BY <1>2, <1>3, <1>5, <1>6, <3>1, AtRest DEF States
  <2>2. QED
    BY <1>1, <1>2, <2>1, AtRest DEF Budget_Inv, WithinBudget, VetoRespected, PublishedOK
<1>17. Verdict_Inv' /\ Stop_Inv'
  BY <1>1, <1>5 DEF Verdict_Inv, Verdicts, VerdictJustified, Stop_Inv
<1>18. QED
  BY <1>9, <1>12, <1>13, <1>14, <1>15, <1>16, <1>17 DEF IInv, Coherent

LEMMA RefusedStartStep ==
  ASSUME IInv, PauseStart \/ AttemptsUsedUp
  PROVE  IInv'
<1>1. TickNoCommand /\ AtWork(mem) /\ UNCHANGED <<submitted, live, answers>>
  BY DEF PauseStart, AttemptsUsedUp, AtWork, workerVars
<1>2. CASE PauseStart
  <2>1. PICK reason \in Pauses : Save(Paused(mem, reason))
    BY <1>2 DEF PauseStart
  <2>2. QED
    BY <1>1, <2>1, PauseTick
<1>3. CASE AttemptsUsedUp
  <2>1. "attempts_exhausted" \in Errors /\ live' \subseteq submitted
    BY <1>1 DEF Errors, IInv, TypeOK
  <2>2. QED
    BY <1>1, <1>3, <2>1, ErrorTick DEF AttemptsUsedUp
<1>4. QED
  BY <1>2, <1>3

\* What publishing the active job does to the parts about submitted.
LEMMA PublishOK ==
  ASSUME IInv, pc = "submit"
  PROVE  /\ PublishedOK(submitted \cup {mem.active})
         /\ Covers(mem, submitted \cup {mem.active})
         /\ mem.phase \in Reviewing /\ mem.active \in Jobs /\ disk = mem
<1>1. mem.phase \in Reviewing /\ disk = mem
  BY DEF IInv, Coherent, Active_Inv
<1>2. /\ mem.lcr < MaxRounds /\ (mem.lcr > 0 => mem.lcr \in vetoOver)
      /\ mem.lcr + 1 \in RoundKeys /\ mem.lcr \in Nat /\ mem.lcr = N /\ mem \in States
      /\ mem.active \in Jobs
      /\ mem.active.round = mem.lcr + 1
      /\ mem.active.attempt = mem.attempts[mem.lcr + 1]
      /\ mem.attempts[mem.lcr + 1] <= MaxAttempts
      /\ PublishedOK(submitted) /\ Covers(mem, submitted)
  BY <1>1, ReviewingFacts, AtRest DEF States
<1>3. mem.active.grant = mem.grants[mem.lcr + 1] /\ mem.attempts[mem.lcr + 1] \in Nat
  <2>1. mem.active = Job(mem, Reviewer(mem), mem.attempts[mem.lcr + 1])
    BY <1>1, ReviewingFacts
  <2>2. QED
    BY <1>2, <2>1 DEF Job, States
<1>4. PublishedOK(submitted \cup {mem.active})
  BY <1>2, ConstantsAssumption DEF PublishedOK
<1>5. Covers(mem, submitted \cup {mem.active})
  BY <1>2, <1>3 DEF Covers
<1>6. QED
  BY <1>1, <1>2, <1>4, <1>5

LEMMA SubmitStep ==
  ASSUME IInv, Submit
  PROVE  IInv'
<1>1. /\ pc = "submit"
      /\ UNCHANGED <<rounds, checkpoints, vetoOver, cmds, acks, marker, answers, ackFor, crashes>>
  BY DEF Submit
<1>2. /\ submitted' \in {submitted, submitted \cup {mem.active}}
      /\ live' \subseteq submitted' /\ submitted \subseteq submitted'
  BY DEF Submit, IInv, TypeOK
<1>3. /\ mem \in States /\ mem.lcr = N /\ N \in Nat /\ mem.phase \in Reviewing /\ disk = mem
      /\ mem.active \in Jobs /\ AtWork(mem) /\ Entitled(mem)
      /\ \A r \in RoundKeys : mem.attempts[r] <= MaxAttempts
  BY <1>1, AtRest, ReviewingFacts, PublishOK
<1>4. PublishedOK(submitted') /\ Covers(mem, submitted')
  BY <1>1, <1>2, AtRest, PublishOK
<1>5. submitted' \subseteq Jobs /\ answers' \subseteq [job : submitted', code : Codes]
  BY <1>1, <1>2, <1>3 DEF IInv, TypeOK
<1>6. CASE Save(Retry(mem))
  <2>1. /\ Retry(mem) \in States /\ Retry(mem).lcr = N
        /\ Retry(mem).phase \notin Reviewing \cup Verdicts \cup {"unset"}
        /\ Retry(mem).active = NoJob
        /\ Retry(mem).attempts = mem.attempts /\ Retry(mem).grants = mem.grants
    BY <1>3, RetryFields DEF Reviewing, Verdicts
  <2>2. mem' = Retry(mem) /\ disk' = Retry(mem) /\ pc' \in {"idle", "exit"} /\ pc' \in Stages
    BY <1>6, SaveStages DEF Save
  <2>3. TypeOK'
    BY <1>1, <1>2, <1>5, <2>1, <2>2 DEF IInv, TypeOK
  <2>4. Coherent'
    <3>1. Entitled(Retry(mem)) /\ Justified(Retry(mem)) /\ Covers(Retry(mem), submitted')
      BY <1>3, <1>4, <2>1 DEF Entitled, Justified, Verdicts, Covers
    <3>2. Retry(mem).lcr <= N /\ ~(Retry(mem).lcr < N)
      BY <1>3, <2>1
    <3>3. QED
      BY <1>1, <1>3, <1>4, <2>1, <2>2, <3>1, <3>2, SaveCoherent
  <2>5. QED
    BY <2>3, <2>4 DEF IInv
<1>7. CASE /\ submitted' = submitted \cup {mem.active}
           /\ pc' = "idle" /\ UNCHANGED <<mem, disk>>
  <2>1. TypeOK'
    BY <1>1, <1>2, <1>5, <1>7 DEF IInv, TypeOK, Stages
  <2>2. N' = N
    BY <1>1 DEF N
  <2>3. Rounds_Inv' /\ Entitled_Inv' /\ Active_Inv'
    BY <1>1, <1>3, <1>7, <2>2
       DEF IInv, Coherent, Rounds_Inv, UpToDate, Committing, Entitled_Inv, Entitled, AtWork,
           Exhausted, Active_Inv, ActiveOK, Job, Reviewer
  <2>4. Submitted_Inv'
    <3>1. mem.phase = "REVIEWING_A" => Job(mem, "B", mem.active.attempt) \notin submitted'
      <4>1. SUFFICES ASSUME mem.phase = "REVIEWING_A"
                     PROVE  Job(mem, "B", mem.active.attempt) # mem.active
        BY <1>1, <1>7, <4>1 DEF IInv, Coherent, Submitted_Inv
      <4>2. mem.active.reviewer = "A"
        BY <1>1, <4>1, ReviewingFacts DEF Reviewer, Reviewing
      <4>3. QED
        BY <4>2 DEF Job
    <3>2. disk'.phase # "unset" /\ ~(disk'.lcr < N)
      BY <1>3, <1>7 DEF Reviewing
    <3>3. \A j \in submitted' : j.round <= N + 1
      BY <1>4 DEF PublishedOK
    <3>4. pc' \notin Committing \cup {"status", "submit"}
      BY <1>7 DEF Committing
    <3>5. QED
      BY <1>3, <1>4, <1>7, <2>2, <3>1, <3>2, <3>3, <3>4 DEF Submitted_Inv, Job
  <2>5. Budget_Inv' /\ VetoRespected'
    BY <1>1, <1>3, <1>4, <1>7 DEF Budget_Inv, WithinBudget, VetoRespected, PublishedOK
  <2>6. Verdict_Inv' /\ Stop_Inv'
    BY <1>1, <1>3, <1>7
       DEF Verdict_Inv, Verdicts, VerdictJustified, Stop_Inv, Reviewing
  <2>7. QED
    BY <2>1, <2>3, <2>4, <2>5, <2>6 DEF IInv, Coherent
<1>8. QED
  BY <1>6, <1>7 DEF Submit

-----------------------------------------------------------------------------
(* Ticks that leave the state alone, commands, and their acknowledgement.   *)

\* pc' moves between resume, idle, acknowledge and exit; the two states stay.
LEMMA IdleCoherent ==
  ASSUME IInv, pc \in {"resume", "idle", "acknowledge"},
         pc' \in {"idle", "exit"},
         mem.phase \in Reviewing => disk = mem /\ pc = "idle",
         UNCHANGED <<rounds, disk, mem, vetoOver, submitted>>
  PROVE  Coherent'
<1>1. N' = N
  BY DEF N
<1>2. Rounds_Inv' /\ Entitled_Inv' /\ Active_Inv'
  BY <1>1 DEF IInv, Coherent, Rounds_Inv, UpToDate, Committing, Entitled_Inv, Entitled,
              AtWork, Exhausted, Active_Inv, ActiveOK, Job, Reviewer
<1>3. Submitted_Inv'
  BY <1>1 DEF IInv, Coherent, Submitted_Inv, UpToDate, Committing, Covers, Job, Reviewing
<1>4. Budget_Inv' /\ VetoRespected' /\ Verdict_Inv' /\ Stop_Inv'
  BY <1>1 DEF IInv, Coherent, Budget_Inv, WithinBudget, VetoRespected, Verdict_Inv,
              VerdictJustified, Stop_Inv
<1>5. QED
  BY <1>2, <1>3, <1>4 DEF Coherent

LEMMA WaitStep ==
  ASSUME IInv, TickWait \/ TickTerminal
  PROVE  IInv'
<1>1. /\ TickNoCommand /\ UNCHANGED <<disk, mem, submitted, live, answers>>
      /\ UNCHANGED <<rounds, checkpoints, vetoOver, marker, ackFor>>
  BY DEF TickWait, TickTerminal, workerVars, TickNoCommand
<1>2. /\ pc \in {"resume", "idle"}
      /\ acks' \subseteq [id : CommandIds, outcome : Outcomes]
      /\ UNCHANGED <<cmds, crashes>>
  BY <1>1, TickType DEF TickNoCommand, IInv
<1>3. pc' \in {"idle", "exit"} /\ pc' \in Stages
  BY DEF TickWait, TickTerminal, After, Stages
<1>4. mem.phase \in Reviewing => pc = "idle" /\ disk = mem
  <2>1. mem.phase \in Reviewing => pc = "idle"
    BY <1>1, <1>2, ReviewingFacts DEF TickNoCommand, Tick, Ticking
  <2>2. QED
    BY <2>1 DEF IInv, Coherent, Active_Inv
<1>5. TypeOK'
  BY <1>1, <1>2, <1>3, SavedType DEF IInv, TypeOK
<1>6. QED
  BY <1>1, <1>2, <1>3, <1>4, <1>5, IdleCoherent DEF IInv

LEMMA AcknowledgeStep ==
  ASSUME IInv, Acknowledge
  PROVE  IInv'
<1>1. /\ pc = "acknowledge" /\ pc' \in {"idle", "exit"} /\ pc' \in Stages
      /\ acks' = acks \cup {ackFor}
      /\ UNCHANGED <<rounds, disk, checkpoints, vetoOver, cmds, marker, mem, ackFor, crashes,
                     submitted, live, answers>>
  BY DEF Acknowledge, After, Stages, workerVars
<1>2. mem.phase \notin Reviewing /\ ackFor \in [id : CommandIds, outcome : Outcomes]
  BY <1>1 DEF IInv, TypeOK, Coherent, Active_Inv
<1>3. TypeOK'
  BY <1>1, <1>2, SavedType DEF IInv, TypeOK
<1>4. QED
  BY <1>1, <1>2, <1>3, IdleCoherent DEF IInv

\* A stop, or the error when its cancellation is not confirmed, is quiet.
LEMMA ApplyStopStep ==
  ASSUME IInv, NEW c \in cmds, ApplyStop(c)
  PROVE  IInv'
<1>1. /\ Tick /\ c.kind = "stop"
      /\ disk' = mem' /\ pc' = "acknowledge"
      /\ ackFor' = [id |-> c.id, outcome |-> mem'.phase]
      /\ UNCHANGED <<rounds, checkpoints, vetoOver, marker, submitted, answers>>
  BY DEF ApplyStop
<1>2. /\ pc \in {"resume", "idle"}
      /\ acks' \subseteq [id : CommandIds, outcome : Outcomes]
      /\ UNCHANGED <<cmds, crashes>>
  BY <1>1, TickType DEF IInv
<1>3. live' \subseteq submitted
  BY CancelType DEF ApplyStop, IInv
<1>4. mem' \in {Stopped(mem), TerminalError(mem, "cancel_unconfirmed")}
  BY DEF ApplyStop
<1>5. mem \in States /\ "cancel_unconfirmed" \in Errors
  BY DEF IInv, TypeOK, Errors
<1>6. /\ mem' \in States /\ mem'.phase \in {"STOPPED", "ERROR"}
      /\ mem'.phase = "ERROR" => mem'.err = "cancel_unconfirmed"
      /\ mem'.active = NoJob /\ mem'.lcr = mem.lcr
      /\ mem'.attempts = mem.attempts /\ mem'.grants = mem.grants
  BY <1>4, <1>5, StoppedFields, TerminalErrorFields
<1>7. TypeOK'
  <2>1. ackFor' \in [id : CommandIds, outcome : Outcomes]
    BY <1>1, <1>6 DEF IInv, TypeOK, Outcomes
  <2>2. QED
    BY <1>1, <1>2, <1>3, <1>6, <2>1, SavedType DEF IInv, Stages
<1>8. mem'.phase \notin Reviewing \cup Verdicts \cup {"unset"} /\ ~AtWork(mem')
  BY <1>6 DEF Reviewing, Verdicts, AtWork, Exhausted, Waiting, Pauses
<1>9. Coherent'
  BY <1>1, <1>2, <1>6, <1>8, QuietCoherent
<1>10. QED
  BY <1>7, <1>9 DEF IInv

\* A grant resets the attempts of the round and opens a group above the others.
LEMMA ApplyResumeStep ==
  ASSUME IInv, NEW c \in cmds, ApplyResume(c)
  PROVE  IInv'
<1> DEFINE s == Granted(mem)
           k == mem.lcr + 1
<1>1. /\ Tick /\ Exhausted(mem) /\ mem' = s /\ disk' = s /\ pc' = "acknowledge"
      /\ ackFor' = [id |-> c.id, outcome |-> "RESUMED"]
      /\ UNCHANGED <<rounds, checkpoints, vetoOver, marker, submitted, live, answers>>
  BY DEF ApplyResume, Applies, workerVars
<1>2. /\ pc \in {"resume", "idle"}
      /\ acks' \subseteq [id : CommandIds, outcome : Outcomes]
      /\ UNCHANGED <<cmds, crashes>>
  BY <1>1, TickType DEF IInv
<1>3. /\ mem \in States /\ mem.lcr = N /\ N \in Nat /\ mem.lcr < MaxRounds /\ Entitled(mem)
      /\ AtWork(mem) /\ ActiveOK(mem)
  <2>1. AtWork(mem)
    BY <1>1 DEF AtWork
  <2>2. QED
    BY <1>2, <2>1, AtRest DEF Entitled
<1>4. k \in RoundKeys /\ mem.attempts[k] \in Nat /\ mem.grants[k] \in Nat
      /\ mem.lcr <= MaxRounds /\ mem.lcr \in Nat
  BY <1>3, CounterInRange, ConstantsAssumption DEF States
<1>5. mem.active = NoJob
  BY <1>1, <1>3 DEF ActiveOK, Exhausted, Reviewing
<1>6. /\ s \in States /\ s.phase = "READY" /\ s.lcr = mem.lcr /\ s.active = NoJob
      /\ s.attempts = [mem.attempts EXCEPT ![k] = 0]
      /\ s.grants = [mem.grants EXCEPT ![k] = @ + 1]
  BY <1>3, <1>4, <1>5, GrantedFields
<1>7. TypeOK'
  <2>1. ackFor' \in [id : CommandIds, outcome : Outcomes] /\ live' \subseteq submitted
    BY <1>1 DEF IInv, TypeOK, Outcomes
  <2>2. QED
    BY <1>1, <1>2, <1>6, <2>1, SavedType DEF IInv, Stages
<1> HIDE DEF s
<1>8. Covers(s, submitted)
  <2>1. SUFFICES ASSUME NEW j \in submitted, j.round = k
                 PROVE  j.grant < s.grants[j.round]
    BY <1>6 DEF Covers
  <2>2. j.grant < mem.grants[k] \/ j.grant = mem.grants[k]
    BY <1>2, <2>1, AtRest DEF Covers
  <2>3. s.grants[k] = mem.grants[k] + 1
    BY <1>3, <1>4, <1>6 DEF States
  <2>4. j.grant \in Nat
    BY DEF IInv, TypeOK, Jobs
  <2>5. QED
    BY <1>4, <2>1, <2>2, <2>3, <2>4
<1>9. \A r \in RoundKeys : s.attempts[r] <= MaxAttempts
  BY <1>2, <1>3, <1>6, AtRest, ConstantsAssumption DEF States
<1>10. Entitled(s) /\ Justified(s) /\ s.phase \notin Reviewing \cup {"unset"}
  BY <1>3, <1>6 DEF Entitled, Justified, Reviewing
<1>11. Coherent'
  <2>1. s.lcr = N /\ s.lcr <= N /\ ~(s.lcr < N)
    BY <1>3, <1>6
  <2>2. PublishedOK(submitted')
    BY <1>1, <1>2, AtRest
  <2>3. QED
    BY <1>1, <1>6, <1>8, <1>9, <1>10, <2>1, <2>2, SaveCoherent
<1>12. QED
  BY <1>7, <1>11 DEF IInv

-----------------------------------------------------------------------------
(* The verdict, the commit and the checkpoint.                              *)

LEMMA FinishCheckpointStep ==
  ASSUME IInv, FinishCheckpoint
  PROVE  IInv'
<1> DEFINE s == CheckpointVerdict(mem)
<1>1. /\ TickNoCommand /\ mem.phase = "CHECKPOINT" /\ mem.lcr \in vetoOver /\ Save(s)
      /\ UNCHANGED <<submitted, live, answers>>
      /\ UNCHANGED <<rounds, checkpoints, vetoOver, marker, ackFor>>
  BY DEF FinishCheckpoint, workerVars, TickNoCommand
<1>2. /\ pc \in {"resume", "idle"}
      /\ acks' \subseteq [id : CommandIds, outcome : Outcomes]
      /\ UNCHANGED <<cmds, crashes>>
  BY <1>1, TickType DEF TickNoCommand, IInv
<1>3. mem' = s /\ disk' = s /\ pc' \in {"idle", "exit"} /\ pc' \in Stages
  BY <1>1, SaveStages DEF Save
<1>4. /\ mem \in States /\ mem.lcr = N /\ N \in Nat /\ N <= MaxRounds
      /\ mem.active = NoJob /\ MaxRounds \in Nat
  BY <1>1, <1>2, AtRest, ConstantsAssumption DEF ActiveOK, Reviewing
<1>5. /\ s \in States /\ s.active = NoJob /\ s.lcr = mem.lcr
      /\ s.attempts = mem.attempts /\ s.grants = mem.grants
  BY <1>4 DEF CheckpointVerdict, States, Phases, Terminal, Waiting, Errors
<1>6. \/ s.phase = "CONSENSUS" /\ rounds[N] = Agreed
      \/ s.phase = "NO_CONSENSUS" /\ rounds[N] # Agreed /\ N >= MaxRounds
      \/ s.phase \in {"NO_PROGRESS", "READY"} /\ ~(N >= MaxRounds)
  BY <1>4 DEF CheckpointVerdict, States
<1> HIDE DEF s
<1>7. Justified(s) /\ s.phase \notin Reviewing \cup {"unset"}
  <2>1. s.phase = "NO_CONSENSUS" => N = MaxRounds /\ rounds[N] # Agreed
    BY <1>4, <1>6
  <2>2. QED
    BY <1>1, <1>4, <1>6, <2>1 DEF Justified, Reviewing
<1>8. Entitled(s)
  <2>1. AtWork(s) => ~(N >= MaxRounds)
    BY <1>6 DEF AtWork, Exhausted, Waiting, Pauses, Reviewing
  <2>2. QED
    BY <1>1, <1>4, <1>5, <2>1 DEF Entitled
<1>9. TypeOK'
  BY <1>1, <1>2, <1>3, <1>5, SavedType DEF IInv, TypeOK
<1>10. Coherent'
  <2>1. s.lcr = N /\ s.lcr <= N /\ ~(s.lcr < N)
    BY <1>4, <1>5
  <2>2. PublishedOK(submitted') /\ Covers(s, submitted')
        /\ \A r \in RoundKeys : s.attempts[r] <= MaxAttempts
    BY <1>1, <1>2, <1>5, AtRest DEF Covers
  <2>3. QED
    BY <1>1, <1>3, <1>5, <1>7, <1>8, <2>1, <2>2, SaveCoherent
<1>11. QED
  BY <1>9, <1>10 DEF IInv

LEMMA LeaveNoProgressStep ==
  ASSUME IInv, LeaveNoProgress
  PROVE  IInv'
<1> DEFINE s == [mem EXCEPT !.phase = "READY"]
<1>1. TickNoCommand /\ mem.phase = "NO_PROGRESS" /\ Save(s) /\ UNCHANGED <<submitted, live, answers>>
  BY DEF LeaveNoProgress, workerVars
<1>2. mem \in States /\ mem.active = NoJob
  BY <1>1 DEF IInv, TypeOK, Coherent, Active_Inv, ActiveOK, Reviewing, Committing,
              TickNoCommand, Tick, Ticking
<1>3. /\ s \in States /\ s.phase = "READY" /\ s.active = NoJob
      /\ s.lcr = mem.lcr /\ s.attempts = mem.attempts /\ s.grants = mem.grants
  BY <1>2 DEF States, Phases, Waiting
<1>4. s.phase \notin Reviewing \cup Verdicts \cup {"unset"} /\ AtWork(mem) /\ live' \subseteq submitted
  BY <1>1, <1>3 DEF Reviewing, Verdicts, AtWork, IInv, TypeOK
<1> HIDE DEF s
<1>5. QED
  BY <1>1, <1>3, <1>4, QuietTick

LEMMA ReduceRoundStep ==
  ASSUME IInv, ReduceRound
  PROVE  IInv'
<1>1. /\ TickNoCommand /\ mem.phase \in Reviewing
      /\ UNCHANGED <<submitted, live, answers>>
      /\ UNCHANGED <<rounds, checkpoints, vetoOver, marker, ackFor>>
      /\ mem.phase = "REVIEWING_B"
  BY DEF ReduceRound, PollReview, workerVars, TickNoCommand
<1>2. /\ pc \in {"resume", "idle"}
      /\ acks' \subseteq [id : CommandIds, outcome : Outcomes]
      /\ UNCHANGED <<cmds, crashes>>
  BY <1>1, TickType DEF TickNoCommand, IInv
<1>3. CASE Save(TerminalError(mem, "integrity"))
  <2>1. "integrity" \in Errors /\ live' \subseteq submitted
    BY <1>1 DEF Errors, IInv, TypeOK
  <2>2. QED
    BY <1>1, <1>3, <2>1, ErrorTick
<1>4. CASE pc' = "commit" /\ UNCHANGED <<mem, disk>>
  <2>1. pc = "idle" /\ disk = mem
    BY <1>1, <1>2, ReviewingFacts DEF IInv, Coherent, Active_Inv, TickNoCommand, Tick, Ticking
  <2>2. TypeOK'
    BY <1>1, <1>2, <1>4, SavedType DEF IInv, TypeOK, Stages
  <2>3. N' = N
    BY <1>1 DEF N
  <2>4. Rounds_Inv' /\ Entitled_Inv' /\ Active_Inv'
    BY <1>1, <1>4, <2>1, <2>3
       DEF IInv, Coherent, Rounds_Inv, UpToDate, Committing, Entitled_Inv, Entitled,
           AtWork, Exhausted, Active_Inv, ActiveOK, Job, Reviewer
  <2>5. Submitted_Inv'
    BY <1>1, <1>4, <2>1, <2>3
       DEF IInv, Coherent, Submitted_Inv, UpToDate, Committing, Covers, Reviewing
  <2>6. Budget_Inv' /\ VetoRespected' /\ Verdict_Inv' /\ Stop_Inv'
    BY <1>1, <1>4, <2>1, <2>3
       DEF IInv, Coherent, Budget_Inv, WithinBudget, VetoRespected, Verdict_Inv,
           VerdictJustified, Stop_Inv
  <2>7. QED
    BY <2>2, <2>4, <2>5, <2>6 DEF IInv, Coherent
<1>5. QED
  BY <1>3, <1>4 DEF ReduceRound

\* What no step of a commit touches.
LEMMA StageFrame ==
  ASSUME TypeOK, mem' \in States, disk' \in States, pc' \in Stages, pc' # "acknowledge",
         UNCHANGED <<checkpoints, vetoOver, cmds, acks, marker, ackFor, crashes,
                     submitted, live, answers>>,
         rounds' \in Seq(Results)
  PROVE  TypeOK'
  BY DEF TypeOK

\* The round that is renamed into place is the one under review, so its number is
\* permitted and the state on disk is still the review's.
LEMMA CommitRoundStep ==
  ASSUME IInv, CommitRound
  PROVE  IInv'
<1>1. /\ pc = "commit" /\ UNCHANGED <<checkpoints, vetoOver, cmds, acks, marker, ackFor, crashes,
                                     submitted, live, answers>>
  BY DEF CommitRound, workerVars
<1>2. mem.phase \in Reviewing /\ disk = mem
  BY <1>1 DEF IInv, Coherent, Active_Inv
<1>3. /\ mem \in States /\ mem.lcr = N /\ N \in Nat /\ mem.lcr < MaxRounds
      /\ Covers(mem, submitted) /\ PublishedOK(submitted) /\ MaxRounds \in Nat
      /\ \A r \in RoundKeys : mem.attempts[r] <= MaxAttempts
  BY <1>1, <1>2, AtRest, ReviewingFacts, ConstantsAssumption
<1>4. CASE Save(TerminalError(mem, "storage")) /\ UNCHANGED rounds
  <2> DEFINE s == TerminalError(mem, "storage")
  <2>1. /\ s \in States /\ s.phase = "ERROR" /\ s.err = "storage" /\ s.active = NoJob
        /\ s.lcr = mem.lcr /\ s.attempts = mem.attempts /\ s.grants = mem.grants
    BY <1>3, TerminalErrorFields DEF Errors
  <2>2. mem' = s /\ disk' = s /\ pc' \in {"idle", "exit"} /\ pc' \in Stages
    BY <1>4, SaveStages DEF Save
  <2> HIDE DEF s
  <2>3. s.phase \notin Reviewing \cup Verdicts \cup {"unset"} /\ ~AtWork(s)
    BY <2>1 DEF Reviewing, Verdicts, AtWork, Exhausted, Waiting, Pauses
  <2>4. Coherent'
    BY <1>1, <1>4, <2>1, <2>2, <2>3, QuietCoherent
  <2>5. TypeOK'
    BY <1>1, <1>4, <2>1, <2>2, StageFrame DEF IInv, TypeOK
  <2>6. QED
    BY <2>4, <2>5 DEF IInv
<1>5. CASE /\ \E r \in Results : rounds' = Append(rounds, r)
           /\ pc' = "status" /\ UNCHANGED <<mem, disk>>
  <2>1. N' = N + 1 /\ rounds' \in Seq(Results)
    BY <1>5 DEF N, IInv, TypeOK
  <2>2. TypeOK'
    BY <1>1, <1>5, <2>1, StageFrame DEF IInv, TypeOK, Stages
  <2>3. Rounds_Inv'
    BY <1>2, <1>3, <1>5, <2>1 DEF Rounds_Inv, UpToDate, Committing
  <2>4. Entitled_Inv' /\ Active_Inv'
    BY <1>1, <1>2, <1>5
       DEF IInv, Coherent, Entitled_Inv, Entitled, AtWork, Exhausted, Active_Inv, ActiveOK,
           Job, Reviewer, Committing
  <2>5. Submitted_Inv'
    <3>1. \A j \in submitted : j.round <= N' /\ j.round <= N' + 1
      <4>1. SUFFICES ASSUME NEW j \in submitted
                     PROVE  j.round <= N' /\ j.round <= N' + 1
        OBVIOUS
      <4>2. j.round \in Nat /\ j.round <= N + 1
        BY <1>3 DEF PublishedOK, IInv, TypeOK, Jobs, Rounds
      <4>3. QED
        BY <1>3, <2>1, <4>2
    <3>2. QED
      BY <1>1, <1>2, <1>3, <1>5, <3>1 DEF Submitted_Inv, UpToDate, Committing, Covers
  <2>6. Budget_Inv' /\ VetoRespected' /\ Stop_Inv'
    BY <1>1, <1>2, <1>5
       DEF IInv, Coherent, Budget_Inv, WithinBudget, VetoRespected, Stop_Inv, Reviewing
  <2>7. Verdict_Inv'
    BY <1>2, <1>5 DEF Verdict_Inv, Verdicts, VerdictJustified, Reviewing
  <2>8. QED
    BY <2>2, <2>3, <2>4, <2>5, <2>6, <2>7 DEF IInv, Coherent
<1>6. QED
  BY <1>4, <1>5 DEF CommitRound

LEMMA WriteRoundStatusStep ==
  ASSUME IInv, WriteRoundStatus
  PROVE  IInv'
<1>1. /\ pc = "status" /\ UNCHANGED <<rounds, checkpoints, vetoOver, cmds, acks, marker, ackFor,
                                     crashes, submitted, live, answers>>
  BY DEF WriteRoundStatus, workerVars
<1>2. mem.phase \in Reviewing /\ disk = mem
  BY <1>1 DEF IInv, Coherent, Active_Inv
<1>3. /\ mem \in States /\ mem.lcr \in Nat /\ mem.lcr + 1 = N /\ N \in Nat /\ N <= MaxRounds
      /\ Covers(disk, submitted) /\ \A j \in submitted : j.round <= N
  BY <1>1 DEF IInv, TypeOK, N, Coherent, Rounds_Inv, Submitted_Inv, States
<1>4. PublishedOK(submitted)
  BY DEF IInv, Coherent, Submitted_Inv, Budget_Inv, WithinBudget, VetoRespected, PublishedOK
<1>5. \A r \in RoundKeys : mem.attempts[r] <= MaxAttempts
  BY DEF IInv, Coherent, Budget_Inv
<1>6. N' = N
  BY <1>1 DEF N
<1>7. CASE Save(TerminalError(mem, "storage"))
  <2> DEFINE s == TerminalError(mem, "storage")
  <2>1. /\ s \in States /\ s.phase = "ERROR" /\ s.err = "storage" /\ s.active = NoJob
        /\ s.lcr = mem.lcr /\ s.attempts = mem.attempts /\ s.grants = mem.grants
    BY <1>3, TerminalErrorFields DEF Errors
  <2>2. mem' = s /\ disk' = s /\ pc' = "exit"
    BY <1>1, <1>7, <2>1 DEF Save, After, Terminal
  <2> HIDE DEF s
  <2>3. Entitled(s) /\ Justified(s) /\ s.phase \notin Reviewing \cup {"unset"}
    BY <2>1 DEF Entitled, Justified, AtWork, Exhausted, Waiting, Pauses, Reviewing
  <2>4. s.lcr <= N /\ Covers(s, submitted')
    BY <1>1, <1>2, <1>3, <2>1 DEF Covers
  <2>5. Coherent'
    BY <1>1, <1>3, <1>4, <1>5, <2>1, <2>2, <2>3, <2>4, SaveCoherent
  <2>6. TypeOK'
    BY <1>1, <2>1, <2>2, StageFrame DEF IInv, TypeOK, Stages
  <2>7. QED
    BY <2>5, <2>6 DEF IInv
<1>8. CASE /\ disk' = Bare(Len(rounds))
           /\ mem' = [mem EXCEPT !.lcr = Len(rounds), !.active = NoJob]
           /\ pc' = "checkpoint"
  <2>1. /\ disk' \in States /\ disk'.phase = "unset" /\ disk'.lcr = N /\ disk'.active = NoJob
        /\ \A r \in RoundKeys : disk'.attempts[r] = 0
    BY <1>3, <1>8, BareFields DEF N
  <2>2. /\ mem' \in States /\ mem'.lcr = N /\ mem'.active = NoJob
        /\ mem'.attempts = mem.attempts
    BY <1>3, <1>8 DEF N, States
  <2>3. TypeOK'
    BY <1>1, <1>8, <2>1, <2>2, StageFrame DEF IInv, TypeOK, Stages
  <2>4. Rounds_Inv'
    BY <1>3, <1>6, <1>8, <2>1, <2>2 DEF Rounds_Inv
  <2>5. Entitled_Inv' /\ Active_Inv'
    BY <1>8, <2>1, <2>2
       DEF Entitled_Inv, Entitled, AtWork, Exhausted, Active_Inv, ActiveOK, Committing,
           Waiting, Pauses, Reviewing
  <2>6. Submitted_Inv'
    <3>1. \A j \in submitted : j.round # N + 1 /\ j.round <= N + 1
      <4>1. SUFFICES ASSUME NEW j \in submitted
                     PROVE  j.round # N + 1 /\ j.round <= N + 1
        OBVIOUS
      <4>2. j.round \in Nat /\ j.round <= N
        BY <1>3 DEF IInv, TypeOK, Jobs, Rounds
      <4>3. QED
        BY <1>3, <4>2
    <3>2. Covers(disk', submitted') /\ Covers(mem', submitted')
      BY <1>1, <2>1, <2>2, <3>1 DEF Covers
    <3>3. QED
      BY <1>1, <1>3, <1>6, <1>8, <3>1, <3>2 DEF Submitted_Inv
  <2>7. Budget_Inv' /\ VetoRespected'
    <3>1. \A r \in RoundKeys : disk'.attempts[r] <= MaxAttempts
      BY <2>1, ConstantsAssumption
    <3>2. QED
      BY <1>1, <1>4, <1>5, <2>2, <3>1 DEF Budget_Inv, WithinBudget, VetoRespected, PublishedOK
  <2>8. Verdict_Inv' /\ Stop_Inv'
    BY <2>1 DEF Verdict_Inv, Verdicts, VerdictJustified, Stop_Inv
  <2>9. QED
    BY <2>3, <2>4, <2>5, <2>6, <2>7, <2>8 DEF IInv, Coherent
<1>9. QED
  BY <1>7, <1>8 DEF WriteRoundStatus

LEMMA CheckpointEventStep ==
  ASSUME IInv, CheckpointEvent
  PROVE  IInv'
<1>1. /\ pc = "checkpoint" /\ pc' = "saveCheckpoint"
      /\ checkpoints' = checkpoints \cup {mem.lcr}
      /\ UNCHANGED <<rounds, disk, vetoOver, cmds, acks, marker, mem, ackFor, crashes,
                     submitted, live, answers>>
  BY DEF CheckpointEvent, workerVars
<1>2. mem.lcr \in Rounds
  BY <1>1, ConstantsAssumption
     DEF IInv, TypeOK, Coherent, Rounds_Inv, UpToDate, Committing, Rounds, N
<1>3. TypeOK'
  BY <1>1, <1>2 DEF IInv, TypeOK, Stages
<1>4. N' = N
  BY <1>1 DEF N
<1>5. Rounds_Inv' /\ Entitled_Inv' /\ Active_Inv'
  BY <1>1, <1>4
     DEF IInv, Coherent, Rounds_Inv, UpToDate, Committing, Entitled_Inv, Entitled, AtWork,
         Exhausted, Active_Inv, ActiveOK, Job, Reviewer
<1>6. Submitted_Inv'
  BY <1>1, <1>4 DEF IInv, Coherent, Submitted_Inv, UpToDate, Committing, Covers
<1>7. Budget_Inv' /\ VetoRespected' /\ Verdict_Inv' /\ Stop_Inv'
  BY <1>1, <1>4 DEF IInv, Coherent, Budget_Inv, WithinBudget, VetoRespected, Verdict_Inv,
                    VerdictJustified, Stop_Inv
<1>8. QED
  BY <1>3, <1>5, <1>6, <1>7 DEF IInv, Coherent

LEMMA SaveCheckpointStep ==
  ASSUME IInv, SaveCheckpoint
  PROVE  IInv'
<1> DEFINE s == [mem EXCEPT !.phase = "CHECKPOINT", !.active = NoJob]
<1>1. /\ pc = "saveCheckpoint" /\ Save(s)
      /\ UNCHANGED <<rounds, checkpoints, vetoOver, cmds, acks, marker, ackFor, crashes,
                     submitted, live, answers>>
  BY DEF SaveCheckpoint, workerVars
<1>2. /\ mem \in States /\ mem.lcr = N /\ N \in Nat
      /\ Covers(mem, submitted)
      /\ \A r \in RoundKeys : mem.attempts[r] <= MaxAttempts
  BY <1>1 DEF IInv, TypeOK, N, Coherent, Rounds_Inv, Submitted_Inv, Budget_Inv, UpToDate,
              Committing
<1>3. PublishedOK(submitted)
  BY DEF IInv, Coherent, Submitted_Inv, Budget_Inv, WithinBudget, VetoRespected, PublishedOK
<1>4. /\ s \in States /\ s.phase = "CHECKPOINT" /\ s.active = NoJob
      /\ s.lcr = mem.lcr /\ s.attempts = mem.attempts /\ s.grants = mem.grants
  BY <1>2 DEF States, Phases
<1>5. mem' = s /\ disk' = s /\ pc' \in {"idle", "exit"} /\ pc' \in Stages
  BY <1>1, SaveStages DEF Save
<1> HIDE DEF s
<1>6. Entitled(s) /\ Justified(s) /\ s.phase \notin Reviewing \cup {"unset"}
  BY <1>4 DEF Entitled, Justified, AtWork, Exhausted, Waiting, Pauses, Reviewing
<1>7. s.lcr = N /\ s.lcr <= N /\ ~(s.lcr < N) /\ Covers(s, submitted')
  BY <1>1, <1>2, <1>4 DEF Covers
<1>8. Coherent'
  BY <1>1, <1>2, <1>3, <1>4, <1>5, <1>6, <1>7, SaveCoherent
<1>9. TypeOK'
  BY <1>1, <1>4, <1>5, StageFrame DEF IInv, TypeOK
<1>10. QED
  BY <1>8, <1>9 DEF IInv

-----------------------------------------------------------------------------
(* Processes come and go.                                                   *)

\* A new process knows the committed rounds; either it first finishes the
\* checkpoint of the last one, or what it loaded is what was saved.
LEMMA BootStep ==
  ASSUME IInv, Boot
  PROVE  IInv'
<1> DEFINE s == LoadRuntime
<1>1. /\ pc = "down" /\ mem' = s
      /\ pc' = IF NeedsCheckpoint THEN "checkpoint" ELSE "resume"
      /\ UNCHANGED <<rounds, disk, checkpoints, vetoOver, cmds, acks, marker, ackFor, crashes,
                     submitted, live, answers>>
  BY DEF Boot, workerVars
<1>2. /\ disk \in States /\ disk.lcr \in Nat /\ N \in Nat /\ disk.lcr <= N /\ N <= MaxRounds
      /\ Entitled(disk) /\ ActiveOK(disk) /\ Covers(disk, submitted)
      /\ \A r \in RoundKeys : disk.attempts[r] <= MaxAttempts
      /\ disk.phase = "unset" \/ disk.lcr < N => \A j \in submitted : j.round <= N
  BY <1>1 DEF IInv, TypeOK, N, States, Coherent, Rounds_Inv, Entitled_Inv, Active_Inv,
              Submitted_Inv, Budget_Inv, Committing
<1>3. \A j \in submitted : j.round \in Nat /\ j.round <= N + 1
  BY DEF IInv, TypeOK, Jobs, Rounds, Coherent, Submitted_Inv
<1>4. /\ s \in States /\ s.lcr = N /\ s.attempts = disk.attempts /\ s.grants = disk.grants
      /\ s.err = disk.err
      /\ s.phase = IF NeedsCheckpoint \/ disk.phase = "unset" THEN "READY" ELSE disk.phase
      /\ s.active = IF NeedsCheckpoint THEN NoJob ELSE disk.active
  <2>1. "READY" \in Phases /\ NoJob \in Jobs \cup {NoJob}
    BY DEF Phases, Waiting
  <2>2. QED
    BY <1>2, <2>1 DEF LoadRuntime, States, N
<1> HIDE DEF s
<1>5. N' = N
  BY <1>1 DEF N
<1>6. TypeOK'
  BY <1>1, <1>4, StageFrame DEF IInv, TypeOK, Stages
<1>7. Budget_Inv' /\ VetoRespected' /\ Verdict_Inv'
  BY <1>1, <1>4, <1>5 DEF IInv, Coherent, Budget_Inv, WithinBudget, VetoRespected, Verdict_Inv,
                          VerdictJustified
<1>8. CASE NeedsCheckpoint
  <2>1. N > 0 /\ \A j \in submitted : j.round <= N
    BY <1>2, <1>8 DEF NeedsCheckpoint, N
  <2>2. Rounds_Inv'
    BY <1>1, <1>2, <1>4, <1>5, <1>8, <2>1 DEF Rounds_Inv
  <2>3. Entitled_Inv' /\ Active_Inv'
    BY <1>1, <1>2, <1>4, <1>8
       DEF Entitled_Inv, Entitled, AtWork, Exhausted, Active_Inv, ActiveOK, Job, Reviewer,
           Committing
  <2>4. Covers(mem', submitted')
    BY <1>1, <1>2, <1>3, <1>4, <2>1 DEF Covers
  <2>5. Submitted_Inv'
    BY <1>1, <1>2, <1>3, <1>5, <1>8, <2>1, <2>4 DEF Submitted_Inv, Covers
  <2>6. Stop_Inv'
    <3>1. disk.phase = "STOPPED" => disk.lcr = N
      BY DEF IInv, Coherent, Verdict_Inv
    <3>2. disk.phase # "STOPPED"
      BY <1>2, <1>8, <3>1 DEF NeedsCheckpoint, N
    <3>3. QED
      BY <1>1, <3>2 DEF Stop_Inv
  <2>7. QED
    BY <1>6, <1>7, <2>2, <2>3, <2>5, <2>6 DEF IInv, Coherent
<1>9. CASE ~NeedsCheckpoint
  <2>1. /\ disk.lcr = N /\ (disk.phase = "unset" => N = 0)
        /\ s.active = disk.active
        /\ s.phase = IF disk.phase = "unset" THEN "READY" ELSE disk.phase
    BY <1>2, <1>4, <1>9 DEF NeedsCheckpoint, N
  <2>2. Rounds_Inv'
    BY <1>1, <1>2, <1>4, <1>5, <1>9 DEF Rounds_Inv, Committing
  <2>3. Entitled_Inv'
    <3>1. Entitled(s)
      <4>1. CASE disk.phase = "unset"
        BY <1>4, <2>1, <4>1, ConstantsAssumption DEF Entitled
      <4>2. CASE disk.phase # "unset"
        BY <1>2, <1>4, <2>1, <4>2 DEF Entitled, AtWork, Exhausted
      <4>3. QED
        BY <4>1, <4>2
    <3>2. QED
      BY <1>1, <1>2, <3>1 DEF Entitled_Inv, Entitled, AtWork, Exhausted
  <2>4. Active_Inv'
    <3>1. ActiveOK(s)
      BY <1>2, <1>4, <2>1 DEF ActiveOK, Reviewing, Reviewer, Job
    <3>2. QED
      BY <1>1, <1>2, <1>9, <3>1 DEF Active_Inv, ActiveOK, Reviewer, Job, Committing
  <2>5. Submitted_Inv'
    <3>1. pc' = "resume" /\ pc' \notin Committing \cup {"status"}
      BY <1>1, <1>9 DEF Committing
    <3>2. Covers(disk', submitted') /\ Covers(mem', submitted')
      BY <1>1, <1>2, <1>4, <2>1 DEF Covers
    <3>3. disk'.phase = "unset" \/ disk'.lcr < N => \A j \in submitted' : j.round <= N
      BY <1>1, <1>2
    <3>4. QED
      BY <1>1, <1>3, <1>5, <3>1, <3>2, <3>3 DEF Submitted_Inv
  <2>6. Stop_Inv'
    BY <1>1, <1>9, <2>1 DEF Stop_Inv
  <2>7. QED
    BY <1>6, <1>7, <2>2, <2>3, <2>4, <2>5, <2>6 DEF IInv, Coherent
<1>10. QED
  BY <1>8, <1>9

LEMMA ResumeStep ==
  ASSUME IInv, ResumeActive \/ ResumeCheckpoint
  PROVE  IInv'
<1>1. /\ pc = "resume"
      /\ UNCHANGED <<rounds, checkpoints, vetoOver, cmds, acks, marker, ackFor, crashes,
                     submitted, answers>>
  BY DEF ResumeActive, ResumeCheckpoint, workerVars
<1>2. CASE ResumeActive
  <2>1. mem \in States /\ AtWork(mem) /\ mem.phase \in Reviewing
    BY <1>1, <1>2, AtRest DEF ResumeActive, ActiveOK, AtWork
  <2>2. live' \subseteq submitted
    BY <1>2, CancelType DEF ResumeActive, IInv
  <2>3. PICK s \in {Retry(mem), TerminalError(mem, "cancel_unconfirmed")} : Save(s)
    BY <1>2 DEF ResumeActive
  <2>4. /\ s \in States /\ s.phase \in {"RETRY_WAIT", "ERROR"} /\ s.active = NoJob
        /\ s.lcr = mem.lcr /\ s.attempts = mem.attempts /\ s.grants = mem.grants
    BY <2>1, RetryFields, TerminalErrorFields DEF Errors
  <2>5. mem' = s /\ disk' = s /\ pc' \in {"idle", "exit"} /\ pc' \in Stages
    BY <2>3, SaveStages DEF Save
  <2>6. s.phase \notin Reviewing \cup Verdicts \cup {"unset"}
    BY <2>4 DEF Reviewing, Verdicts
  <2>7. Coherent'
    BY <1>1, <2>1, <2>4, <2>5, <2>6, QuietCoherent
  <2>8. TypeOK'
    BY <1>1, <2>2, <2>4, <2>5, SavedType DEF IInv, TypeOK
  <2>9. QED
    BY <2>7, <2>8 DEF IInv
<1>3. CASE ResumeCheckpoint
  <2>1. /\ mem.phase = "CHECKPOINT" /\ pc' = "idle"
        /\ UNCHANGED <<disk, mem, live>>
    BY <1>3 DEF ResumeCheckpoint, workerVars
  <2>2. Coherent'
    BY <1>1, <2>1, IdleCoherent DEF Reviewing
  <2>3. TypeOK'
    BY <1>1, <2>1, SavedType DEF IInv, TypeOK, Stages
  <2>4. QED
    BY <2>2, <2>3 DEF IInv
<1>4. QED
  BY <1>2, <1>3

\* A process that is gone leaves the durable parts as they are, whenever it went.
LEMMA DownStep ==
  ASSUME IInv, Exit \/ Crash
  PROVE  IInv'
<1>1. /\ pc' = "down" /\ mem' = Bare(0) /\ marker' \in BOOLEAN /\ crashes' \in 0 .. MaxCrashes
      /\ UNCHANGED <<rounds, disk, checkpoints, vetoOver, cmds, acks, ackFor,
                     submitted, live, answers>>
  <2>1. marker \in BOOLEAN /\ crashes \in 0 .. MaxCrashes
    BY DEF IInv, TypeOK
  <2>2. CASE Exit
    BY <2>1, <2>2 DEF Exit, workerVars
  <2>3. CASE Crash
    BY <2>1, <2>3, ConstantsAssumption DEF Crash, workerVars
  <2>4. QED
    BY <2>2, <2>3
<1>2. /\ mem' \in States /\ mem'.phase = "unset" /\ mem'.lcr = 0 /\ mem'.active = NoJob
      /\ \A r \in RoundKeys : mem'.attempts[r] = 0
  BY <1>1, BareFields
<1>3. TypeOK'
  BY <1>1, <1>2 DEF IInv, TypeOK, Stages
<1>4. N' = N /\ N \in Nat
  BY <1>1 DEF N, IInv, TypeOK
<1>5. Rounds_Inv' /\ Entitled_Inv' /\ Active_Inv'
  BY <1>1, <1>2, <1>4
     DEF IInv, Coherent, Rounds_Inv, UpToDate, Committing, Entitled_Inv, Entitled, AtWork,
         Exhausted, Active_Inv, ActiveOK, Job, Reviewer, Waiting, Pauses, Reviewing
<1>6. Submitted_Inv'
  <2>1. disk.phase = "unset" \/ disk.lcr < N => \A j \in submitted : j.round <= N
    BY DEF IInv, Coherent, Submitted_Inv
  <2>2. QED
    BY <1>1, <1>4, <2>1 DEF IInv, Coherent, Submitted_Inv, UpToDate, Committing, Covers
<1>7. Budget_Inv'
  BY <1>1, <1>2, ConstantsAssumption DEF IInv, Coherent, Budget_Inv, WithinBudget
<1>8. VetoRespected' /\ Verdict_Inv' /\ Stop_Inv'
  BY <1>1, <1>4 DEF IInv, Coherent, VetoRespected, Verdict_Inv, VerdictJustified, Stop_Inv
<1>9. QED
  BY <1>3, <1>5, <1>6, <1>7, <1>8 DEF IInv, Coherent

-----------------------------------------------------------------------------
(* The surroundings.                                                        *)

LEMMA EnvironmentStep ==
  ASSUME IInv,
         \/ \E id \in CommandIds, kind \in {"stop", "resume"} : IssueCommand(id, kind)
         \/ VetoElapses
         \/ WorkerAnswers
         \/ UNCHANGED vars
  PROVE  IInv'
<1>1. /\ UNCHANGED <<rounds, disk, mem, pc, checkpoints, submitted, marker, ackFor, crashes, acks>>
      /\ vetoOver \subseteq vetoOver' /\ vetoOver' \subseteq checkpoints
  <2>1. CASE \E id \in CommandIds, kind \in {"stop", "resume"} : IssueCommand(id, kind)
    BY <2>1 DEF IssueCommand, workerVars, IInv, TypeOK
  <2>2. CASE VetoElapses
    BY <2>2 DEF VetoElapses, workerVars, IInv, TypeOK
  <2>3. CASE WorkerAnswers
    BY <2>3 DEF WorkerAnswers, IInv, TypeOK
  <2>4. CASE UNCHANGED vars
    BY <2>4 DEF vars, IInv, TypeOK
  <2>5. QED
    BY <2>1, <2>2, <2>3, <2>4
<1>2. TypeOK'
  <2>1. CASE \E id \in CommandIds, kind \in {"stop", "resume"} : IssueCommand(id, kind)
    <3>1. PICK id \in CommandIds, kind \in {"stop", "resume"} : IssueCommand(id, kind)
      BY <2>1
    <3>2. /\ cmds' = cmds \cup {[id |-> id, kind |-> kind, round |-> disk.lcr]}
          /\ UNCHANGED <<live, answers, vetoOver>>
      BY <3>1 DEF IssueCommand, workerVars
    <3>3. disk.lcr \in Nat
      BY DEF IInv, TypeOK, States
    <3>4. cmds' \subseteq [id : CommandIds, kind : {"stop", "resume"}, round : Nat]
      BY <3>2, <3>3 DEF IInv, TypeOK
    <3>5. QED
      BY <1>1, <3>2, <3>4 DEF IInv, TypeOK
  <2>2. CASE VetoElapses
    BY <1>1, <2>2 DEF VetoElapses, workerVars, IInv, TypeOK
  <2>3. CASE WorkerAnswers
    BY <1>1, <2>3 DEF WorkerAnswers, IInv, TypeOK
  <2>4. CASE UNCHANGED vars
    BY <2>4 DEF vars, IInv, TypeOK
  <2>5. QED
    BY <2>1, <2>2, <2>3, <2>4
<1>3. N' = N
  BY <1>1 DEF N
<1>4. Rounds_Inv' /\ Active_Inv' /\ Submitted_Inv' /\ Budget_Inv' /\ Stop_Inv'
  BY <1>1, <1>3
     DEF IInv, Coherent, Rounds_Inv, Active_Inv, ActiveOK, Reviewer, Job, Submitted_Inv, Covers,
         Budget_Inv, WithinBudget, Stop_Inv, UpToDate
<1>5. Entitled_Inv' /\ VetoRespected' /\ Verdict_Inv'
  BY <1>1, <1>3
     DEF IInv, Coherent, Entitled_Inv, Entitled, AtWork, Exhausted, VetoRespected, Verdict_Inv,
         VerdictJustified
<1>6. QED
  BY <1>2, <1>4, <1>5 DEF IInv, Coherent

-----------------------------------------------------------------------------
(* The theorems.                                                            *)

LEMMA InitIInv == Init => IInv
<1> SUFFICES ASSUME Init PROVE IInv
  OBVIOUS
<1>1. disk = Bare(0) /\ mem = Bare(0) /\ rounds = <<>> /\ submitted = {} /\ pc = "down"
      /\ live = {} /\ answers = {} /\ checkpoints = {} /\ vetoOver = {} /\ cmds = {} /\ acks = {}
      /\ marker = TRUE /\ ackFor = [id |-> "none", outcome |-> "none"] /\ crashes = 0
  BY DEF Init
<1>2. /\ Bare(0) \in States /\ Bare(0).phase = "unset" /\ Bare(0).lcr = 0
      /\ Bare(0).active = NoJob /\ \A r \in RoundKeys : Bare(0).attempts[r] = 0
  BY BareFields
<1>3. TypeOK
  BY <1>1, <1>2, ConstantsAssumption DEF TypeOK, Stages
<1>4. N = 0
  BY <1>1 DEF N
<1>5. Rounds_Inv /\ Entitled_Inv /\ Active_Inv
  BY <1>1, <1>2, <1>4, ConstantsAssumption
     DEF Rounds_Inv, UpToDate, Committing, Entitled_Inv, Entitled, AtWork, Exhausted,
         Active_Inv, ActiveOK, Waiting, Pauses, Reviewing
<1>6. Submitted_Inv
  BY <1>1 DEF Submitted_Inv, Covers, UpToDate, Committing
<1>7. Budget_Inv /\ VetoRespected /\ Verdict_Inv /\ Stop_Inv
  BY <1>1, <1>2, ConstantsAssumption
     DEF Budget_Inv, WithinBudget, VetoRespected, Verdict_Inv, Verdicts, VerdictJustified, Stop_Inv
<1>8. QED
  BY <1>3, <1>5, <1>6, <1>7 DEF IInv, Coherent

LEMMA NextIInv == IInv /\ [Next]_vars => IInv'
<1> SUFFICES ASSUME IInv, [Next]_vars PROVE IInv'
  OBVIOUS
<1>1. CASE Boot
  BY <1>1, BootStep
<1>2. CASE EngineTick
  <2>1. CASE \E c \in cmds : ApplyStop(c) \/ ApplyResume(c)
    BY <2>1, ApplyStopStep, ApplyResumeStep
  <2>2. CASE TickWait \/ TickTerminal
    BY <2>2, WaitStep
  <2>3. CASE FinishCheckpoint \/ LeaveNoProgress
    BY <2>3, FinishCheckpointStep, LeaveNoProgressStep
  <2>4. CASE PauseStart \/ AttemptsUsedUp
    BY <2>4, RefusedStartStep
  <2>5. CASE StartAttempt
    BY <2>5, StartAttemptStep
  <2>6. CASE PollRaises \/ DeadlinePassed \/ ReviewFailed \/ PauseBetween
    BY <2>6, PollStep
  <2>7. CASE HandToB \/ ReduceRound
    BY <2>7, HandToBStep, ReduceRoundStep
  <2>8. QED
    BY <1>2, <2>1, <2>2, <2>3, <2>4, <2>5, <2>6, <2>7 DEF EngineTick
<1>3. CASE EngineStage
  <2>1. CASE ResumeActive \/ ResumeCheckpoint
    BY <2>1, ResumeStep
  <2>2. CASE Acknowledge \/ Submit
    BY <2>2, AcknowledgeStep, SubmitStep
  <2>3. CASE CommitRound \/ WriteRoundStatus
    BY <2>3, CommitRoundStep, WriteRoundStatusStep
  <2>4. CASE CheckpointEvent \/ SaveCheckpoint
    BY <2>4, CheckpointEventStep, SaveCheckpointStep
  <2>5. CASE Exit
    BY <2>5, DownStep
  <2>6. QED
    BY <1>3, <2>1, <2>2, <2>3, <2>4, <2>5 DEF EngineStage
<1>4. CASE Environment
  BY <1>4, DownStep, EnvironmentStep DEF Environment
<1>5. CASE UNCHANGED vars
  BY <1>5, EnvironmentStep
<1>6. QED
  BY <1>1, <1>2, <1>3, <1>4, <1>5 DEF Next

\* The inductive invariant holds in every reachable state.
THEOREM Invariant == Spec => []IInv
  BY InitIInv, NextIInv, PTL DEF Spec

\* engine.py, store.py and control.py only ever hold values of the kinds TypeOK
\* names, for every session limit, fault set and number of commands.
THEOREM TypeCorrect == Spec => []TypeOK
<1>1. IInv => TypeOK
  BY DEF IInv
<1>2. QED
  BY <1>1, Invariant, PTL

\* No job is published twice and none for a committed round, over any number of
\* crashes, retries, pauses and grants (_load_runtime, _start_attempt).
THEOREM JobsFresh == Spec => []SubmissionsFresh
<1>1. IInv => SubmissionsFresh
  <2>1. SUFFICES ASSUME IInv, pc = "submit"
                 PROVE  mem.active \notin submitted /\ mem.active.round = Len(rounds) + 1
    BY DEF SubmissionsFresh
  <2>2. mem.phase \in Reviewing
    BY <2>1, PublishOK
  <2>3. mem.active.round = N + 1
    BY <2>1, <2>2, ReviewingFacts
  <2>4. QED
    BY <2>1, <2>3 DEF IInv, Coherent, Submitted_Inv, N
<1>2. QED
  BY <1>1, Invariant, PTL

\* Every round's veto window is over before the next is submitted, whichever way
\* the checkpoint was reached (_create_checkpoint, _finish_checkpoint, resume).
THEOREM VetoWindowKept == Spec => []VetoRespected
<1>1. IInv => VetoRespected
  BY DEF IInv, Coherent
<1>2. QED
  BY <1>1, Invariant, PTL

\* Rounds and attempts stay within session.max_rounds and the size of a group.
THEOREM BudgetKept == Spec => []WithinBudget
<1>1. IInv => WithinBudget
  BY DEF IInv, Coherent, Budget_Inv
<1>2. QED
  BY <1>1, Invariant, PTL

\* A saved verdict is the one _finish_checkpoint derives from the committed rounds
\* there are when it is read.
THEOREM VerdictsRight == Spec => []VerdictJustified
<1>1. IInv => VerdictJustified
  BY DEF IInv, Coherent, Verdict_Inv
<1>2. QED
  BY <1>1, Invariant, PTL


\* Each action keeps a saved STOPPED, the rounds and the submissions.
LEMMA StopStep ==
  ASSUME IInv, [Next]_vars, disk.phase = "STOPPED"
  PROVE  disk'.phase = "STOPPED" /\ submitted' = submitted /\ rounds' = rounds
<1>1. \/ pc = "down"
      \/ pc \in {"resume", "idle", "acknowledge", "exit"} /\ mem.phase = "STOPPED"
  BY DEF IInv, Coherent, Stop_Inv
<1>2. CASE Boot \/ Exit \/ Environment \/ UNCHANGED vars
  BY <1>2 DEF Boot, Exit, Environment, Crash, IssueCommand, VetoElapses, WorkerAnswers, vars,
              workerVars
<1>3. CASE EngineTick
  <2>1. mem.phase = "STOPPED" /\ mem.active = NoJob /\ mem \in States
    BY <1>1, <1>3
       DEF EngineTick, ApplyStop, ApplyResume, TickWait, TickTerminal, FinishCheckpoint,
           LeaveNoProgress, PauseStart, StartAttempt, AttemptsUsedUp, PollRaises,
           DeadlinePassed, ReviewFailed, PauseBetween, HandToB, ReduceRound, PollReview,
           TickNoCommand, Tick, Ticking, IInv, TypeOK, Coherent, Active_Inv, ActiveOK,
           Reviewing, Committing
  <2>2. CASE \E c \in cmds : ApplyStop(c)
    BY <2>1, <2>2, StoppedFields DEF ApplyStop
  <2>3. CASE TickWait \/ TickTerminal
    BY <2>3 DEF TickWait, TickTerminal, TickNoCommand, workerVars
  <2>4. QED
    BY <1>3, <2>1, <2>2, <2>3
       DEF EngineTick, ApplyResume, Applies, Exhausted, FinishCheckpoint, LeaveNoProgress, PauseStart,
           StartAttempt, AttemptsUsedUp, PollRaises, DeadlinePassed, ReviewFailed,
           PauseBetween, HandToB, ReduceRound, PollReview, Waiting, Pauses, Reviewing
<1>4. CASE EngineStage /\ ~Exit
  <2>1. mem.phase = "STOPPED" /\ pc \in {"resume", "acknowledge"}
    BY <1>1, <1>4
       DEF EngineStage, ResumeActive, ResumeCheckpoint, Acknowledge, Submit, CommitRound,
           WriteRoundStatus, CheckpointEvent, SaveCheckpoint
  <2>2. pc = "resume" => mem.active = NoJob
    BY <2>1, AtRest DEF ActiveOK, Reviewing
  <2>3. QED
    BY <1>4, <2>1, <2>2
       DEF EngineStage, ResumeActive, ResumeCheckpoint, Acknowledge, Submit, CommitRound,
           WriteRoundStatus, CheckpointEvent, SaveCheckpoint, workerVars
<1>5. QED
  BY <1>2, <1>3, <1>4 DEF Next, EngineStage

\* No step of a tick, a recovery or a new process leaves a saved STOPPED, commits
\* a round or submits a job after it (_stop, _load_runtime, tick).
THEOREM StopStays == Spec => StopFinal
<1>1. IInv /\ [Next]_vars =>
        [disk.phase = "STOPPED" => /\ disk'.phase = "STOPPED"
                                   /\ submitted' = submitted
                                   /\ rounds' = rounds]_vars
  BY StopStep
<1>2. QED
  BY <1>1, Invariant, PTL DEF Spec, StopFinal

-----------------------------------------------------------------------------
(* A final state.                                                           *)

\* The engine's memory is the final state on the disk, and nothing is under way.
Final_Inv ==
  IsFinal(disk) /\ disk.lcr = N /\ pc # "down" =>
    pc \in {"resume", "idle", "acknowledge", "exit"} /\ mem = disk

LEMMA FinalPhase ==
  ASSUME NEW s, IsFinal(s)
  PROVE  s.phase \in Terminal /\ s.phase \notin Waiting \cup Reviewing
         /\ s.phase \notin {"unset", "CHECKPOINT", "NO_PROGRESS"} /\ ~Exhausted(s)
  BY DEF IsFinal, Terminal, Waiting, Pauses, Reviewing, Exhausted

LEMMA FinalSaved ==
  ASSUME mem' = disk', pc' \in {"idle", "acknowledge", "exit"} \/ disk'.phase \in Reviewing
  PROVE  Final_Inv'
  BY FinalPhase DEF Final_Inv

\* A step that saves nothing keeps the process where it was, ends it or goes on idling.
LEMMA FinalFrame ==
  ASSUME Final_Inv, UNCHANGED <<rounds, disk>>,
         \/ pc' = "down"
         \/ mem' = mem /\ pc' = pc
         \/ mem' = mem /\ pc' \in {"idle", "exit"} /\ pc # "down"
  PROVE  Final_Inv'
  BY DEF Final_Inv, N

LEMMA FinalStep ==
  ASSUME IInv, Final_Inv, [Next]_vars
  PROVE  Final_Inv'
<1>1. CASE Boot
  <2>1. UNCHANGED <<rounds, disk>> /\ N' = N
    BY <1>1 DEF Boot, N
  <2>2. SUFFICES ASSUME IsFinal(disk), disk.lcr = N
                 PROVE  pc' = "resume" /\ mem' = disk
    BY <2>1 DEF Final_Inv, IsFinal
  <2>3. ~NeedsCheckpoint /\ disk.phase # "unset"
    BY <2>2, FinalPhase DEF NeedsCheckpoint, N, IInv, TypeOK, States
  <2>4. pc' = "resume" /\ mem' = [disk EXCEPT !.lcr = N, !.phase = disk.phase, !.active = disk.active]
    BY <1>1, <2>3 DEF Boot, LoadRuntime, N
  <2>5. QED
    BY <2>2, <2>4 DEF IInv, TypeOK, States
<1>2. CASE EngineTick
  <2>1. CASE \E c \in cmds : ApplyStop(c) \/ ApplyResume(c)
    <3>1. mem' = disk' /\ pc' = "acknowledge"
      BY <2>1 DEF ApplyStop, ApplyResume
    <3>2. QED
      BY <3>1, FinalSaved
  <2>2. CASE TickWait \/ TickTerminal
    <3>1. UNCHANGED <<rounds, disk, mem>> /\ pc' \in {"idle", "exit"} /\ pc # "down"
      BY <2>2 DEF TickWait, TickTerminal, TickNoCommand, Tick, Ticking, After
    <3>2. QED
      BY <3>1, FinalFrame
  <2>3. CASE FinishCheckpoint \/ LeaveNoProgress \/ PauseStart \/ AttemptsUsedUp \/ PollRaises
             \/ DeadlinePassed \/ ReviewFailed \/ PauseBetween
    <3>1. mem' = disk' /\ pc' \in {"idle", "exit"}
      BY <2>3 DEF FinishCheckpoint, LeaveNoProgress, PauseStart, AttemptsUsedUp, PollRaises,
                  DeadlinePassed, ReviewFailed, PauseBetween, Save, After
    <3>2. QED
      BY <3>1, FinalSaved
  <2>4. CASE StartAttempt
    <3>1. pc \in {"resume", "idle"} /\ Entitled(mem) /\ AtWork(mem) /\ mem \in States
      BY <2>4, TickType, AtRest DEF StartAttempt, TickNoCommand, AtWork, IInv, TypeOK
    <3>2. mem' = disk' /\ disk'.phase = "REVIEWING_A"
      BY <2>4, <3>1, BegunFields DEF StartAttempt, Entitled
    <3>3. QED
      BY <3>2, FinalSaved DEF Reviewing
  <2>5. CASE HandToB
    <3>1. mem' = disk' /\ disk'.phase = "REVIEWING_B"
      BY <2>5 DEF HandToB, Handed, IInv, TypeOK, States
    <3>2. QED
      BY <3>1, FinalSaved DEF Reviewing
  <2>6. CASE ReduceRound
    <3>1. CASE pc' = "commit" /\ UNCHANGED <<mem, disk>>
      <4>1. pc \in {"resume", "idle"} /\ mem.phase = "REVIEWING_B" /\ N' = N
        BY <2>6, TickType DEF ReduceRound, PollReview, TickNoCommand, IInv, N
      <4>2. ~(IsFinal(disk) /\ disk.lcr = N)
        BY <4>1, FinalPhase DEF Final_Inv, Reviewing
      <4>3. QED
        BY <3>1, <4>1, <4>2 DEF Final_Inv
    <3>2. CASE Save(TerminalError(mem, "integrity"))
      BY <3>2, FinalSaved DEF Save, After
    <3>3. QED
      BY <2>6, <3>1, <3>2 DEF ReduceRound
  <2>7. QED
    BY <1>2, <2>1, <2>2, <2>3, <2>4, <2>5, <2>6 DEF EngineTick
<1>3. CASE EngineStage
  <2>1. CASE ResumeActive
    BY <2>1, FinalSaved DEF ResumeActive, Save, After
  <2>2. CASE ResumeCheckpoint \/ Acknowledge \/ Exit
    <3>1. /\ UNCHANGED <<rounds, disk>>
          /\ pc' = "down" \/ (mem' = mem /\ pc' \in {"idle", "exit"} /\ pc # "down")
      BY <2>2 DEF ResumeCheckpoint, Acknowledge, Exit, After
    <3>2. QED
      BY <3>1, FinalFrame
  <2>3. CASE Submit
    <3>1. \/ UNCHANGED <<rounds, disk>> /\ mem' = mem /\ pc' = "idle" /\ pc # "down"
          \/ mem' = disk' /\ pc' \in {"idle", "exit"}
      BY <2>3 DEF Submit, Save, After
    <3>2. QED
      BY <3>1, FinalFrame, FinalSaved
  <2>4. CASE CommitRound \/ WriteRoundStatus \/ CheckpointEvent \/ SaveCheckpoint
    <3>1. CASE mem' = disk' /\ pc' \in {"idle", "exit"}
      BY <3>1, FinalSaved
    <3>2. CASE disk'.phase = "unset"
      BY <3>2, FinalPhase DEF Final_Inv
    <3>3. CASE CommitRound /\ pc' = "status" /\ UNCHANGED disk
      <4>1. disk.phase \in Reviewing
        BY <3>3 DEF CommitRound, IInv, Coherent, Active_Inv
      <4>2. QED
        BY <3>3, <4>1, FinalPhase DEF Final_Inv
    <3>4. CASE CheckpointEvent
      BY <3>4 DEF CheckpointEvent, Final_Inv, N
    <3>5. QED
      BY <2>4, <3>1, <3>2, <3>3, <3>4, BareFields
         DEF CommitRound, WriteRoundStatus, SaveCheckpoint, Save, After, IInv, TypeOK
  <2>5. QED
    BY <1>3, <2>1, <2>2, <2>3, <2>4 DEF EngineStage
<1>4. CASE Environment \/ UNCHANGED vars
  <2>1. UNCHANGED <<rounds, disk>> /\ (pc' = "down" \/ (mem' = mem /\ pc' = pc))
    BY <1>4 DEF Environment, Crash, IssueCommand, VetoElapses, WorkerAnswers, vars
  <2>2. QED
    BY <2>1, FinalFrame
<1>5. QED
  BY <1>1, <1>2, <1>3, <1>4 DEF Next

\* What a step makes of a final state.
LEMMA FinalHeld ==
  ASSUME IInv, Final_Inv, [Next]_vars, IsFinal(disk), disk.lcr = N
  PROVE  /\ rounds' = rounds /\ submitted' = submitted
         /\ \/ disk' = disk
            \/ disk'.phase = "STOPPED" /\ \E c \in Delivered : c.kind = "stop"
<1>1. pc # "down" => pc \in {"resume", "idle", "acknowledge", "exit"} /\ mem = disk
  BY DEF Final_Inv
<1>2. disk.active = NoJob /\ disk \in States
  BY FinalPhase DEF IInv, TypeOK, Coherent, Active_Inv, ActiveOK
<1>3. CASE Boot \/ Environment \/ UNCHANGED vars
  BY <1>3 DEF Boot, Environment, Crash, IssueCommand, VetoElapses, WorkerAnswers, vars,
              workerVars
<1>4. CASE EngineTick
  <2>1. mem = disk
    BY <1>1, <1>4, TickType
       DEF EngineTick, ApplyStop, ApplyResume, TickWait, TickTerminal, FinishCheckpoint,
           LeaveNoProgress, PauseStart, StartAttempt, AttemptsUsedUp, PollRaises,
           DeadlinePassed, ReviewFailed, PauseBetween, HandToB, ReduceRound, PollReview,
           TickNoCommand, IInv
  <2>2. mem.phase \in Terminal /\ mem.phase \notin Waiting \cup Reviewing
        /\ mem.phase \notin {"CHECKPOINT", "NO_PROGRESS"} /\ ~Exhausted(mem)
    BY <2>1, FinalPhase
  <2>3. CASE \E c \in cmds : ApplyStop(c)
    <3>1. PICK c \in cmds : ApplyStop(c)
      BY <2>3
    <3>2. mem' = Stopped(mem) /\ disk' = mem' /\ c \in Delivered /\ c.kind = "stop"
      BY <1>2, <2>1, <3>1 DEF ApplyStop
    <3>3. QED
      BY <1>2, <2>1, <3>1, <3>2, StoppedFields DEF ApplyStop
  <2>4. CASE TickTerminal
    BY <2>4 DEF TickTerminal, TickNoCommand, workerVars
  <2>5. CASE TickWait
    BY <2>5 DEF TickWait, TickNoCommand, workerVars
  <2>6. QED
    BY <1>4, <2>2, <2>3, <2>4, <2>5
       DEF EngineTick, ApplyResume, Applies, FinishCheckpoint, LeaveNoProgress, PauseStart,
           StartAttempt, AttemptsUsedUp, PollRaises, DeadlinePassed, ReviewFailed,
           PauseBetween, HandToB, ReduceRound, PollReview, Reviewing
<1>5. CASE EngineStage
  BY <1>1, <1>2, <1>5
     DEF EngineStage, ResumeActive, ResumeCheckpoint, Acknowledge, Submit, CommitRound,
         WriteRoundStatus, CheckpointEvent, SaveCheckpoint, Exit, workerVars
<1>6. QED
  BY <1>3, <1>4, <1>5 DEF Next

\* Whatever ended the session stays in state.json -- an agreement, the round limit, an
\* error, a cancellation nobody confirmed -- and nothing is committed or submitted after
\* it; a stop, which is applied before the phase is looked at, is all that replaces it
\* (tick, _apply_commands, _load_runtime).
THEOREM FinalStays == Spec => FinalHolds
<1>1. Init => Final_Inv
  BY DEF Init, Final_Inv
<1>2. IInv /\ Final_Inv /\ [Next]_vars =>
        [IsFinal(disk) /\ disk.lcr = Len(rounds) =>
           /\ rounds' = rounds /\ submitted' = submitted
           /\ \/ disk' = disk
              \/ disk'.phase = "STOPPED" /\ \E c \in Delivered : c.kind = "stop"]_vars
  BY FinalHeld DEF N
<1>3. IInv /\ Final_Inv /\ [Next]_vars => Final_Inv'
  BY FinalStep
<1>4. QED
  BY <1>1, <1>2, <1>3, Invariant, PTL DEF Spec, FinalHolds

-----------------------------------------------------------------------------
(* Grants.                                                                  *)

\* The resumes of round r - 1 that are answered, and the one that is granted already and
\* is about to be.
AckedResumes(r) == {c \in ResumesOf(r) : Acked(c)}
Owing   == pc = "acknowledge" /\ ackFor.outcome = "RESUMED"
Owed(r) == IF Owing /\ r = mem.lcr + 1 THEN 1 ELSE 0

\* A crash while a grant is owed leaves it paid for by nothing else.
GrantBound(r) == Cardinality(AckedResumes(r)) + crashes + Owed(r)

Grants_Inv ==
  /\ IsFiniteSet(cmds)
  /\ \A c, d \in cmds : c.id = d.id => c = d
  /\ pc \in {"resume", "idle", "acknowledge", "submit"} => disk.lcr = N
  /\ Owing => \E c \in ResumesOf(mem.lcr + 1) : c.id = ackFor.id /\ ~Acked(c)
  /\ \A r \in RoundKeys : disk.grants[r] <= GrantBound(r) /\ mem.grants[r] <= GrantBound(r)
  /\ GroupsGranted

\* Requests, acknowledgements and the count of crashes only grow.
LEMMA RecordsGrow ==
  ASSUME IInv, Grants_Inv, [Next]_vars
  PROVE  /\ cmds \subseteq cmds' /\ acks \subseteq acks'
         /\ crashes \in Nat /\ crashes' \in Nat /\ crashes <= crashes'
         /\ IsFiniteSet(cmds')
         /\ \A c, d \in cmds' : c.id = d.id => c = d
<1>1. crashes \in Nat
  BY ConstantsAssumption DEF IInv, TypeOK
<1>2. CASE \E id \in CommandIds, kind \in {"stop", "resume"} : IssueCommand(id, kind)
  <2>1. PICK id \in CommandIds, kind \in {"stop", "resume"} : IssueCommand(id, kind)
    BY <1>2
  <2>2. cmds' = cmds \cup {[id |-> id, kind |-> kind, round |-> disk.lcr]}
        /\ (\A c \in cmds : c.id # id) /\ UNCHANGED <<acks, crashes>>
    BY <2>1 DEF IssueCommand
  <2>3. IsFiniteSet(cmds')
    BY <2>2, FS_AddElement DEF Grants_Inv
  <2>4. QED
    BY <1>1, <2>2, <2>3 DEF Grants_Inv
<1>3. CASE EngineTick
  <2>1. Tick
    BY <1>3
       DEF EngineTick, ApplyStop, ApplyResume, TickWait, TickTerminal, FinishCheckpoint,
           LeaveNoProgress, PauseStart, StartAttempt, AttemptsUsedUp, PollRaises,
           DeadlinePassed, ReviewFailed, PauseBetween, HandToB, ReduceRound, PollReview,
           TickNoCommand
  <2>2. QED
    BY <1>1, <2>1 DEF Tick, RejectStale, Grants_Inv
<1>4. CASE Boot \/ EngineStage \/ Crash \/ VetoElapses \/ WorkerAnswers \/ UNCHANGED vars
  <2>1. cmds' = cmds /\ acks \subseteq acks' /\ crashes' \in {crashes, crashes + 1}
    BY <1>4
       DEF Boot, EngineStage, ResumeActive, ResumeCheckpoint, Acknowledge, Submit, CommitRound,
           WriteRoundStatus, CheckpointEvent, SaveCheckpoint, Exit, Crash, VetoElapses,
           WorkerAnswers, vars
  <2>2. QED
    BY <1>1, <2>1 DEF Grants_Inv
<1>5. QED
  BY <1>2, <1>3, <1>4 DEF Next, Environment

LEMMA ResumesCounted ==
  ASSUME IsFiniteSet(cmds), NEW r
  PROVE  /\ IsFiniteSet(AckedResumes(r))
         /\ Cardinality(AckedResumes(r)) \in Nat /\ Cardinality(ResumesOf(r)) \in Nat
         /\ Cardinality(AckedResumes(r)) <= Cardinality(ResumesOf(r))
<1>1. IsFiniteSet(ResumesOf(r))
  BY FS_Subset DEF ResumesOf
<1>2. AckedResumes(r) \subseteq ResumesOf(r)
  BY DEF AckedResumes
<1>3. QED
  BY <1>1, <1>2, FS_Subset, FS_CardinalityType

\* What paid for a grant pays for it ever after.
LEMMA BoundKept ==
  ASSUME IInv, Grants_Inv, [Next]_vars, NEW r
  PROVE  /\ GrantBound(r) \in Nat /\ GrantBound(r)' \in Nat
         /\ Cardinality(ResumesOf(r)) <= Cardinality(ResumesOf(r)')
         /\ GrantBound(r) <= GrantBound(r)'
         /\ ~Owing => Cardinality(AckedResumes(r)) + crashes = GrantBound(r)
<1> DEFINE paid == Cardinality(AckedResumes(r))
<1>1. /\ AckedResumes(r) \subseteq AckedResumes(r)' /\ ResumesOf(r) \subseteq ResumesOf(r)'
      /\ IsFiniteSet(cmds')
  BY RecordsGrow DEF AckedResumes, ResumesOf, Acked
<1>2. IsFiniteSet(AckedResumes(r)') /\ IsFiniteSet(ResumesOf(r)')
  BY <1>1, FS_Subset DEF AckedResumes, ResumesOf
<1>3. /\ paid \in Nat /\ paid' \in Nat /\ paid <= paid'
      /\ Cardinality(ResumesOf(r)) <= Cardinality(ResumesOf(r)')
  BY <1>1, <1>2, FS_Subset, FS_CardinalityType, ResumesCounted DEF Grants_Inv
<1>4. /\ Owed(r) \in {0, 1} /\ Owed(r)' \in {0, 1} /\ (~Owing => Owed(r) = 0)
      /\ crashes \in Nat /\ crashes' \in Nat /\ crashes <= crashes'
  BY RecordsGrow DEF Owed
<1>5. CASE Owed(r) = 0
  BY <1>3, <1>4, <1>5 DEF GrantBound
<1>6. CASE Owed(r) = 1 /\ pc' = "acknowledge" /\ UNCHANGED <<ackFor, mem>>
  <2>1. Owed(r)' = 1
    BY <1>6 DEF Owed, Owing
  <2>2. QED
    BY <1>3, <1>4, <1>6, <2>1 DEF GrantBound
<1>7. CASE Owed(r) = 1 /\ Crash
  BY <1>3, <1>4, <1>7 DEF GrantBound, Crash
<1>8. CASE Owed(r) = 1 /\ Acknowledge
  <2>1. PICK c \in ResumesOf(r) : c.id = ackFor.id /\ ~Acked(c)
    BY <1>8 DEF Grants_Inv, Owed
  <2>2. c \notin AckedResumes(r) /\ c \in AckedResumes(r)'
    BY <1>8, <2>1 DEF AckedResumes, ResumesOf, Acked, Acknowledge
  <2>3. AckedResumes(r) \cup {c} \subseteq AckedResumes(r)'
    BY <1>1, <2>2
  <2>4. Cardinality(AckedResumes(r) \cup {c}) = paid + 1
    BY <2>2, FS_AddElement, ResumesCounted DEF Grants_Inv
  <2>5. paid + 1 <= paid'
    BY <1>2, <2>3, <2>4, FS_Subset
  <2>6. QED
    BY <1>3, <1>4, <1>8, <2>5 DEF GrantBound
<1>9. Owed(r) = 1 =>
        (pc' = "acknowledge" /\ UNCHANGED <<ackFor, mem>>) \/ Crash \/ Acknowledge
  <2>1. SUFFICES ASSUME pc = "acknowledge"
                 PROVE  (pc' = "acknowledge" /\ UNCHANGED <<ackFor, mem>>) \/ Crash \/ Acknowledge
    BY DEF Owed, Owing
  <2>2. ~EngineTick /\ ~Boot
    BY <2>1
       DEF Boot, EngineTick, ApplyStop, ApplyResume, TickWait, TickTerminal, FinishCheckpoint,
           LeaveNoProgress, PauseStart, StartAttempt, AttemptsUsedUp, PollRaises,
           DeadlinePassed, ReviewFailed, PauseBetween, HandToB, ReduceRound, PollReview,
           TickNoCommand, Tick, Ticking
  <2>3. EngineStage => Acknowledge
    BY <2>1
       DEF EngineStage, ResumeActive, ResumeCheckpoint, Submit, CommitRound, WriteRoundStatus,
           CheckpointEvent, SaveCheckpoint, Exit
  <2>4. QED
    BY <2>1, <2>2, <2>3
       DEF Next, Environment, IssueCommand, VetoElapses, WorkerAnswers, vars
<1>10. QED
  BY <1>3, <1>4, <1>5, <1>6, <1>7, <1>8, <1>9 DEF GrantBound

\* No step but ApplyResume raises a count of grants.
LEMMA GrantsMove ==
  ASSUME IInv, [Next]_vars, \A c \in cmds : ~ApplyResume(c), NEW r \in RoundKeys
  PROVE  /\ disk'.grants[r] \in {0, disk.grants[r], mem.grants[r]}
         /\ mem'.grants[r] \in {0, disk.grants[r], mem.grants[r]}
<1> DEFINE counts == {0, disk.grants[r], mem.grants[r]}
<1>1. mem \in States /\ disk \in States /\ N \in Nat
  BY DEF IInv, TypeOK, N
<1>2. \A n \in Nat : Bare(n).grants[r] = 0
  BY DEF Bare
<1>3. \A code \in Errors : TerminalError(mem, code).grants = mem.grants
  BY <1>1, TerminalErrorFields
<1>4. {"attempts_exhausted", "cancel_unconfirmed", "integrity", "storage", "permanent"} \subseteq Errors
  BY DEF Errors
<1>5. \A reason \in Pauses : Paused(mem, reason).grants = mem.grants
  BY <1>1, PausedFields
<1>6. Retry(mem).grants = mem.grants
  BY <1>1, RetryFields
<1>7. \A s \in {Stopped(mem), CheckpointVerdict(mem), Begun(mem), Handed(mem)} :
        s.grants = mem.grants
  BY <1>1 DEF Stopped, CheckpointVerdict, Begun, Handed, States
<1>8. CASE Boot
  BY <1>1, <1>8 DEF Boot, LoadRuntime, States
<1>9. CASE EngineTick
  <2>1. CASE \E c \in cmds : ApplyStop(c)
    BY <1>3, <1>4, <1>7, <2>1 DEF ApplyStop
  <2>2. CASE TickWait \/ TickTerminal
    BY <2>2 DEF TickWait, TickTerminal
  <2>3. CASE FinishCheckpoint \/ StartAttempt \/ AttemptsUsedUp \/ HandToB \/ ReduceRound
    BY <1>3, <1>4, <1>7, <2>3
       DEF FinishCheckpoint, StartAttempt, AttemptsUsedUp, HandToB, ReduceRound, Save
  <2>4. CASE LeaveNoProgress
    BY <1>1, <2>4 DEF LeaveNoProgress, Save, States
  <2>5. CASE PauseStart \/ PauseBetween
    BY <1>5, <2>5 DEF PauseStart, PauseBetween, Save
  <2>6. CASE PollRaises \/ DeadlinePassed \/ ReviewFailed
    <3>1. "PAUSED_LIMIT_UNKNOWN" \in Pauses
      BY DEF Pauses
    <3>2. QED
      BY <1>3, <1>4, <1>5, <1>6, <2>6, <3>1 DEF PollRaises, DeadlinePassed, ReviewFailed, Save
  <2>7. QED
    BY <1>9, <2>1, <2>2, <2>3, <2>4, <2>5, <2>6 DEF EngineTick
<1>10. CASE EngineStage
  <2>1. CASE ResumeActive \/ Submit
    BY <1>3, <1>4, <1>6, <2>1 DEF ResumeActive, Submit, Save
  <2>2. CASE ResumeCheckpoint \/ Acknowledge \/ CheckpointEvent \/ Exit
    BY <1>2, <2>2 DEF ResumeCheckpoint, Acknowledge, CheckpointEvent, Exit
  <2>3. CASE CommitRound
    BY <1>3, <1>4, <2>3 DEF CommitRound, Save
  <2>4. CASE WriteRoundStatus
    BY <1>1, <1>2, <1>3, <1>4, <2>4 DEF WriteRoundStatus, Save, N, States
  <2>5. CASE SaveCheckpoint
    BY <1>1, <2>5 DEF SaveCheckpoint, Save, States
  <2>6. QED
    BY <1>10, <2>1, <2>2, <2>3, <2>4, <2>5 DEF EngineStage
<1>11. CASE Environment \/ UNCHANGED vars
  BY <1>2, <1>11 DEF Environment, Crash, IssueCommand, VetoElapses, WorkerAnswers, vars
<1>12. QED
  BY <1>8, <1>9, <1>10, <1>11 DEF Next

\* state.json shows the committed rounds wherever a command may be looked at.
LEMMA NumberSaved ==
  ASSUME IInv, Grants_Inv, [Next]_vars,
         pc' \in {"resume", "idle", "acknowledge", "submit"}
  PROVE  disk'.lcr = N'
<1>1. mem'.lcr = N'
  BY NextIInv DEF IInv, Coherent, Rounds_Inv, UpToDate
<1>2. CASE Boot
  BY <1>2 DEF Boot, NeedsCheckpoint, IInv, TypeOK, States, Coherent, Rounds_Inv, N
<1>3. CASE mem' = disk'
  BY <1>1, <1>3
<1>4. CASE /\ UNCHANGED <<rounds, disk>>
           /\ pc' = pc \/ pc \in {"resume", "idle", "acknowledge", "submit"}
  BY <1>4 DEF Grants_Inv, N
<1>5. EngineTick => mem' = disk' \/ (/\ UNCHANGED <<rounds, disk>>
                                     /\ pc \in {"resume", "idle", "acknowledge", "submit"})
  BY TickType
     DEF EngineTick, ApplyStop, ApplyResume, TickWait, TickTerminal, FinishCheckpoint,
         LeaveNoProgress, PauseStart, StartAttempt, AttemptsUsedUp, PollRaises,
         DeadlinePassed, ReviewFailed, PauseBetween, HandToB, ReduceRound, PollReview,
         TickNoCommand, Save, IInv
<1>6. EngineStage => mem' = disk' \/ (/\ UNCHANGED <<rounds, disk>>
                                      /\ pc \in {"resume", "idle", "acknowledge", "submit"})
  BY DEF EngineStage, ResumeActive, ResumeCheckpoint, Acknowledge, Submit, CommitRound,
         WriteRoundStatus, CheckpointEvent, SaveCheckpoint, Exit, Save
<1>7. Environment \/ UNCHANGED vars => UNCHANGED <<rounds, disk>> /\ pc' = pc
  BY DEF Environment, Crash, IssueCommand, VetoElapses, WorkerAnswers, vars
<1>8. QED
  BY <1>2, <1>3, <1>4, <1>5, <1>6, <1>7 DEF Next

\* A resume being applied raises the count by the grant it is owed the answer to.
LEMMA ResumeGrants ==
  ASSUME IInv, Grants_Inv, [Next]_vars, NEW c \in cmds, ApplyResume(c)
  PROVE  /\ \E d \in ResumesOf(mem.lcr + 1)' : d.id = ackFor'.id /\ ~Acked(d)'
         /\ mem'.lcr = mem.lcr
         /\ \A r \in RoundKeys :
              disk'.grants[r] <= GrantBound(r)' /\ mem'.grants[r] <= GrantBound(r)'
<1>1. /\ Tick /\ c \in Delivered /\ c.kind = "resume" /\ mem' = Granted(mem) /\ disk' = mem'
      /\ ackFor' = [id |-> c.id, outcome |-> "RESUMED"] /\ pc' = "acknowledge"
  BY DEF ApplyResume
<1>2. pc \in {"resume", "idle"} /\ cmds' = cmds
  BY <1>1, TickType DEF IInv
<1>3. mem \in States /\ mem.lcr = disk.lcr /\ mem.lcr <= MaxRounds /\ mem.lcr \in Nat
  BY <1>2, AtRest DEF Grants_Inv
<1>4. mem'.lcr = mem.lcr
  BY <1>1, <1>3, GrantedFields
<1>5. c \in ResumesOf(mem.lcr + 1)'
  BY <1>1, <1>2, <1>3, <1>4 DEF ResumesOf, Delivered
<1>6. ~Acked(c)'
  <2>1. \A d \in Stale : d.id # c.id
    BY <1>1 DEF Stale, Delivered, Pending, Grants_Inv
  <2>2. ~Acked(c) /\ RejectStale
    BY <1>1 DEF Delivered, Pending, Tick
  <2>3. QED
    BY <2>1, <2>2 DEF RejectStale, Acked
<1>7. SUFFICES ASSUME NEW r \in RoundKeys PROVE mem'.grants[r] <= GrantBound(r)'
  BY <1>1, <1>4, <1>5, <1>6
<1>8. GrantBound(r) <= GrantBound(r)' /\ mem.grants[r] <= GrantBound(r)
      /\ GrantBound(r) \in Nat /\ GrantBound(r)' \in Nat /\ mem.grants[r] \in Nat
  BY <1>3, BoundKept DEF Grants_Inv, States
<1>9. mem'.grants = [mem.grants EXCEPT ![mem.lcr + 1] = @ + 1]
  BY <1>1, <1>3, GrantedFields
<1>10. CASE r # mem.lcr + 1
  BY <1>3, <1>8, <1>9, <1>10 DEF States
<1>11. CASE r = mem.lcr + 1
  <2>1. Owed(r)' = 1 /\ Owed(r) = 0
    BY <1>1, <1>2, <1>4, <1>11 DEF Owed, Owing
  <2>2. mem'.grants[r] = mem.grants[r] + 1
    BY <1>3, <1>9, <1>11 DEF States
  <2>3. AckedResumes(r) \subseteq AckedResumes(r)' /\ IsFiniteSet(cmds') /\ crashes' = crashes
        /\ crashes \in Nat
    BY <1>1, RecordsGrow DEF AckedResumes, ResumesOf, Acked, Tick
  <2>4. IsFiniteSet(AckedResumes(r)')
    BY <2>3, FS_Subset DEF AckedResumes, ResumesOf
  <2>5. /\ Cardinality(AckedResumes(r)) <= Cardinality(AckedResumes(r)')
        /\ Cardinality(AckedResumes(r)) \in Nat /\ Cardinality(AckedResumes(r)') \in Nat
    BY <2>3, <2>4, FS_Subset, FS_CardinalityType, ResumesCounted DEF Grants_Inv
  <2>6. GrantBound(r)' = Cardinality(AckedResumes(r)') + crashes + 1
        /\ GrantBound(r) = Cardinality(AckedResumes(r)) + crashes
    BY <2>1, <2>3, <2>5 DEF GrantBound
  <2>7. QED
    BY <1>8, <2>2, <2>3, <2>5, <2>6
<1>12. QED
  BY <1>10, <1>11

\* A job is published with the grant of the group it belongs to.
LEMMA GroupsStep ==
  ASSUME IInv, Grants_Inv, [Next]_vars
  PROVE  GroupsGranted'
<1>1. SUFFICES ASSUME NEW j \in submitted'
               PROVE  j.grant <= Cardinality(ResumesOf(j.round)') + crashes'
  BY DEF GroupsGranted
<1>2. crashes \in Nat /\ crashes' \in Nat /\ crashes <= crashes' /\ j \in Jobs
  BY <1>1, RecordsGrow, NextIInv DEF IInv, TypeOK
<1>3. /\ Cardinality(ResumesOf(j.round)) \in Nat /\ Cardinality(ResumesOf(j.round)') \in Nat
      /\ Cardinality(ResumesOf(j.round)) <= Cardinality(ResumesOf(j.round)')
  <2>1. IsFiniteSet(ResumesOf(j.round)')
    BY RecordsGrow, FS_Subset DEF ResumesOf
  <2>2. QED
    BY <2>1, BoundKept, ResumesCounted, FS_CardinalityType DEF Grants_Inv
<1>4. CASE j \in submitted
  BY <1>2, <1>3, <1>4 DEF GroupsGranted, Grants_Inv, Jobs
<1>5. CASE j \notin submitted
  <2>1. Submit
    BY <1>1, <1>5
       DEF Next, Boot, EngineTick, ApplyStop, ApplyResume, TickWait, TickTerminal,
           FinishCheckpoint, LeaveNoProgress, PauseStart, StartAttempt, AttemptsUsedUp,
           PollRaises, DeadlinePassed, ReviewFailed, PauseBetween, HandToB, ReduceRound,
           PollReview, EngineStage, ResumeActive, ResumeCheckpoint, Acknowledge, CommitRound,
           WriteRoundStatus, CheckpointEvent, SaveCheckpoint, Exit, Environment, Crash,
           IssueCommand, VetoElapses, WorkerAnswers, vars, workerVars
  <2>2. j = mem.active /\ pc = "submit"
    BY <1>1, <1>5, <2>1 DEF Submit
  <2>3. mem.phase \in Reviewing
    BY <2>2 DEF IInv, Coherent, Active_Inv
  <2>4. j.round = mem.lcr + 1 /\ j.grant = mem.grants[mem.lcr + 1] /\ mem.lcr + 1 \in RoundKeys
    BY <2>2, <2>3, ReviewingFacts, AtRest, ConstantsAssumption DEF ActiveOK, Job, RoundKeys
  <2>5. j.grant <= GrantBound(j.round)
    BY <2>4 DEF Grants_Inv
  <2>6. GrantBound(j.round) = Cardinality(AckedResumes(j.round)) + crashes
    BY <2>2, BoundKept DEF Owing
  <2>7. /\ Cardinality(AckedResumes(j.round)) \in Nat
        /\ Cardinality(AckedResumes(j.round)) <= Cardinality(ResumesOf(j.round))
    BY ResumesCounted DEF Grants_Inv
  <2>8. QED
    BY <1>2, <1>3, <2>5, <2>6, <2>7 DEF Jobs
<1>6. QED
  BY <1>4, <1>5

LEMMA GrantsStep ==
  ASSUME IInv, Grants_Inv, [Next]_vars
  PROVE  Grants_Inv'
<1>1. Owing' => \E c \in ResumesOf(mem.lcr + 1)' : c.id = ackFor'.id /\ ~Acked(c)'
  <2>1. SUFFICES ASSUME Owing', \A c \in cmds : ~ApplyResume(c)
                 PROVE  \E c \in ResumesOf(mem.lcr + 1)' : c.id = ackFor'.id /\ ~Acked(c)'
    BY ResumeGrants
  <2>2. ~EngineTick
    <3>1. \A c \in cmds : ~ApplyStop(c)
      <4>1. Stopped(mem).phase = "STOPPED"
            /\ TerminalError(mem, "cancel_unconfirmed").phase = "ERROR"
        BY StoppedFields, TerminalErrorFields DEF IInv, TypeOK, Errors
      <4>2. QED
        BY <2>1, <4>1 DEF ApplyStop, Owing
    <3>2. QED
      BY <2>1, <3>1
         DEF EngineTick, TickWait, TickTerminal, FinishCheckpoint, LeaveNoProgress, PauseStart,
             StartAttempt, AttemptsUsedUp, PollRaises, DeadlinePassed, ReviewFailed,
             PauseBetween, HandToB, ReduceRound, Owing, Save, After
  <2>3. ~EngineStage /\ ~Boot
    BY <2>1
       DEF EngineStage, ResumeActive, ResumeCheckpoint, Acknowledge, Submit, CommitRound,
           WriteRoundStatus, CheckpointEvent, SaveCheckpoint, Exit, Owing, Save, After, Boot
  <2>4. UNCHANGED <<pc, mem, acks, ackFor>>
    BY <2>1, <2>2, <2>3
       DEF Next, Environment, Crash, IssueCommand, VetoElapses, WorkerAnswers, vars, Owing
  <2>5. PICK c \in ResumesOf(mem.lcr + 1) : c.id = ackFor.id /\ ~Acked(c)
    BY <2>1, <2>4 DEF Grants_Inv, Owing
  <2>6. c \in ResumesOf(mem.lcr + 1)' /\ ~Acked(c)'
    BY <2>4, <2>5, RecordsGrow DEF ResumesOf, Acked
  <2>7. QED
    BY <2>4, <2>5, <2>6
<1>2. \A r \in RoundKeys : disk'.grants[r] <= GrantBound(r)' /\ mem'.grants[r] <= GrantBound(r)'
  <2>1. CASE \E c \in cmds : ApplyResume(c)
    BY <2>1, ResumeGrants
  <2>2. CASE \A c \in cmds : ~ApplyResume(c)
    <3>1. SUFFICES ASSUME NEW r \in RoundKeys
                   PROVE  disk'.grants[r] <= GrantBound(r)' /\ mem'.grants[r] <= GrantBound(r)'
      OBVIOUS
    <3>2. disk.grants[r] <= GrantBound(r) /\ mem.grants[r] <= GrantBound(r)
          /\ disk.grants[r] \in Nat /\ mem.grants[r] \in Nat
      BY DEF Grants_Inv, IInv, TypeOK, States
    <3>3. QED
      BY <2>2, <3>2, GrantsMove, BoundKept
  <2>3. QED
    BY <2>1, <2>2
<1>3. IsFiniteSet(cmds') /\ \A c, d \in cmds' : c.id = d.id => c = d
  BY RecordsGrow
<1>4. QED
  BY <1>1, <1>2, <1>3, NumberSaved, GroupsStep DEF Grants_Inv

\* Nothing is granted at the start.
LEMMA InitGrants == Init => Grants_Inv
<1>1. SUFFICES ASSUME Init, NEW r PROVE Cardinality(AckedResumes(r)) = 0 /\ IsFiniteSet(cmds)
  BY DEF Init, Grants_Inv, N, Bare, GrantBound, Owed, Owing, GroupsGranted
<1>2. AckedResumes(r) = {}
  BY <1>1 DEF Init, AckedResumes, ResumesOf
<1>3. QED
  BY <1>1, <1>2, FS_EmptySet DEF Init

\* However commands, crashes and exhausted groups follow one another, the groups of
\* attempts submitted for a round are no more than the resumes a human sent for it, and
\* one for each crash (_apply_commands, Control.acknowledge).
THEOREM GrantsPaidFor == Spec => []GroupsGranted
<1>1. Init => Grants_Inv
  BY InitGrants
<1>2. IInv /\ Grants_Inv /\ [Next]_vars => Grants_Inv'
  BY GrantsStep
<1>3. Grants_Inv => GroupsGranted
  BY DEF Grants_Inv
<1>4. QED
  BY <1>1, <1>2, <1>3, Invariant, PTL DEF Spec

-----------------------------------------------------------------------------
(* An acknowledged stop, where cancellations are confirmed and calls reach the *)
(* worker.                                                                     *)

Reliable == Faults \cap {"cancel", "transport"} = {}

\* Nothing but the job state.json names is at a worker, and not even that one once it
\* has been answered.
Tracked_Inv ==
  /\ live \subseteq {disk.active}
  /\ \A a \in answers : a.job \notin live
  /\ pc \in {"commit", "status"} \cup Committing \/ N > disk.lcr => live = {}
  /\ pc \in {"resume", "idle", "acknowledge", "submit", "exit"} => mem.active = disk.active

\* A stop is saved before it is acknowledged.
Acked_Inv ==
  /\ (\E a \in acks : a.outcome = "STOPPED") => disk.phase = "STOPPED"
  /\ pc = "acknowledge" /\ ackFor.outcome = "STOPPED" => disk.phase = "STOPPED"

LEMMA NoneLive ==
  ASSUME IInv, Tracked_Inv, disk.active = NoJob
  PROVE  live = {}
<1>1. live \subseteq Jobs /\ NoJob \notin Jobs
  BY DEF IInv, TypeOK, Jobs, NoJob
<1>2. QED
  BY <1>1 DEF Tracked_Inv

\* In a tick memory and disk agree on the active job, which is all that can be live.
LEMMA TickTracked ==
  ASSUME IInv, Tracked_Inv, Tick
  PROVE  /\ mem.active = disk.active /\ ActiveOK(mem)
         /\ mem.phase \notin Reviewing => live = {}
         /\ \A code \in AllCodes : Answered(code) => live = {}
         /\ CancelConfirmed(mem.active) => live' = {}
<1>1. pc \in {"resume", "idle"}
  BY TickType DEF IInv
<1>2. mem.active = disk.active /\ ActiveOK(mem)
  BY <1>1 DEF Tracked_Inv, IInv, Coherent, Active_Inv, Committing
<1>3. mem.phase \notin Reviewing => live = {}
  BY <1>2, NoneLive DEF ActiveOK
<1>4. \A code \in AllCodes : Answered(code) => live = {}
  <2>1. SUFFICES ASSUME NEW code \in AllCodes, Answered(code) PROVE live = {}
    OBVIOUS
  <2>2. [job |-> mem.active, code |-> code].job \notin live
    BY <2>1 DEF Answered, Tracked_Inv
  <2>3. QED
    BY <1>2, <2>2 DEF Tracked_Inv
<1>5. CancelConfirmed(mem.active) => live' = {}
  BY <1>2 DEF CancelConfirmed, Tracked_Inv
<1>6. QED
  BY <1>2, <1>3, <1>4, <1>5

LEMMA EmptyTracked ==
  ASSUME live' = {},
         pc' \in {"resume", "idle", "acknowledge", "submit", "exit"} => mem'.active = disk'.active
  PROVE  Tracked_Inv'
  BY DEF Tracked_Inv

\* A step that leaves the files and the worker alone, and ends the process or goes on
\* where memory and disk agree.
LEMMA SameTracked ==
  ASSUME Tracked_Inv, UNCHANGED <<rounds, disk, live, answers>>,
         pc' = "down" \/ (pc' = pc /\ mem' = mem)
         \/ /\ pc' \in {"idle", "exit"} /\ mem' = mem
            /\ pc \in {"resume", "idle", "acknowledge"}
  PROVE  Tracked_Inv'
<1>1. N' = N
  BY DEF N
<1>2. QED
  BY <1>1 DEF Tracked_Inv, Committing

LEMMA TickTrackedStep ==
  ASSUME Reliable, IInv, Tracked_Inv, EngineTick
  PROVE  Tracked_Inv'
<1>1. Tick
  BY DEF EngineTick, ApplyStop, ApplyResume, TickWait, TickTerminal, FinishCheckpoint,
         LeaveNoProgress, PauseStart, StartAttempt, AttemptsUsedUp, PollRaises, DeadlinePassed,
         ReviewFailed, PauseBetween, HandToB, ReduceRound, PollReview, TickNoCommand
<1>2. "cancel" \notin Faults /\ "transport" \notin Faults
  BY DEF Reliable
<1>3. \A s : Save(s) => mem' = disk'
  BY DEF Save
<1>4. {"ok", "transient", "rate_limit", "permanent"} \subseteq AllCodes
  BY DEF AllCodes
<1>5. CASE \E c \in cmds : ApplyStop(c)
  <2>1. live' = {} /\ disk' = mem'
    BY <1>1, <1>2, <1>5, TickTracked DEF ApplyStop, CancelUnconfirmed
  <2>2. QED
    BY <2>1, EmptyTracked
<1>6. CASE \E c \in cmds : ApplyResume(c)
  <2>1. mem.phase \notin Reviewing
    BY <1>6 DEF ApplyResume, Applies, Exhausted, Reviewing
  <2>2. live' = {} /\ disk' = mem'
    BY <1>1, <1>6, <2>1, TickTracked DEF ApplyResume, workerVars
  <2>3. QED
    BY <2>2, EmptyTracked
<1>7. CASE TickWait \/ TickTerminal
  <2>1. /\ UNCHANGED <<rounds, disk, mem, live, answers>>
        /\ pc' \in {"idle", "exit"} /\ pc \in {"resume", "idle"}
    BY <1>1, <1>7, TickType
       DEF TickWait, TickTerminal, TickNoCommand, workerVars, After, IInv
  <2>2. QED
    BY <2>1, SameTracked
<1>8. CASE FinishCheckpoint \/ LeaveNoProgress \/ PauseStart \/ StartAttempt \/ AttemptsUsedUp
  <2>1. mem.phase \notin Reviewing /\ UNCHANGED live
    BY <1>8
       DEF FinishCheckpoint, LeaveNoProgress, PauseStart, StartAttempt, AttemptsUsedUp,
           Waiting, Pauses, Reviewing, workerVars
  <2>2. mem' = disk'
    BY <1>3, <1>8
       DEF FinishCheckpoint, LeaveNoProgress, PauseStart, StartAttempt, AttemptsUsedUp
  <2>3. QED
    BY <1>1, <2>1, <2>2, TickTracked, EmptyTracked
<1>9. CASE DeadlinePassed
  <2>1. live' = {} /\ mem' = disk'
    BY <1>1, <1>2, <1>3, <1>9, TickTracked DEF DeadlinePassed, CancelUnconfirmed
  <2>2. QED
    BY <2>1, EmptyTracked
<1>10. CASE ReviewFailed \/ PauseBetween \/ HandToB
  <2>1. live = {} /\ UNCHANGED live
    BY <1>1, <1>4, <1>10, TickTracked DEF ReviewFailed, PauseBetween, HandToB, workerVars
  <2>2. mem' = disk'
    BY <1>3, <1>10 DEF ReviewFailed, PauseBetween, HandToB
  <2>3. QED
    BY <2>1, <2>2, EmptyTracked
<1>11. CASE ReduceRound
  <2>1. live = {} /\ UNCHANGED live
    BY <1>1, <1>4, <1>11, TickTracked DEF ReduceRound, workerVars
  <2>2. pc' = "commit" \/ mem' = disk'
    BY <1>3, <1>11 DEF ReduceRound
  <2>3. QED
    BY <2>1, <2>2, EmptyTracked
<1>12. CASE PollRaises
  BY <1>2, <1>12 DEF PollRaises
<1>13. QED
  BY <1>5, <1>6, <1>7, <1>8, <1>9, <1>10, <1>11, <1>12 DEF EngineTick

LEMMA StageTrackedStep ==
  ASSUME Reliable, IInv, Tracked_Inv, EngineStage
  PROVE  Tracked_Inv'
<1>1. "cancel" \notin Faults /\ "transport" \notin Faults
  BY DEF Reliable
<1>2. CASE ResumeActive
  <2>1. live' = {} /\ mem' = disk'
    BY <1>1, <1>2 DEF ResumeActive, CancelConfirmed, CancelUnconfirmed, Tracked_Inv, Save
  <2>2. QED
    BY <2>1, EmptyTracked
<1>3. CASE ResumeCheckpoint \/ Acknowledge \/ Exit
  <2>1. /\ UNCHANGED <<rounds, disk, live, answers>>
        /\ \/ pc' = "down"
           \/ pc' \in {"idle", "exit"} /\ mem' = mem /\ pc \in {"resume", "acknowledge"}
    BY <1>3 DEF ResumeCheckpoint, Acknowledge, Exit, After, workerVars
  <2>2. QED
    BY <2>1, SameTracked
<1>4. CASE Submit
  <2>1. /\ live' = live \cup {mem.active} /\ pc = "submit" /\ pc' = "idle"
        /\ UNCHANGED <<rounds, mem, disk, answers>>
    BY <1>1, <1>4 DEF Submit
  <2>2. mem.active = disk.active
    BY <2>1 DEF Tracked_Inv
  <2>3. \A a \in answers : a.job # mem.active
    BY <2>1 DEF IInv, TypeOK, Coherent, Submitted_Inv
  <2>4. ~(N' > disk'.lcr)
    BY <2>1, PublishOK, AtRest DEF N
  <2>5. QED
    BY <2>1, <2>2, <2>3, <2>4 DEF Tracked_Inv, Committing
<1>5. CASE CommitRound \/ WriteRoundStatus \/ CheckpointEvent \/ SaveCheckpoint
  <2>1. pc \in {"commit", "status"} \cup Committing /\ UNCHANGED live
    BY <1>5
       DEF CommitRound, WriteRoundStatus, CheckpointEvent, SaveCheckpoint, Committing, workerVars
  <2>2. mem' = disk' \/ pc' \in {"status", "checkpoint", "saveCheckpoint"}
    BY <1>5 DEF CommitRound, WriteRoundStatus, CheckpointEvent, SaveCheckpoint, Save
  <2>3. live = {}
    BY <2>1 DEF Tracked_Inv
  <2>4. QED
    BY <2>1, <2>2, <2>3, EmptyTracked
<1>6. QED
  BY <1>2, <1>3, <1>4, <1>5 DEF EngineStage

LEMMA TrackedStep ==
  ASSUME Reliable, IInv, Tracked_Inv, [Next]_vars
  PROVE  Tracked_Inv'
<1>1. CASE Boot
  <2>1. UNCHANGED <<rounds, disk, live, answers>> /\ N' = N
    BY <1>1 DEF Boot, workerVars, N
  <2>2. CASE NeedsCheckpoint
    <3>1. pc' = "checkpoint"
      BY <1>1, <2>2 DEF Boot
    <3>2. CASE N > disk.lcr
      BY <2>1, <3>1, <3>2, EmptyTracked DEF Tracked_Inv
    <3>3. CASE disk.phase = "unset"
      <4>1. disk.active = NoJob
        BY <3>3 DEF IInv, Coherent, Active_Inv, ActiveOK, Reviewing
      <4>2. QED
        BY <2>1, <3>1, <4>1, NoneLive, EmptyTracked
    <3>4. QED
      BY <2>2, <3>2, <3>3 DEF NeedsCheckpoint, N
  <2>3. CASE ~NeedsCheckpoint
    <3>1. pc' = "resume" /\ mem' = LoadRuntime
      BY <1>1, <2>3 DEF Boot
    <3>2. mem'.active = disk.active
      BY <2>3, <3>1 DEF LoadRuntime, IInv, TypeOK, States
    <3>3. QED
      BY <2>1, <3>1, <3>2 DEF Tracked_Inv, Committing
  <2>4. QED
    BY <2>2, <2>3
<1>2. CASE EngineTick
  BY <1>2, TickTrackedStep
<1>3. CASE EngineStage
  BY <1>3, StageTrackedStep
<1>4. CASE Crash \/ (\E id \in CommandIds, kind \in {"stop", "resume"} : IssueCommand(id, kind))
           \/ VetoElapses \/ UNCHANGED vars
  <2>1. UNCHANGED <<rounds, disk, live, answers>> /\ (pc' = "down" \/ (pc' = pc /\ mem' = mem))
    BY <1>4 DEF Crash, IssueCommand, VetoElapses, vars, workerVars
  <2>2. QED
    BY <2>1, SameTracked
<1>5. CASE WorkerAnswers
  <2>1. PICK j \in live, code \in Codes : /\ live' = live \ {j}
                                          /\ answers' = answers \cup {[job |-> j, code |-> code]}
    BY <1>5 DEF WorkerAnswers
  <2>2. UNCHANGED <<rounds, disk, mem, pc>> /\ N' = N
    BY <1>5 DEF WorkerAnswers, N
  <2>3. QED
    BY <2>1, <2>2 DEF Tracked_Inv
<1>6. QED
  BY <1>1, <1>2, <1>3, <1>4, <1>5 DEF Next, Environment

\* Acknowledgements are of stops that are saved, or rejections.
LEMMA AckedStep ==
  ASSUME IInv, Acked_Inv, [Next]_vars
  PROVE  Acked_Inv'
<1>1. disk.phase = "STOPPED" => disk'.phase = "STOPPED"
  BY StopStep
<1>2. CASE EngineTick
  <2>1. Tick
    BY <1>2
       DEF EngineTick, ApplyStop, ApplyResume, TickWait, TickTerminal, FinishCheckpoint,
           LeaveNoProgress, PauseStart, StartAttempt, AttemptsUsedUp, PollRaises,
           DeadlinePassed, ReviewFailed, PauseBetween, HandToB, ReduceRound, PollReview,
           TickNoCommand
  <2>2. (\E a \in acks' : a.outcome = "STOPPED") => \E a \in acks : a.outcome = "STOPPED"
    BY <2>1 DEF Tick, RejectStale
  <2>3. pc' = "acknowledge" /\ ackFor'.outcome = "STOPPED" => disk'.phase = "STOPPED"
    <3>1. CASE \E c \in cmds : ApplyStop(c)
      BY <3>1 DEF ApplyStop
    <3>2. CASE \E c \in cmds : ApplyResume(c)
      BY <3>2 DEF ApplyResume
    <3>3. QED
      BY <1>2, <3>1, <3>2
         DEF EngineTick, TickWait, TickTerminal, FinishCheckpoint, LeaveNoProgress, PauseStart,
             StartAttempt, AttemptsUsedUp, PollRaises, DeadlinePassed, ReviewFailed,
             PauseBetween, HandToB, ReduceRound, Save, After
  <2>4. QED
    BY <1>1, <2>2, <2>3 DEF Acked_Inv
<1>3. CASE EngineStage
  <2>1. acks' = acks \/ (pc = "acknowledge" /\ acks' = acks \cup {ackFor})
    BY <1>3
       DEF EngineStage, ResumeActive, ResumeCheckpoint, Acknowledge, Submit, CommitRound,
           WriteRoundStatus, CheckpointEvent, SaveCheckpoint, Exit
  <2>2. pc' # "acknowledge"
    BY <1>3
       DEF EngineStage, ResumeActive, ResumeCheckpoint, Acknowledge, Submit, CommitRound,
           WriteRoundStatus, CheckpointEvent, SaveCheckpoint, Exit, Save, After
  <2>3. QED
    BY <1>1, <2>1, <2>2 DEF Acked_Inv
<1>4. CASE Boot \/ Environment \/ UNCHANGED vars
  <2>1. acks' = acks /\ (pc' # "acknowledge" \/ (pc' = pc /\ ackFor' = ackFor))
    BY <1>4 DEF Boot, Environment, Crash, IssueCommand, VetoElapses, WorkerAnswers, vars
  <2>2. QED
    BY <1>1, <2>1 DEF Acked_Inv
<1>5. QED
  BY <1>2, <1>3, <1>4 DEF Next

\* Whenever a stop is acknowledged it is in state.json and stays there, and no job of
\* the session is left at a worker, provided that workers confirm cancellations and that
\* no call fails after it took effect (_stop, resume, Control.acknowledge).
THEOREM AckedStopsHold ==
  ASSUME Reliable
  PROVE  Spec => []AckedStopHolds
<1>1. Init => Tracked_Inv /\ Acked_Inv
  BY DEF Init, Tracked_Inv, Acked_Inv, N, Bare, Committing
<1>2. IInv /\ Tracked_Inv /\ Acked_Inv /\ [Next]_vars => (Tracked_Inv /\ Acked_Inv)'
  BY TrackedStep, AckedStep
<1>3. IInv /\ Tracked_Inv /\ Acked_Inv => AckedStopHolds
  <2>1. SUFFICES ASSUME IInv, Tracked_Inv, Acked_Inv, disk.phase = "STOPPED"
                 PROVE  live = {}
    BY DEF AckedStopHolds, Acked_Inv
  <2>2. disk.active = NoJob
    BY <2>1 DEF IInv, Coherent, Active_Inv, ActiveOK, Reviewing
  <2>3. QED
    BY <2>1, <2>2, NoneLive
<1>4. QED
  BY <1>1, <1>2, <1>3, Invariant, PTL DEF Spec

-----------------------------------------------------------------------------
(* The engine is a client of the contract of ReviewJobs.                    *)

\* A cancellation, confirmed or not, takes at most its own job back.
LEMMA CancelRefines ==
  ASSUME NEW j, CancelConfirmed(j) \/ CancelUnconfirmed, UNCHANGED <<submitted, answers>>
  PROVE  [Contract!Next]_(Contract!vars)
<1>1. CASE UNCHANGED live
  BY <1>1 DEF Contract!vars
<1>2. CASE live' = live \ {j} /\ j \in live
  BY <1>2 DEF Contract!Next, Contract!Withdraw
<1>3. QED
  BY <1>1, <1>2 DEF CancelConfirmed, CancelUnconfirmed

\* submit publishes a job that was never published, or has no effect.
LEMMA SubmitRefines == ASSUME IInv, Submit PROVE [Contract!Next]_(Contract!vars)
<1>1. mem.active \notin submitted /\ UNCHANGED answers
  BY DEF Submit, IInv, Coherent, Submitted_Inv
<1>2. CASE submitted' = submitted \cup {mem.active} /\ live' = live \cup {mem.active}
  <2>1. Contract!Publish(mem.active)
    BY <1>1, <1>2 DEF Contract!Publish
  <2>2. QED
    BY <1>1, <1>2, <2>1 DEF Contract!Next
<1>3. CASE UNCHANGED <<submitted, live>>
  BY <1>1, <1>3 DEF Contract!vars
<1>4. QED
  BY <1>2, <1>3 DEF Submit

LEMMA AnswerRefines == ASSUME WorkerAnswers PROVE [Contract!Next]_(Contract!vars)
<1>1. PICK j \in live, code \in Codes : /\ live' = live \ {j}
                                        /\ answers' = answers \cup {[job |-> j, code |-> code]}
  BY DEF WorkerAnswers
<1>2. Contract!Answer(j, code)
  BY <1>1 DEF Contract!Answer, WorkerAnswers
<1>3. QED
  BY <1>1, <1>2 DEF Contract!Next

\* Every step maps to a step of the contract or to none.
LEMMA NextRefines == IInv /\ [Next]_vars => [Contract!Next]_(Contract!vars)
<1> SUFFICES ASSUME IInv, [Next]_vars PROVE [Contract!Next]_(Contract!vars)
  OBVIOUS
<1>1. CASE UNCHANGED workerVars
  BY <1>1 DEF workerVars, Contract!vars
<1>2. CASE ResumeActive \/ DeadlinePassed \/ \E c \in cmds : ApplyStop(c)
  <2>1. CancelConfirmed(mem.active) \/ CancelUnconfirmed
    BY <1>2 DEF ResumeActive, DeadlinePassed, ApplyStop
  <2>2. UNCHANGED <<submitted, answers>>
    BY <1>2 DEF ResumeActive, DeadlinePassed, ApplyStop
  <2>3. QED
    BY <2>1, <2>2, CancelRefines
<1>3. CASE Submit \/ WorkerAnswers
  BY <1>3, SubmitRefines, AnswerRefines
<1>4. CASE EngineTick
  BY <1>1, <1>2, <1>4
     DEF EngineTick, ApplyResume, TickWait, TickTerminal, FinishCheckpoint, LeaveNoProgress,
         PauseStart, StartAttempt, AttemptsUsedUp, PollRaises, ReviewFailed, PauseBetween,
         HandToB, ReduceRound
<1>5. CASE EngineStage
  BY <1>1, <1>2, <1>3, <1>5
     DEF EngineStage, ResumeCheckpoint, Acknowledge, CommitRound, WriteRoundStatus,
         CheckpointEvent, SaveCheckpoint, Exit
<1>6. CASE Boot \/ Environment \/ UNCHANGED vars
  BY <1>1, <1>3, <1>6 DEF Boot, Environment, Crash, IssueCommand, VetoElapses, vars, workerVars
<1>7. QED
  BY <1>4, <1>5, <1>6 DEF Next

\* The engine asks of the workers no more than the contract gives: a job id is used
\* once, so an answer under it can only be that job's (_job, _start_attempt, submit).
THEOREM EngineUsesContract == Spec => UsesContract
<1>1. Init => Contract!Init
  BY DEF Init, Contract!Init
<1>2. QED
  BY <1>1, Invariant, NextRefines, PTL DEF Spec, UsesContract, Contract!Spec

-----------------------------------------------------------------------------
(* The engine keeps the history of RoundHistory.                            *)

\* A pair of turns that is about to be committed was asked for.
Asked_Inv == pc = "commit" => mem.active \in submitted

LEMMA AskedStep ==
  ASSUME IInv, Asked_Inv, [Next]_vars
  PROVE  Asked_Inv'
<1>1. CASE EngineTick
  <2>1. SUFFICES ASSUME pc' = "commit" PROVE mem'.active \in submitted'
    BY DEF Asked_Inv
  <2>2. ReduceRound /\ UNCHANGED mem
    BY <1>1, <2>1
       DEF EngineTick, ApplyStop, ApplyResume, TickWait, TickTerminal, FinishCheckpoint,
           LeaveNoProgress, PauseStart, StartAttempt, AttemptsUsedUp, PollRaises,
           DeadlinePassed, ReviewFailed, PauseBetween, HandToB, ReduceRound, Save, After
  <2>3. [job |-> mem.active, code |-> "ok"] \in answers
    BY <2>2 DEF ReduceRound, Answered
  <2>4. mem.active \in submitted
    BY <2>3 DEF IInv, TypeOK
  <2>5. QED
    BY <2>2, <2>4 DEF ReduceRound, workerVars
<1>2. CASE EngineStage
  BY <1>2
     DEF EngineStage, ResumeActive, ResumeCheckpoint, Acknowledge, Submit, CommitRound,
         WriteRoundStatus, CheckpointEvent, SaveCheckpoint, Exit, Save, After, Asked_Inv
<1>3. CASE Boot \/ Environment \/ UNCHANGED vars
  BY <1>3
     DEF Boot, Environment, Crash, IssueCommand, VetoElapses, WorkerAnswers, vars, workerVars,
         Asked_Inv
<1>4. QED
  BY <1>1, <1>2, <1>3 DEF Next

\* A job is for the round after the last one, a commit is of a round that was asked
\* for, and no other step touches rounds or jobs.
LEMMA HistoryStep ==
  IInv /\ Asked_Inv /\ [Next]_vars => [History!Next]_<<Len(rounds), submitted, FALSE>>
<1> SUFFICES ASSUME IInv, Asked_Inv, [Next]_vars
             PROVE  [History!Next]_<<Len(rounds), submitted, FALSE>>
  OBVIOUS
<1>1. CASE UNCHANGED <<rounds, submitted>>
  BY <1>1
<1>2. CASE Submit
  <2>1. pc = "submit" /\ rounds' = rounds
    BY <1>2 DEF Submit
  <2>2. mem.phase \in Reviewing
    BY <2>1 DEF IInv, Coherent, Active_Inv
  <2>3. mem.active.round = Len(rounds) + 1
    BY <2>1, <2>2, AtRest, ReviewingFacts DEF N, ActiveOK, Job
  <2>4. CASE submitted' = submitted \cup {mem.active}
    <3>1. History!Submit(mem.active) /\ mem.active \in submitted'
      BY <2>1, <2>3, <2>4 DEF History!Submit
    <3>2. QED
      BY <3>1 DEF History!Next
  <2>5. QED
    BY <1>1, <1>2, <2>1, <2>4 DEF Submit
<1>3. CASE CommitRound
  <2>1. CASE UNCHANGED rounds
    BY <1>1, <1>3, <2>1 DEF CommitRound, workerVars
  <2>2. CASE \E r \in Results : rounds' = Append(rounds, r)
    <3>1. Len(rounds') = Len(rounds) + 1 /\ submitted' = submitted /\ pc = "commit"
      BY <1>3, <2>2 DEF CommitRound, workerVars, IInv, TypeOK
    <3>2. mem.phase \in Reviewing
      BY <3>1 DEF IInv, Coherent, Active_Inv
    <3>3. mem.active \in submitted /\ mem.active.round = Len(rounds) + 1
      BY <3>1, <3>2, AtRest, ReviewingFacts DEF Asked_Inv, N, ActiveOK, Job
    <3>4. History!Commit
      BY <3>1, <3>3 DEF History!Commit
    <3>5. QED
      BY <3>4 DEF History!Next
  <2>3. QED
    BY <1>3, <2>1, <2>2 DEF CommitRound
<1>4. CASE ~Submit /\ ~CommitRound
  <2>1. UNCHANGED <<rounds, submitted>>
    BY <1>4
       DEF Next, Boot, EngineTick, ApplyStop, ApplyResume, TickWait, TickTerminal,
           FinishCheckpoint, LeaveNoProgress, PauseStart, StartAttempt, AttemptsUsedUp,
           PollRaises, DeadlinePassed, ReviewFailed, PauseBetween, HandToB, ReduceRound,
           PollReview, TickNoCommand, EngineStage, ResumeActive, ResumeCheckpoint, Acknowledge,
           WriteRoundStatus, CheckpointEvent, SaveCheckpoint, Exit, Environment, Crash,
           IssueCommand, VetoElapses, WorkerAnswers, vars, workerVars
  <2>2. QED
    BY <1>1, <2>1
<1>5. QED
  BY <1>2, <1>3, <1>4

\* The engine reviews only the round after the committed ones and commits only what it
\* has had reviewed, so the history it relies on is one the store keeps
\* (_load_runtime, _start_attempt, commit_round).
THEOREM EngineUsesHistory == Spec => UsesHistory
<1>1. Init => History!Init /\ Asked_Inv
  BY DEF Init, History!Init, Asked_Inv
<1>2. IInv /\ Asked_Inv /\ [Next]_vars => Asked_Inv'
  BY AskedStep
<1>3. QED
  BY <1>1, <1>2, Invariant, HistoryStep, PTL DEF Spec, UsesHistory, History!Spec

-----------------------------------------------------------------------------
(* No stop is missed.                                                       *)

\* state.json is one round behind at most, and no request that waits has been passed,
\* nor is about to be by the job at hand.
Missed_Inv ==
  /\ N <= disk.lcr + 1
  /\ \A c \in Pending :
       /\ \A j \in submitted : j.round <= c.round + 1
       /\ pc = "submit" => mem.active.round <= c.round + 1

\* A tick leaves no request waiting that names another round than the last one.
LEMMA TickMissed ==
  ASSUME IInv, Grants_Inv, Missed_Inv, EngineTick, [Next]_vars
  PROVE  Missed_Inv'
<1>1. Tick
  BY DEF EngineTick, ApplyStop, ApplyResume, TickWait, TickTerminal, FinishCheckpoint,
         LeaveNoProgress, PauseStart, StartAttempt, AttemptsUsedUp, PollRaises,
         DeadlinePassed, ReviewFailed, PauseBetween, HandToB, ReduceRound, PollReview,
         TickNoCommand
<1>2. UNCHANGED <<rounds, submitted>>
  BY DEF EngineTick, ApplyStop, ApplyResume, TickWait, TickTerminal, FinishCheckpoint,
         LeaveNoProgress, PauseStart, StartAttempt, AttemptsUsedUp, PollRaises,
         DeadlinePassed, ReviewFailed, PauseBetween, HandToB, ReduceRound, PollReview,
         TickNoCommand, workerVars
<1>3. disk.lcr = N /\ mem.lcr = N /\ N \in Nat /\ pc \in {"resume", "idle"}
  BY <1>1, AtRest DEF Tick, Ticking, Grants_Inv
<1>4. \A c \in Pending' : c \in Pending /\ c.round = N
  <2>1. cmds' = cmds /\ acks \subseteq acks'
    BY <1>1 DEF Tick, RejectStale
  <2> DEFINE refused(c) == [id |-> c.id, outcome |-> "rejected_stale_round"]
  <2>2. acks' = acks \cup {refused(c) : c \in Stale}
    BY <1>1 DEF Tick, RejectStale
  <2>3. \A c \in Stale : \E a \in acks' : a.id = c.id
    <3>1. \A c : refused(c).id = c.id
      OBVIOUS
    <3>2. \A c \in Stale : refused(c) \in acks'
      <4> HIDE DEF refused
      <4> QED
        BY <2>2
    <3>3. QED
      BY <3>1, <3>2
  <2>4. \A c \in Pending' : c \in Pending /\ c \notin Stale
    BY <2>1, <2>3 DEF Pending, Acked
  <2>5. QED
    BY <1>3, <2>4 DEF Stale, Delivered
<1>5. pc' = "submit" => mem'.active.round = N + 1
  <2>1. ASSUME pc' = "submit" PROVE StartAttempt \/ HandToB
    BY <2>1, <1>3
       DEF EngineTick, ApplyStop, ApplyResume, TickWait, TickTerminal, FinishCheckpoint,
           LeaveNoProgress, PauseStart, StartAttempt, AttemptsUsedUp, PollRaises,
           DeadlinePassed, ReviewFailed, PauseBetween, HandToB, ReduceRound, Save, After
  <2>2. mem \in States /\ Entitled(mem) /\ ActiveOK(mem)
    BY <1>3, AtRest
  <2>3. CASE StartAttempt
    <3>1. mem.lcr < MaxRounds
      BY <2>2, <2>3 DEF StartAttempt, Entitled, AtWork
    <3>2. mem'.active = Job(mem, "A", mem.attempts[mem.lcr + 1] + 1)
      BY <2>2, <2>3, <3>1, BegunFields DEF StartAttempt
    <3>3. QED
      BY <1>3, <3>2 DEF Job
  <2>4. CASE HandToB
    <3>1. mem.phase \in Reviewing
      BY <2>4 DEF HandToB, PollReview
    <3>2. mem.lcr < MaxRounds /\ mem.active.attempt \in Nat
      BY <1>3, <2>2, <3>1, ReviewingFacts DEF Job, States
    <3>3. mem'.active = Job(mem, "B", mem.active.attempt)
      BY <2>2, <2>4, <3>2, HandedFields DEF HandToB
    <3>4. QED
      BY <1>3, <3>3 DEF Job
  <2>5. QED
    BY <2>1, <2>3, <2>4
<1>6. N' <= disk'.lcr + 1
  <2>1. disk' = disk \/ disk' = mem'
    BY DEF EngineTick, ApplyStop, ApplyResume, TickWait, TickTerminal, FinishCheckpoint,
           LeaveNoProgress, PauseStart, StartAttempt, AttemptsUsedUp, PollRaises,
           DeadlinePassed, ReviewFailed, PauseBetween, HandToB, ReduceRound, PollReview,
           TickNoCommand, Save
  <2>2. pc' \in {"resume", "idle", "acknowledge", "submit"} => disk'.lcr = N'
    BY NumberSaved
  <2>3. N' = N /\ mem'.lcr = N
    <3>1. \/ mem' \in {mem, Stopped(mem), Granted(mem), CheckpointVerdict(mem), Retry(mem),
                       Begun(mem), Handed(mem), [mem EXCEPT !.phase = "READY"]}
          \/ \E reason \in Pauses : mem' = Paused(mem, reason)
          \/ \E code \in Errors : mem' = TerminalError(mem, code)
      BY DEF EngineTick, ApplyStop, ApplyResume, TickWait, TickTerminal, FinishCheckpoint,
             LeaveNoProgress, PauseStart, StartAttempt, AttemptsUsedUp, PollRaises,
             DeadlinePassed, ReviewFailed, PauseBetween, HandToB, ReduceRound, Save, Pauses, Errors
    <3>2. mem \in States
      BY DEF IInv, TypeOK
    <3>3. mem'.lcr = mem.lcr
      <4>1. CheckpointVerdict(mem).lcr = mem.lcr /\ [mem EXCEPT !.phase = "READY"].lcr = mem.lcr
        BY <3>2 DEF CheckpointVerdict, States
      <4>2. Begun(mem).lcr = mem.lcr /\ Handed(mem).lcr = mem.lcr
        BY <3>2 DEF Begun, Handed, States
      <4>3. Granted(mem).lcr = mem.lcr
        BY <1>3, <3>2, GrantedFields DEF IInv, Coherent, Rounds_Inv
      <4>4. Stopped(mem).lcr = mem.lcr /\ Retry(mem).lcr = mem.lcr
        BY <3>2, StoppedFields, RetryFields
      <4>5. /\ \A reason \in Pauses : Paused(mem, reason).lcr = mem.lcr
            /\ \A code \in Errors : TerminalError(mem, code).lcr = mem.lcr
        BY <3>2, PausedFields, TerminalErrorFields
      <4>6. CASE mem' \in {mem, Stopped(mem), Granted(mem), CheckpointVerdict(mem), Retry(mem),
                           Begun(mem), Handed(mem), [mem EXCEPT !.phase = "READY"]}
        BY <4>1, <4>2, <4>3, <4>4, <4>6
      <4>7. QED
        BY <3>1, <4>5, <4>6
    <3>4. QED
      BY <1>2, <1>3, <3>3 DEF N
  <2>4. QED
    BY <1>3, <2>1, <2>3
<1>7. \A j \in submitted : j.round <= N + 1
  BY DEF IInv, Coherent, Submitted_Inv
<1>8. QED
  BY <1>2, <1>3, <1>4, <1>5, <1>6, <1>7 DEF Missed_Inv

\* The other steps publish at most the job at hand and bring no other to hand.
LEMMA RestMissed ==
  ASSUME IInv, Grants_Inv, Missed_Inv, ~EngineTick, [Next]_vars
  PROVE  Missed_Inv'
<1>1. CASE Submit
  <2>1. /\ pc = "submit" /\ submitted' \subseteq submitted \cup {mem.active}
        /\ UNCHANGED <<rounds, cmds, acks>> /\ pc' # "submit"
        /\ disk' = disk \/ (disk' = mem' /\ mem' = Retry(mem))
    BY <1>1 DEF Submit, Save, After
  <2>2. Pending' = Pending /\ N' = N
    BY <2>1 DEF Pending, Acked, N
  <2>3. N <= disk'.lcr + 1
    BY <2>1, AtRest, RetryFields DEF Missed_Inv
  <2>4. QED
    BY <2>1, <2>2, <2>3 DEF Missed_Inv
<1>2. CASE \E id \in CommandIds, kind \in {"stop", "resume"} : IssueCommand(id, kind)
  <2>1. PICK id \in CommandIds, kind \in {"stop", "resume"} : IssueCommand(id, kind)
    BY <1>2
  <2>2. /\ cmds' = cmds \cup {[id |-> id, kind |-> kind, round |-> disk.lcr]}
        /\ UNCHANGED <<rounds, disk, acks, pc, mem, submitted>>
    BY <2>1 DEF IssueCommand, workerVars
  <2>3. \A c \in Pending' : c \in Pending \/ c.round = disk.lcr
    BY <2>2 DEF Pending, Acked
  <2>4. \A j \in submitted : j.round <= disk.lcr + 1
    <3>1. \A j \in submitted : j.round \in Nat
      BY ConstantsAssumption DEF IInv, TypeOK, Jobs, Rounds
    <3>2. N \in Nat /\ disk.lcr \in Nat /\ disk.lcr <= N /\ N <= disk.lcr + 1
      BY DEF IInv, TypeOK, States, Coherent, Rounds_Inv, N, Missed_Inv
    <3>3. QED
      BY <3>1, <3>2 DEF IInv, Coherent, Submitted_Inv
  <2>5. pc = "submit" => mem.active.round <= disk.lcr + 1
    <3>1. SUFFICES ASSUME pc = "submit" PROVE mem.active.round <= disk.lcr + 1
      OBVIOUS
    <3>2. mem.lcr = N /\ disk = mem /\ mem.phase \in Reviewing /\ N \in Nat
      BY <3>1, AtRest DEF IInv, Coherent, Active_Inv
    <3>3. QED
      BY <3>1, <3>2, ReviewingFacts DEF Job
  <2>6. N' = N
    BY <2>2 DEF N
  <2>7. QED
    BY <2>2, <2>3, <2>4, <2>5, <2>6 DEF Missed_Inv
<1>3. CASE ~Submit /\ ~(\E id \in CommandIds, kind \in {"stop", "resume"} : IssueCommand(id, kind))
  <2>1. /\ submitted' = submitted /\ cmds' = cmds /\ acks \subseteq acks'
        /\ pc' = "submit" => pc = "submit" /\ mem' = mem
    BY <1>3
       DEF Next, Boot, EngineStage, ResumeActive, ResumeCheckpoint, Acknowledge, CommitRound,
           WriteRoundStatus, CheckpointEvent, SaveCheckpoint, Exit, Save, After, Environment,
           Crash, VetoElapses, WorkerAnswers, vars, workerVars
  <2>2. Pending' \subseteq Pending
    BY <2>1 DEF Pending, Acked
  <2>3. N' <= disk'.lcr + 1
    <3>1. CASE UNCHANGED <<rounds, disk>>
      BY <3>1 DEF Missed_Inv, N
    <3>2. CASE CommitRound
      <4>1. pc = "commit" /\ disk = mem /\ mem.lcr = N /\ N \in Nat
        BY <3>2, AtRest DEF CommitRound, IInv, Coherent, Active_Inv
      <4>2. disk'.lcr = N /\ N' \in {N, N + 1}
        BY <3>2, <4>1, TerminalErrorFields DEF CommitRound, Save, IInv, TypeOK, N, Errors
      <4>3. QED
        BY <4>1, <4>2
    <3>3. CASE WriteRoundStatus
      <4>1. pc = "status" /\ N' = N /\ mem \in States /\ mem.lcr + 1 = N /\ N \in Nat
        BY <3>3 DEF WriteRoundStatus, IInv, TypeOK, Coherent, Rounds_Inv, N
      <4>2. disk'.lcr \in {N, mem.lcr}
        BY <3>3, <4>1, BareFields, TerminalErrorFields DEF WriteRoundStatus, Save, N, Errors
      <4>3. QED
        BY <4>1, <4>2
    <3>4. CASE ResumeActive
      <4>1. pc = "resume" /\ UNCHANGED rounds
        BY <3>4 DEF ResumeActive
      <4>2. mem \in States /\ mem.lcr = N /\ N \in Nat
        BY <4>1, AtRest
      <4>3. disk'.lcr = mem.lcr
        BY <3>4, <4>2, RetryFields, TerminalErrorFields DEF ResumeActive, Save, Errors
      <4>4. QED
        BY <4>1, <4>2, <4>3 DEF N
    <3>5. CASE SaveCheckpoint
      <4>1. pc = "saveCheckpoint" /\ UNCHANGED rounds /\ mem \in States
        BY <3>5 DEF SaveCheckpoint, IInv, TypeOK
      <4>2. mem.lcr = N /\ N \in Nat
        BY <4>1 DEF IInv, TypeOK, Coherent, Rounds_Inv, UpToDate, Committing, N
      <4>3. disk'.lcr = mem.lcr
        BY <3>5, <4>1 DEF SaveCheckpoint, Save, States
      <4>4. QED
        BY <4>1, <4>2, <4>3 DEF N
    <3>6. QED
      BY <1>3, <3>1, <3>2, <3>3, <3>4, <3>5
         DEF Next, Boot, EngineStage, ResumeCheckpoint, Acknowledge, CheckpointEvent, Exit,
             Environment, Crash, VetoElapses, WorkerAnswers, vars
  <2>4. QED
    BY <2>1, <2>2, <2>3 DEF Missed_Inv
<1>4. QED
  BY <1>1, <1>2, <1>3

\* Over crashes at any point of a commit, with any number of commands: a stop that waits
\* is applied or refused before a job of a further round is submitted (Control.poll at
\* the start of every tick, _load_runtime).
THEOREM StopsNotMissed == Spec => StopNotMissed
<1>1. Init => Missed_Inv
  BY DEF Init, Missed_Inv, N, Bare, Pending
<1>2. IInv /\ Grants_Inv /\ Missed_Inv /\ [Next]_vars => Missed_Inv'
  BY TickMissed, RestMissed
<1>3. Missed_Inv /\ [Next]_vars =>
        [\A c \in Pending, j \in submitted' \ submitted :
           c.kind = "stop" => j.round <= c.round + 1]_vars
  <2>1. SUFFICES ASSUME Missed_Inv, Next, NEW c \in Pending, NEW j \in submitted' \ submitted
                 PROVE  j.round <= c.round + 1
    OBVIOUS
  <2>2. pc = "submit" /\ j = mem.active
    BY <2>1
       DEF Next, Boot, EngineTick, ApplyStop, ApplyResume, TickWait, TickTerminal,
           FinishCheckpoint, LeaveNoProgress, PauseStart, StartAttempt, AttemptsUsedUp,
           PollRaises, DeadlinePassed, ReviewFailed, PauseBetween, HandToB, ReduceRound,
           PollReview, TickNoCommand, EngineStage, ResumeActive, ResumeCheckpoint, Acknowledge,
           Submit, CommitRound, WriteRoundStatus, CheckpointEvent, SaveCheckpoint, Exit,
           Environment, Crash, IssueCommand, VetoElapses, WorkerAnswers, workerVars
  <2>3. QED
    BY <2>1, <2>2 DEF Missed_Inv
<1>4. Init => Grants_Inv
  BY InitGrants
<1>5. IInv /\ Grants_Inv /\ [Next]_vars => Grants_Inv'
  BY GrantsStep
<1>6. QED
  BY <1>1, <1>2, <1>3, <1>4, <1>5, Invariant, PTL DEF Spec, StopNotMissed

=============================================================================
