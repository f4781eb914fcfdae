# Peer Reviewer in TLA+

Peer Reviewer lets two reviewers, A (Claude) and B (Codex), debate a document in
rounds. An engine process hands each of them a review job, commits what they say as
a round, leaves a human a window to veto, and goes on until both agree, the rounds
are used up, or somebody stops it. This directory holds a TLA+ model of that system,
TLC configurations that check it on small instances, and TLAPS proofs about it for
every instance. Line numbers refer to `src/peer_reviewer/` in the repository, `plan`
to `docs/superpowers/plans/2026-09-19-dual-reviewer.md`.

## The system

| part | state | operations | talks to |
|---|---|---|---|
| engine (`engine.py`) | `Engine.state`, saved as `runtime/state.json` | `resume`, `tick` | store, control, both worker clients |
| serve loop, session commands (`cli.py`) | the active-session marker, `report.md` | `_start`, `_serve`, `_write_report`, the commands of `main` | engine, store, control |
| session store (`store.py`) | round directories, events, `state.json` | `create`, `commit_round`, `recover`, `write_status`, `write_event` | file system |
| human control (`control.py`) | command requests and acknowledgements | `poll`, `reject`, `acknowledge` | engine, CLI |
| worker client and pool (`worker.py`) | none of its own | `submit`, `poll`, `cancel`, `limits` | mailbox |
| mailbox (`mailbox.py`) | inbox and outbox directories | `publish`, `receive` | worker and its client |
| worker (`worker.py`) | `running/`, `completed/`, the process's memory | `run_once` | mailbox, adapter |
| adapters (`adapters/`) | a child process, three threads, captured output | `run_cli`, `review`, `read_limits` | the reviewer's CLI, the provider |
| debate reducer (`debate.py`) | the debate state, pure | `reduce_round` | engine |
| turn protocol (`protocol.py`) | none, pure | `parse_turn` | engine, reducer |
| limit gate (`limits.py`) | none, pure | `decide_round_start` | engine |
| configuration, prompts | none | load, render | engine, CLI |
| deployment (`compose.yaml`, `docker/`) | one container per process | `restart: unless-stopped` | all |

Inside a process two things run concurrently: an adapter under the eyes of its worker,
and the threads with which `run_cli` serves the pipes of a reviewer's CLI. The rest of
what is hard is between processes and across their deaths:

- **Crashes.** Engine and workers die at any point and are restarted. Everything they
  know afterwards is in files, and one step of theirs is several durable writes
  (`engine.py:389`, `store.py:185-197`, `worker.py:146-171`). A power failure takes back
  what was not fsynced.
- **Late and lost answers.** A worker answers a job that has meanwhile timed out or
  been cancelled; a submission raises although it took effect.
- **Commands.** A human sends `stop` and `resume` at any time, naming the round that
  `state.json` shows just then; starts sessions and asks for reports while an engine runs.
- **Timeouts and retries.** Deadlines race answers; attempts come in groups of four; a
  human can grant another group.
- **Stale readings.** Limits are read one reviewer after the other, and decided by when
  the accounts may have changed; reset times are shown rounded.
- **Protocol sequences.** Proposals are closed, opposed, reopened and declared
  duplicates over many rounds by two reviewers who do not see each other's turn.

What makes each part correct:

- *engine*: no job is submitted twice or for a committed round; nothing is submitted
  before the veto window is over; limits on rounds and attempts hold; verdicts rest on
  what was committed; a stop holds and leaves no job behind; the session ends.
- *store*: whatever dies when, a reader finds whole rounds in an unbroken chain; a round
  once returned stays; no later commit or attempt stumbles over what a crash has left.
- *sessions root*: one active session, found by its marker until it has ended and not
  longer; no report claims what is not so.
- *worker*: one review per job; one answer per job; what is confirmed as cancelled
  stays so; everything is answered.
- *adapter*: the run ends, within its output limit, with all its processes when it was
  stopped; a turn is taken from a complete output only, a rate limit is not missed.
- *reducer*: an agreement is the only open version of its issue; no issue is lost;
  duplicates are settled with what they duplicate; consensus is everybody's about
  everything.
- *limit gate*: no review starts without quota of both accounts; a pause lasts until
  what caused it is over, and no pause lasts for ever.

`PROJECT.json` lists every component with its status, and under `hazards` every place
in the code where one of these could go wrong.

## The modules

```
   Sessions      start, serve, report and the marker of a sessions root
      |          (a session's engine is cut down to phases and saves)
   SessionEngine ---- uses ----> ReviewJobs <---- provides ---- ReviewWorker
      |          the engine, its commands        the worker, its mailbox
      |          and its clients                        |
      |-- keeps --> RoundHistory <-- keeps -- RoundStore   '-- CliProcess
      |                      commit and recovery on a disk      run_cli under the worker
      |-- Debate      what a committed round contains
      '-- LimitGate   when a review may start

   Sessions -- implements --> SessionTurns      RoundStore -- implements --> RoundLog
```

The modules are not composed into one state machine. Engine and worker meet at
`ReviewJobs`, a small abstract specification of what a worker promises about review
jobs. Each is shown to implement it by `INSTANCE ... WITH`, both by TLC
(`UsesContract`, `KeepsContract`) and by proof, the engine with its own view of the
worker as its environment. Engine and store meet at `RoundHistory`, in which a debate is
a number of committed rounds, only the next round is ever reviewed, and a round is
committed after its review. `SessionEngine` implements it with the jobs it publishes
(`UsesHistory`), `RoundStore` with the rounds on its disk and what power failures do to
them (`KeepsHistory`), so that the three writes of a commit in the one are, for what a
recovery makes of them, the file operations of the other. The store further promises
`RoundLog`, a log that only grows but for unsettled entries in a power failure
(`ImplementsLog`), and a sessions root `SessionTurns`: sessions start, end and follow one
another (`TakesTurns`). All of these are checked by TLC and proved. The other
lines name what the upper module leaves open: `SessionEngine` takes the gate's answer
and the outcome of a review for free choices.

### SessionEngine

A tick of the engine is an action; it is cut only where the code makes one durable
write after another, and `pc` names the write that comes next, so that `Crash` can fall
between any two. `mem` is `Engine.state`, `disk` is `runtime/state.json`; `Boot` is
`Engine.__init__` and `_load_runtime`; `ResumeActive` and `ResumeCheckpoint` are
`resume`; `pc = "idle"` is the loop of `_serve` between ticks and `"exit"` its end.

| code | actions |
|---|---|
| `_load_runtime`, `resume` | `Boot`, `ResumeActive`, `ResumeCheckpoint` |
| `Control.poll`, `_apply_commands`, `_stop` | `RejectStale` in every tick, `ApplyStop`, `ApplyResume`, `Acknowledge` |
| `_gate`, `_pause` | `PauseStart`, `PauseBetween` |
| `_start_attempt`, `submit` | `StartAttempt`, `AttemptsUsedUp`, `Submit` |
| `_poll_a`, `_poll_b`, `_failure` | `PollRaises`, `DeadlinePassed`, `ReviewFailed`, `HandToB`, `ReduceRound` |
| `_commit`, `commit_round` | `CommitRound` (the rename), `WriteRoundStatus`, `CheckpointEvent`, `SaveCheckpoint` |
| `_finish_checkpoint` | `FinishCheckpoint`, `LeaveNoProgress` |
| `_serve`, docker | `Boot`, `Exit`, `Crash` |
| `peer-reviewer stop`, `resume` | `IssueCommand` |

Choices that a reader of the code should know:

- `commit_round` itself replaces `state.json` by an object that holds only
  `last_completed_round`. The phase `"unset"` is that file, or none. What the engine
  writes next restores the rest; the counters of attempts are gone by then, which is
  harmless because the next round starts from zero.
- A deadline may have passed or not each time it is read, with one exception: the veto
  deadline, whose passing is recorded in `vetoOver`, because `VetoRespected` is about it.
- The gate is a free choice between going on and the two pauses.
- A round is its material result (`_material`). The model lets the first round end in
  no agreement, because `reduce_round` gives consensus only from the second round on
  (`Debate` shows it).
- A late answer, to a job nobody waits for, always says `"ok"`: any other would be
  ignored even if it were mistaken for another job's.
- `_serve` ticks once more when `resume` is what reached a terminal phase. Later stages
  of such a tick do not remember it, so `After` allows both.
- A deadline that has passed is one step, `DeadlinePassed`, although `engine.py:440-447`
  polls, finds nothing and then cancels. What an answer between the two leads to is
  reached here by the branches in which it comes just before or just after both.
- A cancellation and the save after it are one step: a crash between them leaves a job
  that is cancelled again by `resume`, which changes nothing.
- Receipts, stop, pause and error events, `status.md`, and the hash chain are left
  out: the engine writes them and never decides by them, or only to raise. A response
  whose identifiers do not match (`engine.py:449`, `481`) cannot come from this worker,
  and the branch `engine.py:532-537` cannot be reached; neither is modelled.

### RoundStore, RoundLog and RoundHistory

`commit_round`, `write_status` and `recover`, one action per file operation, with
`KillProcess` and `PowerFailure` between any two. A directory belongs to the attempt
that made it: it is first the attempt's staging directory and then a round's.
`nameKept` and `statusKept` hold what a power failure can leave of the names in
`rounds/` and of `state.json`; a file is torn while it is written, cached while its
own directory is not durable, and durable then.

| code | actions |
|---|---|
| `commit_round`: staging directory, three files, their fsyncs | `MakeStaging`, `OpenFile`, `WriteFile`, `SyncStaging` |
| the rename, the fsync of `rounds/` | `RenameRound`, `SyncRounds` |
| `write_status` of `commit_round`, its return, `recover` in `_commit` | `WriteRoundStatus`, `CommitReturns`, `RecoverCommitted` |
| `recover`, `_load_runtime` | `Boot`, `Recovers` |
| `_save`, `_start_attempt`, `submit` | `Save`, `SyncSave`, `BeginAttempt`, `Submit`, `AttemptFails` |

- What is assumed of the file system: changes of the names in `rounds/` reach the disk
  in order, as in a journal; everything else in any order; a rename is atomic; a file
  that was fsynced is still lost as long as the directory that names it is not durable.
- The engine is reduced to what it makes of the store: it recovers, counts an attempt in
  `state.json`, reviews, and commits or gives up.
- Committing the same bundle again (which the engine never does), grants, which give an
  attempt another identifier, contention for the lock, and the hash chain against damage
  from outside are left out.
- `relied` and `lost` are not in the code: what `recover` returned last, and whether a
  power failure has taken some of it back. `AttemptsFresh` is about the case without:
  `recover` believes a round that a killed process has renamed and not made durable
  (`store.py:194`, `222`), so a later power failure can still take that round back, and
  with it the attempts at it that were counted before; `state.json` is synced on its own,
  and attempts at the round are then made under identifiers used before. plan:369 says
  that history must not silently be rolled back ("nie wolno po cichu cofnąć historii").
  `NeverRefused` and
  `RecoversAlways` hold in that case as well: the session goes on from the older history.

In `RoundLog` entries are appended by number, and settled once no power failure takes
them away; a cut removes unsettled entries from the end. In `RoundHistory` a cut leaves
at most the next round reviewed, unless it breaks the history: that is, takes a round
which recovery had returned (`lost`). The engine, which sees no power failure, never
cuts.

### Sessions and SessionTurns

`start`, `serve` and `report` of `cli.py`, which meet in the marker, in `state.json` and
in `report.md`. `Decide`, `Create` and `Mark` are `_start` under the deployment's lock,
`Boot` to `Leave` are `_serve`, `ReadRounds` to `CliEvent` are `_write_report` when a human
asks for it (`report`, `resume` of a final session, `accept`). A phase is cut down to
what `cli.py` tells apart; `"exhausted"` is the `ERROR` a grant can end, `"absent"` a session
without `state.json`, `"bare"` the one `commit_round` writes.

- One engine: compose runs one container, so `engine.lock` is never contended. A CLI is
  exec'd in that container, so temporary files named by process id never collide.
- `serve` holds the deployment's lock for one step, `Leave`; starts hold it over three.
  The rename of a commit and the bare `state.json` are one step here (`RoundStore` has
  them apart), as are the check and the write of `write_event`, and `create`.
- `resume` and `stop` commands are the free choices `Grant` and `Stop`. A store that
  fails is left out, so that only a stop can follow a final phase.
- Time is the number of saves: `updated_at` differs exactly when a save lies between.
- In `SessionTurns` a session is new, active or ended. The marker makes it active, since
  `start` refuses another one from then on, and a final phase in `state.json` ends it.

### ReviewWorker and ReviewJobs

One action per durable write of `run_once`, `_run_review`, `_recover_interrupted` and
`_finish`. Mailbox files are named by hashes, so a scan may meet messages in any order.
An identifier of a cancellation contains its target. `Expire` and `NoticeCancel` are
the two ways the supervising loop asks an adapter to stop; `AdapterReturns` gives the
deadline precedence over a cancellation and that over the adapter's result. A
`BaseException` or an unserialisable result ends the process like a crash. What ends
the process by `MailboxConflict` is an action of its own and not counted as a crash.

In `ReviewJobs` a job is published, live, and then either answered or withdrawn; a job
withdrawn before anybody saw it is published without ever being live.

### CliProcess

`run_cli`: its loop (`Poll`, `Check`, `Join`, `Return`), the threads that read (`Read`, `Measure`,
`Extend`, `ReadEnd`) and write (`WriteInput`), the child with a helper process it may
start, and what `review` of both adapters makes of the result (`Claude`, `Codex`).

- Data are counted in units. The child reads and writes in any order, stops doing
  anything, and says at most one thing: a turn, or that a rate limit is reached.
- `thread.join(timeout=1)` is taken to be long enough for a thread that can go on; a
  thread that cannot, because a helper keeps the pipe open, is left to itself.
- `Codex` leaves its answer in a file, whose size `codex.py:148` checks as well; that
  file is left out. Which error a failed child is reported as beyond a rate limit
  (`shared.py:24-30`) is one outcome.
- `LimitsHeard` is about what Claude's CLI says on stdout, with any exit code. Runs flagged
  as timed out, cancelled or too large report that instead, and a helper may keep the
  report in the pipe; both are excepted.
- A helper stays in the child's process group and writes nothing. What a thread left to
  itself does after `run_cli` has returned reaches nobody, and the model ends there.
- A process group is killed only when a run is stopped. The helper of a CLI that ended by
  itself outlives it (`process.py:78`), and its worker confirms a cancellation that comes
  then; plan:472 wants the confirmation after the end of the whole group. `GroupGone`
  therefore speaks of stopped runs.

### Debate

`Turns(r)` are the turns `parse_turn` accepts from reviewer `r` against the state both
saw. `ReduceRound` merges a pair into the reducer's copy of the state and finds the
candidates (of the positions, which the properties do not mention, only the agreements
they come to are kept), `FinishRound` is its return, and `RaiseOnTurn` and `RaiseOnCircle` are the
errors that accepted turns still cause (`debate.py:173`, `105`). A version is its content
(its identifier is a hash of it); `text` stands for wording, anchors and arguments, which
decide nothing except whether two contents are equal. Every position other than
accepting or proposing is `Opposed`.

The depth-first search over duplicates (`_resolve_candidates`) is modelled as it runs,
though nobody sees it half done: `Search` is its loop, and each call of `resolve` is one
action, by what it finds: `ReturnSettled`, `ReturnUnresolved`, `RaiseOnCircle`,
`ReturnResolved` or `Follow` to the duplicate's target. A caller does nothing after a call
but pass its result on, so that all of them return in one step. The loop takes candidates
in any order; the code takes them sorted.

`DuplicatesSettled` compares that search with definitions of its own, `Circle` and
`Grounded`: a round that is kept has no circle, resolves no duplicate without its target,
and resolves everything that can be; a round given up in the search has a circle.

### LimitGate

`SessionEngine` leaves the gate's answer open; `LimitGate` has the gate itself, with a
clock and the two providers, and leaves out what the engine does between two reviews.
Times are relative to now: a window has the time until it is over, a reading its age
and what it showed when it was taken, a pause the time left; `Tick` moves all of them.

| code | definitions |
|---|---|
| `parse_claude_usage`, `_parse_reset`, `normalize_limit` | `Shown`, `Observe` |
| `WorkerPool.limits`, `WorkerClient._wait` | `ReadA`, `Decide` (A's reading, then B's), `Tick` up to `ReadTimeout`, `ReadFails` |
| `_required_sample_error`, `decide_round_start` | `Invalid`, `Blockers`, `Allow`, `PauseLow`, `PauseUnknown` |
| `tick` in a pause, `_poll_a` before B | `AskGate`, `AnswerA` |
| `_failure("rate_limit")`, `resume` | `RateLimited`, `AttemptLost` |
| providers | `Consumes`, `UsedElsewhere`, `Renew` |

- `since` and `blocking` are not in the code: how long ago a reviewer last had enough
  left, and the windows read as too low that are not over. The properties speak of them.
- A reading that fails, does not parse, is unverified or belongs to another account is
  `ReadFails`: all lead to the pause for unknown limits. `retry_after_seconds` is set by
  no adapter. With one clock no reading comes from the future.
- `RETRY_WAIT` is `"READY"` here: it ends by time alone and reads nothing.
- A window is renewed as soon as it is over. A provider that still shows an old one is a
  disturbance; its time of day is then read as tomorrow's (`limits.py:86`), which
  can make a low pause a day long.
- A disturbance is a reading that takes a tick or fails, use from outside, a late
  provider, a rate limit, or a lost attempt; `MaxFaults` bounds them together.

## What is checked

| run | shows | size |
|---|---|---|
| `engine_debate` | three rounds, two attempts, all faults, one crash anywhere: submissions are fresh, veto windows, limits and verdicts hold, final states stay, contract and history are used properly | 1.9 M states |
| `engine_commands` | two commands of either kind, two rounds, timeouts, one crash, with fairness: an acknowledged stop holds and leaves no job, groups of attempts are granted, final states stay, a stop is heeded or refused in time and for one reason, the session settles | 234 k |
| `engine_grant_twice` | refutes one sentence of the documentation (below) | |
| `worker_crashes` | two reviews, a limit read, their cancellations, up to two for one job, two crashes: one review and one answer per job, cancelled stays cancelled, the contract is kept, everything is answered | 226 k |
| `worker_jams` | a crash while a cancellation is answered jams the worker (below) | |
| `debate_rounds` | four rounds, four versions: agreements are alone, the search settles duplicates with what they duplicate, no issue is lost, a late issue blocks consensus | 37 k |
| `gate_rounds` | two accounts with two windows each, two disturbances, rounds without end: no review without quota, low pauses outlast what caused them and not by more than they must, every pause ends | 1.2 M |
| `gate_backoff` | refutes the backoff of unknown limits (below) | |
| `store_crashes` | two rounds, two attempts, three killed processes or power failures anywhere: recovery never fails, returned rounds stay, attempts are fresh, no commit is refused, log and history are implemented | 188 k |
| `cli_runs` | every way of a child to use its pipes, with a helper, a deadline and a cancellation: the limit holds, no turn from a cut output, no rate limit on Claude's stdout missed, nobody left after a stop, and it ends | 806 k |
| `sessions` | two sessions, two starts, a report and a death anywhere: sessions take turns, the marker kept and released, reports true | 559 k |
| `sessions_report` | a report written again ends the engine (below) | |

**Bounds.** `MaxRounds = 3` reaches repetition of a result (two rounds), the limit after
it and agreement in the last round. `MaxAttempts` is 4 in the code; 2 already has a
first, a last and a refused attempt. One engine crash is enough to lose the memory at
every stage, and the resulting process may meet every fault; the proofs hold for any
number. The command run has two rounds, so that a
command can be overtaken by a commit, and one attempt at each; two commands give stop
after stop, stop after resume, and two resumes. Two worker crashes interrupt a recovery.
In `Debate`, four versions of two issues over four rounds are enough to close, repropose
and oppose a closed version, and to close a circle of duplicates in a later round than
it was opened; of duplicates they give a pair and a circle of two. Longer chains, and
chains that meet, are left to the proof of `SearchSettles`.
In `LimitGate` a window has something left or nothing, so that the minimum is met
exactly; readings are valid only in the tick they are taken in, and one slow tick makes
A's reading stale while B is read; windows of two and three ticks overlap in
every way; the display is cut to two ticks; the five seconds of `Guard` are less than a
tick and hence 0; a day of five ticks is longer than the windows. Two disturbances hit
any points of a round, and two are what it takes for a window to be shown by its time of
day after that has passed: the provider is late by as much as the display is cut to. The
invariant and the two action properties are proved for any number and any values.
In `RoundStore` three crashes are a killed process that leaves a renamed round behind, a
power failure that takes it back after another process has built on it, and one more in
the recovery; two rounds are the one that is built on and the one that builds.
In `CliProcess` the input is larger than a pipe, so that the child and the writer can wait
for each other; a reader takes up to two units, and either stream alone can use up the
limit, so that both readers can measure the same room.
In `Sessions` two starts and two sessions let a start meet the end of another's session,
and three saves let a session work, end and be stopped while a report is on its way. It
has one round per session, as a second adds nothing to what `cli.py` tells apart.

**Deadlock** is not checked where the system stops: the engine after a final session
(its marker is gone), a debate after its last round, a worker or a store without
further messages or crashes, a run of a CLI that has returned.

**Fairness.** `restart: unless-stopped` in `compose.yaml` justifies fairness of `Boot`
and `Start`; the loops of `_serve` and of the worker never wait without a bound, hence
fairness of a tick, of its stages and of `RunOnce`; the veto clock runs; workers answer
by their jobs' deadlines, and adapters stop by their own timeout. A command is
never sent by fairness, the gate never opens by fairness, and crashes are
bounded. `Settles` therefore says: the session ends or is paused by the gate again and
again. That a pause of the gate ends in a review is `PausesEnd`, under fairness of the
gate's own steps (`_serve` ticks on, and a reading comes or times out), of the end of
a review (its deadline), and of the clock, with finitely many disturbances.
In `Sessions` the engine and the start that holds the lock go on; `Leave` is strongly
fair, because other starts may take the lock again and again and flock serves those who wait. In `CliProcess`
threads run and the child goes on, unless it hangs: only then is the deadline
counted on.

**Conditions.** `AckedStopHolds` is checked and proved without unconfirmed cancellations
and transport errors. With them the engine ends in `ERROR` and forgets a job that may
still be running; a stop that arrives later is acknowledged as `STOPPED` all the same
(`engine.py:236`), which is the one way out of a final state that `FinalHolds` allows.
`FinalHolds` speaks of final states with all committed rounds: a store that fails after
the rename leaves an `ERROR` with one round more than it says, and a restart takes that
up. The documentation can be read both ways here: plan:226 has `STOPPED / ERROR -> resume`
lead to the last completed round being restored ("odtworzenie ostatniej ukończonej
rundy"), which taken alone could mean that the debate goes on, and `docs/operations.md:126`
says that a terminal session only rebuilds views and the report. The code does the latter,
with two exceptions: the `ERROR` of used-up attempts, which a `resume` command ends
(`engine.py:257`), and a pending stop (below).
`StopHeeded` excepts a stop that a commit has overtaken (below); its liveness half is
checked with timeouts only, its safety half proved for all faults.
`GroupsGranted` allows one more group for each crash, because of the first divergence
below. `LowPausePrompt` allows the pause for a day that follows from `limits.py:86`.
`AllAnswered` excepts a worker that is jammed (below), and
`MarkerReleased` a session whose report is refused (below).

### Where code and documentation differ

Shown by a run:

- `engine_grant_twice`: after a crash between saving a retry grant (`engine.py:271`) and
  acknowledging it, the same command can grant a second group; plan:528 says commands
  are processed idempotently.
- `worker_jams`: a cancellation has no running record. After a crash between
  publishing its answer and recording it (`worker.py:146`), the restarted worker takes
  it again, publishes another answer and dies of `MailboxConflict`, at every start.
  `tests/integration/test_mailbox.py:76` states the reconciliation for jobs.
- `gate_backoff`: `decide_round_start` doubles its wait with `unknown_attempt`
  (`limits.py:278`), which nothing sets, so that an unknown limit is read again every 60
  seconds; plan:213 has 60, 120, 240, at most 900, and `docs/operations.md:120` a
  bounded backoff.
- `sessions_report`: the event of a report is named by its text and holds `updated_at`
  (`cli.py:67`). A report of the same text after another save, such as a grant that leads
  to the same `ERROR`, raises `RoundConflict` (`store.py:277`) before the marker is removed
  (`cli.py:230`), at every start; plan:154 calls the report a reproducible view, and
  `docs/operations.md:126` says that a terminal session only rebuilds it.

Seen while modelling; the models have the code's behaviour, and no run is about it:

- A stop for a round that was committed between the command and the next tick is
  rejected as stale (`control.py:137`, which `tests/test_control.py:59` expects) and the
  debate goes on; plan:504 makes a late veto a stop at the nearest safe boundary.
  `StopHeeded` says how far this goes: no stop is refused for any other reason, and while
  one waits no job is submitted beyond the round after the one it names, so that the human
  hears of it before the debate is a further round on.
- A stop during a review cancels the job and gives up the round (`engine.py:229`);
  plan:234 says the round is written first.
- A stop that is pending when a finished session is served once more turns its
  `CONSENSUS` into `STOPPED` (`engine.py:524`).
- A recovered round can be taken back by a power failure (RoundStore, above), and a
  helper of a CLI that ended by itself lives on (CliProcess, above).

Every property of a passing run has a mutant in `PROJECT.json`: a plausible bug in the
modelled code with which TLC refutes it.

## What is proved

TLAPS checks these for every value of the constants, under the named assumptions
`ConstantsAssumption`, `KindsAssumption`, `BoundsAssumption`, `TimesAssumption` and
`SizesAssumption` (which say little more than that bounds, times and sizes are numbers
and kinds of messages and names are distinct).

**SessionEngine_proofs.** `TypeOK`, `SubmissionsFresh`, `VetoRespected`, `WithinBudget`,
`VerdictJustified`, `StopFinal`, `FinalHolds`, `GroupsGranted`, `StopNotMissed`,
`UsesContract` and `UsesHistory`. None of them is inductive: that a
submission is fresh rests on the attempt counter on disk covering all that was ever
published for its round, this on what state.json can say at each stage of a commit, and
the veto window on where memory and disk disagree. `IInv` has these as named parts:
`Rounds_Inv` (what memory and disk know of the committed rounds at each stage),
`Entitled_Inv` (whoever is at work on a round may be), `Active_Inv` (the active job is
the current attempt's), `Submitted_Inv` (counters cover the published jobs),
`Budget_Inv`, `Verdict_Inv`, `Stop_Inv`. Most actions either save a state that keeps
its rights (`SaveCoherent`) or leave the state alone (`QuietCoherent`); the proof has
one lemma per remaining action. `AckedStopHolds` is proved from the assumption
`Reliable` on the faults, with `Tracked_Inv` (the only job a worker can have is the one
`state.json` names, and not even that once it is answered) and `Acked_Inv` (a stop is
saved before it is acknowledged).
Four theorems add an invariant of their own to `IInv`. `FinalHolds` rests on
`Final_Inv`: while the disk has a final state with all its rounds, the memory of a
process is that state and the process is at no stage that commits or submits.
`GroupsGranted` rests on `Grants_Inv`: the grants in memory and on disk are paid for by
resumes that are acknowledged, by crashes, and by the one resume that is being
acknowledged. Counting resumes alone is not inductive, for it does not say that the next
one is paid for when it is applied. `UsesHistory` needs `Asked_Inv`: a pair of turns that is
about to be committed was asked for. `StopNotMissed`, the safety half of `StopHeeded`,
rests on `Missed_Inv`: `state.json` is at most one round behind, every tick that goes on
leaves only commands of the last round waiting, and a job about to be submitted is for no
round past the next one of any of them.

**RoundStore_proofs.** `TypeOK`, `RecoversAlways`, `ReturnedStays`, `AttemptsFresh`,
`NeverRefused`, `ImplementsLog` and `KeepsHistory`. In every naming a power failure can leave, the rounds
are a durable and unbroken part of those a reader finds now (`DiskInv`). `EngineInv` says
what the engine knows at each stage. An attempt that has a directory is counted by
whatever `state.json` can say, or belongs to a round that no power failure takes away
(`Counts`), so that no staging directory is met again; `TrustInv` says the same of what
was reviewed, as long as nothing that `recover` returned is lost. For `KeepsHistory`,
`AskedInv` adds that what is being reviewed or committed was asked for; a step of
`commit_round` is then a `Commit` if it is the rename and a stutter otherwise, and a power
failure is a `Cut` (`CutsHistory`).

**CliProcess_proofs.** `TypeOK`, `WithinLimit`, `TurnsGenuine`, `LimitsHeard` and
`GroupGone`. The reader with the lock knows what is left (`LockInv`); until the limit is
exceeded every unit written is in a pipe, with a reader or in the output (`FlowInv`); a
reader is done only at the end of its stream (`DoneInv`), and joined only when done,
unless there is a helper (`LoopInv`).

**Sessions_proofs.** `TypeOK`, `ActiveMarked`, `ReportClaims`, `MarkerKept` and
`TakesTurns`. The start
that holds the lock has found no active session and none can become active before it
writes the marker (`LockInv`), because an engine serves the marked session or one that has
ended (`ServeInv`); what a reporter has read of an ended session stays true (`CliInv`). The
step that writes the marker starts a turn, a save of a final phase ends one
(`SaveTurns`), and every other step leaves all lives as they are (`LifeKept`).

**ReviewJobs_proofs.** `AnswersStay`: an answered job is not live and has one answer.

**ReviewWorker_proofs.** `TypeOK`, `InferredOnce`, `CancelledStays`, `JobsReconciled` and
`KeepsContract`. `IInv` relates the durable records of a job (`Records_Inv`,
`Cancels_Inv`) to the stage of the process (`Stage_Inv`) and to the reviews started
(`Started_Inv`); it is what makes every crash point recoverable.

**Debate_proofs.** `TypeOK`, `AgreementSole`, `IssuesStayOpen`, `DuplicatesSettled` and
`LateIssueBlocks`, for any number of rounds, versions and wordings. The argument is the
order of birth: a version closes only older versions of its own issue
(`VersionsOrdered`), so a closed one is outlived by a newer one that is open
(`Superseded`), and cannot be agreed on again because it does not close that one. For the
search (`SearchSettles`), `SearchShape` says that what a caller duplicates is another
caller or the call itself, so that a call of one of them closes a circle, and that what is
settled is grounded at every step; `CirclesMet`, that no circle is ever settled whole, so
that a search that comes to its end has met none; and `GroundedMet`, that what can be
resolved is settled or still to come.

**LimitGate_proofs.** `TypeOK`, `LowPauseOutlasts`, `LowPausePrompt` and `EnoughAtStart`.
`IInv` adds that an
account whose reading suffices had enough no longer ago than the reading is old
(`Since_Inv`), and that a window found too low is over no later than its reading or the
pause says (`Blocking_Inv`, which rests on `ShownLater`: no reset is read as earlier
than it is). `Prompt_Inv` is the other bound (`ShownSoon`): what a reading says of a
window too low is at most a resolution after its end, and of one that is over at most a
resolution from now, or a day if it is Claude's five-hour window. It has to speak of
windows that end while the other account is read, which leave `blocking` on the way.

`TypeOK` of every module, `StopFinal` (which `FinalHolds` has replaced in the runs) and
`ActiveMarked` (which follows from `TakesTurns`) are only proved, not part of a run.

**Only model-checked**: what is true under fairness (the liveness half of `StopHeeded`, `Settles`,
`AllAnswered`, `PausesEnd`, `Returns`, `MarkerReleased`), which the prover does not reach.

## What is not modelled

- Parsing and formats: the text of limit reports and its calendar, JSON schemas, anchors,
  prompts, the layout of reports, configuration. They keep no state, and their results
  are free choices where the model uses them.
- The calls that read limits (`read_limits`): a reading comes, is late or fails.
- The store's checksums and hash chain: detection of damage from outside.
- `status` and `doctor`, which only read; the comparison of settings by `serve` and
  `resume`, which ends them before they do anything; `acceptance.json`, which nothing reads.

## Plan

1. *Done*: the engine, the worker and their contract; the debate; the limit gate; the
   store on its disk with the log it promises; the history that engine and store share;
   the run of a CLI; the sessions of a root and their turns; all with proofs.
2. *Left*: the composition of `Debate` and `SessionEngine` (a committed round of the one
   is a round of the other), now argued in the text above; and for `CliProcess` a theorem
   that the threads, the child and the worker never all wait for one another, stated
   without `ENABLED`.
