------------------------------- MODULE Sessions -------------------------------
(***************************************************************************)
(* The sessions of one sessions root: peer-reviewer start, serve and       *)
(* report of cli.py, which meet in the marker of the active session        *)
(* (.peer-reviewer-active.json), in each session's runtime/state.json and  *)
(* in its report.                                                          *)
(*                                                                         *)
(* start decides and marks under the deployment's lock, serve removes the  *)
(* marker under it, but reads it without.  Reports are written by serve,   *)
(* when the session has come to an end, and by a human at any time.        *)
(*                                                                         *)
(* A session's rounds are counted, and its phase is cut down to what cli.py*)
(* tells apart: SessionEngine has the rest of the engine, RoundStore the   *)
(* files.  Time is the number of saves of a state.json.                    *)
(***************************************************************************)
EXTENDS Naturals

CONSTANTS
  Names,       \* names of sessions
  NoName,      \* no session
  Starters,    \* processes that run peer-reviewer start
  MaxRounds,   \* bound on the rounds of a session
  MaxSaves,    \* bound on the saves of all engines
  MaxReports,  \* bound on the reports asked for by a human
  MaxDeaths    \* bound on the deaths of an engine process

ASSUME ConstantsAssumption ==
  /\ NoName \notin Names
  /\ {MaxRounds, MaxSaves, MaxReports, MaxDeaths} \subseteq Nat

VARIABLES
  created,   \* the sessions that exist
  marker,    \* the session .peer-reviewer-active.json names
  starter,   \* of each start: what it does next, and the session it is to create
  pc,        \* the engine process: "down", or what it does next
  serving,   \* the session it has taken from the marker
  state,     \* of each session: phase and updated_at in runtime/state.json
  rounds,    \* of each session: the number of its committed rounds
  report,    \* of each session: what report.md says
  events,    \* of each session: the report events in runtime/events
  cli,       \* the report a human has asked for
  clock,     \* the number of saves so far
  asked,     \* the number of reports asked for so far
  deaths     \* the number of deaths of engine processes so far

vars == <<created, marker, starter, pc, serving, state, rounds, report, events, cli,
          clock, asked, deaths>>

sessionVars == <<state, rounds, report, events>>
engineVars  == <<pc, serving, clock, deaths>>
cliVars     == <<cli, asked>>
startVars   == <<created, starter>>

-----------------------------------------------------------------------------
(* Data. *)

Verdicts  == {"CONSENSUS", "NO_CONSENSUS"}
Final     == Verdicts \cup {"STOPPED", "ERROR"}

\* "absent": no state.json; "bare": the one commit_round writes, without a phase;
\* "working": every phase of a debate that goes on; "exhausted": ERROR with
\* attempts_exhausted, which a human can end by a grant.
Unended  == {"bare", "working", "exhausted"}
Phases   == Unended \cup Final \cup {"absent"}
States   == [phase : Phases, updated : 0 .. MaxSaves]   \* 0: "unknown"

\* Two reports of a session are the same text when these are the same, and the
\* name of their event is made of them.
Reports  == [outcome : Final, rounds : 0 .. MaxRounds]
NoReport == [outcome |-> "none", rounds |-> 0]
Events   == [outcome : Final, rounds : 0 .. MaxRounds, updated : 0 .. MaxSaves]

\* _is_final_state.
IsFinal(s) == state[s].phase \in Final

\* Mutant: a session without an outcome is reported as one without consensus.
OutcomeUndecided(s) == IF IsFinal(s) THEN state[s].phase ELSE "NO_CONSENSUS"

\* What a report says of a session that has no outcome yet is ERROR.
Outcome(s) == IF IsFinal(s) THEN state[s].phase ELSE "ERROR"

-----------------------------------------------------------------------------
(* peer-reviewer start. *)

Locked == {"creating", "marking"}

\* The deployment's lock is not held; serve holds it for one step only.
GuardFree == \A p \in Starters : starter[p].pc \notin Locked

NoStart       == [pc |-> "idle", name |-> NoName]
Goes(p, step) == starter' = [starter EXCEPT ![p].pc = step]
Ends(p)       == starter' = [starter EXCEPT ![p] = NoStart]

\* The session must not exist; this is looked at before the lock is taken.
Ask(p, s) ==
  /\ starter[p].pc = "idle"
  /\ s \notin created
  /\ starter' = [starter EXCEPT ![p] = [pc |-> "waiting", name |-> s]]
  /\ UNCHANGED <<created, marker, engineVars, sessionVars, cliVars>>

\* Mutant: every ERROR ends a session.
NoneActiveButErrors == marker = NoName \/ IsFinal(marker) \/ state[marker].phase = "exhausted"

\* There is no active session, or it has come to its end.
NoneActive == marker = NoName \/ IsFinal(marker)

Decide(p) ==
  /\ starter[p].pc = "waiting"
  /\ GuardFree
  /\ IF NoneActive THEN Goes(p, "creating") ELSE Ends(p)
  /\ UNCHANGED <<created, marker, engineVars, sessionVars, cliVars>>

\* SessionStore.create looks again before it writes.
Create(p) ==
  LET s == starter[p].name IN
  /\ starter[p].pc = "creating"
  /\ IF s \in created THEN Ends(p) ELSE Goes(p, "marking")
  /\ created' = created \cup {s}
  /\ UNCHANGED <<marker, engineVars, sessionVars, cliVars>>

Mark(p) ==
  /\ starter[p].pc = "marking"
  /\ marker' = starter[p].name
  /\ Ends(p)
  /\ UNCHANGED <<created, engineVars, sessionVars, cliVars>>

\* A start that is killed gives the lock back and leaves what it has created.
StartDies(p) ==
  /\ starter[p].pc \in Locked
  /\ Ends(p)
  /\ UNCHANGED <<created, marker, engineVars, sessionVars, cliVars>>

-----------------------------------------------------------------------------
(* serve: the engine. *)

\* docker starts it whenever it is down; it takes the session the marker names.
Boot ==
  /\ pc = "down"
  /\ marker # NoName
  /\ serving' = marker
  /\ pc' = "resume"
  /\ UNCHANGED <<marker, clock, deaths, startVars, sessionVars, cliVars>>

Ended   == pc' = "down" /\ serving' = NoName
Ticking == pc \in {"resume", "loop"}
Phase   == state[serving].phase

\* The loop is left for the report when a tick ends in ERROR or in a final phase;
\* the tick of resume is followed by another in any case.
After(phase) == IF pc = "loop" /\ phase \in Final \cup {"exhausted"} THEN "report" ELSE "loop"

Save(phase) ==
  /\ clock < MaxSaves
  /\ clock' = clock + 1
  /\ state' = [state EXCEPT ![serving] = [phase |-> phase, updated |-> clock + 1]]
  /\ pc' = After(phase)
  /\ UNCHANGED <<marker, serving, deaths, rounds, report, events, startVars, cliVars>>

\* The debate goes on, or comes to an end.
Work ==
  /\ Ticking
  /\ Phase \in {"absent", "working"}
  /\ \E phase \in {"working", "exhausted", "ERROR"} \cup Verdicts :
       /\ phase \in Verdicts => rounds[serving] > 0
       /\ Save(phase)

\* A committed round is always followed by its checkpoint.
Checkpoint == Ticking /\ Phase = "bare" /\ Save("working")

\* A stop applies in every phase, but is not sent to a session without state.json; a
\* resume applies when the attempts are used up.
Stop  == Ticking /\ Phase \notin {"absent", "bare"} /\ Save("STOPPED")
Grant == Ticking /\ Phase = "exhausted" /\ Save("working")

\* The round directory, and the state.json commit_round itself writes.
Commit ==
  /\ pc = "loop"
  /\ Phase = "working"
  /\ rounds[serving] < MaxRounds
  /\ rounds' = [rounds EXCEPT ![serving] = @ + 1]
  /\ state' = [state EXCEPT ![serving] = [phase |-> "bare", updated |-> 0]]
  /\ UNCHANGED <<marker, engineVars, report, events, startVars, cliVars>>

\* A tick that saves nothing: the session has ended and there is no command for it,
\* or it waits.
Idle ==
  /\ Ticking
  /\ Phase \notin {"absent", "bare"}
  /\ pc' = After(Phase)
  /\ UNCHANGED <<marker, serving, clock, deaths, startVars, sessionVars, cliVars>>

\* _write_report, first report.md, then the event that records it.  The event's
\* name is made of the text alone; its contents have updated_at as well.
Conflict(s, e) ==
  \E f \in events[s] : f # e /\ f.outcome = e.outcome /\ f.rounds = e.rounds

Current == [outcome |-> Outcome(serving), rounds |-> rounds[serving],
            updated |-> state[serving].updated]

Written(s, e) == report' = [report EXCEPT ![s] = [outcome |-> e.outcome, rounds |-> e.rounds]]

WriteReport ==
  /\ pc = "report"
  /\ Written(serving, Current)
  /\ pc' = "event"
  /\ UNCHANGED <<marker, serving, clock, deaths, state, rounds, events, startVars, cliVars>>

\* An event of that name and with other contents ends the process.
WriteEvent ==
  /\ pc = "event"
  /\ IF Conflict(serving, Current)
     THEN Ended /\ UNCHANGED events
     ELSE /\ pc' = "leave"
          /\ events' = [events EXCEPT ![serving] = @ \cup {Current}]
          /\ UNCHANGED serving
  /\ UNCHANGED <<marker, clock, deaths, state, rounds, report, startVars, cliVars>>

\* Mutants: the marker is removed whatever it names; it is removed in the end only
\* of a session that has not ended in ERROR.
LeaveAnyMarker ==
  /\ pc = "leave"
  /\ IsFinal(serving) => GuardFree
  /\ marker' = IF IsFinal(serving) THEN NoName ELSE marker
  /\ Ended
  /\ UNCHANGED <<clock, deaths, startVars, sessionVars, cliVars>>

LeaveErrors ==
  /\ pc = "leave"
  /\ IsFinal(serving) => GuardFree
  /\ marker' = IF Phase \in Final \ {"ERROR"} /\ marker = serving THEN NoName ELSE marker
  /\ Ended
  /\ UNCHANGED <<clock, deaths, startVars, sessionVars, cliVars>>

\* Under the lock the marker is removed, if the session is final and still named.
Leave ==
  /\ pc = "leave"
  /\ IsFinal(serving) => GuardFree
  /\ marker' = IF IsFinal(serving) /\ marker = serving THEN NoName ELSE marker
  /\ Ended
  /\ UNCHANGED <<clock, deaths, startVars, sessionVars, cliVars>>

Dies ==
  /\ pc # "down"
  /\ deaths < MaxDeaths
  /\ deaths' = deaths + 1
  /\ Ended
  /\ UNCHANGED <<marker, clock, startVars, sessionVars, cliVars>>

-----------------------------------------------------------------------------
(* A report asked for by a human: by report, by resume of a final session or by *)
(* accept when there is none.  The rounds are read first, then the state.       *)

NoEvent == [outcome |-> "ERROR", rounds |-> 0, updated |-> 0]
NoCli   == [pc |-> "idle", name |-> NoName, event |-> NoEvent]

ReadRounds(s) ==
  /\ cli.pc = "idle"
  /\ asked < MaxReports
  /\ asked' = asked + 1
  /\ s \in created
  /\ cli' = [pc |-> "state", name |-> s, event |-> [NoEvent EXCEPT !.rounds = rounds[s]]]
  /\ UNCHANGED <<marker, startVars, engineVars, sessionVars>>

ReadState ==
  /\ cli.pc = "state"
  /\ cli' = [cli EXCEPT !.pc = "report", !.event.outcome = Outcome(cli.name),
                        !.event.updated = state[cli.name].updated]
  /\ UNCHANGED <<marker, asked, startVars, engineVars, sessionVars>>

CliReport ==
  /\ cli.pc = "report"
  /\ Written(cli.name, cli.event)
  /\ cli' = [cli EXCEPT !.pc = "event"]
  /\ UNCHANGED <<marker, asked, state, rounds, events, startVars, engineVars>>

CliEvent ==
  /\ cli.pc = "event"
  /\ IF Conflict(cli.name, cli.event)
     THEN UNCHANGED events
     ELSE events' = [events EXCEPT ![cli.name] = @ \cup {cli.event}]
  /\ cli' = NoCli
  /\ UNCHANGED <<marker, asked, state, rounds, report, startVars, engineVars>>

-----------------------------------------------------------------------------

Init ==
  /\ created = {}
  /\ marker = NoName
  /\ starter = [p \in Starters |-> NoStart]
  /\ pc = "down" /\ serving = NoName
  /\ state = [s \in Names |-> [phase |-> "absent", updated |-> 0]]
  /\ rounds = [s \in Names |-> 0]
  /\ report = [s \in Names |-> NoReport]
  /\ events = [s \in Names |-> {}]
  /\ cli = NoCli
  /\ clock = 0 /\ asked = 0 /\ deaths = 0

StartStep(p) == Decide(p) \/ Create(p) \/ Mark(p)

EngineStep ==
  \/ Boot
  \/ Work \/ Checkpoint \/ Commit \/ Idle \/ Stop \/ Grant
  \/ WriteReport \/ WriteEvent \/ Leave

CliStep == ReadState \/ CliReport \/ CliEvent

Next ==
  \/ \E p \in Starters : (\E s \in Names : Ask(p, s)) \/ StartStep(p) \/ StartDies(p)
  \/ EngineStep \/ Dies
  \/ (\E s \in Names : ReadRounds(s)) \/ CliStep

Spec == Init /\ [][Next]_vars

\* docker starts the engine again, and its loop waits for nothing but the lock, which
\* it gets when the lock is free again and again (flock serves those who wait); the
\* start that holds the lock goes on or dies.
FairSpec ==
  /\ Spec
  /\ WF_vars(EngineStep) /\ SF_vars(Leave)
  /\ WF_vars(\E p \in Starters : StartStep(p))

-----------------------------------------------------------------------------
(* Properties. *)

\* Every variable keeps to the values cli.py and store.py give it; a running engine
\* serves a session that has been created.
TypeOK ==
  /\ created \subseteq Names
  /\ marker \in Names \cup {NoName}
  /\ marker # NoName => marker \in created
  /\ starter \in [Starters -> [pc : Locked \cup {"idle", "waiting"}, name : Names \cup {NoName}]]
  /\ \A p \in Starters : starter[p].pc # "idle" => starter[p].name \in Names
  /\ pc \in {"down", "resume", "loop", "report", "event", "leave"}
  /\ serving \in Names \cup {NoName}
  /\ serving = NoName <=> pc = "down"
  /\ serving # NoName => serving \in created
  /\ state \in [Names -> States]
  /\ rounds \in [Names -> 0 .. MaxRounds]
  /\ report \in [Names -> Reports \cup {NoReport}]
  /\ events \in [Names -> SUBSET Events]
  /\ cli \in [pc : {"idle", "state", "report", "event"}, name : Names \cup {NoName}, event : Events]
  /\ cli.pc # "idle" => cli.name \in Names
  /\ clock \in 0 .. MaxSaves /\ asked \in 0 .. MaxReports /\ deaths \in 0 .. MaxDeaths

\* "Only one active session is permitted per sessions root": whatever is being
\* debated or waits for a grant is the session the marker names, so _start's
\* decision, taken while an engine runs, never leaves two of them.
ActiveMarked == \A s \in Names : state[s].phase \in Unended => marker = s

\* The marker "remains in place until the session reaches a final outcome": neither
\* a start nor the engine of an earlier session takes it from one that has not
\* ended, whether it has a state.json yet or not.
MarkerKept == [][\A s \in Names : marker = s /\ marker' # s => IsFinal(s)]_vars

\* A report that is not marked PARTIAL, or says STOPPED, is of a session that has
\* ended so, whoever wrote it and however long ago he read the state; only a stop
\* can have come after it.
ReportClaims ==
  \A s \in Names :
    report[s].outcome \in Final \ {"ERROR"} => state[s].phase \in {report[s].outcome, "STOPPED"}

\* The sessions of the root take turns, as SessionTurns says: the next one starts when
\* the one before it has ended for good, whichever of the starts, engines, crashes and
\* commands came between its marker and its state.json.  A marked session is active
\* until its phase is final, and so is one that has a state.json.
LifeOf(s) ==
  IF IsFinal(s) THEN "ended"
  ELSE IF marker = s \/ state[s].phase \in Unended THEN "active" ELSE "new"

Life == [s \in Names |-> LifeOf(s)]

Turns == INSTANCE SessionTurns WITH life <- Life

TakesTurns == Turns!Spec

\* A session that has ended makes room for the next one, unless the event of its
\* report is refused.
Refused(s) ==
  \E e \in events[s] : /\ e.outcome = Outcome(s) /\ e.rounds = rounds[s]
                       /\ e.updated # state[s].updated

MarkerReleased ==
  \A s \in Names : IsFinal(s) /\ marker = s ~> marker # s \/ Refused(s)

-----------------------------------------------------------------------------
(* What the documentation says and the code does not do.                    *)

\* The report is a view that can be written again: its event is never refused.
ReportAccepted == pc = "event" => ~Conflict(serving, Current)
=============================================================================
