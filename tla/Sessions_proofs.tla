--------------------------- MODULE Sessions_proofs ---------------------------
(***************************************************************************)
(* Proofs about Sessions, for any numbers of sessions, starts, reports and *)
(* deaths.                                                                 *)
(*                                                                         *)
(* The argument: the start that holds the lock has found no active session *)
(* and none can become active before it writes the marker; an engine whose *)
(* session is not the one marked any more serves a session that has ended. *)
(***************************************************************************)
EXTENDS Sessions, TLAPS

Inside(p) == starter[p].pc \in Locked

\* One start holds the lock; it has found, and would still find, no active session.
LockInv ==
  /\ \A p, q \in Starters : Inside(p) /\ Inside(q) => p = q
  /\ \A p \in Starters : Inside(p) => NoneActive
  /\ \A p \in Starters : starter[p].pc = "marking" => starter[p].name \in created

\* An engine serves the marked session, or one that has ended.
ServeInv == serving # NoName => marker = serving \/ IsFinal(serving)

\* What a reporter has read of an ended session stays true.
CliInv ==
  cli.pc \in {"report", "event"} /\ cli.event.outcome # "ERROR"
    => state[cli.name].phase \in {cli.event.outcome, "STOPPED"}

Inv == TypeOK /\ ActiveMarked /\ LockInv /\ ServeInv /\ ReportClaims /\ CliInv

-----------------------------------------------------------------------------

LEMMA InitInv == Init => Inv
  <1> SUFFICES ASSUME Init
               PROVE  Inv
    OBVIOUS
  <1> USE ConstantsAssumption DEF Init
  <1>1. NoStart \in [pc : Locked \cup {"idle", "waiting"}, name : Names \cup {NoName}]
    BY DEF NoStart
  <1>2. [phase |-> "absent", updated |-> 0] \in States
    BY DEF States, Phases
  <1>3. NoCli \in [pc : {"idle", "state", "report", "event"}, name : Names \cup {NoName}, event : Events]
    BY DEF NoCli, NoEvent, Events, Final
  <1>4. TypeOK
    BY <1>1, <1>2, <1>3 DEF TypeOK, NoStart, NoCli
  <1> QED
    BY <1>4 DEF Inv, ActiveMarked, LockInv, Inside, NoStart, ServeInv, ReportClaims, CliInv,
                NoCli, NoReport, Unended, Final, Verdicts, Locked

\* What a start does before it writes the marker.
LEMMA StartPreserves ==
  ASSUME Inv, NEW p \in Starters,
         (\E s \in Names : Ask(p, s)) \/ Decide(p) \/ Create(p) \/ StartDies(p)
  PROVE  Inv'
  <1> USE DEF Inv, engineVars, sessionVars, cliVars
  <1>0. UNCHANGED <<marker, pc, serving, clock, deaths, state, rounds, report, events, cli, asked>>
    BY DEF Ask, Decide, Create, StartDies
  <1>1. created' \in SUBSET Names /\ created \subseteq created'
    BY DEF Ask, Decide, Create, StartDies, TypeOK, Locked
  <1>2. /\ starter' \in [Starters -> [pc : Locked \cup {"idle", "waiting"}, name : Names \cup {NoName}]]
        /\ \A q \in Starters : starter'[q].pc # "idle" => starter'[q].name \in Names
    BY DEF Ask, Decide, Create, StartDies, TypeOK, Goes, Ends, NoStart, Locked
  <1>3. TypeOK'
    BY <1>0, <1>1, <1>2 DEF TypeOK
  <1>4. \A q \in Starters : q # p => starter'[q] = starter[q]
    BY DEF Ask, Decide, Create, StartDies, Goes, Ends, TypeOK
  <1>5. LockInv'
    <2>1. CASE (\E s \in Names : Ask(p, s)) \/ StartDies(p)
      <3>1. ~Inside(p)' /\ starter'[p].pc # "marking"
        BY <2>1 DEF Ask, StartDies, Ends, NoStart, Inside, Locked, TypeOK
      <3> QED
        BY <1>0, <1>1, <1>4, <3>1 DEF LockInv, Inside, NoneActive, IsFinal
    <2>2. CASE Decide(p)
      <3>1. \A q \in Starters : ~Inside(q)
        BY <2>2 DEF Decide, GuardFree, Inside
      <3>2. Inside(p)' => NoneActive
        BY <2>2 DEF Decide, Ends, NoStart, Inside, Locked, TypeOK
      <3>3. starter'[p].pc # "marking"
        BY <2>2 DEF Decide, Goes, Ends, NoStart, TypeOK
      <3> QED
        BY <1>0, <1>1, <1>4, <3>1, <3>2, <3>3 DEF LockInv, Inside, NoneActive, IsFinal
    <2>3. CASE Create(p)
      <3>1. Inside(p) /\ starter[p].name \in created'
        BY <2>3 DEF Create, Inside, Locked, TypeOK
      <3>2. starter'[p].pc = "marking" => starter'[p].name = starter[p].name
        BY <2>3 DEF Create, Goes, Ends, NoStart, TypeOK
      <3> QED
        BY <1>0, <1>1, <1>4, <3>1, <3>2 DEF LockInv, Inside, NoneActive, IsFinal
    <2> QED
      BY <2>1, <2>2, <2>3
  <1> QED
    BY <1>0, <1>3, <1>5 DEF ActiveMarked, ServeInv, ReportClaims, CliInv, IsFinal

\* The marker is written when nothing is active.
LEMMA MarkPreserves ==
  ASSUME Inv, NEW p \in Starters, Mark(p)
  PROVE  Inv' /\ NoneActive
  <1> USE DEF Inv, engineVars, sessionVars, cliVars
  <1>0. UNCHANGED <<created, pc, serving, clock, deaths, state, rounds, report, events, cli, asked>>
    BY DEF Mark
  <1>1. Inside(p) /\ NoneActive
    BY DEF Mark, LockInv, Inside, Locked
  <1>2. marker' \in Names /\ marker' \in created
    BY DEF Mark, LockInv, TypeOK
  <1>3. starter' = [starter EXCEPT ![p] = NoStart]
    BY DEF Mark, Ends
  <1>4. TypeOK'
    BY <1>0, <1>2, <1>3 DEF TypeOK, NoStart
  <1>5. \A q \in Starters : ~Inside(q)'
    BY <1>1, <1>3 DEF LockInv, Inside, NoStart, Locked, TypeOK
  <1>6. LockInv'
    BY <1>5 DEF LockInv, Inside, Locked
  <1>7. \A s \in Names : state[s].phase \notin Unended
    BY <1>1, ConstantsAssumption DEF ActiveMarked, NoneActive, IsFinal, Unended, Final, Verdicts
  <1>8. serving # NoName => IsFinal(serving)
    BY <1>1 DEF ServeInv, NoneActive
  <1> QED
    BY <1>0, <1>1, <1>4, <1>6, <1>7, <1>8
       DEF ActiveMarked, ServeInv, ReportClaims, CliInv, IsFinal

-----------------------------------------------------------------------------

\* A save of the engine leaves a session final that was final, and then by a stop.
LEMMA SavePreserves ==
  ASSUME Inv, Ticking, NEW phase \in Phases \ {"absent"}, Save(phase),
         IsFinal(serving) => phase = "STOPPED"
  PROVE  Inv'
  <1> USE DEF Inv, startVars, cliVars
  <1>0. UNCHANGED <<created, starter, marker, serving, deaths, rounds, report, events, cli, asked>>
    BY DEF Save
  <1>1. serving \in Names
    BY DEF TypeOK, Ticking
  <1>2. clock + 1 \in 0 .. MaxSaves
    BY ConstantsAssumption DEF Save, TypeOK
  <1>3. /\ state' = [state EXCEPT ![serving] = [phase |-> phase, updated |-> clock + 1]]
        /\ state' \in [Names -> States]
    BY <1>2 DEF Save, TypeOK, States
  <1>4. pc' \in {"loop", "report"}
    BY DEF Save, After
  <1>5. TypeOK'
    <2>1. clock' \in 0 .. MaxSaves
      BY <1>2 DEF Save
    <2> QED
      BY <1>0, <1>3, <1>4, <2>1, ConstantsAssumption DEF TypeOK, Ticking
  <1>6. state'[serving].phase = phase /\ \A s \in Names : s # serving => state'[s] = state[s]
    BY <1>1, <1>3 DEF TypeOK
  <1>7. \A s \in Names : IsFinal(s) => IsFinal(s)'
    BY <1>6 DEF IsFinal, Final
  <1>8. ActiveMarked'
    <2>1. phase \in Unended => marker = serving
      BY <1>1, ConstantsAssumption DEF ServeInv, Unended
    <2> QED
      BY <1>0, <1>6, <2>1 DEF ActiveMarked
  <1>9. LockInv' /\ ServeInv'
    <2>1. NoneActive => NoneActive'
      BY <1>0, <1>7 DEF NoneActive, TypeOK
    <2> QED
      BY <1>0, <1>1, <1>7, <2>1 DEF LockInv, Inside, ServeInv
  <1>10. ReportClaims'
    <2>1. \A s \in Names : state[s].phase \in Final => state'[s].phase \in {state[s].phase, "STOPPED"}
      BY <1>6 DEF IsFinal
    <2>2. "STOPPED" \in Final
      BY DEF Final
    <2> QED
      BY <1>0, <2>1, <2>2 DEF ReportClaims
  <1>11. CliInv'
    <2>1. SUFFICES ASSUME cli.pc \in {"report", "event"}, cli.event.outcome # "ERROR"
                   PROVE  state'[cli.name].phase \in {cli.event.outcome, "STOPPED"}
      BY <1>0 DEF CliInv
    <2>2. cli.name \in Names /\ cli.event.outcome \in Final
      BY <2>1 DEF TypeOK, Events
    <2>3. state[cli.name].phase \in {cli.event.outcome, "STOPPED"}
      BY <2>1 DEF CliInv
    <2> QED
      BY <1>6, <2>2, <2>3 DEF IsFinal, Final
  <1> QED
    BY <1>5, <1>8, <1>9, <1>10, <1>11

LEMMA CommitPreserves ==
  ASSUME Inv, Commit
  PROVE  Inv'
  <1> USE DEF Inv, startVars, cliVars, engineVars
  <1>0. UNCHANGED <<created, starter, marker, pc, serving, clock, deaths, report, events, cli, asked>>
    BY DEF Commit
  <1>1. serving \in Names /\ serving # NoName /\ Phase = "working"
    BY ConstantsAssumption DEF Commit, TypeOK
  <1>2. state' = [state EXCEPT ![serving] = [phase |-> "bare", updated |-> 0]]
    BY DEF Commit
  <1>3. state' \in [Names -> States]
    <2>1. [phase |-> "bare", updated |-> 0] \in States
      BY ConstantsAssumption DEF States, Phases, Unended
    <2> QED
      BY <1>2, <2>1 DEF TypeOK
  <1>4. rounds' \in [Names -> 0 .. MaxRounds]
    <2>1. rounds[serving] + 1 \in 0 .. MaxRounds
      BY <1>1, ConstantsAssumption DEF Commit, TypeOK
    <2> QED
      BY <2>1 DEF Commit, TypeOK
  <1>5. TypeOK'
    BY <1>0, <1>3, <1>4 DEF TypeOK
  <1>6. state'[serving].phase = "bare" /\ \A s \in Names : s # serving => state'[s] = state[s]
    BY <1>1, <1>2 DEF TypeOK
  <1>7. ~IsFinal(serving) /\ marker = serving
    BY <1>1 DEF ServeInv, IsFinal, Phase, Final, Verdicts
  <1>8. ActiveMarked'
    BY <1>0, <1>6, <1>7 DEF ActiveMarked
  <1>9. \A p \in Starters : ~Inside(p)
    BY <1>1, <1>7 DEF LockInv, NoneActive
  <1>10. LockInv' /\ ServeInv'
    BY <1>0, <1>7, <1>9 DEF LockInv, ServeInv, Inside
  <1>11. ReportClaims'
    BY <1>0, <1>1, <1>6 DEF ReportClaims, Phase, Final, Verdicts
  <1>12. CliInv'
    <2>1. SUFFICES ASSUME cli.pc \in {"report", "event"}, cli.event.outcome # "ERROR"
                   PROVE  state'[cli.name].phase \in {cli.event.outcome, "STOPPED"}
      BY <1>0 DEF CliInv
    <2>2. cli.name \in Names /\ cli.event.outcome \in Final
      BY <2>1 DEF TypeOK, Events
    <2>3. state[cli.name].phase \in {cli.event.outcome, "STOPPED"}
      BY <2>1 DEF CliInv
    <2>4. "working" \notin Final
      BY DEF Final, Verdicts
    <2> QED
      BY <1>1, <1>6, <2>2, <2>3, <2>4 DEF Phase
  <1> QED
    BY <1>5, <1>8, <1>10, <1>11, <1>12

\* Boot, Idle and Dies touch nothing but the engine process.
LEMMA ProcessPreserves ==
  ASSUME Inv, Boot \/ Idle \/ Dies
  PROVE  Inv'
  <1> USE DEF Inv, startVars, sessionVars, cliVars
  <1>0. UNCHANGED <<created, starter, marker, clock, state, rounds, report, events, cli, asked>>
    BY DEF Boot, Idle, Dies
  <1>1. TypeOK'
    BY <1>0, ConstantsAssumption DEF TypeOK, Boot, Idle, Dies, After, Ended, Ticking
  <1>2. ServeInv'
    BY <1>0 DEF ServeInv, Boot, Idle, Dies, Ended, IsFinal
  <1> QED
    BY <1>0, <1>1, <1>2 DEF ActiveMarked, LockInv, Inside, NoneActive, IsFinal, ReportClaims, CliInv

\* The report of the engine is of the state it has left.
LEMMA ReportPreserves ==
  ASSUME Inv, WriteReport \/ WriteEvent
  PROVE  Inv'
  <1> USE DEF Inv, startVars, cliVars
  <1>0. UNCHANGED <<created, starter, marker, clock, deaths, state, rounds, cli, asked>>
    BY DEF WriteReport, WriteEvent
  <1>1. serving \in Names
    BY DEF TypeOK, WriteReport, WriteEvent
  <1>2. Current \in Events /\ Current.outcome = Outcome(serving)
    BY <1>1 DEF Current, Events, Outcome, IsFinal, Final, TypeOK, States
  <1>3. TypeOK'
    <2>1. report' \in [Names -> Reports \cup {NoReport}]
      BY <1>2 DEF WriteReport, WriteEvent, Written, TypeOK, Reports, Events
    <2>2. events' \in [Names -> SUBSET Events]
      BY <1>2 DEF WriteReport, WriteEvent, TypeOK
    <2> QED
      BY <1>0, <2>1, <2>2 DEF TypeOK, WriteReport, WriteEvent, Ended
  <1>4. ServeInv'
    BY <1>0 DEF ServeInv, WriteReport, WriteEvent, Ended, IsFinal
  <1>5. ReportClaims'
    <2>1. CASE WriteReport
      <3>1. /\ report'[serving].outcome = Outcome(serving)
            /\ \A s \in Names : s # serving => report'[s] = report[s]
        BY <1>1, <1>2, <2>1 DEF WriteReport, Written, TypeOK
      <3>2. Outcome(serving) # "ERROR" => Outcome(serving) = state[serving].phase
        BY DEF Outcome
      <3> QED
        BY <1>0, <1>1, <3>1, <3>2 DEF ReportClaims
    <2>2. CASE WriteEvent
      BY <1>0, <2>2 DEF WriteEvent, ReportClaims
    <2> QED
      BY <2>1, <2>2
  <1> QED
    BY <1>0, <1>3, <1>4, <1>5 DEF ActiveMarked, LockInv, Inside, NoneActive, IsFinal, CliInv

\* The marker is removed by the engine of the session it names, when that is final.
LEMMA LeavePreserves ==
  ASSUME Inv, Leave
  PROVE  Inv'
  <1> USE DEF Inv, startVars, sessionVars, cliVars
  <1>0. UNCHANGED <<created, starter, clock, deaths, state, rounds, report, events, cli, asked>>
    BY DEF Leave
  <1>1. marker' \in {marker, NoName} /\ (marker' # marker => IsFinal(marker))
    BY DEF Leave
  <1>2. TypeOK'
    BY <1>0, <1>1 DEF TypeOK, Leave, Ended
  <1>3. ActiveMarked'
    BY <1>0, <1>1 DEF ActiveMarked, IsFinal, Unended, Final, Verdicts
  <1>4. LockInv'
    BY <1>0, <1>1 DEF LockInv, Inside, NoneActive, IsFinal
  <1>5. ServeInv'
    BY DEF Leave, Ended, ServeInv
  <1> QED
    BY <1>0, <1>2, <1>3, <1>4, <1>5 DEF ReportClaims, CliInv

LEMMA CliPreserves ==
  ASSUME Inv, (\E s \in Names : ReadRounds(s)) \/ CliStep
  PROVE  Inv'
  <1> USE DEF Inv, startVars, engineVars, sessionVars
  <1>0. UNCHANGED <<created, starter, marker, pc, serving, clock, deaths, state, rounds>>
    BY DEF ReadRounds, CliStep, ReadState, CliReport, CliEvent
  <1>1. ActiveMarked' /\ LockInv' /\ ServeInv'
    BY <1>0 DEF ActiveMarked, LockInv, Inside, NoneActive, IsFinal, ServeInv
  <1>2. NoCli \in [pc : {"idle", "state", "report", "event"}, name : Names \cup {NoName}, event : Events]
    BY ConstantsAssumption DEF NoCli, NoEvent, Events, Final
  <1>3. CASE \E s \in Names : ReadRounds(s)
    <2> PICK s \in Names : ReadRounds(s)
      BY <1>3
    <2>1. asked' \in 0 .. MaxReports
      BY ConstantsAssumption DEF ReadRounds, TypeOK
    <2>2. cli' = [pc |-> "state", name |-> s,
                  event |-> [outcome |-> "ERROR", rounds |-> rounds[s], updated |-> 0]]
      BY DEF ReadRounds, NoEvent
    <2>3. cli' \in [pc : {"idle", "state", "report", "event"}, name : Names \cup {NoName}, event : Events]
      BY <2>2, ConstantsAssumption DEF Events, Final, TypeOK
    <2>4. TypeOK'
      BY <1>0, <2>1, <2>2, <2>3 DEF ReadRounds, TypeOK
    <2> QED
      BY <1>0, <1>1, <2>2, <2>4 DEF ReadRounds, ReportClaims, CliInv
  <1>4. CASE ReadState
    <2>1. cli.name \in Names /\ cli.pc = "state"
      BY <1>4 DEF ReadState, TypeOK
    <2>2. Outcome(cli.name) \in Final /\ state[cli.name].updated \in 0 .. MaxSaves
      BY <2>1 DEF Outcome, IsFinal, Final, TypeOK, States
    <2>3. /\ cli' \in [pc : {"idle", "state", "report", "event"}, name : Names \cup {NoName}, event : Events]
          /\ cli'.name = cli.name /\ cli'.event.outcome = Outcome(cli.name)
      BY <1>4, <2>1, <2>2 DEF ReadState, TypeOK, Events
    <2>4. TypeOK'
      BY <1>0, <1>4, <2>1, <2>3 DEF ReadState, TypeOK
    <2>5. CliInv'
      BY <1>0, <2>3 DEF CliInv, Outcome
    <2> QED
      BY <1>0, <1>1, <1>4, <2>4, <2>5 DEF ReadState, ReportClaims
  <1>5. CASE CliReport
    <2>1. cli.name \in Names /\ cli.event \in Events
      BY <1>5 DEF CliReport, TypeOK
    <2>2. /\ cli' \in [pc : {"idle", "state", "report", "event"}, name : Names \cup {NoName}, event : Events]
          /\ cli'.name = cli.name /\ cli'.event = cli.event
      BY <1>5 DEF CliReport, TypeOK
    <2>3. report' \in [Names -> Reports \cup {NoReport}]
      BY <1>5, <2>1 DEF CliReport, Written, TypeOK, Reports, Events
    <2>4. TypeOK'
      BY <1>0, <1>5, <2>1, <2>2, <2>3 DEF CliReport, TypeOK
    <2>5. /\ report'[cli.name].outcome = cli.event.outcome
          /\ \A s \in Names : s # cli.name => report'[s] = report[s]
      BY <1>5, <2>1 DEF CliReport, Written, TypeOK
    <2>6. cli.event.outcome # "ERROR" => state[cli.name].phase \in {cli.event.outcome, "STOPPED"}
      BY <1>5 DEF CliReport, CliInv
    <2>7. ReportClaims'
      BY <1>0, <2>5, <2>6 DEF ReportClaims
    <2>8. CliInv'
      BY <1>0, <2>2, <2>6 DEF CliInv
    <2> QED
      BY <1>1, <2>4, <2>7, <2>8
  <1>6. CASE CliEvent
    <2>1. events' \in [Names -> SUBSET Events]
      BY <1>6 DEF CliEvent, TypeOK
    <2>2. TypeOK'
      BY <1>0, <1>2, <1>6, <2>1 DEF CliEvent, TypeOK, NoCli
    <2> QED
      BY <1>0, <1>1, <1>6, <2>2 DEF CliEvent, ReportClaims, CliInv, NoCli
  <1> QED
    BY <1>3, <1>4, <1>5, <1>6 DEF CliStep

-----------------------------------------------------------------------------

LEMMA NextInv == Inv /\ [Next]_vars => Inv'
  <1> SUFFICES ASSUME Inv, [Next]_vars
               PROVE  Inv'
    OBVIOUS
  <1>1. CASE \E p \in Starters : (\E s \in Names : Ask(p, s)) \/ StartStep(p) \/ StartDies(p)
    BY <1>1, StartPreserves, MarkPreserves DEF StartStep
  <1>2. CASE Work
    <2> PICK phase \in {"working", "exhausted", "ERROR"} \cup Verdicts : Save(phase)
      BY <1>2 DEF Work
    <2>1. phase \in Phases \ {"absent"}
      BY DEF Phases, Unended, Final, Verdicts
    <2>2. Ticking /\ ~IsFinal(serving)
      BY <1>2 DEF Work, Phase, IsFinal, Final, Verdicts
    <2> QED
      BY <2>1, <2>2, SavePreserves
  <1>3. CASE Checkpoint \/ Grant
    <2>1. Save("working") /\ Ticking /\ ~IsFinal(serving)
      BY <1>3 DEF Checkpoint, Grant, Phase, IsFinal, Final, Verdicts
    <2>2. "working" \in Phases \ {"absent"}
      BY DEF Phases, Unended
    <2> QED
      BY <2>1, <2>2, SavePreserves
  <1>4. CASE Stop
    <2>1. "STOPPED" \in Phases \ {"absent"}
      BY DEF Phases, Final
    <2> QED
      BY <1>4, <2>1, SavePreserves DEF Stop
  <1>5. CASE Commit
    BY <1>5, CommitPreserves
  <1>6. CASE Boot \/ Idle \/ Dies
    BY <1>6, ProcessPreserves
  <1>7. CASE WriteReport \/ WriteEvent
    BY <1>7, ReportPreserves
  <1>8. CASE Leave
    BY <1>8, LeavePreserves
  <1>9. CASE (\E s \in Names : ReadRounds(s)) \/ CliStep
    BY <1>9, CliPreserves
  <1>10. CASE UNCHANGED vars
    BY <1>10 DEF Inv, TypeOK, ActiveMarked, LockInv, Inside, NoneActive, ServeInv, ReportClaims,
                 CliInv, IsFinal, vars
  <1> QED
    BY <1>1, <1>2, <1>3, <1>4, <1>5, <1>6, <1>7, <1>8, <1>9, <1>10 DEF Next, EngineStep

\* The inductive invariant holds of every state of every behaviour.
THEOREM Invariant == Spec => []Inv
  <1> QED
    BY InitInv, NextInv, PTL DEF Spec

\* Every variable of the sessions root keeps to its values.
THEOREM TypeCorrect == Spec => []TypeOK
  <1>1. Inv => TypeOK
    BY DEF Inv
  <1> QED
    BY Invariant, <1>1, PTL

\* _start never leaves two active sessions: whatever has not ended is marked.
THEOREM OneActiveSession == Spec => []ActiveMarked
  <1>1. Inv => ActiveMarked
    BY DEF Inv
  <1> QED
    BY Invariant, <1>1, PTL

\* A report that is not an ERROR names the phase its session ended in.
THEOREM ReportsTrue == Spec => []ReportClaims
  <1>1. Inv => ReportClaims
    BY DEF Inv
  <1> QED
    BY Invariant, <1>1, PTL

\* The marker is taken from no session that has not reached its end, neither by the
\* start of another one nor by the engine of an earlier one.
THEOREM MarkerStays == Spec => MarkerKept
  <1>1. Inv /\ [Next]_vars => [\A s \in Names : marker = s /\ marker' # s => IsFinal(s)]_vars
    <2> SUFFICES ASSUME Inv, Next, NEW s \in Names, marker = s, marker' # s
                 PROVE  IsFinal(s)
      OBVIOUS
    <2>1. s # NoName
      BY ConstantsAssumption
    <2>2. CASE \E p \in Starters : Mark(p)
      <3>1. NoneActive
        BY <2>2, MarkPreserves
      <3> QED
        BY <2>1, <3>1 DEF NoneActive
    <2>3. CASE Leave
      BY <2>3 DEF Leave
    <2> QED
      BY <2>2, <2>3
         DEF Next, StartStep, Ask, Decide, Create, StartDies, EngineStep, Boot, Work, Checkpoint,
             Commit, Idle, Stop, Grant, Save, WriteReport, WriteEvent, Dies, ReadRounds, CliStep,
             ReadState, CliReport, CliEvent
  <1> QED
    BY Invariant, <1>1, PTL DEF Spec, MarkerKept
-----------------------------------------------------------------------------
(* The sessions take turns.                                                 *)

LEMMA LifeKept ==
  ASSUME \A s \in Names : LifeOf(s)' = LifeOf(s)
  PROVE  UNCHANGED Life
  BY DEF Life

\* Of a step that leaves the marker and the phases alone nothing can be told.
LEMMA LifeFrame ==
  ASSUME UNCHANGED <<marker, state>>
  PROVE  UNCHANGED Life
  BY DEF Life, LifeOf, IsFinal

\* A save leaves an ended session ended, and an active one active or ended.
LEMMA SaveTurns ==
  ASSUME Inv, NEW s \in Names, serving = s, NEW phase \in Phases \ {"absent"}, NEW updated,
         marker' = marker,
         state' = [state EXCEPT ![s] = [phase |-> phase, updated |-> updated]],
         IsFinal(s) => phase \in Final
  PROVE  [Turns!Next]_Life
  <1>1. state'[s].phase = phase /\ \A t \in Names : t # s => state'[t] = state[t]
    BY DEF Inv, TypeOK
  <1>2. \A t \in Names : t # s => LifeOf(t)' = LifeOf(t)
    BY <1>1 DEF LifeOf, IsFinal
  <1>3. LifeOf(s) = IF IsFinal(s) THEN "ended" ELSE "active"
    BY ConstantsAssumption DEF LifeOf, Inv, ServeInv
  <1>4. LifeOf(s)' = IF phase \in Final THEN "ended" ELSE "active"
    BY <1>1 DEF LifeOf, IsFinal, Phases
  <1>5. CASE ~IsFinal(s) /\ phase \in Final
    <2>1. Life[s] = "active" /\ LifeOf(s)' = "ended"
      BY <1>3, <1>4, <1>5 DEF Life
    <2>2. Life' = [Life EXCEPT ![s] = "ended"]
      BY <1>2, <2>1 DEF Life
    <2>3. Turns!End(s)
      BY <2>1, <2>2 DEF Turns!End
    <2> QED
      BY <2>3 DEF Turns!Next
  <1>6. CASE IsFinal(s) \/ phase \notin Final
    <2>1. LifeOf(s)' = LifeOf(s)
      BY <1>3, <1>4, <1>6
    <2> QED
      BY <1>2, <2>1, LifeKept
  <1> QED
    BY <1>5, <1>6

\* A session is marked when all that were active have ended.
LEMMA MarkTurns ==
  ASSUME Inv, NEW p \in Starters, Mark(p)
  PROVE  [Turns!Next]_Life
  <1> DEFINE s == starter[p].name
  <1>1. NoneActive /\ s \in Names /\ marker' = s /\ UNCHANGED state
    BY MarkPreserves DEF Mark, sessionVars, Inv, TypeOK, LockInv
  <1>2. \A t \in Names : ~IsFinal(t) => marker # t /\ state[t].phase \notin Unended
    BY <1>1, ConstantsAssumption DEF NoneActive, Inv, ActiveMarked
  <1>3. ASSUME NEW t \in Names
        PROVE  LifeOf(t) = IF IsFinal(t) THEN "ended" ELSE "new"
    BY <1>2 DEF LifeOf
  <1>4. \A t \in Names : IsFinal(t)' = IsFinal(t)
    BY <1>1 DEF IsFinal
  <1>5. \A t \in Names : LifeOf(t)' = IF IsFinal(t) THEN "ended" ELSE IF t = s THEN "active" ELSE "new"
    BY <1>1, <1>2, <1>4 DEF LifeOf
  <1>6. CASE IsFinal(s)
    <2>1. \A t \in Names : LifeOf(t)' = LifeOf(t)
      BY <1>3, <1>5, <1>6
    <2> QED
      BY <2>1, LifeKept
  <1>7. CASE ~IsFinal(s)
    <2>1. Life[s] = "new" /\ \A t \in Names : Life[t] # "active"
      BY <1>1, <1>3, <1>7 DEF Life
    <2>2. Life' = [Life EXCEPT ![s] = "active"]
      BY <1>1, <1>3, <1>5, <1>7 DEF Life
    <2>3. Turns!Start(s)
      BY <2>1, <2>2 DEF Turns!Start
    <2> QED
      BY <1>1, <2>3 DEF Turns!Next
  <1> QED
    BY <1>6, <1>7

LEMMA TurnsStep == Inv /\ [Next]_vars => [Turns!Next]_Life
  <1> SUFFICES ASSUME Inv, [Next]_vars
               PROVE  [Turns!Next]_Life
    OBVIOUS
  <1>1. CASE \E p \in Starters : Mark(p)
    BY <1>1, MarkTurns
  <1>2. CASE \E phase \in Phases \ {"absent"} :
               Save(phase) /\ Ticking /\ (IsFinal(serving) => phase \in Final)
    <2> PICK phase \in Phases \ {"absent"} :
               Save(phase) /\ Ticking /\ (IsFinal(serving) => phase \in Final)
      BY <1>2
    <2>1. serving \in Names /\ marker' = marker
          /\ state' = [state EXCEPT ![serving] = [phase |-> phase, updated |-> clock + 1]]
      BY DEF Save, Ticking, Inv, TypeOK
    <2> QED
      BY <2>1, SaveTurns
  <1>3. CASE Commit
    <2>1. serving \in Names /\ marker' = marker /\ ~IsFinal(serving)
          /\ state' = [state EXCEPT ![serving] = [phase |-> "bare", updated |-> 0]]
      BY <1>3 DEF Commit, Phase, IsFinal, Final, Verdicts, engineVars, Inv, TypeOK
    <2>2. "bare" \in Phases \ {"absent"}
      BY DEF Phases, Unended
    <2> QED
      BY <2>1, <2>2, SaveTurns
  <1>4. CASE Leave
    <2>1. UNCHANGED state /\ marker' \in {marker, NoName} /\ (marker' # marker => IsFinal(marker))
      BY <1>4 DEF Leave, sessionVars
    <2>2. \A t \in Names : LifeOf(t)' = LifeOf(t)
      BY <2>1, ConstantsAssumption DEF LifeOf, IsFinal
    <2> QED
      BY <2>2, LifeKept
  <1>5. CASE Work \/ Checkpoint \/ Grant \/ Stop
    <2>1. Work => \E phase \in Phases \ {"absent"} : Save(phase) /\ Ticking /\ ~IsFinal(serving)
      BY DEF Work, Phases, Unended, Phase, IsFinal, Final, Verdicts
    <2>2. Checkpoint \/ Grant => Save("working") /\ Ticking /\ ~IsFinal(serving)
      BY DEF Checkpoint, Grant, Phase, IsFinal, Final, Verdicts
    <2>3. Stop => Save("STOPPED") /\ Ticking
      BY DEF Stop
    <2>4. {"working", "STOPPED"} \subseteq Phases \ {"absent"} /\ "STOPPED" \in Final
      BY DEF Phases, Unended, Final
    <2> QED
      BY <1>2, <1>5, <2>1, <2>2, <2>3, <2>4
  <1>6. CASE UNCHANGED <<marker, state>>
    BY <1>6, LifeFrame
  <1> QED
    BY <1>1, <1>2, <1>3, <1>4, <1>5, <1>6
       DEF Next, StartStep, EngineStep, CliStep, Ask, Decide, Create, StartDies, Boot, Idle, Dies,
           WriteReport, WriteEvent, ReadRounds, ReadState, CliReport, CliEvent, vars, sessionVars

\* One session at a time is debated, from its marker to its end, and none that has ended
\* is debated again, though starts, engines and commands meet in any order (_start,
\* _serve).
THEOREM SessionsTakeTurns == Spec => TakesTurns
  <1>1. Init => Turns!Init
    BY ConstantsAssumption DEF Init, Turns!Init, Life, LifeOf, IsFinal, Final, Verdicts, Unended
  <1> QED
    BY Invariant, TurnsStep, <1>1, PTL DEF Spec, TakesTurns, Turns!Spec
=============================================================================
