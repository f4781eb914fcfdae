------------------------------ MODULE LimitGate ------------------------------
(***************************************************************************)
(* The limit gate: before a reviewer starts, the engine reads the windows  *)
(* of both subscription accounts (Engine._gate through WorkerPool.limits), *)
(* lets limits.decide_round_start judge the two readings, and starts the   *)
(* review or pauses until a time it computes (_pause, tick).               *)
(*                                                                         *)
(* Time is discrete and kept relative to now: a window holds the time until*)
(* it is over (negative when it is over and the provider still shows it),  *)
(* a reading its age, a pause the time left.  A reading shows what was left*)
(* and when the window will be over as seen when it was taken.             *)
(*                                                                         *)
(* Checkpoints, retries, round limits and commands are in SessionEngine;   *)
(* here rounds follow one another for ever.                                *)
(***************************************************************************)
EXTENDS Integers

CONSTANTS
  Full,         \* a window of which nothing is used (100 percent)
  Minimum,      \* limits.minimum_remaining_percent
  MaxAge,       \* limits.max_age_seconds
  ReadTimeout,  \* how long the client waits for a reading
  Recheck,      \* the wait after an unknown limit
  Guard,        \* added to the reset of a blocking window
  Resolution,   \* DISPLAY_RESOLUTION of Claude's reset times
  Day,          \* a time of day shown without its date comes round again
  FiveHours,    \* length of the five-hour window
  Week,         \* length of the other window
  MaxFaults     \* bound on disturbances

Reviewers == {"A", "B"}   \* A is Claude, B is Codex
Windows   == {"five_hour", "other"}
Accounts  == Reviewers \X Windows

ASSUME TimesAssumption ==
  /\ Minimum \in 0 .. Full /\ Full \in Nat \ {0}
  /\ MaxAge \in Nat /\ ReadTimeout \in Nat
  /\ Recheck \in Nat /\ Guard \in Nat
  /\ Resolution \in Nat \ {0} /\ Day \in Nat
  /\ FiveHours \in Nat \ {0} /\ Week \in Nat /\ FiveHours <= Week
  /\ MaxFaults \in Nat

VARIABLES
  left,      \* what the provider has left in each window
  over,      \* the time until each window is over
  phase,     \* Engine.state["phase"]
  wait,      \* the time until the pause's next_check_at
  pc,        \* "rest", or the reviewer whose limits are being read
  sample,    \* the readings of the gate
  elapsed,   \* the time the reading has taken
  faults,    \* disturbances so far
  since,     \* how long ago each reviewer last had enough left
  blocking   \* windows read as too low that are not over yet

engine == <<phase, wait, pc, sample, elapsed>>
vars   == <<left, over, engine, faults, since, blocking>>

Low     == "PAUSED_LIMIT_LOW"
Unknown == "PAUSED_LIMIT_UNKNOWN"
Pauses  == {Low, Unknown}
Reviews == {"REVIEWING_A", "REVIEWING_B"}
Phases  == Pauses \cup Reviews \cup {"READY"}

Samples   == [age : Nat, left : [Windows -> 0 .. Full], reset : [Windows -> Int]]
NoSample  == [age |-> 0, left |-> [w \in {} |-> 0], reset |-> [w \in {} |-> 0]]
NoSamples == [r \in Reviewers |-> NoSample]

\* What a window must have left: the five-hour window the configured minimum, any
\* other one must not be exhausted.
Needs(w) == IF w = "five_hour" THEN Minimum ELSE 1

Length(w) == IF w = "five_hour" THEN FiveHours ELSE Week

Enough(r, l) == \A w \in Windows : l[<<r, w>>] >= Needs(w)

Disturbed == faults < MaxFaults /\ faults' = faults + 1

-----------------------------------------------------------------------------
(* A reading.  *)

\* Mutant: the reset is taken for what the display shows.
ShownAsExact(r, w) ==
  IF r = "B" THEN {over[<<r, w>>]}
  ELSE {over[<<r, w>>] - k : k \in 0 .. Resolution - 1}

\* Mutant: a reset the display shows as passed is tomorrow's, even if it is not yet.
ShownTomorrow(r, w) ==
  IF r = "B" THEN {over[<<r, w>>]}
  ELSE {IF w = "five_hour" /\ t <= Resolution THEN t + Day ELSE t :
          t \in {over[<<r, w>>] - k + Resolution : k \in 0 .. Resolution - 1}}

\* When the window will be over, as the reading has it.  Codex tells the time;
\* Claude's display is cut to the resolution, which the parser adds again, and the
\* five-hour window is shown by the time of day: one that has passed is tomorrow's.
Shown(r, w) ==
  IF r = "B" THEN {over[<<r, w>>]}
  ELSE {IF w = "five_hour" /\ t <= 0 THEN t + Day ELSE t :
          t \in {over[<<r, w>>] - k + Resolution : k \in 0 .. Resolution - 1}}

Observe(r) ==
  /\ pc = r
  /\ sample[r] = NoSample
  /\ \E five \in Shown(r, "five_hour"), other \in Shown(r, "other") :
       sample' = [sample EXCEPT ![r] =
         [age   |-> 0,
          left  |-> [w \in Windows |-> left[<<r, w>>]],
          reset |-> [w \in Windows |-> IF w = "five_hour" THEN five ELSE other]]]
  /\ blocking' = blocking \cup {a \in Accounts : /\ a[1] = r
                                                 /\ left[a] < Needs(a[2]) /\ over[a] > 0}
  /\ UNCHANGED <<left, over, phase, wait, pc, elapsed, faults, since>>

-----------------------------------------------------------------------------
(* decide_round_start, of the two readings. *)

\* The time left until the reset in reading s of window w.
Until(s, w) == s.reset[w] - s.age

TooLow(s, w) == s.left[w] < Needs(w)

\* _required_sample_error, and an exhausted window that should be over.
Invalid(s) ==
  \/ s.age > MaxAge
  \/ Until(s, "five_hour") <= 0
  \/ TooLow(s, "other") /\ Until(s, "other") <= 0

Verified == \A r \in Reviewers : ~Invalid(sample[r])

\* Mutant: only the five-hour windows block.
BlockersFiveHour == {a \in Accounts : a[2] = "five_hour" /\ TooLow(sample[a[1]], a[2])}

Blockers == {a \in Accounts : TooLow(sample[a[1]], a[2])}
Resets   == {Until(sample[a[1]], a[2]) : a \in Blockers}

\* The gate is done with its readings.
Decided == pc' = "rest" /\ elapsed' = 0 /\ sample' = NoSamples

\* Which review the gate was asked about.
Started == IF phase = "REVIEWING_A" THEN "REVIEWING_B" ELSE "REVIEWING_A"

Allow ==
  /\ Verified /\ Blockers = {}
  /\ phase' = Started /\ wait' = 0
  /\ blocking' = {}
  /\ Decided

PauseLow ==
  /\ Verified
  /\ \E latest \in Resets : /\ \A t \in Resets : t <= latest
                            /\ wait' = latest + Guard
  /\ phase' = Low
  /\ UNCHANGED blocking
  /\ Decided

PauseUnknown == phase' = Unknown /\ wait' = Recheck /\ blocking' = {} /\ Decided

-----------------------------------------------------------------------------
(* The engine. *)

\* Mutant: an unknown limit is not looked at again.
AskGateWhenKnown ==
  /\ pc = "rest"
  /\ phase = "READY" \/ (phase = Low /\ wait = 0)
  /\ pc' = "A"
  /\ blocking' = {}
  /\ UNCHANGED <<left, over, phase, wait, sample, elapsed, faults, since>>

\* A tick that asks the gate: at once, when a pause is over, or when A has answered.
AskGate ==
  /\ pc = "rest"
  /\ phase = "READY" \/ (phase \in Pauses /\ wait = 0)
  /\ pc' = "A"
  /\ blocking' = {}
  /\ UNCHANGED <<left, over, phase, wait, sample, elapsed, faults, since>>

\* A review is over; it has used its account.
Consumes(r) ==
  /\ \E l \in [Accounts -> 0 .. Full] :
       /\ \A a \in Accounts : l[a] <= left[a] /\ (a[1] # r => l[a] = left[a])
       /\ left' = l
  /\ UNCHANGED <<over, wait, sample, elapsed, faults, since>>

AnswerA ==
  /\ pc = "rest" /\ phase = "REVIEWING_A"
  /\ Consumes("A")
  /\ pc' = "A"
  /\ UNCHANGED <<phase, blocking>>

AnswerB ==
  /\ pc = "rest" /\ phase = "REVIEWING_B"
  /\ Consumes("B")
  /\ phase' = "READY"
  /\ UNCHANGED <<pc, blocking>>

\* _failure: the provider's own rate limit pauses.
RateLimited ==
  /\ pc = "rest" /\ phase \in Reviews
  /\ Disturbed
  /\ PauseUnknown
  /\ UNCHANGED <<left, over, since>>

\* A review fails, or the engine dies: the attempt is given up, a pause is kept.
AttemptLost ==
  /\ Disturbed
  /\ phase' = IF phase \in Reviews THEN "READY" ELSE phase
  /\ blocking' = IF pc = "rest" THEN blocking ELSE {}
  /\ Decided
  /\ UNCHANGED <<left, over, wait, since>>

\* WorkerPool.limits reads A's limits, then B's, and raises if one does not come;
\* a worker that cannot tell says so.
ReadA ==
  /\ pc = "A"
  /\ sample["A"] # NoSample
  /\ pc' = "B" /\ elapsed' = 0
  /\ UNCHANGED <<left, over, phase, wait, sample, faults, since, blocking>>

Decide ==
  /\ pc = "B"
  /\ sample["B"] # NoSample
  /\ Allow \/ PauseLow \/ (~Verified /\ PauseUnknown)
  /\ UNCHANGED <<left, over, faults, since>>

ReadFails ==
  /\ pc \in Reviewers
  /\ Disturbed
  /\ PauseUnknown
  /\ UNCHANGED <<left, over, since>>

-----------------------------------------------------------------------------
(* The accounts and the clock. *)

\* The account is used from elsewhere.
UsedElsewhere ==
  /\ Disturbed
  /\ \E a \in Accounts : left[a] > 0 /\ left' = [left EXCEPT ![a] = @ - 1]
  /\ UNCHANGED <<over, engine, since, blocking>>

Ending == {a \in Accounts : over[a] <= 1}

\* A window that is over begins anew, unless the provider is late to show it.
Renew(late) ==
  /\ left' = [a \in Accounts |-> IF a \in Ending \ late THEN Full ELSE left[a]]
  /\ over' = [a \in Accounts |-> IF a \in Ending \ late THEN Length(a[2]) ELSE over[a] - 1]

Least(m, n) == IF m <= n THEN m ELSE n

Tick ==
  /\ \/ pc = "rest"
     \/ elapsed < ReadTimeout
  /\ \E late \in SUBSET Ending :
       /\ IF late = {} /\ pc = "rest" THEN UNCHANGED faults ELSE Disturbed
       /\ Renew(late)
  /\ wait' = IF wait > 0 THEN wait - 1 ELSE wait
  /\ elapsed' = IF pc = "rest" THEN elapsed ELSE elapsed + 1
  /\ sample' = [r \in Reviewers |-> IF sample[r] = NoSample THEN NoSample
                                     ELSE [sample[r] EXCEPT !.age = @ + 1]]
  /\ since' = [r \in Reviewers |-> IF Enough(r, left') THEN 0
                                    ELSE Least(since[r] + 1, MaxAge + 1)]
  /\ blocking' = blocking \ Ending
  /\ UNCHANGED <<phase, pc>>

-----------------------------------------------------------------------------

Init ==
  /\ left \in [Accounts -> 0 .. Full]
  /\ over \in [Accounts -> 1 .. Week] /\ \A a \in Accounts : over[a] <= Length(a[2])
  /\ phase = "READY" /\ wait = 0
  /\ pc = "rest" /\ sample = NoSamples /\ elapsed = 0
  /\ faults = 0
  /\ since = [r \in Reviewers |-> IF Enough(r, left) THEN 0 ELSE MaxAge + 1]
  /\ blocking = {}

Gate  == AskGate \/ ReadA \/ Decide \/ \E r \in Reviewers : Observe(r)
Round == AnswerA \/ AnswerB \/ RateLimited \/ AttemptLost

Next == Gate \/ Round \/ ReadFails \/ UsedElsewhere \/ Tick

Spec == Init /\ [][Next]_vars

-----------------------------------------------------------------------------
(* Properties. *)

TypeOK ==
  /\ left \in [Accounts -> 0 .. Full]
  /\ over \in [Accounts -> Int]
  /\ phase \in Phases
  /\ wait \in Nat
  /\ pc \in Reviewers \cup {"rest"}
  /\ sample \in [Reviewers -> Samples \cup {NoSample}]
  /\ pc = "rest" => sample = NoSamples
  /\ pc = "A" => sample["B"] = NoSample
  /\ elapsed \in 0 .. ReadTimeout
  /\ faults \in 0 .. MaxFaults
  /\ since \in [Reviewers -> 0 .. MaxAge + 1]
  /\ blocking \subseteq Accounts

\* When a review starts, each reviewer's account had enough left in every window not
\* longer than max_age ago: readings that fail, are late, come from before a reset
\* or belong to one reviewer only start nothing.
EnoughAtStart ==
  [][phase' \in Reviews /\ phase' # phase => \A r \in Reviewers : since[r] <= MaxAge]_vars

\* A pause for low limits ends after every window that was found too low is over,
\* however the two accounts' windows overlap and the display is rounded.
LowPauseOutlasts ==
  phase = Low /\ pc = "rest" /\ wait = 0 => blocking = {}

\* A low pause is no longer than one of the windows too low makes it: up to a
\* resolution and the guard after the window is over, or after the decision when it
\* was over by then.  Only Claude's five-hour window may, once over and still
\* shown, be waited for until the same time of the next day.
LowPausePrompt ==
  [][phase' = Low /\ wait' > wait =>
       \E a \in Blockers :
         IF a \in blocking THEN wait' <= over[a] + Resolution + Guard
         ELSE \/ wait' <= Resolution + Guard
              \/ a = <<"A", "five_hour">> /\ wait' <= Day + Guard]_vars

\* The engine and the clock go on.
FairSpec == Spec /\ WF_vars(Gate) /\ WF_vars(AnswerA \/ AnswerB) /\ WF_vars(Tick)

\* A pause is not for ever: with finitely many disturbances a review starts again.
PausesEnd == phase \in Pauses ~> phase \in Reviews

\* "Retries after 60, 120, 240, at most 900 seconds": an unknown limit that follows
\* an unknown limit waits longer.
UnknownBacksOff ==
  [][phase = Unknown /\ pc # "rest" /\ phase' = Unknown /\ wait' > 0 => wait' > Recheck]_vars
=============================================================================
