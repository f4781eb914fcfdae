--------------------------- MODULE LimitGate_proofs ---------------------------
(***************************************************************************)
(* Theorems about LimitGate, for all times, thresholds and disturbances.   *)
(*                                                                         *)
(* A reading is true when it is taken.  What it says about the past stays  *)
(* true with its age, and what it says about a reset is never too early.   *)
(***************************************************************************)
EXTENDS LimitGate, TLAPS

Taken(r) == sample[r] # NoSample

\* since is what it is called, and a reading that shows enough left is as old as
\* that or older.
Since_Inv ==
  \A r \in Reviewers :
    /\ Enough(r, left) => since[r] = 0
    /\ Taken(r) /\ (\A w \in Windows : ~TooLow(sample[r], w)) => since[r] <= sample[r].age

\* A window found too low is over by the time its reading tells, and by the end of
\* the pause it leads to.
Blocking_Inv ==
  /\ pc = "rest" /\ phase # Low => blocking = {}
  /\ \A a \in blocking :
       /\ over[a] > 0
       /\ pc = "rest" => over[a] <= wait
       /\ pc # "rest" => /\ Taken(a[1]) /\ TooLow(sample[a[1]], a[2])
                         /\ over[a] <= Until(sample[a[1]], a[2])

\* A reading that shows too little tells no later end than the window's own and a
\* resolution; of one that was over when read, or is over since, no later one than a
\* resolution from now, or the next day's.
Prompt_Inv ==
  \A a \in Accounts :
    Taken(a[1]) /\ TooLow(sample[a[1]], a[2]) =>
      IF a \in blocking THEN Until(sample[a[1]], a[2]) <= over[a] + Resolution
      ELSE \/ Until(sample[a[1]], a[2]) <= Resolution
           \/ a = <<"A", "five_hour">> /\ Until(sample[a[1]], a[2]) <= Day

IInv ==
  /\ TypeOK
  /\ pc = "B" => Taken("A")
  /\ Since_Inv
  /\ Blocking_Inv
  /\ Prompt_Inv

-----------------------------------------------------------------------------

\* A reading is told from none.
LEMMA ReadingIsOne == ASSUME NEW s \in Samples PROVE s # NoSample
<1>1. "other" \in DOMAIN s.left
  BY DEF Samples, Windows
<1>2. "other" \notin DOMAIN NoSample.left
  BY DEF NoSample
<1>3. QED
  BY <1>1, <1>2

\* What is read of a window's end is not before it.
LEMMA ShownLater ==
  ASSUME NEW r \in Reviewers, NEW w \in Windows, over[<<r, w>>] \in Int,
         NEW t \in Shown(r, w)
  PROVE  t \in Int /\ (over[<<r, w>>] > 0 => t >= over[<<r, w>>])
<1> DEFINE o == over[<<r, w>>]
<1>1. CASE r = "B"
  BY <1>1 DEF Shown
<1>2. CASE r = "A"
  <2>1. PICK u \in {o - k + Resolution : k \in 0 .. Resolution - 1} :
          t = IF w = "five_hour" /\ u <= 0 THEN u + Day ELSE u
    BY <1>2 DEF Shown
  <2>2. u \in Int /\ u > o
    BY <2>1, TimesAssumption
  <2>3. QED
    BY <2>1, <2>2, TimesAssumption
<1>3. QED
  BY <1>1, <1>2 DEF Reviewers

\* What is read of a window's end is at most a resolution after it; of a window that
\* is over, at most a resolution away, or a day for the one shown by time of day.
LEMMA ShownSoon ==
  ASSUME NEW r \in Reviewers, NEW w \in Windows, over[<<r, w>>] \in Int,
         NEW t \in Shown(r, w)
  PROVE  IF over[<<r, w>>] > 0 THEN t <= over[<<r, w>>] + Resolution
         ELSE \/ t <= Resolution
              \/ <<r, w>> = <<"A", "five_hour">> /\ t <= Day
<1> DEFINE o == over[<<r, w>>]
<1>1. CASE r = "B"
  BY <1>1, TimesAssumption DEF Shown
<1>2. CASE r = "A"
  <2>1. PICK k \in 0 .. Resolution - 1 :
          t = IF w = "five_hour" /\ o - k + Resolution <= 0 THEN o - k + Resolution + Day
              ELSE o - k + Resolution
    BY <1>2 DEF Shown
  <2>2. QED
    BY <1>2, <2>1, TimesAssumption
<1>3. QED
  BY <1>1, <1>2 DEF Reviewers

\* The end of a gate, whatever it decides.
LEMMA NoReadings == NoSamples \in [Reviewers -> Samples \cup {NoSample}]
                    /\ \A r \in Reviewers : NoSamples[r] = NoSample
BY DEF NoSamples

-----------------------------------------------------------------------------

LEMMA InitIInv == Init => IInv
<1> SUFFICES ASSUME Init PROVE IInv
  OBVIOUS
<1>1. since \in [Reviewers -> 0 .. MaxAge + 1]
  BY TimesAssumption DEF Init
<1>2. over \in [Accounts -> Int]
  <2>1. over \in [Accounts -> 1 .. Week]
    BY DEF Init
  <2>2. QED
    BY <2>1, TimesAssumption
<1>3. TypeOK
  BY <1>1, <1>2, NoReadings, TimesAssumption DEF Init, TypeOK, Phases
<1>4. Since_Inv
  BY NoReadings DEF Init, Since_Inv, Taken
<1>5. Prompt_Inv
  BY NoReadings DEF Init, Prompt_Inv, Taken, Accounts
<1>6. QED
  BY <1>3, <1>4, <1>5 DEF Init, IInv, Blocking_Inv

\* What ends a gate or a review and finds nothing too low, or forgets what it found.
LEMMA DecidedStep ==
  ASSUME IInv, Decided, blocking' = {}, UNCHANGED <<left, over, since>>,
         phase' \in Phases, wait' \in Nat, faults' \in 0 .. MaxFaults
  PROVE  IInv'
<1>1. TypeOK'
  BY NoReadings, TimesAssumption DEF IInv, TypeOK, Decided
<1>2. Since_Inv'
  BY NoReadings DEF IInv, Since_Inv, Decided, Taken, Enough
<1>3. Prompt_Inv'
  BY NoReadings DEF Decided, Prompt_Inv, Taken, Accounts
<1>4. QED
  BY <1>1, <1>2, <1>3 DEF IInv, Decided, Blocking_Inv

LEMMA ObserveStep ==
  ASSUME IInv, NEW r \in Reviewers, Observe(r)
  PROVE  IInv'
<1>1. PICK five \in Shown(r, "five_hour"), other \in Shown(r, "other") :
        sample' = [sample EXCEPT ![r] =
          [age   |-> 0,
           left  |-> [w \in Windows |-> left[<<r, w>>]],
           reset |-> [w \in Windows |-> IF w = "five_hour" THEN five ELSE other]]]
  BY DEF Observe
<1> DEFINE s == [age   |-> 0,
                 left  |-> [w \in Windows |-> left[<<r, w>>]],
                 reset |-> [w \in Windows |-> IF w = "five_hour" THEN five ELSE other]]
<1>2. /\ sample \in [Reviewers -> Samples \cup {NoSample}]
      /\ over \in [Accounts -> Int] /\ left \in [Accounts -> 0 .. Full]
      /\ pc = r /\ sample[r] = NoSample
      /\ UNCHANGED <<left, over, phase, wait, pc, elapsed, faults, since>>
  BY DEF Observe, IInv, TypeOK
<1>3. \A w \in Windows : <<r, w>> \in Accounts
  BY DEF Accounts
<1>4. /\ five \in Int /\ (over[<<r, "five_hour">>] > 0 => five >= over[<<r, "five_hour">>])
      /\ other \in Int /\ (over[<<r, "other">>] > 0 => other >= over[<<r, "other">>])
  <2>1. over[<<r, "five_hour">>] \in Int /\ over[<<r, "other">>] \in Int
    BY <1>2, <1>3 DEF Windows
  <2>2. QED
    BY <2>1, ShownLater DEF Windows
<1>5. s \in Samples /\ s # NoSample
  <2>1. s \in Samples
    BY <1>2, <1>3, <1>4 DEF Samples
  <2>2. QED
    BY <2>1, ReadingIsOne
<1>6. /\ sample'[r] = s
      /\ \A q \in Reviewers : q # r => sample'[q] = sample[q]
      /\ sample' \in [Reviewers -> Samples \cup {NoSample}]
  BY <1>1, <1>2, <1>5
<1>7. \A w \in Windows :
        /\ TooLow(s, w) <=> left[<<r, w>>] < Needs(w)
        /\ over[<<r, w>>] > 0 => over[<<r, w>>] <= Until(s, w)
  BY <1>2, <1>3, <1>4 DEF TooLow, Until, Windows
<1>8. s.age = 0
  OBVIOUS
<1> HIDE DEF s
<1>9. TypeOK'
  <2>1. blocking' \subseteq Accounts
    BY DEF Observe, IInv, TypeOK
  <2>2. pc = "A" => sample'["B"] = NoSample
    BY <1>2, <1>6 DEF IInv, TypeOK, Reviewers
  <2>3. QED
    BY <1>2, <1>6, <2>1, <2>2 DEF IInv, TypeOK, Reviewers
<1>10. (pc = "B" => Taken("A"))'
  BY <1>2, <1>6, <1>5 DEF IInv, Taken, Reviewers
<1>11. Since_Inv'
  <2> SUFFICES ASSUME NEW q \in Reviewers
               PROVE  /\ Enough(q, left)' => since'[q] = 0
                      /\ Taken(q)' /\ (\A w \in Windows : ~TooLow(sample'[q], w))
                           => since'[q] <= sample'[q].age
    BY DEF Since_Inv
  <2>1. Enough(q, left)' => since'[q] = 0
    BY <1>2 DEF IInv, Since_Inv, Enough
  <2>2. CASE q # r
    BY <2>1, <2>2, <1>2, <1>6 DEF IInv, Since_Inv, Taken
  <2>3. CASE q = r
    <3>1. (\A w \in Windows : ~TooLow(s, w)) => Enough(r, left)
      <4>1. \A w \in Windows : left[<<r, w>>] \in Int /\ Needs(w) \in Int
        BY <1>2, <1>3, TimesAssumption DEF Needs
      <4>2. QED
        BY <4>1, <1>7 DEF Enough
    <3>2. QED
      BY <2>1, <2>3, <3>1, <1>2, <1>6, <1>8
  <2>4. QED
    BY <2>2, <2>3
<1>12. Blocking_Inv'
  <2> SUFFICES ASSUME NEW a \in blocking'
               PROVE  /\ over'[a] > 0
                      /\ Taken(a[1])' /\ TooLow(sample'[a[1]], a[2])
                      /\ over'[a] <= Until(sample'[a[1]], a[2])
    BY <1>2 DEF Blocking_Inv, Reviewers
  <2>1. CASE a \in blocking
    <3>1. a \in Accounts /\ over[a] > 0 /\ Taken(a[1]) /\ TooLow(sample[a[1]], a[2])
          /\ over[a] <= Until(sample[a[1]], a[2])
      BY <2>1, <1>2 DEF IInv, TypeOK, Blocking_Inv, Reviewers
    <3>2. a[1] \in Reviewers /\ a[1] # r
      BY <3>1, <1>2 DEF Taken, Accounts
    <3>3. QED
      BY <3>1, <3>2, <1>2, <1>6 DEF Taken
  <2>2. CASE a \notin blocking
    <3>1. a \in Accounts /\ a[1] = r /\ left[a] < Needs(a[2]) /\ over[a] > 0
      BY <2>2 DEF Observe
    <3>2. PICK w \in Windows : a = <<r, w>>
      BY <3>1 DEF Accounts
    <3>3. QED
      BY <3>1, <3>2, <1>2, <1>5, <1>6, <1>7 DEF Taken
  <2>3. QED
    BY <2>1, <2>2
<1>13. Prompt_Inv'
  <2> SUFFICES ASSUME NEW a \in Accounts, Taken(a[1])', TooLow(sample'[a[1]], a[2])
               PROVE  IF a \in blocking'
                      THEN Until(sample'[a[1]], a[2]) <= over'[a] + Resolution
                      ELSE \/ Until(sample'[a[1]], a[2]) <= Resolution
                           \/ a = <<"A", "five_hour">> /\ Until(sample'[a[1]], a[2]) <= Day
    BY DEF Prompt_Inv
  <2>1. PICK q \in Reviewers, w \in Windows : a = <<q, w>>
    BY DEF Accounts
  <2>2. over' = over
    BY <1>2
  <2>3. CASE q # r
    <3>1. a \in blocking' <=> a \in blocking
      BY <2>1, <2>3 DEF Observe
    <3>2. sample'[q] = sample[q]
      BY <1>6, <2>1, <2>3
    <3>3. QED
      BY <2>1, <2>2, <3>1, <3>2 DEF IInv, Prompt_Inv, Taken
  <2>4. CASE q = r
    <3>1. a \in blocking' <=> over[a] > 0
      <4>1. \A b \in blocking : b[1] # r
        BY <1>2 DEF IInv, TypeOK, Blocking_Inv, Taken, Reviewers
      <4>2. left[a] < Needs(w)
        BY <1>6, <1>7, <2>1, <2>4
      <4>3. QED
        BY <2>1, <2>4, <4>1, <4>2 DEF Observe
    <3>2. Until(s, w) = IF w = "five_hour" THEN five ELSE other
      BY <1>4 DEF s, Until
    <3>3. over[<<r, w>>] \in Int
      BY <1>2, <1>3
    <3>4. Until(s, w) \in Shown(r, w)
      BY <3>2 DEF Windows
    <3>5. IF over[<<r, w>>] > 0 THEN Until(s, w) <= over[<<r, w>>] + Resolution
          ELSE \/ Until(s, w) <= Resolution
               \/ <<r, w>> = <<"A", "five_hour">> /\ Until(s, w) <= Day
      BY <3>3, <3>4, ShownSoon
    <3>6. QED
      BY <1>6, <2>1, <2>2, <2>4, <3>1, <3>5
  <2>5. QED
    BY <2>3, <2>4
<1>14. QED
  BY <1>9, <1>10, <1>11, <1>12, <1>13 DEF IInv

LEMMA AskGateStep == ASSUME IInv, AskGate PROVE IInv'
<1>1. TypeOK' /\ Since_Inv'
  BY NoReadings DEF AskGate, IInv, TypeOK, Since_Inv, Taken, Enough, Reviewers
<1>2. Prompt_Inv'
  BY NoReadings DEF AskGate, IInv, TypeOK, Prompt_Inv, Taken, Accounts
<1>3. QED
  BY <1>1, <1>2 DEF AskGate, IInv, Blocking_Inv

\* Use takes away what is left, so what is enough afterwards was enough before.
LEMMA UsedStep ==
  ASSUME IInv, left' \in [Accounts -> 0 .. Full], \A a \in Accounts : left'[a] <= left[a],
         UNCHANGED <<over, sample, since>>
  PROVE  Since_Inv'
<1> SUFFICES ASSUME NEW r \in Reviewers, Enough(r, left') PROVE since'[r] = 0
  BY DEF IInv, Since_Inv, Taken
<1>1. \A w \in Windows : left[<<r, w>>] >= Needs(w)
  <2> SUFFICES ASSUME NEW w \in Windows PROVE left[<<r, w>>] >= Needs(w)
    OBVIOUS
  <2>1. <<r, w>> \in Accounts /\ Needs(w) \in Int
    BY TimesAssumption DEF Accounts, Needs
  <2>2. left[<<r, w>>] \in Int /\ left'[<<r, w>>] \in Int
    BY <2>1 DEF IInv, TypeOK
  <2>3. left'[<<r, w>>] >= Needs(w)
    BY DEF Enough
  <2>4. QED
    BY <2>1, <2>2, <2>3
<1>2. QED
  BY <1>1 DEF IInv, Since_Inv, Enough

LEMMA AnswerStep == ASSUME IInv, AnswerA \/ AnswerB PROVE IInv'
<1>1. /\ left' \in [Accounts -> 0 .. Full] /\ \A a \in Accounts : left'[a] <= left[a]
      /\ UNCHANGED <<over, wait, sample, elapsed, faults, since, blocking>>
      /\ pc = "rest" /\ pc' \in {"rest", "A"}
      /\ phase \in Reviews /\ phase' \in Reviews \cup {"READY"}
  BY DEF AnswerA, AnswerB, Consumes, Reviews
<1>2. Since_Inv'
  BY <1>1, UsedStep
<1>3. blocking = {}
  BY <1>1 DEF IInv, Blocking_Inv, Reviews, Low
<1>4. TypeOK'
  BY <1>1, NoReadings DEF IInv, TypeOK, Phases, Reviewers
<1>5. Prompt_Inv'
  BY <1>1 DEF IInv, Prompt_Inv, Taken
<1>6. QED
  BY <1>1, <1>2, <1>3, <1>4, <1>5, NoReadings DEF IInv, TypeOK, Blocking_Inv

LEMMA UsedElsewhereStep == ASSUME IInv, UsedElsewhere PROVE IInv'
<1>1. PICK b \in Accounts : left[b] > 0 /\ left' = [left EXCEPT ![b] = @ - 1]
  BY DEF UsedElsewhere
<1>2. left' \in [Accounts -> 0 .. Full] /\ \A a \in Accounts : left'[a] <= left[a]
  BY <1>1, TimesAssumption DEF IInv, TypeOK
<1>3. faults' \in 0 .. MaxFaults
  BY TimesAssumption DEF UsedElsewhere, Disturbed, IInv, TypeOK
<1>4. UNCHANGED <<over, phase, wait, pc, sample, elapsed, since, blocking>>
  BY DEF UsedElsewhere, engine
<1>5. Since_Inv'
  BY <1>2, <1>4, UsedStep
<1>6. QED
  BY <1>2, <1>3, <1>4, <1>5 DEF IInv, TypeOK, Blocking_Inv, Prompt_Inv, Taken

LEMMA InterruptedStep == ASSUME IInv, RateLimited \/ AttemptLost \/ ReadFails PROVE IInv'
<1>1. faults' \in 0 .. MaxFaults
  BY TimesAssumption DEF RateLimited, AttemptLost, ReadFails, Disturbed, IInv, TypeOK
<1>2. CASE RateLimited \/ ReadFails
  BY <1>1, <1>2, DecidedStep, TimesAssumption
     DEF RateLimited, ReadFails, PauseUnknown, Phases, Pauses
<1>3. CASE AttemptLost
  <2>1. phase' \in Phases /\ wait' \in Nat /\ Decided /\ UNCHANGED <<left, over, since, wait>>
    BY <1>3 DEF AttemptLost, IInv, TypeOK, Phases
  <2>2. CASE pc # "rest" \/ phase # Low
    <3>1. blocking' = {}
      BY <1>3, <2>2 DEF AttemptLost, IInv, Blocking_Inv
    <3>2. QED
      BY <1>1, <2>1, <3>1, DecidedStep
  <2>3. CASE pc = "rest" /\ phase = Low
    <3>1. UNCHANGED <<phase, pc, blocking>> /\ sample' = NoSamples
      BY <1>3, <2>3 DEF AttemptLost, Decided, Reviews, Low
    <3>2. sample = NoSamples
      BY <2>3 DEF IInv, TypeOK
    <3>3. TypeOK'
      BY <1>1, <2>1, <3>1, <3>2, TimesAssumption DEF IInv, TypeOK, Decided
    <3>4. Since_Inv' /\ Blocking_Inv' /\ Prompt_Inv'
      BY <2>1, <2>3, <3>1, <3>2 DEF IInv, Since_Inv, Blocking_Inv, Prompt_Inv, Taken, Enough
    <3>5. QED
      BY <2>3, <3>1, <3>3, <3>4 DEF IInv
  <2>4. QED
    BY <2>2, <2>3
<1>4. QED
  BY <1>2, <1>3

LEMMA ReadAStep == ASSUME IInv, ReadA PROVE IInv'
<1>1. TypeOK'
  BY TimesAssumption DEF ReadA, IInv, TypeOK, Reviewers
<1>2. Since_Inv' /\ Blocking_Inv' /\ Prompt_Inv' /\ Taken("A")'
  BY DEF ReadA, IInv, Since_Inv, Blocking_Inv, Prompt_Inv, Taken, Enough
<1>3. QED
  BY <1>1, <1>2 DEF IInv

LEMMA DecideStep == ASSUME IInv, Decide PROVE IInv'
<1>1. /\ UNCHANGED <<left, over, faults, since>> /\ Decided
      /\ faults' \in 0 .. MaxFaults /\ pc = "B"
  BY DEF Decide, Allow, PauseLow, PauseUnknown, IInv, TypeOK
<1>2. CASE Allow
  BY <1>1, <1>2, DecidedStep DEF Allow, Started, Phases, Reviews
<1>3. CASE PauseUnknown
  BY <1>1, <1>3, DecidedStep, TimesAssumption DEF PauseUnknown, Phases, Pauses
<1>4. CASE PauseLow
  <2>1. \A r \in Reviewers : sample[r] \in Samples
    BY <1>1 DEF Decide, IInv, TypeOK, Taken, Reviewers
  <2>2. \A r \in Reviewers, w \in Windows :
          Until(sample[r], w) \in Int /\ (TooLow(sample[r], w) => Until(sample[r], w) > 0)
    BY <1>4, <2>1 DEF PauseLow, Verified, Invalid, Until, Samples, Windows
  <2>3. PICK latest \in Resets : (\A t \in Resets : t <= latest) /\ wait' = latest + Guard
    BY <1>4 DEF PauseLow
  <2>4. latest \in Int /\ latest > 0
    BY <2>2, <2>3 DEF Resets, Blockers, Accounts
  <2>5. wait' \in Nat
    BY <2>3, <2>4, TimesAssumption
  <2>6. TypeOK'
    BY <1>1, <1>4, <2>5, NoReadings, TimesAssumption
       DEF IInv, TypeOK, Decided, PauseLow, Phases, Pauses
  <2>7. Since_Inv'
    BY <1>1, NoReadings DEF IInv, Since_Inv, Decided, Taken, Enough
  <2>8. Blocking_Inv'
    <3> SUFFICES ASSUME NEW a \in blocking PROVE over[a] > 0 /\ over[a] <= wait'
      BY <1>1, <1>4 DEF Blocking_Inv, Decided, PauseLow
    <3>1. a \in Accounts /\ over[a] \in Int /\ over[a] > 0 /\ TooLow(sample[a[1]], a[2])
          /\ over[a] <= Until(sample[a[1]], a[2])
      BY <1>1 DEF IInv, TypeOK, Blocking_Inv
    <3>2. Until(sample[a[1]], a[2]) \in Resets /\ Until(sample[a[1]], a[2]) \in Int
      BY <2>2, <3>1 DEF Resets, Blockers, Accounts
    <3>3. QED
      BY <2>3, <2>4, <3>1, <3>2, TimesAssumption
  <2>9. Prompt_Inv'
    BY <1>1, NoReadings DEF Decided, Prompt_Inv, Taken, Accounts
  <2>10. QED
    BY <1>1, <2>6, <2>7, <2>8, <2>9 DEF IInv, Decided
<1>5. QED
  BY <1>2, <1>3, <1>4 DEF Decide

\* With time, readings grow older and windows come to their end together.
LEMMA TickStep == ASSUME IInv, Tick PROVE IInv'
<1>1. PICK late \in SUBSET Ending :
        /\ IF late = {} /\ pc = "rest" THEN UNCHANGED faults ELSE Disturbed
        /\ Renew(late)
  BY DEF Tick
<1>2. /\ wait' = (IF wait > 0 THEN wait - 1 ELSE wait)
      /\ elapsed' = (IF pc = "rest" THEN elapsed ELSE elapsed + 1)
      /\ sample' = [r \in Reviewers |-> IF sample[r] = NoSample THEN NoSample
                                         ELSE [sample[r] EXCEPT !.age = @ + 1]]
      /\ since' = [r \in Reviewers |-> IF Enough(r, left') THEN 0
                                        ELSE Least(since[r] + 1, MaxAge + 1)]
      /\ blocking' = blocking \ Ending
      /\ UNCHANGED <<phase, pc>>
      /\ pc = "rest" \/ elapsed < ReadTimeout
  BY DEF Tick
<1>3. /\ left \in [Accounts -> 0 .. Full] /\ over \in [Accounts -> Int]
      /\ wait \in Nat /\ elapsed \in 0 .. ReadTimeout
      /\ sample \in [Reviewers -> Samples \cup {NoSample}]
      /\ since \in [Reviewers -> 0 .. MaxAge + 1]
      /\ blocking \subseteq Accounts
  BY DEF IInv, TypeOK
<1>4. /\ left' \in [Accounts -> 0 .. Full] /\ over' \in [Accounts -> Int]
      /\ \A a \in Accounts \ Ending : over'[a] = over[a] - 1
  <2>1. \A a \in Accounts : Length(a[2]) \in Int
    BY TimesAssumption DEF Length
  <2>2. QED
    BY <1>1, <1>3, <2>1, TimesAssumption DEF Renew
<1>5. \A r \in Reviewers :
        IF Taken(r)
        THEN /\ sample'[r] \in Samples /\ sample'[r] # NoSample
             /\ sample[r] \in Samples
             /\ sample'[r].age = sample[r].age + 1
             /\ sample'[r].left = sample[r].left /\ sample'[r].reset = sample[r].reset
        ELSE sample'[r] = NoSample
  <2> SUFFICES ASSUME NEW r \in Reviewers, Taken(r)
               PROVE  /\ sample'[r] \in Samples /\ sample'[r] # NoSample
                      /\ sample[r] \in Samples
                      /\ sample'[r].age = sample[r].age + 1
                      /\ sample'[r].left = sample[r].left
                      /\ sample'[r].reset = sample[r].reset
    BY <1>2 DEF Taken
  <2>1. sample[r] \in Samples /\ sample'[r] = [sample[r] EXCEPT !.age = @ + 1]
    BY <1>2, <1>3 DEF Taken
  <2>2. /\ sample'[r] \in Samples /\ sample'[r].age = sample[r].age + 1
        /\ sample'[r].left = sample[r].left /\ sample'[r].reset = sample[r].reset
    BY <2>1 DEF Samples
  <2>3. QED
    BY <2>1, <2>2, ReadingIsOne
<1>6. TypeOK'
  <2>1. sample' \in [Reviewers -> Samples \cup {NoSample}]
    BY <1>2, <1>5
  <2>2. (pc = "rest" => sample = NoSamples)' /\ (pc = "A" => sample["B"] = NoSample)'
    <3>1. pc = "rest" => \A r \in Reviewers : ~Taken(r)
      BY NoReadings DEF IInv, TypeOK, Taken
    <3>2. pc = "A" => ~Taken("B")
      BY DEF IInv, TypeOK, Taken
    <3>3. "B" \in Reviewers
      BY DEF Reviewers
    <3>4. pc = "rest" => sample' = NoSamples
      BY <1>2, <3>1 DEF Taken, NoSamples
    <3>5. QED
      BY <1>2, <1>5, <3>2, <3>3, <3>4
  <2>3. faults' \in 0 .. MaxFaults
    BY <1>1, TimesAssumption DEF Disturbed, IInv, TypeOK
  <2>4. since' \in [Reviewers -> 0 .. MaxAge + 1]
    BY <1>2, <1>3, TimesAssumption DEF Least
  <2>5. wait' \in Nat /\ elapsed' \in 0 .. ReadTimeout
    BY <1>2, <1>3, TimesAssumption
  <2>6. QED
    BY <1>2, <1>3, <1>4, <2>1, <2>2, <2>3, <2>4, <2>5 DEF IInv, TypeOK
<1>7. Since_Inv'
  <2> SUFFICES ASSUME NEW r \in Reviewers
               PROVE  /\ Enough(r, left') => since'[r] = 0
                      /\ Taken(r)' /\ (\A w \in Windows : ~TooLow(sample'[r], w))
                           => since'[r] <= sample'[r].age
    BY DEF Since_Inv
  <2>1. Enough(r, left') => since'[r] = 0
    BY <1>2
  <2>2. ASSUME Taken(r)', \A w \in Windows : ~TooLow(sample'[r], w)
        PROVE  since'[r] <= sample'[r].age
    <3>1. Taken(r)
      BY <1>5, <2>2 DEF Taken
    <3>2. since[r] <= sample[r].age
      BY <1>5, <2>2, <3>1 DEF IInv, Since_Inv, TooLow
    <3>3. sample[r].age \in Nat /\ sample'[r].age = sample[r].age + 1
      BY <1>5, <3>1 DEF Samples
    <3>4. since[r] \in Nat
      BY <1>3, TimesAssumption
    <3>5. since'[r] \in Int /\ (since'[r] = 0 \/ since'[r] <= since[r] + 1)
      BY <1>2, <3>4, TimesAssumption DEF Least
    <3>6. QED
      BY <3>2, <3>3, <3>4, <3>5
  <2>3. QED
    BY <2>1, <2>2
<1>8. Blocking_Inv'
  <2>1. (pc = "rest" /\ phase # Low => blocking = {})'
    BY <1>2 DEF IInv, Blocking_Inv
  <2>2. ASSUME NEW a \in blocking'
        PROVE  /\ over'[a] > 0
               /\ pc' = "rest" => over'[a] <= wait'
               /\ pc' # "rest" => /\ Taken(a[1])' /\ TooLow(sample'[a[1]], a[2])
                                  /\ over'[a] <= Until(sample'[a[1]], a[2])
    <3>1. a \in Accounts /\ a \in blocking /\ over[a] \in Int /\ over[a] > 1
      BY <1>2, <1>3, <2>2 DEF Ending
    <3>2. over'[a] = over[a] - 1
      BY <1>4, <3>1 DEF Ending
    <3>3. ASSUME pc' = "rest"
          PROVE  over'[a] <= wait'
      <4>1. over[a] <= wait
        BY <1>2, <3>1, <3>3 DEF IInv, Blocking_Inv
      <4>2. QED
        BY <1>2, <1>3, <3>1, <3>2, <4>1
    <3>4. ASSUME pc' # "rest"
          PROVE  /\ Taken(a[1])' /\ TooLow(sample'[a[1]], a[2])
                 /\ over'[a] <= Until(sample'[a[1]], a[2])
      <4>1. Taken(a[1]) /\ TooLow(sample[a[1]], a[2]) /\ over[a] <= Until(sample[a[1]], a[2])
        BY <1>2, <3>1, <3>4 DEF IInv, Blocking_Inv
      <4>2. a[1] \in Reviewers /\ a[2] \in Windows
        BY <3>1 DEF Accounts
      <4>3. sample[a[1]].reset[a[2]] \in Int /\ sample[a[1]].age \in Nat
        BY <1>5, <4>1, <4>2 DEF Samples
      <4>4. QED
        BY <1>5, <3>1, <3>2, <4>1, <4>2, <4>3 DEF Taken, TooLow, Until
    <3>5. QED
      BY <3>1, <3>2, <3>3, <3>4
  <2>3. QED
    BY <2>1, <2>2 DEF Blocking_Inv
<1>9. (pc = "B" => Taken("A"))'
  BY <1>2, <1>5 DEF IInv, Taken, Reviewers
<1>10. Prompt_Inv'
  <2> SUFFICES ASSUME NEW a \in Accounts, Taken(a[1])', TooLow(sample'[a[1]], a[2])
               PROVE  IF a \in blocking'
                      THEN Until(sample'[a[1]], a[2]) <= over'[a] + Resolution
                      ELSE \/ Until(sample'[a[1]], a[2]) <= Resolution
                           \/ a = <<"A", "five_hour">> /\ Until(sample'[a[1]], a[2]) <= Day
    BY DEF Prompt_Inv
  <2>1. a[1] \in Reviewers /\ a[2] \in Windows
    BY DEF Accounts
  <2>2. /\ Taken(a[1]) /\ TooLow(sample[a[1]], a[2])
        /\ Until(sample[a[1]], a[2]) \in Int
        /\ Until(sample'[a[1]], a[2]) = Until(sample[a[1]], a[2]) - 1
    <3>1. Taken(a[1])
      BY <1>5, <2>1 DEF Taken
    <3>2. sample[a[1]].reset[a[2]] \in Int /\ sample[a[1]].age \in Nat
      BY <1>5, <2>1, <3>1 DEF Samples
    <3>3. QED
      BY <1>5, <2>1, <3>1, <3>2 DEF TooLow, Until
  <2>3. over[a] \in Int
    BY <1>3
  <2>4. CASE a \in blocking
    <3>1. Until(sample[a[1]], a[2]) <= over[a] + Resolution
      BY <2>2, <2>4 DEF IInv, Prompt_Inv
    <3>2. CASE a \in Ending
      BY <1>2, <2>2, <2>3, <3>1, <3>2, TimesAssumption DEF Ending
    <3>3. CASE a \notin Ending
      <4>1. over'[a] = over[a] - 1 /\ a \in blocking'
        BY <1>2, <1>4, <2>4, <3>3
      <4>2. QED
        BY <2>2, <2>3, <3>1, <4>1, TimesAssumption
    <3>4. QED
      BY <3>2, <3>3
  <2>5. CASE a \notin blocking
    <3>1. \/ Until(sample[a[1]], a[2]) <= Resolution
          \/ a = <<"A", "five_hour">> /\ Until(sample[a[1]], a[2]) <= Day
      BY <2>2, <2>5 DEF IInv, Prompt_Inv
    <3>2. a \notin blocking'
      BY <1>2, <2>5
    <3>3. QED
      BY <2>2, <3>1, <3>2, TimesAssumption
  <2>6. QED
    BY <2>4, <2>5
<1>11. QED
  BY <1>6, <1>7, <1>8, <1>9, <1>10 DEF IInv

LEMMA NextIInv == IInv /\ [Next]_vars => IInv'
<1> SUFFICES ASSUME IInv, [Next]_vars PROVE IInv'
  OBVIOUS
<1>1. CASE Gate
  BY <1>1, AskGateStep, ReadAStep, DecideStep, ObserveStep DEF Gate
<1>2. CASE Round
  BY <1>2, AnswerStep, InterruptedStep DEF Round
<1>3. CASE ReadFails
  BY <1>3, InterruptedStep
<1>4. CASE UsedElsewhere
  BY <1>4, UsedElsewhereStep
<1>5. CASE Tick
  BY <1>5, TickStep
<1>6. CASE UNCHANGED vars
  BY <1>6 DEF IInv, TypeOK, Since_Inv, Blocking_Inv, Prompt_Inv, Taken, Enough, vars, engine
<1>7. QED
  BY <1>1, <1>2, <1>3, <1>4, <1>5, <1>6 DEF Next

-----------------------------------------------------------------------------

\* The inductive invariant: readings are true of their time and bound the end of
\* the windows they show (Engine._gate, decide_round_start).
THEOREM Invariant == Spec => []IInv
<1>1. QED
  BY InitIInv, NextIInv, PTL DEF Spec

\* Every variable keeps to its type; readings are never kept for a later decision.
THEOREM TypeCorrect == Spec => []TypeOK
<1>1. IInv => TypeOK
  BY DEF IInv
<1>2. QED
  BY <1>1, Invariant, PTL

\* A low pause covers every window that led to it (limits.py, wake_at).
THEOREM LowPauseLongEnough == Spec => []LowPauseOutlasts
<1>1. IInv => LowPauseOutlasts
  <2> SUFFICES ASSUME IInv, pc = "rest", wait = 0, NEW a \in blocking PROVE FALSE
    BY DEF LowPauseOutlasts
  <2>1. over[a] \in Int
    BY DEF IInv, TypeOK
  <2>2. QED
    BY <2>1 DEF IInv, Blocking_Inv
<1>2. QED
  BY <1>1, Invariant, PTL

\* No review starts unless each account had enough left within the permitted age of
\* a reading (Engine._gate, before either review).
THEOREM QuotaBeforeStart == Spec => EnoughAtStart
<1>1. IInv /\ [Next]_vars =>
        [phase' \in Reviews /\ phase' # phase => \A r \in Reviewers : since[r] <= MaxAge]_vars
  <2> SUFFICES ASSUME IInv, Next, phase' \in Reviews, phase' # phase, NEW r \in Reviewers
               PROVE  since[r] <= MaxAge
    OBVIOUS
  <2>1. Decide /\ Allow
    BY DEF Next, Gate, Round, AskGate, ReadA, Observe, AnswerA, AnswerB, RateLimited,
           AttemptLost, ReadFails, UsedElsewhere, Tick, Decide, PauseLow, PauseUnknown,
           Reviews, Low, Unknown, engine
  <2>2. sample[r] \in Samples /\ Taken(r)
    BY <2>1 DEF Decide, IInv, TypeOK, Taken, Reviewers
  <2>3. sample[r].age \in Nat /\ sample[r].age <= MaxAge
    BY <2>1, <2>2, TimesAssumption DEF Allow, Verified, Invalid, Samples
  <2>4. ASSUME NEW w \in Windows PROVE ~TooLow(sample[r], w)
    <3>1. <<r, w>> \in Accounts /\ <<r, w>>[1] = r /\ <<r, w>>[2] = w
      BY DEF Accounts
    <3>2. <<r, w>> \notin Blockers
      BY <2>1 DEF Allow
    <3>3. QED
      BY <3>1, <3>2 DEF Blockers
  <2>5. since[r] \in Int /\ since[r] <= sample[r].age
    BY <2>2, <2>4 DEF IInv, TypeOK, Since_Inv
  <2>6. QED
    BY <2>3, <2>5, TimesAssumption
<1>2. QED
  BY <1>1, Invariant, PTL DEF Spec, EnoughAtStart

\* A low pause ends when the windows too low let it, save for a window that has
\* ended and is shown by its time of day (limits.py, wake_at and _parse_reset).
THEOREM LowPauseShort == Spec => LowPausePrompt
<1> DEFINE Prompt(a) == IF a \in blocking THEN wait' <= over[a] + Resolution + Guard
                        ELSE \/ wait' <= Resolution + Guard
                             \/ a = <<"A", "five_hour">> /\ wait' <= Day + Guard
<1>1. IInv /\ [Next]_vars =>
        [phase' = Low /\ wait' > wait => \E a \in Blockers : Prompt(a)]_vars
  <2> SUFFICES ASSUME IInv, Next, phase' = Low, wait' > wait
               PROVE  \E a \in Blockers : Prompt(a)
    OBVIOUS
  <2>1. wait \in Nat
    BY DEF IInv, TypeOK
  <2>2. Decide /\ PauseLow
    BY <2>1 DEF Next, Gate, Round, AskGate, ReadA, Observe, AnswerA, AnswerB, RateLimited,
           AttemptLost, ReadFails, UsedElsewhere, Tick, Decide, Allow, PauseUnknown,
           Consumes, Started, Reviews, Low, Unknown, engine
  <2>3. PICK latest \in Resets : wait' = latest + Guard
    BY <2>2 DEF PauseLow
  <2>4. PICK a \in Blockers : latest = Until(sample[a[1]], a[2])
    BY <2>3 DEF Resets
  <2>5. a \in Accounts /\ TooLow(sample[a[1]], a[2])
    BY <2>4 DEF Blockers
  <2>6. Taken(a[1]) /\ sample[a[1]] \in Samples
    BY <2>2, <2>5 DEF Decide, IInv, TypeOK, Taken, Reviewers, Accounts
  <2>7. latest \in Int /\ over[a] \in Int
    BY <2>4, <2>5, <2>6 DEF Until, Samples, Accounts, IInv, TypeOK
  <2>8. IF a \in blocking THEN latest <= over[a] + Resolution
        ELSE \/ latest <= Resolution
             \/ a = <<"A", "five_hour">> /\ latest <= Day
    BY <2>4, <2>5, <2>6 DEF IInv, Prompt_Inv
  <2>9. Prompt(a)
    BY <2>3, <2>7, <2>8, TimesAssumption
  <2>10. QED
    BY <2>9
<1>2. QED
  BY <1>1, Invariant, PTL DEF Spec, LowPausePrompt
=============================================================================
