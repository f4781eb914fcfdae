-------------------------- MODULE CliProcess_proofs --------------------------
(***************************************************************************)
(* Proofs about CliProcess, for any sizes of the input, the pipes, the     *)
(* chunks and the output limit.                                            *)
(*                                                                         *)
(* The argument: while a reader holds the lock, what it measured is still  *)
(* what is left; unless the limit was exceeded, every unit written is in a *)
(* pipe, with a reader or in the output; and where no helper exists, a run *)
(* is over only after both readers have met the end of their streams.      *)
(***************************************************************************)
EXTENDS CliProcess, TLAPS

\* The reader that holds the lock knows how much may still be captured.
LockInv ==
  /\ Captured <= MaxOutput
  /\ \A s \in Streams : reader[s] = "measured" => lock = s /\ room[s] = Left

\* No unit disappears before the limit is exceeded.
FlowInv == ~tooLarge => \A s \in Streams : written[s] = pipe[s] + got[s] + output[s]

\* A reader waits only for less than a chunk, and is done when nothing is left and
\* nothing can come.
DoneInv ==
  \A s \in Streams :
    /\ reader[s] = "read" => got[s] < Chunk
    /\ reader[s] = "done" => pipe[s] = 0 /\ got[s] = 0 /\ Closed

Joined(s) == helper = "none" => reader[s] = "done"

LoopInv ==
  /\ loop \notin {"poll", "check"} => child # "running"
  /\ loop \in {"joinStderr", "joinWriter", "take", "returned"} => Joined("stdout")
  /\ loop \in {"joinWriter", "take", "returned"} => Joined("stderr")
  /\ loop = "returned" => taken = output
  /\ timedOut \/ cancelled => Closed

SaidInv == said # "nothing" => saidAt <= written["stdout"]

Inv == TypeOK /\ LockInv /\ FlowInv /\ DoneInv /\ LoopInv /\ SaidInv

-----------------------------------------------------------------------------

\* What is left is what the limit allows beyond what is captured.
LEMMA LeftRange ==
  ASSUME TypeOK
  PROVE  /\ Captured \in Nat /\ Left \in 0 .. MaxOutput
         /\ Captured <= MaxOutput => Captured + Left = MaxOutput
  <1>1. output["stdout"] \in Nat /\ output["stderr"] \in Nat
    BY DEF TypeOK, Streams
  <1> QED
    BY <1>1, SizesAssumption DEF Captured, Left

LEMMA InitInv == Init => Inv
  <1> SUFFICES ASSUME Init
               PROVE  Inv
    OBVIOUS
  <1> USE SizesAssumption DEF Init
  <1>1. /\ written \in [Streams -> 0 .. MaxWritten] /\ pipe \in [Streams -> 0 .. PipeSize]
        /\ got \in [Streams -> 0 .. Chunk] /\ room \in [Streams -> 0 .. MaxOutput]
        /\ output \in [Streams -> 0 .. MaxOutput] /\ taken \in [Streams -> 0 .. MaxOutput]
        /\ saidAt \in 0 .. MaxWritten /\ toWrite \in 0 .. Input /\ input \in 0 .. PipeSize
    OBVIOUS
  <1>2. reader \in [Streams -> {"read", "got", "measured", "done"}]
    OBVIOUS
  <1>3. TypeOK
    BY <1>1, <1>2 DEF TypeOK
  <1>4. Captured = 0
    BY DEF Captured, Streams
  <1> QED
    BY <1>3, <1>4 DEF Inv, LockInv, FlowInv, DoneInv, LoopInv, SaidInv

\* What a child and its helper do leaves all that concerns the threads alone.
LEMMA ProcessStep ==
  ASSUME Inv, ReadInput \/ (\E s \in Streams : WriteOutput(s)) \/ Exit \/ StartHelper \/ HelperExits,
         ~Returned
  PROVE  Inv'
  <1> USE SizesAssumption DEF Inv, process, feeding, reading, watching
  <1>0. UNCHANGED <<reader, got, room, lock, output, tooLarge, loop, timedOut, cancelled, taken>>
    BY DEF ReadInput, WriteOutput, Exit, StartHelper, HelperExits
  <1>1. LockInv'
    BY <1>0 DEF LockInv, Captured, Left
  <1>2. CASE ReadInput
    <2>1. TypeOK'
      BY <1>2 DEF ReadInput, TypeOK, GoesOn
    <2> QED
      BY <1>0, <1>1, <1>2, <2>1 DEF ReadInput, FlowInv, DoneInv, LoopInv, SaidInv, Joined, Closed
  <1>3. CASE \E s \in Streams : WriteOutput(s)
    <2> PICK s \in Streams : WriteOutput(s)
      BY <1>3
    <2>1. child = "running" /\ UNCHANGED <<child, helper>>
      BY DEF WriteOutput
    <2>2. CASE UNCHANGED <<pipe, written, said, saidAt>>
      <3>1. TypeOK'
        BY <2>2 DEF WriteOutput, TypeOK, GoesOn, Does
      <3> QED
        BY <1>0, <1>1, <2>1, <2>2, <3>1 DEF FlowInv, DoneInv, LoopInv, SaidInv, Joined, Closed
    <2>3. CASE /\ written[s] < MaxWritten /\ pipe[s] < PipeSize
               /\ pipe' = [pipe EXCEPT ![s] = @ + 1]
               /\ written' = [written EXCEPT ![s] = @ + 1]
               /\ SaysIn(s) /\ GoesOn
      <3>1. pipe[s] + 1 \in 0 .. PipeSize /\ written[s] + 1 \in 0 .. MaxWritten
        BY <2>3 DEF TypeOK
      <3>2. /\ pipe' \in [Streams -> 0 .. PipeSize] /\ written' \in [Streams -> 0 .. MaxWritten]
            /\ \A t \in Streams : written'[t] >= written[t]
        BY <2>3, <3>1 DEF TypeOK
      <3>3. said' \in {"nothing", "turn", "limit"} /\ saidAt' \in 0 .. MaxWritten
        BY <2>3, <3>2 DEF SaysIn, TypeOK
      <3>4. TypeOK'
        BY <2>3, <3>2, <3>3 DEF WriteOutput, TypeOK, GoesOn
      <3>5. FlowInv'
        BY <1>0, <2>3 DEF FlowInv, TypeOK
      <3>6. DoneInv'
        BY <1>0, <2>1 DEF DoneInv, Closed
      <3>7. SaidInv'
        <4>1. "stdout" \in Streams
          BY DEF Streams
        <4>2. said # "nothing" => saidAt <= written'["stdout"]
          BY <3>2, <4>1 DEF SaidInv, TypeOK
        <4>3. written'["stdout"] <= written'["stdout"]
          BY <3>2, <4>1
        <4> QED
          BY <2>3, <4>2, <4>3 DEF SaysIn, SaidInv
      <3> QED
        BY <1>0, <1>1, <2>1, <3>4, <3>5, <3>6, <3>7 DEF LoopInv, Joined, Closed
    <2> QED
      BY <2>2, <2>3 DEF WriteOutput
  <1>4. CASE Exit \/ StartHelper \/ HelperExits
    <2>1. TypeOK'
      BY <1>4 DEF Exit, StartHelper, HelperExits, TypeOK
    <2>2. UNCHANGED <<written, pipe, said, saidAt>>
      BY <1>4 DEF Exit, StartHelper, HelperExits
    <2>3. (Closed => Closed') /\ (helper' = "none" => helper = "none") /\ (child # "running" => child' # "running")
      BY <1>4 DEF Exit, StartHelper, HelperExits, Closed
    <2> QED
      BY <1>0, <1>1, <2>1, <2>2, <2>3 DEF FlowInv, DoneInv, LoopInv, SaidInv, Joined
  <1> QED
    BY <1>2, <1>3, <1>4

\* A reader takes a unit out of its pipe.
LEMMA ReadStep ==
  ASSUME Inv, NEW s \in Streams, Read(s), ~Returned
  PROVE  Inv'
  <1> USE SizesAssumption DEF Inv
  <1>1. /\ UNCHANGED <<process, feeding, room, lock, output, tooLarge, watching, expired, asked>>
        /\ reader[s] = "read" /\ pipe[s] > 0
        /\ pipe' = [pipe EXCEPT ![s] = @ - 1] /\ got' = [got EXCEPT ![s] = @ + 1]
    BY DEF Read
  <1>2. \A t \in Streams : reader'[t] = reader[t] \/ (t = s /\ reader'[t] = "got")
    BY DEF Read, SetReader, TypeOK
  <1>3. pipe[s] - 1 \in 0 .. PipeSize
    BY <1>1 DEF TypeOK
  <1>4. got[s] + 1 \in 0 .. Chunk
    BY <1>1 DEF DoneInv, TypeOK
  <1>5. reader' \in [Streams -> {"read", "got", "measured", "done"}]
    BY DEF Read, SetReader, TypeOK
  <1>6. pipe' \in [Streams -> 0 .. PipeSize] /\ got' \in [Streams -> 0 .. Chunk]
    BY <1>1, <1>3, <1>4 DEF TypeOK
  <1>7. TypeOK'
    BY <1>1, <1>5, <1>6 DEF TypeOK, process, feeding, watching
  <1>8. LockInv'
    BY <1>1, <1>2 DEF LockInv, Captured, Left
  <1>9. FlowInv'
    BY <1>1 DEF FlowInv, TypeOK, process
  <1>10. reader'[s] = "read" => got'[s] < Chunk
    BY <1>1, <1>4 DEF Read, SetReader, TypeOK
  <1>11. DoneInv'
    BY <1>1, <1>2, <1>10 DEF DoneInv, TypeOK, process, Closed
  <1>12. LoopInv' /\ SaidInv'
    <2>1. "stdout" \in Streams /\ "stderr" \in Streams
      BY DEF Streams
    <2>2. \A t \in Streams : reader[t] = "done" => reader'[t] = "done"
      BY <1>1, <1>2
    <2> QED
      BY <1>1, <2>1, <2>2 DEF LoopInv, SaidInv, Joined, Closed, process, watching, Returned
  <1> QED
    BY <1>7, <1>8, <1>9, <1>11, <1>12

LEMMA ReadEndStep ==
  ASSUME Inv, NEW s \in Streams, ReadEnd(s), ~Returned
  PROVE  Inv'
  <1> USE SizesAssumption DEF Inv
  <1>1. /\ UNCHANGED <<process, feeding, pipe, got, room, lock, output, tooLarge, watching, expired, asked>>
        /\ reader[s] = "read" /\ pipe[s] = 0 /\ Closed
    BY DEF ReadEnd
  <1>2. \A t \in Streams : \/ reader'[t] = reader[t]
                           \/ t = s /\ (reader'[t] = "got" \/ (reader'[t] = "done" /\ got[t] = 0))
    BY DEF ReadEnd, SetReader, TypeOK
  <1>3. reader' \in [Streams -> {"read", "got", "measured", "done"}]
    BY DEF ReadEnd, SetReader, TypeOK
  <1>4. TypeOK'
    BY <1>1, <1>3 DEF TypeOK, process, feeding, watching
  <1>5. LockInv'
    BY <1>1, <1>2 DEF LockInv, Captured, Left
  <1>6. FlowInv' /\ SaidInv'
    BY <1>1 DEF FlowInv, SaidInv, process
  <1>7. DoneInv'
    BY <1>1, <1>2 DEF DoneInv, process, Closed
  <1>8. LoopInv'
    <2>1. "stdout" \in Streams /\ "stderr" \in Streams
      BY DEF Streams
    <2>2. \A t \in Streams : reader[t] = "done" => reader'[t] = "done"
      BY <1>1, <1>2
    <2> QED
      BY <1>1, <2>1, <2>2 DEF LoopInv, Joined, Closed, process, watching, Returned
  <1> QED
    BY <1>4, <1>5, <1>6, <1>7, <1>8

\* Taking the lock: nobody else is measuring.
LEMMA MeasureStep ==
  ASSUME Inv, NEW s \in Streams, Measure(s), ~Returned
  PROVE  Inv'
  <1> USE SizesAssumption DEF Inv
  <1>1. /\ UNCHANGED <<process, feeding, pipe, got, output, tooLarge, watching, expired, asked>>
        /\ reader[s] = "got" /\ lock = "free" /\ lock' = s
        /\ room' = [room EXCEPT ![s] = Left]
        /\ reader' = [reader EXCEPT ![s] = "measured"]
    BY DEF Measure, SetReader
  <1>2. "free" \notin Streams
    BY DEF Streams
  <1>3. Left \in 0 .. MaxOutput
    BY LeftRange
  <1>4. TypeOK'
    BY <1>1, <1>3 DEF TypeOK, process, feeding, watching
  <1>5. LockInv'
    BY <1>1, <1>2 DEF LockInv, Captured, Left, TypeOK
  <1>6. FlowInv' /\ SaidInv'
    BY <1>1 DEF FlowInv, SaidInv, process
  <1>7. DoneInv'
    BY <1>1 DEF DoneInv, process, Closed, TypeOK
  <1>8. LoopInv'
    BY <1>1 DEF LoopInv, Joined, Closed, process, watching, TypeOK
  <1> QED
    BY <1>4, <1>5, <1>6, <1>7, <1>8

LEMMA ExtendStep ==
  ASSUME Inv, NEW s \in Streams, Extend(s), ~Returned
  PROVE  Inv'
  <1> USE SizesAssumption DEF Inv
  <1>1. /\ UNCHANGED <<process, feeding, pipe, watching, expired, asked>>
        /\ reader[s] = "measured" /\ lock' = "free"
        /\ output' = [output EXCEPT ![s] = @ + Fitting(s)]
        /\ tooLarge' = (tooLarge \/ got[s] > room[s])
        /\ got' = [got EXCEPT ![s] = 0] /\ room' = [room EXCEPT ![s] = 0]
        /\ reader' = [reader EXCEPT ![s] = "read"]
    BY DEF Extend, SetReader
  <1>2. lock = s /\ room[s] = Left /\ Captured + Left = MaxOutput
    BY <1>1, LeftRange DEF LockInv
  <1>3. got[s] \in Nat /\ room[s] \in Nat /\ Fitting(s) \in Nat /\ Fitting(s) <= room[s]
        /\ (got[s] <= room[s] => Fitting(s) = got[s])
    BY DEF TypeOK, Fitting
  <1>4. output["stdout"] \in Nat /\ output["stderr"] \in Nat /\ output \in [Streams -> 0 .. MaxOutput]
    BY DEF TypeOK, Streams
  <1>5. Captured' = Captured + Fitting(s)
    BY <1>1, <1>3, <1>4 DEF Captured, Streams
  <1>6. Captured' <= MaxOutput
    BY <1>2, <1>3, <1>4, <1>5 DEF Captured
  <1>7. output[s] + Fitting(s) \in 0 .. MaxOutput
    BY <1>2, <1>3, <1>4 DEF Captured, Streams
  <1>8. TypeOK'
    <2>1. output' \in [Streams -> 0 .. MaxOutput]
      BY <1>1, <1>7 DEF TypeOK
    <2>2. got' \in [Streams -> 0 .. Chunk] /\ room' \in [Streams -> 0 .. MaxOutput]
      BY <1>1 DEF TypeOK
    <2>3. reader' \in [Streams -> {"read", "got", "measured", "done"}] /\ tooLarge' \in BOOLEAN
      BY <1>1 DEF TypeOK
    <2> QED
      BY <1>1, <2>1, <2>2, <2>3 DEF TypeOK, process, feeding, watching
  <1>9. LockInv'
    <2>1. \A t \in Streams : reader'[t] # "measured"
      BY <1>1, <1>2 DEF LockInv, TypeOK
    <2> QED
      BY <1>6, <2>1 DEF LockInv
  <1>10. FlowInv'
    <2> SUFFICES ASSUME ~tooLarge', NEW t \in Streams
                 PROVE  written'[t] = pipe'[t] + got'[t] + output'[t]
      BY DEF FlowInv
    <2>0. ~tooLarge /\ ~(got[s] > room[s])
      BY DEF Extend
    <2>1. ~tooLarge /\ Fitting(s) = got[s]
      BY <1>3, <2>0
    <2>2. written[t] = pipe[t] + got[t] + output[t]
      BY <2>1 DEF FlowInv
    <2>3. pipe[t] \in Nat /\ got[t] \in Nat /\ output[t] \in Nat
      BY DEF TypeOK
    <2> QED
      BY <1>1, <2>1, <2>2, <2>3 DEF process, TypeOK
  <1>11. DoneInv'
    BY <1>1 DEF DoneInv, process, Closed, TypeOK
  <1>12. LoopInv' /\ SaidInv'
    <2>1. \A t \in Streams : reader[t] = "done" => reader'[t] = "done"
      BY <1>1 DEF TypeOK
    <2>2. "stdout" \in Streams /\ "stderr" \in Streams
      BY DEF Streams
    <2> QED
      BY <1>1, <2>1, <2>2 DEF LoopInv, SaidInv, Joined, Closed, process, watching, Returned
  <1> QED
    BY <1>8, <1>9, <1>10, <1>11, <1>12

-----------------------------------------------------------------------------
(* The loop of run_cli. *)

LEMMA CheckStep ==
  ASSUME Inv, Check, ~Returned
  PROVE  Inv'
  <1> USE DEF Inv
  <1>1. UNCHANGED <<feeding, pipe, reading, taken, expired, asked, written, said, saidAt>>
    BY DEF Check, Stop, process
  <1>2. LockInv' /\ FlowInv' /\ SaidInv'
    BY <1>1 DEF LockInv, FlowInv, SaidInv, Captured, Left, reading
  <1>3. CASE Stop
    <2>1. child' # "running" /\ helper' # "running" /\ (helper' = "none" => helper = "none")
      BY <1>3 DEF Stop, KillGroup, TypeOK
    <2>2. TypeOK'
      BY <1>1, <1>3 DEF Check, Stop, KillGroup, TypeOK, Does, feeding, reading
    <2>3. DoneInv'
      BY <1>1, <2>1 DEF DoneInv, Closed, reading
    <2>4. LoopInv'
      BY <1>3, <2>1 DEF Check, Stop, LoopInv, Closed
    <2> QED
      BY <1>2, <2>2, <2>3, <2>4
  <1>4. CASE loop' = "poll" /\ UNCHANGED <<process, timedOut, cancelled>>
    BY <1>1, <1>2, <1>4 DEF TypeOK, DoneInv, LoopInv, Closed, process, feeding, reading
  <1> QED
    BY <1>3, <1>4 DEF Check

LEMMA SupervisorStep ==
  ASSUME Inv, Poll \/ Join \/ Return, ~Returned
  PROVE  Inv'
  <1> USE DEF Inv
  <1>1. UNCHANGED <<process, feeding, pipe, reading, timedOut, cancelled, expired, asked>>
    BY DEF Poll, Join, Return
  <1>2. LockInv' /\ FlowInv' /\ SaidInv' /\ DoneInv'
    BY <1>1 DEF LockInv, FlowInv, SaidInv, DoneInv, Closed, Captured, Left, process, reading
  <1>3. TypeOK'
    BY <1>1 DEF Poll, Join, JoinReader, JoinWriter, Return, TypeOK, process, feeding, reading
  <1>4. LoopInv'
    <2>1. CASE Poll
      BY <1>1, <2>1 DEF Poll, LoopInv, Joined, Closed, process, reading
    <2>2. CASE Join
      BY <1>1, <2>2
      DEF Join, JoinReader, JoinWriter, WaitsForHelper, LoopInv, Joined, Closed, process, reading
    <2>3. CASE Return
      BY <1>1, <2>3 DEF Return, LoopInv, Joined, Closed, process, reading
    <2> QED
      BY <2>1, <2>2, <2>3
  <1> QED
    BY <1>2, <1>3, <1>4

LEMMA OtherStep ==
  ASSUME Inv, WriteInput \/ Expire \/ AskCancel \/ UNCHANGED vars
  PROVE  Inv'
  <1> USE SizesAssumption DEF Inv
  <1>1. UNCHANGED <<process, pipe, reading, watching>>
    BY DEF WriteInput, Expire, AskCancel, vars
  <1>2. TypeOK'
    <2>1. CASE WriteInput
      BY <1>1, <2>1 DEF WriteInput, TypeOK, process, reading, watching
    <2>2. CASE Expire \/ AskCancel \/ UNCHANGED vars
      <3>1. UNCHANGED feeding /\ expired' \in BOOLEAN /\ asked' \in BOOLEAN
        BY <2>2 DEF Expire, AskCancel, vars, TypeOK
      <3> QED
        BY <1>1, <3>1 DEF TypeOK, process, feeding, reading, watching
    <2> QED
      BY <2>1, <2>2
  <1> QED
    BY <1>1, <1>2 DEF LockInv, FlowInv, SaidInv, DoneInv, LoopInv, Joined, Closed, Captured, Left,
       process, reading, watching

-----------------------------------------------------------------------------
(* The theorems. *)

\* The inductive invariant holds in every state of the specification.
THEOREM Invariant == Spec => []Inv
  <1>1. Inv /\ [Next]_vars => Inv'
    <2> SUFFICES ASSUME Inv, [Next]_vars
                 PROVE  Inv'
      OBVIOUS
    <2>1. CASE Next
      BY <2>1, ProcessStep, ReadStep, ReadEndStep, MeasureStep, ExtendStep, CheckStep, SupervisorStep,
         OtherStep DEF Next, Child, Reader, Supervisor
    <2>2. CASE UNCHANGED vars
      BY <2>2, OtherStep
    <2> QED
      BY <2>1, <2>2
  <1> QED
    BY InitInv, <1>1, PTL DEF Spec

\* Every variable keeps to its type.
THEOREM TypeCorrect == Spec => []TypeOK
  BY Invariant, PTL DEF Inv

\* No more output is captured than the limit allows, from both streams together.
THEOREM LimitKept == Spec => []WithinLimit
  <1>1. Inv => WithinLimit
    BY DEF Inv, LockInv, WithinLimit
  <1> QED
    BY Invariant, <1>1, PTL

\* Where no helper exists, an unflagged run has returned all that the child wrote.
LEMMA WholeOutput ==
  ASSUME Inv, Returned, helper = "none", ~tooLarge
  PROVE  taken = written
  <1> USE DEF Inv
  <1>1. \A s \in Streams : reader[s] = "done"
    BY DEF LoopInv, Returned, Joined, Streams
  <1>2. \A s \in Streams : written[s] = output[s]
    BY <1>1 DEF DoneInv, FlowInv, TypeOK
  <1> QED
    BY <1>2 DEF LoopInv, Returned, TypeOK

\* A turn comes only from a child that ended well and by itself, and from all it wrote.
THEOREM TurnsAreGenuine == Spec => []TurnsGenuine
  <1>1. ASSUME Inv, Returned, "turn" \in {Claude, Codex}
        PROVE  /\ child = "ok" /\ said = "turn"
               /\ helper = "none" => taken = written
    <2>1. child = "ok" /\ said = "turn" /\ ~tooLarge
      BY <1>1 DEF Claude, Codex, Checked
    <2> QED
      BY <1>1, <2>1, WholeOutput
  <1>2. Inv => TurnsGenuine
    BY <1>1 DEF TurnsGenuine
  <1> QED
    BY Invariant, <1>2, PTL

\* A rate limit the Claude CLI has reported is heard, whatever code it exits with, where no
\* helper holds its pipes and the run is not flagged.
THEOREM LimitsAreHeard == Spec => []LimitsHeard
  <1>1. ASSUME Inv, Returned, said = "limit", helper = "none", ~Flagged
        PROVE  Claude = "rate_limit"
    <2>1. taken = written
      BY <1>1, WholeOutput DEF Flagged
    <2>2. saidAt <= taken["stdout"]
      BY <1>1, <2>1 DEF Inv, SaidInv
    <2> QED
      BY <1>1, <2>2 DEF Claude
  <1>2. Inv => LimitsHeard
    BY <1>1 DEF LimitsHeard
  <1> QED
    BY Invariant, <1>2, PTL

\* A run that was stopped leaves no process of its group.
THEOREM GroupIsGone == Spec => []GroupGone
  <1>1. Inv => GroupGone
    BY DEF Inv, LoopInv, GroupGone
  <1> QED
    BY Invariant, <1>1, PTL
=============================================================================
