----------------------------- MODULE CliProcess -----------------------------
(***************************************************************************)
(* How a reviewer's CLI is run (adapters/process.py run_cli, and what      *)
(* review makes of it in adapters/claude.py and adapters/codex.py): a loop *)
(* watches the child, two threads read its pipes, one writes its input.    *)
(*                                                                         *)
(* Data are counted in units.  The child reads and writes in any order it  *)
(* likes, may stop doing anything, and may leave a helper process that     *)
(* keeps its pipes open.  A helper writes nothing and stays in the child's *)
(* process group.                                                          *)
(***************************************************************************)
EXTENDS Naturals

CONSTANTS
  Input,      \* units of the prompt
  MaxWritten, \* bound on the units the child writes to each stream
  PipeSize,   \* units a pipe holds
  Chunk,      \* units a reader asks for at a time
  MaxOutput   \* max_output_bytes

ASSUME SizesAssumption ==
  /\ Input \in Nat
  /\ MaxWritten \in Nat
  /\ PipeSize \in Nat \ {0}
  /\ Chunk \in Nat \ {0}
  /\ MaxOutput \in Nat \ {0}

VARIABLES
  child,      \* "running", or the way it ended: "ok", "failed", "killed"
  doing,      \* what the running child does next
  helper,     \* a process the child has started: "none", "running", "gone"
  written,    \* units the child has written to each stream
  said,       \* the child's event: "nothing", "turn", or "limit" for a rate limit
  saidAt,     \* the unit of stdout that holds it
  toWrite,    \* units of input the writer has left
  input,      \* units in the pipe of stdin
  pipe,       \* units in the pipes of stdout and stderr
  writer,     \* thread write_stdin: "write" or "done"
  reader,     \* threads read_stream: "read", "got", "measured", "done"
  got,        \* units a reader holds
  room,       \* what a reader found left of MaxOutput
  lock,       \* output_lock: its owner or "free"
  output,     \* units captured
  tooLarge,   \* output_too_large
  loop,       \* the thread of run_cli
  timedOut, cancelled,
  taken,      \* the output that run_cli returns
  expired,    \* the deadline has passed
  asked       \* cancel_event is set

process  == <<child, doing, helper, written, said, saidAt>>
feeding  == <<toWrite, input, writer>>
reading  == <<reader, got, room, lock, output, tooLarge>>
watching == <<loop, timedOut, cancelled, taken>>
vars     == <<process, feeding, pipe, reading, watching, expired, asked>>

Streams == {"stdout", "stderr"}
Does    == {"input", "stdout", "stderr", "exit", "hang"}

\* The ends of the pipes that are not run_cli's are closed.
Closed == child # "running" /\ helper # "running"

-----------------------------------------------------------------------------
(* The child. *)

GoesOn == doing' \in Does

ReadInput ==
  /\ child = "running" /\ doing = "input"
  /\ \/ input > 0 /\ input' = input - 1 /\ GoesOn
     \/ input = 0 /\ writer = "done" /\ doing' \in Does \ {"input"} /\ UNCHANGED input
  /\ UNCHANGED <<child, helper, written, said, saidAt, toWrite, writer, pipe, reading,
                 watching, expired, asked>>

\* Its event, of which there is one, may be in any unit of stdout.
SaysIn(s) ==
  \/ UNCHANGED <<said, saidAt>>
  \/ /\ s = "stdout" /\ said = "nothing"
     /\ said' \in {"turn", "limit"}
     /\ saidAt' = written'[s]

WriteOutput(s) ==
  /\ child = "running" /\ doing = s
  /\ \/ /\ written[s] < MaxWritten /\ pipe[s] < PipeSize
        /\ pipe' = [pipe EXCEPT ![s] = @ + 1]
        /\ written' = [written EXCEPT ![s] = @ + 1]
        /\ SaysIn(s)
        /\ GoesOn
     \/ /\ written[s] = MaxWritten
        /\ doing' = "exit"
        /\ UNCHANGED <<pipe, written, said, saidAt>>
  /\ UNCHANGED <<child, helper, feeding, reading, watching, expired, asked>>

StartHelper ==
  /\ child = "running" /\ helper = "none"
  /\ helper' = "running"
  /\ UNCHANGED <<child, doing, written, said, saidAt, feeding, pipe, reading, watching, expired, asked>>

Exit ==
  /\ child = "running" /\ doing = "exit"
  /\ child' \in {"ok", "failed"}
  /\ UNCHANGED <<doing, helper, written, said, saidAt, feeding, pipe, reading, watching, expired, asked>>

HelperExits ==
  /\ helper = "running"
  /\ helper' = "gone"
  /\ UNCHANGED <<child, doing, written, said, saidAt, feeding, pipe, reading, watching, expired, asked>>

-----------------------------------------------------------------------------
(* The threads. *)

\* The writer is done when all is written and stdin closed, or the pipe is broken.
WriteInput ==
  /\ writer = "write"
  /\ \/ /\ toWrite > 0 /\ ~Closed /\ input < PipeSize
        /\ toWrite' = toWrite - 1 /\ input' = input + 1
        /\ UNCHANGED writer
     \/ (toWrite = 0 \/ Closed) /\ writer' = "done" /\ UNCHANGED <<toWrite, input>>
  /\ UNCHANGED <<process, pipe, reading, watching, expired, asked>>

SetReader(s, r) == reader' = [reader EXCEPT ![s] = r]

\* Mutant: nothing is read before all input is written.
ReadAfterInput(s) ==
  /\ writer = "done"
  /\ reader[s] = "read" /\ pipe[s] > 0
  /\ pipe' = [pipe EXCEPT ![s] = @ - 1]
  /\ got' = [got EXCEPT ![s] = @ + 1]
  /\ IF got'[s] = Chunk THEN SetReader(s, "got") ELSE UNCHANGED reader
  /\ UNCHANGED <<process, feeding, room, lock, output, tooLarge, watching, expired, asked>>

\* stream.read waits for a whole chunk,
Read(s) ==
  /\ reader[s] = "read" /\ pipe[s] > 0
  /\ pipe' = [pipe EXCEPT ![s] = @ - 1]
  /\ got' = [got EXCEPT ![s] = @ + 1]
  /\ IF got'[s] = Chunk THEN SetReader(s, "got") ELSE UNCHANGED reader
  /\ UNCHANGED <<process, feeding, room, lock, output, tooLarge, watching, expired, asked>>

\* or the end of the stream.
ReadEnd(s) ==
  /\ reader[s] = "read" /\ pipe[s] = 0 /\ Closed
  /\ SetReader(s, IF got[s] > 0 THEN "got" ELSE "done")
  /\ UNCHANGED <<process, feeding, pipe, got, room, lock, output, tooLarge, watching, expired, asked>>

Captured == output["stdout"] + output["stderr"]

Left == IF MaxOutput > Captured THEN MaxOutput - Captured ELSE 0

\* Mutant: without output_lock.
MeasureUnlocked(s) ==
  /\ reader[s] = "got"
  /\ room' = [room EXCEPT ![s] = Left]
  /\ SetReader(s, "measured")
  /\ UNCHANGED <<process, feeding, pipe, got, lock, output, tooLarge, watching, expired, asked>>

Measure(s) ==
  /\ reader[s] = "got" /\ lock = "free"
  /\ lock' = s
  /\ room' = [room EXCEPT ![s] = Left]
  /\ SetReader(s, "measured")
  /\ UNCHANGED <<process, feeding, pipe, got, output, tooLarge, watching, expired, asked>>

Fitting(s) == IF got[s] <= room[s] THEN got[s] ELSE room[s]

Extend(s) ==
  /\ reader[s] = "measured"
  /\ output' = [output EXCEPT ![s] = @ + Fitting(s)]
  /\ tooLarge' = (tooLarge \/ got[s] > room[s])
  /\ got' = [got EXCEPT ![s] = 0] /\ room' = [room EXCEPT ![s] = 0]
  /\ lock' = "free"
  /\ SetReader(s, "read")
  /\ UNCHANGED <<process, feeding, pipe, watching, expired, asked>>

-----------------------------------------------------------------------------
(* run_cli. *)

Expire ==
  /\ ~expired /\ expired' = TRUE
  /\ UNCHANGED <<process, feeding, pipe, reading, watching, asked>>

AskCancel ==
  /\ ~asked /\ asked' = TRUE
  /\ UNCHANGED <<process, feeding, pipe, reading, watching, expired>>

Poll ==
  /\ loop = "poll"
  /\ loop' = IF child = "running" THEN "check" ELSE "joinStdout"
  /\ UNCHANGED <<process, feeding, pipe, reading, timedOut, cancelled, taken, expired, asked>>

\* Mutant: only the child is killed.
KillChild ==
  /\ child' = IF child = "running" THEN "killed" ELSE child
  /\ UNCHANGED helper

\* The child may have exited since it was polled; its group is there until it is waited for.
KillGroup ==
  /\ child' = IF child = "running" THEN "killed" ELSE child
  /\ helper' = IF helper = "running" THEN "gone" ELSE helper

Stop ==
  /\ KillGroup
  /\ loop' = "joinStdout"
  /\ doing' = "exit"
  /\ UNCHANGED <<written, said, saidAt>>

\* Too much output comes before the deadline, and the deadline before a cancellation.
Check ==
  /\ loop = "check"
  /\ \/ tooLarge /\ Stop /\ UNCHANGED <<timedOut, cancelled>>
     \/ ~tooLarge /\ expired /\ Stop /\ timedOut' = TRUE /\ UNCHANGED cancelled
     \/ ~tooLarge /\ ~expired /\ asked /\ Stop /\ cancelled' = TRUE /\ UNCHANGED timedOut
     \/ /\ ~tooLarge /\ ~expired /\ ~asked
        /\ loop' = "poll" /\ UNCHANGED <<process, timedOut, cancelled>>
  /\ UNCHANGED <<feeding, pipe, reading, taken, expired, asked>>

\* A second is enough for a thread to end if it can; one that waits for the helper is
\* left to itself.
WaitsForHelper(s) == helper = "running" /\ reader[s] = "read" /\ pipe[s] = 0

\* Mutant: the readers are not waited for.
JoinReaderNot(s, here, next) == loop = here /\ loop' = next

JoinReader(s, here, next) ==
  /\ loop = here
  /\ reader[s] = "done" \/ WaitsForHelper(s)
  /\ loop' = next

JoinWriter ==
  /\ loop = "joinWriter"
  /\ writer = "done" \/ (helper = "running" /\ input = PipeSize)
  /\ loop' = "take"

Join ==
  /\ \/ JoinReader("stdout", "joinStdout", "joinStderr")
     \/ JoinReader("stderr", "joinStderr", "joinWriter")
     \/ JoinWriter
  /\ UNCHANGED <<process, feeding, pipe, reading, timedOut, cancelled, taken, expired, asked>>

Return ==
  /\ loop = "take"
  /\ taken' = output
  /\ loop' = "returned"
  /\ UNCHANGED <<process, feeding, pipe, reading, timedOut, cancelled, expired, asked>>

-----------------------------------------------------------------------------
(* What review makes of it. *)

Flagged == cancelled \/ timedOut \/ tooLarge

\* check_process_result; "exit" stands for the codes that the wording of stderr decides.
Checked(otherwise) ==
  IF cancelled THEN "cancelled"
  ELSE IF timedOut THEN "timeout"
  ELSE IF tooLarge THEN "output_too_large"
  ELSE IF child # "ok" THEN "exit"
  ELSE otherwise

\* Mutant: the exit code is looked at before the stream.
ClaudeChecksFirst ==
  LET heard == IF saidAt <= taken["stdout"] THEN said ELSE "nothing" IN
  Checked(CASE heard = "turn" -> "turn" [] heard = "limit" -> "rate_limit" [] OTHER -> "invalid_output")

\* The Claude CLI says both its result and a rate limit on stdout.
Claude ==
  LET heard == IF saidAt <= taken["stdout"] THEN said ELSE "nothing" IN
  IF ~Flagged /\ heard = "limit" THEN "rate_limit"
  ELSE Checked(IF heard = "turn" THEN "turn" ELSE "invalid_output")

\* The Codex CLI leaves its result in a file, whose size codex.py checks against the same
\* limit (output_too_large); the file is not modelled, and its size is left out.
Codex == Checked(IF said = "turn" THEN "turn" ELSE "invalid_output")

-----------------------------------------------------------------------------

Init ==
  /\ child = "running" /\ doing \in Does /\ helper = "none"
  /\ written = [s \in Streams |-> 0] /\ said = "nothing" /\ saidAt = 0
  /\ toWrite = Input /\ input = 0 /\ writer = "write"
  /\ pipe = [s \in Streams |-> 0]
  /\ reader = [s \in Streams |-> "read"]
  /\ got = [s \in Streams |-> 0] /\ room = [s \in Streams |-> 0]
  /\ lock = "free" /\ output = [s \in Streams |-> 0] /\ tooLarge = FALSE
  /\ loop = "poll" /\ timedOut = FALSE /\ cancelled = FALSE
  /\ taken = [s \in Streams |-> 0]
  /\ expired = FALSE /\ asked = FALSE

Child      == ReadInput \/ (\E s \in Streams : WriteOutput(s)) \/ Exit
Reader(s)  == Read(s) \/ ReadEnd(s) \/ Measure(s) \/ Extend(s)
Supervisor == Poll \/ Check \/ Join \/ Return

Returned == loop = "returned"

\* What a thread left to itself does afterwards reaches nobody.
Next ==
  /\ ~Returned
  /\ \/ Child \/ StartHelper \/ HelperExits
     \/ WriteInput
     \/ \E s \in Streams : Reader(s)
     \/ Supervisor
     \/ Expire \/ AskCancel

Spec == Init /\ [][Next]_vars

\* Threads run.  The deadline is counted on only where the child does nothing any more:
\* a child that reads and writes comes to its end without it.
FairSpec ==
  /\ Spec
  /\ WF_vars(Child) /\ WF_vars(WriteInput) /\ WF_vars(Supervisor)
  /\ \A s \in Streams : WF_vars(Reader(s))
  /\ WF_vars(doing = "hang" /\ Expire)

-----------------------------------------------------------------------------
(* Properties. *)

TypeOK ==
  /\ child \in {"running", "ok", "failed", "killed"}
  /\ doing \in Does
  /\ helper \in {"none", "running", "gone"}
  /\ written \in [Streams -> 0 .. MaxWritten]
  /\ said \in {"nothing", "turn", "limit"} /\ saidAt \in 0 .. MaxWritten
  /\ toWrite \in 0 .. Input /\ input \in 0 .. PipeSize
  /\ pipe \in [Streams -> 0 .. PipeSize]
  /\ writer \in {"write", "done"}
  /\ reader \in [Streams -> {"read", "got", "measured", "done"}]
  /\ got \in [Streams -> 0 .. Chunk]
  /\ room \in [Streams -> 0 .. MaxOutput]
  /\ lock \in Streams \cup {"free"}
  /\ output \in [Streams -> 0 .. MaxOutput] /\ taken \in [Streams -> 0 .. MaxOutput]
  /\ loop \in {"poll", "check", "joinStdout", "joinStderr", "joinWriter", "take", "returned"}
  /\ tooLarge \in BOOLEAN /\ timedOut \in BOOLEAN /\ cancelled \in BOOLEAN
  /\ expired \in BOOLEAN /\ asked \in BOOLEAN

\* The streams share one limit, whichever chunks arrive together.
WithinLimit == Captured <= MaxOutput

\* A turn is accepted only from a child that ended well and by itself and, unless a helper
\* kept the pipes open, after all that it wrote has been read.
TurnsGenuine ==
  Returned /\ "turn" \in {Claude, Codex} =>
    /\ child = "ok" /\ said = "turn"
    /\ helper = "none" => taken = written

\* A rate limit that the Claude CLI has reported on its stdout is heard, whatever code it
\* then exits with: the session pauses instead of ending in an error.  Runs flagged as
\* timed out, cancelled or too large are reported as that first, and a helper may hold the
\* pipe open with the report still in it.
LimitsHeard ==
  Returned /\ said = "limit" /\ helper = "none" /\ ~Flagged => Claude = "rate_limit"

\* When a run was stopped for its deadline or by a cancellation, none of its processes is
\* left to work on.
GroupGone == Returned /\ (timedOut \/ cancelled) => Closed

\* run_cli returns: a child is never stuck at a full or an empty pipe, one that hangs is
\* stopped, and a helper is not waited for.
Returns == <>Returned
=============================================================================
