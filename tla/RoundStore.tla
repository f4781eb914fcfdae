----------------------------- MODULE RoundStore -----------------------------
(***************************************************************************)
(* The session store of Peer Reviewer (store.py) on its file system: what  *)
(* commit_round, write_status and recover leave on a disk when the engine's*)
(* process is killed, or the machine loses power, between any two of their *)
(* file operations.                                                        *)
(*                                                                         *)
(* A directory belongs to the attempt that made it: it is the staging      *)
(* directory of the attempt and then the directory of a round.  A killed   *)
(* process leaves what it wrote in the page cache.  A power failure leaves *)
(* what was fsynced and some of the rest: changes of the names in rounds/  *)
(* reach the disk in order, as in a journal, and everything else in any    *)
(* order.  A file made durable by fsync is still lost while the directory  *)
(* that names it is not.                                                   *)
(*                                                                         *)
(* The engine is reduced to what it makes of the store: it recovers, counts*)
(* an attempt in state.json, reviews, and commits the round or gives up.   *)
(***************************************************************************)
EXTENDS Naturals

CONSTANTS
  MaxRounds,    \* session.max_rounds
  MaxAttempts,  \* attempts at a round
  MaxCrashes    \* bound on killed processes and power failures

ASSUME BoundsAssumption ==
  /\ MaxRounds \in Nat \ {0}
  /\ MaxAttempts \in Nat \ {0}
  /\ MaxCrashes \in Nat

VARIABLES
  name,        \* what the directory of an attempt is called in rounds/
  nameKept,    \* the namings a power failure can leave
  file,        \* the files of each directory
  base,        \* the rounds an attempt's bundle was computed from
  status,      \* runtime/state.json
  statusKept,  \* the contents a power failure can leave in it
  pc,          \* the engine's process: "down", or what it does next
  known,       \* Engine.recovered: the committed rounds
  tried,       \* Engine.state["attempts"]
  cur,         \* the attempt being made
  crashes,     \* number of crashes so far
  reviewed,    \* attempts whose review was ever submitted
  returned,    \* attempts whose commit_round has returned
  relied,      \* the rounds recover returned last
  lost         \* a power failure has taken back a round that recover had returned

directories == <<name, nameKept, file, base>>
statusFile  == <<status, statusKept>>
memory      == <<known, tried, cur>>
history     == <<reviewed, returned, relied, lost>>
vars == <<directories, statusFile, pc, memory, crashes, history>>

-----------------------------------------------------------------------------
(* Data. *)

Rounds   == 1 .. MaxRounds
Attempts == [round : Rounds, number : 1 .. MaxAttempts]
None     == [round |-> 0, number |-> 0]
Files    == 1 .. 3   \* round.json, round.md and checksums.json, in the order written

\* Mutant: recover takes a staging directory for a round.
CommittedOrStaged(nm) == {a \in Attempts : nm[a] # "none"}

\* Directories with four digits are rounds; a staging directory begins with a dot.
Committed(nm) == {a \in Attempts : nm[a] = "round"}

Numbers(S)   == {a.round : a \in S}
Before(S, n) == {a \in S : a.round < n}
Last(S)      == CHOOSE n \in 0 .. MaxRounds : Numbers(S) = 1 .. n

\* A file being written is torn.  One whose data is durable but whose name is not
\* is cached; a power failure keeps both or neither.
FileStates == {"none", "torn", "cached", "durable"}
Readable   == {"cached", "durable"}
Empty      == [f \in Files |-> "none"]

Whole(a) == \A f \in Files : file[a][f] \in Readable

\* recover: the numbers run from 1 without a gap, every round is complete and agrees
\* with its checksums, and each was computed from those before it.
Sound(S) ==
  /\ \E n \in 0 .. MaxRounds : Numbers(S) = 1 .. n
  /\ \A a, b \in S : a.round = b.round => a = b
  /\ \A a \in S : Whole(a) /\ base[a] = Before(S, a.round)

Untried     == [r \in Rounds |-> 0]
Status      == [lcr : 0 .. MaxRounds, tried : [Rounds -> 0 .. MaxAttempts]]
Bare(n)     == [lcr |-> n, tried |-> Untried]

\* Mutant: the attempts are left out.
EngineStateBare == Bare(Last(known))

EngineState == [lcr |-> Last(known), tried |-> tried]

Stages == {"down", "save", "syncSave", "idle", "submit", "review", "write",
           "rename", "syncRounds", "status", "syncStatus", "recover"}

-----------------------------------------------------------------------------
(* write_status: a new state.json is whole when it takes the old one's      *)
(* place, and durable when its directory is.                                *)

ReplaceStatus(s) ==
  /\ status' = s
  /\ statusKept' = statusKept \cup {s}

\* Mutant: the directory is not fsynced.
SyncStatusNot == UNCHANGED statusFile

SyncStatus == statusKept' = {status} /\ UNCHANGED status

-----------------------------------------------------------------------------
(* The engine between two commits.                                          *)

Recovers ==
  /\ Sound(Committed(name))
  /\ known' = Committed(name)
  /\ relied' = Committed(name)

\* The process starts.  The rounds outweigh state.json, of which only the attempts
\* are believed; a round it does not show yet, or an attempt it does, is followed up
\* and saved.
Boot ==
  /\ pc = "down"
  /\ Recovers
  /\ tried' = status.tried
  /\ pc' \in IF Last(Committed(name)) > status.lcr THEN {"save"} ELSE {"save", "idle"}
  /\ UNCHANGED <<directories, statusFile, cur, crashes, reviewed, returned, lost>>

Save ==
  /\ pc = "save"
  /\ ReplaceStatus(EngineState)
  /\ pc' = "syncSave"
  /\ UNCHANGED <<directories, memory, crashes, history>>

SyncSave ==
  /\ pc = "syncSave"
  /\ SyncStatus
  /\ pc' = IF cur = None THEN "idle" ELSE "submit"
  /\ UNCHANGED <<directories, memory, crashes, history>>

MayTry(n) == n \in Rounds /\ tried[n] < MaxAttempts

\* An attempt is named by its round and its number in the round.
BeginAttempt ==
  LET n == Last(known) + 1 IN
  /\ pc = "idle"
  /\ MayTry(n)
  /\ tried' = [tried EXCEPT ![n] = @ + 1]
  /\ cur' = [round |-> n, number |-> tried[n] + 1]
  /\ pc' = "save"
  /\ UNCHANGED <<directories, statusFile, known, crashes, history>>

\* The bundle carries the hash of the state it was computed from.
Submit ==
  /\ pc = "submit"
  /\ reviewed' = reviewed \cup {cur}
  /\ base' = [base EXCEPT ![cur] = known]
  /\ pc' = "review"
  /\ UNCHANGED <<name, nameKept, file, statusFile, memory, crashes, returned, relied, lost>>

AttemptFails ==
  /\ pc = "review"
  /\ cur' = None
  /\ pc' = "save"
  /\ UNCHANGED <<directories, statusFile, known, tried, crashes, history>>

-----------------------------------------------------------------------------
(* commit_round, one file operation at a time.                              *)

NameIt(a, n) ==
  /\ name' = [name EXCEPT ![a] = n]
  /\ nameKept' = nameKept \cup {name'}

\* The round is the next one and its staging directory is not there; anything else
\* is a RoundConflict, with which the session would end.
Expected(a) ==
  /\ Numbers(Committed(name)) = 1 .. a.round - 1
  /\ name[a] = "none"

MakeStaging ==
  /\ pc = "review"
  /\ Expected(cur)
  /\ NameIt(cur, "staging")
  /\ pc' = "write"
  /\ UNCHANGED <<file, base, statusFile, memory, crashes, history>>

SetFile(f, s) == file' = [file EXCEPT ![cur][f] = s]

OpenFile ==
  /\ pc = "write"
  /\ \E f \in Files :
       /\ file[cur][f] = "none"
       /\ \A g \in 1 .. f - 1 : file[cur][g] \in Readable
       /\ SetFile(f, "torn")
  /\ UNCHANGED <<name, nameKept, base, statusFile, pc, memory, crashes, history>>

WriteFile ==
  /\ pc = "write"
  /\ \E f \in Files : file[cur][f] = "torn" /\ SetFile(f, "cached")
  /\ UNCHANGED <<name, nameKept, base, statusFile, pc, memory, crashes, history>>

AllWritten == \A f \in Files : file[cur][f] \in Readable

\* Mutant: the staging directory is not fsynced.
SyncStagingNot ==
  /\ pc = "write"
  /\ AllWritten
  /\ pc' = "rename"
  /\ UNCHANGED <<directories, statusFile, memory, crashes, history>>

SyncStaging ==
  /\ pc = "write"
  /\ AllWritten
  /\ file' = [file EXCEPT ![cur] = [f \in Files |-> "durable"]]
  /\ pc' = "rename"
  /\ UNCHANGED <<name, nameKept, base, statusFile, memory, crashes, history>>

RenameRound ==
  /\ pc = "rename"
  /\ NameIt(cur, "round")
  /\ pc' = "syncRounds"
  /\ UNCHANGED <<file, base, statusFile, memory, crashes, history>>

\* Mutant: rounds/ is not fsynced before state.json is written.
SyncRoundsNot ==
  /\ pc = "syncRounds"
  /\ pc' = "status"
  /\ UNCHANGED <<directories, statusFile, memory, crashes, history>>

SyncRounds ==
  /\ pc = "syncRounds"
  /\ nameKept' = {name}
  /\ pc' = "status"
  /\ UNCHANGED <<name, file, base, statusFile, memory, crashes, history>>

\* commit_round's own state.json has the number of the round and no attempts.
WriteRoundStatus ==
  /\ pc = "status"
  /\ ReplaceStatus(Bare(cur.round))
  /\ pc' = "syncStatus"
  /\ UNCHANGED <<directories, memory, crashes, history>>

CommitReturns ==
  /\ pc = "syncStatus"
  /\ SyncStatus
  /\ returned' = returned \cup {cur}
  /\ pc' = "recover"
  /\ UNCHANGED <<directories, memory, crashes, reviewed, relied, lost>>

\* Mutant: the engine goes on with the rounds it knew before.
RecoverCommittedNot ==
  /\ pc = "recover"
  /\ cur' = None
  /\ pc' = "save"
  /\ UNCHANGED <<directories, statusFile, known, tried, crashes, history>>

RecoverCommitted ==
  /\ pc = "recover"
  /\ Recovers
  /\ cur' = None
  /\ pc' = "save"
  /\ UNCHANGED <<directories, statusFile, tried, crashes, reviewed, returned, lost>>

-----------------------------------------------------------------------------
(* Crashes. *)

Dies ==
  /\ crashes < MaxCrashes
  /\ crashes' = crashes + 1
  /\ pc' = "down"
  /\ known' = {} /\ tried' = Untried /\ cur' = None

KillProcess ==
  /\ pc # "down"
  /\ Dies
  /\ UNCHANGED <<directories, statusFile, history>>

\* What is on the disk of a file that was not lost.
OnDisk(s) == IF s = "cached" THEN "durable" ELSE s

Doubtful == {p \in Attempts \X Files : file[p[1]][p[2]] \notin {"none", "durable"}}

PowerFailure ==
  /\ Dies
  /\ name' \in nameKept /\ nameKept' = {name'}
  /\ \E gone \in SUBSET Doubtful :
       file' = [a \in Attempts |->
                  [f \in Files |-> IF name'[a] = "none" \/ <<a, f>> \in gone
                                   THEN "none" ELSE OnDisk(file[a][f])]]
  /\ status' \in statusKept /\ statusKept' = {status'}
  /\ lost' = (lost \/ ~(relied \subseteq Committed(name')))
  /\ relied' = relied \cap Committed(name')
  /\ UNCHANGED <<base, reviewed, returned>>

-----------------------------------------------------------------------------

Init ==
  /\ name = [a \in Attempts |-> "none"] /\ nameKept = {name}
  /\ file = [a \in Attempts |-> Empty]
  /\ base = [a \in Attempts |-> {}]
  /\ status = Bare(0) /\ statusKept = {status}
  /\ pc = "down"
  /\ known = {} /\ tried = Untried /\ cur = None
  /\ crashes = 0
  /\ reviewed = {} /\ returned = {} /\ relied = {} /\ lost = FALSE

Engine == Boot \/ Save \/ SyncSave \/ BeginAttempt \/ Submit \/ AttemptFails

CommitRound ==
  \/ MakeStaging \/ OpenFile \/ WriteFile \/ SyncStaging
  \/ RenameRound \/ SyncRounds
  \/ WriteRoundStatus \/ CommitReturns \/ RecoverCommitted

Next == Engine \/ CommitRound \/ KillProcess \/ PowerFailure

Spec == Init /\ [][Next]_vars

-----------------------------------------------------------------------------
(* Properties. *)

\* Every variable keeps to the values store.py and the file system give it.
TypeOK ==
  /\ name \in nameKept
  /\ nameKept \subseteq [Attempts -> {"none", "staging", "round"}]
  /\ file \in [Attempts -> [Files -> FileStates]]
  /\ base \in [Attempts -> SUBSET Attempts]
  /\ status \in statusKept /\ statusKept \subseteq Status
  /\ pc \in Stages
  /\ known \subseteq Attempts
  /\ tried \in [Rounds -> 0 .. MaxAttempts]
  /\ cur \in Attempts \cup {None}
  /\ crashes \in 0 .. MaxCrashes
  /\ reviewed \subseteq Attempts /\ returned \subseteq Attempts /\ relied \subseteq Attempts
  /\ lost \in BOOLEAN

\* Whenever it is called, by the engine after a crash or by a report beside a commit,
\* recover finds whole rounds in an unbroken chain and raises no IntegrityError: the
\* old history or the new one, never part of a round.
RecoversAlways == Sound(Committed(name))

\* Once commit_round has returned no power failure takes the round away.
ReturnedStays == \A a \in returned, nm \in nameKept : nm[a] = "round"

\* An attempt's identifier is not used twice, as the count that makes it is durable
\* before the review is submitted; unless a power failure has taken back a round that
\* recover had returned without its directory being durable (store.py:222).
AttemptsFresh == pc = "submit" /\ ~lost => cur \notin reviewed

\* No round the engine commits meets a RoundConflict, whatever staging directories
\* earlier crashes have left and whatever power failures have taken back.
NeverRefused == pc = "review" => Expected(cur)

\* The store is a log that only grows, but for unsettled rounds in a power failure.
Settled == {a \in Attempts : \A nm \in nameKept : nm[a] = "round"}

Log == INSTANCE RoundLog WITH
         Entries <- Attempts, log <- Committed(name), settled <- Settled

ImplementsLog == Log!Spec

\* On its disk the store keeps the history that the engine relies on: a review is for
\* the round after the last, a round is added only after its review, and a power
\* failure that takes a round back leaves no review beyond the next one, unless it
\* takes one that recover had returned.
History == INSTANCE RoundHistory WITH
             rounds <- Last(Committed(name)), submitted <- reviewed, broken <- lost

KeepsHistory == History!Spec

=============================================================================
