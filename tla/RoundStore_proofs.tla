-------------------------- MODULE RoundStore_proofs --------------------------
(***************************************************************************)
(* Proofs about RoundStore, for any number of rounds, attempts and crashes.*)
(*                                                                         *)
(* The argument: in every naming a power failure can leave (nameKept) the  *)
(* rounds are a durable, unbroken part of those a reader finds now; and    *)
(* whatever state.json can say, an attempt that has a directory, or that   *)
(* was reviewed, is either counted in it or belongs to a round that no     *)
(* power failure takes away.                                               *)
(***************************************************************************)
EXTENDS RoundStore, TLAPS

\* The rounds of a naming: numbered without a gap, each from those before it.
Chain(S) ==
  /\ \E n \in 0 .. MaxRounds : Numbers(S) = 1 .. n
  /\ \A a, b \in S : a.round = b.round => a = b
  /\ \A a \in S : base[a] = Before(S, a.round)

\* A directory is made only after the rounds before its own.
Follows(nm) == \A a \in Attempts : nm[a] # "none" => 1 .. a.round - 1 \subseteq Numbers(Committed(nm))

DiskInv ==
  \A nm \in nameKept :
    /\ Chain(Committed(nm))
    /\ Committed(nm) \subseteq Committed(name)
    /\ \A a \in Committed(nm), f \in Files : file[a][f] = "durable"
    /\ Follows(nm)

Waiting  == {"idle", "save", "syncSave", "submit", "review", "write", "rename"}
Renamed  == {"syncRounds", "status", "syncStatus", "recover"}
Chosen   == {"submit", "review", "write", "rename"}
Reviewed == {"review", "write", "rename"}
Synced   == {"status", "syncStatus", "recover"}

\* What the engine knows in each stage.
EngineInv ==
  /\ pc # "down" => relied = known
  /\ pc \in Waiting => known = Committed(name)
  /\ pc \in Chosen \cup Renamed => cur # None
  /\ pc \in Waiting \cup Renamed /\ cur # None =>
       Numbers(known) = 1 .. cur.round - 1
  /\ pc \in {"down", "idle"} => cur = None
  /\ pc \in {"save", "syncSave", "submit", "review"} /\ cur # None =>
       \A nm \in nameKept : nm[cur] = "none"
  /\ pc \in Reviewed => base[cur] = known
  /\ pc \in {"write", "rename"} => name[cur] = "staging"
  /\ pc = "rename" => \A f \in Files : file[cur][f] = "durable"
  /\ pc \in Renamed => Committed(name) = known \cup {cur}
  /\ pc \in {"syncRounds", "status"} => \A a \in Attempts : name[a] # "none" => a.round <= cur.round
  /\ pc \in Synced => nameKept = {name}
  /\ pc = "syncSave" => status.tried = tried
  /\ pc \in Chosen => statusKept = {status} /\ status.tried = tried
  /\ pc \in Waiting /\ cur # None => cur.number <= tried[cur.round]

\* Every count that state.json can give, and the engine's own, covers the attempt,
\* unless its round is there in every naming a power failure can leave.
SettledRound(r) == \A nm \in nameKept : r \in Numbers(Committed(nm))

Counted(a) ==
  \/ SettledRound(a.round)
  \/ /\ \A s \in statusKept : a.number <= s.tried[a.round]
     /\ pc # "down" => a.number <= tried[a.round]

Counts(S) == \A a \in S : Counted(a)

Named == {a \in Attempts : \E nm \in nameKept : nm[a] # "none"}

\* As long as nothing recovered is lost, what was reviewed follows what was recovered.
TrustInv ==
  ~lost => /\ Counts(reviewed)
           /\ \A a \in reviewed : 1 .. a.round - 1 \subseteq Numbers(relied)
           /\ pc \in {"save", "syncSave", "submit"} => cur \notin reviewed

Inv ==
  /\ TypeOK
  /\ DiskInv
  /\ EngineInv
  /\ Counts(Named)
  /\ ReturnedStays
  /\ relied \subseteq Committed(name)
  /\ TrustInv
-----------------------------------------------------------------------------
(* Numbers. *)

\* The length of a history without gaps is the number of its last round.
LEMMA LastRound ==
  ASSUME NEW S, \E n \in 0 .. MaxRounds : Numbers(S) = 1 .. n
  PROVE  Last(S) \in 0 .. MaxRounds /\ Numbers(S) = 1 .. Last(S)
  BY DEF Last

LEMMA SegmentEnd ==
  ASSUME NEW m \in Nat, NEW n \in Nat, 1 .. m = 1 .. n
  PROVE  m = n
  <1>1. m # 0 => m \in 1 .. m
    OBVIOUS
  <1>2. n # 0 => n \in 1 .. n
    OBVIOUS
  <1> QED
    BY <1>1, <1>2

-----------------------------------------------------------------------------
(* Types. *)

LEMMA EngineStateType ==
  ASSUME Inv, pc \in Waiting
  PROVE  EngineState \in Status
  <1>1. Last(known) \in 0 .. MaxRounds
    BY LastRound DEF Inv, TypeOK, DiskInv, Chain, EngineInv
  <1> QED
    BY <1>1 DEF EngineState, Status, Inv, TypeOK

LEMMA SetFileType ==
  ASSUME TypeOK, NEW f \in Files, NEW s \in FileStates, SetFile(f, s)
  PROVE  file' \in [Attempts -> [Files -> FileStates]]
  <1>1. CASE cur \in Attempts
    <2>1. [file[cur] EXCEPT ![f] = s] \in [Files -> FileStates]
      BY <1>1 DEF TypeOK
    <2>2. file' = [file EXCEPT ![cur] = [file[cur] EXCEPT ![f] = s]]
      BY DEF SetFile
    <2> QED
      BY <2>1, <2>2 DEF TypeOK
  <1>2. CASE cur \notin Attempts
    BY <1>2 DEF TypeOK, SetFile
  <1> QED
    BY <1>1, <1>2

LEMMA NameItType ==
  ASSUME TypeOK, NEW a, NEW n \in {"none", "staging", "round"}, NameIt(a, n)
  PROVE  /\ name' \in nameKept'
         /\ nameKept' \subseteq [Attempts -> {"none", "staging", "round"}]
  <1>1. name' \in [Attempts -> {"none", "staging", "round"}]
    BY DEF TypeOK, NameIt
  <1> QED
    BY <1>1 DEF TypeOK, NameIt

LEMMA TypeStep == Inv /\ [Next]_vars => TypeOK'
  <1> SUFFICES ASSUME Inv, [Next]_vars
               PROVE  TypeOK'
    OBVIOUS
  <1> USE BoundsAssumption DEF TypeOK, statusFile, directories, memory, history, Stages
  <1>1. CASE Boot
    BY <1>1 DEF Inv, Boot, Recovers, Committed, Status
  <1>2. CASE Save
    <2>1. EngineState \in Status
      BY <1>2, EngineStateType DEF Save, Waiting
    <2> QED
      BY <1>2, <2>1 DEF Inv, Save, ReplaceStatus
  <1>3. CASE SyncSave
    BY <1>3 DEF Inv, SyncSave, SyncStatus
  <1>4. CASE BeginAttempt
    <2>1. PICK n \in Rounds : /\ tried[n] < MaxAttempts
                              /\ tried' = [tried EXCEPT ![n] = @ + 1]
                              /\ cur' = [round |-> n, number |-> tried[n] + 1]
      BY <1>4 DEF BeginAttempt, MayTry
    <2>2. tried[n] + 1 \in 1 .. MaxAttempts
      BY <2>1 DEF Inv
    <2>3. cur' \in Attempts
      BY <2>1, <2>2 DEF Attempts
    <2>4. tried' \in [Rounds -> 0 .. MaxAttempts]
      BY <2>1, <2>2 DEF Inv
    <2> QED
      BY <1>4, <2>3, <2>4 DEF Inv, BeginAttempt
  <1>5. CASE Submit
    BY <1>5 DEF Inv, Submit, EngineInv, Chosen
  <1>6. CASE AttemptFails
    BY <1>6 DEF Inv, AttemptFails
  <1>7. CASE MakeStaging
    BY <1>7, NameItType DEF Inv, MakeStaging
  <1>8. CASE OpenFile
    <2>1. file' \in [Attempts -> [Files -> FileStates]]
      BY <1>8, SetFileType DEF Inv, OpenFile, FileStates
    <2> QED
      BY <1>8, <2>1 DEF Inv, OpenFile
  <1>9. CASE WriteFile
    <2>1. file' \in [Attempts -> [Files -> FileStates]]
      BY <1>9, SetFileType DEF Inv, WriteFile, FileStates
    <2> QED
      BY <1>9, <2>1 DEF Inv, WriteFile
  <1>10. CASE SyncStaging
    BY <1>10 DEF Inv, SyncStaging, FileStates
  <1>11. CASE RenameRound
    BY <1>11, NameItType DEF Inv, RenameRound
  <1>12. CASE SyncRounds
    BY <1>12 DEF Inv, SyncRounds
  <1>13. CASE WriteRoundStatus
    <2>1. Bare(cur.round) \in Status
      BY <1>13 DEF Inv, WriteRoundStatus, EngineInv, Renamed, Attempts, Rounds, Bare, Status, Untried
    <2> QED
      BY <1>13, <2>1 DEF Inv, WriteRoundStatus, ReplaceStatus
  <1>14. CASE CommitReturns
    BY <1>14 DEF Inv, CommitReturns, SyncStatus, EngineInv, Renamed
  <1>15. CASE RecoverCommitted
    BY <1>15 DEF Inv, RecoverCommitted, Recovers, Committed
  <1>16. CASE KillProcess
    BY <1>16 DEF Inv, KillProcess, Dies, Untried
  <1>17. CASE PowerFailure
    BY <1>17 DEF Inv, PowerFailure, Dies, Untried, OnDisk, FileStates
  <1>18. CASE UNCHANGED vars
    BY <1>18 DEF Inv, vars
  <1> QED
    BY <1>1, <1>2, <1>3, <1>4, <1>5, <1>6, <1>7, <1>8, <1>9, <1>10, <1>11, <1>12, <1>13, <1>14,
       <1>15, <1>16, <1>17, <1>18 DEF Next, Engine, CommitRound

-----------------------------------------------------------------------------
(* What the disk holds. *)

\* A staging directory is not a round; renaming it adds its attempt.
LEMMA StagedNotCommitted ==
  ASSUME TypeOK, pc = "review", EngineInv, MakeStaging
  PROVE  /\ Committed(name') = Committed(name)
         /\ cur \in Attempts /\ name[cur] = "none" /\ name'[cur] = "staging"
         /\ \A a \in Attempts : a # cur => name'[a] = name[a]
         /\ nameKept' = nameKept \cup {name'}
  BY DEF TypeOK, EngineInv, Chosen, MakeStaging, NameIt, Expected, Committed

LEMMA RenamedCommitted ==
  ASSUME TypeOK, pc = "rename", EngineInv, RenameRound
  PROVE  /\ Committed(name') = Committed(name) \cup {cur}
         /\ cur \in Attempts /\ cur \notin Committed(name) /\ name'[cur] = "round"
         /\ \A a \in Attempts : a # cur => name'[a] = name[a]
         /\ nameKept' = nameKept \cup {name'}
  BY DEF TypeOK, EngineInv, Chosen, RenameRound, NameIt, Committed

\* Writing files or a bundle of an attempt that is not a round disturbs no round.
LEMMA DiskFrame ==
  ASSUME DiskInv, TypeOK, UNCHANGED <<name, nameKept>>,
         \A a \in Committed(name) : file'[a] = file[a] /\ base'[a] = base[a]
  PROVE  DiskInv'
  <1> SUFFICES ASSUME NEW nm \in nameKept
               PROVE  /\ Chain(Committed(nm))'
                      /\ \A a \in Committed(nm), f \in Files : file'[a][f] = "durable"
    BY DEF DiskInv, Follows, Committed
  <1>1. Committed(nm) \subseteq Committed(name)
    BY DEF DiskInv
  <1> QED
    BY <1>1 DEF DiskInv, Chain, Committed

LEMMA DiskStep == Inv /\ [Next]_vars => DiskInv'
  <1> SUFFICES ASSUME Inv, [Next]_vars
               PROVE  DiskInv'
    OBVIOUS
  <1> USE DEF Inv
  <1>1. CASE UNCHANGED directories
    BY <1>1, DiskFrame DEF directories
  <1>2. CASE Submit
    <2>1. cur \notin Committed(name)
      BY <1>2 DEF Submit, EngineInv, Chosen, TypeOK, Committed
    <2>2. \A a \in Committed(name) : base'[a] = base[a]
      BY <1>2, <2>1 DEF Submit, TypeOK, Committed
    <2> QED
      BY <1>2, <2>2, DiskFrame DEF Submit
  <1>3. CASE MakeStaging
    <2>0. pc = "review"
      BY <1>3 DEF MakeStaging
    <2>1. /\ Committed(name') = Committed(name)
          /\ cur \in Attempts /\ name'[cur] = "staging"
          /\ \A a \in Attempts : a # cur => name'[a] = name[a]
          /\ nameKept' = nameKept \cup {name'}
      BY <1>3, <2>0, StagedNotCommitted
    <2>2. Follows(name')
      BY <1>3, <2>1 DEF DiskInv, Follows, TypeOK, MakeStaging, Expected
    <2>3. UNCHANGED <<file, base>>
      BY <1>3 DEF MakeStaging
    <2>4. \A nm \in nameKept : /\ Chain(Committed(nm))'
                               /\ Follows(nm)'
                               /\ Committed(nm) \subseteq Committed(name')
                               /\ \A a \in Committed(nm), f \in Files : file'[a][f] = "durable"
      BY <2>1, <2>3 DEF DiskInv, Chain, Follows
    <2>5. /\ Chain(Committed(name))' /\ Follows(name)'
          /\ \A a \in Committed(name'), f \in Files : file'[a][f] = "durable"
      BY <2>1, <2>2, <2>3 DEF DiskInv, Chain, Follows, TypeOK
    <2> QED
      BY <2>1, <2>4, <2>5 DEF DiskInv
  <1>4. CASE OpenFile \/ WriteFile \/ SyncStaging
    <2>1. cur \notin Committed(name)
      BY <1>4 DEF OpenFile, WriteFile, SyncStaging, EngineInv, Committed
    <2>2. \A a \in Committed(name) : file'[a] = file[a]
      BY <1>4, <2>1 DEF OpenFile, WriteFile, SyncStaging, SetFile, TypeOK, Committed
    <2> QED
      BY <1>4, <2>2, DiskFrame DEF OpenFile, WriteFile, SyncStaging
  <1>5. CASE RenameRound
    <2>0. pc = "rename"
      BY <1>5 DEF RenameRound
    <2>1. /\ Committed(name') = Committed(name) \cup {cur}
          /\ cur \in Attempts /\ cur \notin Committed(name)
          /\ \A a \in Attempts : a # cur => name'[a] = name[a]
          /\ nameKept' = nameKept \cup {name'}
      BY <1>5, <2>0, RenamedCommitted
    <2>2. UNCHANGED <<file, base>>
      BY <1>5 DEF RenameRound
    <2>3. /\ Numbers(Committed(name)) = 1 .. cur.round - 1
          /\ base[cur] = Committed(name) /\ name[cur] = "staging"
          /\ \A f \in Files : file[cur][f] = "durable"
      BY <2>0, <2>1 DEF EngineInv, Waiting, Reviewed, Chosen
    <2>4. cur.round \in 1 .. MaxRounds
      BY <2>1 DEF Attempts, Rounds
    <2>5. \A a \in Committed(name) : a.round \in 1 .. cur.round - 1
      BY <2>3 DEF Numbers
    <2>6. Numbers(Committed(name')) = 1 .. cur.round
      <3>1. Numbers(Committed(name')) = Numbers(Committed(name)) \cup {cur.round}
        BY <2>1 DEF Numbers
      <3> QED
        BY <3>1, <2>3, <2>4
    <2>7. \A a \in Committed(name) : Before(Committed(name'), a.round) = Before(Committed(name), a.round)
      BY <2>1, <2>4, <2>5 DEF Before
    <2>8. Before(Committed(name'), cur.round) = Committed(name)
      BY <2>1, <2>4, <2>5 DEF Before
    <2>9. Chain(Committed(name'))
      <3>1. \A a, b \in Committed(name') : a.round = b.round => a = b
        BY <2>1, <2>4, <2>5 DEF DiskInv, Chain, TypeOK
      <3>2. \A a \in Committed(name') : base[a] = Before(Committed(name'), a.round)
        BY <2>1, <2>3, <2>7, <2>8 DEF DiskInv, Chain, TypeOK
      <3>3. cur.round \in 0 .. MaxRounds
        BY <2>4
      <3> QED
        BY <2>6, <3>1, <3>2, <3>3 DEF Chain
    <2>10. Follows(name')
      <3> SUFFICES ASSUME NEW a \in Attempts, name'[a] # "none"
                   PROVE  1 .. a.round - 1 \subseteq Numbers(Committed(name'))
        BY DEF Follows
      <3>1. 1 .. a.round - 1 \subseteq Numbers(Committed(name))
        BY <2>1, <2>3 DEF DiskInv, Follows, TypeOK
      <3> QED
        BY <3>1, <2>1 DEF Numbers
    <2>11. \A a \in Committed(name'), f \in Files : file'[a][f] = "durable"
      BY <2>1, <2>2, <2>3 DEF DiskInv, TypeOK
    <2>12. \A nm \in nameKept : /\ Chain(Committed(nm))' /\ Follows(nm)'
                                /\ Committed(nm) \subseteq Committed(name')
                                /\ \A a \in Committed(nm), f \in Files : file'[a][f] = "durable"
      BY <2>1, <2>2 DEF DiskInv, Chain, Follows
    <2>13. Chain(Committed(name))' /\ Follows(name)'
      BY <2>2, <2>9, <2>10 DEF Chain, Follows
    <2> QED
      BY <2>1, <2>11, <2>12, <2>13 DEF DiskInv
  <1>6. CASE SyncRounds
    <2>1. name \in nameKept /\ nameKept' = {name} /\ UNCHANGED <<name, file, base>>
      BY <1>6 DEF SyncRounds, TypeOK
    <2> QED
      BY <2>1 DEF DiskInv, Chain, Follows
  <1>7. CASE PowerFailure
    <2>1. name' \in nameKept /\ nameKept' = {name'} /\ base' = base
      BY <1>7 DEF PowerFailure
    <2>2. \A a \in Committed(name'), f \in Files : file'[a][f] = "durable"
      <3> SUFFICES ASSUME NEW a \in Committed(name'), NEW f \in Files
                   PROVE  file'[a][f] = "durable"
        OBVIOUS
      <3>1. file[a][f] = "durable" /\ name'[a] = "round" /\ a \in Attempts
        BY <2>1 DEF DiskInv, Committed
      <3>2. <<a, f>> \notin Doubtful
        BY <3>1 DEF Doubtful
      <3> QED
        BY <1>7, <3>1, <3>2 DEF PowerFailure, OnDisk, Doubtful
    <2> QED
      BY <2>1, <2>2 DEF DiskInv, Chain, Follows
  <1> QED
    BY <1>1, <1>2, <1>3, <1>4, <1>5, <1>6, <1>7
    DEF Next, Engine, CommitRound, vars, Boot, Save, SyncSave, BeginAttempt, AttemptFails,
        WriteRoundStatus, CommitReturns, RecoverCommitted, KillProcess

-----------------------------------------------------------------------------
(* The engine. *)

\* A new attempt has no directory in any naming a power failure can leave.
LEMMA FreshAttempt ==
  ASSUME Inv, BeginAttempt
  PROVE  /\ cur' \in Attempts
         /\ Numbers(known) = 1 .. cur'.round - 1
         /\ cur'.number = tried[cur'.round] + 1
         /\ tried' = [tried EXCEPT ![cur'.round] = @ + 1]
         /\ cur' \notin Named
         /\ \E nm \in nameKept : cur'.round \notin Numbers(Committed(nm))
  <1> USE DEF Inv
  <1> DEFINE n == Last(known) + 1
  <1>1. pc = "idle" /\ known = Committed(name) /\ name \in nameKept
    BY DEF BeginAttempt, EngineInv, Waiting, TypeOK
  <1>2. Last(known) \in 0 .. MaxRounds /\ Numbers(known) = 1 .. Last(known)
    BY <1>1, LastRound DEF DiskInv, Chain
  <1>3. /\ n \in Rounds /\ tried[n] < MaxAttempts
        /\ cur' = [round |-> n, number |-> tried[n] + 1]
        /\ tried' = [tried EXCEPT ![n] = @ + 1]
    BY DEF BeginAttempt, MayTry
  <1>4. tried[n] \in Nat /\ tried[n] + 1 \in 1 .. MaxAttempts
    BY <1>3, BoundsAssumption DEF TypeOK
  <1>5. cur' \in Attempts
    BY <1>3, <1>4 DEF Attempts
  <1>6. n \notin Numbers(Committed(name)) /\ 1 .. n - 1 = 1 .. Last(known)
    BY <1>1, <1>2
  <1>7. ~ SettledRound(n) /\ ~ (tried[n] + 1 <= tried[n])
    BY <1>1, <1>4, <1>6 DEF SettledRound
  <1>8. cur' \notin Named
    BY <1>1, <1>3, <1>7 DEF Counts, Counted
  <1> QED
    BY <1>1, <1>2, <1>3, <1>5, <1>6, <1>8

LEMMA EngineStep == Inv /\ [Next]_vars => EngineInv'
  <1> SUFFICES ASSUME Inv, [Next]_vars
               PROVE  EngineInv'
    OBVIOUS
  <1> USE DEF Inv, statusFile, directories, memory, history,
              Waiting, Renamed, Chosen, Reviewed, Synced
  <1>1. CASE Boot
    BY <1>1 DEF Boot, Recovers, EngineInv, Committed
  <1>2. CASE Save
    BY <1>2 DEF Save, ReplaceStatus, EngineState, EngineInv, Committed
  <1>3. CASE SyncSave
    BY <1>3 DEF SyncSave, SyncStatus, EngineInv, Committed
  <1>4. CASE BeginAttempt
    <2>1. /\ cur' \in Attempts
          /\ Numbers(known) = 1 .. cur'.round - 1
          /\ cur'.number = tried[cur'.round] + 1
          /\ tried' = [tried EXCEPT ![cur'.round] = @ + 1]
          /\ cur' \notin Named
      BY <1>4, FreshAttempt
    <2>2. \A nm \in nameKept : nm[cur'] = "none"
      BY <2>1 DEF Named
    <2>3. cur'.number <= tried'[cur'.round]
      BY <2>1 DEF TypeOK, Attempts
    <2> QED
      BY <1>4, <2>1, <2>2, <2>3 DEF BeginAttempt, EngineInv, Committed
  <1>5. CASE Submit
    BY <1>5 DEF Submit, EngineInv, Committed, TypeOK
  <1>6. CASE AttemptFails
    BY <1>6 DEF AttemptFails, EngineInv, Committed
  <1>7. CASE MakeStaging
    <2>0. pc = "review"
      BY <1>7 DEF MakeStaging
    <2>1. /\ Committed(name') = Committed(name) /\ name'[cur] = "staging"
      BY <1>7, <2>0, StagedNotCommitted
    <2> QED
      BY <1>7, <2>1 DEF MakeStaging, EngineInv
  <1>8. CASE OpenFile
    BY <1>8 DEF OpenFile, EngineInv, Committed
  <1>9. CASE WriteFile
    BY <1>9 DEF WriteFile, EngineInv, Committed
  <1>10. CASE SyncStaging
    BY <1>10 DEF SyncStaging, EngineInv, Committed, TypeOK
  <1>11. CASE RenameRound
    <2>0. pc = "rename"
      BY <1>11 DEF RenameRound
    <2>1. /\ Committed(name') = Committed(name) \cup {cur} /\ cur \in Attempts
          /\ \A a \in Attempts : a # cur => name'[a] = name[a]
      BY <1>11, <2>0, RenamedCommitted
    <2>2. known = Committed(name) /\ Numbers(known) = 1 .. cur.round - 1 /\ cur # None
      BY <2>0 DEF EngineInv
    <2>3. \A a \in Attempts : name'[a] # "none" => a.round <= cur.round
      <3> SUFFICES ASSUME NEW a \in Attempts, a # cur, name[a] # "none"
                   PROVE  a.round <= cur.round
        BY <2>1 DEF Attempts, Rounds
      <3>1. 1 .. a.round - 1 \subseteq 1 .. cur.round - 1
        BY <2>2 DEF DiskInv, Follows, TypeOK
      <3>2. a.round \in Nat /\ cur.round \in Nat \ {0}
        BY <2>1 DEF Attempts, Rounds
      <3> QED
        BY <3>1, <3>2
    <2> QED
      BY <1>11, <2>1, <2>2, <2>3 DEF RenameRound, EngineInv
  <1>12. CASE SyncRounds
    BY <1>12 DEF SyncRounds, EngineInv, Committed
  <1>13. CASE WriteRoundStatus
    BY <1>13 DEF WriteRoundStatus, EngineInv, Committed
  <1>14. CASE CommitReturns
    BY <1>14 DEF CommitReturns, EngineInv, Committed
  <1>15. CASE RecoverCommitted
    BY <1>15 DEF RecoverCommitted, Recovers, EngineInv, Committed
  <1>16. CASE KillProcess \/ PowerFailure
    BY <1>16 DEF KillProcess, PowerFailure, Dies, EngineInv
  <1>17. CASE UNCHANGED vars
    BY <1>17 DEF vars, EngineInv, Committed
  <1> QED
    BY <1>1, <1>2, <1>3, <1>4, <1>5, <1>6, <1>7, <1>8, <1>9, <1>10, <1>11, <1>12, <1>13, <1>14,
       <1>15, <1>16, <1>17 DEF Next, Engine, CommitRound

-----------------------------------------------------------------------------
(* The attempts that state.json counts. *)

\* Rounds that no power failure takes away only become more.
LEMMA SettledGrows ==
  ASSUME Inv, [Next]_vars, NEW r, SettledRound(r)
  PROVE  SettledRound(r)'
  <1> USE DEF Inv
  <1>1. name \in nameKept
    BY DEF TypeOK
  <1>2. CASE UNCHANGED <<name, nameKept>>
    BY <1>2 DEF SettledRound, Committed
  <1>3. CASE MakeStaging
    <2>0. pc = "review"
      BY <1>3 DEF MakeStaging
    <2>1. Committed(name') = Committed(name) /\ nameKept' = nameKept \cup {name'}
      BY <1>3, <2>0, StagedNotCommitted
    <2> QED
      BY <1>1, <2>1 DEF SettledRound
  <1>4. CASE RenameRound
    <2>0. pc = "rename"
      BY <1>4 DEF RenameRound
    <2>1. Committed(name') = Committed(name) \cup {cur} /\ nameKept' = nameKept \cup {name'}
      BY <1>4, <2>0, RenamedCommitted
    <2> QED
      BY <1>1, <2>1 DEF SettledRound, Numbers
  <1>5. CASE SyncRounds \/ PowerFailure
    <2>1. nameKept' \subseteq nameKept
      BY <1>1, <1>5 DEF SyncRounds, PowerFailure
    <2> QED
      BY <2>1 DEF SettledRound
  <1> QED
    BY <1>2, <1>3, <1>4, <1>5
    DEF Next, Engine, CommitRound, vars, directories, Boot, Save, SyncSave, BeginAttempt, Submit,
        AttemptFails, OpenFile, WriteFile, SyncStaging, WriteRoundStatus, CommitReturns,
        RecoverCommitted, KillProcess

\* A counted attempt stays counted; the state.json of commit_round counts none, and is
\* written only when all rounds up to the new one are settled.
LEMMA CountedStep ==
  ASSUME Inv, [Next]_vars, NEW a \in Attempts, Counted(a), pc = "status" => a.round <= cur.round
  PROVE  Counted(a)'
  <1> USE DEF Inv
  <1>1. CASE SettledRound(a.round)
    BY <1>1, SettledGrows DEF Counted
  <1> SUFFICES ASSUME \A s \in statusKept : a.number <= s.tried[a.round],
                      pc # "down" => a.number <= tried[a.round]
               PROVE  Counted(a)'
    BY <1>1 DEF Counted
  <1>2. status \in statusKept
    BY DEF TypeOK
  <1>3. CASE UNCHANGED <<statusFile, tried>> /\ (pc' # "down" => pc # "down")
    BY <1>3 DEF Counted, statusFile
  <1>4. CASE Boot
    BY <1>2, <1>4 DEF Boot, Counted, statusFile
  <1>5. CASE Save
    BY <1>5 DEF Save, ReplaceStatus, EngineState, Counted, memory
  <1>6. CASE SyncSave \/ CommitReturns
    BY <1>2, <1>6 DEF SyncSave, CommitReturns, SyncStatus, Counted, memory
  <1>7. CASE BeginAttempt
    <2>1. PICK n \in Rounds : tried' = [tried EXCEPT ![n] = @ + 1]
      BY <1>7, FreshAttempt DEF Attempts
    <2>2. a.number <= tried'[a.round]
      BY <1>7, <2>1 DEF BeginAttempt, TypeOK, Attempts
    <2> QED
      BY <1>7, <2>2 DEF BeginAttempt, Counted, statusFile
  <1>8. CASE WriteRoundStatus
    <2>1. pc = "status" /\ cur \in Attempts /\ a.round <= cur.round
      BY <1>8 DEF WriteRoundStatus, EngineInv, Renamed, TypeOK
    <2>2. nameKept = {name} /\ Committed(name) = known \cup {cur} /\ Numbers(known) = 1 .. cur.round - 1
      BY <2>1 DEF EngineInv, Renamed, Synced
    <2>3. a.round \in 1 .. cur.round - 1 \/ a.round = cur.round
      BY <2>1 DEF Attempts, Rounds
    <2>4. a.round \in Numbers(Committed(name))
      BY <2>2, <2>3 DEF Numbers
    <2>5. SettledRound(a.round)
      BY <2>2, <2>4 DEF SettledRound
    <2> QED
      BY <2>5, SettledGrows DEF Counted
  <1>9. CASE KillProcess \/ PowerFailure
    BY <1>2, <1>9 DEF KillProcess, PowerFailure, Dies, Counted, statusFile
  <1> QED
    BY <1>3, <1>4, <1>5, <1>6, <1>7, <1>8, <1>9
    DEF Next, Engine, CommitRound, vars, memory, directories, Submit, AttemptFails, MakeStaging, OpenFile,
        WriteFile, SyncStaging, RenameRound, SyncRounds, RecoverCommitted

\* The attempt being made is counted from the moment its count is durable.
LEMMA ChosenCounted ==
  ASSUME Inv, pc \in Chosen
  PROVE  cur \in Attempts /\ Counted(cur)
  BY DEF Inv, EngineInv, Chosen, Waiting, TypeOK, Counted

LEMMA CountsStep == Inv /\ [Next]_vars => Counts(Named)'
  <1> SUFFICES ASSUME Inv, [Next]_vars, NEW a \in Named'
               PROVE  Counted(a)'
    BY DEF Counts
  <1> USE DEF Inv
  <1>1. a \in Attempts
    BY DEF Named
  <1>2. a \in Named \/ (MakeStaging /\ a = cur)
    <2>1. CASE UNCHANGED <<name, nameKept>>
      BY <2>1 DEF Named
    <2>2. CASE MakeStaging
      BY <1>1, <2>2, StagedNotCommitted DEF Named, TypeOK, MakeStaging
    <2>3. CASE RenameRound
      <3>0. pc = "rename"
        BY <2>3 DEF RenameRound
      <3>1. name[cur] # "none"
        BY <3>0 DEF EngineInv
      <3>2. \A b \in Attempts : b # cur => name'[b] = name[b]
        BY <2>3, <3>0, RenamedCommitted
      <3> QED
        BY <1>1, <2>3, <3>1, <3>2 DEF RenameRound, NameIt, Named, TypeOK
    <2>4. CASE SyncRounds \/ PowerFailure
      BY <1>1, <2>4 DEF SyncRounds, PowerFailure, Named, TypeOK
    <2> QED
      BY <2>1, <2>2, <2>3, <2>4
      DEF Next, Engine, CommitRound, vars, directories, Boot, Save, SyncSave, BeginAttempt, Submit,
          AttemptFails, OpenFile, WriteFile, SyncStaging, WriteRoundStatus, CommitReturns,
          RecoverCommitted, KillProcess
  <1>3. Counted(a)
    BY <1>2, ChosenCounted DEF Counts, MakeStaging, Chosen
  <1>4. ASSUME pc = "status"
        PROVE  a.round <= cur.round
    <2>1. name[a] # "none"
      BY <1>2, <1>4 DEF EngineInv, Synced, Named, MakeStaging
    <2> QED
      BY <1>1, <1>4, <2>1 DEF EngineInv
  <1> QED
    BY <1>1, <1>3, <1>4, CountedStep

-----------------------------------------------------------------------------
(* What was returned and relied on. *)

LEMMA ReturnedStep == Inv /\ [Next]_vars => ReturnedStays'
  <1> SUFFICES ASSUME Inv, [Next]_vars
               PROVE  ReturnedStays'
    OBVIOUS
  <1> USE DEF Inv
  <1>1. name \in nameKept /\ returned \subseteq Attempts
    BY DEF TypeOK
  <1>2. CASE UNCHANGED <<name, nameKept, returned>>
    BY <1>2 DEF ReturnedStays
  <1>3. CASE MakeStaging
    <2>1. pc = "review"
      BY <1>3 DEF MakeStaging
    <2> QED
      BY <1>1, <1>3, <2>1, StagedNotCommitted DEF MakeStaging, ReturnedStays, history
  <1>4. CASE RenameRound
    <2>1. pc = "rename"
      BY <1>4 DEF RenameRound
    <2> QED
      BY <1>1, <1>4, <2>1, RenamedCommitted DEF RenameRound, ReturnedStays, history
  <1>5. CASE SyncRounds \/ PowerFailure
    <2>1. nameKept' \subseteq nameKept /\ returned' = returned
      BY <1>1, <1>5 DEF SyncRounds, PowerFailure, history
    <2> QED
      BY <2>1 DEF ReturnedStays
  <1>6. CASE CommitReturns
    <2>1. nameKept = {name} /\ Committed(name) = known \cup {cur}
      BY <1>6 DEF CommitReturns, EngineInv, Synced, Renamed
    <2>2. name[cur] = "round"
      BY <2>1 DEF Committed
    <2> QED
      BY <1>6, <2>1, <2>2 DEF CommitReturns, directories, ReturnedStays
  <1> QED
    BY <1>2, <1>3, <1>4, <1>5, <1>6
    DEF Next, Engine, CommitRound, vars, directories, history, Boot, Save, SyncSave, BeginAttempt,
        Submit, AttemptFails, OpenFile, WriteFile, SyncStaging, WriteRoundStatus, RecoverCommitted,
        KillProcess

LEMMA ReliedStep == Inv /\ [Next]_vars => (relied \subseteq Committed(name))'
  <1> SUFFICES ASSUME Inv, [Next]_vars
               PROVE  relied' \subseteq Committed(name')
    BY DEF Committed
  <1> USE DEF Inv
  <1>1. CASE UNCHANGED <<name, relied>>
    BY <1>1
  <1>2. CASE Boot \/ RecoverCommitted
    BY <1>2 DEF Boot, RecoverCommitted, Recovers, directories
  <1>3. CASE MakeStaging
    BY <1>3, StagedNotCommitted DEF MakeStaging, history
  <1>4. CASE RenameRound
    BY <1>4, RenamedCommitted DEF RenameRound, history
  <1>5. CASE PowerFailure
    BY <1>5 DEF PowerFailure
  <1> QED
    BY <1>1, <1>2, <1>3, <1>4, <1>5
    DEF Next, Engine, CommitRound, vars, directories, history, Save, SyncSave, BeginAttempt, Submit,
        AttemptFails, OpenFile, WriteFile, SyncStaging, SyncRounds, WriteRoundStatus, CommitReturns,
        KillProcess

LEMMA TrustStep == Inv /\ [Next]_vars => TrustInv'
  <1> SUFFICES ASSUME Inv, [Next]_vars, ~lost'
               PROVE  /\ Counts(reviewed)'
                      /\ \A a \in reviewed' : 1 .. a.round - 1 \subseteq Numbers(relied')
                      /\ pc' \in {"save", "syncSave", "submit"} => cur' \notin reviewed'
    BY DEF TrustInv, Numbers
  <1> USE DEF Inv
  <1>1. ~lost /\ relied \subseteq relied'
    <2>1. CASE UNCHANGED <<lost, relied>>
      BY <2>1
    <2>2. CASE Boot \/ RecoverCommitted
      BY <2>2 DEF Boot, RecoverCommitted, Recovers
    <2>3. CASE PowerFailure
      BY <2>3 DEF PowerFailure
    <2> QED
      BY <2>1, <2>2, <2>3
      DEF Next, Engine, CommitRound, vars, history, Save, SyncSave, BeginAttempt, Submit,
          AttemptFails, MakeStaging, OpenFile, WriteFile, SyncStaging, RenameRound, SyncRounds,
          WriteRoundStatus, CommitReturns, KillProcess
  <1>2. /\ Counts(reviewed)
        /\ \A a \in reviewed : 1 .. a.round - 1 \subseteq Numbers(relied)
        /\ pc \in {"save", "syncSave", "submit"} => cur \notin reviewed
        /\ reviewed \subseteq Attempts
    BY <1>1 DEF TrustInv, TypeOK
  <1>3. reviewed' = reviewed \/ (Submit /\ reviewed' = reviewed \cup {cur})
    BY DEF Next, Engine, CommitRound, vars, history, Boot, Save, SyncSave, BeginAttempt, Submit,
           AttemptFails, MakeStaging, OpenFile, WriteFile, SyncStaging, RenameRound, SyncRounds,
           WriteRoundStatus, CommitReturns, RecoverCommitted, KillProcess, PowerFailure
  <1>4. \A a \in reviewed' : 1 .. a.round - 1 \subseteq Numbers(relied')
    <2>1. Submit => Numbers(relied) = 1 .. cur.round - 1
      BY DEF Submit, EngineInv, Chosen, Waiting
    <2>2. Numbers(relied) \subseteq Numbers(relied')
      BY <1>1 DEF Numbers
    <2> QED
      BY <1>2, <1>3, <2>1, <2>2
  <1>5. Counts(reviewed)'
    <2> SUFFICES ASSUME NEW a \in reviewed'
                 PROVE  Counted(a)'
      BY DEF Counts
    <2>1. a \in Attempts /\ Counted(a)
      BY <1>2, <1>3, ChosenCounted DEF Counts, Submit, Chosen
    <2>2. ASSUME pc = "status"
          PROVE  a.round <= cur.round
      <3>1. a \in reviewed
        BY <1>3, <2>2 DEF Submit
      <3>2. cur \in Attempts /\ 1 .. a.round - 1 \subseteq 1 .. cur.round - 1
        BY <1>2, <2>2, <3>1 DEF EngineInv, Renamed, TypeOK
      <3>3. a.round \in Nat /\ cur.round \in Nat \ {0}
        BY <2>1, <3>2 DEF Attempts, Rounds
      <3> QED
        BY <3>2, <3>3
    <2> QED
      BY <2>1, <2>2, CountedStep
  <1>6. ASSUME pc' \in {"save", "syncSave", "submit"}
        PROVE  cur' \notin reviewed'
    <2>1. CASE BeginAttempt
      <3>1. /\ cur' \in Attempts /\ cur'.number = tried[cur'.round] + 1
            /\ \E nm \in nameKept : cur'.round \notin Numbers(Committed(nm))
        BY <2>1, FreshAttempt
      <3>2. tried[cur'.round] \in Nat
        BY <3>1 DEF TypeOK, Attempts
      <3>3. ~ (cur'.number <= tried[cur'.round])
        BY <3>1, <3>2
      <3>4. ~ Counted(cur')
        BY <2>1, <3>1, <3>3 DEF BeginAttempt, Counted, SettledRound
      <3> QED
        BY <1>2, <2>1, <3>4 DEF BeginAttempt, history, Counts
    <2>2. CASE Boot \/ AttemptFails \/ RecoverCommitted
      <3>1. cur' = None /\ reviewed' = reviewed
        BY <2>2 DEF Boot, AttemptFails, RecoverCommitted, history, EngineInv
      <3>2. None \notin Attempts
        BY DEF None, Attempts, Rounds
      <3> QED
        BY <1>2, <3>1, <3>2
    <2>3. CASE Save \/ SyncSave \/ UNCHANGED vars
      BY <1>2, <1>6, <2>3 DEF Save, SyncSave, vars, memory, history
    <2> QED
      BY <1>6, <2>1, <2>2, <2>3
      DEF Next, Engine, CommitRound, Submit, MakeStaging, OpenFile, WriteFile, SyncStaging,
          RenameRound, SyncRounds, WriteRoundStatus, CommitReturns, KillProcess, PowerFailure, Dies
  <1> QED
    BY <1>4, <1>5, <1>6

-----------------------------------------------------------------------------
(* The theorems. *)

\* In the beginning no directory exists, and state.json counts nothing.
LEMMA InitInv == Init => Inv
  <1> SUFFICES ASSUME Init
               PROVE  Inv
    OBVIOUS
  <1> USE BoundsAssumption DEF Init
  <1>1. Committed(name) = {} /\ Named = {}
    BY DEF Committed, Named
  <1>2. Numbers({}) = 1 .. 0 /\ 0 \in 0 .. MaxRounds
    BY DEF Numbers
  <1>3. TypeOK
    <2>1. Untried \in [Rounds -> 0 .. MaxAttempts] /\ Bare(0) \in Status
      BY DEF Untried, Bare, Status
    <2>2. name \in [Attempts -> {"none", "staging", "round"}]
      OBVIOUS
    <2>3. file \in [Attempts -> [Files -> FileStates]]
      BY DEF Empty, FileStates
    <2>4. base \in [Attempts -> SUBSET Attempts]
      OBVIOUS
    <2>5. /\ nameKept \subseteq [Attempts -> {"none", "staging", "round"}]
          /\ statusKept \subseteq Status
          /\ tried \in [Rounds -> 0 .. MaxAttempts]
          /\ crashes \in 0 .. MaxCrashes
      BY <2>1, <2>2
    <2> QED
      BY <2>3, <2>4, <2>5 DEF TypeOK, Stages
  <1>4. DiskInv
    BY <1>1, <1>2 DEF DiskInv, Chain, Follows
  <1>5. EngineInv
    BY DEF EngineInv, Waiting, Renamed, Chosen, Reviewed, Synced
  <1>6. Counts(Named) /\ Counts(reviewed)
    BY <1>1 DEF Counts
  <1> QED
    BY <1>3, <1>4, <1>5, <1>6 DEF Inv, ReturnedStays, TrustInv

\* The inductive invariant holds in every state of the specification.
THEOREM Invariant == Spec => []Inv
  <1>1. Inv /\ [Next]_vars => Inv'
    BY TypeStep, DiskStep, EngineStep, CountsStep, ReturnedStep, ReliedStep, TrustStep DEF Inv
  <1> QED
    BY InitInv, <1>1, PTL DEF Spec

\* Every variable keeps to its values.
THEOREM TypeCorrect == Spec => []TypeOK
  BY Invariant, PTL DEF Inv

\* Whenever recover is called it finds whole rounds in an unbroken chain.
THEOREM AlwaysRecovers == Spec => []RecoversAlways
  <1>1. Inv => RecoversAlways
    BY DEF Inv, TypeOK, DiskInv, Chain, RecoversAlways, Sound, Whole, Readable
  <1> QED
    BY Invariant, <1>1, PTL

\* A round whose commit_round has returned outlives every power failure.
THEOREM ReturnedRoundsStay == Spec => []ReturnedStays
  BY Invariant, PTL DEF Inv

\* An attempt's identifier is not used twice, unless a power failure has taken back a
\* round that was counted on.
THEOREM FreshIdentifiers == Spec => []AttemptsFresh
  <1>1. Inv => AttemptsFresh
    BY DEF Inv, TrustInv, AttemptsFresh
  <1> QED
    BY Invariant, <1>1, PTL

\* The engine never meets a RoundConflict in a round it commits.
THEOREM NoConflict == Spec => []NeverRefused
  <1>1. Inv => NeverRefused
    BY DEF Inv, TypeOK, EngineInv, Waiting, Chosen, NeverRefused, Expected
  <1> QED
    BY Invariant, <1>1, PTL

-----------------------------------------------------------------------------
(* The store implements the log. *)

\* After a power failure the rounds are those up to some number.
LEMMA FailureCuts ==
  ASSUME Inv, PowerFailure
  PROVE  /\ \E n \in {0} \cup Numbers(Committed(name)) :
              Committed(name') = {e \in Committed(name) : e.round <= n}
         /\ Settled \subseteq Committed(name')
         /\ Settled' = Committed(name')
  <1> USE DEF Inv
  <1>1. name' \in nameKept /\ nameKept' = {name'} /\ name \in nameKept
    BY DEF PowerFailure, TypeOK
  <1>2. /\ Chain(Committed(name')) /\ Chain(Committed(name))
        /\ Committed(name') \subseteq Committed(name)
    BY <1>1 DEF DiskInv
  <1>3. PICK n \in 0 .. MaxRounds : Numbers(Committed(name')) = 1 .. n
    BY <1>2 DEF Chain
  <1>4. n \in {0} \cup Numbers(Committed(name))
    <2>1. n # 0 => n \in Numbers(Committed(name'))
      BY <1>3
    <2> QED
      BY <1>2, <2>1 DEF Numbers
  <1>5. \A e \in Committed(name') : e.round <= n
    BY <1>3 DEF Numbers
  <1>6. ASSUME NEW e \in Committed(name), e.round <= n
        PROVE  e \in Committed(name')
    <2>1. e.round \in Nat \ {0}
      BY DEF Committed, Attempts, Rounds
    <2>2. e.round \in Numbers(Committed(name'))
      BY <1>3, <1>6, <2>1
    <2>3. PICK d \in Committed(name') : d.round = e.round
      BY <2>2 DEF Numbers
    <2> QED
      BY <1>2, <2>3 DEF Chain
  <1>7. Committed(name') = {e \in Committed(name) : e.round <= n}
    BY <1>2, <1>5, <1>6
  <1> QED
    BY <1>1, <1>4, <1>7 DEF Settled, Committed

LEMMA LogStep == Inv /\ [Next]_vars => [Log!Next]_<<Committed(name), Settled>>
  <1> SUFFICES ASSUME Inv, [Next]_vars
               PROVE  [Log!Next]_<<Committed(name), Settled>>
    OBVIOUS
  <1> USE DEF Inv
  <1>1. name \in nameKept
    BY DEF TypeOK
  <1>2. CASE UNCHANGED <<name, nameKept>>
    BY <1>2 DEF Settled, Committed
  <1>3. CASE MakeStaging
    <2>0. pc = "review"
      BY <1>3 DEF MakeStaging
    <2>1. /\ Committed(name') = Committed(name) /\ cur \in Attempts /\ name[cur] = "none"
          /\ \A a \in Attempts : a # cur => name'[a] = name[a]
          /\ nameKept' = nameKept \cup {name'}
      BY <1>3, <2>0, StagedNotCommitted
    <2>2. Settled' = Settled
      BY <1>1, <2>1 DEF Settled
    <2> QED
      BY <2>1, <2>2
  <1>4. CASE RenameRound
    <2>0. pc = "rename"
      BY <1>4 DEF RenameRound
    <2>1. /\ Committed(name') = Committed(name) \cup {cur}
          /\ cur \in Attempts /\ cur \notin Committed(name)
          /\ \A a \in Attempts : a # cur => name'[a] = name[a]
          /\ nameKept' = nameKept \cup {name'}
      BY <1>4, <2>0, RenamedCommitted
    <2>2. Numbers(Committed(name)) = 1 .. cur.round - 1
      BY <2>0 DEF EngineInv, Waiting, Chosen
    <2>3. Settled' = Settled
      BY <1>1, <2>1 DEF Settled, Committed
    <2>4. Log!Append
      BY <2>1, <2>2, <2>3 DEF Log!Append, Log!Numbers, Numbers
    <2> QED
      BY <2>4 DEF Log!Next
  <1>5. CASE SyncRounds
    <2>1. Committed(name') = Committed(name) /\ nameKept' = {name'}
      BY <1>5 DEF SyncRounds, Committed
    <2>2. Settled' = Committed(name')
      BY <2>1 DEF Settled, Committed
    <2> QED
      BY <2>1, <2>2 DEF Log!Settle, Log!Next
  <1>6. CASE PowerFailure
    BY <1>6, FailureCuts DEF Log!Cut, Log!Next, Log!Numbers, Numbers
  <1> QED
    BY <1>2, <1>3, <1>4, <1>5, <1>6
    DEF Next, Engine, CommitRound, vars, directories, Boot, Save, SyncSave, BeginAttempt, Submit,
        AttemptFails, OpenFile, WriteFile, SyncStaging, WriteRoundStatus, CommitReturns,
        RecoverCommitted, KillProcess

\* The store implements the log: rounds are added at the end, and only a power failure
\* takes rounds away, from the end and none that is settled.
THEOREM StoreImplementsLog == Spec => ImplementsLog
  <1>1. Init => Log!Init
    BY DEF Init, Log!Init, Committed, Settled
  <1> QED
    BY Invariant, LogStep, <1>1, PTL DEF Spec, ImplementsLog, Log!Spec
-----------------------------------------------------------------------------
(* The store keeps the history of RoundHistory.                             *)

\* What is being reviewed or committed was asked for.
AskedInv == pc \in Reviewed => cur \in reviewed

LEMMA AskedStep == AskedInv /\ [Next]_vars => AskedInv'
  BY DEF AskedInv, Reviewed, Next, Engine, CommitRound, vars, memory, history, Boot, Save, SyncSave,
         BeginAttempt, Submit, AttemptFails, MakeStaging, OpenFile, WriteFile, SyncStaging,
         RenameRound, SyncRounds, WriteRoundStatus, CommitReturns, RecoverCommitted, KillProcess,
         PowerFailure, Dies

LEMMA LastOf ==
  ASSUME NEW S, NEW n \in 0 .. MaxRounds, Numbers(S) = 1 .. n
  PROVE  Last(S) = n
  <1>1. Last(S) \in 0 .. MaxRounds /\ 1 .. Last(S) = 1 .. n
    BY LastRound
  <1> QED
    BY <1>1, SegmentEnd, BoundsAssumption

\* A power failure that breaks nothing leaves the round before every review.
LEMMA CutsHistory ==
  ASSUME Inv, PowerFailure
  PROVE  History!Cut
  <1> USE DEF Inv
  <1>1. name' \in nameKept /\ name \in nameKept
    BY DEF PowerFailure, TypeOK
  <1>2. /\ Chain(Committed(name')) /\ Chain(Committed(name))
        /\ Committed(name') \subseteq Committed(name)
    BY <1>1 DEF DiskInv
  <1>3. PICK n \in 0 .. MaxRounds : Numbers(Committed(name)) = 1 .. n
    BY <1>2 DEF Chain
  <1>4. PICK m \in 0 .. MaxRounds : Numbers(Committed(name')) = 1 .. m
    BY <1>2 DEF Chain
  <1>5. Last(Committed(name)) = n /\ Last(Committed(name')) = m
    BY <1>3, <1>4, LastOf
  <1>6. m <= n
    <2>1. 1 .. m \subseteq 1 .. n
      BY <1>2, <1>3, <1>4 DEF Numbers
    <2>2. m # 0 => m \in 1 .. m
      BY BoundsAssumption
    <2> QED
      BY <2>1, <2>2, BoundsAssumption
  <1>7. ASSUME ~lost', NEW a \in reviewed
        PROVE  a.round <= m + 1
    <2>1. ~lost /\ relied \subseteq Committed(name')
      BY <1>7 DEF PowerFailure
    <2>2. 1 .. a.round - 1 \subseteq 1 .. m /\ a.round \in Nat
      BY <1>4, <2>1 DEF TrustInv, Numbers, TypeOK, Attempts, Rounds
    <2>3. a.round - 1 > 0 => a.round - 1 \in 1 .. a.round - 1
      BY <2>2
    <2> QED
      BY <2>2, <2>3, BoundsAssumption
  <1>8. reviewed' = reviewed /\ (lost => lost')
    BY DEF PowerFailure
  <1>9. Last(Committed(name')) \in 0 .. Last(Committed(name))
    BY <1>5, <1>6, BoundsAssumption
  <1> QED
    BY <1>5, <1>7, <1>8, <1>9 DEF History!Cut, Committed

LEMMA HistoryStep ==
  Inv /\ AskedInv /\ [Next]_vars
    => [History!Next]_<<Last(Committed(name)), reviewed, lost>>
  <1> SUFFICES ASSUME Inv, AskedInv, [Next]_vars
               PROVE  [History!Next]_<<Last(Committed(name)), reviewed, lost>>
    OBVIOUS
  <1> USE DEF Inv
  <1>1. CASE Committed(name') = Committed(name) /\ UNCHANGED <<reviewed, lost>>
    BY <1>1 DEF Committed
  <1>2. CASE Submit
    <2>1. /\ pc = "submit" /\ cur # None /\ reviewed' = reviewed \cup {cur}
          /\ UNCHANGED <<name, lost>>
      BY <1>2 DEF Submit, EngineInv, Chosen
    <2>2. Numbers(Committed(name)) = 1 .. cur.round - 1 /\ cur \in Attempts
      BY <2>1 DEF EngineInv, Waiting, TypeOK
    <2>3. cur.round - 1 \in 0 .. MaxRounds /\ cur.round \in Nat
      BY <2>2, BoundsAssumption DEF Attempts, Rounds
    <2>4. cur.round = Last(Committed(name)) + 1
      BY <2>2, <2>3, LastOf
    <2>5. History!Submit(cur) /\ cur \in reviewed'
      BY <2>1, <2>4 DEF History!Submit, Committed
    <2> QED
      BY <2>5 DEF History!Next
  <1>3. CASE MakeStaging
    BY <1>1, <1>3, StagedNotCommitted DEF MakeStaging, history
  <1>4. CASE RenameRound
    <2>1. pc = "rename" /\ UNCHANGED history
      BY <1>4 DEF RenameRound
    <2>2. Committed(name') = Committed(name) \cup {cur} /\ cur \in Attempts
      BY <1>4, <2>1, RenamedCommitted
    <2>3. Numbers(Committed(name)) = 1 .. cur.round - 1 /\ cur \in reviewed
      BY <2>1 DEF EngineInv, Waiting, Chosen, AskedInv, Reviewed
    <2>4. cur.round - 1 \in 0 .. MaxRounds /\ cur.round \in 0 .. MaxRounds /\ cur.round \in Nat
      BY <2>2, BoundsAssumption DEF Attempts, Rounds
    <2>5. Numbers(Committed(name')) = 1 .. cur.round
      <3>1. Numbers(Committed(name')) = Numbers(Committed(name)) \cup {cur.round}
        BY <2>2 DEF Numbers
      <3> QED
        BY <2>3, <2>4, <3>1
    <2>6. Last(Committed(name)) = cur.round - 1 /\ Last(Committed(name')) = cur.round
      BY <2>3, <2>4, <2>5, LastOf
    <2>7. Last(Committed(name))' = cur.round
      BY <2>6 DEF Last, Committed
    <2>8. History!Commit
      BY <2>1, <2>3, <2>4, <2>6, <2>7 DEF History!Commit, history
    <2> QED
      BY <2>8 DEF History!Next
  <1>5. CASE PowerFailure
    BY <1>5, CutsHistory DEF History!Next
  <1> QED
    BY <1>1, <1>2, <1>3, <1>4, <1>5
    DEF Next, Engine, CommitRound, vars, directories, history, Boot, Save, SyncSave, BeginAttempt,
        AttemptFails, OpenFile, WriteFile, SyncStaging, SyncRounds, WriteRoundStatus, CommitReturns,
        RecoverCommitted, KillProcess

\* A crash or a power failure at any file operation leaves a history in which only the
\* round after the last was ever reviewed; it takes a round that recover had returned
\* for that to be broken (commit_round, recover).
THEOREM StoreKeepsHistory == Spec => KeepsHistory
  <1>1. Init => History!Init /\ AskedInv
    <2>1. SUFFICES ASSUME Init PROVE Last(Committed(name)) = 0
      BY DEF Init, History!Init, AskedInv, Reviewed
    <2>2. Numbers(Committed(name)) = 1 .. 0
      BY <2>1 DEF Init, Committed, Numbers
    <2> QED
      BY <2>2, LastOf, BoundsAssumption
  <1> QED
    BY Invariant, AskedStep, HistoryStep, <1>1, PTL DEF Spec, KeepsHistory, History!Spec
=============================================================================
