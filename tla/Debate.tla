------------------------------- MODULE Debate -------------------------------
(***************************************************************************)
(* The debate: what protocol.parse_turn lets a reviewer say and what       *)
(* debate.reduce_round makes of the two turns of a round.  Reviewers raise *)
(* issues and propose versions of how to settle them; a version may close  *)
(* earlier versions of its issue, and may call its issue the duplicate of  *)
(* another.  Both reviewers write their turns from the same state.         *)
(*                                                                         *)
(* A version is its content (version_id is a hash of it), so the versions  *)
(* it closes are part of it.  Anchors, arguments and wording are left out: *)
(* text stands for whatever else makes two contents differ.  The engine    *)
(* holds no further round after consensus; the reducer does not depend on  *)
(* that, and neither does the model.                                       *)
(*                                                                         *)
(* reduce_round works on a copy of the state and nobody sees it half done. *)
(* It is cut into steps here because of the depth-first search by which it *)
(* decides which duplicates are resolved: each call of resolve is a step,  *)
(* and the state changes in the last one.                                  *)
(***************************************************************************)
EXTENDS Naturals, FiniteSets

CONSTANTS
  MaxRounds,     \* rounds of the debate
  MaxIssues,     \* bound on the issues a reviewer raises
  MaxProposals,  \* bound on the proposals of a turn
  MaxVersions,   \* bound on the versions of a debate
  Texts          \* wordings of a version

ASSUME BoundsAssumption ==
  /\ MaxRounds \in Nat /\ MaxIssues \in Nat
  /\ MaxProposals \in Nat /\ MaxVersions \in Nat

VARIABLES
  round,      \* state["round_no"]
  issues,     \* state["issues"]
  born,       \* state["versions"], with the round_no each was first proposed in
  closed,     \* the keys of state["closed_versions"]
  resolved,   \* state["resolved"]
  consensus,  \* state["consensus"]
  failed,     \* reduce_round has raised DebateError
  searching,  \* reduce_round is in _resolve_candidates
  local,      \* its copy: issues, versions and candidates with their versions
  todo,       \* candidates its loop has not come to
  at,         \* the issue resolve is called with, or NoIssue between its searches
  visiting,   \* visiting: the callers of that call
  settled     \* the keys of its resolved

debate == <<round, issues, born, closed, resolved, consensus>>
vars   == <<debate, failed, searching, local, todo, at, visiting, settled>>

Reviewers == {"A", "B"}
Issues    == [author : Reviewers, no : 1 .. MaxIssues]
NoIssue   == [author |-> "none", no |-> 0]
Versions  == DOMAIN born

\* A position that accepts or proposes names a version; any other one opposes.
Opposed == [issue |-> NoIssue, text |-> "none", duplicate_of |-> NoIssue, closes |-> {}]

-----------------------------------------------------------------------------
(* parse_turn: the turns a reviewer can hand in.                            *)

Payloads(known) ==
  {p \in [issue : known, text : Texts, duplicate_of : known \cup {NoIssue},
          closes : SUBSET Versions] : p.duplicate_of # p.issue}

Drafts(known) == UNION {[1 .. n -> Payloads(known)] : n \in 0 .. MaxProposals}

Proposed(d) == {d[k] : k \in DOMAIN d}

\* A new issue is proposed for by its author; any other may also be settled by a
\* known version, or opposed.
Stances(new, d) ==
  {f \in [issues \cup new -> Proposed(d) \cup Versions \cup {Opposed}] :
     \A i \in issues \cup new :
       \/ f[i] \in Proposed(d) /\ f[i].issue = i
       \/ f[i] \in Versions \cup {Opposed} /\ i \notin new}

\* A turn begins with the issues that are new and with proposals.
Openings(r) ==
  UNION {[new : {new}, drafts : Drafts(issues \cup new)]
         : new \in SUBSET {i \in Issues \ issues : i.author = r}}

TurnsOf(o) == [new : {o.new}, drafts : {o.drafts}, backs : Stances(o.new, o.drafts)]

Turns(r) == UNION {TurnsOf(o) : o \in Openings(r)}

-----------------------------------------------------------------------------
(* reduce_round.                                                            *)

ClosesAny(t) == TRUE   \* mutant: a version may close those of another issue

\* What reduce_round refuses although parse_turn accepts it: closing a version of
\* another issue, and a position on one issue that names a version of another.
ClosesOwn(t) == \A p \in Proposed(t.drafts), c \in Versions : c \in p.closes => c.issue = p.issue

BacksOwn(t) == \A i \in DOMAIN t.backs : t.backs[i] = Opposed \/ t.backs[i].issue = i

\* What of a turn passes.
SoundOpenings(r) == {o \in Openings(r) : ClosesOwn(o)}

SoundTurns(o) == {t \in TurnsOf(o) : BacksOwn(t)}

Merged(a, b) == Versions \cup Proposed(a.drafts) \cup Proposed(b.drafts)

\* The versions of i that are not closed, of those in vs.
OpenOf(vs, i, shut) == {v \in vs : v.issue = i /\ v \notin shut}

\* Mutant: rival versions need not be closed.
CandidatesDespiteRivals(a, b) ==
  {i \in DOMAIN a.backs \cap DOMAIN b.backs :
     a.backs[i] # Opposed /\ b.backs[i] = a.backs[i]}

\* Issues on which both back one version that closes every other open one.
Candidates(a, b) ==
  {i \in DOMAIN a.backs \cap DOMAIN b.backs :
     /\ a.backs[i] # Opposed /\ b.backs[i] = a.backs[i]
     /\ OpenOf(Merged(a, b), i, closed) \ {a.backs[i]} \subseteq a.backs[i].closes}

\* The versions of the candidates.
Chosen(a, b) == [i \in Candidates(a, b) |-> a.backs[i]]

\* The copy, once both turns are in it and its candidates are known.
Local(a, b, chosen) ==
  [issues |-> issues \cup a.new \cup b.new,
   born   |-> [v \in Merged(a, b) |-> IF v \in Versions THEN born[v] ELSE round + 1],
   chosen |-> chosen]

NoLocal == [issues |-> {}, born |-> [v \in {} |-> 0], chosen |-> [i \in {} |-> Opposed]]

Cands     == DOMAIN local.chosen
Target(i) == local.chosen[i].duplicate_of

\* Mutant: only the issues the round began with are counted.
ConsensusAmongOld(res, vs, shut) ==
  /\ round + 1 >= 2
  /\ issues \subseteq res
  /\ \A i \in issues \ res : OpenOf(vs, i, shut) = {}

\* From round 2 on: every issue is resolved and no other has open proposals.
Consensus(res, vs, shut) ==
  /\ round + 1 >= 2
  /\ issues' = res
  /\ \A i \in issues' \ res : OpenOf(vs, i, shut) = {}

Debating == ~failed /\ ~searching /\ round < MaxRounds

Idle ==
  /\ searching' = FALSE /\ local' = NoLocal
  /\ todo' = {} /\ at' = NoIssue /\ visiting' = {} /\ settled' = {}

Fail == failed' = TRUE /\ Idle /\ UNCHANGED debate

\* Of the positions only the agreements they come to are kept; MaxVersions bounds the copy.
ReduceRound ==
  /\ Debating
  /\ \E x \in SoundOpenings("A"), y \in SoundOpenings("B") :
       /\ Cardinality(Merged(x, y)) <= MaxVersions
       /\ \E chosen \in {Chosen(a, b) : a \in SoundTurns(x), b \in SoundTurns(y)} :
            local' = Local(x, y, chosen)
  /\ searching' = TRUE /\ todo' = Cands'
  /\ UNCHANGED <<debate, failed, at, visiting, settled>>

RaiseOnTurn ==
  /\ Debating
  /\ ~ \A r \in Reviewers : \A t \in Turns(r) : ClosesOwn(t) /\ BacksOwn(t)
  /\ Fail

\* The loop calls resolve for its next candidate; their order is left open.
Search ==
  /\ searching /\ at = NoIssue
  /\ \E i \in todo : at' = i /\ todo' = todo \ {i}
  /\ UNCHANGED <<debate, failed, searching, local, visiting, settled>>

Calling == searching /\ at # NoIssue

\* The call returns, and every caller with it: only a caller's duplicate waits for it.
Return(found) ==
  /\ settled' = settled \cup found /\ visiting' = {} /\ at' = NoIssue
  /\ UNCHANGED <<debate, failed, searching, local, todo>>

ReturnSettled == Calling /\ at \in settled /\ Return(visiting)

ReturnUnresolved == Calling /\ at \notin settled \cup Cands /\ Return({})

RaiseOnCircle == Calling /\ at \in visiting /\ Fail

Fresh == Calling /\ at \in Cands \ (settled \cup visiting)

ReturnResolved == Fresh /\ Target(at) = NoIssue /\ Return(visiting \cup {at})

\* Mutant: a duplicate counts as resolved before its target does.
FollowSettled ==
  /\ Fresh /\ Target(at) # NoIssue
  /\ visiting' = visiting \cup {at} /\ at' = Target(at) /\ settled' = settled \cup {at}
  /\ UNCHANGED <<debate, failed, searching, local, todo>>

Follow ==
  /\ Fresh /\ Target(at) # NoIssue
  /\ visiting' = visiting \cup {at} /\ at' = Target(at)
  /\ UNCHANGED <<debate, failed, searching, local, todo, settled>>

FinishRound ==
  /\ searching /\ at = NoIssue /\ todo = {}
  /\ round' = round + 1
  /\ issues' = local.issues
  /\ born' = local.born
  /\ resolved' = [i \in settled |-> local.chosen[i]]
  /\ closed' = closed \cup UNION {local.chosen[i].closes : i \in settled}
  /\ consensus' = Consensus(settled, DOMAIN local.born, closed')
  /\ Idle
  /\ UNCHANGED failed

Init ==
  /\ round = 0 /\ issues = {} /\ born = [v \in {} |-> 0] /\ closed = {}
  /\ resolved = [i \in {} |-> Opposed]
  /\ consensus = FALSE /\ failed = FALSE
  /\ searching = FALSE /\ local = NoLocal
  /\ todo = {} /\ at = NoIssue /\ visiting = {} /\ settled = {}

Next ==
  \/ ReduceRound \/ RaiseOnTurn \/ Search
  \/ ReturnSettled \/ ReturnUnresolved \/ RaiseOnCircle \/ ReturnResolved \/ Follow
  \/ FinishRound

Spec == Init /\ [][Next]_vars

-----------------------------------------------------------------------------
(* Properties. *)

TypeOK ==
  /\ round \in 0 .. MaxRounds
  /\ issues \subseteq Issues
  /\ born \in [Versions -> 1 .. MaxRounds]
  /\ \A v \in Versions : v.issue \in issues
  /\ closed \subseteq Versions
  /\ DOMAIN resolved \subseteq issues
  /\ \A i \in DOMAIN resolved : resolved[i] \in Versions /\ resolved[i].issue = i
  /\ consensus \in BOOLEAN /\ failed \in BOOLEAN /\ searching \in BOOLEAN

\* A resolution stands alone: no rival version of its issue is left open, and it has
\* not itself been closed, in whatever rounds versions were proposed, closed,
\* reopened or proposed again.  Consensus is that of every issue, after two rounds.
AgreementSole ==
  /\ \A i \in DOMAIN resolved : OpenOf(Versions, i, closed) = {resolved[i]}
  /\ consensus => round >= 2 /\ DOMAIN resolved = issues

\* An issue never runs out of open versions, which would leave it neither resolved
\* nor in open_proposals: closing needs a newer version that stays.
IssuesStayOpen == \A i \in issues : OpenOf(Versions, i, closed) # {}

\* Candidates that are duplicates of one another alone, in a circle.
Circle(s) == s # {} /\ s \subseteq Cands /\ \A i \in s : Target(i) \in s

\* Candidates each of which can be resolved if the others are.
Grounded(s) == s \subseteq Cands /\ \A i \in s : Target(i) \in s \cup {NoIssue}

\* What the search of _resolve_candidates comes to, whatever it starts with and however
\* chains of duplicates meet.  A round that is kept has no circle, no duplicate without
\* its target and leaves out nothing that could be resolved; one that is given up during
\* the search has a circle.
DuplicatesSettled ==
  [][/\ round' # round =>
          /\ \A s \in SUBSET Cands : ~Circle(s)
          /\ Grounded(DOMAIN resolved')
          /\ \A s \in SUBSET Cands : Grounded(s) => s \subseteq DOMAIN resolved'
     /\ searching /\ failed' # failed => \E s \in SUBSET Cands : Circle(s)]_vars

\* A round that raises an issue does not end in consensus: the other reviewer has not
\* seen the issue.
LateIssueBlocks == [][consensus' => issues' = issues]_vars
=============================================================================
