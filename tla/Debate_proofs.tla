---------------------------- MODULE Debate_proofs ----------------------------
(***************************************************************************)
(* Theorems about Debate, for every value of its constants.                *)
(*                                                                         *)
(* What keeps an agreement alone is the order in which versions are born:  *)
(* a version closes only older ones, so the newest version of an issue is  *)
(* never closed, and a version that has been closed cannot be agreed on    *)
(* again, because it does not close the newer one that stays open.         *)
(*                                                                         *)
(* What makes the search right is that everything of it passes through the *)
(* call at hand: a set of candidates that can be resolved together, and a  *)
(* circle as well, contains that call if it contains one of its callers.   *)
(***************************************************************************)
EXTENDS Debate, TLAPS

\* A version closes older versions of its own issue.
VersionsOrdered ==
  \A v \in Versions :
    /\ born[v] <= round
    /\ \A c \in v.closes : c \in Versions /\ c.issue = v.issue /\ born[c] < born[v]

\* A closed version is outlived by a newer one of its issue.
Superseded ==
  \A v \in closed : \E w \in Versions \ closed : w.issue = v.issue /\ born[v] < born[w]

\* What two accepted turns have made of the copy: nothing is lost, new versions close
\* old ones of their issue only, and a candidate's version closes its open rivals.
LocalSound ==
  searching =>
    /\ round < MaxRounds
    /\ issues \subseteq local.issues /\ local.issues \subseteq Issues
    /\ local.born = [v \in DOMAIN local.born |-> IF v \in Versions THEN born[v] ELSE round + 1]
    /\ Versions \subseteq DOMAIN local.born
    /\ \A v \in DOMAIN local.born :
         /\ v.issue \in local.issues
         /\ \A c \in v.closes : c \in Versions /\ c.issue = v.issue
    /\ \A i \in local.issues \ issues : \E v \in DOMAIN local.born : v.issue = i
    /\ Cands \subseteq issues
    /\ \A i \in Cands :
         /\ local.chosen[i] \in DOMAIN local.born /\ local.chosen[i].issue = i
         /\ OpenOf(DOMAIN local.born, i, closed) \ {local.chosen[i]} \subseteq local.chosen[i].closes

\* The callers lead to the call at hand, and what is resolved leads out.
SearchShape ==
  /\ at = NoIssue => visiting = {}
  /\ ~searching => at = NoIssue /\ settled = {}
  /\ settled \subseteq Cands /\ visiting \subseteq Cands \ settled
  /\ NoIssue \notin Cands
  /\ \A i \in visiting : Target(i) \in visiting \cup {at}
  /\ Grounded(settled)

\* No circle is resolved, and one among the callers contains the call.
CirclesMet ==
  \A s \in SUBSET Cands : Circle(s) =>
    /\ ~(s \subseteq settled)
    /\ s \subseteq visiting => at \in s

\* What can be resolved is resolved or still to come, the call at hand included.
GroundedMet ==
  \A s \in SUBSET Cands : Grounded(s) =>
    /\ searching => s \subseteq settled \cup todo \cup visiting \cup {at}
    /\ s \cap visiting # {} => at \in s

SearchInv == SearchShape /\ CirclesMet /\ GroundedMet

IInv ==
  /\ TypeOK /\ VersionsOrdered /\ Superseded /\ IssuesStayOpen /\ AgreementSole
  /\ LocalSound /\ SearchInv

-----------------------------------------------------------------------------
(* The turns that reduce_round accepts. *)

\* What a turn holds.
LEMMA TurnShape ==
  ASSUME NEW r \in Reviewers, NEW t \in Turns(r)
  PROVE  /\ t.new \subseteq {i \in Issues \ issues : i.author = r}
         /\ Proposed(t.drafts) \subseteq Payloads(issues \cup t.new)
         /\ t.backs \in Stances(t.new, t.drafts)
<1>1. PICK o \in Openings(r) : t \in TurnsOf(o)
  BY DEF Turns
<1>2. PICK new \in SUBSET {i \in Issues \ issues : i.author = r} :
        o \in [new : {new}, drafts : Drafts(issues \cup new)]
  BY DEF Openings
<1>3. /\ t.new = new /\ t.drafts = o.drafts /\ t.backs \in Stances(t.new, t.drafts)
      /\ t.drafts \in Drafts(issues \cup new)
  BY <1>1, <1>2 DEF TurnsOf
<1>4. Proposed(t.drafts) \subseteq Payloads(issues \cup new)
  <2>1. PICK n \in 0 .. MaxProposals : t.drafts \in [1 .. n -> Payloads(issues \cup new)]
    BY <1>3 DEF Drafts
  <2>2. QED
    BY <2>1 DEF Proposed
<1>5. QED
  BY <1>3, <1>4

\* The turns that pass.
Sound(r) == {t \in Turns(r) : ClosesOwn(t) /\ BacksOwn(t)}

\* What reduce_round may count on in a turn it accepts.
LEMMA SoundTurn ==
  ASSUME NEW r \in Reviewers, NEW t \in Sound(r)
  PROVE  /\ t.new \subseteq Issues \ issues
         /\ \A i \in t.new : i.author = r
         /\ DOMAIN t.backs = issues \cup t.new
         /\ \A i \in DOMAIN t.backs :
              t.backs[i] # Opposed => /\ t.backs[i] \in Versions \cup Proposed(t.drafts)
                                      /\ t.backs[i].issue = i
         /\ \A i \in t.new : \E p \in Proposed(t.drafts) : p.issue = i
         /\ \A p \in Proposed(t.drafts) :
              /\ p.issue \in issues \cup t.new
              /\ \A c \in p.closes : c \in Versions /\ c.issue = p.issue
<1>1. t \in Turns(r) /\ ClosesOwn(t) /\ BacksOwn(t)
  BY DEF Sound
<1>2. /\ t.new \subseteq {i \in Issues \ issues : i.author = r}
      /\ Proposed(t.drafts) \subseteq Payloads(issues \cup t.new)
      /\ t.backs \in Stances(t.new, t.drafts)
  BY <1>1, TurnShape
<1>3. /\ DOMAIN t.backs = issues \cup t.new
      /\ \A i \in issues \cup t.new :
           /\ t.backs[i] \in Proposed(t.drafts) \cup Versions \cup {Opposed}
           /\ i \in t.new => t.backs[i] \in Proposed(t.drafts) /\ t.backs[i].issue = i
  BY <1>2 DEF Stances
<1>4. \A p \in Proposed(t.drafts) : p.issue \in issues \cup t.new /\ p.closes \subseteq Versions
  BY <1>2 DEF Payloads
<1>5. QED
  BY <1>1, <1>2, <1>3, <1>4 DEF ClosesOwn, BacksOwn

-----------------------------------------------------------------------------
(* One round. *)

\* The facts about a pair of accepted turns that make their copy sound.
LEMMA Pair ==
  ASSUME TypeOK, VersionsOrdered, NEW a \in Sound("A"), NEW b \in Sound("B")
  PROVE  /\ Candidates(a, b) \subseteq issues
         /\ \A i \in Candidates(a, b) :
              /\ a.backs[i] \in Merged(a, b) /\ a.backs[i].issue = i
              /\ OpenOf(Merged(a, b), i, closed) \ {a.backs[i]} \subseteq a.backs[i].closes
         /\ \A v \in Merged(a, b) :
              /\ v.issue \in issues \cup a.new \cup b.new
              /\ \A c \in v.closes : c \in Versions /\ c.issue = v.issue
<1>1. \A i \in a.new, j \in b.new : i # j
  BY SoundTurn DEF Reviewers
<1>2. DOMAIN a.backs \cap DOMAIN b.backs \subseteq issues
  BY <1>1, SoundTurn DEF Reviewers
<1>3. Candidates(a, b) \subseteq issues
  BY <1>2 DEF Candidates
<1>4. \A i \in Candidates(a, b) :
        /\ a.backs[i] \in Merged(a, b) /\ a.backs[i].issue = i
        /\ OpenOf(Merged(a, b), i, closed) \ {a.backs[i]} \subseteq a.backs[i].closes
  <2>1. SUFFICES ASSUME NEW i \in Candidates(a, b)
                 PROVE  /\ a.backs[i] \in Merged(a, b) /\ a.backs[i].issue = i
                        /\ OpenOf(Merged(a, b), i, closed) \ {a.backs[i]} \subseteq a.backs[i].closes
    OBVIOUS
  <2>2. /\ i \in DOMAIN a.backs /\ a.backs[i] # Opposed
        /\ OpenOf(Merged(a, b), i, closed) \ {a.backs[i]} \subseteq a.backs[i].closes
    BY DEF Candidates
  <2>3. a.backs[i] \in Versions \cup Proposed(a.drafts) /\ a.backs[i].issue = i
    BY <2>2, SoundTurn DEF Reviewers
  <2>4. QED
    BY <2>2, <2>3 DEF Merged
<1>5. \A v \in Versions :
        v.issue \in issues /\ \A c \in v.closes : c \in Versions /\ c.issue = v.issue
  BY DEF TypeOK, VersionsOrdered
<1>6. \A v \in Merged(a, b) :
        /\ v.issue \in issues \cup a.new \cup b.new
        /\ \A c \in v.closes : c \in Versions /\ c.issue = v.issue
  <2>1. \A p \in Proposed(a.drafts) :
          p.issue \in issues \cup a.new /\ \A c \in p.closes : c \in Versions /\ c.issue = p.issue
    BY SoundTurn DEF Reviewers
  <2>2. \A p \in Proposed(b.drafts) :
          p.issue \in issues \cup b.new /\ \A c \in p.closes : c \in Versions /\ c.issue = p.issue
    BY SoundTurn DEF Reviewers
  <2>3. QED
    BY <1>5, <2>1, <2>2 DEF Merged
<1>7. QED
  BY <1>3, <1>4, <1>6

\* A version that a round may resolve on has not been closed, and no other such version
\* of the round closes it.
LEMMA ChosenOpen ==
  ASSUME TypeOK, VersionsOrdered, Superseded, searching, LocalSound, NEW i \in Cands
  PROVE  /\ local.chosen[i] \notin closed
         /\ \A j \in Cands : local.chosen[i] \notin local.chosen[j].closes
<1> DEFINE chosen == local.chosen[i]
<1>1. chosen \in DOMAIN local.born /\ chosen.issue = i
  BY DEF LocalSound
<1>2. OpenOf(DOMAIN local.born, i, closed) \ {chosen} \subseteq chosen.closes
  BY DEF LocalSound
<1>3. ASSUME chosen \in closed PROVE FALSE
  <2>1. PICK w \in Versions \ closed : w.issue = chosen.issue /\ born[chosen] < born[w]
    BY <1>3 DEF Superseded
  <2>2. w \in OpenOf(DOMAIN local.born, i, closed) \ {chosen}
    BY <1>1, <1>3, <2>1 DEF OpenOf, LocalSound
  <2>3. w \in chosen.closes
    BY <1>2, <2>2
  <2>4. chosen \in Versions /\ born[w] < born[chosen]
    BY <1>3, <2>3 DEF TypeOK, VersionsOrdered
  <2>5. born[w] \in Nat /\ born[chosen] \in Nat
    BY <2>1, <2>4 DEF TypeOK
  <2>6. QED
    BY <2>1, <2>4, <2>5
<1>4. ASSUME NEW j \in Cands, chosen \in local.chosen[j].closes PROVE FALSE
  <2>1. local.chosen[j] \in DOMAIN local.born /\ local.chosen[j].issue = j
    BY DEF LocalSound
  <2>2. chosen \in Versions /\ chosen.issue = j
    BY <1>4, <2>1 DEF LocalSound
  <2>3. chosen \in chosen.closes
    BY <1>1, <1>4, <2>2
  <2>4. born[chosen] < born[chosen] /\ born[chosen] \in Nat
    BY <2>2, <2>3 DEF TypeOK, VersionsOrdered
  <2>5. QED
    BY <2>4
<1>5. QED
  BY <1>3, <1>4

\* What a round makes of the state, in the terms of the invariant.
LEMMA RoundStep ==
  ASSUME IInv, FinishRound
  PROVE  /\ TypeOK' /\ VersionsOrdered' /\ Superseded'
         /\ IssuesStayOpen' /\ AgreementSole'
<1> USE DEF IInv
<1> DEFINE merged == DOMAIN local.born
           chosen == local.chosen
<1>0. searching /\ settled \subseteq Cands
  BY DEF FinishRound, SearchInv, SearchShape
<1>1. /\ round' = round + 1 /\ round \in 0 .. MaxRounds /\ round < MaxRounds
      /\ round \in Nat /\ MaxRounds \in Nat
  BY <1>0, BoundsAssumption DEF FinishRound, LocalSound, TypeOK
<1>2. Versions' = merged /\ Versions \subseteq merged
  BY <1>0 DEF FinishRound, LocalSound, Versions
<1>3. \A v \in Versions : born[v] \in 1 .. MaxRounds /\ born[v] \in Nat /\ born[v] <= round
  BY DEF TypeOK, VersionsOrdered
<1>4. /\ \A v \in Versions : born'[v] = born[v]
      /\ \A v \in merged \ Versions : born'[v] = round + 1
  BY <1>0, <1>2 DEF FinishRound, LocalSound
<1>5. DOMAIN resolved' = settled /\ \A i \in settled : resolved'[i] = chosen[i]
  BY DEF FinishRound
<1>6. issues' = local.issues /\ issues \subseteq issues' /\ issues' \subseteq Issues
  BY <1>0 DEF FinishRound, LocalSound
<1>7. closed' = closed \cup UNION {chosen[i].closes : i \in settled}
  BY DEF FinishRound
<1>8. \A i \in settled :
        /\ i \in issues
        /\ chosen[i] \in merged /\ chosen[i].issue = i
        /\ OpenOf(merged, i, closed) \ {chosen[i]} \subseteq chosen[i].closes
  BY <1>0 DEF LocalSound
<1>9. \A v \in merged :
        v.issue \in issues' /\ \A c \in v.closes : c \in Versions /\ c.issue = v.issue
  BY <1>0, <1>6 DEF LocalSound
<1>10. \A i \in settled : chosen[i] \notin closed'
  BY <1>0, <1>7, ChosenOpen
<1>11. closed' \subseteq Versions
  BY <1>7, <1>8, <1>9 DEF TypeOK
<1>12. \A v \in closed' \ closed :
         \E i \in settled : v \in chosen[i].closes /\ v.issue = i
  BY <1>7, <1>8, <1>9
<1>13. \A w \in merged : \A c \in w.closes : born'[c] < born'[w]
  <2>1. SUFFICES ASSUME NEW w \in merged, NEW c \in w.closes PROVE born'[c] < born'[w]
    OBVIOUS
  <2>2. c \in Versions /\ born'[c] = born[c] /\ born[c] <= round /\ born[c] \in Nat
    BY <1>3, <1>4, <1>9
  <2>3. CASE w \in Versions
    BY <1>4, <2>2, <2>3 DEF VersionsOrdered
  <2>4. CASE w \notin Versions
    BY <1>1, <1>4, <2>2, <2>4
  <2>5. QED
    BY <2>3, <2>4
<1>14. TypeOK'
  <2>1. round' \in 0 .. MaxRounds
    BY <1>1
  <2>2. issues' \subseteq Issues
    BY <1>6
  <2>3. born' \in [Versions' -> 1 .. MaxRounds]
    <3>1. \A v \in merged : born'[v] \in 1 .. MaxRounds
      BY <1>1, <1>3, <1>4
    <3>2. born' = [v \in merged |-> IF v \in Versions THEN born[v] ELSE round + 1]
      BY <1>0 DEF FinishRound, LocalSound
    <3>3. QED
      BY <1>2, <3>1, <3>2
  <2>4. \A v \in Versions' : v.issue \in issues'
    BY <1>2, <1>6, <1>9
  <2>5. closed' \subseteq Versions'
    BY <1>2, <1>11
  <2>6. /\ DOMAIN resolved' \subseteq issues'
        /\ \A i \in DOMAIN resolved' : resolved'[i] \in Versions' /\ resolved'[i].issue = i
    BY <1>2, <1>5, <1>6, <1>8
  <2>7. consensus' \in BOOLEAN /\ failed' \in BOOLEAN /\ searching' \in BOOLEAN
    BY DEF FinishRound, Consensus, TypeOK, Idle
  <2>8. QED
    BY <2>1, <2>2, <2>3, <2>4, <2>5, <2>6, <2>7 DEF TypeOK
<1>15. VersionsOrdered'
  <2>1. \A v \in merged : born'[v] <= round'
    BY <1>1, <1>3, <1>4
  <2>2. QED
    BY <1>2, <1>9, <1>13, <2>1 DEF VersionsOrdered
<1>16. Superseded'
  <2>1. SUFFICES ASSUME NEW v \in closed'
                 PROVE  \E w \in Versions' \ closed' : w.issue = v.issue /\ born'[v] < born'[w]
    BY DEF Superseded
  <2>2. CASE v \in closed' \ closed
    BY <1>2, <1>8, <1>10, <1>12, <1>13, <2>2
  <2>3. CASE v \in closed
    <3>1. PICK w \in Versions \ closed : w.issue = v.issue /\ born[v] < born[w]
      BY <2>3 DEF Superseded
    <3>2. v \in Versions /\ born'[v] < born'[w]
      BY <1>4, <1>11, <2>1, <3>1
    <3>3. CASE w \notin closed'
      BY <1>2, <3>1, <3>2, <3>3
    <3>4. CASE w \in closed'
      <4>1. PICK i \in settled : w \in chosen[i].closes /\ w.issue = i
        BY <1>12, <3>1, <3>4
      <4>2. /\ chosen[i] \in Versions' \ closed'
            /\ chosen[i].issue = v.issue
            /\ born'[w] < born'[chosen[i]]
        BY <1>2, <1>8, <1>10, <1>13, <3>1, <4>1
      <4>3. /\ born'[v] \in Nat /\ born'[w] \in Nat /\ born'[chosen[i]] \in Nat
        BY <1>14, <1>2, <3>1, <3>2, <4>2 DEF TypeOK
      <4>4. QED
        BY <3>2, <4>2, <4>3
    <3>5. QED
      BY <3>3, <3>4
  <2>4. QED
    BY <2>2, <2>3
<1>17. IssuesStayOpen'
  <2>1. SUFFICES ASSUME NEW i \in issues' PROVE \E v \in merged \ closed' : v.issue = i
    BY <1>2 DEF IssuesStayOpen, OpenOf
  <2>2. CASE i \in issues
    <3>1. PICK v \in Versions \ closed : v.issue = i
      BY <2>2 DEF IssuesStayOpen, OpenOf
    <3>2. CASE v \notin closed'
      BY <1>2, <3>1, <3>2
    <3>3. CASE v \in closed'
      BY <1>8, <1>10, <1>12, <3>1, <3>3
    <3>4. QED
      BY <3>2, <3>3
  <2>3. CASE i \notin issues
    <3>1. PICK p \in merged : p.issue = i
      BY <1>0, <1>6, <2>1, <2>3 DEF LocalSound
    <3>2. p \notin Versions
      BY <2>3, <3>1 DEF TypeOK
    <3>3. QED
      BY <1>11, <3>1, <3>2
  <2>4. QED
    BY <2>2, <2>3
<1>18. AgreementSole'
  <2>1. \A i \in settled : OpenOf(merged, i, closed') = {chosen[i]}
    <3>1. SUFFICES ASSUME NEW i \in settled
                   PROVE  OpenOf(merged, i, closed') = {chosen[i]}
      OBVIOUS
    <3>2. chosen[i] \in OpenOf(merged, i, closed')
      BY <1>8, <1>10 DEF OpenOf
    <3>3. \A w \in OpenOf(merged, i, closed') : w = chosen[i]
      BY <1>7, <1>8 DEF OpenOf
    <3>4. QED
      BY <3>2, <3>3
  <2>2. consensus' => round' >= 2 /\ DOMAIN resolved' = issues'
    BY <1>1, <1>5 DEF FinishRound, Consensus
  <2>3. QED
    BY <1>2, <1>5, <2>1, <2>2 DEF AgreementSole
<1>19. QED
  BY <1>14, <1>15, <1>16, <1>17, <1>18

-----------------------------------------------------------------------------
(* The search. *)

\* Between rounds there is nothing to search.
LEMMA NothingToSearch ==
  ASSUME Idle PROVE LocalSound' /\ SearchInv'
<1>1. ~searching' /\ at' = NoIssue /\ visiting' = {} /\ settled' = {} /\ Cands' = {}
  BY DEF Idle, Cands, NoLocal
<1>2. SearchShape'
  BY <1>1 DEF SearchShape, Grounded
<1>3. CirclesMet' /\ GroundedMet'
  BY <1>1 DEF CirclesMet, GroundedMet, Circle
<1>4. QED
  BY <1>1, <1>2, <1>3 DEF SearchInv, LocalSound

\* The copy of two accepted turns is sound, and the search of it begins with every
\* candidate to come.
LEMMA SearchBegins ==
  ASSUME IInv, ReduceRound PROVE LocalSound' /\ SearchInv'
<1>1. PICK a \in Sound("A"), b \in Sound("B") : local' = Local(a, b, Chosen(a, b))
  <2>0. PICK x \in SoundOpenings("A"), y \in SoundOpenings("B") :
          \E chosen \in {Chosen(a, b) : a \in SoundTurns(x), b \in SoundTurns(y)} :
             local' = Local(x, y, chosen)
    BY DEF ReduceRound
  <2>1. PICK a \in SoundTurns(x), b \in SoundTurns(y) : local' = Local(x, y, Chosen(a, b))
    BY <2>0
  <2>2. /\ a \in Turns("A") /\ a.new = x.new /\ a.drafts = x.drafts
        /\ b \in Turns("B") /\ b.new = y.new /\ b.drafts = y.drafts
    BY DEF SoundTurns, SoundOpenings, Turns, TurnsOf
  <2>3. a \in Sound("A") /\ b \in Sound("B")
    BY <2>2 DEF Sound, SoundTurns, SoundOpenings, ClosesOwn
  <2>4. QED
    BY <2>1, <2>2, <2>3 DEF Local, Merged
<1>2. /\ UNCHANGED debate /\ round < MaxRounds
      /\ at' = NoIssue /\ visiting' = {} /\ settled' = {} /\ todo' = Cands' /\ searching'
  BY DEF ReduceRound, Debating, IInv, SearchInv, SearchShape
<1>3. /\ local'.issues = issues \cup a.new \cup b.new
      /\ local'.born = [v \in Merged(a, b) |-> IF v \in Versions THEN born[v] ELSE round + 1]
      /\ DOMAIN local'.born = Merged(a, b)
      /\ Cands' = Candidates(a, b) /\ \A i \in Candidates(a, b) : local'.chosen[i] = a.backs[i]
  BY <1>1 DEF Local, Chosen, Cands
<1>4. LocalSound'
  <2>1. issues' = issues /\ born' = born /\ closed' = closed /\ round' = round /\ Versions' = Versions
    BY <1>2 DEF debate, Versions
  <2>2. local'.issues \subseteq Issues
    BY <1>3, SoundTurn DEF IInv, TypeOK, Reviewers
  <2>3. Versions \subseteq Merged(a, b)
    BY DEF Merged
  <2>4. \A v \in Merged(a, b) :
          v.issue \in local'.issues /\ \A c \in v.closes : c \in Versions /\ c.issue = v.issue
    BY <1>3, Pair DEF IInv
  <2>5. \A i \in local'.issues \ issues : \E v \in Merged(a, b) : v.issue = i
    BY <1>3, SoundTurn DEF Merged, Reviewers
  <2>6. \A i \in Candidates(a, b) :
          /\ i \in issues /\ a.backs[i] \in Merged(a, b) /\ a.backs[i].issue = i
          /\ OpenOf(Merged(a, b), i, closed) \ {a.backs[i]} \subseteq a.backs[i].closes
    BY Pair DEF IInv
  <2>7. QED
    BY <1>2, <1>3, <2>1, <2>2, <2>3, <2>4, <2>5, <2>6 DEF LocalSound, OpenOf
<1>5. NoIssue \notin Cands'
  <2>1. Candidates(a, b) \subseteq Issues
    BY Pair DEF IInv, TypeOK
  <2>2. NoIssue \notin Issues
    BY DEF NoIssue, Issues, Reviewers
  <2>3. QED
    BY <1>3, <2>1, <2>2
<1>6. SearchShape'
  BY <1>2, <1>5 DEF SearchShape, Grounded
<1>7. CirclesMet' /\ GroundedMet'
  BY <1>2 DEF CirclesMet, GroundedMet, Circle, Grounded
<1>8. QED
  BY <1>4, <1>6, <1>7 DEF SearchInv

\* A call that returns: what it and its callers resolve leads out of the search, and
\* nothing that could be resolved is lost.
LEMMA CallReturns ==
  ASSUME IInv, Calling, ReturnSettled \/ ReturnUnresolved \/ ReturnResolved
  PROVE  SearchInv'
<1> USE DEF IInv, SearchInv
<1> DEFINE out == settled'
<1>1. /\ searching /\ at # NoIssue
      /\ UNCHANGED <<searching, local, todo>> /\ at' = NoIssue /\ visiting' = {}
  BY DEF Calling, ReturnSettled, ReturnUnresolved, ReturnResolved, Return
<1>2. /\ Cands' = Cands /\ \A s : Circle(s)' <=> Circle(s)
      /\ \A s : Grounded(s)' <=> Grounded(s)
  BY <1>1 DEF Cands, Circle, Grounded, Target
<1>3. /\ settled \subseteq out /\ out \subseteq settled \cup visiting \cup {at}
      /\ out \subseteq Cands /\ Grounded(out)
      /\ \A s \in SUBSET Cands : Circle(s) => ~(s \subseteq out)
      /\ \A s \in SUBSET Cands : Grounded(s) => s \subseteq out \cup todo
  <2>1. CASE ReturnSettled
    <3>1. out = settled \cup visiting /\ at \in settled
      BY <2>1 DEF ReturnSettled, Return
    <3>2. Grounded(out)
      BY <3>1 DEF SearchShape, Grounded
    <3>3. ASSUME NEW s \in SUBSET Cands, Circle(s), s \subseteq out PROVE FALSE
      <4>1. Circle(s \cap settled) \/ s \cap settled = {}
        BY <3>3 DEF SearchShape, Grounded, Circle
      <4>2. s \subseteq visiting
        BY <3>1, <3>3, <4>1 DEF CirclesMet
      <4>3. at \in s
        BY <3>3, <4>2 DEF CirclesMet
      <4>4. QED
        BY <3>1, <4>2, <4>3 DEF SearchShape
    <3>4. QED
      BY <1>1, <3>1, <3>2, <3>3 DEF SearchShape, GroundedMet
  <2>2. CASE ReturnUnresolved
    <3>1. out = settled /\ at \notin Cands
      BY <2>2 DEF ReturnUnresolved, Return
    <3>2. \A s \in SUBSET Cands : Grounded(s) => s \subseteq out \cup todo
      BY <1>1, <3>1 DEF GroundedMet
    <3>3. QED
      BY <3>1, <3>2 DEF SearchShape, CirclesMet
  <2>3. CASE ReturnResolved
    <3>1. out = settled \cup visiting \cup {at} /\ Target(at) = NoIssue
      BY <2>3 DEF ReturnResolved, Return
    <3>2. at \in Cands \ (settled \cup visiting)
      BY <2>3 DEF ReturnResolved, Fresh
    <3>3. Grounded(out)
      BY <3>1, <3>2 DEF SearchShape, Grounded
    <3>4. ASSUME NEW s \in SUBSET Cands, Circle(s), s \subseteq out PROVE FALSE
      <4>1. at \notin s
        BY <3>1, <3>4 DEF Circle, SearchShape
      <4>2. Circle(s \cap settled) \/ s \cap settled = {}
        BY <3>4 DEF SearchShape, Grounded, Circle
      <4>3. s \subseteq visiting
        BY <3>1, <3>4, <4>1, <4>2 DEF CirclesMet
      <4>4. QED
        BY <3>4, <4>1, <4>3 DEF CirclesMet
    <3>5. QED
      BY <1>1, <3>1, <3>2, <3>3, <3>4 DEF SearchShape, GroundedMet
  <2>4. QED
    BY <2>1, <2>2, <2>3
<1>4. SearchShape'
  BY <1>1, <1>2, <1>3 DEF SearchShape
<1>5. CirclesMet'
  BY <1>1, <1>2, <1>3 DEF CirclesMet, Circle
<1>6. GroundedMet'
  BY <1>1, <1>2, <1>3 DEF GroundedMet
<1>7. QED
  BY <1>4, <1>5, <1>6

\* A call that waits for its target hands on what its callers have met.
LEMMA CallFollows ==
  ASSUME IInv, Search \/ Follow PROVE SearchInv'
<1> USE DEF IInv, SearchInv
<1>1. searching /\ UNCHANGED <<searching, local, settled>>
  BY DEF Search, Follow, Fresh, Calling
<1>2. /\ Cands' = Cands /\ \A s : Circle(s)' <=> Circle(s)
      /\ \A s : Grounded(s)' <=> Grounded(s) /\ \A i : Target(i)' = Target(i)
  BY <1>1 DEF Cands, Circle, Grounded, Target
<1>3. CASE Search
  <2>1. /\ visiting = {} /\ visiting' = {}
        /\ todo \subseteq todo' \cup {at'} /\ at = NoIssue
    BY <1>3 DEF Search, SearchShape
  <2>2. SearchShape'
    BY <1>1, <2>1 DEF SearchShape, Grounded, Cands, Target
  <2>3. CirclesMet'
    BY <1>1, <1>2, <2>1 DEF CirclesMet, Circle
  <2>4. GroundedMet'
    BY <1>1, <1>2, <2>1 DEF SearchShape, GroundedMet
  <2>5. QED
    BY <2>2, <2>3, <2>4
<1>4. CASE Follow
  <2>1. /\ at \in Cands \ (settled \cup visiting)
        /\ at' = Target(at) /\ at' # NoIssue
        /\ visiting' = visiting \cup {at} /\ todo' = todo
    BY <1>4 DEF Follow, Fresh
  <2>2. SearchShape'
    BY <1>1, <2>1 DEF SearchShape, Grounded, Cands, Target
  <2>3. CirclesMet'
    <3>1. SUFFICES ASSUME NEW s \in SUBSET Cands, Circle(s), s \subseteq visiting'
                   PROVE  at' \in s
      BY <1>1, <1>2 DEF CirclesMet
    <3>2. at \in s
      BY <2>1, <3>1 DEF CirclesMet
    <3>3. QED
      BY <2>1, <3>1, <3>2 DEF Circle
  <2>4. GroundedMet'
    <3>1. SUFFICES ASSUME NEW s \in SUBSET Cands, Grounded(s)
                   PROVE  /\ s \subseteq settled \cup todo \cup visiting' \cup {at'}
                          /\ s \cap visiting' # {} => at' \in s
      BY <1>1, <1>2, <2>1 DEF GroundedMet
    <3>2. s \subseteq settled \cup todo \cup visiting'
      BY <1>1, <2>1, <3>1 DEF GroundedMet
    <3>3. s \cap visiting' # {} => at \in s
      BY <2>1, <3>1 DEF GroundedMet
    <3>4. at \in s => at' \in s
      BY <2>1, <3>1 DEF Grounded
    <3>5. QED
      BY <3>2, <3>3, <3>4
  <2>5. QED
    BY <2>2, <2>3, <2>4
<1>5. QED
  BY <1>3, <1>4

\* What the search leaves when it is over: no circle, and all that can be resolved.
LEMMA SearchOver ==
  ASSUME IInv, searching, at = NoIssue, todo = {}
  PROVE  /\ Grounded(settled)
         /\ \A s \in SUBSET Cands : ~Circle(s) /\ (Grounded(s) => s \subseteq settled)
<1>1. visiting = {} /\ NoIssue \notin Cands /\ Grounded(settled)
  BY DEF IInv, SearchInv, SearchShape
<1>2. \A s \in SUBSET Cands : Grounded(s) => s \subseteq settled
  BY <1>1 DEF IInv, SearchInv, GroundedMet
<1>3. \A s \in SUBSET Cands : Circle(s) => Grounded(s)
  BY DEF Circle, Grounded
<1>4. QED
  BY <1>1, <1>2, <1>3 DEF IInv, SearchInv, CirclesMet

-----------------------------------------------------------------------------
(* The theorems. *)

\* The steps that leave the state as it is.
LEMMA StateKept ==
  ASSUME IInv, UNCHANGED debate, failed' \in BOOLEAN, searching' \in BOOLEAN
  PROVE  TypeOK' /\ VersionsOrdered' /\ Superseded' /\ IssuesStayOpen' /\ AgreementSole'
BY DEF debate, IInv, TypeOK, Versions, VersionsOrdered, Superseded, IssuesStayOpen,
       AgreementSole, OpenOf

\* IInv holds in every state: a round keeps it, and so does each call of its search.
THEOREM Invariant == Spec => []IInv
<1>1. Init => IInv
  <2>1. SUFFICES ASSUME Init PROVE IInv
    OBVIOUS
  <2>2. /\ Versions = {} /\ DOMAIN resolved = {} /\ issues = {} /\ closed = {}
        /\ Cands = {} /\ settled = {} /\ visiting = {} /\ at = NoIssue /\ ~searching
    BY <2>1 DEF Init, Versions, Cands, NoLocal
  <2>3. born \in [Versions -> 1 .. MaxRounds]
    BY <2>1 DEF Init, Versions
  <2>4. TypeOK
    <3>1. round \in 0 .. MaxRounds
      BY <2>1, BoundsAssumption DEF Init
    <3>2. consensus \in BOOLEAN /\ failed \in BOOLEAN /\ searching \in BOOLEAN
      BY <2>1 DEF Init
    <3>3. QED
      BY <2>2, <2>3, <3>1, <3>2 DEF TypeOK
  <2>5. VersionsOrdered /\ Superseded /\ IssuesStayOpen
    BY <2>2 DEF VersionsOrdered, Superseded, IssuesStayOpen
  <2>6. AgreementSole
    BY <2>1, <2>2 DEF Init, AgreementSole
  <2>7. LocalSound /\ SearchInv
    BY <2>2 DEF LocalSound, SearchInv, SearchShape, CirclesMet, GroundedMet, Circle, Grounded
  <2>8. QED
    BY <2>4, <2>5, <2>6, <2>7 DEF IInv
<1>2. IInv /\ [Next]_vars => IInv'
  <2>1. SUFFICES ASSUME IInv, [Next]_vars PROVE IInv'
    OBVIOUS
  <2>2. CASE FinishRound
    <3>1. TypeOK' /\ VersionsOrdered' /\ Superseded' /\ IssuesStayOpen' /\ AgreementSole'
      BY <2>1, <2>2, RoundStep
    <3>2. LocalSound' /\ SearchInv'
      BY <2>2, NothingToSearch DEF FinishRound
    <3>3. QED
      BY <3>1, <3>2 DEF IInv
  <2>3. CASE Fail
    <3>1. UNCHANGED debate /\ failed' \in BOOLEAN /\ searching' \in BOOLEAN /\ Idle
      BY <2>3 DEF Fail, Idle
    <3>2. QED
      BY <2>1, <3>1, StateKept, NothingToSearch DEF IInv
  <2>4. CASE ReduceRound
    <3>1. UNCHANGED debate /\ failed' \in BOOLEAN /\ searching' \in BOOLEAN
      BY <2>1, <2>4 DEF ReduceRound, IInv, TypeOK
    <3>2. QED
      BY <2>1, <2>4, <3>1, StateKept, SearchBegins DEF IInv
  <2>5. CASE Search \/ ReturnSettled \/ ReturnUnresolved \/ ReturnResolved \/ Follow
    <3>1. UNCHANGED <<debate, failed, searching, local>>
      BY <2>5 DEF Search, ReturnSettled, ReturnUnresolved, ReturnResolved, Return, Follow
    <3>2. TypeOK' /\ VersionsOrdered' /\ Superseded' /\ IssuesStayOpen' /\ AgreementSole'
      BY <2>1, <3>1, StateKept DEF IInv, TypeOK
    <3>3. LocalSound'
      BY <2>1, <3>1 DEF IInv, LocalSound, debate, Versions, Cands, OpenOf
    <3>4. SearchInv'
      BY <2>1, <2>5, CallReturns, CallFollows
         DEF ReturnSettled, ReturnUnresolved, ReturnResolved, Fresh
    <3>5. QED
      BY <3>2, <3>3, <3>4 DEF IInv
  <2>6. CASE UNCHANGED vars
    <3>1. UNCHANGED <<debate, failed, searching, local>> /\ UNCHANGED <<todo, at, visiting, settled>>
      BY <2>6 DEF vars
    <3>2. TypeOK' /\ VersionsOrdered' /\ Superseded' /\ IssuesStayOpen' /\ AgreementSole'
      BY <2>1, <3>1, StateKept DEF IInv, TypeOK
    <3>3. LocalSound'
      BY <2>1, <3>1 DEF IInv, LocalSound, debate, Versions, Cands, OpenOf
    <3>4. SearchInv'
      BY <2>1, <3>1
         DEF IInv, SearchInv, SearchShape, CirclesMet, GroundedMet, Circle, Grounded, Cands, Target
    <3>5. QED
      BY <3>2, <3>3, <3>4 DEF IInv
  <2>7. QED
    BY <2>1, <2>2, <2>3, <2>4, <2>5, <2>6 DEF Next, RaiseOnCircle, RaiseOnTurn
<1>3. QED
  BY <1>1, <1>2, PTL DEF Spec

\* TypeOK holds.
THEOREM TypeCorrect == Spec => []TypeOK
BY Invariant, PTL DEF IInv

\* A resolution leaves no rival open, and is not one that was closed.
THEOREM AgreementStandsAlone == Spec => []AgreementSole
BY Invariant, PTL DEF IInv

\* Every issue keeps an open version.
THEOREM IssuesKeepVersions == Spec => []IssuesStayOpen
BY Invariant, PTL DEF IInv

\* A round is given up during its search just when duplicates run in a circle, and one
\* that is kept resolves all candidates that can be.
THEOREM SearchSettles == Spec => DuplicatesSettled
<1> DEFINE Settles ==
      /\ round' # round =>
           /\ \A s \in SUBSET Cands : ~Circle(s)
           /\ Grounded(DOMAIN resolved')
           /\ \A s \in SUBSET Cands : Grounded(s) => s \subseteq DOMAIN resolved'
      /\ searching /\ failed' # failed => \E s \in SUBSET Cands : Circle(s)
<1>1. IInv /\ [Next]_vars => [Settles]_vars
  <2>1. SUFFICES ASSUME IInv, Next PROVE Settles
    OBVIOUS
  <2>2. ASSUME round' # round
        PROVE  /\ \A s \in SUBSET Cands : ~Circle(s)
               /\ Grounded(DOMAIN resolved')
               /\ \A s \in SUBSET Cands : Grounded(s) => s \subseteq DOMAIN resolved'
    <3>1. FinishRound
      BY <2>1, <2>2
         DEF Next, ReduceRound, RaiseOnTurn, RaiseOnCircle, Fail, Search, ReturnSettled,
             ReturnUnresolved, ReturnResolved, Return, Follow, debate
    <3>2. DOMAIN resolved' = settled /\ searching /\ at = NoIssue /\ todo = {}
      BY <3>1 DEF FinishRound
    <3>3. QED
      BY <2>1, <3>2, SearchOver
  <2>3. ASSUME searching, failed' # failed PROVE \E s \in SUBSET Cands : Circle(s)
    <3>0. ~ReduceRound /\ ~RaiseOnTurn
      BY <2>3 DEF ReduceRound, RaiseOnTurn, Debating
    <3>1. at \in visiting
      BY <2>1, <2>3, <3>0
         DEF Next, RaiseOnCircle, Search, ReturnSettled, ReturnUnresolved, ReturnResolved,
             Return, Follow, FinishRound
    <3>2. Circle(visiting)
      BY <2>1, <3>1 DEF Circle, IInv, SearchInv, SearchShape
    <3>3. QED
      BY <3>2 DEF Circle
  <2>4. QED
    BY <2>2, <2>3
<1>2. QED
  BY <1>1, Invariant, PTL DEF Spec, DuplicatesSettled

\* No consensus in a round that raises an issue.
THEOREM LateIssuesBlock == Spec => LateIssueBlocks
<1>1. IInv /\ [Next]_vars => [consensus' => issues' = issues]_vars
  <2>1. SUFFICES ASSUME IInv, Next, consensus' PROVE issues' = issues
    BY DEF vars
  <2>2. CASE UNCHANGED debate
    BY <2>2 DEF debate
  <2>3. CASE FinishRound
    <3>1. issues' = settled /\ issues \subseteq issues'
      BY <2>1, <2>3 DEF FinishRound, Consensus, IInv, LocalSound
    <3>2. settled \subseteq issues
      BY <2>1, <2>3 DEF FinishRound, IInv, LocalSound, SearchInv, SearchShape
    <3>3. QED
      BY <3>1, <3>2
  <2>4. QED
    BY <2>1, <2>2, <2>3
       DEF Next, ReduceRound, RaiseOnTurn, RaiseOnCircle, Fail, Search, ReturnSettled,
           ReturnUnresolved, ReturnResolved, Return, Follow
<1>2. QED
  BY <1>1, Invariant, PTL DEF Spec, LateIssueBlocks
=============================================================================
