-------------------------- MODULE SkillStoreProofs --------------------------
(***************************************************************************)
(* MatchedSkillsAreStored for any skills, suggestions and number of        *)
(* matchings.  It is not inductive: a matching that is under way must have *)
(* resolved to rows that its transaction sees, and one that was refused    *)
(* must find the row that refused it.                                      *)
(***************************************************************************)
EXTENDS SkillStore, FiniteSetTheorems, TLAPS

Working == {"idle", "look", "write", "refused", "matched"}

\* What holds of a matching at each stage, given the committed skills.
SoundMatching(r, table) ==
  /\ r.pc # "raised"
  /\ IsFiniteSet(r.resolved) /\ Cardinality(r.resolved) <= MaxSkills
  /\ r.pc \in Working => r.resolved \subseteq table \cup r.drafts
  /\ r.pc \in {"write", "refused"} => r.slug \in Slugs /\ Cardinality(r.resolved) < MaxSkills
  /\ r.pc = "write" /\ r.found => r.slug \in table \cup r.drafts
  /\ r.pc = "refused" => r.slug \in table
  /\ r.pc \in {"matched", "committed"} =>
       Cardinality(r.resolved) >= MinSkills \/ r.todo = <<>>
  /\ r.pc = "committed" => r.resolved \subseteq table

SkillsInv == SkillsTypeOK /\ \A m \in Matchings : SoundMatching(matching[m], stored)

-----------------------------------------------------------------------------
\* Skills that are added to the table disturb no matching.
LEMMA MoreSkillsKeepSound ==
  ASSUME NEW r, NEW table, NEW larger, table \subseteq larger, SoundMatching(r, table)
  PROVE  SoundMatching(r, larger)
BY DEF SoundMatching

\* Locks are taken and given up by transactions only.
LEMMA LocksKeepType ==
  ASSUME SkillsTypeOK, NEW who \in Matchings \cup {Nobody, Sync}, NEW s
  PROVE  /\ Free(who) \in [Slugs -> Matchings \cup {Nobody, Sync}]
         /\ Hold(who, s) => holder' \in [Slugs -> Matchings \cup {Nobody, Sync}]
BY DEF SkillsTypeOK, Free, Hold

\* A step that replaces one matching by a sound one, and takes no skill away, keeps SkillsInv.
LEMMA OneMatchingChanges ==
  ASSUME SkillsInv, NEW m \in Matchings, NEW new \in Matching,
         matching' = Became(m, new), SoundMatching(new, stored'),
         stored \subseteq stored', stored' \subseteq Slugs,
         holder' \in [Slugs -> Matchings \cup {Nobody, Sync}], sync' \in Synchronisation
  PROVE  SkillsInv'
<1>1. matching \in [Matchings -> Matching]
  BY DEF SkillsInv, SkillsTypeOK
<1>2. matching' \in [Matchings -> Matching]
  BY <1>1 DEF Became
<1>3. ASSUME NEW b \in Matchings PROVE SoundMatching(matching'[b], stored')
  <2>1. CASE b = m
    <3>1. matching'[b] = new
      BY <1>1, <2>1 DEF Became
    <3> QED
      BY <3>1
  <2>2. CASE b # m
    <3>1. matching'[b] = matching[b]
      BY <1>1, <2>2 DEF Became
    <3>2. SoundMatching(matching[b], stored)
      BY DEF SkillsInv
    <3> QED
      BY <3>1, <3>2, MoreSkillsKeepSound
  <2> QED
    BY <2>1, <2>2
<1> QED
  BY <1>2, <1>3 DEF SkillsInv, SkillsTypeOK

\* Before any matching or synchronisation, whatever the table holds.
LEMMA SkillsInitEstablishes == SkillsInit => SkillsInv
<1> SUFFICES ASSUME SkillsInit PROVE SkillsInv
  OBVIOUS
<1>1. NoMatching \in Matching
  <2>1. <<>> \in Seq(Slugs)
    OBVIOUS
  <2> QED
    BY <2>1 DEF NoMatching, Matching
<1>2. SkillsTypeOK
  BY <1>1 DEF SkillsInit, SkillsTypeOK, Synchronisation
<1>3. SoundMatching(NoMatching, stored)
  BY FS_EmptySet, SkillsAssumption DEF NoMatching, SoundMatching, Working
<1> QED
  BY <1>2, <1>3 DEF SkillsInit, SkillsInv

-----------------------------------------------------------------------------
(* The steps of a matching *)

\* What a matching is before it steps.
LEMMA MatchingIsSound ==
  ASSUME SkillsInv, NEW m \in Matchings
  PROVE  /\ matching[m] \in Matching /\ SoundMatching(matching[m], stored)
         /\ matching[m].resolved \subseteq Slugs /\ matching[m].drafts \subseteq Slugs
         /\ matching[m].todo \in Seq(Slugs)
         /\ stored \subseteq Slugs /\ sync \in Synchronisation
         /\ holder \in [Slugs -> Matchings \cup {Nobody, Sync}]
         /\ Cardinality(matching[m].resolved) \in Nat
<1>1. matching[m] \in Matching /\ SoundMatching(matching[m], stored)
  BY DEF SkillsInv, SkillsTypeOK
<1>2. Cardinality(matching[m].resolved) \in Nat
  BY <1>1, FS_CardinalityType DEF SoundMatching
<1> QED
  BY <1>1, <1>2 DEF SkillsInv, SkillsTypeOK, Matching

\* A list of suggestions, or of fallbacks, is taken up; or the matching is over.
LEMMA ListsPreserve ==
  ASSUME SkillsInv, NEW m \in Matchings, StartMatching(m) \/ PadOrEnd(m)
  PROVE  SkillsInv'
<1> DEFINE r == matching[m]
<1>1. /\ r \in Matching /\ SoundMatching(r, stored) /\ stored \subseteq Slugs
      /\ sync \in Synchronisation /\ holder \in [Slugs -> Matchings \cup {Nobody, Sync}]
      /\ Cardinality(r.resolved) \in Nat
  BY MatchingIsSound
<1>2. CASE StartMatching(m)
  <2>1. PICK list \in Suggested :
          matching' = Became(m, [matching[m] EXCEPT !.pc = "look", !.todo = list])
    BY <1>2 DEF StartMatching
  <2> DEFINE new == [matching[m] EXCEPT !.pc = "look", !.todo = list]
  <2>2. new \in Matching
    <3>1. list \in Seq(Slugs)
      BY SkillsAssumption
    <3> QED
      BY <1>1, <3>1 DEF Matching
  <2>3. SoundMatching(new, stored)
    BY <1>1, <1>2 DEF SoundMatching, Working, Matching, StartMatching, AtStage
  <2> QED
    BY <1>1, <1>2, <2>1, <2>2, <2>3, OneMatchingChanges DEF StartMatching
<1>3. CASE PadOrEnd(m)
  <2>1. r.pc = "look" /\ (r.todo = <<>> \/ Enough(m))
    BY <1>3 DEF PadOrEnd, ListDone, AtStage
  <2>2. CASE ~r.padding /\ Cardinality(r.resolved) < MinSkills
    <3> DEFINE new == [matching[m] EXCEPT !.padding = TRUE, !.todo = Fallbacks]
    <3>1. new \in Matching
      BY <1>1, SkillsAssumption DEF Matching
    <3>2. SoundMatching(new, stored)
      BY <1>1, <2>1 DEF SoundMatching, Working, Matching
    <3>3. matching' = Became(m, new)
      BY <1>3, <2>2 DEF PadOrEnd
    <3> QED
      BY <1>1, <1>3, <3>1, <3>2, <3>3, OneMatchingChanges DEF PadOrEnd
  <2>3. CASE ~(~r.padding /\ Cardinality(r.resolved) < MinSkills)
    <3> DEFINE new == [matching[m] EXCEPT !.pc = "matched"]
    <3>1. new \in Matching
      BY <1>1 DEF Matching
    <3>2. Cardinality(r.resolved) >= MinSkills \/ r.todo = <<>>
      BY <1>1, <2>1, <2>3, SkillsAssumption DEF Enough
    <3>3. SoundMatching(new, stored)
      BY <1>1, <2>1, <3>2 DEF SoundMatching, Working, Matching
    <3>4. matching' = Became(m, new)
      BY <1>3, <2>3 DEF PadOrEnd
    <3> QED
      BY <1>1, <1>3, <3>1, <3>3, <3>4, OneMatchingChanges DEF PadOrEnd
  <2> QED
    BY <2>2, <2>3
<1> QED
  BY <1>2, <1>3

\* Before a list is done one skill more is within MaxSkills.
LEMMA RoomForOne ==
  ASSUME SkillsInv, NEW m \in Matchings, AtStage(m, "look"), ~ListDone(m)
  PROVE  /\ Cardinality(matching[m].resolved) < MaxSkills
         /\ matching[m].todo # <<>>
<1>1. Cardinality(matching[m].resolved) \in Nat
  BY MatchingIsSound
<1> QED
  BY <1>1, SkillsAssumption DEF ListDone, Enough

\* One skill more, of those the transaction sees, is sound while there is room.
LEMMA OneMoreSkill ==
  ASSUME SkillsInv, NEW m \in Matchings, NEW slug \in Slugs,
         Cardinality(matching[m].resolved) < MaxSkills
  PROVE  /\ IsFiniteSet(matching[m].resolved \cup {slug})
         /\ Cardinality(matching[m].resolved \cup {slug}) <= MaxSkills
<1>1. IsFiniteSet(matching[m].resolved) /\ Cardinality(matching[m].resolved) \in Nat
  BY MatchingIsSound DEF SoundMatching
<1>2. /\ IsFiniteSet(matching[m].resolved \cup {slug})
      /\ Cardinality(matching[m].resolved \cup {slug}) =
           IF slug \in matching[m].resolved THEN Cardinality(matching[m].resolved)
           ELSE Cardinality(matching[m].resolved) + 1
  BY <1>1, FS_AddElement
<1> QED
  BY <1>1, <1>2, SkillsAssumption

\* What _resolve finds is a slug to write, or a row the transaction sees.
LEMMA ResolvePreserves ==
  ASSUME SkillsInv, NEW m \in Matchings, Resolve(m)
  PROVE  SkillsInv'
<1> DEFINE r == matching[m]
           next == [matching[m] EXCEPT !.todo = Tail(@)]
<1>1. /\ r \in Matching /\ SoundMatching(r, stored) /\ stored \subseteq Slugs
      /\ r.todo \in Seq(Slugs) /\ r.resolved \subseteq Slugs
      /\ sync \in Synchronisation /\ holder \in [Slugs -> Matchings \cup {Nobody, Sync}]
      /\ r.pc = "look" /\ Cardinality(r.resolved) < MaxSkills /\ r.todo # <<>>
  BY MatchingIsSound, RoomForOne DEF Resolve, AtStage
<1>2. Tail(r.todo) \in Seq(Slugs) /\ Head(r.todo) \in Slugs
  BY <1>1
<1>3. next \in Matching
  BY <1>1, <1>2 DEF Matching
<1>4. /\ next.pc = "look" /\ next.drafts = r.drafts /\ next.resolved = r.resolved
      /\ next.resolved \subseteq Slugs
  BY <1>1 DEF Matching
<1>5. ASSUME NEW new \in Matching, matching' = Became(m, new), SoundMatching(new, stored)
      PROVE  SkillsInv'
  BY <1>1, <1>5, OneMatchingChanges DEF Resolve
<1>6. ASSUME NEW t \in Slugs,
             matching' = Became(m, [next EXCEPT !.pc = "write", !.slug = t,
                                                !.found = t \in Visible(m)])
      PROVE  SkillsInv'
  <2> DEFINE seen == t \in Visible(m)
             new == [next EXCEPT !.pc = "write", !.slug = t, !.found = seen]
  <2>1. seen \in BOOLEAN
    OBVIOUS
  <2>2. seen => t \in stored \cup r.drafts
    BY DEF Visible
  <2> HIDE DEF next, seen
  <2>3. new \in Matching
    BY <1>3, <2>1 DEF Matching
  <2>4. /\ new.pc = "write" /\ new.slug = t /\ new.found = seen
        /\ new.drafts = next.drafts /\ new.resolved = next.resolved
    BY <1>3 DEF Matching
  <2>5. SoundMatching(new, stored)
    BY <1>1, <1>4, <2>2, <2>4 DEF SoundMatching, Working
  <2> QED
    BY <1>5, <1>6, <2>3, <2>5 DEF seen
<1>7. ASSUME NEW t \in Slugs, t \in Visible(m),
             matching' = Became(m, [next EXCEPT !.resolved = @ \cup {t}])
      PROVE  SkillsInv'
  <2> DEFINE new == [next EXCEPT !.resolved = @ \cup {t}]
  <2>1. new \in Matching
    BY <1>3, <1>4 DEF Matching
  <2>2. /\ new.pc = "look" /\ new.resolved = r.resolved \cup {t} /\ new.drafts = r.drafts
    BY <1>3, <1>4 DEF Matching
  <2>3. IsFiniteSet(new.resolved) /\ Cardinality(new.resolved) <= MaxSkills
    BY <1>1, <2>2, OneMoreSkill
  <2>4. SoundMatching(new, stored)
    BY <1>1, <1>7, <2>2, <2>3 DEF SoundMatching, Working, Visible
  <2> QED
    BY <1>5, <1>7, <2>1, <2>4
<1>8. ASSUME matching' = Became(m, next) PROVE SkillsInv'
  <2>1. SoundMatching(next, stored)
    BY <1>1, <1>4 DEF SoundMatching, Working
  <2> QED
    BY <1>3, <1>5, <1>8, <2>1
<1> QED
  BY <1>1, <1>2, <1>6, <1>7, <1>8 DEF Resolve


\* A row that was found is updated: the transaction sees it still.
LEMMA UpdatePreserves ==
  ASSUME SkillsInv, NEW m \in Matchings, UpdateSkill(m)
  PROVE  SkillsInv'
<1> DEFINE r == matching[m]
<1>1. /\ r \in Matching /\ SoundMatching(r, stored) /\ stored \subseteq Slugs
      /\ r.resolved \subseteq Slugs /\ sync \in Synchronisation
      /\ r.pc = "write" /\ r.found
  BY MatchingIsSound DEF UpdateSkill, AtStage
<1>2. r.slug \in Slugs /\ Cardinality(r.resolved) < MaxSkills /\ r.slug \in stored \cup r.drafts
  BY <1>1 DEF SoundMatching
<1>3. /\ Written(m) \in Matching /\ Written(m).pc = "look" /\ Written(m).drafts = r.drafts
      /\ Written(m).resolved = r.resolved \cup {r.slug}
  BY <1>1, <1>2 DEF Written, Matching
<1>4. SoundMatching(Written(m), stored)
  <2>1. /\ IsFiniteSet(Written(m).resolved)
        /\ Cardinality(Written(m).resolved) <= MaxSkills
    BY <1>2, <1>3, OneMoreSkill
  <2> QED
    BY <1>1, <1>2, <1>3, <2>1 DEF SoundMatching, Working
<1>5. holder' \in [Slugs -> Matchings \cup {Nobody, Sync}]
  BY LocksKeepType DEF UpdateSkill, SkillsInv
<1> QED
  BY <1>1, <1>3, <1>4, <1>5, OneMatchingChanges DEF UpdateSkill

\* A row that was not found is inserted, or refused because it is in the table.
LEMMA StoreInsertPreserves ==
  ASSUME SkillsInv, NEW m \in Matchings, InsertSkill(m)
  PROVE  SkillsInv'
<1> DEFINE r == matching[m]
<1>1. /\ r \in Matching /\ SoundMatching(r, stored) /\ stored \subseteq Slugs
      /\ r.resolved \subseteq Slugs /\ r.drafts \subseteq Slugs /\ sync \in Synchronisation
      /\ r.pc = "write" /\ holder \in [Slugs -> Matchings \cup {Nobody, Sync}]
  BY MatchingIsSound DEF InsertSkill, AtStage
<1>2. r.slug \in Slugs /\ Cardinality(r.resolved) < MaxSkills
  BY <1>1 DEF SoundMatching
<1>3. CASE r.slug \in stored
  <2> DEFINE new == [matching[m] EXCEPT !.pc = "refused"]
  <2>1. new \in Matching
    BY <1>1 DEF Matching
  <2>2. SoundMatching(new, stored)
    BY <1>1, <1>3 DEF SoundMatching, Working, Matching
  <2>3. matching' = Became(m, new) /\ UNCHANGED <<stored, holder, sync>>
    BY <1>3 DEF InsertSkill
  <2> QED
    BY <1>1, <2>1, <2>2, <2>3, OneMatchingChanges
<1>4. CASE r.slug \notin stored
  <2> DEFINE new == [Written(m) EXCEPT !.drafts = @ \cup {r.slug}]
  <2>1. /\ Written(m) \in Matching /\ Written(m).pc = "look" /\ Written(m).drafts = r.drafts
        /\ Written(m).resolved = r.resolved \cup {r.slug}
    BY <1>1, <1>2 DEF Written, Matching
  <2>2. /\ new \in Matching /\ new.pc = "look" /\ new.drafts = r.drafts \cup {r.slug}
        /\ new.resolved = r.resolved \cup {r.slug}
    BY <1>1, <1>2, <2>1 DEF Matching
  <2>3. IsFiniteSet(new.resolved) /\ Cardinality(new.resolved) <= MaxSkills
    BY <1>2, <2>2, OneMoreSkill
  <2>4. SoundMatching(new, stored)
    BY <1>1, <2>2, <2>3 DEF SoundMatching, Working
  <2>5. matching' = Became(m, new) /\ Hold(m, r.slug) /\ UNCHANGED <<stored, sync>>
    BY <1>4 DEF InsertSkill
  <2>6. holder' \in [Slugs -> Matchings \cup {Nobody, Sync}]
    BY <2>5, LocksKeepType DEF SkillsInv
  <2> QED
    BY <1>1, <2>2, <2>4, <2>5, <2>6, OneMatchingChanges
<1> QED
  BY <1>3, <1>4

\* The row that refused the insertion is committed, and so is found at the second look.
LEMMA StoreLookAgainPreserves ==
  ASSUME SkillsInv, NEW m \in Matchings, LookAgain(m)
  PROVE  SkillsInv'
<1> DEFINE new == [matching[m] EXCEPT !.pc = "write", !.found = TRUE]
<1>1. /\ matching[m] \in Matching /\ SoundMatching(matching[m], stored)
      /\ stored \subseteq Slugs /\ sync \in Synchronisation
      /\ holder \in [Slugs -> Matchings \cup {Nobody, Sync}] /\ matching[m].pc = "refused"
  BY MatchingIsSound DEF LookAgain, AtStage
<1>2. matching[m].slug \in stored
  BY <1>1 DEF SoundMatching
<1>3. matching' = Became(m, new) /\ UNCHANGED <<stored, holder, sync>>
  BY <1>2 DEF LookAgain, Visible
<1>4. new \in Matching
  BY <1>1 DEF Matching
<1>5. SoundMatching(new, stored)
  BY <1>1, <1>2 DEF SoundMatching, Working, Matching
<1> QED
  BY <1>1, <1>3, <1>4, <1>5, OneMatchingChanges

\* The commit puts all the transaction sees in the table; the abort forgets it all.
LEMMA EndPreserves ==
  ASSUME SkillsInv, NEW m \in Matchings, CommitMatching(m) \/ AbortMatching(m)
  PROVE  SkillsInv'
<1> DEFINE r == matching[m]
<1>1. /\ r \in Matching /\ SoundMatching(r, stored) /\ stored \subseteq Slugs
      /\ r.drafts \subseteq Slugs /\ sync \in Synchronisation
  BY MatchingIsSound
<1>2. Free(m) \in [Slugs -> Matchings \cup {Nobody, Sync}]
  BY LocksKeepType DEF SkillsInv
<1>3. CASE CommitMatching(m)
  <2> DEFINE new == [matching[m] EXCEPT !.pc = "committed"]
  <2>1. new \in Matching
    BY <1>1 DEF Matching
  <2>2. stored' = stored \cup r.drafts /\ r.pc = "matched"
    BY <1>3 DEF CommitMatching, Visible, AtStage
  <2>3. SoundMatching(new, stored')
    BY <1>1, <2>2 DEF SoundMatching, Working, Matching
  <2> QED
    BY <1>1, <1>2, <1>3, <2>1, <2>2, <2>3, OneMatchingChanges DEF CommitMatching
<1>4. CASE AbortMatching(m)
  <2> DEFINE new == [NoMatching EXCEPT !.pc = "aborted"]
  <2>1. <<>> \in Seq(Slugs)
    OBVIOUS
  <2>2. new \in Matching
    BY <2>1 DEF Matching, NoMatching
  <2>3. SoundMatching(new, stored)
    BY FS_EmptySet, SkillsAssumption DEF SoundMatching, Working, NoMatching
  <2> QED
    BY <1>1, <1>2, <1>4, <2>2, <2>3, OneMatchingChanges DEF AbortMatching
<1> QED
  BY <1>3, <1>4

-----------------------------------------------------------------------------
(* The synchronisation, and every step *)

\* The synchronisation touches no matching and takes no skill away.
LEMMA SyncPreserves ==
  ASSUME SkillsInv,
         SyncReads \/ SyncAborts \/ SyncCommits \/ \E s \in Slugs : SyncWrites(s)
  PROVE  SkillsInv'
<1>1. /\ stored \subseteq Slugs /\ sync \in Synchronisation
      /\ holder \in [Slugs -> Matchings \cup {Nobody, Sync}]
      /\ matching \in [Matchings -> Matching]
      /\ Free(Sync) \in [Slugs -> Matchings \cup {Nobody, Sync}]
  BY LocksKeepType DEF SkillsInv, SkillsTypeOK
<1>2. ASSUME matching' = matching, stored \subseteq stored', stored' \subseteq Slugs,
             holder' \in [Slugs -> Matchings \cup {Nobody, Sync}], sync' \in Synchronisation
      PROVE  SkillsInv'
  <2>1. ASSUME NEW m \in Matchings PROVE SoundMatching(matching'[m], stored')
    BY <1>2, MoreSkillsKeepSound DEF SkillsInv
  <2> QED
    BY <1>1, <1>2, <2>1 DEF SkillsInv, SkillsTypeOK
<1>3. CASE SyncReads
  <2>1. sync' \in Synchronisation
    BY <1>1, <1>3 DEF SyncReads, Synchronisation
  <2> QED
    BY <1>1, <1>2, <1>3, <2>1 DEF SyncReads
<1>4. CASE SyncAborts
  <2>1. sync' \in Synchronisation
    BY <1>1, <1>4 DEF SyncAborts, Synchronisation
  <2> QED
    BY <1>1, <1>2, <1>4, <2>1 DEF SyncAborts
<1>5. CASE SyncCommits
  <2>1. sync' \in Synchronisation /\ sync.missing \subseteq Slugs
    BY <1>1, <1>5 DEF SyncCommits, Synchronisation
  <2> QED
    BY <1>1, <1>2, <1>5, <2>1 DEF SyncCommits
<1>6. ASSUME NEW s \in Slugs, SyncWrites(s) PROVE SkillsInv'
  <2>1. sync' \in Synchronisation
    BY <1>1, <1>6 DEF SyncWrites, Synchronisation
  <2>2. holder' \in [Slugs -> Matchings \cup {Nobody, Sync}]
    BY <1>1, <1>6, LocksKeepType DEF SyncWrites, SkillsInv
  <2> QED
    BY <1>1, <1>2, <1>6, <2>1, <2>2 DEF SyncWrites
<1> QED
  BY <1>3, <1>4, <1>5, <1>6

\* Every step keeps SkillsInv.
LEMMA SkillsStepPreserves == SkillsInv /\ [SkillsNext]_skillVars => SkillsInv'
<1> SUFFICES ASSUME SkillsInv, [SkillsNext]_skillVars PROVE SkillsInv'
  OBVIOUS
<1>1. CASE UNCHANGED skillVars
  BY <1>1 DEF skillVars, SkillsInv, SkillsTypeOK
<1>2. ASSUME NEW m \in Matchings, MatchingStep(m) PROVE SkillsInv'
  BY <1>2, ListsPreserve, ResolvePreserves, UpdatePreserves, StoreInsertPreserves,
     StoreLookAgainPreserves, EndPreserves DEF MatchingStep
<1>3. CASE SyncReads \/ SyncAborts \/ SyncCommits \/ \E s \in Slugs : SyncWrites(s)
  BY <1>3, SyncPreserves
<1> QED
  BY <1>1, <1>2, <1>3 DEF SkillsNext

-----------------------------------------------------------------------------
(* The theorem *)

\* Whatever is suggested and however matchings, synchronisations and their aborts are
\* interleaved, match_skills (services/skills/matcher.py) never surfaces another's insertion
\* as an error, and what it resolves to is stored, within the bounds.
THEOREM MatchedAreStored == SkillsSpec => []MatchedSkillsAreStored
<1>1. SkillsInv => MatchedSkillsAreStored
  BY DEF SkillsInv, SoundMatching, MatchedSkillsAreStored, AtStage
<1> QED
  BY SkillsInitEstablishes, SkillsStepPreserves, <1>1, PTL DEF SkillsSpec

=============================================================================
