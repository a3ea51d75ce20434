----------------------------- MODULE SkillStore -----------------------------
(***************************************************************************)
(* The skills table under concurrent matching and synchronisation          *)
(* (services/skills/matcher.py, services/skill_sync.py).  A matching runs  *)
(* inside the transaction of its generation task: a row it has written     *)
(* stays locked until that task commits, and another's insertion of the    *)
(* same slug shows only as a refused one.  What the registry knows, and    *)
(* which slug a fuzzy search ends at, is arbitrary.  What administrators   *)
(* do to single skills (api/endpoints/admin/skills.py), the soft deletion  *)
(* of them with it, is left out: every row is active.                      *)
(***************************************************************************)
EXTENDS Sequences, FiniteSets, Naturals

CONSTANTS
  Slugs,
  Matchings,     \* calls of match_skills, each in the transaction of a task
  Suggested,     \* the normalized lists that an LLM may suggest
  Fallbacks,     \* the fallbacks of the category, then the generic ones
  MinSkills, MaxSkills,
  NoSlug,
  Nobody, Sync

ASSUME SkillsAssumption ==
  /\ Suggested \subseteq Seq(Slugs)
  /\ Fallbacks \in Seq(Slugs)
  /\ MinSkills \in Nat /\ MaxSkills \in Nat /\ MinSkills <= MaxSkills

VARIABLES
  stored,        \* the committed skills
  holder,        \* per slug: the transaction that has written its row and not committed
  matching,      \* progress of each matching
  sync           \* progress of sync_skills_from_registry

skillVars == <<stored, holder, matching, sync>>

-----------------------------------------------------------------------------
\* found: the row was there when it was looked for; drafts: rows the transaction inserted
Matching == [pc : {"idle", "look", "write", "refused", "matched", "committed", "aborted",
                   "raised"},
             todo : Seq(Slugs), padding : BOOLEAN, slug : Slugs \cup {NoSlug},
             found : BOOLEAN, drafts : SUBSET Slugs, resolved : SUBSET Slugs]
NoMatching == [pc |-> "idle", todo |-> <<>>, padding |-> FALSE, slug |-> NoSlug,
               found |-> FALSE, drafts |-> {}, resolved |-> {}]
Synchronisation == [pc : {"idle", "writing", "done", "failed"},
                    todo : SUBSET Slugs, missing : SUBSET Slugs]

SkillsTypeOK ==
  /\ stored \subseteq Slugs
  /\ holder \in [Slugs -> Matchings \cup {Nobody, Sync}]
  /\ matching \in [Matchings -> Matching]
  /\ sync \in Synchronisation

SkillsInit ==
  /\ stored \in SUBSET Slugs
  /\ holder = [s \in Slugs |-> Nobody]
  /\ matching = [m \in Matchings |-> NoMatching]
  /\ sync = [pc |-> "idle", todo |-> {}, missing |-> {}]

AtStage(m, pc) == matching[m].pc = pc
Became(m, new) == [matching EXCEPT ![m] = new]
Visible(m) == stored \cup matching[m].drafts
Hold(who, s) == holder' = [holder EXCEPT ![s] = who]
Free(who) == [s \in Slugs |-> IF holder[s] = who THEN Nobody ELSE holder[s]]
Available(who, s) == holder[s] \in {Nobody, who}

-----------------------------------------------------------------------------
(* match_skills *)

StartMatching(m) ==
  /\ AtStage(m, "idle")
  /\ \E list \in Suggested :
       matching' = Became(m, [matching[m] EXCEPT !.pc = "look", !.todo = list])
  /\ UNCHANGED <<stored, holder, sync>>

Enough(m) ==
  Cardinality(matching[m].resolved) >=
    IF matching[m].padding THEN MinSkills ELSE MaxSkills
ListDone(m) == AtStage(m, "look") /\ (matching[m].todo = <<>> \/ Enough(m))

\* The suggestions are gone through: too few skills are padded with the fallbacks.
PadOrEnd(m) ==
  /\ ListDone(m)
  /\ matching' = Became(m,
       IF ~matching[m].padding /\ Cardinality(matching[m].resolved) < MinSkills
       THEN [matching[m] EXCEPT !.padding = TRUE, !.todo = Fallbacks]
       ELSE [matching[m] EXCEPT !.pc = "matched"])
  /\ UNCHANGED <<stored, holder, sync>>

\* _resolve of the next slug, by the table, a similar skill of it, the registry or a similar
\* skill of that: it is to be written; or it is taken as it is, its registry entry being gone;
\* or nothing is found.
Resolve(m) ==
  /\ AtStage(m, "look") /\ ~ListDone(m)
  /\ LET slug == Head(matching[m].todo)
         next == [matching[m] EXCEPT !.todo = Tail(@)]
     IN \/ /\ ~(matching[m].padding /\ slug \in matching[m].resolved)
           /\ \E t \in IF slug \in Visible(m) THEN {slug} ELSE Slugs :
                \/ matching' = Became(m,
                     [next EXCEPT !.pc = "write", !.slug = t, !.found = t \in Visible(m)])
                \/ /\ t \in Visible(m)
                   /\ matching' = Became(m, [next EXCEPT !.resolved = @ \cup {t}])
        \/ /\ slug \notin Visible(m) \/ (matching[m].padding /\ slug \in matching[m].resolved)
           /\ matching' = Became(m, next)
  /\ UNCHANGED <<stored, holder, sync>>

Written(m) ==
  [matching[m] EXCEPT !.pc = "look", !.slug = NoSlug, !.found = FALSE,
                      !.resolved = @ \cup {matching[m].slug}]

\* _refresh, or _upsert of a row that was found; it waits for the row's lock.
UpdateSkill(m) ==
  /\ AtStage(m, "write") /\ matching[m].found
  /\ Available(m, matching[m].slug)
  /\ Hold(m, matching[m].slug)
  /\ matching' = Became(m, Written(m))
  /\ UNCHANGED <<stored, sync>>

\* _upsert of a row that was not found, in a savepoint: the unique index makes it wait for a
\* transaction that has inserted the slug, and refuses it if that one has committed.
InsertSkill(m) ==
  LET slug == matching[m].slug IN
  /\ AtStage(m, "write") /\ ~matching[m].found
  /\ Available(m, slug)
  /\ IF slug \in stored
     THEN matching' = Became(m, [matching[m] EXCEPT !.pc = "refused"]) /\ UNCHANGED holder
     ELSE matching' = Became(m, [Written(m) EXCEPT !.drafts = @ \cup {slug}]) /\ Hold(m, slug)
  /\ UNCHANGED <<stored, sync>>

\* Mutant: the refusal is passed on.
LookAgainNever(m) ==
  /\ AtStage(m, "refused")
  /\ matching' = Became(m, [matching[m] EXCEPT !.pc = "raised"])
  /\ holder' = Free(m)
  /\ UNCHANGED <<stored, sync>>

\* except IntegrityError: the row is looked for again and updated, or the error is raised.
LookAgain(m) ==
  /\ AtStage(m, "refused")
  /\ IF matching[m].slug \in Visible(m)
     THEN /\ matching' = Became(m, [matching[m] EXCEPT !.pc = "write", !.found = TRUE])
          /\ UNCHANGED holder
     ELSE /\ matching' = Became(m, [matching[m] EXCEPT !.pc = "raised"])
          /\ holder' = Free(m)
  /\ UNCHANGED <<stored, sync>>

\* The task commits.
CommitMatching(m) ==
  /\ AtStage(m, "matched")
  /\ stored' = Visible(m)
  /\ holder' = Free(m)
  /\ matching' = Became(m, [matching[m] EXCEPT !.pc = "committed"])
  /\ UNCHANGED sync

\* The task fails or dies, or PostgreSQL ends a cycle of waits (matchings write the slugs in
\* the order of the suggestions): the transaction is rolled back.
AbortMatching(m) ==
  /\ \E pc \in {"look", "write", "refused", "matched"} : AtStage(m, pc)
  /\ matching' = Became(m, [NoMatching EXCEPT !.pc = "aborted"])
  /\ holder' = Free(m)
  /\ UNCHANGED <<stored, sync>>

-----------------------------------------------------------------------------
(* sync_skills_from_registry *)

\* The registry's skills are fetched and those of the table among them read.
SyncReads ==
  /\ sync.pc = "idle"
  /\ \E batch \in SUBSET Slugs \ {{}} :
       sync' = [pc |-> "writing", todo |-> batch, missing |-> batch \ stored]
  /\ UNCHANGED <<stored, holder, matching>>

\* The flush writes one row after the other; a slug inserted meanwhile refuses the insertion,
\* which nothing catches: the whole batch is rolled back.
SyncWrites(s) ==
  /\ sync.pc = "writing"
  /\ s \in sync.todo
  /\ Available(Sync, s)
  /\ IF s \in sync.missing \cap stored
     THEN sync' = [sync EXCEPT !.pc = "failed"] /\ holder' = Free(Sync)
     ELSE sync' = [sync EXCEPT !.todo = @ \ {s}] /\ Hold(Sync, s)
  /\ UNCHANGED <<stored, matching>>

SyncAborts ==
  /\ sync.pc = "writing"
  /\ sync' = [sync EXCEPT !.pc = "failed"]
  /\ holder' = Free(Sync)
  /\ UNCHANGED <<stored, matching>>

SyncCommits ==
  /\ sync.pc = "writing"
  /\ sync.todo = {}
  /\ sync' = [sync EXCEPT !.pc = "done"]
  /\ stored' = stored \cup sync.missing
  /\ holder' = Free(Sync)
  /\ UNCHANGED matching

MatchingStep(m) ==
  \/ StartMatching(m) \/ PadOrEnd(m) \/ Resolve(m) \/ UpdateSkill(m) \/ InsertSkill(m)
  \/ LookAgain(m) \/ CommitMatching(m) \/ AbortMatching(m)

SkillsNext ==
  \/ \E m \in Matchings : MatchingStep(m)
  \/ SyncReads \/ SyncAborts \/ SyncCommits
  \/ \E s \in Slugs : SyncWrites(s)

SkillsSpec == SkillsInit /\ [][SkillsNext]_skillVars

-----------------------------------------------------------------------------
(* Properties *)

\* "Resolve suggested slugs into 2-6 Skill ORM objects.  Each returned skill is stored in the
\* DB": a concurrent insertion of a slug never surfaces as an error of the matching, what it
\* resolves to is in the table once its task has committed, and it has skills within the
\* bounds, or has tried every fallback.
MatchedSkillsAreStored ==
  \A m \in Matchings :
    /\ ~AtStage(m, "raised")
    /\ AtStage(m, "committed") =>
         /\ matching[m].resolved \subseteq stored
         /\ Cardinality(matching[m].resolved) <= MaxSkills
         /\ Cardinality(matching[m].resolved) >= MinSkills \/ matching[m].todo = <<>>
=============================================================================
