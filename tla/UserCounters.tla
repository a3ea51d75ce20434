---------------------------- MODULE UserCounters ----------------------------
(***************************************************************************)
(* The columns of one user's row that several transactions compute from    *)
(* what they have read: generation_count (endpoints/personas.py, generate),*)
(* total_tokens_used (the generation and refine tasks, which keep the row  *)
(* in memory over all their LLM calls) and plan with upgraded_at           *)
(* (endpoints/admin/users.py, upgrade_user).                               *)
(***************************************************************************)
EXTENDS Naturals, FiniteSets

CONSTANTS
  Posts,         \* POST /personas/generate requests
  TaskRuns,      \* runs of a generation or refine task
  MaxCalls,      \* bound: LLM calls of one run (one token each)
  Admins,        \* POST /admin/users/upgrade requests; also what upgraded_at tells apart
  NoTime

ASSUME CountersAssumption ==
  /\ IsFiniteSet(Posts) /\ IsFiniteSet(TaskRuns)
  /\ MaxCalls \in Nat
  /\ NoTime \notin Admins

VARIABLES
  account,       \* the row
  post,          \* per request: its progress and the count it read
  taskRun,       \* per run: the total it holds in memory and its calls so far
  admin,         \* per upgrade: its progress and the row it holds in memory
  counted,       \* history: requests that are counted and not taken back
  spent,         \* history: tokens of all the calls
  raced          \* history: columns written over a value that was not the one read

counterVars == <<account, post, taskRun, admin, counted, spent, raced>>

-----------------------------------------------------------------------------
MaxTokens == Cardinality(TaskRuns) * MaxCalls
Account == [count : 0..Cardinality(Posts), tokens : 0..MaxTokens,
            plan : {"free", "paid"}, upgraded : Admins \cup {NoTime}]
Post == [pc : {"idle", "read", "counted", "ended"}, seen : 0..Cardinality(Posts)]
TaskRun == [loaded : BOOLEAN, total : 0..MaxTokens, calls : 0..MaxCalls]
Admin == [pc : {"idle", "free", "locked", "ended"}, seen : Admins \cup {NoTime}]

CountersTypeOK ==
  /\ account \in Account
  /\ post \in [Posts -> Post]
  /\ taskRun \in [TaskRuns -> TaskRun]
  /\ admin \in [Admins -> Admin]
  /\ counted \subseteq Posts
  /\ spent \in 0..MaxTokens
  /\ raced \subseteq {"count", "tokens"}

CountersInit ==
  /\ account = [count |-> 0, tokens |-> 0, plan |-> "free", upgraded |-> NoTime]
  /\ post = [p \in Posts |-> [pc |-> "idle", seen |-> 0]]
  /\ taskRun = [r \in TaskRuns |-> [loaded |-> FALSE, total |-> 0, calls |-> 0]]
  /\ admin = [a \in Admins |-> [pc |-> "idle", seen |-> NoTime]]
  /\ counted = {}
  /\ spent = 0
  /\ raced = {}

Raced(column, seen) == IF account[column] = seen THEN raced ELSE raced \cup {column}

-----------------------------------------------------------------------------
(* generate *)

\* The authentication dependency loads the row.
PostReads(p) ==
  /\ post[p].pc = "idle"
  /\ post' = [post EXCEPT ![p] = [pc |-> "read", seen |-> account.count]]
  /\ UNCHANGED <<account, taskRun, admin, counted, spent, raced>>

\* user.generation_count += 1 and the commit, with the new persona.
PostCounts(p) ==
  /\ post[p].pc = "read"
  /\ account' = [account EXCEPT !.count = post[p].seen + 1]
  /\ post' = [post EXCEPT ![p].pc = "counted"]
  /\ counted' = counted \cup {p}
  /\ raced' = Raced("count", post[p].seen)
  /\ UNCHANGED <<taskRun, admin, spent>>

PostQueues(p) ==
  /\ post[p].pc = "counted"
  /\ post' = [post EXCEPT ![p].pc = "ended"]
  /\ UNCHANGED <<account, taskRun, admin, counted, spent, raced>>

\* Mutant: what is taken back is computed from the count that was read.
LessOneAsRead(p) == post[p].seen

\* CASE WHEN generation_count > 0 THEN generation_count - 1 ELSE 0, over the row as it is.
LessOne(p) == IF account.count > 0 THEN account.count - 1 ELSE 0

\* The broker refuses the job: the count is taken back.
QueueFails(p) ==
  /\ post[p].pc = "counted"
  /\ account' = [account EXCEPT !.count = LessOne(p)]
  /\ post' = [post EXCEPT ![p].pc = "ended"]
  /\ counted' = counted \ {p}
  /\ UNCHANGED <<taskRun, admin, spent, raced>>

-----------------------------------------------------------------------------
(* The tasks: the row is loaded once and stays in memory over every commit of the run. *)

RunLoads(r) ==
  /\ ~taskRun[r].loaded
  /\ taskRun' = [taskRun EXCEPT ![r] = [@ EXCEPT !.loaded = TRUE, !.total = account.tokens]]
  /\ UNCHANGED <<account, post, admin, counted, spent, raced>>

\* Mutant: the usage of the earlier calls of the run is added again.
TotalSinceStart(r) == taskRun[r].total + taskRun[r].calls + 1

NewTotal(r) == taskRun[r].total + 1

\* An LLM call is answered and its usage committed.
RunSpends(r) ==
  /\ taskRun[r].loaded
  /\ taskRun[r].calls < MaxCalls
  /\ account' = [account EXCEPT !.tokens = NewTotal(r)]
  /\ taskRun' = [taskRun EXCEPT ![r] =
       [loaded |-> TRUE, total |-> NewTotal(r), calls |-> taskRun[r].calls + 1]]
  /\ spent' = spent + 1
  /\ raced' = Raced("tokens", taskRun[r].total)
  /\ UNCHANGED <<post, admin, counted>>

\* The run dies or fails between two calls; Celery's retry loads the row again.
RunRestarts(r) ==
  /\ taskRun[r].loaded
  /\ taskRun[r].calls < MaxCalls
  /\ taskRun' = [taskRun EXCEPT ![r] = [@ EXCEPT !.loaded = FALSE, !.total = 0]]
  /\ UNCHANGED <<account, post, admin, counted, spent, raced>>

-----------------------------------------------------------------------------
(* upgrade_user *)

\* The cheap fetch: a paid user is answered at once.
UpgradeLooks(a) ==
  /\ admin[a].pc = "idle"
  /\ admin' = [admin EXCEPT ![a] =
       [pc |-> IF account.plan = "paid" THEN "ended" ELSE "free", seen |-> account.upgraded]]
  /\ UNCHANGED <<account, post, taskRun, counted, spent, raced>>

\* SELECT ... FOR UPDATE: it locks the row but returns the object of the session as the first
\* fetch has filled it.
UpgradeLocks(a) ==
  /\ admin[a].pc = "free"
  /\ \A b \in Admins : admin[b].pc # "locked"
  /\ admin' = [admin EXCEPT ![a].pc = "locked"]
  /\ UNCHANGED <<account, post, taskRun, counted, spent, raced>>

UpgradeCommits(a) ==
  /\ admin[a].pc = "locked"
  /\ account' = [account EXCEPT
       !.plan = "paid",
       !.upgraded = IF admin[a].seen = NoTime THEN a ELSE @]
  /\ admin' = [admin EXCEPT ![a].pc = "ended"]
  /\ UNCHANGED <<post, taskRun, counted, spent, raced>>

PostStep(p) == PostReads(p) \/ PostCounts(p) \/ PostQueues(p) \/ QueueFails(p)
RunStep(r) == RunLoads(r) \/ RunSpends(r) \/ RunRestarts(r)
AdminStep(a) == UpgradeLooks(a) \/ UpgradeLocks(a) \/ UpgradeCommits(a)

CountersNext ==
  \/ \E p \in Posts : PostStep(p)
  \/ \E r \in TaskRuns : RunStep(r)
  \/ \E a \in Admins : AdminStep(a)

CountersSpec == CountersInit /\ [][CountersNext]_counterVars

-----------------------------------------------------------------------------
(* Properties *)

\* generation_count is the number of requests that were queued, as long as no two requests
\* have overlapped, whatever is taken back in between (personas.py:120-145).
CountIsExact == "count" \notin raced => account.count = Cardinality(counted)

\* total_tokens_used never exceeds what the LLM was paid for, through retries and overlapping
\* tasks of the user, and equals it unless a task wrote over another's total.
TokensAreSpent ==
  /\ account.tokens <= spent
  /\ "tokens" \notin raced => account.tokens = spent

\* "preserving the transition timestamp", "Re-fetch under a row lock and re-check inside the
\* lock: serialises concurrent transitions" (admin/users.py:26, 35).
UpgradeKept ==
  [][account.upgraded # NoTime => account'.upgraded = account.upgraded]_counterVars
=============================================================================
