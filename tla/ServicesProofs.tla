--------------------------- MODULE ServicesProofs ---------------------------
(***************************************************************************)
(* Theorems about the smaller services, each about the specification of    *)
(* its own module and for every value of its constants: Payments,          *)
(* UserCounters, GeminiKeys and Pagination.  The last section is about     *)
(* MCServices, in which these four, Sessions, Identities and SkillStore    *)
(* take turns: it implements each one's specification.                     *)
(***************************************************************************)
EXTENDS MCServices, IdentitiesProofs, SessionsProofs, SkillStoreProofs,
        FiniteSetTheorems, WellFoundedInduction, TLAPS

-----------------------------------------------------------------------------
(***************************************************************************)
(* PaymentSettled for any number of checkouts and of overlapping webhooks. *)
(* It is not inductive: a handler that will find nothing to write relies   *)
(* on the status it read having stayed, which PaymentInv adds.             *)
(***************************************************************************)

\* A row exists once its checkout has been committed, and its intent is known only after
\* Stripe completed the session.
RowsAreCommitted ==
  \A c \in Checkouts :
    /\ checkout[c] # "committed" => transaction[c] = NoTransaction
    /\ transaction[c].intent => stripe[c].completed # "no"

\* What a handler under way has found still holds, up to a late refusal.
HooksAreFounded ==
  \A h \in Hooks : hook[h] # NoHook =>
    LET c == hook[h].of IN
    /\ checkout[c] = "committed"
    /\ hook[h].event = "completed" => stripe[c].completed # "no"
    /\ hook[h].event = "refused" => late[c] /\ transaction[c].intent
    /\ hook[h].seen = "succeeded" =>
         stripe[c].completed = "paid" /\ (late[c] \/ transaction[c].status = "succeeded")

PaymentInv == PaymentsTypeOK /\ RowsAreCommitted /\ HooksAreFounded /\ PaymentSettled

\* Every step keeps the types.
LEMMA TypeStep ==
  ASSUME PaymentsTypeOK, [PaymentsNext]_paymentVars
  PROVE  PaymentsTypeOK'
<1> USE DEF PaymentsTypeOK
<1>1. ASSUME NEW c \in Checkouts, CheckoutLooks(c) PROVE PaymentsTypeOK'
  BY <1>1 DEF CheckoutLooks
<1>2. ASSUME NEW c \in Checkouts, CheckoutCreates(c) PROVE PaymentsTypeOK'
  BY <1>2 DEF CheckoutCreates
<1>3. ASSUME NEW c \in Checkouts, CheckoutCommits(c) PROVE PaymentsTypeOK'
  BY <1>3 DEF CheckoutCommits, Transaction, Statuses
<1>4. ASSUME NEW c \in Checkouts, CheckoutFails(c) PROVE PaymentsTypeOK'
  BY <1>4 DEF CheckoutFails
<1>5. ASSUME NEW c \in Checkouts, CardRefused(c) PROVE PaymentsTypeOK'
  BY <1>5 DEF CardRefused, StripeSession
<1>6. ASSUME NEW c \in Checkouts, SessionCompleted(c) PROVE PaymentsTypeOK'
  BY <1>6 DEF SessionCompleted, StripeSession
<1>7. ASSUME NEW h \in Hooks, NEW c \in Checkouts, CompletedArrives(h, c)
      PROVE  PaymentsTypeOK'
  BY <1>7 DEF CompletedArrives, Hook, Transaction
<1>8. ASSUME NEW h \in Hooks, NEW c \in Checkouts, RefusalArrives(h, c)
      PROVE  PaymentsTypeOK'
  BY <1>8 DEF RefusalArrives, Hook, Transaction
<1>9. ASSUME NEW h \in Hooks, HookCommits(h) PROVE PaymentsTypeOK'
  BY <1>9 DEF HookCommits, Outcome, Transaction, Statuses, Hook, NoHook
<1>10. CASE UNCHANGED paymentVars
  BY <1>10 DEF paymentVars
<1> QED
  BY <1>1, <1>2, <1>3, <1>4, <1>5, <1>6, <1>7, <1>8, <1>9, <1>10
  DEF PaymentsNext, CheckoutStep, HookStep

\* The steps of a checkout and of its customer keep what the webhooks rely on.
LEMMA CheckoutKeeps ==
  ASSUME PaymentInv, NEW c \in Checkouts, CheckoutStep(c)
  PROVE  RowsAreCommitted' /\ HooksAreFounded' /\ PaymentSettled'
<1> USE DEF PaymentInv, PaymentsTypeOK, RowsAreCommitted, HooksAreFounded, PaymentSettled,
            StripeSession, Transaction, Hook, NoTransaction
<1>1. CASE CheckoutLooks(c)
  BY <1>1 DEF CheckoutLooks
<1>2. CASE CheckoutCreates(c)
  BY <1>2 DEF CheckoutCreates
<1>3. CASE CheckoutCommits(c)
  BY <1>3 DEF CheckoutCommits
<1>4. CASE CheckoutFails(c)
  BY <1>4 DEF CheckoutFails
<1>5. CASE CardRefused(c)
  BY <1>5 DEF CardRefused
<1>6. CASE SessionCompleted(c)
  BY <1>6 DEF SessionCompleted
<1> QED
  BY <1>1, <1>2, <1>3, <1>4, <1>5, <1>6 DEF CheckoutStep

\* A webhook finds its row.
LEMMA ArrivalKeeps ==
  ASSUME PaymentInv, NEW h \in Hooks, NEW c \in Checkouts,
         CompletedArrives(h, c) \/ RefusalArrives(h, c)
  PROVE  RowsAreCommitted' /\ HooksAreFounded' /\ PaymentSettled'
<1> USE DEF PaymentInv, PaymentsTypeOK, RowsAreCommitted, HooksAreFounded, PaymentSettled,
            StripeSession, Transaction, Hook, NoTransaction, NoHook
<1>1. CASE CompletedArrives(h, c)
  BY <1>1 DEF CompletedArrives
<1>2. CASE RefusalArrives(h, c)
  BY <1>2 DEF RefusalArrives
<1> QED
  BY <1>1, <1>2

\* A webhook writes what it has decided, over what the others wrote meanwhile.
LEMMA CommitKeeps ==
  ASSUME PaymentInv, NEW h \in Hooks, HookCommits(h)
  PROVE  RowsAreCommitted' /\ HooksAreFounded' /\ PaymentSettled'
<1> USE DEF PaymentInv, PaymentsTypeOK
<1> DEFINE c == hook[h].of
           status == IF Outcome(h) = hook[h].seen THEN transaction[c].status ELSE Outcome(h)
<1>1. /\ hook[h] \in Hook \ {NoHook}
      /\ c \in Checkouts
      /\ hook[h].event \in {"completed", "refused"}
      /\ hook[h].seen \in Statuses
  BY DEF HookCommits, Hook
<1>2. /\ transaction' = [transaction EXCEPT ![c] = [status |-> status, intent |-> TRUE]]
      /\ hook' = [hook EXCEPT ![h] = NoHook]
      /\ UNCHANGED <<checkout, stripe, late>>
  BY DEF HookCommits
<1>3. /\ checkout[c] = "committed"
      /\ stripe[c].completed # "no"
  BY <1>1 DEF HooksAreFounded, RowsAreCommitted
\* Neither of the two cases takes a payment away: a paid session is succeeded or late.
<1>4. status = "succeeded" => stripe[c].completed = "paid"
  BY <1>1 DEF Outcome, PaymentSettled
<1>5. stripe[c].completed = "paid" /\ ~late[c] => status = "succeeded"
  BY <1>1 DEF Outcome, HooksAreFounded
<1>6. RowsAreCommitted'
  BY <1>1, <1>2, <1>3 DEF RowsAreCommitted, Transaction
<1>7. PaymentSettled'
  BY <1>1, <1>2, <1>4, <1>5 DEF PaymentSettled, Transaction
<1>8. HooksAreFounded'
  <2> SUFFICES ASSUME NEW g \in Hooks, hook'[g] # NoHook
               PROVE  /\ checkout'[hook'[g].of] = "committed"
                      /\ hook'[g].event = "completed" => stripe'[hook'[g].of].completed # "no"
                      /\ hook'[g].event = "refused" =>
                           late'[hook'[g].of] /\ transaction'[hook'[g].of].intent
                      /\ hook'[g].seen = "succeeded" =>
                           /\ stripe'[hook'[g].of].completed = "paid"
                           /\ \/ late'[hook'[g].of]
                              \/ transaction'[hook'[g].of].status = "succeeded"
    BY DEF HooksAreFounded
  <2>1. g # h /\ hook'[g] = hook[g] /\ hook[g] # NoHook /\ hook[g].of \in Checkouts
    BY <1>2 DEF Hook
  <2>2. CASE hook[g].of = c
    BY <2>1, <2>2, <1>1, <1>2, <1>5 DEF HooksAreFounded, Transaction
  <2>3. CASE hook[g].of # c
    BY <2>1, <2>3, <1>1, <1>2 DEF HooksAreFounded, Transaction
  <2> QED
    BY <2>2, <2>3
<1> QED
  BY <1>6, <1>7, <1>8

\* The inductive invariant holds in every reachable state.
LEMMA PaymentInvariant == PaymentsSpec => []PaymentInv
<1>1. PaymentsInit => PaymentInv
  BY DEF PaymentsInit, PaymentInv, PaymentsTypeOK, RowsAreCommitted, HooksAreFounded,
         PaymentSettled, StripeSession, Untouched, Transaction, NoTransaction, Statuses, Hook
<1>2. PaymentInv /\ [PaymentsNext]_paymentVars => PaymentInv'
  <2> SUFFICES ASSUME PaymentInv, [PaymentsNext]_paymentVars PROVE PaymentInv'
    OBVIOUS
  <2>1. PaymentsTypeOK'
    BY TypeStep DEF PaymentInv
  <2>2. CASE \E c \in Checkouts : CheckoutStep(c)
    BY <2>1, <2>2, CheckoutKeeps DEF PaymentInv
  <2>3. CASE \E h \in Hooks : HookStep(h)
    BY <2>1, <2>3, ArrivalKeeps, CommitKeeps DEF PaymentInv, HookStep
  <2>4. CASE UNCHANGED paymentVars
    BY <2>4 DEF paymentVars, PaymentInv, PaymentsTypeOK, RowsAreCommitted, HooksAreFounded,
                PaymentSettled
  <2> QED
    BY <2>2, <2>3, <2>4 DEF PaymentsNext
<1> QED
  BY <1>1, <1>2, PTL DEF PaymentsSpec

\* payment.py: whatever the number of checkouts, of webhooks and of their repetitions, only a
\* paid session unlocks private publishing, and a reported payment stays recorded unless a
\* refused card is reported after it.
THEOREM PaymentsSettle == PaymentsSpec => []PaymentSettled
<1>1. PaymentInv => PaymentSettled
  BY DEF PaymentInv
<1> QED
  BY <1>1, PaymentInvariant, PTL

-----------------------------------------------------------------------------
(***************************************************************************)
(* CountIsExact and TokensAreSpent for any number of requests, task runs   *)
(* and upgrades.  The invariant adds which requests are counted, and that  *)
(* no run remembers more than was spent.                                   *)
(***************************************************************************)

\* The types the arithmetic needs.
Numbers ==
  /\ account \in [count : Nat, tokens : Nat, plan : {"free", "paid"},
                  upgraded : Admins \cup {NoTime}]
  /\ post \in [Posts -> [pc : {"idle", "read", "counted", "ended"}, seen : Nat]]
  /\ taskRun \in [TaskRuns -> [loaded : BOOLEAN, total : Nat, calls : Nat]]
  /\ spent \in Nat
  /\ counted \subseteq Posts

\* A request is counted from its commit on, until the queue's failure takes it back.
CountedAreCommitted ==
  \A p \in Posts :
    /\ post[p].pc \in {"idle", "read"} => p \notin counted
    /\ post[p].pc = "counted" => p \in counted

\* What a run holds in memory was spent once.
MemoryIsSpent == \A r \in TaskRuns : taskRun[r].total <= spent

CountersInv == Numbers /\ CountedAreCommitted /\ MemoryIsSpent /\ CountIsExact /\ TokensAreSpent

\* A subset of the requests has a cardinality, which grows and shrinks by one.
LEMMA OneMore ==
  ASSUME NEW S \in SUBSET Posts
  PROVE  /\ Cardinality(S) \in Nat
         /\ \A p \in Posts \ S : Cardinality(S \cup {p}) = Cardinality(S) + 1
         /\ \A p \in S : Cardinality(S) > 0 /\ Cardinality(S \ {p}) = Cardinality(S) - 1
<1>1. IsFiniteSet(S)
  BY CountersAssumption, FS_Subset
<1>2. Cardinality(S) \in Nat
  BY <1>1, FS_CardinalityType
<1>3. \A p \in Posts \ S : Cardinality(S \cup {p}) = Cardinality(S) + 1
  BY <1>1, FS_AddElement
<1>4. ASSUME NEW p \in S PROVE Cardinality(S) > 0 /\ Cardinality(S \ {p}) = Cardinality(S) - 1
  <2>1. Cardinality(S \ {p}) = Cardinality(S) - 1
    BY <1>1, FS_RemoveElement
  <2>2. Cardinality(S) # 0
    BY <1>1, FS_EmptySet
  <2> QED
    BY <2>1, <2>2, <1>2
<1> QED
  BY <1>2, <1>3, <1>4

\* A request's steps.
LEMMA PostKeeps ==
  ASSUME CountersInv, NEW p \in Posts, PostStep(p)
  PROVE  CountersInv'
<1> USE DEF CountersInv, Numbers, CountedAreCommitted, MemoryIsSpent, CountIsExact, TokensAreSpent
<1>1. CASE PostReads(p)
  BY <1>1 DEF PostReads
<1>2. CASE PostCounts(p)
  <2>1. /\ account' = [account EXCEPT !.count = post[p].seen + 1]
        /\ post' = [post EXCEPT ![p].pc = "counted"]
        /\ counted' = counted \cup {p}
        /\ UNCHANGED <<taskRun, spent>>
        /\ p \notin counted
        /\ post[p].seen \in Nat
    BY <1>2 DEF PostCounts
  <2>2. "count" \notin raced' => account.count = post[p].seen /\ "count" \notin raced
    BY <1>2 DEF PostCounts, Raced
  <2>3. "tokens" \in raced' <=> "tokens" \in raced
    BY <1>2 DEF PostCounts, Raced
  <2>4. Cardinality(counted \cup {p}) = Cardinality(counted) + 1
    BY <2>1, OneMore
  <2>5. CountIsExact'
    BY <2>1, <2>2, <2>4
  <2> QED
    BY <2>1, <2>3, <2>5
<1>3. CASE PostQueues(p)
  BY <1>3 DEF PostQueues
<1>4. CASE QueueFails(p)
  <2>1. /\ account' = [account EXCEPT !.count = LessOne(p)]
        /\ post' = [post EXCEPT ![p].pc = "ended"]
        /\ counted' = counted \ {p}
        /\ UNCHANGED <<taskRun, spent, raced>>
        /\ p \in counted
    BY <1>4 DEF QueueFails
  <2>2. Cardinality(counted) \in Nat /\ Cardinality(counted) > 0
        /\ Cardinality(counted \ {p}) = Cardinality(counted) - 1
    BY <2>1, OneMore
  <2>3. LessOne(p) \in Nat
        /\ (account.count = Cardinality(counted) => LessOne(p) = Cardinality(counted) - 1)
    BY <2>2 DEF LessOne
  <2>4. CountIsExact'
    BY <2>1, <2>2, <2>3
  <2> QED
    BY <2>1, <2>3, <2>4
<1> QED
  BY <1>1, <1>2, <1>3, <1>4 DEF PostStep

\* A task run's steps.
LEMMA RunKeeps ==
  ASSUME CountersInv, NEW r \in TaskRuns, RunStep(r)
  PROVE  CountersInv'
<1> USE DEF CountersInv, Numbers, CountedAreCommitted, MemoryIsSpent, CountIsExact, TokensAreSpent
<1>1. CASE RunLoads(r)
  <2>1. taskRun' = [taskRun EXCEPT ![r] =
                      [@ EXCEPT !.loaded = TRUE, !.total = account.tokens]]
        /\ UNCHANGED <<account, post, counted, spent, raced>>
    BY <1>1 DEF RunLoads
  <2> QED
    BY <2>1
<1>2. CASE RunSpends(r)
  <2>1. /\ account' = [account EXCEPT !.tokens = taskRun[r].total + 1]
        /\ taskRun' = [taskRun EXCEPT ![r] =
             [loaded |-> TRUE, total |-> taskRun[r].total + 1, calls |-> taskRun[r].calls + 1]]
        /\ spent' = spent + 1
        /\ UNCHANGED <<post, counted>>
        /\ taskRun[r].total \in Nat /\ taskRun[r].calls \in Nat
    BY <1>2 DEF RunSpends, NewTotal
  <2>2. "tokens" \notin raced' => account.tokens = taskRun[r].total /\ "tokens" \notin raced
    BY <1>2 DEF RunSpends, Raced
  <2>3. "count" \in raced' <=> "count" \in raced
    BY <1>2 DEF RunSpends, Raced
  <2>4. taskRun[r].total <= spent
    OBVIOUS
  <2>5. TokensAreSpent'
    BY <2>1, <2>2, <2>4
  <2>6. MemoryIsSpent'
    BY <2>1, <2>4
  <2>7. CountIsExact'
    BY <2>1, <2>3
  <2>8. Numbers' /\ CountedAreCommitted'
    BY <2>1
  <2> QED
    BY <2>5, <2>6, <2>7, <2>8
<1>3. CASE RunRestarts(r)
  <2>1. taskRun' = [taskRun EXCEPT ![r] =
                      [@ EXCEPT !.loaded = FALSE, !.total = 0]]
        /\ UNCHANGED <<account, post, counted, spent, raced>>
    BY <1>3 DEF RunRestarts
  <2>2. taskRun' \in [TaskRuns -> [loaded : BOOLEAN, total : Nat, calls : Nat]]
    BY <2>1
  <2>3. \A s \in TaskRuns : taskRun'[s].total <= spent
    BY <2>1
  <2> QED
    BY <2>1, <2>2, <2>3
<1> QED
  BY <1>1, <1>2, <1>3 DEF RunStep

\* An upgrade's steps, which leave the counters alone.
LEMMA AdminKeeps ==
  ASSUME CountersInv, NEW a \in Admins, AdminStep(a)
  PROVE  CountersInv'
<1>1. /\ UNCHANGED <<post, taskRun, counted, spent, raced>>
      /\ account'.count = account.count /\ account'.tokens = account.tokens
      /\ account' \in [count : Nat, tokens : Nat, plan : {"free", "paid"},
                       upgraded : Admins \cup {NoTime}]
  BY DEF AdminStep, UpgradeLooks, UpgradeLocks, UpgradeCommits, CountersInv, Numbers
<1> QED
  BY <1>1 DEF CountersInv, Numbers, CountedAreCommitted, MemoryIsSpent, CountIsExact,
              TokensAreSpent

\* The inductive invariants hold at the start and are kept by every step.
LEMMA CountersInvariant == CountersSpec => []CountersInv
<1>1. CountersInit => CountersInv
  BY FS_EmptySet DEF CountersInit, CountersInv, Numbers, CountedAreCommitted, MemoryIsSpent,
         CountIsExact, TokensAreSpent
<1>2. CountersInv /\ [CountersNext]_counterVars => CountersInv'
  <2> SUFFICES ASSUME CountersInv, [CountersNext]_counterVars PROVE CountersInv'
    OBVIOUS
  <2>1. CASE UNCHANGED counterVars
    BY <2>1 DEF counterVars, CountersInv, Numbers, CountedAreCommitted, MemoryIsSpent,
                CountIsExact, TokensAreSpent
  <2> QED
    BY <2>1, PostKeeps, RunKeeps, AdminKeeps DEF CountersNext
<1> QED
  BY <1>1, <1>2, PTL DEF CountersSpec

\* personas.py:120-145: generation_count is exact for any number of requests that do not
\* overlap, through failures of the queue.
THEOREM CountStaysExact == CountersSpec => []CountIsExact
<1>1. CountersInv => CountIsExact
  BY DEF CountersInv
<1> QED
  BY <1>1, CountersInvariant, PTL

\* generation.py:264, refine.py:236: overlapping and retried tasks never count more tokens
\* than were spent, and count them all unless one writes over another's total.
THEOREM TokensStayBounded == CountersSpec => []TokensAreSpent
<1>1. CountersInv => TokensAreSpent
  BY DEF CountersInv
<1> QED
  BY <1>1, CountersInvariant, PTL

-----------------------------------------------------------------------------
(***************************************************************************)
(* The types of UserCounters with their bounds.  The count is no more than *)
(* the requests that got as far as their commit; the tokens are no more    *)
(* than the calls, which are counted as pairs of a run and a number.       *)
(***************************************************************************)

Committed == {p \in Posts : post[p].pc \in {"counted", "ended"}}
Called == {call \in TaskRuns \X (1..MaxCalls) : call[2] <= taskRun[call[1]].calls}

CountWithin(n) == account.count <= n /\ \A p \in Posts : post[p].seen <= n

CallsAreSpent ==
  /\ spent = Cardinality(Called)
  /\ \A r \in TaskRuns : taskRun[r].calls <= MaxCalls

AdminsTyped == admin \in [Admins -> Admin] /\ raced \subseteq {"count", "tokens"}

CountersBound == CountWithin(Cardinality(Committed)) /\ CallsAreSpent /\ AdminsTyped

\* The committed requests are at most all of them, the calls at most MaxCalls of each run.
LEMMA CountersFinite ==
  /\ IsFiniteSet(Committed) /\ Cardinality(Committed) \in Nat
  /\ Cardinality(Posts) \in Nat /\ Cardinality(Committed) <= Cardinality(Posts)
  /\ IsFiniteSet(Called) /\ Cardinality(Called) \in Nat
  /\ MaxTokens \in Nat /\ Cardinality(Called) <= MaxTokens
<1>1. Committed \subseteq Posts /\ Called \subseteq TaskRuns \X (1..MaxCalls)
  BY DEF Committed, Called
<1>2. /\ IsFiniteSet(Committed) /\ Cardinality(Committed) \in Nat
      /\ Cardinality(Posts) \in Nat /\ Cardinality(Committed) <= Cardinality(Posts)
  BY <1>1, CountersAssumption, FS_Subset, FS_CardinalityType
<1>3. IsFiniteSet(1..MaxCalls) /\ Cardinality(1..MaxCalls) = MaxCalls
  BY CountersAssumption, FS_Interval
<1>4. /\ IsFiniteSet(TaskRuns \X (1..MaxCalls))
      /\ Cardinality(TaskRuns \X (1..MaxCalls)) = MaxTokens
  BY <1>3, CountersAssumption, FS_Product DEF MaxTokens
<1>5. MaxTokens \in Nat
  BY <1>4, FS_CardinalityType
<1>6. /\ IsFiniteSet(Called) /\ Cardinality(Called) \in Nat
      /\ Cardinality(Called) <= Cardinality(TaskRuns \X (1..MaxCalls))
  BY <1>1, <1>4, FS_Subset, FS_CardinalityType
<1> QED
  BY <1>2, <1>4, <1>5, <1>6

\* A request that commits is one more; its count was at most those before it.
LEMMA PostWithin ==
  ASSUME Numbers, CountersBound, NEW p \in Posts, PostStep(p)
  PROVE  CountersBound'
<1> DEFINE n == Cardinality(Committed)
<1>0. n \in Nat
  BY CountersFinite
<1>1. /\ account.count \in Nat /\ account.count <= n
      /\ \A o \in Posts : post[o].seen \in Nat /\ post[o].seen <= n
  BY DEF Numbers, CountersBound, CountWithin
<1>2. CallsAreSpent'
  BY DEF PostStep, PostReads, PostCounts, PostQueues, QueueFails, CountersBound,
         CallsAreSpent, Called
<1>3. AdminsTyped'
  BY DEF PostStep, PostReads, PostCounts, PostQueues, QueueFails, CountersBound,
         AdminsTyped, Raced
<1>4. CASE PostReads(p)
  <2>1. /\ account' = account /\ post[p].pc = "idle"
        /\ post'[p].pc = "read" /\ post'[p].seen = account.count
        /\ \A o \in Posts \ {p} : post'[o] = post[o]
    BY <1>4 DEF PostReads, Numbers
  <2>2. Committed' = Committed
    BY <2>1 DEF Committed
  <2> QED
    BY <1>1, <1>2, <1>3, <2>1, <2>2 DEF CountersBound, CountWithin
<1>5. CASE PostCounts(p)
  <2>1. /\ account'.count = post[p].seen + 1 /\ post[p].pc = "read"
        /\ post'[p].pc = "counted" /\ post'[p].seen = post[p].seen
        /\ \A o \in Posts \ {p} : post'[o] = post[o]
    BY <1>5 DEF PostCounts, Numbers
  <2>2. Committed' = Committed \cup {p} /\ p \notin Committed
    BY <2>1 DEF Committed
  <2>3. Cardinality(Committed') = n + 1
    BY <2>2, CountersFinite, FS_AddElement
  <2> HIDE DEF n
  <2>4. account'.count <= n + 1 /\ \A o \in Posts : post'[o].seen <= n + 1
    BY <1>0, <1>1, <2>1
  <2> QED
    BY <1>2, <1>3, <2>3, <2>4 DEF CountersBound, CountWithin
<1>6. CASE PostQueues(p) \/ QueueFails(p)
  <2>1. /\ post[p].pc = "counted"
        /\ post'[p].pc = "ended" /\ post'[p].seen = post[p].seen
        /\ \A o \in Posts \ {p} : post'[o] = post[o]
    BY <1>6 DEF PostQueues, QueueFails, Numbers
  <2>2. Committed' = Committed
    BY <2>1 DEF Committed
  <2>3. account'.count <= n
    <3>1. CASE PostQueues(p)
      BY <1>1, <3>1 DEF PostQueues
    <3>2. CASE QueueFails(p)
      <4>1. account'.count = LessOne(p)
        BY <3>2 DEF QueueFails, Numbers
      <4> QED
        BY <1>0, <1>1, <4>1 DEF LessOne
    <3> QED
      BY <1>6, <3>1, <3>2
  <2> QED
    BY <1>1, <1>2, <1>3, <2>1, <2>2, <2>3 DEF CountersBound, CountWithin
<1> QED
  BY <1>4, <1>5, <1>6 DEF PostStep

\* A run's call is a new pair; its loading and its restart forget no call.
LEMMA RunWithin ==
  ASSUME Numbers, CountersBound, NEW r \in TaskRuns, RunStep(r)
  PROVE  CountersBound'
<1>1. /\ account'.count = account.count /\ UNCHANGED <<post, admin>>
      /\ raced' \subseteq raced \cup {"tokens"}
  BY DEF RunStep, RunLoads, RunSpends, RunRestarts, Raced, Numbers
<1>2. CountWithin(Cardinality(Committed))' /\ AdminsTyped'
  BY <1>1 DEF CountersBound, CountWithin, Committed, AdminsTyped
<1>3. CASE RunLoads(r) \/ RunRestarts(r)
  <2>1. spent' = spent /\ \A s \in TaskRuns : taskRun'[s].calls = taskRun[s].calls
    <3>1. CASE RunLoads(r)
      BY <3>1 DEF RunLoads, Numbers
    <3>2. CASE RunRestarts(r)
      BY <3>2 DEF RunRestarts, Numbers
    <3> QED
      BY <1>3, <3>1, <3>2
  <2>2. Called' = Called
    BY <2>1 DEF Called
  <2> QED
    BY <1>2, <2>1, <2>2 DEF CountersBound, CallsAreSpent
<1>4. CASE RunSpends(r)
  <2>1. /\ spent' = spent + 1
        /\ taskRun[r].calls \in Nat /\ taskRun[r].calls < MaxCalls
        /\ taskRun'[r].calls = taskRun[r].calls + 1
        /\ \A s \in TaskRuns \ {r} : taskRun'[s] = taskRun[s]
        /\ \A s \in TaskRuns : taskRun[s].calls \in Nat /\ taskRun[s].calls <= MaxCalls
    BY <1>4 DEF RunSpends, Numbers, CountersBound, CallsAreSpent
  <2> DEFINE new == <<r, taskRun[r].calls + 1>>
  <2>2. new \in TaskRuns \X (1..MaxCalls) /\ new \notin Called
    BY <2>1, CountersAssumption DEF Called
  <2>3. \A call \in TaskRuns \X (1..MaxCalls) :
          call[2] <= taskRun'[call[1]].calls <=> call[2] <= taskRun[call[1]].calls \/ call = new
    <3>1. SUFFICES ASSUME NEW s \in TaskRuns, NEW i \in 1..MaxCalls
                   PROVE  i <= taskRun'[s].calls <=> i <= taskRun[s].calls \/ <<s, i>> = new
      OBVIOUS
    <3> QED
      BY <2>1, CountersAssumption
  <2>4. Called' = Called \cup {new}
    BY <2>2, <2>3 DEF Called
  <2>5. Cardinality(Called') = Cardinality(Called) + 1
    BY <2>2, <2>4, CountersFinite, FS_AddElement
  <2>6. \A s \in TaskRuns : taskRun'[s].calls <= MaxCalls
    BY <2>1, CountersAssumption
  <2> QED
    BY <1>2, <2>1, <2>5, <2>6 DEF CountersBound, CallsAreSpent
<1> QED
  BY <1>3, <1>4 DEF RunStep

\* An upgrade leaves the counters alone.
LEMMA AdminWithin ==
  ASSUME Numbers, CountersBound, NEW a \in Admins, AdminStep(a)
  PROVE  CountersBound'
<1>1. UNCHANGED <<post, taskRun, spent, raced>> /\ account'.count = account.count
  BY DEF AdminStep, UpgradeLooks, UpgradeLocks, UpgradeCommits, Numbers
<1>2. CountWithin(Cardinality(Committed))' /\ CallsAreSpent'
  BY <1>1 DEF CountersBound, CountWithin, Committed, CallsAreSpent, Called
<1>3. account.upgraded \in Admins \cup {NoTime} /\ admin \in [Admins -> Admin]
  BY DEF Numbers, CountersBound, AdminsTyped
<1>4. admin' \in [Admins -> Admin]
  BY <1>3 DEF AdminStep, UpgradeLooks, UpgradeLocks, UpgradeCommits, Admin
<1> QED
  BY <1>1, <1>2, <1>4 DEF CountersBound, AdminsTyped

\* models/user.py: the counters hold what they are declared to hold, generation_count no more
\* than the requests that were committed and total_tokens_used no more than the calls, for any
\* number of requests, runs and upgrades and however they write over each other.
THEOREM CountersTypeCorrect == CountersSpec => []CountersTypeOK
<1>1. CountersInit => CountersBound
  <2> SUFFICES ASSUME CountersInit PROVE CountersBound
    OBVIOUS
  <2>1. Committed = {} /\ Called = {}
    BY CountersAssumption DEF CountersInit, Committed, Called
  <2>2. Cardinality(Committed) = 0 /\ Cardinality(Called) = 0
    BY <2>1, FS_EmptySet
  <2> QED
    BY <2>2, CountersAssumption
    DEF CountersInit, CountersBound, CountWithin, CallsAreSpent, AdminsTyped, Admin
<1>2. CountersInv /\ CountersBound /\ [CountersNext]_counterVars => CountersBound'
  <2> SUFFICES ASSUME CountersInv, CountersBound, [CountersNext]_counterVars
               PROVE  CountersBound'
    OBVIOUS
  <2>1. Numbers
    BY DEF CountersInv
  <2>2. CASE UNCHANGED counterVars
    BY <2>2 DEF counterVars, CountersBound, CountWithin, Committed, CallsAreSpent, Called,
                AdminsTyped
  <2> QED
    BY <2>1, <2>2, PostWithin, RunWithin, AdminWithin DEF CountersNext
<1>3. CountersInv /\ CountersBound => CountersTypeOK
  <2> SUFFICES ASSUME CountersInv, CountersBound PROVE CountersTypeOK
    OBVIOUS
  <2>1. spent \in 0..MaxTokens
    BY CountersFinite DEF CountersInv, Numbers, CountersBound, CallsAreSpent
  <2>2. account \in Account
    <3>1. account.count \in 0..Cardinality(Posts)
      BY CountersFinite DEF CountersInv, Numbers, CountersBound, CountWithin
    <3>2. account.tokens \in 0..MaxTokens
      BY CountersFinite, <2>1 DEF CountersInv, Numbers, TokensAreSpent
    <3> QED
      BY <3>1, <3>2 DEF CountersInv, Numbers, Account
  <2>3. post \in [Posts -> Post]
    <3>1. \A p \in Posts : post[p].seen \in 0..Cardinality(Posts)
      BY CountersFinite DEF CountersInv, Numbers, CountersBound, CountWithin
    <3> QED
      BY <3>1 DEF CountersInv, Numbers, Post
  <2>4. taskRun \in [TaskRuns -> TaskRun]
    <3>1. \A r \in TaskRuns : /\ taskRun[r].total \in 0..MaxTokens
                              /\ taskRun[r].calls \in 0..MaxCalls
      BY CountersFinite, CountersAssumption, <2>1
      DEF CountersInv, Numbers, MemoryIsSpent, CountersBound, CallsAreSpent
    <3> QED
      BY <3>1 DEF CountersInv, Numbers, TaskRun
  <2> QED
    BY <2>1, <2>2, <2>3, <2>4 DEF CountersInv, Numbers, CountersBound, AdminsTyped, CountersTypeOK
<1> QED
  BY <1>1, <1>2, <1>3, CountersInvariant, PTL DEF CountersSpec

-----------------------------------------------------------------------------
(***************************************************************************)
(* OnlyRefusedKeysMarked for any number of keys and of adapters.           *)
(* It is not inductive: an adapter that waits for the manager's lock will  *)
(* blame the key it noted when it began, which KeysInv ties to the answer  *)
(* it was given.                                                           *)
(***************************************************************************)

\* Whoever waits for the lock blames a key that was refused or misjudged.
BlameIsFounded ==
  \A a \in Adapters : adapter[a].pc = "refused" => adapter[a].blamed \in refused \cup misjudged

\* Whoever calls holds a client that was built with a key, and has noted a key.
CallersAreSetUp ==
  \A a \in Adapters : adapter[a].pc # "none" =>
    /\ adapter[a].client \in KeyNames
    /\ adapter[a].pc # "ready" => adapter[a].blamed \in KeyNames

KeysInv == KeysTypeOK /\ CallersAreSetUp /\ BlameIsFounded /\ OnlyRefusedKeysMarked

-----------------------------------------------------------------------------
(* key_manager.py:106-116: the search for the next key *)

\* Counting on from below KeyCount, with or without a round more, gives the same remainder.
LEMMA RemainderWithinRound ==
  ASSUME NEW m \in Nat, m < KeyCount
  PROVE  m % KeyCount = m /\ (m + KeyCount) % KeyCount = m
  BY KeyCountAssumption

\* The n-th key after the current one is a key; a whole round ends at the current one.
LEMMA FollowingIsKey ==
  ASSUME index \in KeyNames
  PROVE  /\ \A n \in 1..KeyCount : Following(n) \in KeyNames
         /\ Following(KeyCount) = index
         /\ \A k \in KeyNames : \E n \in 1..KeyCount : Following(n) = k
<1> USE KeyCountAssumption DEF KeyNames, Following
<1>1. \A n \in 1..KeyCount : Following(n) \in KeyNames
  OBVIOUS
<1>2. Following(KeyCount) = index
  <2>1. index + KeyCount - 1 = (index - 1) + KeyCount
    OBVIOUS
  <2>2. (index - 1) + KeyCount >= KeyCount /\ (index - 1) + KeyCount < 2 * KeyCount
    OBVIOUS
  <2>3. ((index - 1) + KeyCount) % KeyCount = index - 1
    BY <2>2
  <2> QED
    BY <2>1, <2>3
<1>3. ASSUME NEW k \in KeyNames PROVE \E n \in 1..KeyCount : Following(n) = k
  <2>1. CASE k > index
    <3>1. k - index \in 1..KeyCount
      BY <2>1
    <3>2. index + (k - index) - 1 = k - 1
      OBVIOUS
    <3>3. (k - 1) % KeyCount = k - 1
      BY RemainderWithinRound
    <3>4. Following(k - index) = k
      BY <3>2, <3>3
    <3> QED
      BY <3>1, <3>4
  <2>2. CASE k <= index
    <3>1. KeyCount - (index - k) \in 1..KeyCount
      BY <2>2
    <3>2. (index + (KeyCount - (index - k)) - 1) = (k - 1) + KeyCount
      OBVIOUS
    <3>3. ((k - 1) + KeyCount) % KeyCount = k - 1
      BY RemainderWithinRound
    <3>4. Following(KeyCount - (index - k)) = k
      BY <3>2, <3>3
    <3> QED
      BY <3>1, <3>4
  <2> QED
    BY <2>1, <2>2
<1> QED
  BY <1>1, <1>2, <1>3

\* A round has a first place with a given mark, if it has one at all.
LEMMA FirstOfRound ==
  ASSUME NEW S \in SUBSET Nat, S # {}
  PROVE  \E m \in S : \A l \in S : ~(l < m)
<1>1. \E m \in S : \A l \in S : ~(<<l, m>> \in OpToRel(<, Nat))
  BY NatLessThanWellFounded, WFMin
<1> QED
  BY <1>1 DEF OpToRel

\* The search ends at a key, and at an exhausted one only when every key is exhausted.
LEMMA NextIndexFound ==
  ASSUME index \in KeyNames
  PROVE  /\ NextIndex \in KeyNames
         /\ Exhausted(NextIndex) => \A k \in KeyNames : Exhausted(k)
<1> DEFINE Stop(m) == m = KeyCount \/ ~Exhausted(Following(m))
           First(m) == /\ Stop(m)
                       /\ \A l \in 1..(m - 1) : Exhausted(Following(l))
           n == CHOOSE m \in 1..KeyCount : First(m)
<1>1. \E m \in 1..KeyCount : First(m)
  <2> DEFINE Stops == {m \in 1..KeyCount : Stop(m)}
  <2>1. Stops \in SUBSET Nat /\ Stops # {}
    <3>1. KeyCount \in Stops
      BY KeyCountAssumption
    <3> QED
      BY <3>1
  <2> HIDE DEF Stop
  <2>2. PICK m \in Stops : \A l \in Stops : ~(l < m)
    BY <2>1, FirstOfRound
  <2>3. \A l \in 1..(m - 1) : l \in 1..KeyCount /\ l < m
    BY KeyCountAssumption
  <2>4. \A l \in 1..(m - 1) : ~Stop(l)
    BY <2>2, <2>3
  <2>5. \A l \in 1..(m - 1) : Exhausted(Following(l))
    BY <2>4 DEF Stop
  <2> QED
    BY <2>5
<1>2. n \in 1..KeyCount /\ First(n)
  <2> HIDE DEF First
  <2> QED
    BY <1>1
<1>3. NextIndex = Following(n)
  BY DEF NextIndex
<1> HIDE DEF n
<1>4. NextIndex \in KeyNames
  BY <1>2, <1>3, FollowingIsKey
<1>5. ASSUME Exhausted(NextIndex), NEW k \in KeyNames PROVE Exhausted(k)
  <2>1. n = KeyCount
    BY <1>2, <1>3, <1>5
  <2>2. \A l \in 1..(KeyCount - 1) : Exhausted(Following(l))
    BY <1>2, <2>1
  <2>3. Exhausted(Following(KeyCount))
    BY FollowingIsKey DEF Exhausted
  <2>4. PICK l \in 1..KeyCount : Following(l) = k
    BY FollowingIsKey
  <2>5. l \in 1..(KeyCount - 1) \/ l = KeyCount
    BY KeyCountAssumption
  <2>6. Exhausted(Following(l))
    BY <2>2, <2>3, <2>5
  <2> QED
    BY <2>4, <2>6
<1> QED
  BY <1>4, <1>5

-----------------------------------------------------------------------------
(* The steps *)

\* A manager that is built starts at the first key, with none marked.
LEMMA KeysInitEstablishes == KeysInit => KeysInv
<1> SUFFICES ASSUME KeysInit PROVE KeysInv
  OBVIOUS
<1>1. KeysTypeOK
  <2>1. 0 \in 0..KeyCount /\ 1 \in KeyNames
    BY KeyCountAssumption DEF KeyNames
  <2>2. NoAdapter \in Adapter
    BY <2>1 DEF NoAdapter, Adapter
  <2> QED
    BY <2>1, <2>2 DEF KeysInit, KeysTypeOK
<1>2. CallersAreSetUp /\ BlameIsFounded
  BY DEF KeysInit, CallersAreSetUp, BlameIsFounded, NoAdapter
<1>3. OnlyRefusedKeysMarked
  BY DEF KeysInit, OnlyRefusedKeysMarked
<1> QED
  BY <1>1, <1>2, <1>3 DEF KeysInv

\* What an adapter may become: one of the type, set up if it calls, and founded if it blames.
Sound(new) ==
  /\ new \in Adapter
  /\ new.pc # "none" =>
       /\ new.client \in KeyNames
       /\ new.pc # "ready" => new.blamed \in KeyNames

\* A step that replaces one adapter by a sound one, and keeps the manager, keeps KeysInv.
LEMMA AdaptPreserves ==
  ASSUME KeysInv, NEW a \in Adapters, NEW new, Sound(new), Adapt(a, new)
  PROVE  adapter' \in [Adapters -> Adapter] /\ CallersAreSetUp'
<1>1. adapter' = [adapter EXCEPT ![a] = new]
  BY DEF Adapt
<1>2. adapter \in [Adapters -> Adapter] /\ CallersAreSetUp
  BY DEF KeysInv, KeysTypeOK
<1>3. adapter' \in [Adapters -> Adapter]
  BY <1>1, <1>2 DEF Sound
<1>4. ASSUME NEW b \in Adapters, adapter'[b].pc # "none"
      PROVE  /\ adapter'[b].client \in KeyNames
             /\ adapter'[b].pc # "ready" => adapter'[b].blamed \in KeyNames
  <2>1. CASE b = a
    BY <1>1, <1>2, <1>4, <2>1 DEF Sound
  <2>2. CASE b # a
    <3>1. adapter'[b] = adapter[b]
      BY <1>1, <1>2, <2>2
    <3> QED
      BY <3>1, <1>2, <1>4 DEF CallersAreSetUp
  <2> QED
    BY <2>1, <2>2
<1>5. KeyNames' = KeyNames
  BY DEF KeyNames
<1> QED
  BY <1>3, <1>4, <1>5 DEF CallersAreSetUp

\* A step that touches one adapter only, and does not leave it refused, keeps KeysInv.
LEMMA AdapterAlone ==
  ASSUME KeysInv, NEW a \in Adapters, NEW new, Sound(new), Adapt(a, new),
         new.pc # "refused", UNCHANGED <<index, marked, refused, misjudged>>
  PROVE  KeysInv'
<1>1. adapter' \in [Adapters -> Adapter] /\ CallersAreSetUp'
  BY AdaptPreserves
<1>2. KeysTypeOK'
  BY <1>1 DEF KeysInv, KeysTypeOK, KeyNames
<1>3. BlameIsFounded'
  <2>1. \A b \in Adapters : adapter'[b].pc = "refused" => adapter'[b] = adapter[b]
    BY DEF KeysInv, KeysTypeOK, Adapt
  <2>2. refused' = refused /\ misjudged' = misjudged
    OBVIOUS
  <2> QED
    BY <2>1, <2>2 DEF KeysInv, BlameIsFounded
<1>4. OnlyRefusedKeysMarked'
  BY DEF KeysInv, OnlyRefusedKeysMarked, KeyNames
<1> QED
  BY <1>1, <1>2, <1>3, <1>4 DEF KeysInv

\* Building an adapter, calling Gemini, and the end of a call mark nothing.
LEMMA CallsPreserve ==
  ASSUME KeysInv, NEW a \in Adapters,
         Build(a) \/ Call(a) \/ Answered(a) \/ Fails(a) \/ RotatedByAnother(a)
  PROVE  KeysInv'
<1>1. /\ adapter[a] \in Adapter /\ index \in KeyNames /\ index \in 0..KeyCount
      /\ adapter[a].pc # "none" =>
           /\ adapter[a].client \in KeyNames
           /\ adapter[a].pc # "ready" => adapter[a].blamed \in KeyNames
  BY KeyCountAssumption DEF KeysInv, KeysTypeOK, CallersAreSetUp, KeyNames
<1>2. CASE Build(a)
  <2> DEFINE new == [pc |-> "ready", client |-> index, blamed |-> 0]
  <2>1. Sound(new)
    BY <1>1, KeyCountAssumption DEF Sound, Adapter
  <2> QED
    BY <1>2, <2>1, AdapterAlone DEF Build
<1>3. CASE Call(a)
  <2> DEFINE new == [adapter[a] EXCEPT !.pc = "calling", !.blamed = index]
  <2>1. Sound(new) /\ new.pc # "refused"
    BY <1>1, <1>3 DEF Call, Sound, Adapter
  <2> QED
    BY <1>3, <2>1, AdapterAlone DEF Call
<1>4. CASE Answered(a)
  <2> DEFINE new == [adapter[a] EXCEPT !.pc = "ready"]
  <2>1. Sound(new) /\ new.pc # "refused"
    BY <1>1, <1>4 DEF Answered, Sound, Adapter
  <2> QED
    BY <1>4, <2>1, AdapterAlone DEF Answered
<1>5. CASE Fails(a)
  <2>1. Sound(NoAdapter) /\ NoAdapter.pc # "refused"
    BY KeyCountAssumption DEF Sound, Adapter, NoAdapter
  <2> QED
    BY <1>5, <2>1, AdapterAlone DEF Fails
<1>6. CASE RotatedByAnother(a)
  <2> DEFINE new == [adapter[a] EXCEPT !.pc = "retrying", !.client = index]
  <2>1. Sound(new) /\ new.pc # "refused"
    BY <1>1, <1>6 DEF RotatedByAnother, Sound, Adapter
  <2> QED
    BY <1>6, <2>1, AdapterAlone DEF RotatedByAnother
<1> QED
  BY <1>2, <1>3, <1>4, <1>5, <1>6

\* A 429 makes the blame founded: the client's key was refused, or another is misjudged.
LEMMA RefusedPreserves ==
  ASSUME KeysInv, NEW a \in Adapters, Refused(a)
  PROVE  KeysInv'
<1> DEFINE new == [adapter[a] EXCEPT !.pc = "refused"]
<1>1. /\ adapter \in [Adapters -> Adapter] /\ adapter[a] \in Adapter
      /\ adapter[a].client \in KeyNames /\ adapter[a].blamed \in KeyNames
  BY DEF KeysInv, KeysTypeOK, CallersAreSetUp, Refused
<1>2. Sound(new) /\ new.blamed = adapter[a].blamed
  BY <1>1 DEF Sound, Adapter
<1>3. adapter' \in [Adapters -> Adapter] /\ CallersAreSetUp'
  BY <1>2, AdaptPreserves DEF Refused
<1>4. refused \cup misjudged \subseteq refused' \cup misjudged'
  BY DEF Refused
<1>5. adapter[a].blamed \in refused' \cup misjudged'
  BY DEF Refused
<1>6. KeysTypeOK'
  BY <1>1, <1>3 DEF KeysInv, KeysTypeOK, Refused, KeyNames
<1>7. BlameIsFounded'
  <2>1. ASSUME NEW b \in Adapters, adapter'[b].pc = "refused"
        PROVE  adapter'[b].blamed \in refused' \cup misjudged'
    <3>1. adapter'[a] = new /\ (b # a => adapter'[b] = adapter[b])
      BY <1>1 DEF Refused, Adapt
    <3>2. CASE b = a
      BY <3>1, <3>2, <1>2, <1>5
    <3>3. CASE b # a
      BY <3>1, <3>3, <2>1, <1>4 DEF KeysInv, BlameIsFounded
    <3> QED
      BY <3>2, <3>3
  <2> QED
    BY <2>1 DEF BlameIsFounded
<1>8. OnlyRefusedKeysMarked'
  BY <1>4 DEF KeysInv, OnlyRefusedKeysMarked, Refused, KeyNames
<1> QED
  BY <1>3, <1>6, <1>7, <1>8 DEF KeysInv

\* The key that is marked is current and blamed, and the search for the next one stops at an
\* exhausted key only when all are.
LEMMA MarkAndAdvancePreserves ==
  ASSUME KeysInv, NEW a \in Adapters, MarkAndAdvance(a)
  PROVE  KeysInv'
<1> DEFINE new == IF Exhausted(NextIndex) THEN NoAdapter
                  ELSE [adapter[a] EXCEPT !.pc = "retrying", !.client = NextIndex]
<1>1. /\ adapter \in [Adapters -> Adapter] /\ adapter[a] \in Adapter
      /\ adapter[a].client \in KeyNames /\ adapter[a].blamed \in KeyNames
      /\ index \in KeyNames /\ marked \subseteq KeyNames
  BY DEF KeysInv, KeysTypeOK, CallersAreSetUp, MarkAndAdvance
<1>2. /\ NextIndex \in KeyNames
      /\ Exhausted(NextIndex) => \A k \in KeyNames : Exhausted(k)
  BY <1>1, NextIndexFound
<1>3. /\ marked' = marked \cup {index} /\ index' = NextIndex /\ Adapt(a, new)
      /\ adapter[a].pc = "refused" /\ adapter[a].blamed = index
      /\ refused' = refused /\ misjudged' = misjudged
  BY DEF MarkAndAdvance, Stale
<1>4. Sound(new) /\ new.pc # "refused"
  <2>1. Sound(NoAdapter) /\ NoAdapter.pc # "refused"
    BY KeyCountAssumption DEF Sound, Adapter, NoAdapter
  <2>2. NextIndex \in 0..KeyCount
    BY <1>2, KeyCountAssumption DEF KeyNames
  <2> DEFINE retrying == [adapter[a] EXCEPT !.pc = "retrying", !.client = NextIndex]
  <2>3. Sound(retrying) /\ retrying.pc # "refused"
    BY <1>1, <1>2, <2>2 DEF Sound, Adapter
  <2> QED
    BY <2>1, <2>3
<1> HIDE DEF new
<1>5. adapter' \in [Adapters -> Adapter] /\ CallersAreSetUp'
  BY <1>3, <1>4, AdaptPreserves
<1>6. KeysTypeOK'
  BY <1>1, <1>2, <1>3, <1>5 DEF KeysInv, KeysTypeOK, KeyNames
<1>7. BlameIsFounded'
  <2>1. \A b \in Adapters : adapter'[b].pc = "refused" => adapter'[b] = adapter[b]
    BY <1>1, <1>3, <1>4 DEF Adapt
  <2> QED
    BY <2>1, <1>3 DEF KeysInv, BlameIsFounded
<1>8. OnlyRefusedKeysMarked'
  <2>1. index \in refused \cup misjudged
    BY <1>3 DEF KeysInv, BlameIsFounded
  <2>2. marked' \subseteq refused' \cup misjudged'
    BY <1>3, <2>1 DEF KeysInv, OnlyRefusedKeysMarked
  <2>3. index' \in marked' => marked' = KeyNames
    BY <1>1, <1>2, <1>3 DEF Exhausted
  <2> QED
    BY <2>2, <2>3 DEF OnlyRefusedKeysMarked, KeyNames
<1> QED
  BY <1>5, <1>6, <1>7, <1>8 DEF KeysInv

\* Every step, of any adapter, keeps KeysInv.
LEMMA KeysStepPreserves == KeysInv /\ [KeysNext]_keyVars => KeysInv'
<1> SUFFICES ASSUME KeysInv, [KeysNext]_keyVars PROVE KeysInv'
  OBVIOUS
<1>1. CASE UNCHANGED keyVars
  BY <1>1 DEF keyVars, KeysInv, KeysTypeOK, CallersAreSetUp, BlameIsFounded,
              OnlyRefusedKeysMarked, KeyNames
<1>2. ASSUME NEW a \in Adapters, KeyStep(a) PROVE KeysInv'
  BY <1>2, CallsPreserve, RefusedPreserves, MarkAndAdvancePreserves DEF KeyStep
<1> QED
  BY <1>1, <1>2 DEF KeysNext

-----------------------------------------------------------------------------
(* The theorems *)

\* Every state of the key manager and of its adapters has its type (llm/key_manager.py,
\* llm/gemini.py): the current key is always one of the configured keys.
THEOREM KeysTypeCorrect == KeysSpec => []KeysTypeOK
<1>1. KeysInv => KeysTypeOK
  BY DEF KeysInv
<1> QED
  BY KeysInitEstablishes, KeysStepPreserves, <1>1, PTL DEF KeysSpec

\* However many calls are refused together, rotate (key_manager.py:82-116) marks only keys
\* that were refused or misjudged, and an exhausted key is current only when all are.
THEOREM OnlyRefusedKeysAreMarked == KeysSpec => []OnlyRefusedKeysMarked
<1>1. KeysInv => OnlyRefusedKeysMarked
  BY DEF KeysInv
<1> QED
  BY KeysInitEstablishes, KeysStepPreserves, <1>1, PTL DEF KeysSpec

-----------------------------------------------------------------------------
(***************************************************************************)
(* WalkShowsOnce for tables and pages of any size.  What is inductive is   *)
(* where the walk stands: as long as it goes on and keeps its cursor, it   *)
(* has received, of the rows left alone, exactly those up to the cursor.   *)
(***************************************************************************)

Passed(i) == walk.cursor # NoCursor /\ ~Precedes(walk.cursor, i)

WalkInv ==
  /\ PaginationTypeOK
  /\ steady \subseteq Listed
  /\ ~lost => /\ walk.cursor # NoCursor => row[walk.cursor].state # "absent"
              /\ \A i \in steady : shown[i] = IF ~walk.more \/ Passed(i) THEN 1 ELSE 0

\* A finite set has a minimum of any strict order.
LEMMA FiniteMinimum ==
  ASSUME NEW A, IsFiniteSet(A), A # {}, NEW R,
         \A i \in A : <<i, i>> \notin R,
         \A i, j, k \in A : <<i, j>> \in R /\ <<j, k>> \in R => <<i, k>> \in R
  PROVE  \E m \in A : \A j \in A : <<j, m>> \notin R
<1> DEFINE below(i) == {j \in A : <<j, i>> \in R}
           T == {below(i) : i \in A}
<1>1. T # {} /\ T \subseteq FiniteSubsetsOf(A)
  <2>1. \A i \in A : below(i) \in SUBSET A
    OBVIOUS
  <2>2. \A i \in A : IsFiniteSet(below(i))
    BY <2>1, FS_Subset
  <2>3. \A i \in A : below(i) \in FiniteSubsetsOf(A)
    BY <2>1, <2>2 DEF FiniteSubsetsOf
  <2> HIDE DEF below
  <2> QED BY <2>3
<1>2. PICK x \in T : \A y \in T : <<y, x>> \notin StrictSubsetOrdering(A)
  <2>1. IsWellFoundedOn(StrictSubsetOrdering(A), FiniteSubsetsOf(A))
    BY FS_StrictSubsetOrderingWellFounded
  <2> HIDE DEF T
  <2> QED BY <1>1, <2>1, WFMin
<1>3. PICK m \in A : x = below(m)
  BY <1>2
<1>4. ASSUME NEW j \in A, <<j, m>> \in R PROVE FALSE
  <2>1. below(j) \subseteq below(m)
    BY <1>3, <1>4
  <2>2. j \in below(m) /\ j \notin below(j)
    BY <1>3, <1>4
  <2>3. <<below(j), below(m)>> \in StrictSubsetOrdering(A)
    BY <2>1, <2>2 DEF StrictSubsetOrdering
  <2> QED BY <2>3, <1>2, <1>3, <1>4
<1> QED BY <1>3, <1>4

\* ORDER BY sort_col, pk is a strict total order of the rows, in either direction.
LEMMA RowsAreOrdered ==
  ASSUME PaginationTypeOK
  PROVE  /\ \A i \in Ids : ~Precedes(i, i)
         /\ \A i, j, k \in Ids : Precedes(i, j) /\ Precedes(j, k) => Precedes(i, k)
         /\ \A i, j \in Ids : i = j \/ Precedes(i, j) \/ Precedes(j, i)
<1>1. \A i \in Ids : i \in Int /\ (row[i].key = NoKey \/ (row[i].key \in Int /\ row[i].key # NoKey))
  BY PaginationAssumption DEF PaginationTypeOK, Row
<1>2. /\ \A i \in Ids : ~Ascends(i, i)
      /\ \A i, j, k \in Ids : Ascends(i, j) /\ Ascends(j, k) => Ascends(i, k)
      /\ \A i, j \in Ids : i = j \/ Ascends(i, j) \/ Ascends(j, i)
  BY <1>1 DEF Ascends, Null, Tied
<1> QED BY <1>2 DEF Precedes

\* The WHERE clause takes up where the cursor's row is in that order.
LEMMA ClauseFitsOrder ==
  ASSUME PaginationTypeOK, NEW i \in Ids, walk.cursor # NoCursor => row[walk.cursor].state # "absent"
  PROVE  Follows(i) <=> walk.cursor = NoCursor \/ Precedes(walk.cursor, i)
<1>1. walk.cursor # NoCursor => walk.cursor \in Ids
  BY DEF PaginationTypeOK, Walk
<1>2. \A j \in Ids : j \in Int /\ (row[j].key = NoKey \/ (row[j].key \in Int /\ row[j].key # NoKey))
  BY PaginationAssumption DEF PaginationTypeOK, Row
<1>3. CASE walk.cursor = NoCursor
  BY <1>3 DEF Follows
<1>4. CASE walk.cursor # NoCursor /\ walk.descending
  <2>1. Follows(i) <=> FollowsDescending(i, walk.cursor)
    BY <1>4 DEF Follows
  <2>2. Precedes(walk.cursor, i) <=> Ascends(i, walk.cursor)
    BY <1>4 DEF Precedes
  <2> QED BY <2>1, <2>2, <1>1, <1>2, <1>4 DEF FollowsDescending, Ascends, Null, Tied
<1>5. CASE walk.cursor # NoCursor /\ ~walk.descending
  <2>1. Follows(i) <=> FollowsAscending(i, walk.cursor)
    BY <1>5 DEF Follows
  <2>2. Precedes(walk.cursor, i) <=> Ascends(walk.cursor, i)
    BY <1>5 DEF Precedes
  <2> QED BY <2>1, <2>2, <1>1, <1>2, <1>5 DEF FollowsAscending, Ascends, Null, Tied
<1> QED BY <1>3, <1>4, <1>5

\* What a page is: the first rows of those that follow, all of them on the last page, and
\* otherwise with a last one that comes after the rest.
LEMMA PageIs ==
  ASSUME PaginationTypeOK, NEW size \in Sizes
  PROVE  /\ Found \subseteq Ids /\ Items(size) \subseteq Found
         /\ \A i \in Items(size), j \in Found : Precedes(j, i) => j \in Items(size)
         /\ ~HasMore(size) => Items(size) = Found
         /\ HasMore(size) => /\ Last(Items(size)) \in Items(size)
                             /\ \A j \in Items(size) \ {Last(Items(size))} : Precedes(j, Last(Items(size)))
<1> DEFINE before(i) == {j \in Found : Precedes(j, i)}
<1>n. size \in Nat /\ size > 0
  BY PaginationAssumption
<1>1. Found \subseteq Ids /\ IsFiniteSet(Found)
  <2>1. Found \subseteq Ids
    BY DEF Found, Listed
  <2> QED BY <2>1, PaginationAssumption, FS_Subset
<1>o. /\ \A i \in Found : ~Precedes(i, i)
      /\ \A i, j, k \in Found : Precedes(i, j) /\ Precedes(j, k) => Precedes(i, k)
      /\ \A i, j \in Found : i = j \/ Precedes(i, j) \/ Precedes(j, i)
  BY <1>1, RowsAreOrdered
<1>2. \A i \in Found : before(i) \subseteq Found /\ IsFiniteSet(before(i)) /\ Cardinality(before(i)) \in Nat
  <2> TAKE i \in Found
  <2>1. before(i) \in SUBSET Found
    OBVIOUS
  <2> QED BY <2>1, <1>1, FS_Subset, FS_CardinalityType
<1>i. Items(size) = {i \in Found : Cardinality(before(i)) < size}
  BY DEF Items
<1>3. ASSUME NEW i \in Items(size), NEW j \in Found, Precedes(j, i) PROVE j \in Items(size)
  <2>1. i \in Found /\ Cardinality(before(i)) < size
    BY <1>3, <1>i
  <2>2. before(j) \in SUBSET before(i)
    BY <1>3, <1>o, <2>1
  <2>3. Cardinality(before(j)) <= Cardinality(before(i))
    BY <2>1, <2>2, <1>2, FS_Subset
  <2>4. Cardinality(before(j)) \in Nat /\ Cardinality(before(i)) \in Nat
    BY <2>1, <1>2
  <2>5. Cardinality(before(j)) < size
    BY <2>1, <2>3, <2>4, <1>n
  <2> HIDE DEF before
  <2> QED BY <2>5, <1>i
<1>4. ASSUME ~HasMore(size) PROVE Items(size) = Found
  <2>1. Cardinality(Found) \in Nat /\ Cardinality(Found) <= size
    BY <1>4, <1>1, <1>n, FS_CardinalityType DEF HasMore
  <2>2. ASSUME NEW i \in Found PROVE Cardinality(before(i)) < size
    <3>1. before(i) \in SUBSET Found /\ before(i) # Found
      BY <1>o
    <3>2. Cardinality(before(i)) <= Cardinality(Found) /\ Cardinality(before(i)) # Cardinality(Found)
      BY <3>1, <1>1, FS_Subset
    <3>3. Cardinality(before(i)) \in Nat
      BY <1>2
    <3> HIDE DEF before
    <3> QED BY <3>2, <3>3, <2>1, <1>n
  <2> HIDE DEF before
  <2> QED BY <2>2, <1>i
<1>5. ASSUME HasMore(size)
      PROVE  /\ Last(Items(size)) \in Items(size)
             /\ \A j \in Items(size) \ {Last(Items(size))} : Precedes(j, Last(Items(size)))
  <2>1. Found # {}
    BY <1>5, <1>n, FS_EmptySet DEF HasMore
  <2>2. \E m \in Found : \A j \in Found : ~Precedes(j, m)
    <3> DEFINE R == {ss \in Found \X Found : Precedes(ss[1], ss[2])}
    <3>1. \A i, j \in Found : <<i, j>> \in R <=> Precedes(i, j)
      OBVIOUS
    <3> HIDE DEF R
    <3>2. \A i \in Found : <<i, i>> \notin R
      BY <3>1, <1>o
    <3>3. \A i, j, k \in Found : <<i, j>> \in R /\ <<j, k>> \in R => <<i, k>> \in R
      BY <3>1, <1>o
    <3>4. \E m \in Found : \A j \in Found : <<j, m>> \notin R
      BY <3>2, <3>3, <2>1, <1>1, FiniteMinimum
    <3> QED BY <3>1, <3>4
  <2>3. PICK m \in Found : \A j \in Found : ~Precedes(j, m)
    BY <2>2
  <2>4. before(m) = {}
    BY <2>3
  <2>5. m \in Items(size)
    BY <2>3, <2>4, <1>i, <1>n, FS_EmptySet
  <2> DEFINE items == Items(size)
  <2>6. items \subseteq Found /\ items # {} /\ IsFiniteSet(items)
    BY <2>5, <1>i, <1>1, FS_Subset
  <2> HIDE DEF items
  <2>7. \E l \in items : \A j \in items : ~Precedes(l, j)
    <3> DEFINE R == {ss \in items \X items : Precedes(ss[2], ss[1])}
    <3>1. \A i, j \in items : <<i, j>> \in R <=> Precedes(j, i)
      OBVIOUS
    <3> HIDE DEF R
    <3>2. \A i \in items : <<i, i>> \notin R
      BY <3>1, <2>6, <1>o
    <3>3. \A i, j, k \in items : <<i, j>> \in R /\ <<j, k>> \in R => <<i, k>> \in R
      BY <3>1, <2>6, <1>o
    <3>4. \E l \in items : \A j \in items : <<j, l>> \notin R
      BY <3>2, <3>3, <2>6, FiniteMinimum
    <3> QED BY <3>1, <3>4
  <2>8. \E l \in items : \A j \in items \ {l} : Precedes(j, l)
    BY <2>6, <2>7, <1>o
  <2>9. Last(items) \in items /\ \A j \in items \ {Last(items)} : Precedes(j, Last(items))
    BY <2>8 DEF Last
  <2> QED BY <2>9 DEF items
<1> QED BY <1>1, <1>3, <1>4, <1>5, <1>i

LEMMA WalkInit == PaginationInit => WalkInv
<1> SUFFICES ASSUME PaginationInit PROVE WalkInv
  OBVIOUS
<1>1. /\ shown = [i \in Ids |-> 0] /\ steady = Listed /\ lost = FALSE
  BY DEF PaginationInit
<1>2. row \in [Ids -> Row]
  <2>1. [state |-> "absent", key |-> NoKey] \in Row /\ [state : {"listed"}, key : Keys \cup {NoKey}] \subseteq Row
    BY DEF Row
  <2> HIDE DEF Row
  <2>2. row \in [Ids -> {[state |-> "absent", key |-> NoKey]} \cup [state : {"listed"}, key : Keys \cup {NoKey}]]
    BY DEF PaginationInit
  <2> QED BY <2>1, <2>2
<1>3. walk \in Walk /\ walk.cursor = NoCursor /\ walk.more = TRUE
  BY DEF PaginationInit, Walk
<1>4. shown \in [Ids -> 0..2] /\ \A i \in Ids : shown[i] = 0
  BY <1>1
<1>5. steady \subseteq Ids
  BY <1>1 DEF Listed
<1>6. PaginationTypeOK
  BY <1>1, <1>2, <1>3, <1>4, <1>5 DEF PaginationTypeOK
<1>7. \A i \in steady : shown[i] = IF ~walk.more \/ Passed(i) THEN 1 ELSE 0
  BY <1>3, <1>4, <1>5 DEF Passed
<1> QED BY <1>1, <1>3, <1>6, <1>7 DEF WalkInv

\* A page moves the cursor past what it shows and no further.
LEMMA NextPageKeeps ==
  ASSUME WalkInv, NEW size \in Sizes, NextPage(size)
  PROVE  WalkInv'
<1> DEFINE items == Items(size)
           c == Last(Items(size))
<1>t. /\ PaginationTypeOK /\ walk \in Walk /\ shown \in [Ids -> 0..2] /\ row \in [Ids -> Row]
      /\ steady \subseteq Ids /\ lost \in BOOLEAN /\ steady \subseteq Listed
  BY DEF WalkInv, PaginationTypeOK
<1>1. /\ walk.more = TRUE
      /\ walk' = [walk EXCEPT !.more = HasMore(size), !.cursor = IF HasMore(size) THEN c ELSE @]
      /\ shown' = [i \in Ids |-> IF i \in items /\ shown[i] < 2 THEN shown[i] + 1 ELSE shown[i]]
      /\ row' = row /\ steady' = steady /\ lost' = lost
  BY <1>t DEF NextPage, Walk
<1>p. /\ Found \subseteq Ids /\ items \subseteq Found
      /\ \A i \in items, j \in Found : Precedes(j, i) => j \in items
      /\ ~HasMore(size) => items = Found
      /\ HasMore(size) => c \in items /\ \A j \in items \ {c} : Precedes(j, c)
  BY <1>t, PageIs
<1>o. /\ \A i \in Ids : ~Precedes(i, i)
      /\ \A i, j, k \in Ids : Precedes(i, j) /\ Precedes(j, k) => Precedes(i, k)
      /\ \A i, j \in Ids : i = j \/ Precedes(i, j) \/ Precedes(j, i)
  BY <1>t, RowsAreOrdered
<1>m. HasMore(size) \in BOOLEAN
  BY DEF HasMore
<1> HIDE DEF items, c
<1>w. /\ walk'.more = HasMore(size) /\ walk'.descending = walk.descending
      /\ walk'.cursor = (IF HasMore(size) THEN c ELSE walk.cursor)
  BY <1>1, <1>t DEF Walk
<1>2. walk' \in Walk
  <2>1. (IF HasMore(size) THEN c ELSE walk.cursor) \in Ids \cup {NoCursor}
    BY <1>p, <1>t DEF Walk
  <2>2. walk' = [descending |-> walk.descending, cursor |-> walk'.cursor, more |-> HasMore(size)]
    BY <1>1, <1>t DEF Walk
  <2> QED BY <2>1, <2>2, <1>w, <1>t, <1>m DEF Walk
<1>3. shown' \in [Ids -> 0..2]
  BY <1>1, <1>t
<1>4. PaginationTypeOK'
  BY <1>1, <1>2, <1>3, <1>t DEF PaginationTypeOK
<1>5. steady' \subseteq Listed'
  BY <1>1, <1>t DEF Listed
<1>6. ASSUME ~lost
      PROVE  /\ walk'.cursor # NoCursor => row'[walk'.cursor].state # "absent"
             /\ \A i \in steady' : shown'[i] = IF ~walk'.more \/ Passed(i)' THEN 1 ELSE 0
  <2>1. /\ walk.cursor # NoCursor => walk.cursor \in Ids /\ row[walk.cursor].state # "absent"
        /\ \A i \in steady : shown[i] = IF Passed(i) THEN 1 ELSE 0
    BY <1>6, <1>1, <1>t DEF WalkInv, Walk
  <2>f. \A i \in Listed : i \in Found <=> ~Passed(i)
    BY <2>1, <1>t, ClauseFitsOrder DEF Found, Listed, Passed
  <2>2. \A i \in items : row[i].state = "listed" /\ i \in Ids
    BY <1>p DEF Found, Listed
  <2>3. walk'.cursor # NoCursor => row'[walk'.cursor].state # "absent"
    BY <2>1, <2>2, <1>w, <1>p, <1>1
  <2>4. ASSUME NEW i \in steady PROVE shown'[i] = IF ~walk'.more \/ Passed(i)' THEN 1 ELSE 0
    <3>1. i \in Ids /\ i \in Listed /\ shown[i] = IF Passed(i) THEN 1 ELSE 0
      BY <2>1, <2>4, <1>t
    <3>2. shown'[i] = IF i \in items THEN shown[i] + 1 ELSE shown[i]
      BY <3>1, <1>1
    <3>3. i \in Found <=> ~Passed(i)
      BY <3>1, <2>f
    <3>4. CASE ~HasMore(size)
      BY <3>1, <3>2, <3>3, <3>4, <1>p, <1>w
    <3>5. CASE HasMore(size)
      <4>1. c \in items /\ c \in Ids /\ c \in Found /\ c # NoCursor
        BY <3>5, <1>p, PaginationAssumption
      <4>2. Passed(i)' <=> ~Precedes(c, i)
        BY <4>1, <3>5, <1>w, <1>1 DEF Passed, Precedes, Ascends, Null, Tied
      <4>3. CASE i \in items
        <5>1. ~Precedes(c, i)
          <6>1. i = c \/ Precedes(i, c)
            BY <4>3, <3>5, <1>p
          <6> QED BY <6>1, <4>1, <3>1, <1>o
        <5>2. ~Passed(i)
          BY <4>3, <3>3, <1>p
        <5> QED BY <5>1, <5>2, <4>2, <4>3, <3>1, <3>2
      <4>4. CASE i \in Found /\ i \notin items
        <5>1. Precedes(c, i)
          <6>1. ~Precedes(i, c) /\ i # c
            BY <4>1, <4>4, <1>p
          <6> QED BY <6>1, <4>1, <3>1, <1>o
        <5> QED BY <5>1, <4>2, <4>4, <3>1, <3>2, <3>3, <3>5, <1>w
      <4>5. CASE i \notin Found
        <5>1. Passed(i) /\ i \notin items
          BY <4>5, <3>3, <1>p
        <5>2. walk.cursor \in Ids /\ ~Precedes(walk.cursor, i)
          BY <5>1, <2>1 DEF Passed
        <5>3. Precedes(walk.cursor, c)
          <6>1. c \in Listed
            BY <4>1 DEF Found
          <6>2. ~Passed(c)
            BY <6>1, <4>1, <2>f
          <6> QED BY <6>2, <5>1 DEF Passed
        <5>4. ~Precedes(c, i)
          BY <5>2, <5>3, <4>1, <3>1, <1>o
        <5> QED BY <5>1, <5>4, <4>2, <3>1, <3>2
      <4> QED BY <4>3, <4>4, <4>5
    <3> QED BY <3>4, <3>5
  <2> QED BY <2>3, <2>4, <1>1
<1> QED BY <1>1, <1>4, <1>5, <1>6 DEF WalkInv

\* Whatever is written to one row changes nothing of the others.
LEMMA WriteKeeps ==
  ASSUME WalkInv, NEW i \in Ids, NEW new \in Row, NEW losesCursor \in BOOLEAN,
         Write(i, new, losesCursor),
         losesCursor \/ (row[i].state # "absent" /\ new.state # "absent" /\ new.key = row[i].key)
  PROVE  WalkInv'
<1>t. /\ PaginationTypeOK /\ walk \in Walk /\ shown \in [Ids -> 0..2] /\ row \in [Ids -> Row]
      /\ steady \subseteq Ids /\ lost \in BOOLEAN /\ steady \subseteq Listed
  BY DEF WalkInv, PaginationTypeOK
<1>1. /\ row' = [row EXCEPT ![i] = new] /\ steady' = steady \ {i} /\ walk' = walk /\ shown' = shown
      /\ lost' = (lost \/ (losesCursor /\ walk.cursor = i))
  BY DEF Write
<1>2. /\ row' \in [Ids -> Row] /\ row'[i] = new
      /\ \A j \in Ids : j # i => row'[j] = row[j]
  BY <1>1, <1>t
<1>3. PaginationTypeOK'
  BY <1>1, <1>2, <1>t DEF PaginationTypeOK
<1>4. steady' \subseteq Listed'
  BY <1>1, <1>2, <1>t DEF Listed
<1>5. ASSUME ~lost'
      PROVE  /\ walk'.cursor # NoCursor => row'[walk'.cursor].state # "absent"
             /\ \A j \in steady' : shown'[j] = IF ~walk'.more \/ Passed(j)' THEN 1 ELSE 0
  <2>1. ~lost /\ (losesCursor => walk.cursor # i)
    BY <1>5, <1>1
  <2>2. /\ walk.cursor # NoCursor => walk.cursor \in Ids /\ row[walk.cursor].state # "absent"
        /\ \A j \in steady : shown[j] = IF ~walk.more \/ Passed(j) THEN 1 ELSE 0
    BY <2>1, <1>t DEF WalkInv, Walk
  <2>3. walk.cursor # NoCursor =>
          row'[walk.cursor].key = row[walk.cursor].key /\ row'[walk.cursor].state # "absent"
    BY <2>1, <2>2, <1>2
  <2>4. ASSUME NEW j \in steady' PROVE Passed(j)' <=> Passed(j)
    <3>1. j \in Ids /\ row'[j] = row[j]
      BY <2>4, <1>1, <1>2, <1>t
    <3> QED BY <3>1, <2>3, <1>1 DEF Passed, Precedes, Ascends, Null, Tied
  <2> QED BY <2>2, <2>3, <2>4, <1>1
<1> QED BY <1>3, <1>4, <1>5 DEF WalkInv

LEMMA WalkStep == WalkInv /\ [PaginationNext]_paginationVars => WalkInv'
<1> SUFFICES ASSUME WalkInv, [PaginationNext]_paginationVars PROVE WalkInv'
  OBVIOUS
<1>t. row \in [Ids -> Row]
  BY DEF WalkInv, PaginationTypeOK
<1>n. Now \in Keys
  BY PaginationAssumption DEF Now
<1>r. /\ [state |-> "listed", key |-> Now] \in Row /\ [state |-> "absent", key |-> NoKey] \in Row
  BY <1>n DEF Row
<1>1. CASE UNCHANGED paginationVars
  BY <1>1 DEF paginationVars, WalkInv, PaginationTypeOK, Listed, Passed, Precedes, Ascends, Null, Tied
<1>2. ASSUME NEW size \in Sizes, NextPage(size) PROVE WalkInv'
  BY <1>2, NextPageKeeps
<1>3. ASSUME NEW i \in Ids, Create(i) PROVE WalkInv'
  BY <1>3, <1>r, WriteKeeps DEF Create
<1>4. ASSUME NEW i \in Ids, Use(i) PROVE WalkInv'
  BY <1>4, <1>r, WriteKeeps DEF Use
<1>5. ASSUME NEW i \in Ids, Hide(i) PROVE WalkInv'
  <2>1. [row[i] EXCEPT !.state = "hidden"] \in Row
    BY <1>t DEF Row
  <2>2. /\ [row[i] EXCEPT !.state = "hidden"].state = "hidden"
        /\ [row[i] EXCEPT !.state = "hidden"].key = row[i].key
    BY <1>t DEF Row
  <2>3. row[i].state = "listed" /\ Write(i, [row[i] EXCEPT !.state = "hidden"], FALSE)
    BY <1>5 DEF Hide
  <2> QED BY <2>1, <2>2, <2>3, WriteKeeps
<1>6. ASSUME NEW i \in Ids, Purge(i) PROVE WalkInv'
  BY <1>6, <1>r, WriteKeeps DEF Purge
<1> QED BY <1>1, <1>2, <1>3, <1>4, <1>5, <1>6 DEF PaginationNext

\* A client that follows the cursor (core/paginator.py) receives every row that is left alone
\* exactly once, for tables and pages of any size and whatever else changes meanwhile, unless
\* the cursor's own row was used or purged.
THEOREM WalksShowOnce == PaginationSpec => []WalkShowsOnce
<1>1. WalkInv => WalkShowsOnce
  BY DEF WalkInv, WalkShowsOnce, PaginationTypeOK
<1> QED BY <1>1, WalkInit, WalkStep, PTL DEF PaginationSpec

-----------------------------------------------------------------------------
(***************************************************************************)
(* The services together, as MCServices runs them: each behaves as its own *)
(* specification says, so that what is proved of one holds in the joint    *)
(* run, and the types of all of them hold there.                           *)
(***************************************************************************)

\* A step of the joint run is a step of one service and leaves the others alone.
LEMMA OneServiceMoves ==
  ASSUME [explored' = explored /\ Next]_vars
  PROVE  /\ [IdentitiesNext]_identityVars
         /\ [SessionsNext]_sessionVars
         /\ [PaymentsNext]_paymentVars
         /\ [CountersNext]_counterVars
         /\ [PaginationNext]_paginationVars
         /\ [KeysNext]_keyVars
         /\ [SkillsNext]_skillVars
<1>1. CASE UNCHANGED vars
  BY <1>1 DEF vars
<1>2. CASE Next
  BY <1>2 DEF Next
<1> QED
  BY <1>1, <1>2

\* Every service in the joint run is one of the services as specified in its own module,
\* whatever the services beside it do.
THEOREM ServicesKeepTheirSpecs ==
  Spec => /\ IdentitiesSpec /\ SessionsSpec /\ PaymentsSpec /\ CountersSpec
          /\ PaginationSpec /\ KeysSpec /\ SkillsSpec
<1>1. Init => /\ IdentitiesInit /\ SessionsInit /\ PaymentsInit /\ CountersInit
              /\ PaginationInit /\ KeysInit /\ SkillsInit
  BY DEF Init
<1> QED
  BY <1>1, OneServiceMoves, PTL
  DEF Spec, IdentitiesSpec, SessionsSpec, PaymentsSpec, CountersSpec, PaginationSpec, KeysSpec,
      SkillsSpec

\* The rows, tokens, counters and pages of services/, api/utils.py and models/ hold what they
\* are declared to hold, within the bounds of what was asked for, for any number of users,
\* requests, sessions, payments, keys and skills.
THEOREM ServicesTypeCorrect == Spec => []TypeOK
<1>1. IdentitiesSpec => []IdentitiesTypeOK
  <2>1. IdentitiesInv => IdentitiesTypeOK
    BY DEF IdentitiesInv
  <2> QED
    BY IdentitiesInitEstablishes, IdentitiesStepPreserves, <2>1, PTL DEF IdentitiesSpec
<1>2. PaymentsSpec => []PaymentsTypeOK
  <2>1. PaymentInv => PaymentsTypeOK
    BY DEF PaymentInv
  <2> QED
    BY <2>1, PaymentInvariant, PTL
<1>3. PaginationSpec => []PaginationTypeOK
  <2>1. WalkInv => PaginationTypeOK
    BY DEF WalkInv
  <2> QED
    BY <2>1, WalkInit, WalkStep, PTL DEF PaginationSpec
<1>4. SkillsSpec => []SkillsTypeOK
  <2>1. SkillsInv => SkillsTypeOK
    BY DEF SkillsInv
  <2> QED
    BY <2>1, SkillsInitEstablishes, SkillsStepPreserves, PTL DEF SkillsSpec
<1>5. /\ IdentitiesTypeOK /\ SessionsTypeOK /\ PaymentsTypeOK /\ CountersTypeOK
      /\ PaginationTypeOK /\ KeysTypeOK /\ SkillsTypeOK
      => TypeOK
  BY DEF TypeOK
<1> QED
  BY <1>1, <1>2, <1>3, <1>4, <1>5, ServicesKeepTheirSpecs, SessionsTypeCorrect,
     CountersTypeCorrect, KeysTypeCorrect, PTL

=============================================================================
