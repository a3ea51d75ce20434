# Anvila backend: TLA+ models and proofs

Anvila turns a user's prompt into a *persona*: five Markdown files, a readme and a set of
skills, written by an LLM that may first ask several rounds of questions.  A FastAPI
application serves the requests, a Celery worker runs the generation, PostgreSQL holds the
rows, and Redis carries the task queue, two publish/subscribe channels per persona and a
cache.  This directory models the parts of that system whose correctness depends on the
order in which processes, messages and failures happen.

Paths below are relative to `src/app/`.

## Inventory

| component | state | operations | interacts through |
|---|---|---|---|
| generation task (`worker/tasks/generation.py`, `services/persona_apply.py`) | an ORM session's cached persona, session and user; the prompt; its subscription | load, ask, wait, refresh, apply files, match skills, finish, fail, recover, retry | persona/session/message rows, `persona:{id}:continue`, `persona:{id}:events`, LLM |
| generate endpoint (`api/endpoints/personas.py:60`) | persona, session, first message, `generation_count` | create, enqueue, QUEUE_UNAVAILABLE | rows, broker |
| clarify endpoint and store (`personas.py:162`, `services/clarification_store.py`, `services/context_manager.py`) | `clarification_round`, `compressed_context`, answers inside assistant messages | check, upsert answers, rebuild context, count, commit, continue | rows, continue channel |
| event stream (`services/stream_service.py`, `personas.py:554`) | what was sent, queue, stop event | poll, listen, relay, fast path, disconnect | persona row, events channel |
| refine task and relay (`worker/tasks/refine.py`, `personas.py:235`) | transcript, persona files, the reply being streamed | accept, subscribe, stream tokens, replace files, fail, retry, relay | rows, a channel per request, LLM stream |
| publishing (`services/publish_service.py`, `services/publishing/`, `services/github_service.py`) | status, repository URLs, remote files | push files and skills, mark published | persona row, GitHub |
| explore cache (`core/cache.py`, `services/explore_service.py`) | namespace version, entries, lock | get_or_set, invalidate | Redis, rows |
| Gemini adapter (`services/llm/gemini.py`, `key_manager.py`) | key index and exhausted flags shared by all adapters; a client per adapter | call, rotate, stream | Gemini |
| accounts (`services/auth.py`, `api/deps.py`) | users, refresh and reset tokens, `token_version` | register, verify, login, refresh, logout, reset | rows, mail |
| OAuth (`services/github_oauth.py`, `google_oauth.py`, `oauth_link.py`, `ott_store.py`) | subjects, link tokens, one-time tokens | callback, link, exchange | rows, Redis, providers |
| payments (`api/endpoints/payment.py`) | payment transactions | checkout, webhooks | Stripe, rows |
| skills (`services/skills/matcher.py`, `skill_sync.py`) | skill rows, install counts | match, upsert, refresh, push | rows, ClawHub, GitHub |
| usage and plan (`api/endpoints/admin/users.py`, `generate`, both tasks) | `plan`, `upgraded_at`, `generation_count`, `total_tokens_used` | upgrade, count, take back, spend | rows |
| pagination (`core/paginator.py`) | none | keyset page | rows |
| chat sessions and purge (`api/endpoints/chat.py`, `worker/tasks/cleanup.py`) | `deleted_at` | soft delete, purge | rows |
| leads, mail, configuration, middleware, metrics, schemas | rows or none | insert, send | - |

`services/skill_matcher.py`, `services/publishing/public.py` and the second Google login of
`services/auth.py` (lines 348-498) are not called by anything.

What makes the behaviour hard:

* **Cached rows.** The task loads the persona once and keeps it (`expire_on_commit=False`);
  a commit writes the attributes that differ from the cached copy, not from the row.  The
  endpoints, the publisher, the recovery handler and a second delivery of the same message
  write the row in between.
* **Two counters for one thing.** The task counts rounds on the persona, the clarify
  endpoint on the session.  Nothing ties them together but the order of events.
* **Lossy wake-up.** The task waits for a message on a channel that keeps nothing for
  later subscribers; the message is sent after the commit and names no round.
* **Redelivery.** `acks_late` gives the message of a killed worker to another one, and the
  broker's visibility timeout can give it to a second one while the first still runs.
* **Recovery before retry.** Unexpected exceptions mark the row failed and are then retried.
* **Concurrent producers of one stream.** The poller and the listener put terminal events on
  the same queue, each by its own view of the persona.

Three more things make the rest of the backend hard:

* **Read, then write.** Almost every endpoint reads a row in one statement, decides in Python
  and writes in another, at READ COMMITTED: counters, versions, statuses and unique columns
  are checked against values that may have moved.  Only resets, link confirmations and plan
  upgrades take a row lock.
* **Work outside the transaction.** A publication pushes a dozen files to GitHub between its
  status check and its commit; a checkout creates a Stripe session before its row exists;
  Stripe reports in any order.
* **Answers that end before the work does.** The relay of a refinement ends on the first error
  event, while Celery retries the task.

What makes each component correct is stated by the properties listed with the runs.

## Modules

| module | what it is |
|---|---|
| `PersonaLifecycle` | abstract specification: status, round counter and error code of a persona row, and the order in which a reader can see them |
| `PersonaGeneration` | the endpoints `generate` and `clarify`, the rows they share with the task, the task, its channel, its failures; implements `PersonaLifecycle` |
| `PersonaGenerationProofs` | theorems about `PersonaGeneration` |
| `PersonaStream`, `PersonaStreamProofs` | one event stream over a row that moves by the steps of `PersonaLifecycle` |
| `PersonaRefine`, `PersonaRefineProofs` | a refinement turn: endpoint, relay, task, channel, conversation and files |
| `Publishing` | both publish endpoints, file by file, beside refinements and deletions |
| `ExploreCache` | one key of a `CacheNamespace`: get_or_set, set, invalidate |
| `Explore`, `PublishingProofs` | composes `Publishing` with an instance of `ExploreCache` that holds its listing |
| `Sessions`, `SessionsProofs` | the credentials of one account |
| `Identities`, `IdentitiesProofs` | which user a sign-in belongs to |
| `Payments` | checkouts and Stripe's webhooks |
| `UserCounters` | the columns of a user that are computed from what was read |
| `Pagination` | a walk through the pages of a table that changes |
| `GeminiKeys` | adapters over one key manager |
| `SkillStore`, `SkillStoreProofs` | concurrent matchings and the synchronisation |
| `ServicesProofs` | theorems about `Payments`, `UserCounters`, `GeminiKeys` and `Pagination`, and about `MCServices`, which composes them with `Sessions`, `Identities` and `SkillStore` |
| `MCServices` | the seven services above on one instance, one of them moving at a time |
| `MCPersonaGeneration`, `MCPersonaStream`, `MCPersonaRefine`, `MCExplore` | instances for TLC |

### PersonaGeneration

| variable | code |
|---|---|
| `persona` | the `personas` row: status, `clarification_rounds`, `error_code`, and for the file columns the attempt that wrote them, 0 for NULL or empty (`head`: those before the point where a partial reply breaks off, `tail`: the rest; `blank`: which of them some reply has left null or empty) |
| `session` | the `chat_sessions` row: `clarification_round`, `compressed_context`, complete |
| `log` | `conversation_messages`: rounds asked, and per round the answers filed in it |
| `api` | progress of the `generate` request |
| `run[r]` | delivery `r` of the Celery message: where it is, Celery's retry count, its cached status and round counter, its prompt, the reply it holds, an unread continue message, the file columns that were NULL when it read the row (`empty`) |
| `req[q]` | clarify request `q`: which round's questions it answers, and the session counter and context it read |
| `announced` | error codes published on the events channel |
| `attempts`, `calls` | runs that got past the terminal check, and LLM calls (history) |
| `crashes`, `publishing` | worker crashes so far; a publish is between its check and its commit |

Answers are numbers: answer `n` answers the questions of round `n`, `0` is none.  So
`compressed_context` is a function from rounds to the answers filed there, and an answer
filed under the wrong round is visible as `context[n] # n`.

Every commit of the task is an action, and everything the task does up to it is part of it.
`StatusWrite` is the ORM's rule for the status column: assigning the value the session already
caches writes nothing; `Stored` is the same rule for a file that a reply leaves null.  A reply
is malformed when it lacks a key; what is under the key is not looked at
(`persona_apply.py:43-44`, over nullable columns), so that a generated persona may lack a file.
`Forget` resets what a delivery keeps in memory when it ends or starts over.  The `else` of the
`while` loop is not modelled: it needs a round counter above the cap, which `TypeOK` rules out.

Faults are switched by the constant `Faults`: `ambiguous_delay` (the broker took the message
although `delay` raised), `lost_message` (the pool process died and its parent acknowledged),
`setup` (the adapter, Redis client or engine cannot be made, before the `try`: no recovery, no
event, only Celery's retry), `recovery` (the database is unreachable in the recovery too),
`publish` (Redis drops an event or a continue message, or the API process dies after its
commit).  Exceptions, crashes and duplicate deliveries need no switch.  With `Disciplined` the
client answers the round on display and answers it once; without it any asked round, any number
of times.

### PersonaStream

The row's `status`, `rounds` and `error` are those of `PersonaLifecycle`, instantiated under the
same names, so the task's steps here are the abstract ones that `PersonaGeneration` implements;
`files`, `skills` and the attempt number are added.  `poller`, `listener`, `queue`, `stop` and
`out` are the locals of `stream_service.py`; `out` is what the client got.  An action is what
one asyncio task does between two awaits: `queue.put` on an unbounded queue does not suspend, a
query does.  `gone` says that the nightly purge has deleted the row (`worker/tasks/cleanup.py`;
the stream endpoint does not look at `deleted_at`): the poller then reports NOT_FOUND
(`PollGone`), or finds no message to fetch any more (`PollFetchNothing`).  Of the files,
`readme_md` stands for all that may stay empty and that `complete` then does not wait for.
Error events arrive only when the row is terminal, which is the invariant `AnnouncedIsFinal` of
`PersonaGeneration`.

### PersonaRefine

| variable | code |
|---|---|
| `row` | the persona: file columns (each as the turn and attempt that wrote it), `deleted_at` |
| `current`, `opened` | the oldest chat session not deleted, which `refine` takes; sessions so far |
| `log` | `conversation_messages` |
| `relay`, `out` | `_relay_refine` of each request, and what its response has carried |
| `task` | `_run_refine`: Celery's retry count, mode, the files it read, its reply, its transcript |
| `stored`, `seen`, `attempts`, `crashed`, `lost` | history: what each turn committed; which turns the user had seen; runs; whether a worker was killed, an event dropped |

A killed worker's message is delivered again when the worker itself dies, and lost when only the
pool process does (`celery_app.py:21-22` sets `task_acks_late` without
`task_reject_on_worker_lost`): `Crash` does either.  `SetupFails` is an exception of
`refine.py:181-186`, before the `try`, which publishes nothing; after the last retry, as after a
lost message, the task is `abandoned` and its response waits for the relay's deadline.

The relay subscribes before it queues the task, and the channel belongs to one turn, keeps
the order and has one reader; so reading an event is part of publishing it.  A reply that
leaves a file as it was read does not write that column (`Written`), but the file event shows
what the task's session holds (`Replied`): two overlapping refinements may leave a mixture of
both in the row while each client is shown its own reply.  `ShownIsStored` therefore speaks of
the row only for a turn that no other overlapped (`alone`).  What Gemini answers is arbitrary:
text, a generation, something malformed (a stream that was started over after a 429 is one),
or nothing.  The current message is left out of the transcript by its turn; the code leaves it
out by its text, so that a message repeated word for word may lose the wrong turn.

### Publishing, ExploreCache and Explore

`request` is a publication with what it has read of the row, `repo` the contents of the
repositories, `refinement` the status a running refinement has read.  A repository is an
account and a slug of the persona's *name*, so that two personas of one name share it.
`PublishedRow` and `Refined` write a column only where the value differs from the one that was
read.  `intact` records that no refinement and no other push to the repository overlapped the
last publication (`alone`); a publication that ends with the row at another repository says
nothing of that one, so the mark of the publication that put it there must hold as well.

`ExploreCache` is translated from `core/cache.py` for one key: `reader` is a call of
`get_or_set`, `lock` the Redis lock, `entry` the stored value with the version it is stored
under; `Encodable` says which values `json.dumps` takes; a failure of
Redis is a miss inside `get`, nothing inside `set`, and ends the call where the version is read or
at the lock (`RedisFails`).  `Explore` instantiates it with the
listings of `Publishing` and with `EncodableListings`, which holds the empty listing only: the
items of a listing carry UUIDs.  `missed` records a change of the listing that does not
invalidate the cache.

### Sessions, Identities, Payments, UserCounters, Pagination, GeminiKeys, SkillStore

Each models a table or a shared object with any number of concurrent requests.  A
transaction's reads are steps of their own; its writes and its commit are one step, guarded by
the lock or the unique index that PostgreSQL applies.  History variables (`raced`, `collided`,
`unlinked`, `late`, `misjudged`, `steady`) record the overlaps that the code does not defend
against; the properties say what holds without them, and thereby which overlaps matter.

* `Sessions`: `session` is a login with its refresh token, `access` the access tokens, `link`
  and `reset` the reset tokens and requests.  A login commits after its check, a refresh mints
  after its check, a GitHub login revokes what its UPDATE finds (`Rotate`) before it commits.
* `Identities`: `request` runs `register`, `login_or_register_google_user` or
  `process_github_callback` (login and connect); the unique indexes refuse a write
  (`Taken`, `Insert`), and the rescue paths look again.
* `Payments`: `stripe` is what happened there, and so which webhooks may arrive, any number
  of times and in any order; `hook` is a handler between its read and its commit.
* `UserCounters`: `post`, `taskRun` and `admin` hold what each transaction has read.  The
  locked read of an upgrade returns the object the first read left in the identity map.
* `Pagination`: a client walks through `cursor_paginate`; `steady` are the rows left alone.
* `GeminiKeys`: an adapter's client is built with one key, the key it blames is read later.
* `SkillStore`: `holder` is the transaction whose uncommitted row others must wait for.

## Runs

| run | instance | what it shows |
|---|---|---|
| `generation_reliable` | 1 delivery, 3 requests, 3 rounds, 1 retry, 1 crash, Redis may drop messages, a reply may leave any file blank, disciplined client | types; every prompt holds every answer; files come from one reply; LLM calls are bounded; error events are final; the row implements the lifecycle; a delivered task ends |
| `generation_faults` | 2 deliveries, 1 request, 1 round, 1 crash, all faults, a reply may leave one half of the columns blank, any client | the questions of a counted round are stored; a generated or published persona has all its files but those a reply left blank |
| `stream` | 2 rounds, 2 attempts, both background tasks may raise, the row may be purged | order and truth of the events; the stream ends; rounds are shown |
| `refine` | 2 turns, 1 file column, 1 retry, 1 fault (exception, crash or lost event), a setup may fail, 2 sessions, ambiguous enqueue | a turn shown as done is stored; the files shown are those stored; a turn commits once unless a worker is killed; every file has its marker in the conversation; the prompt holds every answer the user had seen; no run that got into its `try` returns in silence |
| `publishing` | 2 personas, 2 names, 2 files of which 1 belongs to a skill, 2 publications, 1 edit, 2 readers, 2 invalidations | a published persona is pushed as it is; a privately published one is never listed; the cache is current; one query per version of the cache |
| `services` | 3 users, 2 emails, 2 subjects, 3 requests; 2 logins, 2 links, 2 resets, 3 passwords; 2 checkouts, 2 handlers; 2 posts, 2 task runs, 2 upgrades; 3 rows, 2 sort values and NULL; 3 keys, 2 adapters; 2 slugs, 2 matchings and a synchronisation | see the next table |
| `lost_wakeup`, `retry_futile`, `double_submit`, `stream_published`, `never_cached`, `upgrade_overwritten` | smallest instances | the six disagreements below |

| property of `services` | question |
|---|---|
| `SignedInIsOwner` | is who signs in through a provider the one user who has that account? |
| `FirstLoginRaceIsResolved` | do concurrent first logins of one person all get in? |
| `RefusalIsResolved` | is a sign-in that a unique index refused always resolved to a row? |
| `ResetEndsSessions` | does a password reset end the refresh tokens obtained under the old password, and the access tokens as far as `get_current_user` is asked? |
| `LinkUsedOnce` | does a mailed link change the password once? |
| `RotationEndsOlder` | does a GitHub login end what was active before it? |
| `PaymentSettled` | is private publishing unlocked by payment, and only by payment? |
| `CountIsExact`, `TokensAreSpent` | are generations and tokens counted once? |
| `WalkShowsOnce` | does a walk through the pages show each row once, while rows come, move and go? |
| `OnlyRefusedKeysMarked` | is a healthy key never marked exhausted, and an exhausted one not used? |
| `MatchedSkillsAreStored` | are the skills a task links to in the table, whatever is inserted meanwhile? |

The bounds.  Three rounds are one more than the smallest number at which a round is neither
first nor last, and the code compares the counter with the cap and adds one to it, nothing else;
the cap itself (5) is a constant.  One crash reaches every pair (step before, restart from
there); two deliveries reach every pair of stale copies.  `generation_faults` gives up rounds
for deliveries: 2 deliveries with 3 rounds are out of TLC's reach.  Its deliveries are
interchangeable, so it uses symmetry, as `refine` does of its two turns; no liveness is checked
there.  `Blanks` bounds which columns a reply may leave blank there; the code lets all.  In
`stream`, two attempts are enough for a file to change after it was sent, and two rounds for one
to be skipped.

Two refinements are enough for every overlap of a pair, and one fault reaches every step; a
third turn only repeats the second.  In `publishing` two files are one before and one after
any failure; `OneAtATime` keeps the cache's readers to states in which one persona has been
touched, since the cache holds one value and does not look into it.  In `services` the bounds
are the smallest at which three actors meet: three passwords (old, new, newest), three sign-ins
(two that race and one that replaces an account), three rows (cursor, one before, one after),
three keys (blamed, current, next).  The seven machines share no column their properties are
about, so that one moves at a time.

Deadlock is not checked: a persona that is terminal with nothing in flight stays as it is.

Fairness.  `PersonaGeneration` assumes weak fairness of each delivery's own next step: the LLM
client returns or raises, the wait has a deadline of 300 seconds, every other step is the next
statement of a coroutine.  Nothing is assumed of clients, crashes or exceptions.  With the fault
`publish` off or on, `DeliveredTerminates` holds, since it is about the row only; with
`lost_message`, `setup` or `recovery` it is false of the code, and the run leaves those out.
`PersonaStream` assumes that the event loop resumes a task that can run, queries return or
raise, sleeps end, and the client reads or disconnects; nothing of the generation task, and
nothing of the listener (the poller alone must end the stream).

### Disagreements found

* `lost_wakeup` - the questions are visible before the task subscribes
  (`generation.py:344`, `:348`).  An answer sent in between is stored, its continue message
  reaches nobody, and after 300 seconds the persona fails with "Timed out waiting for
  clarification answers."
* `retry_futile` - the handler of an unexpected exception commits FAILED (`:483`) before the
  retry, which then returns at the terminal check (`:236`).  The docstring of `_NoRetry`
  says such exceptions "should retry up to max_retries".
* `double_submit` - a round submitted twice is filed under the next round and consumes the
  next wait (`personas.py:212`); the follow-up prompt lacks answers the user gave.
* `stream_published` - `_poll_db` "Sets stop_event on any terminal state", but not for
  PUBLISHED: the stream of a published persona polls for ever.
* `never_cached` - `get_or_set` promises to "cache and return the result" (`core/cache.py:93`).
  A non-empty explore listing holds UUIDs, `json.dumps` raises inside `set`, whose except
  clause logs it: only the empty listing is ever cached, and every other request queries the
  database, one after the other under the lock.
* `upgrade_overwritten` - the re-check "inside the lock" (`admin/users.py:35`) looks at the
  object of the first query, so that the second of two concurrent upgrades overwrites
  `upgraded_at`, which the endpoint says it preserves.

Smaller ones, without a run.

Generation: a reply without JSON raises in `extract_json` (`llm/utils.py:20`) and ends as
INTERNAL_ERROR, so the branch for `json.JSONDecodeError` (`generation.py:270`) is not reached
through the Gemini adapter; the follow-up prompt leaves out the user's first prompt and file;
the module header says the task publishes its questions, but only the poller shows them;
`_fetch_clarification_message` is documented to return a list and returns the stored object;
the relay of a redelivered task may report an error for a persona that is generated; a reply whose
files are null or empty is stored as a generated persona (`persona_apply.py:43-44`); an exception
before the `try` (`generation.py:217-223`, `refine.py:181-186`) leaves the row in progress, or the
response open, without an event; `GET /personas/{id}/stream` serves a deleted persona until the
purge takes its row from under the stream.

Refinement and publishing: the retry after an unexpected exception answers nobody, the relay
having ended on the error event (`refine.py:383`); a refinement that read GENERATED and commits
after a publication leaves the row PUBLISHED with files that were never pushed, although
`test_refine_task.py:213` wants a refinement to drop the status; a repository is named after
the persona's name, so that personas of one name overwrite each other's
(`publish_service.py:95`); the files of a dropped skill stay in the repository; a persona that
was published privately, refined and then published publicly keeps visibility PRIVATE and is
never listed; `published_at` is never set although the listing is ordered by it; `is_listed`
is not looked at although the endpoint speaks of listed personas.

Cache: `set` computes the version again (`core/cache.py:69`), so that an (empty) listing fetched
before an invalidation is stored under the new version, although bumping "instantly invalidates
all entries" (`:31`); `CacheIsCurrent` promises nothing of such an entry.

Accounts: `GET /personas/{id}/stream` takes its access token as a query parameter, decodes it
itself and never compares its version with the row's (`personas.py:572-588`), so that a token
from before a password reset still opens a stream until it expires, while `get_current_user`
refuses it everywhere else (`ResetEndsSessions` and its theorem speak of the latter only); two
resets that overlap count one version together; a refresh whose two reads straddle a reset mints
an access token of the new version from a token that was revoked; a login with the old password
that overlaps a reset leaves an active refresh token; two GitHub logins that overlap are both
active; Google logins rotate nothing, although `docs/edge-cases.md:19` says every OAuth session
mint does; the GitHub callback takes over the row that has its email and replaces its account,
where `docs/system-design.md:47` and `test_github_oauth.py:239` want a link confirmation;
"Failed to resolve user after concurrent OAuth registration" is reachable if the row that won
the race changes its account before the second look; a link confirmed for a disabled user is
rolled back with its `consumed_at`, where `docs/edge-cases.md` says it is still consumed.

Others: a refused card reported late overwrites SUCCEEDED (`payment.py:136`), and two open
checkouts can both be paid; a key can be marked exhausted for a 429 that an older client's key
was answered, the 429 of a second attempt marks nothing, and no mark is ever cleared;
`_upsert` is documented as always incrementing `install_count` and loses increments to
concurrent tasks and to the synchronisation; the synchronisation loses its batch to one slug
that a task inserts meanwhile; `apply_generation` cannot go on "without skills" after a database
error, its transaction being aborted; a cursor whose row was purged starts again at the first
page.

## Proofs

Every safety property the passing runs check is also a theorem, for every value of the
constants, and so is the safety half of each liveness property.  The hypotheses are the named
assumptions of the modules (`ConstantsAssumption`, `StreamAssumption`, ...), which TLC evaluates
in the runs, and what a theorem states beside them.

`PersonaGenerationProofs` (any sets of deliveries and requests, any caps):

| theorem | property | hypotheses | inductive invariant |
|---|---|---|---|
| `TypeCorrect` | `TypeOK` | none | `TypeInv` |
| `QuestionsAlwaysExist` | `QuestionsExist` | none | `TypeInv /\ QuestionsInv` |
| `GeneratedIsComplete` | `GeneratedComplete` | none | `TypeInv /\ CompleteInv` |
| `SingleDeliveryCallsBounded` | `LlmCallsBounded` | one delivery | `TypeInv /\ BudgetInv` |
| `FilesFromOneReply` | `GeneratedFromOneReply` | one delivery | `TypeInv /\ OneReplyInv` |
| `RowFollowsLifecycle` | `ImplementsLifecycle` | one delivery, a refused enqueue took no message | `TypeInv /\ BudgetInv /\ LifeInv` |
| `ErrorEventsAreFinal` | `AnnouncedIsFinal` | the same, and the recovery reaches the database | the same `/\ FinalInv` |
| `PromptHasAllAnswers` | `AnswersReachPrompt` | one delivery, a disciplined client | `TypeInv /\ QuestionsInv /\ BudgetInv /\ OneReplyInv /\ AnswerInv` |

The hypotheses are those under which the property is true.  "One delivery" is
`SingleDelivery`: no two deliveries of the message overlap, while crashes, redeliveries after
them, retries and exceptions are all there; with two, the runs each write their own cached copy.
`"ambiguous_delay" \notin Faults` excludes the row that is marked QUEUE_UNAVAILABLE while a
worker generates it, which no lifecycle allows; `double_submit` shows what an undisciplined
client does.  `generation_reliable` checks under the same hypotheses.

None of the properties is inductive as it stands; what each is strengthened by says why the code
is right:

- `TypeInv` adds `CodeKnown` (a run about to publish an error event holds a real code: `Fail` set
  it) and `RoomLeft` (a clarify request past its cap check read a counter below the cap, so the
  value it commits later is within it, stale or not).
- `QuestionsInv` speaks of the counter each run carries in memory as well as of the row's: the
  in-memory counter is what the next commit writes, so its questions must be stored too.
- `CompleteInv` says that a run past its load has a positive attempt number (`AttemptKnown`),
  that from the commit of the files to the final commit they are in the row or were left blank
  by a reply (`FilesStored`, which needs that no step of any other run removes a file:
  `FilesStay`), and that a publish request past its status check works on a complete persona
  (`GeneratedInv`).
- `BudgetInv` says that a run on its way to a call has one call in hand (`CallInHand`) and that
  its counter is the row's (`CountersAgree`), which is where a second delivery would break it:
  two runs ask the same round and the row counts it once.
- `LifeInv` ties the task's place to the row's status (`Tracks`): the status it caches is the
  row's wherever it writes through it, so that `StatusWrite` takes a step of the lifecycle.
- `FinalInv` says that whoever announces an error has read or written a terminal row, and that
  before any crash no message is on its way to a run after the persona succeeded.
- `OneReplyInv` says that nothing is published or succeeded while the run works, and that the
  files are whole from the commit of the reply to the end of the run.
- `AnswerInv` follows a round from its question to the prompt: the session has counted every
  round but perhaps the last, whose one answer is then under way (`SessionInv`, `RequestsInv`),
  and a run that holds or has consumed a continue message finds all rounds answered (`Informed`).

The steps of a run fall into three groups the lemmas share: those that forget its cached
attributes (`Forgets`), those that fail it (`Fails`) and those that advance it (`Advances`); the
frame lemmas (`RoundFrame`, `PlacesFrame`, `CountsFrame`, `BudgetFrame`) say what each group
leaves alone.

`RowFollowsLifecycle` is the refinement of the abstract specification, step by step: every
action of the endpoints and of the task is a step of `PersonaLifecycle` on `status`, `rounds` and
`error`, or leaves them alone.  It is also what `PersonaStream` builds on, whose row moves by
those steps.

The other proof modules follow one pattern: types first, then one invariant per theorem, each
with a lemma that every step keeps it.  (The last section of three of them is on termination,
see below.)

| theorem | what it adds to the run | inductive invariant, and why it is needed |
|---|---|---|
| `ResetEndsEarlierSessions` | `ResetEndsSessions` for any number of logins, refreshes and resets | `PasswordInv`: logins and refreshes on their way are of the account's password unless marked as overtaken; `VersionInv`: no token has a later version than the row, and a reset in progress holds the row's version and password unless two overlapped |
| `LinksAreUsedOnce` | `LinkUsedOnce` | `LinkInv`: a reset in progress holds a link that is still unused, and no other holds the same one |
| `RotationEndsOlderSessions` | `RotationEndsOlder` | `RotationInv`: what a login has seen active can only be revoked, and an UPDATE under way has found all of it that is still active |
| `PaymentsSettle` | `PaymentSettled` for any number of checkouts and handlers | `RowsAreCommitted`: only a committed checkout has a row; `HooksAreFounded`: what a handler has read still holds at its commit, up to a late refusal |
| `OnlyRefusedKeysAreMarked` | `OnlyRefusedKeysMarked` for any number of keys and adapters | `KeysInv`: who waits for the lock blames a key that was refused or misjudged (`BlameIsFounded`); the search for the next key ends at the first one not exhausted (`NextIndexFound`) |
| `MatchedAreStored` | `MatchedSkillsAreStored` for any suggestions, caps and number of matchings | `SkillsInv`: what a matching under way has resolved to is committed or its own, and one that was refused can find the row that refused it (`SoundMatching`) |
| `SignedInAsOwner`, `RefusalAlwaysResolved` | `SignedInIsOwner`, `RefusalIsResolved` for any number of sign-ins, registrations and links | `IdentitiesInv`: what a request has found is still so or has been replaced (`SoundRequest`), for which every step's table extends the one before (`Extends`) |
| `FirstLoginRaceResolved` | `FirstLoginRaceIsResolved` for any number of racing sign-ins | `RaceInv`: every email and account in the table is that of some request (`Traced`), so that a sign-in which meets only its own repetitions finds both on one row or on none (`OneOwner`) and stays on the way that ends in a session (`OnCourse`) |
| `PublishedStaysPushed`, `ListedStaysPublic` | `PublishedIsPushed`, `ListedIsPublicRepository` for any number of personas, files, publications and refinements | `PublishingInv`: a publication that is `alone` still agrees with the row and has pushed all it has passed (`SoundPublication`); a public row is at no user's repository (`SoundRow`) |
| `CountStaysExact`, `TokensStayBounded` | `CountIsExact`, `TokensAreSpent` for any number of requests, runs and upgrades | `CountedAreCommitted`: who is counted has committed and what each request has read; `MemoryIsSpent`: a run holds no more than was spent |
| `ExploreTypeCorrect`, `CacheStaysCurrent`, `LockSparesQueries` | `TypeOK`, `CacheIsCurrent`, `OneQueryPerVersion` for any number of readers | `FreshInv`: what is stored or about to be stored of the present version is the listing; `LockInv`: only the lock's holder is between the second look and the release, and a query already made has left its value with it or in the entry; `Counted`: each call accounts for two queries at most |
| `StreamTypeCorrect`, `CompleteIsComplete`, `TerminalEventsAreTrue`, `RoundsAreShownInOrder` | the invariants of `stream` for any files, rounds and attempts | `TellInv`: what the client got and what is queued, as one sequence, is true of the row (`ToldInv`); what the poller remembers having sent is in that sequence, and what it has read of a terminal row still holds (`PolledInv`); an error was heard only of a terminal row (`HeardInv`) |
| `RefineTypeCorrect`, `EndsAreStored`, `ShownWasStored`, `CommitsOnce`, `FilesAreMarked`, `PromptsHoldAnswers`, `NeverSilent` | the invariants of `refine` for any number of turns, files, retries and faults | `IInv`, a conjunction over the turns (`SoundTurn`): a task past its commit has stored a reply of its mode (`Recorded`), before it has nothing to repeat (`Once`), and its open response has carried at each step no more than that reply (`Faithful`) |
| `WalksShowOnce` | `WalkShowsOnce` for tables and pages of any size | `WalkInv`: while the cursor's row is there, of the rows left alone exactly those up to the cursor have been received; it needs that the WHERE clause takes up where ORDER BY left off (`ClauseFitsOrder`), whichever the order and the NULLs |
| `SessionsTypeCorrect` | `SessionsTypeOK` for any number of logins, links and resets | `BoundInv`: the version of the row, and every version a login, a token or a reset has copied from it, is at most the number of resets that have ended; each ends once (`OneMoreEnded`) |
| `CountersTypeCorrect` | `CountersTypeOK` for any number of requests, runs and upgrades | `CountersBound`: the count, and every count a request has read, is at most the number of committed requests (`CountWithin`); what was spent is some of the pairs of a run and a call (`CallsAreSpent`), which are finitely many |
| `ServicesKeepTheirSpecs`, `ServicesTypeCorrect` | the joint specification implements all seven; `MCServices.TypeOK` | a joint step moves one service and leaves the variables of the others (`OneServiceMoves`); the types then follow from the seven type theorems |

`PaymentsSettle`, `CountStaysExact`, `TokensStayBounded`, `OnlyRefusedKeysAreMarked` (with
`KeysTypeCorrect`) and `WalksShowOnce` are in `ServicesProofs`.  The theorems on publishing are
about the specification of `Explore`, so that they hold beside its cache.

Assumptions made for a proof: `PaginationAssumption` (a finite table of integer ids, sort values
that are integers with a greatest one, and pages of at least one row; NULL is a value apart) and
the parts of `ExploreAssumption` that say that the readers are finitely many and that "no entry"
(`NoEntry`) is not an entry; `CountersAssumption` says that requests and runs are finitely many
and that "no time" is not an administrator.

### Termination

Fairness and ENABLED are outside the prover's reach, so the liveness properties
(`DeliveredTerminates`, `StreamEnds`, `RoundShown`) are only model-checked.  What they rest on
besides fairness is proved, for every value of the constants and of every behaviour of `Spec`:

| theorem | nothing waits for nobody | each step brings the end nearer |
|---|---|---|
| `PersonaNeverAbandoned`, `RunsComeToAnEnd` (for `DeliveredTerminates`) | a persona whose message was delivered is terminal, or a run that will still write its status is unfinished, or the message was lost (`NoneAbandoned`; hypotheses: the recovery reaches the database and a run can be set up); the inductive invariant is `OpenInv`, that a run past its load caches an open status | a pair of Celery's retry and the steps left of this run (`StepsLeft`: the rounds up to the cap, then files, skills, recovery) grows smaller with every step or exception of a run, is left alone by everyone else, and is reset only by the crash of that run's worker |
| `StreamComesToItsEnd` (for `StreamEnds`) | while a response is open its poller runs or has queued `_DONE` (`ResponseIsServed`) | once the persona is generated, failed or purged, or the poller has left its loop, `Remaining` (the events queued, and the steps and events the poller and the listener have ahead) decreases with every step of poller, listener and generator; nothing but a publication, which `StreamEnds` excepts, makes it end otherwise |
| `RoundsAreQueued` (for `RoundShown`) | what the poller remembers having asked was received or is queued | while the persona is there and stays in a round, `UntilAsked` decreases with every step of the poller, at most from six |
| `TurnsComeToAnEnd` | an open response has a task that has still to publish a terminal event, unless one was dropped or the task is `abandoned`: its message lost, or its setup failed (`RelayIsServed`) | as for `RunsComeToAnEnd`, but for the chunks of a text, which depend on the model alone |

That the steps these measures count are taken is `Fairness` (see the runs): a worker is always
able to take the next step of a run that has one, which is read off the guards and which TLC
checks with the liveness properties.  `RunsComeToAnEnd` counts the steps between two crashes:
`MaxCrashes` bounds the crashes in the model, the code sets no limit to them.

The history variables `attempts` and `calls` are unbounded in the
proofs; under TLC they are bounded by the retries and crashes.

## Not modelled

* Email verification and its resend (`services/auth.py:95-142`): one nullable column of one
  row; of two concurrent resends the later one's link works.
* The one-time tokens of the OAuth redirect (`services/ott_store.py`): written with one SET,
  consumed with one GETDEL.
* Disabled accounts, expiry times, rate limits, webhook signatures, the OAuth state cookie:
  guards that end a request before it changes anything.
* The payment gate of a private publication and the plan gates of `generate` and `refine`:
  commented out in the code.
* Soft deletion of skills and the other single-row edits of `admin/skills.py`: every skill is
  active in `SkillStore`.  (With them the instance is out of reach; a deleted skill that a
  matching or the synchronisation meets again in the registry is set active, `matcher.py`
  and `skill_sync.py` both writing `is_active`.)
* Clarify requests over a second chat session: a persona that can be refined takes none.
* Leads and the waitlist (insert-only, backed by a unique index), mail, metrics, schemas,
  migrations, the text of prompts and readmes, and dead code.

`scripts/get-pip.py` is a vendored archive and makes up 28563 of the 40071 lines of the
implementation; what is modelled is about a third of the rest.

## Plan

What is left, in order of worth:

1. A run that checks the end of every response of a refinement under fairness of the task; what
   it needs besides fairness is `TurnsComeToAnEnd`.
2. An abstract specification of a row after its generation: a refinement that read `published`
   makes a persona `generated` again, so that `PersonaLifecycle` ends with the generation.
3. Larger instances: three deliveries, three refinements, two keys of the cache.
