------------------------- MODULE PersonaGeneration -------------------------
(***************************************************************************)
(* The generation of one persona: the /generate and /clarify endpoints     *)
(* (api/endpoints/personas.py), the rows they share with the Celery task   *)
(* (personas, chat_sessions, conversation_messages), the task itself       *)
(* (worker/tasks/generation.py) and the Redis channel on which the clarify *)
(* endpoint wakes it.                                                      *)
(*                                                                         *)
(* The task reads the persona row once and keeps it in an ORM session that *)
(* never expires (expire_on_commit=False); a commit writes only the        *)
(* attributes that differ from that cached copy.  Each run therefore has   *)
(* its own `status' and `rounds', and writes through them.                 *)
(***************************************************************************)
EXTENDS Naturals, FiniteSets

CONSTANTS
  Runs,         \* deliveries of the Celery message (one, unless duplicated)
  Requests,     \* POST /personas/{id}/clarify requests
  MaxRounds,    \* MAX_CLARIFICATION_ROUNDS (5 in the code)
  MaxRetries,   \* Celery max_retries (2 in the code)
  MaxCrashes,   \* bound: worker processes killed while they hold the message
  Blanks,       \* bound: the columns that a reply may leave null or empty (all in the code)
  Faults,       \* which of FaultKinds the environment may inject
  Disciplined   \* TRUE: the client answers each asked round once, when asked

Columns == {"head", "tail"}     \* of the persona's files
FaultKinds == {"ambiguous_delay", "lost_message", "setup", "recovery", "publish"}

ASSUME ConstantsAssumption ==
  /\ MaxRounds \in Nat \ {0}
  /\ MaxRetries \in Nat
  /\ MaxCrashes \in Nat
  /\ Blanks \subseteq Columns
  /\ Faults \subseteq FaultKinds
  /\ Disciplined \in BOOLEAN

VARIABLES
  persona,    \* the personas row
  session,    \* the chat_sessions row
  log,        \* conversation_messages: rounds asked, and the answers filed in them
  api,        \* progress of the /generate request
  run,        \* progress and cached attributes of each delivery
  req,        \* progress and cached attributes of each clarify request
  announced,  \* error codes published on persona:{id}:events
  attempts,   \* runs that got past the terminal-status check
  calls,      \* LLM calls issued for this persona
  crashes,    \* worker crashes so far
  publishing  \* a publish request is between its status check and its commit

vars == <<persona, session, log, api, run, req, announced, attempts, calls, crashes, publishing>>

-----------------------------------------------------------------------------

(* Data.  An answer is the number of the round whose questions it answers, *)
(* 0 is no answer; an answer log maps each round's assistant message to    *)
(* the answer stored in it.  A persona file is the attempt that wrote it,  *)
(* 0 when it is NULL or empty; head and tail are the columns that are set  *)
(* before and after a reply breaks off.                                    *)

Rounds == 1..MaxRounds
AnswerLog == [Rounds -> 0..MaxRounds]
NoAnswers == [n \in Rounds |-> 0]

Terminal == {"generated", "published", "failed"}
Status == Terminal \cup
  {"absent", "draft", "generating", "needs_clarification", "skills_matching"}
Codes == {"INVALID_LLM_RESPONSE", "MAX_ROUNDS_REACHED", "CLARIFICATION_TIMEOUT",
          "INTERNAL_ERROR", "QUEUE_UNAVAILABLE"}
Replies == {"generation", "partial_generation", "clarification", "invalid", "non_json"}

BasePrompt == [kind |-> "base", context |-> NoAnswers]
FollowupPrompt(context) == [kind |-> "followup", context |-> context]
Prompt == [kind : {"base", "followup"}, context : AnswerLog]

\* blank: history, the columns that some reply left null or empty
Contents == [head : Nat, tail : Nat, blank : SUBSET Columns]
NoFiles == [head |-> 0, tail |-> 0, blank |-> {}]
Persona == [status : Status, rounds : 0..MaxRounds, error : Codes \cup {"none"},
            files : Contents]
Session == [round : 0..MaxRounds, context : AnswerLog, complete : BOOLEAN]
Log == [asked : SUBSET Rounds, answers : AnswerLog]

Working == {"loop", "calling", "replied", "asked", "waiting", "refresh",
            "files", "matching"}
Recovering == {"recovering", "mark_failed", "reraise"}
Held == Working \cup Recovering \cup {"announce", "returning"}   \* the message is unacked
RunPc == Held \cup {"absent", "queued", "done", "lost"}
Run == [pc : RunPc, retries : 0..MaxRetries, status : Status, rounds : 0..MaxRounds,
        prompt : Prompt, reply : Replies \cup {"none"}, inbox : BOOLEAN,
        empty : SUBSET Columns, attempt : Nat, code : Codes \cup {"none"}]
NoRun == [pc |-> "absent", retries |-> 0, status |-> "absent", rounds |-> 0,
          prompt |-> BasePrompt, reply |-> "none", inbox |-> FALSE,
          empty |-> {}, attempt |-> 0, code |-> "none"]

\* A run that starts over, or ends, keeps nothing but the message's retry count.
Forget(pc, retries) == [NoRun EXCEPT !.pc = pc, !.retries = retries]

Request == [pc : {"idle", "read", "compressed", "committed", "published", "silent"},
            answers : 0..MaxRounds, round : 0..MaxRounds, context : AnswerLog,
            view : AnswerLog, filed : BOOLEAN]
NoRequest == [pc |-> "idle", answers |-> 0, round |-> 0, context |-> NoAnswers,
              view |-> NoAnswers, filed |-> FALSE]

TypeOK ==
  /\ persona \in Persona
  /\ session \in Session
  /\ log \in Log
  /\ api \in {"idle", "created", "refused", "done"}
  /\ run \in [Runs -> Run]
  /\ req \in [Requests -> Request]
  /\ announced \subseteq Codes
  /\ attempts \in Nat
  /\ calls \in Nat
  /\ crashes \in 0..MaxCrashes
  /\ publishing \in BOOLEAN

Init ==
  /\ persona = [status |-> "absent", rounds |-> 0, error |-> "none",
                files |-> NoFiles]
  /\ session = [round |-> 0, context |-> NoAnswers, complete |-> FALSE]
  /\ log = [asked |-> {}, answers |-> NoAnswers]
  /\ api = "idle"
  /\ run = [r \in Runs |-> NoRun]
  /\ req = [q \in Requests |-> NoRequest]
  /\ announced = {}
  /\ attempts = 0
  /\ calls = 0
  /\ crashes = 0
  /\ publishing = FALSE

-----------------------------------------------------------------------------
(* POST /personas/generate *)

\* Persona, chat session and first message are committed in one transaction.
ApiCreate ==
  /\ api = "idle"
  /\ api' = "created"
  /\ persona' = [persona EXCEPT !.status = "draft"]
  /\ UNCHANGED <<session, log, run, req, announced, attempts, calls, crashes, publishing>>

\* generate_persona.delay returns: the message is in the broker.
ApiEnqueue(r) ==
  /\ api = "created"
  /\ api' = "done"
  /\ run' = [run EXCEPT ![r] = [@ EXCEPT !.pc = "queued"]]
  /\ UNCHANGED <<persona, session, log, req, announced, attempts, calls, crashes, publishing>>

\* delay raises; the broker may have taken the message before the error.
ApiRefuse ==
  /\ api = "created"
  /\ api' = "refused"
  /\ \/ UNCHANGED run
     \/ /\ "ambiguous_delay" \in Faults
        /\ \E r \in Runs : run' = [run EXCEPT ![r] = [@ EXCEPT !.pc = "queued"]]
  /\ UNCHANGED <<persona, session, log, req, announced, attempts, calls, crashes, publishing>>

ApiMarkUnavailable ==
  /\ api = "refused"
  /\ api' = "done"
  /\ persona' = [persona EXCEPT !.status = "failed", !.error = "QUEUE_UNAVAILABLE"]
  /\ UNCHANGED <<session, log, run, req, announced, attempts, calls, crashes, publishing>>

(* POST /personas/{id}/publish (one at a time), as far as the row goes: between its   *)
(* status check and its commit it calls GitHub, which may raise.                      *)

PublishBegin ==
  /\ persona.status = "generated"
  /\ publishing' = TRUE
  /\ UNCHANGED <<persona, session, log, api, run, req, announced, attempts, calls, crashes>>

PublishCommit ==
  /\ publishing
  /\ publishing' = FALSE
  /\ persona' = [persona EXCEPT !.status = "published"]
  /\ UNCHANGED <<session, log, api, run, req, announced, attempts, calls, crashes>>

PublishRaise ==
  /\ publishing
  /\ publishing' = FALSE
  /\ UNCHANGED <<persona, session, log, api, run, req, announced, attempts, calls, crashes>>

-----------------------------------------------------------------------------
(* The generation task *)

Goto(r, from, to) ==
  /\ run[r].pc = from
  /\ run' = [run EXCEPT ![r] = [@ EXCEPT !.pc = to]]

\* The row after run r commits status s: a value equal to its cached one is not
\* part of the UPDATE.
StatusWrite(r, s) == IF run[r].status = s THEN persona.status ELSE s

\* A terminal failure: status and code are committed; the event is still to be sent.
Fail(r, code, files) ==
  /\ persona' = [persona EXCEPT !.status = StatusWrite(r, "failed"),
                                !.error = code, !.files = files]
  /\ run' = [run EXCEPT ![r] = [@ EXCEPT
       !.pc = "announce", !.status = "failed", !.code = code,
       !.reply = "none", !.inbox = FALSE, !.empty = {}]]

\* What column c may hold once a reply that leaves the columns in blank null or empty has
\* been stored: NULL is not written over a column that was NULL when the row was read.
Stored(r, c, blank) ==
  IF c \notin blank THEN {run[r].attempt}
  ELSE {0} \cup {persona.files[d] : d \in {c} \cap run[r].empty}

\* A redelivered or retried message finds a terminal persona and does nothing.
RunSkip(r) ==
  /\ run[r].pc = "queued"
  /\ persona.status \in Terminal
  /\ run' = [run EXCEPT ![r] = Forget("done", run[r].retries)]
  /\ UNCHANGED <<persona, session, log, api, req, announced, attempts, calls, crashes, publishing>>

\* Mutant: the terminal-status check is gone, a redelivered message regenerates.
RunLoadAnyStatus(r) ==
  /\ run[r].pc = "queued"
  /\ run' = [run EXCEPT ![r] = [Forget("loop", run[r].retries) EXCEPT
               !.status = persona.status, !.rounds = persona.rounds,
               !.empty = {c \in Blanks : persona.files[c] = 0}, !.attempt = attempts + 1]]
  /\ attempts' = attempts + 1
  /\ UNCHANGED <<persona, session, log, api, req, announced, calls, crashes, publishing>>

RunLoad(r) ==
  /\ run[r].pc = "queued"
  /\ persona.status \notin Terminal
  /\ run' = [run EXCEPT ![r] = [Forget("loop", run[r].retries) EXCEPT
               !.status = persona.status, !.rounds = persona.rounds,
               !.empty = {c \in Blanks : persona.files[c] = 0}, !.attempt = attempts + 1]]
  /\ attempts' = attempts + 1
  /\ UNCHANGED <<persona, session, log, api, req, announced, calls, crashes, publishing>>

\* Top of the while loop; its else branch needs rounds > MaxRounds.
RunBeginRound(r) ==
  /\ run[r].pc = "loop"
  /\ run[r].rounds <= MaxRounds
  /\ persona' = [persona EXCEPT !.status = StatusWrite(r, "generating")]
  /\ run' = [run EXCEPT ![r] = [@ EXCEPT !.pc = "calling", !.status = "generating"]]
  /\ calls' = calls + 1
  /\ UNCHANGED <<session, log, api, req, announced, attempts, crashes, publishing>>

\* The adapter returns; on text without JSON in it extract_json raises ValueError.
RunReply(r, k) ==
  /\ run[r].pc = "calling"
  /\ run' = [run EXCEPT ![r] = IF k = "non_json" THEN Forget("recovering", run[r].retries)
                                ELSE [run[r] EXCEPT !.pc = "replied", !.reply = k]]
  /\ UNCHANGED <<persona, session, log, api, req, announced, attempts, calls, crashes, publishing>>

Replied(r, k) == run[r].pc = "replied" /\ run[r].reply = k

\* Mutant: a reply that does not validate is asked for again.
RunInvalidAsksAgain(r) ==
  /\ Replied(r, "invalid")
  /\ run' = [run EXCEPT ![r] = [@ EXCEPT !.pc = "loop", !.reply = "none"]]
  /\ UNCHANGED <<persona, session, log, api, req, announced, attempts, calls, crashes, publishing>>

\* Not an object, an unknown type, a clarification or a generation that does not validate.
RunInvalid(r) ==
  /\ Replied(r, "invalid")
  /\ Fail(r, "INVALID_LLM_RESPONSE", persona.files)
  /\ UNCHANGED <<session, log, api, req, announced, attempts, calls, crashes, publishing>>

\* Mutant: a column is set only if the reply has it, a missing file goes unnoticed.
RunPartialTolerated(r) ==
  /\ Replied(r, "partial_generation")
  /\ persona' = [persona EXCEPT !.files.head = run[r].attempt]
  /\ run' = [run EXCEPT ![r] = [@ EXCEPT !.pc = "files", !.reply = "none"]]
  /\ UNCHANGED <<session, log, api, req, announced, attempts, calls, crashes, publishing>>

\* A generation without the key of one of the files: the columns set before it are committed.
RunPartial(r) ==
  /\ Replied(r, "partial_generation")
  /\ \E blank \in SUBSET (Blanks \cap {"head"}) : \E head \in Stored(r, "head", blank) :
       Fail(r, "INVALID_LLM_RESPONSE",
            [persona.files EXCEPT !.head = head, !.blank = @ \cup blank])
  /\ UNCHANGED <<session, log, api, req, announced, attempts, calls, crashes, publishing>>

RunRoundCap(r) ==
  /\ Replied(r, "clarification")
  /\ run[r].rounds >= MaxRounds
  /\ Fail(r, "MAX_ROUNDS_REACHED", persona.files)
  /\ UNCHANGED <<session, log, api, req, announced, attempts, calls, crashes, publishing>>

AskRound(r, n, asked) ==
  /\ persona' = [persona EXCEPT !.status = StatusWrite(r, "needs_clarification"), !.rounds = n]
  /\ log' = [log EXCEPT !.asked = asked]
  /\ run' = [run EXCEPT ![r] = [@ EXCEPT
       !.pc = "asked", !.status = "needs_clarification", !.rounds = n, !.reply = "none"]]
  /\ UNCHANGED <<session, api, req, announced, attempts, calls, crashes, publishing>>

\* Mutant: the cap compares with > instead of >=.
RunAskOffByOne(r) ==
  /\ Replied(r, "clarification")
  /\ run[r].rounds <= MaxRounds
  /\ LET n == run[r].rounds + 1 IN AskRound(r, n, log.asked \cup {n})

\* Mutant: counter and status are committed without the questions.
RunAskUnstored(r) ==
  /\ Replied(r, "clarification")
  /\ run[r].rounds < MaxRounds
  /\ LET n == run[r].rounds + 1 IN AskRound(r, n, log.asked)

\* Counter, status and the assistant message with the questions commit together.
RunAsk(r) ==
  /\ Replied(r, "clarification")
  /\ run[r].rounds < MaxRounds
  /\ LET n == run[r].rounds + 1 IN AskRound(r, n, log.asked \cup {n})

\* Subscription starts only after the questions are visible.
RunSubscribe(r) ==
  /\ Goto(r, "asked", "waiting")
  /\ UNCHANGED <<persona, session, log, api, req, announced, attempts, calls, crashes, publishing>>

RunContinue(r) ==
  /\ run[r].pc = "waiting"
  /\ run[r].inbox
  /\ run' = [run EXCEPT ![r] = [@ EXCEPT !.pc = "refresh", !.inbox = FALSE]]
  /\ UNCHANGED <<persona, session, log, api, req, announced, attempts, calls, crashes, publishing>>

\* CLARIFICATION_TIMEOUT_SECONDS pass; a message may still be unread.
RunTimeout(r) ==
  /\ run[r].pc = "waiting"
  /\ Fail(r, "CLARIFICATION_TIMEOUT", persona.files)
  /\ UNCHANGED <<session, log, api, req, announced, attempts, calls, crashes, publishing>>

\* Mutant: no db.refresh, the context is the empty one read when the task started.
RunRefreshStale(r) ==
  /\ run[r].pc = "refresh"
  /\ run' = [run EXCEPT ![r] = [@ EXCEPT !.pc = "loop", !.prompt = FollowupPrompt(NoAnswers)]]
  /\ UNCHANGED <<persona, session, log, api, req, announced, attempts, calls, crashes, publishing>>

\* db.refresh(session), then the follow-up prompt from its compressed context.
RunRefresh(r) ==
  /\ run[r].pc = "refresh"
  /\ run' = [run EXCEPT ![r] = [@ EXCEPT
       !.pc = "loop", !.prompt = FollowupPrompt(session.context)]]
  /\ UNCHANGED <<persona, session, log, api, req, announced, attempts, calls, crashes, publishing>>

\* apply_generation sets every column to what the reply has under its key, a null or an
\* empty text as well; the callback's first commit stores them.
RunApplyFiles(r) ==
  /\ Replied(r, "generation")
  /\ \E blank \in SUBSET Blanks :
       \E head \in Stored(r, "head", blank), tail \in Stored(r, "tail", blank) :
         persona' = [persona EXCEPT
           !.status = StatusWrite(r, "generating"),
           !.files = [head |-> head, tail |-> tail, blank |-> @.blank \cup blank]]
  /\ run' = [run EXCEPT ![r] = [@ EXCEPT
       !.pc = "files", !.status = "generating", !.reply = "none", !.empty = {}]]
  /\ UNCHANGED <<session, log, api, req, announced, attempts, calls, crashes, publishing>>

RunMatching(r) ==
  /\ run[r].pc = "files"
  /\ persona' = [persona EXCEPT !.status = StatusWrite(r, "skills_matching")]
  /\ run' = [run EXCEPT ![r] = [@ EXCEPT !.pc = "matching", !.status = "skills_matching"]]
  /\ UNCHANGED <<session, log, api, req, announced, attempts, calls, crashes, publishing>>

\* Status, session completion (and skill links and readme, not modelled) commit together.
RunFinish(r) ==
  /\ run[r].pc = "matching"
  /\ persona' = [persona EXCEPT !.status = StatusWrite(r, "generated")]
  /\ session' = [session EXCEPT !.complete = TRUE]
  /\ run' = [run EXCEPT ![r] = Forget("returning", run[r].retries)]
  /\ UNCHANGED <<log, api, req, announced, attempts, calls, crashes, publishing>>

\* _publish_error is best effort: a Redis failure is swallowed.
Announce(code) ==
  \/ announced' = announced \cup {code}
  \/ "publish" \in Faults /\ UNCHANGED announced

RunAnnounce(r) ==
  /\ run[r].pc = "announce"
  /\ run' = [run EXCEPT ![r] = Forget("returning", run[r].retries)]
  /\ Announce(run[r].code)
  /\ UNCHANGED <<persona, session, log, api, req, attempts, calls, crashes, publishing>>

\* The task returns (generate_persona swallows _NoRetry) and its message is acked.
RunReturn(r) ==
  /\ run[r].pc = "returning"
  /\ run' = [run EXCEPT ![r] = Forget("done", run[r].retries)]
  /\ UNCHANGED <<persona, session, log, api, req, announced, attempts, calls, crashes, publishing>>

-----------------------------------------------------------------------------
(* Unexpected exceptions, retries, crashes *)

\* Any await of the task may raise; what it has not committed is rolled back.
RunRaise(r) ==
  /\ run[r].pc \in Working \cup {"queued"}
  /\ run' = [run EXCEPT ![r] = Forget("recovering", run[r].retries)]
  /\ UNCHANGED <<persona, session, log, api, req, announced, attempts, calls, crashes, publishing>>

\* Mutant: the handler only logs.
RecoverReadLogsOnly(r) ==
  /\ run[r].pc = "recovering"
  /\ run' = [run EXCEPT ![r] = Forget("reraise", run[r].retries)]
  /\ UNCHANGED <<persona, session, log, api, req, announced, attempts, calls, crashes, publishing>>

\* The handler reads the row again in a session of its own.
RecoverRead(r) ==
  /\ run[r].pc = "recovering"
  /\ run' = [run EXCEPT ![r] = [@ EXCEPT
       !.pc = IF persona.status \in Terminal THEN "reraise" ELSE "mark_failed",
       !.status = persona.status]]
  /\ UNCHANGED <<persona, session, log, api, req, announced, attempts, calls, crashes, publishing>>

RecoverWrite(r) ==
  /\ run[r].pc = "mark_failed"
  /\ persona' = [persona EXCEPT !.status = StatusWrite(r, "failed"),
                                !.error = "INTERNAL_ERROR"]
  /\ run' = [run EXCEPT ![r] = Forget("reraise", run[r].retries)]
  /\ UNCHANGED <<session, log, api, req, announced, attempts, calls, crashes, publishing>>

\* The database is still unreachable: the second exception is logged and dropped.
RecoverFail(r) ==
  /\ "recovery" \in Faults
  /\ run[r].pc \in {"recovering", "mark_failed"}
  /\ run' = [run EXCEPT ![r] = Forget("reraise", run[r].retries)]
  /\ UNCHANGED <<persona, session, log, api, req, announced, attempts, calls, crashes, publishing>>

\* Celery queues the message again, or gives up.
Retried(r) ==
  [run EXCEPT ![r] = IF run[r].retries < MaxRetries THEN Forget("queued", run[r].retries + 1)
                     ELSE Forget("done", run[r].retries)]

\* The event goes out, then the retry.
RunReraise(r) ==
  /\ run[r].pc = "reraise"
  /\ Announce("INTERNAL_ERROR")
  /\ run' = Retried(r)
  /\ UNCHANGED <<persona, session, log, api, req, attempts, calls, crashes, publishing>>

\* get_llm_adapter raises before the try: no recovery and no event.
RunSetupFails(r) ==
  /\ "setup" \in Faults
  /\ run[r].pc = "queued"
  /\ run' = Retried(r)
  /\ UNCHANGED <<persona, session, log, api, req, announced, attempts, calls, crashes, publishing>>

\* acks_late: the message of a killed worker is delivered again (or, when only the
\* pool process dies, acknowledged by its parent and lost).
RunCrash(r) ==
  /\ crashes < MaxCrashes
  /\ crashes' = crashes + 1
  /\ run[r].pc \in Held
  /\ \/ run' = [run EXCEPT ![r] = Forget("queued", run[r].retries)]
     \/ /\ "lost_message" \in Faults
        /\ run' = [run EXCEPT ![r] = Forget("lost", run[r].retries)]
  /\ UNCHANGED <<persona, session, log, api, req, announced, attempts, calls, publishing>>

\* The broker's visibility timeout passes while run r still holds the message.
Duplicate(r, s) ==
  /\ run[r].pc \in Held
  /\ run[s].pc = "absent"
  /\ run' = [run EXCEPT ![s] = [@ EXCEPT !.pc = "queued", !.retries = run[r].retries]]
  /\ UNCHANGED <<persona, session, log, api, req, announced, attempts, calls, crashes, publishing>>

-----------------------------------------------------------------------------
(* POST /personas/{id}/clarify *)

\* What the client answers: a round whose questions it was shown.
MayAnswer(n) ==
  /\ n \in log.asked
  /\ Disciplined => /\ persona.status = "needs_clarification"
                    /\ n = persona.rounds
                    /\ \A q \in Requests : req[q].answers # n

\* The session row is read here; at the cap the request ends with 409.
ClarifyRead(q, n) ==
  /\ req[q].pc = "idle"
  /\ MayAnswer(n)
  /\ session.round < MaxRounds
  /\ req' = [req EXCEPT ![q] = [NoRequest EXCEPT
       !.pc = "read", !.answers = n, !.round = session.round, !.context = session.context]]
  /\ UNCHANGED <<persona, session, log, api, run, announced, attempts, calls, crashes, publishing>>

Target(q) == req[q].round + 1

\* upsert_answers into the message of round Target(q), matching question ids, then the
\* context of all rounds.  Another round's answers may or may not match by id.
ClarifyCompress(q) ==
  /\ req[q].pc = "read"
  /\ \E filed \in BOOLEAN :
       /\ filed => Target(q) \in log.asked
       /\ Target(q) \in log.asked /\ Target(q) = req[q].answers => filed
       /\ req' = [req EXCEPT ![q] = [@ EXCEPT
            !.pc = "compressed", !.filed = filed,
            !.view = IF filed THEN [log.answers EXCEPT ![Target(q)] = req[q].answers]
                              ELSE log.answers]]
  /\ UNCHANGED <<persona, session, log, api, run, announced, attempts, calls, crashes, publishing>>

\* Answers, context (when it differs from the one read) and counter commit together.
ClarifyCommit(q) ==
  /\ req[q].pc = "compressed"
  /\ req' = [req EXCEPT ![q] = [NoRequest EXCEPT !.pc = "committed",
                 !.answers = req[q].answers, !.round = req[q].round]]
  /\ log' = IF req[q].filed THEN [log EXCEPT !.answers[Target(q)] = req[q].answers] ELSE log
  /\ session' = [session EXCEPT
       !.round = Target(q),
       !.context = IF req[q].view = req[q].context THEN @ ELSE req[q].view]
  /\ UNCHANGED <<persona, api, run, announced, attempts, calls, crashes, publishing>>

\* The continue message names the session, not the round; only subscribers get it.
ClarifyPublish(q) ==
  /\ req[q].pc = "committed"
  /\ req' = [req EXCEPT ![q] = [@ EXCEPT !.pc = "published"]]
  /\ run' = [r \in Runs |-> [run[r] EXCEPT !.inbox = @ \/ run[r].pc = "waiting"]]
  /\ UNCHANGED <<persona, session, log, api, announced, attempts, calls, crashes, publishing>>

\* Redis is down, or the API process dies, after the commit.
ClarifySilent(q) ==
  /\ "publish" \in Faults
  /\ req[q].pc = "committed"
  /\ req' = [req EXCEPT ![q] = [@ EXCEPT !.pc = "silent"]]
  /\ UNCHANGED <<persona, session, log, api, run, announced, attempts, calls, crashes, publishing>>

-----------------------------------------------------------------------------
RunStep(r) ==
  \/ RunSkip(r) \/ RunLoad(r) \/ RunBeginRound(r)
  \/ \E k \in Replies : RunReply(r, k)
  \/ RunInvalid(r) \/ RunPartial(r) \/ RunRoundCap(r) \/ RunAsk(r)
  \/ RunSubscribe(r) \/ RunContinue(r) \/ RunTimeout(r) \/ RunRefresh(r)
  \/ RunApplyFiles(r) \/ RunMatching(r) \/ RunFinish(r) \/ RunAnnounce(r)
  \/ RunReturn(r) \/ RecoverRead(r) \/ RecoverWrite(r) \/ RecoverFail(r) \/ RunReraise(r)

ClarifyStep(q) ==
  ClarifyCompress(q) \/ ClarifyCommit(q) \/ ClarifyPublish(q) \/ ClarifySilent(q)

Next ==
  \/ ApiCreate \/ ApiRefuse \/ ApiMarkUnavailable
  \/ PublishBegin \/ PublishCommit \/ PublishRaise
  \/ \E r \in Runs : ApiEnqueue(r) \/ RunStep(r) \/ RunRaise(r) \/ RunSetupFails(r) \/ RunCrash(r)
  \/ \E r, s \in Runs : Duplicate(r, s)
  \/ \E q \in Requests : ClarifyStep(q) \/ \E n \in Rounds : ClarifyRead(q, n)

\* A delivered message is worked on: the LLM call returns or raises, the wait has a
\* deadline, and every other step is a statement of the task.
Fairness == \A r \in Runs : WF_vars(RunStep(r))

Spec == Init /\ [][Next]_vars
FairSpec == Spec /\ Fairness

-----------------------------------------------------------------------------
(* Properties *)

\* A follow-up prompt of a task that was never restarted holds, for every round asked
\* so far, the answers given to that round: the model "has everything it needs with no
\* memory of previous calls" (build_followup_prompt).  Needs a disciplined client.
AnswersReachPrompt ==
  \A r \in Runs :
    attempts <= 1 /\ run[r].pc = "calling" /\ run[r].prompt.kind = "followup"
      => \A n \in 1..run[r].rounds : run[r].prompt.context[n] = n

\* The round whose questions the event stream shows is stored, in every interleaving of
\* deliveries: a counter never runs ahead of its assistant message.
QuestionsExist == 1..persona.rounds \subseteq log.asked

\* A generated or published persona has a completed session, and no file is missing but
\* one that a reply itself left null or empty (which apply_generation does not check),
\* whatever was redelivered, duplicated or failed in between.
GeneratedComplete ==
  persona.status \in {"generated", "published"} =>
    /\ session.complete
    /\ \A c \in Columns : persona.files[c] > 0 \/ c \in persona.files.blank

\* With one delivery, the files of a generated persona come from one LLM reply, the one of
\* the last attempt, even when an earlier attempt left files behind.
GeneratedFromOneReply ==
  persona.status \in {"generated", "published"} =>
    \A c \in Columns : persona.files[c] \in {0, attempts}

\* Restarts included, the LLM is called at most once per attempt plus once per round.
LlmCallsBounded == calls <= attempts + persona.rounds

\* An error event is never about a persona that may still succeed.  Before any worker
\* crash the row is failed, with a code, by the time anybody receives the event.
AnnouncedIsFinal ==
  announced # {} => /\ persona.status \in Terminal
                    /\ crashes = 0 => persona.status = "failed"

\* A persona whose task was delivered reaches a terminal status (when the worker can be set
\* up and its database reached again).
DeliveredTerminates ==
  \A r \in Runs : run[r].pc = "queued" ~> persona.status \in Terminal

\* The row changes as the lifecycle allows.
Lifecycle == INSTANCE PersonaLifecycle WITH
  status <- persona.status, rounds <- persona.rounds, error <- persona.error,
  NoError <- "none"
ImplementsLifecycle == Lifecycle!Spec

\* A wait that times out with nothing unread was not answered: nobody had published the
\* answers of that round before the deadline.
TimeoutMeansUnanswered ==
  [][\A r \in Runs : RunTimeout(r) /\ ~run[r].inbox =>
       \A q \in Requests : req[q].pc = "published" => Target(q) # run[r].rounds]_vars

\* A retried task runs again: "generic exceptions ... should retry up to max_retries".
RetryRuns == [][\A r \in Runs : run[r].retries > 0 => ~RunSkip(r)]_vars
=============================================================================
