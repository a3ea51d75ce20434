---------------------------- MODULE PersonaRefine ----------------------------
(***************************************************************************)
(* Refinement of a generated persona, a turn at a time: the refine         *)
(* endpoint and its relay (api/endpoints/personas.py), the Celery task     *)
(* (worker/tasks/refine.py) and the Redis channel between them, which      *)
(* exists for one turn and keeps nothing for later subscribers.            *)
(*                                                                         *)
(* A persona file is the turn and the attempt that wrote it.               *)
(* A reply that leaves a file as the task read it does not write that      *)
(* column: the ORM compares with its cached copy, not with the row.        *)
(***************************************************************************)
EXTENDS Naturals, FiniteSets

CONSTANTS
  Turns,        \* POST /personas/{id}/refine requests, one task message each
  NoTurn,       \* who wrote the files of the generation task
  Files,        \* PERSONA_FILE_COLUMNS
  MaxRetries,   \* Celery max_retries (2 in the code)
  MaxFaults,    \* bound: exceptions, workers killed and events lost, together
  MaxSessions,  \* bound: chat sessions of the persona, one after the other
  Ambiguous     \* TRUE: the broker may take a message although delay raises

ASSUME RefineAssumption ==
  /\ NoTurn \notin Turns
  /\ MaxRetries \in Nat
  /\ MaxFaults \in Nat
  /\ MaxSessions \in Nat \ {0}
  /\ Ambiguous \in BOOLEAN

VARIABLES
  row,       \* the personas row: file columns, deleted
  current,   \* the oldest chat session not deleted, 0 for none
  opened,    \* chat sessions created so far
  log,       \* conversation_messages
  relay,     \* progress of each request and its relay
  seen,      \* history: turns whose result had been shown when a turn was accepted
  out,       \* what each response has carried
  task,      \* each turn's task
  stored,    \* history: the replies each turn committed
  attempts,  \* history: task runs that reached the LLM
  faults,    \* exceptions, crashes and lost events so far
  crashed,   \* history: a worker was killed
  lost       \* history: Redis has dropped an event

vars == <<row, current, opened, log, relay, seen, out, task, stored,
          attempts, faults, crashed, lost>>
trouble == <<faults, crashed, lost>>
api == <<current, opened, seen>>
db == <<row, log, stored>>

-----------------------------------------------------------------------------
Stamp == (Turns \cup {NoTurn}) \X Nat        \* turn and attempt
NoStamp == <<NoTurn, 0>>
Content == [Files -> Stamp]
Original == [f \in Files |-> NoStamp]
Message == [turn : Turns, role : {"user", "assistant"}, session : 1..MaxSessions]

TerminalEvents == {"done", "complete", "error"}
Event == [type : {"token", "status", "files"} \cup TerminalEvents,
          attempt : Stamp, files : Content]

Busy == {"queued", "loaded", "streaming"}     \* nothing committed yet
Held == (Busy \ {"queued"}) \cup {"announcing", "completing", "failing", "erring",
                                  "returning"}
\* abandoned: over without an event, the message lost or given up before the try.
Task == [pc : Held \cup Busy \cup {"absent", "done", "abandoned"}, retries : 0..MaxRetries,
         session : 0..MaxSessions, attempt : Stamp, mode : {"none", "text", "generation"},
         base : Content, reply : Content, context : SUBSET Message, alone : BOOLEAN]
NoTask == [pc |-> "absent", retries |-> 0, session |-> 0, attempt |-> NoStamp, mode |-> "none",
           base |-> Original, reply |-> Original, context |-> {}, alone |-> TRUE]

\* What one run committed, and the files the row had then; alone: no other turn's files
\* had been stored since it read them.
Result == [kind : {"text", "generation"}, attempt : Stamp, files : Content, alone : BOOLEAN]

\* How a response ended; "other" is an error event, the deadline, QUEUE_UNAVAILABLE or a
\* client that left, after which nothing depends on what it had carried.
Ends == {"open", "done", "complete", "other"}
Response == [end : Ends, tokens : SUBSET Stamp, files : SUBSET Content]
NoResponse == [end |-> "open", tokens |-> {}, files |-> {}]
Open == {"accepted", "relaying"}

TypeOK ==
  /\ row \in [files : Content, deleted : BOOLEAN]
  /\ current \in 0..opened
  /\ opened \in 0..MaxSessions
  /\ log \subseteq Message
  /\ relay \in [Turns -> Open \cup {"idle", "ended"}]
  /\ seen \in [Turns -> SUBSET Turns]
  /\ out \in [Turns -> Response]
  /\ task \in [Turns -> Task]
  /\ stored \in [Turns -> SUBSET Result]
  /\ attempts \in [Turns -> Nat]
  /\ faults \in 0..MaxFaults
  /\ crashed \in BOOLEAN
  /\ lost \in BOOLEAN

\* A generated persona, before its first refinement, with the session it was made in.
Init ==
  /\ row = [files |-> Original, deleted |-> FALSE]
  /\ current = 1
  /\ opened = 1
  /\ log = {}
  /\ relay = [t \in Turns |-> "idle"]
  /\ seen = [t \in Turns |-> {}]
  /\ out = [t \in Turns |-> NoResponse]
  /\ task = [t \in Turns |-> NoTask]
  /\ stored = [t \in Turns |-> {}]
  /\ attempts = [t \in Turns |-> 0]
  /\ faults = 0
  /\ crashed = FALSE
  /\ lost = FALSE

-----------------------------------------------------------------------------
(* The endpoint, and what else happens to the persona *)

Shown(t) == out[t].end \in {"done", "complete"}

\* The oldest session that is not deleted, or a new one; the user's message is committed
\* before the response starts.  The task is given the session's id.
Accept(t) ==
  /\ relay[t] = "idle"
  /\ ~row.deleted
  /\ \/ current # 0 /\ UNCHANGED <<current, opened>>
     \/ current = 0 /\ opened < MaxSessions /\ opened' = opened + 1 /\ current' = opened'
  /\ relay' = [relay EXCEPT ![t] = "accepted"]
  /\ log' = log \cup {[turn |-> t, role |-> "user", session |-> current']}
  /\ seen' = [seen EXCEPT ![t] = {u \in Turns : Shown(u) /\ task[u].session = current'}]
  /\ task' = [task EXCEPT ![t] = [@ EXCEPT !.session = current']]
  /\ UNCHANGED <<row, out, stored, attempts, trouble>>

\* DELETE /chat/sessions/{id}, a soft delete.
DeleteSession ==
  /\ current # 0
  /\ opened < MaxSessions                 \* bound: only if the next turn can open one
  /\ \E t \in Turns : relay[t] = "idle"   \* bound: only Accept looks at the sessions
  /\ current' = 0
  /\ UNCHANGED <<row, opened, log, relay, seen, out, task, stored, attempts, trouble>>

\* DELETE /personas/{id}: the persona and its sessions, in one commit.
DeletePersona ==
  /\ ~row.deleted
  /\ row' = [row EXCEPT !.deleted = TRUE]
  /\ current' = 0
  /\ UNCHANGED <<opened, log, relay, seen, out, task, stored, attempts, trouble>>

-----------------------------------------------------------------------------
(* _relay_refine *)

Queued(t) == [task EXCEPT ![t] = [@ EXCEPT !.pc = "queued"]]

\* The relay subscribes to the turn's channel before it queues the task: no event is missed.
Enqueue(t) ==
  /\ relay[t] = "accepted"
  /\ relay' = [relay EXCEPT ![t] = "relaying"]
  /\ task' = Queued(t)
  /\ UNCHANGED <<row, current, opened, log, seen, out, stored, attempts, trouble>>

\* The response ends and the subscription with it.
End(t, how) ==
  /\ relay' = [relay EXCEPT ![t] = "ended"]
  /\ out' = [out EXCEPT ![t] = IF how \in {"done", "complete"} THEN [@ EXCEPT !.end = how]
                                ELSE [NoResponse EXCEPT !.end = "other"]]

\* delay raises: QUEUE_UNAVAILABLE; the broker may have taken the message all the same.
EnqueueFails(t) ==
  /\ relay[t] = "accepted"
  /\ End(t, "other")
  /\ task' \in {task} \cup (IF Ambiguous THEN {Queued(t)} ELSE {})
  /\ UNCHANGED <<db, current, opened, seen, attempts, trouble>>

\* What a response carries after an event that does not end it.
Carrying(x, e) ==
  [x EXCEPT !.tokens = IF e.type = "token" THEN @ \cup {e.attempt} ELSE @,
            !.files = IF e.type = "files" THEN @ \cup {e.files} ELSE @]

\* Mutant: an error event does not end the response.
RelayedPastErrors(t, e) ==
  IF e.type \in TerminalEvents \ {"error"}
  THEN End(t, e.type)
  ELSE /\ out' = [out EXCEPT ![t] = Carrying(@, e)]
       /\ UNCHANGED relay

\* An event reaches the response; a terminal one ends it.  The channel keeps the order and
\* has one reader, so that the reading is part of the publishing.
Relayed(t, e) ==
  IF e.type \in TerminalEvents
  THEN End(t, e.type)
  ELSE /\ out' = [out EXCEPT ![t] = Carrying(@, e)]
       /\ UNCHANGED relay

\* REFINE_RELAY_IDLE_TIMEOUT_SECONDS without an event.
RelayTimeout(t) ==
  /\ relay[t] = "relaying"
  /\ End(t, "other")
  /\ UNCHANGED <<db, current, opened, seen, task, attempts, trouble>>

\* The client leaves; before the enqueue this leaves a turn without a task.
Disconnect(t) ==
  /\ relay[t] \in Open
  /\ End(t, "other")
  /\ UNCHANGED <<db, current, opened, seen, task, attempts, trouble>>

-----------------------------------------------------------------------------
(* The task *)

\* Mutant: a message that is delivered again has lost its session.
ForgetSession(t, pc, retries) ==
  [task EXCEPT ![t] = [NoTask EXCEPT !.pc = pc, !.retries = retries]]

\* What is kept of a run that ends or starts over: the message, with its retry count.
Forget(t, pc, retries) ==
  [task EXCEPT ![t] = [NoTask EXCEPT !.pc = pc, !.retries = retries,
                              !.session = task[t].session]]

Goto(t, from, to) ==
  /\ task[t].pc = from
  /\ task' = [task EXCEPT ![t] = [@ EXCEPT !.pc = to]]

Event0(type) == [type |-> type, attempt |-> NoStamp, files |-> Original]

Fault == faults < MaxFaults /\ faults' = faults + 1

\* _publish_event: a failure of Redis is logged, nobody is told; without a subscriber the
\* event is gone.
Publish(t, e) ==
  \/ /\ IF relay[t] = "relaying" THEN Relayed(t, e) ELSE UNCHANGED <<relay, out>>
     /\ UNCHANGED trouble
  \/ /\ Fault
     /\ lost' = TRUE
     /\ UNCHANGED <<relay, out, crashed>>

\* Mutant: the task of a deleted persona returns without an event.
LoadDeletedSilently(t) ==
  /\ row.deleted
  /\ Goto(t, "queued", "returning")
  /\ UNCHANGED <<db, api, relay, out, attempts, trouble>>

\* Deleted meanwhile: NOT_FOUND.
LoadDeleted(t) ==
  /\ row.deleted
  /\ Goto(t, "queued", "failing")
  /\ UNCHANGED <<db, api, relay, out, attempts, trouble>>

\* The persona and its session are read and stay cached.
Load(t) ==
  /\ task[t].pc = "queued"
  /\ ~row.deleted
  /\ attempts' = [attempts EXCEPT ![t] = @ + 1]
  /\ task' = [task EXCEPT ![t] = [@ EXCEPT
       !.pc = "loaded", !.attempt = <<t, attempts[t] + 1>>, !.base = row.files, !.alone = TRUE]]
  /\ UNCHANGED <<db, api, relay, out, trouble>>

\* Mutant: the transcript is made of the user's messages only.
ReadQuestionsOnly(t) ==
  /\ task[t].pc = "loaded"
  /\ task' = [task EXCEPT ![t] = [@ EXCEPT !.pc = "streaming",
       !.context = {m \in log : m.session = task[t].session /\ m.role = "user" /\ m.turn # t}]]
  /\ UNCHANGED <<db, api, relay, out, attempts, trouble>>

\* The session's messages, without the one that is being answered: build_refine_transcript.
ReadConversation(t) ==
  /\ task[t].pc = "loaded"
  /\ task' = [task EXCEPT ![t] = [@ EXCEPT !.pc = "streaming",
       !.context = {m \in log : m.session = task[t].session /\ ~(m.turn = t /\ m.role = "user")}]]
  /\ UNCHANGED <<db, api, relay, out, attempts, trouble>>

\* The first character that is not a space decides what the reply is.
FirstChunk(t, mode) ==
  /\ task[t].pc = "streaming"
  /\ task[t].mode = "none"
  /\ task' = [task EXCEPT ![t] = [@ EXCEPT !.mode = mode]]
  /\ Publish(t, [type |-> IF mode = "text" THEN "token" ELSE "status",
                 attempt |-> task[t].attempt, files |-> Original])
  /\ UNCHANGED <<db, api, attempts>>

\* Text is passed on as it comes, any number of chunks.
NextToken(t) ==
  /\ task[t].pc = "streaming"
  /\ task[t].mode = "text"
  /\ Publish(t, [type |-> "token", attempt |-> task[t].attempt, files |-> Original])
  /\ UNCHANGED <<db, api, task, attempts>>

\* The stream ends without text.
Empty(t) ==
  /\ task[t].mode = "none"
  /\ Goto(t, "streaming", "failing")
  /\ UNCHANGED <<db, api, relay, out, attempts, trouble>>

Answered(t, kind, files) ==
  /\ log' = log \cup {[turn |-> t, role |-> "assistant", session |-> task[t].session]}
  /\ stored' = [stored EXCEPT ![t] = @ \cup
       {[kind |-> kind, attempt |-> task[t].attempt, files |-> files, alone |-> task[t].alone]}]

\* Mutant: the answer is announced before it is committed.
StoreTextLate(t) ==
  /\ task[t].pc = "streaming"
  /\ task[t].mode = "text"
  /\ task' = [task EXCEPT ![t] = [@ EXCEPT !.pc = "completing"]]
  /\ UNCHANGED <<db, api, relay, out, attempts, trouble>>

\* The stream ends: the assistant's message is committed, then "done" goes out.
StoreText(t) ==
  /\ task[t].pc = "streaming"
  /\ task[t].mode = "text"
  /\ Answered(t, "text", Original)
  /\ task' = [task EXCEPT ![t] = [@ EXCEPT !.pc = "completing"]]
  /\ UNCHANGED <<row, api, relay, out, attempts, trouble>>

\* Mutant: a malformed generation is kept as far as it was applied.
MalformedKept(t) ==
  /\ task[t].mode = "generation"
  /\ Goto(t, "streaming", "failing")
  /\ \E f \in Files : row' = [row EXCEPT !.files[f] = task[t].attempt]
  /\ UNCHANGED <<log, stored, api, relay, out, attempts, trouble>>

\* Not JSON, not a generation, or one that apply_generation refuses: rolled back.
Malformed(t) ==
  /\ task[t].mode = "generation"
  /\ Goto(t, "streaming", "failing")
  /\ UNCHANGED <<db, api, relay, out, attempts, trouble>>

\* The files the row has after a reply that keeps those in kept as they were read.
Written(t, kept) == [f \in Files |-> IF f \in kept THEN row.files[f] ELSE task[t].attempt]
Replied(t, kept) == [f \in Files |-> IF f \in kept THEN task[t].base[f] ELSE task[t].attempt]

\* Files, skills, status, refine_used and the assistant's marker in one commit.
StoreGeneration(t, kept) ==
  /\ task[t].pc = "streaming"
  /\ task[t].mode = "generation"
  /\ row' = [row EXCEPT !.files = Written(t, kept)]
  /\ Answered(t, "generation", Written(t, kept))
  /\ task' = [u \in Turns |->
       IF u = t THEN [task[t] EXCEPT !.pc = "announcing", !.reply = Replied(t, kept)]
       ELSE [task[u] EXCEPT !.alone = @ /\ task[u].pc \notin Busy \ {"queued"}]]
  /\ UNCHANGED <<api, relay, out, attempts, trouble>>

\* Mutant: an event that cannot be published raises, and Celery retries the turn.
AnnounceFilesRaises(t) ==
  /\ task[t].pc = "announcing"
  /\ \/ /\ task' = [task EXCEPT ![t] = [@ EXCEPT !.pc = "completing"]]
        /\ Publish(t, [type |-> "files", attempt |-> task[t].attempt, files |-> task[t].reply])
     \/ /\ Fault
        /\ lost' = TRUE
        /\ task' = Forget(t, "erring", task[t].retries)
        /\ UNCHANGED <<relay, out, crashed>>
  /\ UNCHANGED <<db, api, attempts>>

\* The file events (and the skills) carry what the task's session holds.
AnnounceFiles(t) ==
  /\ Goto(t, "announcing", "completing")
  /\ Publish(t, [type |-> "files", attempt |-> task[t].attempt, files |-> task[t].reply])
  /\ UNCHANGED <<db, api, attempts>>

Complete(t) ==
  /\ task[t].pc = "completing"
  /\ Publish(t, Event0(IF task[t].mode = "text" THEN "done" ELSE "complete"))
  /\ task' = Forget(t, "returning", task[t].retries)
  /\ UNCHANGED <<db, api, attempts>>

\* _fail: the error event, then _NoRetry, which the task swallows.
FailEvent(t) ==
  /\ task[t].pc = "failing"
  /\ Publish(t, Event0("error"))
  /\ task' = Forget(t, "returning", task[t].retries)
  /\ UNCHANGED <<db, api, attempts>>

Return(t) ==
  /\ Goto(t, "returning", "done")
  /\ UNCHANGED <<db, api, relay, out, attempts, trouble>>

\* Anything unexpected before the commit: rolled back, an error event, a retry.
Raise(t) ==
  /\ task[t].pc \in Busy
  /\ Fault
  /\ task' = Forget(t, "erring", task[t].retries)
  /\ UNCHANGED <<db, api, relay, out, attempts, crashed, lost>>

\* The error event goes out, then Celery queues the message again or gives up.
ErrorEvent(t) ==
  /\ task[t].pc = "erring"
  /\ Publish(t, Event0("error"))
  /\ task' = IF task[t].retries < MaxRetries
               THEN Forget(t, "queued", task[t].retries + 1)
               ELSE Forget(t, "done", task[t].retries)
  /\ UNCHANGED <<db, api, attempts>>

\* The adapter, the Redis client, the engine or the ids cannot be made, before the try: no
\* event goes out, and Celery queues the message again or gives up.  Bounded by the retries.
SetupFails(t) ==
  /\ task[t].pc = "queued"
  /\ task' = IF task[t].retries < MaxRetries
               THEN Forget(t, "queued", task[t].retries + 1)
               ELSE Forget(t, "abandoned", task[t].retries)
  /\ UNCHANGED <<db, api, relay, out, attempts, trouble>>

\* acks_late: the message of a killed worker is delivered again, committed or not; but when
\* only the pool process dies, the worker acknowledges the message and it is lost, for
\* task_reject_on_worker_lost is not set.
Crash(t) ==
  /\ task[t].pc \in Held
  /\ Fault
  /\ crashed' = TRUE
  /\ \E pc \in {"queued", "abandoned"} : task' = Forget(t, pc, task[t].retries)
  /\ UNCHANGED <<db, api, relay, out, attempts, lost>>

-----------------------------------------------------------------------------
RelayStep(t) ==
  Enqueue(t) \/ EnqueueFails(t)

TaskStep(t) ==
  \/ LoadDeleted(t) \/ Load(t) \/ ReadConversation(t)
  \/ \E mode \in {"text", "generation"} : FirstChunk(t, mode)
  \/ Empty(t) \/ StoreText(t) \/ Malformed(t)
  \/ \E kept \in SUBSET Files : StoreGeneration(t, kept)
  \/ AnnounceFiles(t) \/ Complete(t) \/ FailEvent(t) \/ Return(t) \/ ErrorEvent(t)

Next ==
  \/ DeleteSession \/ DeletePersona
  \/ \E t \in Turns :
       \/ Accept(t) \/ RelayStep(t) \/ RelayTimeout(t) \/ Disconnect(t)
       \/ TaskStep(t) \/ NextToken(t) \/ Raise(t) \/ SetupFails(t) \/ Crash(t)

Spec == Init /\ [][Next]_vars

-----------------------------------------------------------------------------
(* Properties *)

\* A client that is told "done" or "complete" can rely on the turn: the reply of that kind
\* and the assistant's message were committed before, whatever crashed or was retried.
EndMeansStored ==
  \A t \in Turns : Shown(t) =>
    /\ \E m \in log : m.turn = t /\ m.role = "assistant"
    /\ \E s \in stored[t] : s.kind = IF out[t].end = "done" THEN "text" ELSE "generation"

\* Unless a worker was killed or Redis dropped an event, a finished response carried the
\* text, or the files, of one attempt, the one that was stored; and if no other refinement
\* came in between, the row did hold the files shown.
ShownIsStored ==
  ~crashed /\ ~lost =>
    \A t \in Turns : Shown(t) => \E s \in stored[t] :
      /\ out[t].tokens \subseteq {s.attempt}
      /\ s.alone => out[t].files \subseteq {s.files}

\* "publish failures must not retry already-committed turn state": without a crash a turn
\* commits one reply at most, however many of its events were lost.
CommittedOnce == ~crashed => \A t \in Turns : Cardinality(stored[t]) <= 1

\* Every file of the row was written by a reply whose marker is in the conversation.
FilesHaveMarker ==
  \A f \in Files : row.files[f] # NoStamp =>
    \E t \in Turns : \E s \in stored[t] :
      /\ s.kind = "generation"
      /\ s.attempt = row.files[f]
      /\ \E m \in log : m.turn = t /\ m.role = "assistant"

\* The model is given every answer that this session's user had seen when they wrote.
PromptHoldsAnswers ==
  \A t \in Turns : task[t].pc = "streaming" =>
    \A u \in seen[t] : u # t => \E m \in task[t].context : m.turn = u /\ m.role = "assistant"

\* Whatever a run met inside its try block (a deleted persona, a bad reply, an exception, and
\* each of these again after a redelivery), by the time it returns a terminal event has gone
\* out.  Three things alone leave a response to its deadline: an event that Redis dropped, a
\* message lost with its pool process, and a task that cannot be set up ("abandoned").
NoSilentEnd ==
  \A t \in Turns : task[t].pc \in {"returning", "done"} /\ relay[t] = "relaying" => lost
=============================================================================
