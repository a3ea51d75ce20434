---------------------------- MODULE PersonaStream ----------------------------
(***************************************************************************)
(* One server-sent-event stream of a persona's generation                  *)
(* (services/stream_service.py, GET /personas/{id}/stream): a poller of    *)
(* the persona row and a listener on persona:{id}:events put events on one *)
(* queue, the response generator takes them off it.  The row itself moves  *)
(* by the steps of PersonaLifecycle, which PersonaGeneration implements;   *)
(* the files and skills it is written with are added here.                 *)
(*                                                                         *)
(* An action is what one asyncio task does between two awaits.             *)
(***************************************************************************)
EXTENDS Naturals, Sequences, SequencesExt

CONSTANTS
  MaxRounds,    \* MAX_CLARIFICATION_ROUNDS (5 in the code)
  MaxAttempts,  \* bound: times the generation task starts on this persona
  Faults        \* which of "poller" and "listener" may raise

ASSUME StreamAssumption ==
  /\ MaxRounds \in Nat \ {0}
  /\ MaxAttempts \in Nat \ {0}
  /\ Faults \subseteq {"poller", "listener"}

VARIABLES
  status, rounds, error,  \* the persona row
  files,                  \* the attempt that wrote each file column, 0 for NULL
  skills,                 \* the persona has skill rows
  attempt,                \* the task's current attempt
  gone,                   \* the row has been purged; the others keep what it held last
  stream,                 \* the response generator
  view,                   \* the row the endpoint read
  poller, listener,       \* the two background tasks
  heard,                  \* an error event waits in the listener's subscription
  stop,                   \* stop_event
  queue,                  \* between the background tasks and the generator
  out                     \* what the client has received

row == <<status, rounds, error, files, skills, attempt, gone>>
client == <<stream, view, poller, listener, stop, queue, out>>
vars == <<row, client, heard>>

\* Files set before and after a partial reply breaks off, and the readme, which is only
\* committed with the final status and stands for every file that may stay empty.
FILE_COLUMNS == <<"head", "tail", "readme">>
Files == ToSet(FILE_COLUMNS)
Terminal == {"generated", "published", "failed"}
Status == Terminal \cup {"draft", "generating", "needs_clarification", "skills_matching"}

Version == [Files -> 0..MaxAttempts]
View == [status : Status, files : Version]
NoView == [status |-> "draft", files |-> [f \in Files |-> 0]]

Event(type, what, which) == [type |-> type, what |-> what, which |-> which]
FileEvent(f, n) == Event("file", f, n)
QuestionsEvent(n) == Event("clarification", "-", n)
Plain(type) == Event(type, "-", 0)
Done == Plain("_DONE")

NewPoller(pc) == [pc |-> pc, status |-> "draft", round |-> 0, sent_files |-> {},
                  skills_sent |-> FALSE, clarification_sent |-> {}]
Poller == [pc : {"none", "poll", "skills", "fetching", "final_skills", "sleeping", "closing", "done"},
           status : Status, round : 0..MaxRounds, sent_files : SUBSET Files, skills_sent : BOOLEAN,
           clarification_sent : SUBSET (1..MaxRounds)]

TypeOK ==
  /\ status \in Status /\ rounds \in 0..MaxRounds /\ error \in {"none", "code"}
  /\ files \in Version /\ skills \in BOOLEAN /\ attempt \in 0..MaxAttempts
  /\ gone \in BOOLEAN
  /\ stream \in {"idle", "opened", "live", "closed"} /\ view \in View
  /\ poller \in Poller
  /\ listener \in {"none", "subscribing", "listening", "done"}
  /\ heard \in BOOLEAN /\ stop \in BOOLEAN
  /\ \A e \in ToSet(queue) \cup ToSet(out) :
       e.type \in {"start", "file", "skills", "clarification", "complete", "error", "_DONE"}

Init ==
  /\ status = "draft" /\ rounds = 0 /\ error = "none"
  /\ files = [f \in Files |-> 0] /\ skills = FALSE /\ attempt = 0
  /\ gone = FALSE
  /\ stream = "idle" /\ view = NoView
  /\ poller = NewPoller("none")
  /\ listener = "none" /\ heard = FALSE /\ stop = FALSE
  /\ queue = <<>> /\ out = <<>>

-----------------------------------------------------------------------------
(* The generation task, the publisher and the events channel *)

Lifecycle == INSTANCE PersonaLifecycle WITH NoError <- "none"

\* The current attempt has committed the five persona files.
FilesWritten == attempt > 0 /\ files["tail"] = attempt

\* The steps that write the row need one, and leave the rest alone.
Exists == ~gone /\ UNCHANGED <<gone, client, heard>>

TaskStart ==
  /\ Exists
  /\ attempt < MaxAttempts
  /\ attempt' = attempt + 1
  /\ Lifecycle!Generate
  /\ UNCHANGED <<files, skills>>

TaskNextRound ==
  /\ Exists
  /\ status = "needs_clarification"
  /\ Lifecycle!Generate
  /\ UNCHANGED <<files, skills, attempt>>

TaskAsk ==
  /\ Exists
  /\ attempt > 0 /\ ~FilesWritten
  /\ Lifecycle!Ask
  /\ UNCHANGED <<files, skills, attempt>>

TaskWriteFiles ==
  /\ Exists
  /\ status = "generating" /\ attempt > 0 /\ ~FilesWritten
  /\ files' = [files EXCEPT !["head"] = attempt, !["tail"] = attempt]
  /\ UNCHANGED <<status, rounds, error, skills, attempt>>

TaskMatchSkills ==
  /\ Exists
  /\ FilesWritten
  /\ Lifecycle!MatchSkills
  /\ UNCHANGED <<files, skills, attempt>>

\* match_skills may find nothing and build_readme may fail.
TaskFinish ==
  /\ Exists
  /\ Lifecycle!Finish
  /\ \E n \in {0, attempt} : files' = [files EXCEPT !["readme"] = n]
  /\ skills' \in BOOLEAN
  /\ UNCHANGED attempt

\* Any of the task's failures; a reply without all its files leaves the first ones behind.
TaskFail ==
  /\ Exists
  /\ error' = "code"
  /\ Lifecycle!Fail
  /\ \E n \in {files["head"], attempt} : files' = [files EXCEPT !["head"] = n]
  /\ UNCHANGED <<skills, attempt>>

\* Error events come when the row is terminal (AnnouncedIsFinal of PersonaGeneration), and
\* reach whoever is subscribed.
TaskAnnounce ==
  /\ status \in Terminal
  /\ attempt > 1 \/ status = "failed"
  /\ listener = "listening"
  /\ heard' = TRUE
  /\ UNCHANGED <<row, client>>

Publish ==
  /\ Exists
  /\ Lifecycle!Publish
  /\ UNCHANGED <<files, skills, attempt>>

\* The nightly purge deletes the row of a persona that was deleted thirty days before, which
\* GET stream does not look at; its skills and messages go with it (ON DELETE CASCADE).
Purge ==
  /\ ~gone
  /\ gone' = TRUE
  /\ skills' = FALSE
  /\ UNCHANGED <<status, rounds, error, files, attempt, client, heard>>

-----------------------------------------------------------------------------
(* The response generator *)

\* stream_persona reads the row before the response starts.
StreamOpen ==
  /\ stream = "idle"
  /\ ~gone
  /\ stream' = "opened"
  /\ view' = [status |-> status, files |-> files]
  /\ UNCHANGED <<row, poller, listener, heard, stop, queue, out>>

\* The file events for the columns that are set and not yet sent.
FileEvents(version, sent) ==
  LET event(f) == IF version[f] # 0 /\ f \notin sent THEN <<FileEvent(f, version[f])>> ELSE <<>>
  IN  event(FILE_COLUMNS[1]) \o event(FILE_COLUMNS[2]) \o event(FILE_COLUMNS[3])
SkillEvents == IF skills THEN <<Plain("skills")>> ELSE <<>>

StreamFastPath ==
  /\ stream = "opened"
  /\ view.status \in {"generated", "failed"}
  /\ stream' = "closed"
  /\ view' = NoView
  /\ out' = <<Plain("start")>> \o
            IF view.status = "failed" THEN <<Plain("error")>>
            ELSE FileEvents(view.files, {}) \o SkillEvents \o <<Plain("complete")>>
  /\ UNCHANGED <<row, poller, listener, heard, stop, queue>>

StreamLivePath ==
  /\ stream = "opened"
  /\ view.status \notin {"generated", "failed"}
  /\ stream' = "live"
  /\ out' = <<Plain("start")>>
  /\ poller' = NewPoller("poll")
  /\ listener' = "subscribing"
  /\ view' = NoView
  /\ UNCHANGED <<row, heard, stop, queue>>

\* The finally block sets stop_event and cancels both tasks; what they had is dropped.
StreamClose ==
  /\ stream' = "closed"
  /\ stop' = TRUE
  /\ poller' = NewPoller("done")
  /\ listener' = "done"
  /\ queue' = <<>>
  /\ heard' = FALSE

StreamNext ==
  /\ stream = "live"
  /\ queue # <<>>
  /\ \/ /\ Head(queue) = Done
        /\ StreamClose
        /\ UNCHANGED out
     \/ /\ Head(queue) # Done
        /\ out' = Append(out, Head(queue))
        /\ queue' = Tail(queue)
        /\ UNCHANGED <<stream, stop, poller, listener, heard>>
  /\ UNCHANGED <<row, view>>

\* The client goes away.
StreamDisconnect ==
  /\ stream = "live"
  /\ StreamClose
  /\ UNCHANGED <<row, view, out>>

-----------------------------------------------------------------------------
(* _poll_db *)

PollerAlone == UNCHANGED <<row, stream, view, listener, heard, out>>

\* A terminal branch, an exception or a set stop_event leaves the loop; the session is
\* closed before the finally block runs.
Leave(p, q) ==
  /\ poller' = [p EXCEPT !.pc = "closing"]
  /\ queue' = q
  /\ stop' = TRUE

\* Mutant: one flag for all rounds.
AnyShown(p) == p.clarification_sent # {}

Shown(p) == p.round \in p.clarification_sent

\* Mutant: success as soon as the files are there.
SucceededEarly(p) == p.status \in {"skills_matching", "generated"}

Succeeded(p) == p.status = "generated"

\* The branch on the status read, once p has sent what it had and the queue is q.
Branch(p, q) ==
  \/ /\ p.status = "needs_clarification"
     /\ poller' = [p EXCEPT !.pc = IF Shown(p) THEN "sleeping" ELSE "fetching"]
     /\ queue' = q
     /\ UNCHANGED stop
  \/ /\ Succeeded(p)
     /\ p.skills_sent
     /\ Leave(p, Append(q, Plain("complete")))
  \/ /\ Succeeded(p)
     /\ ~p.skills_sent
     /\ poller' = [p EXCEPT !.pc = "final_skills"]
     /\ queue' = q
     /\ UNCHANGED stop
  \/ /\ p.status = "failed"
     /\ Leave(p, Append(q, Plain("error")))
  \/ /\ p.status \notin {"needs_clarification", "failed"}
     /\ ~Succeeded(p)
     /\ poller' = [p EXCEPT !.pc = "sleeping"]
     /\ queue' = q
     /\ UNCHANGED stop

\* Mutant: every column counts as sent, the empty ones too.
AfterReadAllSent == [poller EXCEPT !.status = status, !.round = rounds, !.sent_files = Files]

\* The row is read and its new files are queued.
AfterRead ==
  [poller EXCEPT !.status = status, !.round = rounds,
                 !.sent_files = @ \cup {f \in Files : files[f] # 0}]
QueueAfterRead == queue \o FileEvents(files, poller.sent_files)

PollRead ==
  /\ poller.pc = "poll" /\ ~stop
  /\ ~gone
  /\ IF poller.skills_sent THEN Branch(AfterRead, QueueAfterRead)
     ELSE /\ poller' = [AfterRead EXCEPT !.pc = "skills"]
          /\ queue' = QueueAfterRead
          /\ UNCHANGED stop
  /\ PollerAlone

\* There is no row any more: NOT_FOUND.
PollGone ==
  /\ poller.pc = "poll" /\ ~stop
  /\ gone
  /\ Leave(poller, Append(queue, Plain("error")))
  /\ PollerAlone

PollSkills ==
  /\ poller.pc = "skills"
  /\ Branch([poller EXCEPT !.skills_sent = skills], queue \o SkillEvents)
  /\ PollerAlone

PollFinalSkills ==
  /\ poller.pc = "final_skills"
  /\ Leave(poller, (queue \o SkillEvents) \o <<Plain("complete")>>)
  /\ PollerAlone

\* Mutant: the next round is recorded as sent.
PollFetchOffByOne ==
  /\ poller.pc = "fetching"
  /\ ~gone
  /\ queue' = Append(queue, QuestionsEvent(poller.round))
  /\ poller' = [poller EXCEPT !.pc = "sleeping", !.clarification_sent = @ \cup {poller.round + 1}]
  /\ UNCHANGED stop
  /\ PollerAlone

\* Mutant: the round is not recorded as sent.
PollFetchForgets ==
  /\ poller.pc = "fetching"
  /\ ~gone
  /\ queue' = Append(queue, QuestionsEvent(poller.round))
  /\ poller' = [poller EXCEPT !.pc = "sleeping"]
  /\ UNCHANGED stop
  /\ PollerAlone

\* The questions are committed with the counter (QuestionsExist of PersonaGeneration), so
\* the first query of _fetch_clarification_message finds them.
PollFetch ==
  /\ poller.pc = "fetching"
  /\ ~gone
  /\ queue' = Append(queue, QuestionsEvent(poller.round))
  /\ poller' = [poller EXCEPT !.pc = "sleeping", !.clarification_sent = @ \cup {poller.round}]
  /\ UNCHANGED stop
  /\ PollerAlone

\* CLARIFICATION_MSG_WAIT is over.
PollFetchNothing ==
  /\ poller.pc = "fetching"
  /\ gone
  /\ poller' = [poller EXCEPT !.pc = "sleeping"]
  /\ UNCHANGED <<queue, stop>>
  /\ PollerAlone

\* POLL_INTERVAL is over.
PollWake ==
  /\ poller.pc = "sleeping"
  /\ poller' = [poller EXCEPT !.pc = "poll"]
  /\ UNCHANGED <<queue, stop>>
  /\ PollerAlone

\* Mutant: the loop ends and nobody puts _DONE.
PollStoppedSilently ==
  /\ poller.pc = "poll" /\ stop
  /\ poller' = [poller EXCEPT !.pc = "done"]
  /\ UNCHANGED <<queue, stop>>
  /\ PollerAlone

PollStopped ==
  /\ poller.pc = "poll" /\ stop
  /\ Leave(poller, queue)
  /\ PollerAlone

\* Any query may raise: logged, the stream ends without an event.
PollRaise ==
  /\ "poller" \in Faults
  /\ poller.pc \in {"poll", "skills", "fetching", "final_skills"}
  /\ Leave(poller, queue)
  /\ PollerAlone

PollDone ==
  /\ poller.pc = "closing"
  /\ poller' = [poller EXCEPT !.pc = "done"]
  /\ queue' = Append(queue, Done)
  /\ UNCHANGED stop
  /\ PollerAlone

-----------------------------------------------------------------------------
(* _listen_redis_for_errors *)

ListenSubscribe ==
  /\ listener = "subscribing"
  /\ listener' = "listening"
  /\ UNCHANGED <<row, stream, view, poller, heard, stop, queue, out>>

\* A message may arrive in the get_message that was under way when stop_event was set.
ListenError ==
  /\ listener = "listening"
  /\ heard
  /\ listener' = "done"
  /\ queue' = Append(queue, Plain("error"))
  /\ stop' = TRUE
  /\ UNCHANGED <<row, stream, view, poller, heard, out>>

ListenStop ==
  /\ listener = "listening"
  /\ stop
  /\ listener' = "done"
  /\ UNCHANGED <<row, stream, view, poller, heard, stop, queue, out>>

\* Redis fails: logged, the poller goes on alone.
ListenRaise ==
  /\ "listener" \in Faults
  /\ listener \in {"subscribing", "listening"}
  /\ listener' = "done"
  /\ UNCHANGED <<row, stream, view, poller, heard, stop, queue, out>>

-----------------------------------------------------------------------------
PollStep ==
  \/ PollRead \/ PollGone \/ PollSkills \/ PollFinalSkills
  \/ PollFetch \/ PollFetchNothing \/ PollWake
  \/ PollStopped \/ PollRaise \/ PollDone

ListenStep == ListenSubscribe \/ ListenError \/ ListenStop \/ ListenRaise

Next ==
  \/ TaskStart \/ TaskNextRound \/ TaskAsk \/ TaskWriteFiles \/ TaskMatchSkills
  \/ TaskFinish \/ TaskFail \/ TaskAnnounce \/ Publish \/ Purge
  \/ StreamOpen \/ StreamFastPath \/ StreamLivePath \/ StreamNext \/ StreamDisconnect
  \/ PollStep \/ ListenStep

\* Queries return or raise, sleeps end, the event loop resumes every task that can run,
\* and the client reads or disconnects.  Nothing is assumed of the generation task.
Fairness == WF_vars(StreamNext) /\ WF_vars(PollStep)

Spec == Init /\ [][Next]_vars
FairSpec == Spec /\ Fairness

-----------------------------------------------------------------------------
(* Properties *)

Received(e) == e \in ToSet(out)

\* "complete" comes after every file of the persona, and after one attempt these are its
\* final contents (later ones are not sent again after a redelivery); the same for skills.
CompleteAfterFiles ==
  \A i \in DOMAIN out : out[i] = Plain("complete") =>
    LET before == ToSet(SubSeq(out, 1, i))
    IN  /\ \A f \in Files : files[f] # 0 =>
             \E n \in 1..attempt : /\ FileEvent(f, n) \in before
                                   /\ attempt = 1 => n = files[f]
        /\ skills => Plain("skills") \in before

\* The client is told "complete" only about a persona that is generated for good, and
\* "error" only about one that no longer changes or exists.
TerminalEventIsTrue ==
  /\ Received(Plain("complete")) => status \in {"generated", "published"}
  /\ Received(Plain("error")) => status \in Terminal \/ gone

\* Each round is shown at most once, and never after a later one.
RoundsInOrder ==
  \A i, j \in DOMAIN out :
    i < j /\ out[i].type = "clarification" /\ out[j].type = "clarification"
      => out[i].which < out[j].which

\* The response ends once the persona has failed, is generated and stays so, or is purged.
StreamEnds ==
  stream = "live" /\ (status \in {"generated", "failed"} \/ gone)
    ~> stream = "closed" \/ (status = "published" /\ ~gone)

\* A round that stays asked is shown, whichever rounds came before it.
RoundShown ==
  \A n \in 1..MaxRounds :
    stream = "live" /\ status = "needs_clarification" /\ rounds = n
      ~> \/ Received(QuestionsEvent(n))
         \/ status # "needs_clarification" \/ rounds # n \/ gone \/ stream = "closed"

\* "Sets stop_event on any terminal state": the stream of a published persona ends too.
PublishedStreamEnds == stream = "live" /\ status = "published" ~> stream = "closed"
=============================================================================
