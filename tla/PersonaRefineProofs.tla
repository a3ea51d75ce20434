------------------------ MODULE PersonaRefineProofs ------------------------
(***************************************************************************)
(* Theorems about PersonaRefine, for any number of turns, files, retries   *)
(* and faults.  Almost every step moves one turn, so that the invariant is *)
(* a conjunction over the turns (SoundTurn): what the row, the transcript, *)
(* the task and the response of a turn say about each other.  The last     *)
(* part is about termination: how far a task is from its last step.        *)
(***************************************************************************)
EXTENDS PersonaRefine, FiniteSetTheorems, TLAPS

Relays == Open \cup {"idle", "ended"}
Pcs == Held \cup Busy \cup {"absent", "done", "abandoned"}

\* The assistant's message of turn u in session s.
Told(u, s) == [turn |-> u, role |-> "assistant", session |-> s]

\* A turn has a session once it is accepted, and a message once its relay subscribed.
Placed(t) ==
  /\ relay[t] \in {"idle", "accepted"} => task[t].pc = "absent" /\ out[t] = NoResponse
  /\ relay[t] # "idle" => task[t].session \in 1..MaxSessions
  /\ relay[t] # "ended" => out[t].end = "open"
  /\ task[t].pc = "absent" => stored[t] = {}

\* What a turn committed is in the transcript, and comes before its announcement.
Recorded(t) ==
  /\ stored[t] # {} => Told(t, task[t].session) \in log
  /\ task[t].pc \in {"announcing", "completing"} =>
       /\ task[t].mode \in {"text", "generation"}
       /\ \E s \in stored[t] : s.kind = task[t].mode
  /\ Shown(t) => \E s \in stored[t] : s.kind = IF out[t].end = "done" THEN "text" ELSE "generation"

\* A run that has not committed has nothing to repeat, unless a worker was killed.
Once(t) ==
  ~crashed =>
    /\ task[t].pc \in Busy \cup {"failing", "erring"} => stored[t] = {}
    /\ \A r, s \in stored[t] : r = s

\* The response agrees with a stored reply.
Agrees(t, s) ==
  /\ out[t].tokens \subseteq {s.attempt}
  /\ s.alone => out[t].files \subseteq {s.files}

\* What an open response has carried so far, at each step of its task.
Carried(t) ==
  /\ task[t].pc \in Busy \cup {"announcing"} => out[t].files = {}
  /\ task[t].pc \in {"queued", "loaded", "announcing"} => out[t].tokens = {}
  /\ task[t].pc = "streaming" => /\ out[t].tokens \subseteq {task[t].attempt}
                                 /\ task[t].mode # "text" => out[t].tokens = {}
  /\ task[t].pc = "announcing" =>
       \E s \in stored[t] : s.attempt = task[t].attempt /\ (s.alone => s.files = task[t].reply)
  /\ task[t].pc = "completing" => \E s \in stored[t] : Agrees(t, s)

Faithful(t) ==
  /\ task[t].pc \in {"loaded", "streaming"} /\ task[t].alone => row.files = task[t].base
  /\ ~crashed /\ ~lost => /\ relay[t] = "relaying" => Carried(t)
                          /\ Shown(t) => \E s \in stored[t] : Agrees(t, s)

\* A run does not return before a terminal event went out.
Silent(t) == task[t].pc \in {"returning", "done"} /\ relay[t] = "relaying" => lost

\* The answers a user had seen are in the session's transcript, and in what the model is given.
Prompted(t) ==
  \A u \in seen[t] :
    /\ Told(u, task[t].session) \in log
    /\ task[t].pc = "streaming" /\ u # t => Told(u, task[t].session) \in task[t].context

SoundTurn(t) ==
  Placed(t) /\ Recorded(t) /\ Once(t) /\ Faithful(t) /\ Silent(t) /\ Prompted(t)

IInv == TypeOK /\ FilesHaveMarker /\ \A t \in Turns : SoundTurn(t)

-----------------------------------------------------------------------------
(* Types *)

LEMMA ConstantTypes ==
  /\ NoStamp \in Stamp /\ Original \in Content
  /\ NoResponse \in Response
  /\ NoTask \in Task
<1>1. NoStamp \in Stamp /\ Original \in Content
  BY DEF NoStamp, Stamp, Original, Content
<1>2. NoResponse \in Response
  BY DEF NoResponse, Response, Ends
<1>3. NoTask \in Task
  BY <1>1, RefineAssumption DEF NoTask, Task, Held, Busy
<1> QED
  BY <1>1, <1>2, <1>3

LEMMA TaskFields ==
  ASSUME NEW x \in Task
  PROVE  /\ x.pc \in Pcs /\ x.retries \in 0..MaxRetries /\ x.session \in 0..MaxSessions
         /\ x.attempt \in Stamp /\ x.mode \in {"none", "text", "generation"}
         /\ x.base \in Content /\ x.reply \in Content /\ x.context \subseteq Message
         /\ x.alone \in BOOLEAN
  BY DEF Task, Pcs

\* The values that actions assign to pc.
LEMMA Places ==
  {"absent", "done", "queued", "loaded", "streaming", "announcing", "completing", "failing",
   "erring", "returning", "abandoned"} = Pcs
  BY DEF Pcs, Held, Busy

\* A message that is delivered again, or gone, has its session and nothing else.
LEMMA ForgetEffect ==
  ASSUME TypeOK, NEW t \in Turns, NEW pc \in Pcs, NEW n \in 0..MaxRetries,
         task' = Forget(t, pc, n)
  PROVE  /\ task' \in [Turns -> Task]
         /\ task'[t] = [NoTask EXCEPT !.pc = pc, !.retries = n, !.session = task[t].session]
         /\ task'[t].pc = pc /\ task'[t].session = task[t].session
         /\ \A u \in Turns \ {t} : task'[u] = task[u]
<1>1. task \in [Turns -> Task] /\ task[t].session \in 0..MaxSessions
  BY TaskFields DEF TypeOK
<1>2. [NoTask EXCEPT !.pc = pc, !.retries = n, !.session = task[t].session] \in Task
  BY <1>1, ConstantTypes DEF Task, Pcs
<1>3. DEFINE x == [NoTask EXCEPT !.pc = pc, !.retries = n, !.session = task[t].session]
<1>4. x.pc = pc /\ x.session = task[t].session
  BY DEF NoTask
<1>5. task' = [task EXCEPT ![t] = x]
  BY DEF Forget
<1> HIDE DEF x
<1>6. x \in Task
  BY <1>2 DEF x
<1> QED
  BY <1>1, <1>4, <1>5, <1>6 DEF x

\* A task that only moves on is still a task.
LEMMA TaskPlaced ==
  ASSUME NEW x \in Task, NEW pc \in Pcs
  PROVE  [x EXCEPT !.pc = pc] \in Task
<1>1. [x EXCEPT !.pc = pc] =
        [pc |-> pc, retries |-> x.retries, session |-> x.session, attempt |-> x.attempt,
         mode |-> x.mode, base |-> x.base, reply |-> x.reply, context |-> x.context,
         alone |-> x.alone]
  BY DEF Task
<1> QED
  BY <1>1, TaskFields DEF Task, Pcs

LEMMA GotoEffect ==
  ASSUME TypeOK, NEW t \in Turns, NEW from, NEW to \in Pcs, Goto(t, from, to)
  PROVE  /\ task[t].pc = from
         /\ task' \in [Turns -> Task]
         /\ task'[t] = [task[t] EXCEPT !.pc = to]
         /\ \A u \in Turns \ {t} : task'[u] = task[u]
<1>1. task \in [Turns -> Task] /\ [task[t] EXCEPT !.pc = to] \in Task
  BY TaskPlaced DEF TypeOK
<1> QED
  BY <1>1 DEF Goto

\* A response that ends.
LEMMA EndEffect ==
  ASSUME TypeOK, NEW t \in Turns, NEW how \in TerminalEvents \cup {"other"}, End(t, how)
  PROVE  /\ relay' \in [Turns -> Relays] /\ out' \in [Turns -> Response]
         /\ relay'[t] = "ended"
         /\ out'[t] = IF how \in {"done", "complete"} THEN [out[t] EXCEPT !.end = how]
                      ELSE [NoResponse EXCEPT !.end = "other"]
         /\ \A u \in Turns \ {t} : relay'[u] = relay[u] /\ out'[u] = out[u]
<1> DEFINE x == IF how \in {"done", "complete"} THEN [out[t] EXCEPT !.end = how]
                ELSE [NoResponse EXCEPT !.end = "other"]
<1>1. relay \in [Turns -> Relays] /\ out \in [Turns -> Response]
  BY DEF TypeOK, Relays
<1>2. x \in Response
  BY <1>1, ConstantTypes DEF Response, Ends
<1>3. relay' = [relay EXCEPT ![t] = "ended"] /\ out' = [out EXCEPT ![t] = x]
  BY DEF End
<1> HIDE DEF x
<1>4. relay' \in [Turns -> Relays] /\ out' \in [Turns -> Response] /\ out'[t] = x
  BY <1>1, <1>2, <1>3 DEF Relays
<1> QED
  BY <1>1, <1>3, <1>4 DEF x

\* An event is dropped (and this is remembered), or nobody reads, or it reaches the response.
LEMMA PublishEffect ==
  ASSUME TypeOK, NEW t \in Turns, NEW e \in Event, Publish(t, e)
  PROVE  /\ relay' \in [Turns -> Relays] /\ out' \in [Turns -> Response]
         /\ faults' \in 0..MaxFaults /\ crashed' = crashed /\ lost' \in BOOLEAN
         /\ lost => lost'
         /\ \A u \in Turns \ {t} : relay'[u] = relay[u] /\ out'[u] = out[u]
         /\ \/ /\ relay'[t] = relay[t] /\ out'[t] = out[t]
               /\ lost' \/ relay[t] # "relaying"
            \/ /\ relay[t] = "relaying" /\ relay'[t] = "ended" /\ e.type \in TerminalEvents
               /\ out'[t] = IF e.type \in {"done", "complete"} THEN [out[t] EXCEPT !.end = e.type]
                            ELSE [NoResponse EXCEPT !.end = "other"]
            \/ /\ relay[t] = "relaying" /\ relay'[t] = "relaying" /\ e.type \notin TerminalEvents
               /\ out'[t] = Carrying(out[t], e)
<1>1. /\ relay \in [Turns -> Relays] /\ out \in [Turns -> Response]
      /\ faults \in 0..MaxFaults /\ lost \in BOOLEAN
  BY DEF TypeOK, Relays
<1>2. CASE relay[t] # "relaying" /\ UNCHANGED <<relay, out>> /\ UNCHANGED trouble
  BY <1>1, <1>2 DEF trouble
<1>3. CASE relay[t] = "relaying" /\ e.type \in TerminalEvents /\ Relayed(t, e)
           /\ UNCHANGED trouble
  <2>1. End(t, e.type) /\ e.type \in TerminalEvents \cup {"other"}
    BY <1>3 DEF Relayed
  <2>2. /\ relay' \in [Turns -> Relays] /\ out' \in [Turns -> Response]
        /\ relay'[t] = "ended"
        /\ out'[t] = IF e.type \in {"done", "complete"} THEN [out[t] EXCEPT !.end = e.type]
                     ELSE [NoResponse EXCEPT !.end = "other"]
        /\ \A u \in Turns \ {t} : relay'[u] = relay[u] /\ out'[u] = out[u]
    BY <2>1, EndEffect
  <2>3. faults' = faults /\ crashed' = crashed /\ lost' = lost
    BY <1>3 DEF trouble
  <2> QED
    BY <1>1, <1>3, <2>2, <2>3
<1>4. CASE relay[t] = "relaying" /\ e.type \notin TerminalEvents /\ Relayed(t, e)
           /\ UNCHANGED trouble
  <2>1. out' = [out EXCEPT ![t] = Carrying(out[t], e)] /\ relay' = relay
    BY <1>4 DEF Relayed
  <2>2. Carrying(out[t], e) \in Response
    BY <1>1 DEF Carrying, Response, Event
  <2> QED
    BY <1>1, <1>4, <2>1, <2>2 DEF trouble
<1>5. CASE Fault /\ lost' = TRUE /\ UNCHANGED <<relay, out, crashed>>
  BY <1>1, <1>5, RefineAssumption DEF Fault
<1> QED
  BY <1>2, <1>3, <1>4, <1>5 DEF Publish

-----------------------------------------------------------------------------
(* The turns that a step does not move *)

\* What a step of one turn leaves as it was in another: only its right to call itself alone
\* can be taken away, and the row then may change.
Undisturbed(u) ==
  /\ relay'[u] = relay[u] /\ out'[u] = out[u] /\ seen'[u] = seen[u] /\ stored'[u] = stored[u]
  /\ \/ task'[u] = task[u]
     \/ /\ task'[u] = [task[u] EXCEPT !.alone = task'[u].alone]
        /\ task[u].pc \in {"loaded", "streaming"} => ~task'[u].alone
  /\ row'.files = row.files \/ (task[u].pc \in {"loaded", "streaming"} => ~task'[u].alone)
  /\ log \subseteq log'
  /\ crashed => crashed'
  /\ lost => lost'

LEMMA Frame ==
  ASSUME TypeOK, TypeOK', NEW u \in Turns, SoundTurn(u), Undisturbed(u)
  PROVE  SoundTurn(u)'
<1>1. /\ task'[u].pc = task[u].pc /\ task'[u].session = task[u].session
      /\ task'[u].mode = task[u].mode /\ task'[u].attempt = task[u].attempt
      /\ task'[u].base = task[u].base /\ task'[u].reply = task[u].reply
      /\ task'[u].context = task[u].context
      /\ task[u].pc \in {"loaded", "streaming"} /\ task'[u].alone =>
           task[u].alone /\ row'.files = row.files
  <2>1. task[u] \in Task
    BY DEF TypeOK
  <2>2. CASE task'[u] = task[u]
    BY <2>2 DEF Undisturbed
  <2>3. CASE /\ task'[u] = [task[u] EXCEPT !.alone = task'[u].alone]
             /\ task[u].pc \in {"loaded", "streaming"} => ~task'[u].alone
    BY <2>1, <2>3 DEF Task
  <2> QED
    BY <2>2, <2>3 DEF Undisturbed
<1>2. /\ relay'[u] = relay[u] /\ out'[u] = out[u] /\ seen'[u] = seen[u] /\ stored'[u] = stored[u]
      /\ log \subseteq log' /\ (crashed => crashed') /\ (lost => lost')
  BY DEF Undisturbed
<1>3. Shown(u)' = Shown(u) /\ \A s : Agrees(u, s)' = Agrees(u, s)
  BY <1>2 DEF Shown, Agrees
<1>4. Placed(u)'
  BY <1>1, <1>2 DEF SoundTurn, Placed
<1>5. Recorded(u)'
  BY <1>1, <1>2, <1>3 DEF SoundTurn, Recorded, Told
<1>6. Once(u)'
  BY <1>1, <1>2 DEF SoundTurn, Once
<1>7. Faithful(u)'
  <2>1. Carried(u) => Carried(u)'
    BY <1>1, <1>2, <1>3 DEF Carried
  <2> QED
    BY <1>1, <1>2, <1>3, <2>1 DEF SoundTurn, Faithful
<1>8. Silent(u)' /\ Prompted(u)'
  BY <1>1, <1>2 DEF SoundTurn, Silent, Prompted, Told
<1> QED
  BY <1>4, <1>5, <1>6, <1>7, <1>8 DEF SoundTurn

LEMMA Others ==
  ASSUME NEW t \in Turns, row'.files = row.files, log \subseteq log',
         crashed => crashed', lost => lost',
         \A u \in Turns \ {t} : /\ relay'[u] = relay[u] /\ out'[u] = out[u] /\ seen'[u] = seen[u]
                                /\ stored'[u] = stored[u] /\ task'[u] = task[u]
  PROVE  \A u \in Turns \ {t} : Undisturbed(u)
  BY DEF Undisturbed

\* The parts of the invariant that a step of turn t has to establish.
Moved(t) == TypeOK' /\ SoundTurn(t)' /\ \A u \in Turns \ {t} : Undisturbed(u)

-----------------------------------------------------------------------------
(* The steps of the endpoint and of the relay *)

LEMMA AcceptMoves == ASSUME IInv, NEW t \in Turns, Accept(t) PROVE Moved(t)
<1>1. /\ current' \in 1..opened' /\ opened' \in 0..MaxSessions /\ current' \in 1..MaxSessions
  BY RefineAssumption DEF IInv, TypeOK, Accept
<1>2. /\ task \in [Turns -> Task] /\ task[t].pc = "absent" /\ out[t] = NoResponse
      /\ stored[t] = {} /\ relay[t] = "idle"
  BY DEF IInv, TypeOK, SoundTurn, Placed, Accept
<1>3. /\ task' = [task EXCEPT ![t] = [task[t] EXCEPT !.session = current']]
      /\ [task[t] EXCEPT !.session = current'] \in Task
  BY <1>1, <1>2 DEF Accept, Task
<1>4. /\ task' \in [Turns -> Task] /\ task'[t].pc = "absent" /\ task'[t].session = current'
      /\ \A u \in Turns \ {t} : task'[u] = task[u]
  BY <1>2, <1>3 DEF Task
<1>5. /\ relay' \in [Turns -> Relays] /\ relay'[t] = "accepted"
      /\ \A u \in Turns \ {t} : relay'[u] = relay[u]
  BY DEF IInv, TypeOK, Accept, Relays, Open
<1>6. /\ seen' \in [Turns -> SUBSET Turns]
      /\ seen'[t] = {u \in Turns : Shown(u) /\ task[u].session = current'}
      /\ \A u \in Turns \ {t} : seen'[u] = seen[u]
  BY DEF IInv, TypeOK, Accept
<1>7. log' \subseteq Message /\ log \subseteq log'
  BY <1>1 DEF IInv, TypeOK, Accept, Message
<1>8. UNCHANGED <<row, out, stored, attempts, faults, crashed, lost>>
  BY DEF Accept, trouble
<1>9. TypeOK'
  BY <1>1, <1>4, <1>5, <1>6, <1>7, <1>8 DEF IInv, TypeOK, Relays
<1>10. \A u \in Turns \ {t} : Undisturbed(u)
  BY <1>4, <1>5, <1>6, <1>7, <1>8, Others
<1>11. out[t].end = "open" /\ ~Shown(t)'
  BY <1>2, <1>8 DEF NoResponse, Shown
<1>12. Placed(t)' /\ Silent(t)' /\ Faithful(t)'
  BY <1>1, <1>2, <1>4, <1>5, <1>8, <1>11 DEF Placed, Silent, Faithful
<1>13. Recorded(t)' /\ Once(t)'
  BY <1>2, <1>4, <1>8, <1>11 DEF Recorded, Once, Busy
<1>14. Prompted(t)'
  <2>1. ASSUME NEW u \in seen'[t] PROVE Told(u, current') \in log'
    <3>1. u \in Turns /\ Shown(u) /\ task[u].session = current'
      BY <1>6, <2>1
    <3>2. stored[u] # {} /\ (stored[u] # {} => Told(u, task[u].session) \in log)
      BY <3>1 DEF IInv, SoundTurn, Recorded
    <3> QED
      BY <1>7, <3>1, <3>2
  <2> QED
    BY <1>4, <2>1 DEF Prompted, Told
<1> QED
  BY <1>9, <1>10, <1>12, <1>13, <1>14 DEF Moved, SoundTurn

LEMMA QueuedEffect ==
  ASSUME TypeOK, NEW t \in Turns, task' = Queued(t)
  PROVE  /\ task' \in [Turns -> Task]
         /\ task'[t] = [task[t] EXCEPT !.pc = "queued"]
         /\ task'[t].pc = "queued" /\ task'[t].session = task[t].session
         /\ \A u \in Turns \ {t} : task'[u] = task[u]
<1>1. task \in [Turns -> Task] /\ task[t] \in Task /\ [task[t] EXCEPT !.pc = "queued"] \in Task
  BY TaskPlaced, Places DEF TypeOK
<1>2. task' = [task EXCEPT ![t] = [task[t] EXCEPT !.pc = "queued"]]
  BY DEF Queued
<1> QED
  BY <1>1, <1>2 DEF Task

LEMMA EnqueueMoves == ASSUME IInv, NEW t \in Turns, Enqueue(t) PROVE Moved(t)
<1> USE DEF IInv
<1>1. /\ relay[t] = "accepted" /\ out[t] = NoResponse /\ stored[t] = {} /\ task[t].pc = "absent"
      /\ task[t].session \in 1..MaxSessions
  BY DEF Enqueue, SoundTurn, Placed
<1>2. /\ task' \in [Turns -> Task] /\ task'[t].pc = "queued" /\ task'[t].session = task[t].session
      /\ \A u \in Turns \ {t} : task'[u] = task[u]
  BY QueuedEffect DEF Enqueue
<1>3. /\ relay' \in [Turns -> Relays] /\ relay'[t] = "relaying"
      /\ \A u \in Turns \ {t} : relay'[u] = relay[u]
  BY DEF TypeOK, Enqueue, Relays, Open
<1>4. UNCHANGED <<row, current, opened, log, seen, out, stored, attempts, faults, crashed, lost>>
  BY DEF Enqueue, trouble
<1>5. TypeOK'
  BY <1>2, <1>3, <1>4 DEF TypeOK, Relays
<1>6. \A u \in Turns \ {t} : Undisturbed(u)
  BY <1>2, <1>3, <1>4, Others
<1>7. /\ out'[t].end = "open" /\ out'[t].tokens = {} /\ out'[t].files = {} /\ ~Shown(t)'
  BY <1>1, <1>4 DEF NoResponse, Shown
<1>8. Placed(t)' /\ Silent(t)' /\ Recorded(t)' /\ Once(t)'
  BY <1>1, <1>2, <1>3, <1>4, <1>7 DEF Placed, Silent, Recorded, Once
<1>9. Faithful(t)'
  BY <1>2, <1>3, <1>7 DEF Faithful, Carried
<1>10. Prompted(t)'
  BY <1>2, <1>4 DEF SoundTurn, Prompted, Told
<1> QED
  BY <1>5, <1>6, <1>8, <1>9, <1>10 DEF Moved, SoundTurn

\* A response that ends without a result, whatever its task does; a message may be queued.
LEMMA Closed ==
  ASSUME IInv, NEW t \in Turns, relay[t] \in Open, End(t, "other"),
         task' = task \/ (task[t].pc = "absent" /\ task' = Queued(t)),
         UNCHANGED <<row, current, opened, seen, log, stored, attempts, faults, crashed, lost>>
  PROVE  Moved(t)
<1> USE DEF IInv
<1>1. /\ relay' \in [Turns -> Relays] /\ out' \in [Turns -> Response] /\ relay'[t] = "ended"
      /\ out'[t] = [NoResponse EXCEPT !.end = "other"]
      /\ \A u \in Turns \ {t} : relay'[u] = relay[u] /\ out'[u] = out[u]
  BY EndEffect
<1>2. /\ task' \in [Turns -> Task] /\ task'[t].session = task[t].session
      /\ task'[t] = task[t] \/ (task[t].pc = "absent" /\ task'[t].pc = "queued")
      /\ \A u \in Turns \ {t} : task'[u] = task[u]
  <2>1. CASE task' = task
    BY <2>1 DEF TypeOK
  <2>2. CASE task[t].pc = "absent" /\ task' = Queued(t)
    BY <2>2, QueuedEffect
  <2> QED
    BY <2>1, <2>2
<1>3. out'[t].end = "other" /\ ~Shown(t)'
  BY <1>1 DEF NoResponse, Shown
<1>4. TypeOK'
  BY <1>1, <1>2 DEF TypeOK, Relays
<1>5. \A u \in Turns \ {t} : Undisturbed(u)
  BY <1>1, <1>2, Others
<1>6. Placed(t)' /\ Silent(t)'
  <2>1. task[t].session \in 1..MaxSessions /\ (task[t].pc = "absent" => stored[t] = {})
    BY DEF SoundTurn, Placed, Open
  <2> QED
    BY <1>1, <1>2, <2>1 DEF Placed, Silent
<1>7. Recorded(t)'
  BY <1>2, <1>3 DEF SoundTurn, Recorded, Told
<1>8. Once(t)'
  BY <1>2 DEF SoundTurn, Once, Placed
<1>9. Faithful(t)'
  BY <1>1, <1>2, <1>3 DEF SoundTurn, Faithful
<1>10. Prompted(t)'
  BY <1>2 DEF SoundTurn, Prompted, Told
<1> QED
  BY <1>4, <1>5, <1>6, <1>7, <1>8, <1>9, <1>10 DEF Moved, SoundTurn

LEMMA EndMoves ==
  ASSUME IInv, NEW t \in Turns, EnqueueFails(t) \/ RelayTimeout(t) \/ Disconnect(t)
  PROVE  Moved(t)
<1>1. CASE EnqueueFails(t)
  <2>1. relay[t] = "accepted" /\ task[t].pc = "absent" /\ End(t, "other")
    BY <1>1 DEF IInv, SoundTurn, Placed, EnqueueFails
  <2>2. UNCHANGED <<row, current, opened, seen, log, stored, attempts, faults, crashed, lost>>
    BY <1>1 DEF EnqueueFails, db, trouble
  <2>3. task' = task \/ task' = Queued(t)
    BY <1>1 DEF EnqueueFails
  <2> QED
    BY <2>1, <2>2, <2>3, Closed DEF Open
<1>2. CASE RelayTimeout(t)
  BY <1>2, Closed DEF RelayTimeout, db, trouble, Open
<1>3. CASE Disconnect(t)
  BY <1>3, Closed DEF Disconnect, db, trouble
<1> QED
  BY <1>1, <1>2, <1>3

-----------------------------------------------------------------------------
(* The steps of the task that publish nothing *)

\* A run that gives up before its commit, one that cannot be set up, a worker that is killed,
\* a message acknowledged.
LEMMA Abandoned ==
  ASSUME IInv, NEW t \in Turns, NEW q \in Pcs,
         \/ q \in {"failing", "erring"} /\ task[t].pc \in Busy
         \/ q \in {"queued", "abandoned"} /\ crashed' /\ task[t].pc # "absent"
         \/ q \in {"queued", "abandoned"} /\ task[t].pc = "queued"
         \/ q = "done" /\ task[t].pc = "returning",
         task' \in [Turns -> Task], task'[t].pc = q, task'[t].session = task[t].session,
         \A u \in Turns \ {t} : task'[u] = task[u],
         faults' \in 0..MaxFaults, crashed' \in BOOLEAN, crashed => crashed', lost' = lost,
         UNCHANGED <<row, current, opened, seen, log, relay, out, stored, attempts>>
  PROVE  Moved(t)
<1> USE DEF IInv
<1>1. TypeOK'
  BY DEF TypeOK
<1>2. \A u \in Turns \ {t} : Undisturbed(u)
  BY Others
<1>3. Shown(t)' = Shown(t) /\ \A s : Agrees(t, s)' = Agrees(t, s)
  BY DEF Shown, Agrees
<1>4. q \notin {"absent", "loaded", "streaming", "announcing", "completing"}
      /\ task[t].pc # "absent"
  BY DEF Busy
<1>5. Placed(t)'
  BY <1>4 DEF SoundTurn, Placed
<1>6. Recorded(t)'
  BY <1>3, <1>4 DEF SoundTurn, Recorded, Told
<1>7. Once(t)'
  BY DEF SoundTurn, Once, Busy
<1>8. Faithful(t)'
  BY <1>3, <1>4 DEF SoundTurn, Faithful, Carried, Busy
<1>9. Silent(t)' /\ Prompted(t)'
  BY <1>4 DEF SoundTurn, Silent, Prompted, Told
<1> QED
  BY <1>1, <1>2, <1>5, <1>6, <1>7, <1>8, <1>9 DEF Moved, SoundTurn

LEMMA AbandonMoves ==
  ASSUME IInv, NEW t \in Turns,
         \/ LoadDeleted(t) \/ Empty(t) \/ Malformed(t) \/ Return(t)
         \/ Raise(t) \/ SetupFails(t) \/ Crash(t)
  PROVE  Moved(t)
<1>1. TypeOK /\ faults \in 0..MaxFaults /\ crashed \in BOOLEAN /\ task[t] \in Task
  BY DEF IInv, TypeOK
<1>2. ASSUME NEW from, NEW to \in Pcs, Goto(t, from, to),
             UNCHANGED <<db, api, relay, out, attempts, trouble>>,
             (from \in Busy /\ to = "failing") \/ (from = "returning" /\ to = "done")
      PROVE  Moved(t)
  <2>1. /\ task[t].pc = from /\ task' \in [Turns -> Task]
        /\ task'[t] = [task[t] EXCEPT !.pc = to]
        /\ \A u \in Turns \ {t} : task'[u] = task[u]
    BY <1>1, <1>2, GotoEffect
  <2>2. task'[t].pc = to /\ task'[t].session = task[t].session
    BY <1>1, <2>1 DEF Task
  <2>3. UNCHANGED <<row, current, opened, seen, log, relay, out, stored, attempts, faults,
                    crashed, lost>>
    BY <1>2 DEF db, api, trouble
  <2> QED
    BY <1>1, <1>2, <2>1, <2>2, <2>3, Abandoned
<1>3. {"failing", "done", "erring", "queued", "abandoned"} \subseteq Pcs /\ {"queued", "streaming"} \subseteq Busy
  BY Places DEF Busy
<1>4. CASE LoadDeleted(t) \/ Empty(t) \/ Malformed(t) \/ Return(t)
  BY <1>2, <1>3, <1>4 DEF LoadDeleted, Empty, Malformed, Return
<1>5. CASE Raise(t)
  <2>1. /\ task' \in [Turns -> Task] /\ task'[t].pc = "erring"
        /\ task'[t].session = task[t].session /\ \A u \in Turns \ {t} : task'[u] = task[u]
    BY <1>1, <1>3, <1>5, ForgetEffect, TaskFields DEF Raise
  <2>2. UNCHANGED <<row, current, opened, seen, log, relay, out, stored, attempts, crashed, lost>>
        /\ faults' \in 0..MaxFaults /\ task[t].pc \in Busy
    BY <1>1, <1>5, RefineAssumption DEF Raise, Fault, db, api
  <2> QED
    BY <1>1, <1>3, <2>1, <2>2, Abandoned
<1>6. CASE Crash(t)
  <2> PICK q \in {"queued", "abandoned"} : task' = Forget(t, q, task[t].retries)
    BY <1>6 DEF Crash
  <2>1. /\ task' \in [Turns -> Task] /\ task'[t].pc = q
        /\ task'[t].session = task[t].session /\ \A u \in Turns \ {t} : task'[u] = task[u]
    BY <1>1, <1>3, ForgetEffect, TaskFields
  <2>2. UNCHANGED <<row, current, opened, seen, log, relay, out, stored, attempts, lost>>
        /\ faults' \in 0..MaxFaults /\ crashed' = TRUE
    BY <1>1, <1>6, RefineAssumption DEF Crash, Fault, db, api
  <2>3. task[t].pc # "absent"
    BY <1>6 DEF Crash, Held, Busy
  <2> QED
    BY <1>1, <1>3, <2>1, <2>2, <2>3, Abandoned
<1>7. CASE SetupFails(t)
  <2> PICK q \in {"queued", "abandoned"}, n \in 0..MaxRetries : task' = Forget(t, q, n)
    BY <1>1, <1>7, TaskFields, RefineAssumption DEF SetupFails
  <2>1. /\ task' \in [Turns -> Task] /\ task'[t].pc = q
        /\ task'[t].session = task[t].session /\ \A u \in Turns \ {t} : task'[u] = task[u]
    BY <1>1, <1>3, ForgetEffect
  <2>2. UNCHANGED <<row, current, opened, seen, log, relay, out, stored, attempts, faults,
                    crashed, lost>> /\ task[t].pc = "queued"
    BY <1>7 DEF SetupFails, db, api, trouble
  <2> QED
    BY <1>1, <1>3, <2>1, <2>2, Abandoned
<1> QED
  BY <1>4, <1>5, <1>6, <1>7

LEMMA LoadMoves == ASSUME IInv, NEW t \in Turns, Load(t) PROVE Moved(t)
<1> USE DEF IInv
<1>1. /\ task \in [Turns -> Task] /\ task[t] \in Task /\ row.files \in Content
      /\ attempts \in [Turns -> Nat] /\ <<t, attempts[t] + 1>> \in Stamp
  BY DEF TypeOK, Stamp
<1> DEFINE x == [task[t] EXCEPT !.pc = "loaded", !.attempt = <<t, attempts[t] + 1>>,
                                !.base = row.files, !.alone = TRUE]
<1>2. x \in Task /\ x.pc = "loaded" /\ x.session = task[t].session /\ x.base = row.files
      /\ x.context = task[t].context
  BY <1>1 DEF Task, Busy
<1>3. task' = [task EXCEPT ![t] = x] /\ task[t].pc = "queued"
  BY DEF Load
<1> HIDE DEF x
<1>4. /\ task' \in [Turns -> Task] /\ task'[t] = x
      /\ \A u \in Turns \ {t} : task'[u] = task[u]
  BY <1>1, <1>2, <1>3
<1>5. attempts' \in [Turns -> Nat]
  BY <1>1 DEF Load
<1>6. UNCHANGED <<row, current, opened, seen, log, relay, out, stored, faults, crashed, lost>>
  BY DEF Load, db, api, trouble
<1>7. TypeOK'
  BY <1>4, <1>5, <1>6 DEF TypeOK
<1>8. \A u \in Turns \ {t} : Undisturbed(u)
  BY <1>4, <1>6, Others
<1>9. Shown(t)' = Shown(t) /\ \A s : Agrees(t, s)' = Agrees(t, s)
  BY <1>6 DEF Shown, Agrees
<1>10. Placed(t)' /\ Once(t)' /\ Silent(t)'
  BY <1>2, <1>3, <1>4, <1>6 DEF SoundTurn, Placed, Once, Silent, Busy
<1>11. Recorded(t)'
  BY <1>2, <1>4, <1>6, <1>9 DEF SoundTurn, Recorded, Told
<1>12. Faithful(t)'
  <2>1. Carried(t) => Carried(t)'
    BY <1>2, <1>3, <1>4, <1>6 DEF Carried, Busy
  <2> QED
    BY <1>2, <1>4, <1>6, <1>9, <2>1 DEF SoundTurn, Faithful
<1>13. Prompted(t)'
  BY <1>2, <1>4, <1>6 DEF SoundTurn, Prompted, Told
<1> QED
  BY <1>7, <1>8, <1>10, <1>11, <1>12, <1>13 DEF Moved, SoundTurn

LEMMA ReadMoves == ASSUME IInv, NEW t \in Turns, ReadConversation(t) PROVE Moved(t)
<1> USE DEF IInv
<1>1. /\ task \in [Turns -> Task] /\ task[t] \in Task /\ log \subseteq Message
  BY DEF TypeOK
<1> DEFINE kept == {m \in log : m.session = task[t].session /\ ~(m.turn = t /\ m.role = "user")}
           x == [task[t] EXCEPT !.pc = "streaming", !.context = kept]
<1>2. /\ x \in Task /\ x.pc = "streaming" /\ x.session = task[t].session
      /\ x.base = task[t].base /\ x.context = kept /\ x.alone = task[t].alone
      /\ x.attempt = task[t].attempt
  BY <1>1 DEF Task, Busy
<1>3. \A u \in Turns : u # t /\ Told(u, task[t].session) \in log =>
        Told(u, task[t].session) \in kept
  BY DEF Told
<1>4. task' = [task EXCEPT ![t] = x] /\ task[t].pc = "loaded"
  BY DEF ReadConversation
<1> HIDE DEF x, kept
<1>5. /\ task' \in [Turns -> Task] /\ task'[t] = x
      /\ \A u \in Turns \ {t} : task'[u] = task[u]
  BY <1>1, <1>2, <1>4
<1>6. UNCHANGED <<row, current, opened, seen, log, relay, out, stored, attempts, faults, crashed,
                  lost>>
  BY DEF ReadConversation, db, api, trouble
<1>7. TypeOK'
  BY <1>5, <1>6 DEF TypeOK
<1>8. \A u \in Turns \ {t} : Undisturbed(u)
  BY <1>5, <1>6, Others
<1>9. Shown(t)' = Shown(t) /\ \A s : Agrees(t, s)' = Agrees(t, s)
  BY <1>6 DEF Shown, Agrees
<1>10. Placed(t)' /\ Once(t)' /\ Silent(t)'
  BY <1>2, <1>4, <1>5, <1>6 DEF SoundTurn, Placed, Once, Silent, Busy
<1>11. Recorded(t)'
  BY <1>2, <1>5, <1>6, <1>9 DEF SoundTurn, Recorded, Told
<1>12. Faithful(t)'
  <2>1. Carried(t) => Carried(t)'
    BY <1>2, <1>4, <1>5, <1>6 DEF Carried, Busy
  <2> QED
    BY <1>2, <1>4, <1>5, <1>6, <1>9, <2>1 DEF SoundTurn, Faithful
<1>13. Prompted(t)'
  <2>1. seen[t] \subseteq Turns
    BY DEF TypeOK
  <2> QED
    BY <1>2, <1>3, <1>5, <1>6, <2>1 DEF SoundTurn, Prompted, Told
<1> QED
  BY <1>7, <1>8, <1>10, <1>11, <1>12, <1>13 DEF Moved, SoundTurn

\* The reply and the assistant's message, in one commit.
LEMMA AnsweredEffect ==
  ASSUME TypeOK, NEW t \in Turns, task[t].session \in 1..MaxSessions,
         NEW kind \in {"text", "generation"}, NEW files \in Content, Answered(t, kind, files)
  PROVE  /\ log' \subseteq Message /\ log \subseteq log' /\ Told(t, task[t].session) \in log'
         /\ stored' \in [Turns -> SUBSET Result]
         /\ stored'[t] = stored[t] \cup {[kind |-> kind, attempt |-> task[t].attempt,
                                          files |-> files, alone |-> task[t].alone]}
         /\ \A u \in Turns \ {t} : stored'[u] = stored[u]
<1>1. [turn |-> t, role |-> "assistant", session |-> task[t].session] \in Message
  BY DEF Message
<1>2. /\ log' = log \cup {[turn |-> t, role |-> "assistant", session |-> task[t].session]}
      /\ stored' = [stored EXCEPT ![t] = stored[t] \cup
           {[kind |-> kind, attempt |-> task[t].attempt, files |-> files, alone |-> task[t].alone]}]
  BY DEF Answered
<1>3. [kind |-> kind, attempt |-> task[t].attempt, files |-> files, alone |-> task[t].alone]
        \in Result
  BY TaskFields DEF TypeOK, Result
<1>4. log \subseteq Message /\ stored \in [Turns -> SUBSET Result]
  BY DEF TypeOK
<1> DEFINE r == [kind |-> kind, attempt |-> task[t].attempt, files |-> files,
                 alone |-> task[t].alone]
<1>5. stored' = [stored EXCEPT ![t] = stored[t] \cup {r}] /\ r \in Result
  BY <1>2, <1>3
<1> HIDE DEF r
<1>6. /\ stored' \in [Turns -> SUBSET Result] /\ stored'[t] = stored[t] \cup {r}
      /\ \A u \in Turns \ {t} : stored'[u] = stored[u]
  BY <1>4, <1>5
<1> QED
  BY <1>1, <1>2, <1>4, <1>6 DEF Told, r

LEMMA StoreTextMoves == ASSUME IInv, NEW t \in Turns, StoreText(t) PROVE Moved(t)
<1> USE DEF IInv
<1>1. /\ task \in [Turns -> Task] /\ task[t] \in Task
      /\ task[t].pc = "streaming" /\ task[t].mode = "text"
  BY DEF TypeOK, StoreText
<1>2. task[t].session \in 1..MaxSessions
  BY <1>1 DEF SoundTurn, Placed
<1> DEFINE x == [task[t] EXCEPT !.pc = "completing"]
           r == [kind |-> "text", attempt |-> task[t].attempt, files |-> Original,
                 alone |-> task[t].alone]
<1>3. /\ x \in Task /\ x.pc = "completing" /\ x.session = task[t].session /\ x.mode = "text"
  BY <1>1 DEF Task, Held, Busy
<1>4. /\ log' \subseteq Message /\ log \subseteq log' /\ Told(t, task[t].session) \in log'
      /\ stored' \in [Turns -> SUBSET Result] /\ stored'[t] = stored[t] \cup {r}
      /\ \A u \in Turns \ {t} : stored'[u] = stored[u]
  BY <1>2, AnsweredEffect, ConstantTypes DEF StoreText
<1>5. r.kind = "text" /\ r.attempt = task[t].attempt /\ r.files = Original
  OBVIOUS
<1>6. task' = [task EXCEPT ![t] = x]
  BY DEF StoreText
<1> HIDE DEF x, r
<1>7. task' \in [Turns -> Task] /\ task'[t] = x /\ \A u \in Turns \ {t} : task'[u] = task[u]
  BY <1>1, <1>3, <1>6
<1>8. UNCHANGED <<row, current, opened, seen, relay, out, attempts, faults, crashed, lost>>
  BY DEF StoreText, api, trouble
<1>9. TypeOK'
  BY <1>4, <1>7, <1>8 DEF TypeOK
<1>10. \A u \in Turns \ {t} : Undisturbed(u)
  BY <1>4, <1>7, <1>8, Others
<1>11. Shown(t)' = Shown(t) /\ \A s : Agrees(t, s)' = Agrees(t, s)
  BY <1>8 DEF Shown, Agrees
<1>12. Placed(t)' /\ Silent(t)'
  BY <1>1, <1>3, <1>7, <1>8 DEF SoundTurn, Placed, Silent
<1>13. Once(t)'
  BY <1>1, <1>3, <1>4, <1>7, <1>8 DEF SoundTurn, Once, Busy
<1>14. Recorded(t)'
  BY <1>3, <1>4, <1>5, <1>7, <1>8, <1>11 DEF SoundTurn, Recorded, Told
<1>15. Faithful(t)'
  <2>1. Carried(t) => Agrees(t, r)
    BY <1>1, <1>5 DEF Carried, Agrees, Busy
  <2>2. Carried(t) => Carried(t)'
    BY <1>3, <1>4, <1>7, <1>11, <2>1 DEF Carried, Busy
  <2> QED
    BY <1>3, <1>4, <1>7, <1>8, <1>11, <2>2 DEF SoundTurn, Faithful
<1>16. Prompted(t)'
  BY <1>3, <1>4, <1>7, <1>8 DEF SoundTurn, Prompted, Told
<1> QED
  BY <1>9, <1>10, <1>12, <1>13, <1>14, <1>15, <1>16 DEF Moved, SoundTurn

\* Alone since it read the row, a run shows the files it stores; the others lose that right.
LEMMA StoreGenerationMoves ==
  ASSUME IInv, NEW t \in Turns, NEW kept \in SUBSET Files, StoreGeneration(t, kept)
  PROVE  Moved(t)
<1> USE DEF IInv
<1>1. /\ task \in [Turns -> Task] /\ \A u \in Turns : task[u] \in Task
      /\ task[t].pc = "streaming" /\ task[t].mode = "generation"
      /\ row \in [files : Content, deleted : BOOLEAN]
  BY DEF TypeOK, StoreGeneration
<1>2. task[t].session \in 1..MaxSessions
  BY <1>1 DEF SoundTurn, Placed
<1>3. Written(t, kept) \in Content /\ Replied(t, kept) \in Content
  <2>1. task[t].attempt \in Stamp /\ task[t].base \in Content /\ row.files \in Content
    BY <1>1, TaskFields
  <2> QED
    BY <2>1 DEF Written, Replied, Content
<1>4. task[t].alone => Written(t, kept) = Replied(t, kept)
  BY <1>1 DEF SoundTurn, Faithful, Written, Replied
<1> DEFINE x == [task[t] EXCEPT !.pc = "announcing", !.reply = Replied(t, kept)]
           r == [kind |-> "generation", attempt |-> task[t].attempt, files |-> Written(t, kept),
                 alone |-> task[t].alone]
           y(u) == [task[u] EXCEPT !.alone = @ /\ task[u].pc \notin Busy \ {"queued"}]
<1>5. /\ x \in Task /\ x.pc = "announcing" /\ x.session = task[t].session
      /\ x.mode = "generation" /\ x.reply = Replied(t, kept) /\ x.attempt = task[t].attempt
  BY <1>1, <1>3 DEF Task, Held, Busy
<1>6. /\ log' \subseteq Message /\ log \subseteq log' /\ Told(t, task[t].session) \in log'
      /\ stored' \in [Turns -> SUBSET Result] /\ stored'[t] = stored[t] \cup {r}
      /\ \A u \in Turns \ {t} : stored'[u] = stored[u]
  BY <1>2, <1>3, AnsweredEffect DEF StoreGeneration
<1>7. /\ r.kind = "generation" /\ r.attempt = task[t].attempt /\ r.alone = task[t].alone
      /\ r.files = Written(t, kept)
  OBVIOUS
<1>8. task' = [u \in Turns |-> IF u = t THEN x ELSE y(u)]
  BY DEF StoreGeneration
<1>9. \A u \in Turns : /\ y(u) \in Task /\ y(u) = [task[u] EXCEPT !.alone = y(u).alone]
                       /\ task[u].pc \in {"loaded", "streaming"} => ~y(u).alone
  BY ZenonT(30), <1>1 DEF Task, Busy
<1> HIDE DEF x, r, y
<1>10. task' \in [Turns -> Task] /\ task'[t] = x /\ \A u \in Turns \ {t} : task'[u] = y(u)
  BY <1>5, <1>8, <1>9
<1>11. UNCHANGED <<current, opened, seen, relay, out, attempts, faults, crashed, lost>>
  BY DEF StoreGeneration, api, trouble
<1>12. row' \in [files : Content, deleted : BOOLEAN] /\ row'.files = Written(t, kept)
  BY <1>1, <1>3 DEF StoreGeneration
<1>13. TypeOK'
  BY <1>6, <1>10, <1>11, <1>12 DEF TypeOK
<1>14. \A u \in Turns \ {t} : Undisturbed(u)
  BY <1>6, <1>9, <1>10, <1>11 DEF Undisturbed
<1>15. Shown(t)' = Shown(t) /\ \A s : Agrees(t, s)' = Agrees(t, s)
  BY <1>11 DEF Shown, Agrees
<1>16. Placed(t)' /\ Silent(t)'
  BY <1>1, <1>5, <1>10, <1>11 DEF SoundTurn, Placed, Silent
<1>17. Once(t)'
  BY <1>1, <1>5, <1>6, <1>10, <1>11 DEF SoundTurn, Once, Busy
<1>18. Recorded(t)'
  BY <1>5, <1>6, <1>7, <1>10, <1>11, <1>15 DEF SoundTurn, Recorded, Told
<1>19. Faithful(t)'
  <2>1. Carried(t) => Carried(t)'
    BY <1>1, <1>4, <1>5, <1>6, <1>7, <1>10, <1>11, <1>15 DEF Carried, Busy
  <2> QED
    BY <1>5, <1>6, <1>10, <1>11, <1>15, <2>1 DEF SoundTurn, Faithful
<1>20. Prompted(t)'
  BY <1>5, <1>6, <1>10, <1>11 DEF SoundTurn, Prompted, Told
<1> QED
  BY <1>13, <1>14, <1>16, <1>17, <1>18, <1>19, <1>20 DEF Moved, SoundTurn

-----------------------------------------------------------------------------
(* The steps of the task that publish an event *)

LEMMA EventTypes ==
  ASSUME TypeOK, NEW t \in Turns
  PROVE  /\ \A type \in TerminalEvents : Event0(type) \in Event /\ Event0(type).type = type
         /\ \A type \in {"token", "status"} :
              [type |-> type, attempt |-> task[t].attempt, files |-> Original] \in Event
         /\ [type |-> "files", attempt |-> task[t].attempt, files |-> task[t].reply] \in Event
<1>1. task[t].attempt \in Stamp /\ task[t].reply \in Content
  BY TaskFields DEF TypeOK
<1> QED
  BY <1>1, ConstantTypes DEF Event, Event0

\* What publishing preserves, whatever the event.
LEMMA PublishFrame ==
  ASSUME IInv, NEW t \in Turns, NEW e \in Event, Publish(t, e), UNCHANGED <<db, api, attempts>>,
         task' \in [Turns -> Task], task'[t].session = task[t].session,
         task[t].pc # "absent", task'[t].pc # "absent",
         \A u \in Turns \ {t} : task'[u] = task[u]
  PROVE  /\ TypeOK' /\ (\A u \in Turns \ {t} : Undisturbed(u)) /\ Placed(t)'
         /\ crashed' = crashed
<1> USE DEF IInv
<1>1. UNCHANGED <<row, current, opened, seen, log, stored, attempts>>
  BY DEF db, api
<1>2. /\ relay' \in [Turns -> Relays] /\ out' \in [Turns -> Response]
      /\ faults' \in 0..MaxFaults /\ crashed' = crashed /\ lost' \in BOOLEAN
      /\ lost => lost'
      /\ \A u \in Turns \ {t} : relay'[u] = relay[u] /\ out'[u] = out[u]
      /\ \/ relay'[t] = relay[t] /\ out'[t] = out[t]
         \/ relay'[t] = "ended"
         \/ /\ relay[t] = "relaying" /\ relay'[t] = "relaying"
            /\ out'[t] = Carrying(out[t], e)
  BY PublishEffect
<1>3. TypeOK'
  BY <1>1, <1>2 DEF TypeOK, Relays
<1>4. \A u \in Turns \ {t} : Undisturbed(u)
  BY <1>1, <1>2, Others
<1>5. Carrying(out[t], e).end = out[t].end
  BY DEF TypeOK, Response, Carrying
<1>6. relay[t] \notin {"idle", "accepted"} /\ task[t].session \in 1..MaxSessions
      /\ (relay[t] # "ended" => out[t].end = "open")
  BY DEF SoundTurn, Placed
<1>7. Placed(t)'
  <2>1. CASE relay'[t] = relay[t] /\ out'[t] = out[t]
    BY <1>6, <2>1 DEF Placed
  <2>2. CASE relay'[t] = "ended"
    BY <1>6, <2>2 DEF Placed
  <2>3. CASE relay[t] = "relaying" /\ relay'[t] = "relaying" /\ out'[t] = Carrying(out[t], e)
    BY <1>5, <1>6, <2>3 DEF Placed
  <2> QED
    BY <1>2, <2>1, <2>2, <2>3
<1> QED
  BY <1>2, <1>3, <1>4, <1>7

\* FailEvent and ErrorEvent: the error ends the response and the run, or a retry follows.
LEMMA ErrorMoves ==
  ASSUME IInv, NEW t \in Turns, FailEvent(t) \/ ErrorEvent(t) PROVE Moved(t)
<1> USE DEF IInv
<1>1. /\ task[t].pc \in {"failing", "erring"} /\ Publish(t, Event0("error"))
      /\ UNCHANGED <<db, api, attempts>>
  BY DEF FailEvent, ErrorEvent
<1>2. Event0("error") \in Event /\ Event0("error").type = "error" /\ "error" \in TerminalEvents
  BY EventTypes DEF TerminalEvents
<1>3. PICK q \in {"returning", "queued", "done"} :
        /\ task' \in [Turns -> Task] /\ task'[t].pc = q /\ task'[t].session = task[t].session
        /\ \A u \in Turns \ {t} : task'[u] = task[u]
        /\ task[t].pc = "failing" => q = "returning"
  <2>1. {"returning", "queued", "done"} \subseteq Pcs /\ task[t].retries \in 0..MaxRetries
    BY Places, TaskFields DEF TypeOK
  <2>2. CASE FailEvent(t)
    BY <2>1, <2>2, ForgetEffect DEF FailEvent
  <2>3. CASE ErrorEvent(t)
    <3>1. CASE task[t].retries < MaxRetries
      <4>1. task[t].retries + 1 \in 0..MaxRetries /\ task[t].pc = "erring"
            /\ task' = Forget(t, "queued", task[t].retries + 1)
        BY <2>1, <2>3, <3>1, RefineAssumption DEF ErrorEvent
      <4> QED
        BY <2>1, <4>1, ForgetEffect
    <3>2. CASE ~(task[t].retries < MaxRetries)
      <4>1. task' = Forget(t, "done", task[t].retries) /\ task[t].pc = "erring"
        BY <2>3, <3>2 DEF ErrorEvent
      <4> QED
        BY <2>1, <4>1, ForgetEffect
    <3> QED
      BY <3>1, <3>2
  <2> QED
    BY <2>2, <2>3
<1>4. /\ TypeOK' /\ (\A u \in Turns \ {t} : Undisturbed(u)) /\ Placed(t)' /\ crashed' = crashed
  BY <1>1, <1>2, <1>3, PublishFrame
<1>5. /\ lost => lost'
      /\ \/ relay'[t] = relay[t] /\ out'[t] = out[t] /\ (lost' \/ relay[t] # "relaying")
         \/ /\ relay[t] = "relaying" /\ relay'[t] = "ended"
            /\ out'[t] = [NoResponse EXCEPT !.end = "other"]
  BY <1>1, <1>2, PublishEffect
<1>6. UNCHANGED <<row, current, opened, seen, log, stored, attempts>>
  BY <1>1 DEF db, api
<1>7. /\ Shown(t)' => Shown(t) /\ out'[t] = out[t]
  BY <1>5 DEF Shown, NoResponse
<1>8. Recorded(t)'
  BY <1>3, <1>6, <1>7 DEF SoundTurn, Recorded, Told
<1>9. Once(t)'
  BY <1>1, <1>3, <1>4, <1>6 DEF SoundTurn, Once, Busy
<1>10. Faithful(t)'
  <2>1. \A s : out'[t] = out[t] => Agrees(t, s)' = Agrees(t, s)
    BY DEF Agrees
  <2> QED
    BY <1>3, <1>4, <1>5, <1>6, <1>7, <2>1 DEF SoundTurn, Faithful
<1>11. Silent(t)' /\ Prompted(t)'
  BY <1>3, <1>5, <1>6 DEF SoundTurn, Silent, Prompted, Told
<1> QED
  BY <1>4, <1>8, <1>9, <1>10, <1>11 DEF Moved, SoundTurn

\* A chunk of the reply: of a text reply a token, of another one a status event.
LEMMA ChunkMoves ==
  ASSUME IInv, NEW t \in Turns, NEW mode \in {"text", "generation"},
         FirstChunk(t, mode) \/ (mode = "text" /\ NextToken(t))
  PROVE  Moved(t)
<1> USE DEF IInv
<1> DEFINE e == [type |-> IF mode = "text" THEN "token" ELSE "status",
                 attempt |-> task[t].attempt, files |-> Original]
           x == [task[t] EXCEPT !.mode = mode]
<1>1. /\ task \in [Turns -> Task] /\ task[t] \in Task /\ task[t].pc = "streaming"
      /\ task[t].mode # "none" => task[t].mode = "text" /\ mode = "text"
      /\ UNCHANGED <<db, api, attempts>>
  BY DEF TypeOK, FirstChunk, NextToken
<1>2. Publish(t, e) /\ task' = [task EXCEPT ![t] = x]
  <2>1. CASE FirstChunk(t, mode)
    BY <2>1 DEF FirstChunk
  <2>2. CASE mode = "text" /\ NextToken(t)
    <3>1. x = task[t]
      BY <1>1, <2>2 DEF NextToken, Task
    <3>2. task' = [task EXCEPT ![t] = x]
      BY <1>1, <2>2, <3>1 DEF NextToken
    <3> QED
      BY <2>2, <3>2 DEF NextToken
  <2> QED
    BY <2>1, <2>2
<1>3. /\ e \in Event /\ e.type \in {"token", "status"} /\ e.attempt = task[t].attempt
      /\ e.type = "token" => mode = "text"
  BY EventTypes
<1>4. /\ x \in Task /\ x.pc = "streaming" /\ x.session = task[t].session /\ x.mode = mode
      /\ x.base = task[t].base /\ x.alone = task[t].alone /\ x.attempt = task[t].attempt
      /\ x.context = task[t].context
  BY <1>1 DEF Task
<1> HIDE DEF e, x
<1>5. task' \in [Turns -> Task] /\ task'[t] = x /\ \A u \in Turns \ {t} : task'[u] = task[u]
  BY <1>1, <1>2, <1>4
<1>6. /\ TypeOK' /\ (\A u \in Turns \ {t} : Undisturbed(u)) /\ Placed(t)' /\ crashed' = crashed
  BY <1>1, <1>2, <1>3, <1>4, <1>5, PublishFrame
<1>7. /\ lost => lost'
      /\ \/ relay'[t] = relay[t] /\ out'[t] = out[t]
         \/ /\ relay[t] = "relaying" /\ relay'[t] = "relaying"
            /\ out'[t] = Carrying(out[t], e)
  BY <1>2, <1>3, PublishEffect DEF TerminalEvents
<1>8. UNCHANGED <<row, current, opened, seen, log, stored, attempts>>
  BY <1>1 DEF db, api
<1>9. out[t] \in Response
  BY DEF TypeOK
<1>10. /\ out'[t].end = out[t].end /\ out'[t].files = out[t].files
       /\ \/ out'[t].tokens = out[t].tokens
          \/ mode = "text" /\ out'[t].tokens = out[t].tokens \cup {task[t].attempt}
  BY <1>3, <1>7, <1>9 DEF Carrying, Response
<1>11. Shown(t)' = Shown(t) /\ (Shown(t) => relay[t] # "relaying" /\ out'[t] = out[t])
  BY <1>7, <1>10 DEF Shown, SoundTurn, Placed
<1>12. Recorded(t)' /\ Once(t)'
  BY <1>1, <1>4, <1>5, <1>6, <1>8, <1>10, <1>11 DEF SoundTurn, Recorded, Once, Told, Busy
<1>13. Faithful(t)'
  <2>1. \A s : out'[t] = out[t] => Agrees(t, s)' = Agrees(t, s)
    BY DEF Agrees
  <2>2. Carried(t) => Carried(t)'
    BY <1>1, <1>4, <1>5, <1>10 DEF Carried, Busy
  <2>3. relay'[t] = relay[t]
    BY <1>7
  <2> QED
    BY <1>1, <1>4, <1>5, <1>6, <1>7, <1>8, <1>11, <2>1, <2>2, <2>3 DEF SoundTurn, Faithful
<1>14. Silent(t)' /\ Prompted(t)'
  BY <1>1, <1>4, <1>5, <1>8 DEF SoundTurn, Silent, Prompted, Told
<1> QED
  BY <1>6, <1>12, <1>13, <1>14 DEF Moved, SoundTurn

LEMMA AnnounceMoves == ASSUME IInv, NEW t \in Turns, AnnounceFiles(t) PROVE Moved(t)
<1> USE DEF IInv
<1> DEFINE e == [type |-> "files", attempt |-> task[t].attempt, files |-> task[t].reply]
           x == [task[t] EXCEPT !.pc = "completing"]
<1>1. /\ task \in [Turns -> Task] /\ task[t] \in Task /\ "completing" \in Pcs
  BY DEF TypeOK, Pcs, Held
<1>2. /\ task[t].pc = "announcing" /\ Publish(t, e) /\ UNCHANGED <<db, api, attempts>>
      /\ task' \in [Turns -> Task] /\ task'[t] = x
      /\ \A u \in Turns \ {t} : task'[u] = task[u]
  BY <1>1, GotoEffect DEF AnnounceFiles
<1>3. e \in Event /\ e.type = "files" /\ e.files = task[t].reply
  BY EventTypes
<1>4. /\ x.pc = "completing" /\ x.session = task[t].session /\ x.mode = task[t].mode
  BY <1>1 DEF Task
<1> HIDE DEF e, x
<1>5. /\ TypeOK' /\ (\A u \in Turns \ {t} : Undisturbed(u)) /\ Placed(t)' /\ crashed' = crashed
  BY <1>2, <1>3, <1>4, PublishFrame
<1>6. /\ lost => lost'
      /\ \/ relay'[t] = relay[t] /\ out'[t] = out[t] /\ (lost' \/ relay[t] # "relaying")
         \/ /\ relay[t] = "relaying" /\ relay'[t] = "relaying"
            /\ out'[t] = Carrying(out[t], e)
  BY <1>2, <1>3, PublishEffect DEF TerminalEvents
<1>7. UNCHANGED <<row, current, opened, seen, log, stored, attempts>>
  BY <1>2 DEF db, api
<1>8. /\ out'[t].end = out[t].end
      /\ out'[t] = out[t] \/ /\ out'[t].tokens = out[t].tokens
                             /\ out'[t].files = out[t].files \cup {task[t].reply}
  <2>1. out[t] \in Response
    BY DEF TypeOK
  <2>2. /\ Carrying(out[t], e).end = out[t].end
        /\ Carrying(out[t], e).tokens = out[t].tokens
        /\ Carrying(out[t], e).files = out[t].files \cup {task[t].reply}
    BY <1>3, <2>1 DEF Carrying, Response
  <2> QED
    BY <1>6, <2>2
<1>9. Shown(t)' = Shown(t) /\ (Shown(t) => relay[t] # "relaying" /\ out'[t] = out[t])
  BY <1>6, <1>8 DEF Shown, SoundTurn, Placed
<1>10. Recorded(t)' /\ Once(t)'
  BY <1>2, <1>4, <1>5, <1>7, <1>8, <1>9 DEF SoundTurn, Recorded, Once, Told, Busy
<1>11. Faithful(t)'
  <2>1. \A s : out'[t] = out[t] => Agrees(t, s)' = Agrees(t, s)
    BY DEF Agrees
  <2>2. Carried(t) /\ relay[t] = "relaying" => Carried(t)' \/ lost'
    BY <1>2, <1>4, <1>6, <1>7, <1>8 DEF Carried, Agrees, Busy
  <2> QED
    BY <1>2, <1>4, <1>5, <1>6, <1>7, <1>9, <2>1, <2>2 DEF SoundTurn, Faithful
<1>12. Silent(t)' /\ Prompted(t)'
  BY <1>2, <1>4, <1>7 DEF SoundTurn, Silent, Prompted, Told
<1> QED
  BY <1>5, <1>10, <1>11, <1>12 DEF Moved, SoundTurn

LEMMA CompleteMoves == ASSUME IInv, NEW t \in Turns, Complete(t) PROVE Moved(t)
<1> USE DEF IInv
<1> DEFINE how == IF task[t].mode = "text" THEN "done" ELSE "complete"
<1>1. /\ task[t].pc = "completing" /\ Publish(t, Event0(how)) /\ UNCHANGED <<db, api, attempts>>
  BY DEF Complete
<1>2. Event0(how) \in Event /\ Event0(how).type = how /\ how \in {"done", "complete"}
  BY EventTypes DEF TerminalEvents
<1>3. /\ task' \in [Turns -> Task] /\ task'[t].pc = "returning"
      /\ task'[t].session = task[t].session /\ \A u \in Turns \ {t} : task'[u] = task[u]
  <2>1. "returning" \in Pcs /\ task[t].retries \in 0..MaxRetries
    BY Places, TaskFields DEF TypeOK
  <2> QED
    BY <2>1, ForgetEffect DEF Complete
<1>4. \E s \in stored[t] : s.kind = IF how = "done" THEN "text" ELSE "generation"
  BY <1>1 DEF SoundTurn, Recorded
<1> HIDE DEF how
<1>5. /\ TypeOK' /\ (\A u \in Turns \ {t} : Undisturbed(u)) /\ Placed(t)' /\ crashed' = crashed
  BY <1>1, <1>2, <1>3, PublishFrame
<1>6. /\ lost => lost'
      /\ \/ relay'[t] = relay[t] /\ out'[t] = out[t] /\ (lost' \/ relay[t] # "relaying")
         \/ /\ relay[t] = "relaying" /\ relay'[t] = "ended"
            /\ out'[t] = [out[t] EXCEPT !.end = how]
  BY <1>1, <1>2, PublishEffect DEF TerminalEvents
<1>7. UNCHANGED <<row, current, opened, seen, log, stored, attempts>>
  BY <1>1 DEF db, api
<1>8. /\ out'[t].tokens = out[t].tokens /\ out'[t].files = out[t].files
      /\ out'[t].end = out[t].end \/ (relay[t] = "relaying" /\ out'[t].end = how)
  BY <1>6 DEF TypeOK, Response
<1>9. \A s : Agrees(t, s)' = Agrees(t, s)
  BY <1>8 DEF Agrees
<1>10. Recorded(t)' /\ Once(t)'
  BY <1>3, <1>4, <1>5, <1>7, <1>8 DEF SoundTurn, Recorded, Once, Told, Shown, Busy
<1>11. Faithful(t)'
  <2>1. ~crashed /\ ~lost /\ relay[t] = "relaying" => \E s \in stored[t] : Agrees(t, s)
    BY <1>1 DEF SoundTurn, Faithful, Carried
  <2>2. Shown(t)' => Shown(t) \/ relay[t] = "relaying"
    BY <1>8 DEF Shown
  <2>3. relay'[t] = "relaying" => lost'
    BY <1>6
  <2> QED
    BY <1>3, <1>5, <1>6, <1>7, <1>9, <2>1, <2>2, <2>3 DEF SoundTurn, Faithful
<1>12. Silent(t)' /\ Prompted(t)'
  BY <1>3, <1>6, <1>7 DEF SoundTurn, Silent, Prompted, Told
<1> QED
  BY <1>5, <1>10, <1>11, <1>12 DEF Moved, SoundTurn

-----------------------------------------------------------------------------
(* Every step *)

LEMMA DeleteSteps ==
  ASSUME IInv, DeleteSession \/ DeletePersona
  PROVE  TypeOK' /\ \A u \in Turns : Undisturbed(u)
<1>1. CASE DeleteSession
  <2>1. opened' = opened /\ opened \in 0..MaxSessions /\ current' \in 0..opened'
    BY <1>1, RefineAssumption DEF IInv, TypeOK, DeleteSession
  <2> QED
    BY <1>1, <2>1 DEF IInv, TypeOK, Undisturbed, DeleteSession, trouble
<1>2. CASE DeletePersona
  <2>1. row' \in [files : Content, deleted : BOOLEAN] /\ row'.files = row.files
    BY <1>2 DEF IInv, TypeOK, DeletePersona
  <2>2. opened' = opened /\ opened \in 0..MaxSessions /\ current' \in 0..opened'
    BY <1>2, RefineAssumption DEF IInv, TypeOK, DeletePersona
  <2> QED
    BY <1>2, <2>1, <2>2 DEF IInv, TypeOK, Undisturbed, DeletePersona, trouble
<1> QED
  BY <1>1, <1>2

LEMMA TurnMoves ==
  ASSUME IInv, NEW t \in Turns,
         \/ Accept(t) \/ RelayStep(t) \/ RelayTimeout(t) \/ Disconnect(t)
         \/ TaskStep(t) \/ NextToken(t) \/ Raise(t) \/ SetupFails(t) \/ Crash(t)
  PROVE  Moved(t)
<1>1. CASE Accept(t) \/ RelayStep(t) \/ RelayTimeout(t) \/ Disconnect(t)
  BY <1>1, AcceptMoves, EnqueueMoves, EndMoves DEF RelayStep
<1>2. CASE LoadDeleted(t) \/ Empty(t) \/ Malformed(t) \/ Return(t) \/ Raise(t)
           \/ SetupFails(t) \/ Crash(t)
  BY <1>2, AbandonMoves
<1>3. CASE Load(t) \/ ReadConversation(t) \/ StoreText(t)
  BY <1>3, LoadMoves, ReadMoves, StoreTextMoves
<1>4. CASE \E kept \in SUBSET Files : StoreGeneration(t, kept)
  BY <1>4, StoreGenerationMoves
<1>5. CASE NextToken(t) \/ \E mode \in {"text", "generation"} : FirstChunk(t, mode)
  BY <1>5, ChunkMoves
<1>6. CASE AnnounceFiles(t) \/ Complete(t) \/ FailEvent(t) \/ ErrorEvent(t)
  BY <1>6, AnnounceMoves, CompleteMoves, ErrorMoves
<1> QED
  BY <1>1, <1>2, <1>3, <1>4, <1>5, <1>6 DEF TaskStep

\* Only a generation writes a file, with its marker; replies and messages are never removed.
LEMMA MarkersKept ==
  ASSUME IInv, [Next]_vars
  PROVE  FilesHaveMarker'
<1> USE DEF IInv
<1>1. CASE row'.files = row.files /\ log \subseteq log' /\ \A u \in Turns : stored[u] \subseteq stored'[u]
  BY <1>1 DEF FilesHaveMarker
<1>2. ASSUME NEW t \in Turns, NEW kept \in SUBSET Files, StoreGeneration(t, kept)
      PROVE  FilesHaveMarker'
  <2>1. task[t].pc = "streaming" /\ task[t].session \in 1..MaxSessions
    BY <1>2 DEF StoreGeneration, SoundTurn, Placed
  <2>2. Written(t, kept) \in Content
    <3>1. task[t].attempt \in Stamp /\ row.files \in Content
      BY TaskFields DEF TypeOK
    <3> QED
      BY <3>1 DEF Written, Content
  <2>3. /\ log \subseteq log' /\ Told(t, task[t].session) \in log'
        /\ stored'[t] = stored[t] \cup {[kind |-> "generation", attempt |-> task[t].attempt,
                                         files |-> Written(t, kept), alone |-> task[t].alone]}
        /\ \A u \in Turns \ {t} : stored'[u] = stored[u]
    BY <1>2, <2>1, <2>2, AnsweredEffect DEF StoreGeneration
  <2>4. /\ \A u \in Turns : stored[u] \subseteq stored'[u]
        /\ \E s \in stored'[t] : s.kind = "generation" /\ s.attempt = task[t].attempt
        /\ \E m \in log' : m.turn = t /\ m.role = "assistant"
    <3>1. \A u \in Turns : stored[u] \subseteq stored'[u]
      BY <2>3
    <3>2. \E s \in stored'[t] : s.kind = "generation" /\ s.attempt = task[t].attempt
      <4> DEFINE r == [kind |-> "generation", attempt |-> task[t].attempt,
                       files |-> Written(t, kept), alone |-> task[t].alone]
      <4>1. r \in stored'[t] /\ r.kind = "generation" /\ r.attempt = task[t].attempt
        BY <2>3
      <4> HIDE DEF r
      <4> QED
        BY <4>1
    <3>3. \E m \in log' : m.turn = t /\ m.role = "assistant"
      BY <2>3 DEF Told
    <3> QED
      BY <3>1, <3>2, <3>3
  <2>5. \A f \in Files : row'.files[f] \in {row.files[f], task[t].attempt}
    <3>1. row'.files = Written(t, kept)
      BY <1>2 DEF StoreGeneration, TypeOK
    <3> QED
      BY <3>1 DEF Written
  <2>6. ASSUME NEW f \in Files, row'.files[f] # NoStamp
        PROVE  \E u \in Turns : \E s \in stored'[u] :
                 /\ s.kind = "generation" /\ s.attempt = row'.files[f]
                 /\ \E m \in log' : m.turn = u /\ m.role = "assistant"
    <3>1. CASE row'.files[f] = row.files[f]
      BY <2>3, <2>4, <2>6, <3>1 DEF FilesHaveMarker
    <3>2. CASE row'.files[f] = task[t].attempt
      BY <2>4, <3>2
    <3> QED
      BY <2>5, <3>1, <3>2
  <2> QED
    BY <2>6 DEF FilesHaveMarker
<1>3. ASSUME NEW t \in Turns, StoreText(t)
      PROVE  row'.files = row.files /\ log \subseteq log' /\ \A u \in Turns : stored[u] \subseteq stored'[u]
  <2>1. task[t].pc = "streaming" /\ task[t].session \in 1..MaxSessions
    BY <1>3 DEF StoreText, SoundTurn, Placed
  <2> QED
    BY <1>3, <2>1, AnsweredEffect, ConstantTypes DEF StoreText
<1>4. ASSUME NEW t \in Turns, Accept(t)
      PROVE  row'.files = row.files /\ log \subseteq log' /\ \A u \in Turns : stored[u] \subseteq stored'[u]
  BY <1>4 DEF Accept
<1>5. CASE DeletePersona
  <2>1. row'.files = row.files /\ UNCHANGED <<log, stored>>
    BY <1>5 DEF DeletePersona, TypeOK
  <2> QED
    BY <1>1, <2>1
<1>6. CASE UNCHANGED db
  BY <1>1, <1>6 DEF db
<1>7. CASE DeleteSession \/ UNCHANGED vars
  BY <1>1, <1>7 DEF DeleteSession, vars
<1>8. ASSUME NEW t \in Turns,
             \/ RelayStep(t) \/ RelayTimeout(t) \/ Disconnect(t)
             \/ LoadDeleted(t) \/ Load(t) \/ ReadConversation(t)
             \/ (\E mode \in {"text", "generation"} : FirstChunk(t, mode))
             \/ Empty(t) \/ Malformed(t) \/ AnnounceFiles(t) \/ Complete(t) \/ FailEvent(t)
             \/ Return(t) \/ ErrorEvent(t) \/ NextToken(t) \/ Raise(t) \/ SetupFails(t) \/ Crash(t)
      PROVE  UNCHANGED db
  <2>1. CASE RelayStep(t) \/ RelayTimeout(t) \/ Disconnect(t) \/ LoadDeleted(t) \/ Load(t)
             \/ ReadConversation(t)
    BY <2>1 DEF RelayStep, Enqueue, EnqueueFails, RelayTimeout, Disconnect, LoadDeleted, Load,
                ReadConversation, db
  <2>2. CASE (\E mode \in {"text", "generation"} : FirstChunk(t, mode)) \/ Empty(t) \/ Malformed(t)
    BY <2>2 DEF FirstChunk, Empty, Malformed
  <2>3. CASE AnnounceFiles(t) \/ Complete(t) \/ FailEvent(t)
    BY <2>3 DEF AnnounceFiles, Complete, FailEvent
  <2>4. CASE Return(t) \/ ErrorEvent(t) \/ NextToken(t) \/ Raise(t) \/ SetupFails(t) \/ Crash(t)
    BY <2>4 DEF Return, ErrorEvent, NextToken, Raise, SetupFails, Crash
  <2> QED
    BY <1>8, <2>1, <2>2, <2>3, <2>4
<1> QED
  BY <1>1, <1>2, <1>3, <1>4, <1>5, <1>6, <1>7, <1>8 DEF Next, TaskStep

\* The invariant on which the theorems rest: initially, and after every step.
LEMMA InitSound == Init => IInv
<1> SUFFICES ASSUME Init PROVE IInv
  OBVIOUS
<1>1. TypeOK
  <2>1. row \in [files : Content, deleted : BOOLEAN] /\ log \subseteq Message
    BY ConstantTypes DEF Init
  <2>2. current \in 0..opened /\ opened \in 0..MaxSessions /\ faults \in 0..MaxFaults
    BY RefineAssumption DEF Init
  <2>3. /\ relay \in [Turns -> Open \cup {"idle", "ended"}] /\ seen \in [Turns -> SUBSET Turns]
        /\ stored \in [Turns -> SUBSET Result] /\ attempts \in [Turns -> Nat]
    BY DEF Init
  <2>4. out \in [Turns -> Response] /\ task \in [Turns -> Task]
    BY ConstantTypes DEF Init
  <2> QED
    BY <2>1, <2>2, <2>3, <2>4 DEF Init, TypeOK
<1>2. /\ \A t \in Turns : /\ relay[t] = "idle" /\ out[t] = NoResponse /\ seen[t] = {}
                          /\ task[t].pc = "absent" /\ stored[t] = {}
      /\ NoResponse.end = "open"
  BY DEF Init, NoTask, NoResponse
<1>3. ASSUME NEW t \in Turns PROVE SoundTurn(t)
  BY <1>2 DEF SoundTurn, Placed, Recorded, Once, Faithful, Silent, Prompted, Shown, Busy
<1>4. FilesHaveMarker
  BY DEF Init, FilesHaveMarker, Original
<1> QED
  BY <1>1, <1>3, <1>4 DEF IInv

LEMMA StepSound == IInv /\ [Next]_vars => IInv'
<1> SUFFICES ASSUME IInv, [Next]_vars PROVE IInv'
  OBVIOUS
<1>1. FilesHaveMarker'
  BY MarkersKept
<1>2. TypeOK' /\ \A t \in Turns : SoundTurn(t)'
  <2>1. CASE DeleteSession \/ DeletePersona
    BY <2>1, DeleteSteps, Frame DEF IInv
  <2>2. CASE UNCHANGED vars
    <3>1. TypeOK' /\ \A u \in Turns : Undisturbed(u)
      BY <2>2 DEF IInv, TypeOK, Undisturbed, vars
    <3> QED
      BY <3>1, Frame DEF IInv
  <2>3. ASSUME NEW t \in Turns,
               \/ Accept(t) \/ RelayStep(t) \/ RelayTimeout(t) \/ Disconnect(t)
               \/ TaskStep(t) \/ NextToken(t) \/ Raise(t) \/ SetupFails(t) \/ Crash(t)
        PROVE  TypeOK' /\ \A u \in Turns : SoundTurn(u)'
    <3>1. TypeOK' /\ SoundTurn(t)' /\ \A u \in Turns \ {t} : Undisturbed(u)
      BY <2>3, TurnMoves DEF Moved
    <3>2. \A u \in Turns \ {t} : SoundTurn(u)'
      BY <3>1, Frame DEF IInv
    <3> QED
      BY <3>1, <3>2
  <2> QED
    BY <2>1, <2>2, <2>3 DEF Next
<1> QED
  BY <1>1, <1>2 DEF IInv

LEMMA Sound == Spec => []IInv
  BY InitSound, StepSound, PTL DEF Spec

-----------------------------------------------------------------------------
(* Theorems *)

\* The variables of the refinement keep their types: a session, once given to a turn, is one
\* of those that were opened, and every reply that is stored is whole.
THEOREM RefineTypeCorrect == Spec => []TypeOK
<1>1. IInv => TypeOK
  BY DEF IInv
<1> QED
  BY Sound, <1>1, PTL

\* A client that is told "done" or "complete" can rely on the turn: _run_refine commits the
\* reply and the assistant's message before it publishes the event.
THEOREM EndsAreStored == Spec => []EndMeansStored
<1>1. IInv => EndMeansStored
  <2> SUFFICES ASSUME IInv, NEW t \in Turns, Shown(t)
               PROVE  /\ \E m \in log : m.turn = t /\ m.role = "assistant"
                      /\ \E s \in stored[t] : s.kind = IF out[t].end = "done" THEN "text"
                                                       ELSE "generation"
    BY DEF EndMeansStored
  <2>1. \E s \in stored[t] : s.kind = IF out[t].end = "done" THEN "text" ELSE "generation"
    BY DEF IInv, SoundTurn, Recorded
  <2>2. Told(t, task[t].session) \in log
    BY <2>1 DEF IInv, SoundTurn, Recorded
  <2> QED
    BY <2>1, <2>2 DEF Told
<1> QED
  BY Sound, <1>1, PTL

\* Without a killed worker or a dropped event, what a finished response carried is the one
\* attempt that was stored, and the files of the row if no other turn wrote any meanwhile.
THEOREM ShownWasStored == Spec => []ShownIsStored
<1>1. IInv => ShownIsStored
  BY DEF IInv, SoundTurn, Faithful, Agrees, ShownIsStored
<1> QED
  BY Sound, <1>1, PTL

\* Events that are lost, exceptions and retries never make a turn commit twice: only the
\* message of a killed worker, which is delivered again, can.
THEOREM CommitsOnce == Spec => []CommittedOnce
<1>1. IInv => CommittedOnce
  <2> SUFFICES ASSUME IInv, ~crashed, NEW t \in Turns PROVE Cardinality(stored[t]) <= 1
    BY DEF CommittedOnce
  <2>1. \A r, s \in stored[t] : r = s
    BY DEF IInv, SoundTurn, Once
  <2>2. CASE stored[t] = {}
    BY <2>2, FS_EmptySet
  <2>3. CASE stored[t] # {}
    <3>1. PICK s \in stored[t] : stored[t] = {s}
      BY <2>1, <2>3
    <3> QED
      BY <3>1, FS_Singleton
  <2> QED
    BY <2>2, <2>3
<1> QED
  BY Sound, <1>1, PTL

\* Every file of the row was written by a stored generation, and the conversation holds the
\* marker of that turn: apply_generation and the marker are one commit.
THEOREM FilesAreMarked == Spec => []FilesHaveMarker
<1>1. IInv => FilesHaveMarker
  BY DEF IInv
<1> QED
  BY Sound, <1>1, PTL

\* The transcript that build_refine_transcript gives the model holds every answer of the
\* session that its user had been shown before writing.
THEOREM PromptsHoldAnswers == Spec => []PromptHoldsAnswers
<1>1. IInv => PromptHoldsAnswers
  BY DEF IInv, SoundTurn, Prompted, Told, PromptHoldsAnswers
<1> QED
  BY Sound, <1>1, PTL

\* While a response is still open when a run of its task has returned, an event was dropped:
\* whatever the run met in the try block of _run_refine, it published a terminal event.  A
\* message lost with its pool process and a task that cannot be set up end without one.
THEOREM NeverSilent == Spec => []NoSilentEnd
<1>1. IInv => NoSilentEnd
  BY DEF IInv, SoundTurn, Silent, NoSilentEnd
<1> QED
  BY Sound, <1>1, PTL

-----------------------------------------------------------------------------
(***************************************************************************)
(* That every response ends, as far as it does not depend on fairness: an  *)
(* open relay always has a task that will still publish a terminal event,  *)
(* unless one was dropped, the message was lost with its pool process or   *)
(* the task could not be set up; and a task comes to an end: each of its   *)
(* steps takes it nearer to it, and only a killed worker takes it back.    *)
(***************************************************************************)

RelayIsServed ==
  \A t \in Turns : relay[t] = "relaying" =>
    task[t].pc \in (Held \ {"returning"}) \cup {"queued", "abandoned"} \/ lost

\* Where task record x can go in one step, whatever the row and the others hold.
Moves(x, y) ==
  \/ /\ y.retries = x.retries
     /\ \/ <<x.pc, y.pc>> \in
             {<<"queued", "loaded">>, <<"queued", "failing">>, <<"loaded", "streaming">>,
              <<"streaming", "failing">>, <<"streaming", "completing">>,
              <<"streaming", "announcing">>, <<"announcing", "completing">>,
              <<"completing", "returning">>, <<"failing", "returning">>,
              <<"returning", "done">>, <<"erring", "done">>, <<"queued", "abandoned">>}
        \/ x.pc = "streaming" /\ y.pc = "streaming" /\ x.mode = "none" /\ y.mode # "none"
        \/ x.pc \in Busy /\ y.pc = "erring"
  \/ x.pc \in {"erring", "queued"} /\ y.pc = "queued" /\ y.retries = x.retries + 1

\* The steps a run can take at most before it is done or queued again for a retry.
Place(x) ==
  CASE x.pc = "queued" -> 7      [] x.pc = "loaded" -> 6
    [] x.pc = "streaming" -> IF x.mode = "none" THEN 5 ELSE 4
    [] x.pc = "announcing" -> 3  [] x.pc \in {"completing", "failing"} -> 2
    [] x.pc \in {"erring", "returning"} -> 1
    [] x.pc = "absent" -> 8      [] OTHER -> 0

Nearer(x, y) == y.retries > x.retries \/ (y.retries = x.retries /\ Place(y) < Place(x))

\* What the steps of the others, and another chunk of text, leave as it is.
Still(x, y) == y.pc = x.pc /\ y.retries = x.retries /\ Place(y) = Place(x)

TurnsComeNearer ==
  [][\A t \in Turns :
       /\ TaskStep(t) \/ Raise(t) \/ SetupFails(t) => Nearer(task[t], task'[t])
       /\ task[t].pc # "absent" => \/ Nearer(task[t], task'[t])
                                   \/ Still(task[t], task'[t])
                                   \/ Crash(t)]_vars

\* A record of which only other fields are written is where it was.
LEMMA StillField ==
  ASSUME NEW x \in Task, NEW y \in Task, y.pc = x.pc, y.retries = x.retries, y.mode = x.mode
  PROVE  Still(x, y)
  BY DEF Still, Place

LEMMA MovesNearer ==
  ASSUME NEW x \in Task, NEW y \in Task, Moves(x, y)
  PROVE  Nearer(x, y) /\ y.pc # "absent"
<1>1. x.retries \in Nat /\ y.retries \in Nat
  BY RefineAssumption DEF Task
<1>2. CASE x.pc \in {"erring", "queued"} /\ y.pc = "queued" /\ y.retries = x.retries + 1
  BY <1>1, <1>2 DEF Nearer
<1>3. CASE x.pc \in Busy /\ y.pc = "erring" /\ y.retries = x.retries
  <2>1. Place(y) = 1 /\ Place(x) \in {4, 5, 6, 7}
    BY <1>3 DEF Place, Busy
  <2> QED BY <1>3, <2>1 DEF Nearer
<1>4. CASE x.pc = "streaming" /\ y.pc = "streaming" /\ x.mode = "none" /\ y.mode # "none"
           /\ y.retries = x.retries
  BY <1>4 DEF Nearer, Place
<1>5. CASE y.retries = x.retries /\ x.pc \in {"queued", "loaded"} /\ y.pc \in {"loaded", "failing", "streaming"}
           /\ (x.pc = "loaded" => y.pc = "streaming")
           /\ (x.pc = "queued" => y.pc # "streaming")
  BY <1>5 DEF Nearer, Place
<1>6. CASE y.retries = x.retries /\ x.pc = "streaming" /\ y.pc \in {"failing", "completing", "announcing"}
  BY <1>6 DEF Nearer, Place
<1>7. CASE y.retries = x.retries
           /\ <<x.pc, y.pc>> \in {<<"announcing", "completing">>, <<"completing", "returning">>,
                                  <<"failing", "returning">>, <<"returning", "done">>, <<"erring", "done">>,
                                  <<"queued", "abandoned">>}
  BY <1>7 DEF Nearer, Place
<1> QED BY <1>2, <1>3, <1>4, <1>5, <1>6, <1>7 DEF Moves

\* Every step of the task, and every exception in it, is such a move.
LEMMA TaskMovesOn ==
  ASSUME IInv, NEW t \in Turns, TaskStep(t) \/ Raise(t) \/ SetupFails(t)
  PROVE  Moves(task[t], task'[t])
<1>r. TypeOK /\ task \in [Turns -> Task] /\ task[t] \in Task /\ task[t].retries \in 0..MaxRetries
      /\ MaxRetries \in Nat
  BY TaskFields, RefineAssumption DEF IInv, TypeOK
<1>f. ASSUME NEW pc \in Pcs, NEW n \in 0..MaxRetries, task' = Forget(t, pc, n)
      PROVE  task'[t].pc = pc /\ task'[t].retries = n
  <2>1. task'[t] = [NoTask EXCEPT !.pc = pc, !.retries = n, !.session = task[t].session]
    BY <1>f, <1>r DEF Forget
  <2> QED BY <2>1 DEF NoTask
<1>g. ASSUME NEW from, NEW to \in Pcs, Goto(t, from, to)
      PROVE  task[t].pc = from /\ task'[t].pc = to /\ task'[t].retries = task[t].retries
  <2>1. task[t].pc = from /\ task'[t] = [task[t] EXCEPT !.pc = to]
    BY <1>g, <1>r, GotoEffect
  <2> QED BY <2>1, <1>r DEF Task
<1>p. {"done", "queued", "failing", "erring", "returning", "completing", "abandoned"} \subseteq Pcs
  BY DEF Pcs, Held, Busy
<1>1. CASE LoadDeleted(t)
  <2>1. task[t].pc = "queued" /\ task'[t].pc = "failing" /\ task'[t].retries = task[t].retries
    BY <1>1, <1>g, <1>p DEF LoadDeleted
  <2> QED BY <2>1 DEF Moves
<1>2. CASE Load(t)
  <2>1. task[t].pc = "queued" /\ task'[t].pc = "loaded" /\ task'[t].retries = task[t].retries
    BY <1>2, <1>r DEF Load, Task
  <2> QED BY <2>1 DEF Moves
<1>3. CASE ReadConversation(t)
  <2>1. task[t].pc = "loaded" /\ task'[t].pc = "streaming" /\ task'[t].retries = task[t].retries
    BY <1>3, <1>r DEF ReadConversation, Task
  <2> QED BY <2>1 DEF Moves
<1>4. ASSUME NEW mode \in {"text", "generation"}, FirstChunk(t, mode) PROVE Moves(task[t], task'[t])
  <2>1. /\ task[t].pc = "streaming" /\ task[t].mode = "none" /\ task'[t].mode = mode
        /\ task'[t].pc = "streaming" /\ task'[t].retries = task[t].retries
    BY <1>4, <1>r DEF FirstChunk, Task
  <2> QED BY <2>1 DEF Moves
<1>5. CASE Empty(t) \/ Malformed(t)
  <2>1. task[t].pc = "streaming" /\ task'[t].pc = "failing" /\ task'[t].retries = task[t].retries
    BY <1>5, <1>g, <1>p DEF Empty, Malformed
  <2> QED BY <2>1 DEF Moves
<1>6. CASE StoreText(t)
  <2>1. task[t].pc = "streaming" /\ task'[t].pc = "completing" /\ task'[t].retries = task[t].retries
    BY <1>6, <1>r DEF StoreText, Task
  <2> QED BY <2>1 DEF Moves
<1>7. ASSUME NEW kept \in SUBSET Files, StoreGeneration(t, kept) PROVE Moves(task[t], task'[t])
  <2>1. task[t].pc = "streaming" /\ task'[t] = [task[t] EXCEPT !.pc = "announcing", !.reply = Replied(t, kept)]
    BY <1>7 DEF StoreGeneration
  <2>2. task'[t].pc = "announcing" /\ task'[t].retries = task[t].retries
    BY <2>1, <1>r DEF Task
  <2> QED BY <2>1, <2>2 DEF Moves
<1>8. CASE AnnounceFiles(t)
  <2>1. task[t].pc = "announcing" /\ task'[t].pc = "completing" /\ task'[t].retries = task[t].retries
    BY <1>8, <1>g, <1>p DEF AnnounceFiles
  <2> QED BY <2>1 DEF Moves
<1>9. CASE Complete(t) \/ FailEvent(t)
  <2>1. /\ task[t].pc \in {"completing", "failing"} /\ task'[t].pc = "returning"
        /\ task'[t].retries = task[t].retries
    BY <1>9, <1>f, <1>p, <1>r DEF Complete, FailEvent
  <2> QED BY <2>1 DEF Moves
<1>10. CASE Return(t)
  <2>1. task[t].pc = "returning" /\ task'[t].pc = "done" /\ task'[t].retries = task[t].retries
    BY <1>10, <1>g, <1>p DEF Return
  <2> QED BY <2>1 DEF Moves
<1>11. CASE ErrorEvent(t)
  <2>1. CASE task[t].retries < MaxRetries
    <3>1. task[t].pc = "erring" /\ task' = Forget(t, "queued", task[t].retries + 1)
      BY <1>11, <2>1 DEF ErrorEvent
    <3>2. task[t].retries + 1 \in 0..MaxRetries
      BY <2>1, <1>r
    <3>3. task'[t].pc = "queued" /\ task'[t].retries = task[t].retries + 1
      BY <3>1, <3>2, <1>f, <1>p
    <3> QED BY <3>1, <3>3 DEF Moves
  <2>2. CASE ~(task[t].retries < MaxRetries)
    <3>1. task[t].pc = "erring" /\ task' = Forget(t, "done", task[t].retries)
      BY <1>11, <2>2 DEF ErrorEvent
    <3>2. task'[t].pc = "done" /\ task'[t].retries = task[t].retries
      BY <3>1, <1>f, <1>p, <1>r
    <3> QED BY <3>1, <3>2 DEF Moves
  <2> QED BY <2>1, <2>2
<1>12. CASE Raise(t)
  <2>1. task[t].pc \in Busy /\ task'[t].pc = "erring" /\ task'[t].retries = task[t].retries
    BY <1>12, <1>f, <1>p, <1>r DEF Raise
  <2> QED BY <2>1 DEF Moves
<1>13. CASE SetupFails(t)
  <2>1. CASE task[t].retries < MaxRetries
    <3>1. task[t].pc = "queued" /\ task' = Forget(t, "queued", task[t].retries + 1)
          /\ task[t].retries + 1 \in 0..MaxRetries
      BY <1>13, <1>r, <2>1 DEF SetupFails
    <3>2. task'[t].pc = "queued" /\ task'[t].retries = task[t].retries + 1
      BY <3>1, <1>f, <1>p
    <3> QED BY <3>1, <3>2 DEF Moves
  <2>2. CASE ~(task[t].retries < MaxRetries)
    <3>1. task[t].pc = "queued" /\ task' = Forget(t, "abandoned", task[t].retries)
      BY <1>13, <2>2 DEF SetupFails
    <3>2. task'[t].pc = "abandoned" /\ task'[t].retries = task[t].retries
      BY <3>1, <1>f, <1>p, <1>r
    <3> QED BY <3>1, <3>2 DEF Moves
  <2> QED BY <2>1, <2>2
<1> QED
  BY <1>1, <1>2, <1>3, <1>4, <1>5, <1>6, <1>7, <1>8, <1>9, <1>10, <1>11, <1>12, <1>13 DEF TaskStep

LEMMA TurnsStep ==
  ASSUME IInv, IInv', [Next]_vars, NEW t \in Turns
  PROVE  /\ TaskStep(t) \/ Raise(t) \/ SetupFails(t) => Nearer(task[t], task'[t])
         /\ task[t].pc # "absent" => \/ Nearer(task[t], task'[t])
                                     \/ Still(task[t], task'[t])
                                     \/ Crash(t)
         /\ task[t].pc # "absent" => task'[t].pc # "absent"
         /\ relay'[t] = "relaying" => relay[t] = "relaying" \/ task'[t].pc = "queued"
<1>r. task[t] \in Task /\ task'[t] \in Task /\ task \in [Turns -> Task] /\ TypeOK
  BY DEF IInv, TypeOK
<1>p. SoundTurn(t) /\ Placed(t)
  BY DEF IInv, SoundTurn
<1>1. ASSUME TaskStep(t) \/ Raise(t) \/ SetupFails(t)
      PROVE  Nearer(task[t], task'[t]) /\ task'[t].pc # "absent"
  BY <1>1, <1>r, TaskMovesOn, MovesNearer
<1>u. ASSUME Undisturbed(t)
      PROVE  /\ Still(task[t], task'[t]) /\ relay'[t] = relay[t] /\ task'[t].pc = task[t].pc
  <2>1. task'[t] = task[t] \/ task'[t] = [task[t] EXCEPT !.alone = task'[t].alone]
    BY <1>u DEF Undisturbed
  <2>2. task'[t].pc = task[t].pc /\ task'[t].retries = task[t].retries /\ task'[t].mode = task[t].mode
    BY <2>1, <1>r DEF Task
  <2> QED BY <2>2, <1>r, <1>u, StillField DEF Undisturbed
<1>s. task'[t] = task[t] => Still(task[t], task'[t])
  BY <1>r, StillField
<1>2. CASE DeleteSession \/ DeletePersona
  BY <1>2, <1>1, <1>u, DeleteSteps
<1>3. CASE UNCHANGED vars
  BY <1>3, <1>1, <1>s DEF vars
<1>4. ASSUME NEW u \in Turns, u # t,
             \/ Accept(u) \/ RelayStep(u) \/ RelayTimeout(u) \/ Disconnect(u)
             \/ TaskStep(u) \/ NextToken(u) \/ Raise(u) \/ SetupFails(u) \/ Crash(u)
      PROVE  Undisturbed(t)
  BY <1>4, TurnMoves DEF Moved
<1>5. CASE Accept(t)
  <2>1. task[t].pc = "absent" /\ relay'[t] # "relaying"
    BY <1>5, <1>p, <1>r DEF Accept, Placed, TypeOK
  <2> QED BY <2>1, <1>1
<1>6. CASE RelayStep(t)
  <2>1. task[t].pc = "absent"
    BY <1>6, <1>p DEF RelayStep, Enqueue, EnqueueFails, Placed
  <2>2. CASE Enqueue(t)
    BY <2>1, <2>2, <1>1, <1>r, QueuedEffect DEF Enqueue
  <2>3. CASE EnqueueFails(t)
    <3>1. relay'[t] = "ended"
      BY <2>3, <1>r DEF EnqueueFails, End, TypeOK
    <3> QED BY <2>1, <3>1, <1>1
  <2> QED BY <2>2, <2>3, <1>6 DEF RelayStep
<1>7. CASE RelayTimeout(t) \/ Disconnect(t)
  <2>1. task' = task
    BY <1>7 DEF RelayTimeout, Disconnect
  <2>2. relay'[t] = "ended"
    BY <1>7, <1>r DEF RelayTimeout, Disconnect, End, TypeOK
  <2> QED BY <2>1, <2>2, <1>1, <1>s
<1>e. ASSUME NEW e, Publish(t, e) PROVE relay'[t] = "relaying" => relay[t] = "relaying"
  BY <1>e, <1>r DEF Publish, Relayed, End, TypeOK
<1>8. CASE NextToken(t)
  <2>1. task' = task /\ (relay'[t] = "relaying" => relay[t] = "relaying")
    BY <1>8, <1>e DEF NextToken
  <2> QED BY <2>1, <1>1, <1>s
<1>9. CASE Crash(t)
  <2>1. PICK q \in {"queued", "abandoned"} : task' = Forget(t, q, task[t].retries) /\ relay' = relay
    BY <1>9 DEF Crash
  <2>2. task'[t].pc = q
    <3>1. q \in Pcs /\ task[t].retries \in 0..MaxRetries
      BY <1>r, Places, TaskFields
    <3> QED BY <2>1, <1>r, <3>1, ForgetEffect
  <2> QED BY <2>1, <2>2, <1>1, <1>9
<1>10. CASE TaskStep(t) \/ Raise(t) \/ SetupFails(t)
  <2>1. relay' = relay \/ \E e : Publish(t, e)
    BY <1>10
    DEF TaskStep, Raise, LoadDeleted, Load, ReadConversation, FirstChunk, Empty, StoreText, Malformed,
        StoreGeneration, AnnounceFiles, Complete, FailEvent, Return, ErrorEvent, SetupFails
  <2> QED BY <2>1, <1>1, <1>10, <1>e
<1> QED BY <1>2, <1>3, <1>4, <1>5, <1>6, <1>7, <1>8, <1>9, <1>10, <1>u, <1>1 DEF Next

\* An open relay has had its task queued.
HasTask == \A t \in Turns : relay[t] = "relaying" => task[t].pc # "absent"

\* refine.py and _relay_refine: what a response waits for besides its deadline, and not for
\* ever: an open one has a task that has still to publish a terminal event (unless Redis
\* dropped one, the message was lost with its pool process or the task could not be set up,
\* "abandoned"), and a task, for all its retries, takes finitely many steps besides the chunks
\* of its text between two kills of its worker.
THEOREM TurnsComeToAnEnd == Spec => []RelayIsServed /\ TurnsComeNearer
<1>1. Init => HasTask
  BY DEF Init, HasTask
<1>2. IInv /\ IInv' /\ HasTask /\ [Next]_vars => HasTask'
  <2> SUFFICES ASSUME IInv, IInv', HasTask, [Next]_vars, NEW t \in Turns, relay'[t] = "relaying"
               PROVE  task'[t].pc # "absent"
    BY DEF HasTask
  <2> QED BY TurnsStep DEF HasTask
<1>3. IInv /\ HasTask => RelayIsServed
  <2> SUFFICES ASSUME IInv, HasTask, NEW t \in Turns, relay[t] = "relaying", ~lost
               PROVE  task[t].pc \in (Held \ {"returning"}) \cup {"queued", "abandoned"}
    BY DEF RelayIsServed
  <2>1. task[t].pc \in Pcs /\ task[t].pc \notin {"absent", "returning", "done"}
    BY TaskFields DEF IInv, TypeOK, HasTask, SoundTurn, Silent
  <2> QED BY <2>1 DEF Pcs, Held, Busy
<1>4. IInv /\ IInv' /\ [Next]_vars =>
        [\A t \in Turns :
           /\ TaskStep(t) \/ Raise(t) \/ SetupFails(t) => Nearer(task[t], task'[t])
           /\ task[t].pc # "absent" => \/ Nearer(task[t], task'[t])
                                       \/ Still(task[t], task'[t])
                                       \/ Crash(t)]_vars
  BY TurnsStep
<1> QED
  BY <1>1, <1>2, <1>3, <1>4, Sound, PTL DEF Spec, TurnsComeNearer

=============================================================================
