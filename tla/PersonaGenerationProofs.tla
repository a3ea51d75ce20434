----------------------- MODULE PersonaGenerationProofs -----------------------
(***************************************************************************)
(* Theorems about PersonaGeneration, for every value of its constants: its *)
(* types, what the row always satisfies, the calls of the LLM, and that    *)
(* the row moves as PersonaLifecycle says, and that runs come to an end.   *)
(* Each theorem has an invariant of its own, stated where its section      *)
(* begins; some assume no overlapping deliveries (SingleDelivery), where   *)
(* the property needs it.                                                  *)
(***************************************************************************)
EXTENDS PersonaGeneration, TLAPS

(* Operators the actions are built from. *)

LEMMA ConstantTypes ==
  /\ NoAnswers \in AnswerLog
  /\ NoRun \in Run
  /\ NoRequest \in Request
  /\ \A context \in AnswerLog : FollowupPrompt(context) \in Prompt
  /\ \A pc \in RunPc, n \in 0..MaxRetries : Forget(pc, n) \in Run
<1>1. NoAnswers \in AnswerLog
  BY ConstantsAssumption DEF NoAnswers, AnswerLog, Rounds
<1>2. BasePrompt \in Prompt /\ \A context \in AnswerLog : FollowupPrompt(context) \in Prompt
  BY <1>1 DEF BasePrompt, FollowupPrompt, Prompt
<1>3. NoRun \in Run
  BY <1>2, ConstantsAssumption DEF NoRun, Run, RunPc, Status, Terminal
<1>4. NoRequest \in Request
  BY <1>1, ConstantsAssumption DEF NoRequest, Request
<1>5. \A pc \in RunPc, n \in 0..MaxRetries : Forget(pc, n) \in Run
  BY <1>3 DEF Forget, Run
<1> QED BY <1>1, <1>2, <1>3, <1>4, <1>5

-----------------------------------------------------------------------------
(* Type correctness *)

LEMMA InitType == Init => TypeOK
<1> SUFFICES ASSUME Init PROVE TypeOK
  OBVIOUS
<1>1. persona \in Persona
  BY ConstantsAssumption DEF Init, Persona, NoFiles, Contents, Status, Terminal
<1>2. session \in Session /\ log \in Log
  BY ConstantTypes, ConstantsAssumption DEF Init, Session, Log, Rounds
<1>3. run \in [Runs -> Run] /\ req \in [Requests -> Request]
  BY ConstantTypes DEF Init
<1>4. announced \subseteq Codes /\ attempts \in Nat /\ calls \in Nat /\ crashes \in 0..MaxCrashes
  BY ConstantsAssumption DEF Init
<1>5. publishing \in BOOLEAN /\ api \in {"idle", "created", "refused", "done"}
  BY DEF Init
<1> QED BY <1>1, <1>2, <1>3, <1>4, <1>5 DEF TypeOK

LEMMA ApiType ==
  ASSUME TypeOK,
         \/ ApiCreate \/ ApiRefuse \/ ApiMarkUnavailable
         \/ PublishBegin \/ PublishCommit \/ PublishRaise
         \/ \E r \in Runs : ApiEnqueue(r)
  PROVE  TypeOK'
<1> USE DEF TypeOK, Persona, Status, Terminal, Codes
<1>1. CASE ApiCreate
  BY <1>1 DEF ApiCreate
<1>2. CASE ApiRefuse
  BY <1>2 DEF ApiRefuse, Run, RunPc
<1>3. CASE ApiMarkUnavailable
  BY <1>3 DEF ApiMarkUnavailable
<1>4. CASE PublishBegin \/ PublishCommit \/ PublishRaise
  BY <1>4 DEF PublishBegin, PublishCommit, PublishRaise
<1>5. ASSUME NEW r \in Runs, ApiEnqueue(r) PROVE TypeOK'
  BY <1>5 DEF ApiEnqueue, Run, RunPc
<1> QED BY <1>1, <1>2, <1>3, <1>4, <1>5

LEMMA RunUpdate ==
  ASSUME TypeOK, NEW r \in Runs, NEW rec \in Run
  PROVE  [run EXCEPT ![r] = rec] \in [Runs -> Run]
  BY DEF TypeOK

LEMMA RequestUpdate ==
  ASSUME TypeOK, NEW q \in Requests, NEW rec \in Request
  PROVE  [req EXCEPT ![q] = rec] \in [Requests -> Request]
  BY DEF TypeOK

\* The values that actions assign to pc and status, stated once so that the sets stay folded.
LEMMA Values ==
  /\ {"queued", "done", "lost", "loop", "calling", "replied", "asked", "waiting", "refresh",
      "files", "matching", "announce", "returning", "recovering", "mark_failed", "reraise"} \subseteq RunPc
  /\ {"draft", "generating", "needs_clarification", "skills_matching", "generated",
      "published", "failed"} \subseteq Status
  BY DEF RunPc, Held, Working, Recovering, Status, Terminal

LEMMA FailType ==
  ASSUME TypeOK, NEW r \in Runs, NEW code \in Codes,
         NEW files \in Contents, Fail(r, code, files)
  PROVE  persona' \in Persona /\ run' \in [Runs -> Run]
<1>1. persona' \in Persona
  BY DEF Fail, TypeOK, Persona, StatusWrite, Status, Terminal
<1>2. [run[r] EXCEPT !.pc = "announce", !.status = "failed", !.code = code,
                     !.reply = "none", !.inbox = FALSE, !.empty = {}] \in Run
  <2>1. run[r] \in Run /\ "announce" \in RunPc /\ "failed" \in Status
    BY Values DEF TypeOK
  <2> QED BY <2>1 DEF Run
<1>3. run' \in [Runs -> Run]
  BY <1>2, RunUpdate DEF Fail
<1> QED BY <1>1, <1>3

LEMMA RetriedType ==
  ASSUME TypeOK, NEW r \in Runs
  PROVE  Retried(r) \in [Runs -> Run]
<1>0. run[r].retries \in 0..MaxRetries /\ "queued" \in RunPc /\ "done" \in RunPc
  BY Values DEF TypeOK, Run
<1>1. CASE run[r].retries < MaxRetries
  <2>1. run[r].retries + 1 \in 0..MaxRetries
    BY <1>1, <1>0, ConstantsAssumption
  <2>2. Forget("queued", run[r].retries + 1) \in Run
    BY <2>1, <1>0, ConstantTypes
  <2> QED BY <2>2, <1>1, RunUpdate DEF Retried
<1>2. CASE ~(run[r].retries < MaxRetries)
  <2>1. Forget("done", run[r].retries) \in Run
    BY <1>0, ConstantTypes
  <2> QED BY <2>1, <1>2, RunUpdate DEF Retried
<1> QED BY <1>1, <1>2

\* A column holds the reply's file, or nothing if the reply left it blank (or what it holds).
LEMMA StoredType ==
  ASSUME TypeOK, NEW r \in Runs, NEW c \in Columns, NEW blank, NEW x \in Stored(r, c, blank)
  PROVE  /\ x \in Nat
         /\ c \notin blank => x = run[r].attempt
         /\ x = run[r].attempt \/ x = 0 \/ (c \in run[r].empty /\ x = persona.files[c])
  BY DEF Stored, TypeOK, Run, Persona, Contents, Columns

LEMMA AskType ==
  ASSUME TypeOK, NEW r \in Runs, RunAsk(r)
  PROVE  TypeOK'
<1> DEFINE n == run[r].rounds + 1
<1>1. n \in Rounds /\ n \in 0..MaxRounds
  BY ConstantsAssumption DEF RunAsk, Rounds, TypeOK, Run
<1>2. AskRound(r, n, log.asked \cup {n})
  BY DEF RunAsk
<1>3. persona' \in Persona
  BY <1>1, <1>2 DEF AskRound, TypeOK, Persona, StatusWrite, Status
<1>4. [run[r] EXCEPT !.pc = "asked", !.status = "needs_clarification",
                     !.rounds = n, !.reply = "none"] \in Run
  <2>1. /\ run[r] \in Run /\ n \in 0..MaxRounds
        /\ "asked" \in RunPc /\ "needs_clarification" \in Status
    BY <1>1, Values DEF TypeOK
  <2> QED BY <2>1 DEF Run
<1>5. run' \in [Runs -> Run]
  BY <1>2, <1>4, RunUpdate DEF AskRound
<1>6. log' \in Log
  BY <1>1, <1>2 DEF AskRound, TypeOK, Log
<1> QED BY <1>2, <1>3, <1>5, <1>6 DEF AskRound, TypeOK

\* A run that is about to announce knows which code it failed with.
CodeKnown == \A r \in Runs : run[r].pc = "announce" => run[r].code \in Codes

LEMMA RunType ==
  ASSUME TypeOK, CodeKnown, NEW r \in Runs,
         RunStep(r) \/ RunRaise(r) \/ RunSetupFails(r) \/ RunCrash(r) \/ \E s \in Runs : Duplicate(r, s)
  PROVE  TypeOK'
<1>0. run[r] \in Run /\ run[r].retries \in 0..MaxRetries
  BY DEF TypeOK, Run
<1>f. \A pc \in RunPc : [run EXCEPT ![r] = Forget(pc, run[r].retries)] \in [Runs -> Run]
  BY <1>0, ConstantTypes, RunUpdate
<1>p. {"queued", "done", "lost", "loop", "recovering", "reraise", "returning"} \subseteq RunPc
  BY Values
<1>1. CASE RunSkip(r)
  BY <1>1, <1>f, <1>p DEF RunSkip, TypeOK
<1>2. CASE RunLoad(r)
  <2>1. [Forget("loop", run[r].retries) EXCEPT
           !.status = persona.status, !.rounds = persona.rounds,
           !.empty = {c \in Blanks : persona.files[c] = 0}, !.attempt = attempts + 1] \in Run
    <3>1. /\ Forget("loop", run[r].retries) \in Run /\ persona.status \in Status
          /\ persona.rounds \in 0..MaxRounds /\ attempts + 1 \in Nat
          /\ {c \in Blanks : persona.files[c] = 0} \in SUBSET Columns
      BY <1>0, <1>p, ConstantTypes, ConstantsAssumption DEF TypeOK, Persona
    <3> QED BY <3>1 DEF Run
  <2> QED BY <2>1, <1>2, RunUpdate DEF RunLoad, TypeOK
<1>3. CASE RunBeginRound(r)
  <2>1. [run[r] EXCEPT !.pc = "calling", !.status = "generating"] \in Run
    BY <1>0, Values DEF Run
  <2>2. persona' \in Persona
    BY <1>3 DEF RunBeginRound, StatusWrite, TypeOK, Persona, Status
  <2> QED BY <2>1, <2>2, <1>3, RunUpdate DEF RunBeginRound, TypeOK
<1>4. ASSUME NEW k \in Replies, RunReply(r, k) PROVE TypeOK'
  <2>1. [run[r] EXCEPT !.pc = "replied", !.reply = k] \in Run
    BY <1>0, Values DEF Run
  <2>2. run' \in [Runs -> Run]
    BY <2>1, <1>4, <1>f, <1>p, RunUpdate DEF RunReply
  <2> QED BY <2>2, <1>4 DEF RunReply, TypeOK
<1>5. CASE RunInvalid(r) \/ RunRoundCap(r) \/ RunTimeout(r)
  <2>1. PICK code \in Codes : Fail(r, code, persona.files)
    BY <1>5 DEF RunInvalid, RunRoundCap, RunTimeout, Codes
  <2>2. persona.files \in Contents
    BY DEF TypeOK, Persona
  <2>3. persona' \in Persona /\ run' \in [Runs -> Run]
    BY <2>1, <2>2, FailType
  <2> QED BY <2>3, <1>5 DEF RunInvalid, RunRoundCap, RunTimeout, TypeOK
<1>6. CASE RunPartial(r)
  <2> PICK blank \in SUBSET (Blanks \cap {"head"}) : \E head \in Stored(r, "head", blank) :
         Fail(r, "INVALID_LLM_RESPONSE",
              [persona.files EXCEPT !.head = head, !.blank = @ \cup blank])
    BY <1>6 DEF RunPartial
  <2> PICK head \in Stored(r, "head", blank) :
         Fail(r, "INVALID_LLM_RESPONSE",
              [persona.files EXCEPT !.head = head, !.blank = @ \cup blank])
    OBVIOUS
  <2>1. [persona.files EXCEPT !.head = head, !.blank = @ \cup blank] \in Contents
    <3>1. head \in Nat /\ blank \subseteq Columns
      BY StoredType, ConstantsAssumption DEF Columns
    <3> QED BY <3>1 DEF TypeOK, Persona, Contents
  <2>2. persona' \in Persona /\ run' \in [Runs -> Run]
    BY <2>1, FailType DEF Codes
  <2> QED BY <2>2, <1>6 DEF RunPartial, TypeOK
<1>7. CASE RunAsk(r)
  BY <1>7, AskType
<1>8. CASE RunSubscribe(r)
  <2>1. [run[r] EXCEPT !.pc = "waiting"] \in Run
    BY <1>0, Values DEF Run
  <2> QED BY <2>1, <1>8, RunUpdate DEF RunSubscribe, Goto, TypeOK
<1>9. CASE RunContinue(r)
  <2>1. [run[r] EXCEPT !.pc = "refresh", !.inbox = FALSE] \in Run
    BY <1>0, Values DEF Run
  <2> QED BY <2>1, <1>9, RunUpdate DEF RunContinue, TypeOK
<1>10. CASE RunRefresh(r)
  <2>1. FollowupPrompt(session.context) \in Prompt
    BY ConstantTypes DEF TypeOK, Session
  <2>2. [run[r] EXCEPT !.pc = "loop", !.prompt = FollowupPrompt(session.context)] \in Run
    BY <2>1, <1>0, Values DEF Run
  <2> QED BY <2>2, <1>10, RunUpdate DEF RunRefresh, TypeOK
<1>11. CASE RunApplyFiles(r)
  <2>1. [run[r] EXCEPT !.pc = "files", !.status = "generating", !.reply = "none", !.empty = {}] \in Run
    BY <1>0, Values DEF Run
  <2> PICK blank \in SUBSET Blanks :
         \E head \in Stored(r, "head", blank), tail \in Stored(r, "tail", blank) :
           persona' = [persona EXCEPT
             !.status = StatusWrite(r, "generating"),
             !.files = [head |-> head, tail |-> tail, blank |-> @.blank \cup blank]]
    BY <1>11 DEF RunApplyFiles
  <2> PICK head \in Stored(r, "head", blank), tail \in Stored(r, "tail", blank) :
         persona' = [persona EXCEPT
           !.status = StatusWrite(r, "generating"),
           !.files = [head |-> head, tail |-> tail, blank |-> @.blank \cup blank]]
    OBVIOUS
  <2>2. [head |-> head, tail |-> tail, blank |-> persona.files.blank \cup blank] \in Contents
    <3>1. head \in Nat /\ tail \in Nat /\ blank \subseteq Columns
      BY StoredType, ConstantsAssumption DEF Columns
    <3> QED BY <3>1 DEF TypeOK, Persona, Contents
  <2>3. persona' \in Persona
    BY <2>2, Values DEF StatusWrite, TypeOK, Persona
  <2> QED BY <2>1, <2>3, <1>11, RunUpdate DEF RunApplyFiles, TypeOK
<1>12. CASE RunMatching(r)
  <2>1. [run[r] EXCEPT !.pc = "matching", !.status = "skills_matching"] \in Run
    BY <1>0, Values DEF Run
  <2>2. persona' \in Persona
    BY <1>12 DEF RunMatching, StatusWrite, TypeOK, Persona, Status
  <2> QED BY <2>1, <2>2, <1>12, RunUpdate DEF RunMatching, TypeOK
<1>13. CASE RunFinish(r)
  <2>1. persona' \in Persona /\ session' \in Session
    BY <1>13 DEF RunFinish, StatusWrite, TypeOK, Persona, Session, Status, Terminal
  <2> QED BY <2>1, <1>13, <1>f, <1>p DEF RunFinish, TypeOK
<1>14. CASE RunAnnounce(r)
  <2>1. run[r].code \in Codes
    BY <1>14 DEF RunAnnounce, CodeKnown
  <2> QED BY <2>1, <1>14, <1>f, <1>p DEF RunAnnounce, Announce, TypeOK
<1>15. CASE RecoverRead(r)
  <2>1. persona.status \in Status
    BY DEF TypeOK, Persona
  <2>2. [run[r] EXCEPT
           !.pc = IF persona.status \in Terminal THEN "reraise" ELSE "mark_failed",
           !.status = persona.status] \in Run
    BY <2>1, <1>0, Values DEF Run
  <2> QED BY <2>2, <1>15, RunUpdate DEF RecoverRead, TypeOK
<1>16. CASE RecoverWrite(r)
  <2>1. persona' \in Persona
    BY <1>16 DEF RecoverWrite, StatusWrite, TypeOK, Persona, Status, Terminal, Codes
  <2> QED BY <2>1, <1>16, <1>f, <1>p DEF RecoverWrite, TypeOK
<1>17. CASE RecoverFail(r)
  BY <1>17, <1>f, <1>p DEF RecoverFail, TypeOK
<1>18. CASE RunReraise(r)
  <2>1. announced' \subseteq Codes
    BY <1>18 DEF RunReraise, Announce, TypeOK, Codes
  <2> QED BY <2>1, <1>18, RetriedType DEF RunReraise, TypeOK
<1>19. CASE RunRaise(r)
  BY <1>19, <1>f, <1>p DEF RunRaise, TypeOK
<1>20. CASE RunCrash(r)
  <2>1. crashes' \in 0..MaxCrashes
    BY <1>20, ConstantsAssumption DEF RunCrash, TypeOK
  <2> QED BY <2>1, <1>20, <1>f, <1>p DEF RunCrash, TypeOK
<1>21. ASSUME NEW s \in Runs, Duplicate(r, s) PROVE TypeOK'
  <2>1. [run[s] EXCEPT !.pc = "queued", !.retries = run[r].retries] \in Run
    BY <1>0, <1>p DEF Run, TypeOK
  <2> QED BY <2>1, <1>21, RunUpdate DEF Duplicate, TypeOK
<1>22. CASE RunReturn(r)
  BY <1>22, <1>f, <1>p DEF RunReturn, TypeOK
<1>23. CASE RunSetupFails(r)
  BY <1>23, RetriedType DEF RunSetupFails, TypeOK
<1> QED
  BY <1>23, <1>1, <1>2, <1>3, <1>4, <1>5, <1>6, <1>7, <1>8, <1>9, <1>10, <1>11, <1>12,
     <1>13, <1>14, <1>15, <1>16, <1>17, <1>18, <1>19, <1>20, <1>21, <1>22
  DEF RunStep

\* A request past the cap check still has room: the counter it read was below the cap.
RoomLeft ==
  \A q \in Requests : req[q].pc \in {"read", "compressed"} => Target(q) \in Rounds

LEMMA ClarifyType ==
  ASSUME TypeOK, RoomLeft, NEW q \in Requests,
         ClarifyStep(q) \/ \E n \in Rounds : ClarifyRead(q, n)
  PROVE  TypeOK'
<1>0. req[q] \in Request
  BY DEF TypeOK
<1>1. ASSUME NEW n \in Rounds, ClarifyRead(q, n) PROVE TypeOK'
  <2>1. n \in 0..MaxRounds /\ session.round \in 0..MaxRounds /\ session.context \in AnswerLog
    BY ConstantsAssumption DEF Rounds, TypeOK, Session
  <2>2. [NoRequest EXCEPT !.pc = "read", !.answers = n, !.round = session.round,
                          !.context = session.context] \in Request
    BY <2>1, ConstantTypes DEF Request
  <2> QED BY <2>2, <1>1, RequestUpdate DEF ClarifyRead, TypeOK
<1>2. CASE ClarifyCompress(q)
  <2> PICK filed \in BOOLEAN :
        /\ filed => Target(q) \in log.asked
        /\ req' = [req EXCEPT ![q] = [@ EXCEPT
             !.pc = "compressed", !.filed = filed,
             !.view = IF filed THEN [log.answers EXCEPT ![Target(q)] = req[q].answers]
                               ELSE log.answers]]
    BY <1>2 DEF ClarifyCompress
  <2> DEFINE view == IF filed THEN [log.answers EXCEPT ![Target(q)] = req[q].answers]
                              ELSE log.answers
  <2>1. log.answers \in AnswerLog /\ req[q].answers \in 0..MaxRounds
    BY <1>0 DEF TypeOK, Log, Request
  <2>2. view \in AnswerLog
    BY <2>1 DEF AnswerLog
  <2>3. [req[q] EXCEPT !.pc = "compressed", !.filed = filed, !.view = view] \in Request
    BY <2>2, <1>0 DEF Request
  <2>4. req' = [req EXCEPT ![q] = [req[q] EXCEPT !.pc = "compressed", !.filed = filed,
                                                 !.view = view]]
    OBVIOUS
  <2> QED BY <2>3, <2>4, <1>2, RequestUpdate DEF ClarifyCompress, TypeOK
<1>3. CASE ClarifyCommit(q)
  <2>1. req[q].answers \in 0..MaxRounds /\ req[q].round \in 0..MaxRounds
        /\ req[q].view \in AnswerLog /\ req[q].filed \in BOOLEAN
    BY <1>0 DEF Request
  <2>2. [NoRequest EXCEPT !.pc = "committed", !.answers = req[q].answers,
                          !.round = req[q].round] \in Request
    BY <2>1, ConstantTypes DEF Request
  <2>3. log' \in Log
    BY <2>1, <1>3 DEF ClarifyCommit, TypeOK, Log, AnswerLog
  <2>4. Target(q) \in 0..MaxRounds
    BY <1>3, ConstantsAssumption DEF ClarifyCommit, RoomLeft, Rounds
  <2>5. session' \in Session
    BY <2>1, <2>4, <1>3 DEF ClarifyCommit, TypeOK, Session
  <2> QED BY <2>2, <2>3, <2>5, <1>3, RequestUpdate DEF ClarifyCommit, TypeOK
<1>4. CASE ClarifyPublish(q)
  <2>1. [req[q] EXCEPT !.pc = "published"] \in Request
    BY <1>0 DEF Request
  <2>2. \A r \in Runs : [run[r] EXCEPT !.inbox = @ \/ run[r].pc = "waiting"] \in Run
    BY DEF TypeOK, Run
  <2> QED BY <2>1, <2>2, <1>4, RequestUpdate DEF ClarifyPublish, TypeOK
<1>5. CASE ClarifySilent(q)
  <2>1. [req[q] EXCEPT !.pc = "silent"] \in Request
    BY <1>0 DEF Request
  <2> QED BY <2>1, <1>5, RequestUpdate DEF ClarifySilent, TypeOK
<1> QED BY <1>1, <1>2, <1>3, <1>4, <1>5 DEF ClarifyStep

\* A run that starts over or ends forgets its cached attributes; no other run moves.
LEMMA ForgetEffect ==
  ASSUME NEW r \in Runs, NEW pc, NEW n, run \in [Runs -> Run],
         run' = [run EXCEPT ![r] = Forget(pc, n)]
  PROVE  /\ run'[r].pc = pc /\ run'[r].retries = n /\ run'[r].rounds = 0
         /\ run'[r].attempt = 0 /\ run'[r].prompt = BasePrompt
         /\ \A s \in Runs \ {r} : run'[s] = run[s]
  BY DEF Forget, NoRun

\* The steps of run r after which it has forgotten its attributes, and where they lead.
Forgets(r) ==
  \/ RunSkip(r) \/ RunFinish(r) \/ RunAnnounce(r) \/ RecoverWrite(r) \/ RecoverFail(r)
  \/ RunReraise(r) \/ RunRaise(r) \/ RunSetupFails(r) \/ RunCrash(r) \/ RunReturn(r)
  \/ RunReply(r, "non_json")

LEMMA ForgetSteps ==
  ASSUME NEW r \in Runs, Forgets(r)
  PROVE  \E pc \in {"queued", "done", "lost", "recovering", "reraise", "returning"} : \E n :
           run' = [run EXCEPT ![r] = Forget(pc, n)]
<1>1. CASE RunSkip(r) BY <1>1 DEF RunSkip
<1>2. CASE RunFinish(r) BY <1>2 DEF RunFinish
<1>3. CASE RunAnnounce(r) BY <1>3 DEF RunAnnounce
<1>4. CASE RecoverWrite(r) BY <1>4 DEF RecoverWrite
<1>5. CASE RecoverFail(r) BY <1>5 DEF RecoverFail
<1>6. CASE RunReraise(r) BY <1>6 DEF RunReraise, Retried
<1>7. CASE RunRaise(r) BY <1>7 DEF RunRaise
<1>8. CASE RunCrash(r) BY <1>8 DEF RunCrash
<1>9. CASE RunReply(r, "non_json") BY <1>9 DEF RunReply
<1>10. CASE RunReturn(r) BY <1>10 DEF RunReturn
<1>11. CASE RunSetupFails(r) BY <1>11 DEF RunSetupFails, Retried
<1> QED BY <1>11, <1>1, <1>2, <1>3, <1>4, <1>5, <1>6, <1>7, <1>8, <1>9, <1>10 DEF Forgets

\* The other steps of run r, in the terms the invariants need.
Advances(r) ==
  \/ RunLoad(r) \/ RunBeginRound(r) \/ RunAsk(r) \/ RunSubscribe(r) \/ RunContinue(r)
  \/ RunRefresh(r) \/ RunApplyFiles(r) \/ RunMatching(r) \/ RecoverRead(r)
  \/ \E k \in Replies \ {"non_json"} : RunReply(r, k)
Fails(r) == RunInvalid(r) \/ RunPartial(r) \/ RunRoundCap(r) \/ RunTimeout(r)

LEMMA RunSteps ==
  ASSUME NEW r \in Runs, RunStep(r) \/ RunRaise(r) \/ RunSetupFails(r) \/ RunCrash(r)
  PROVE  Forgets(r) \/ Advances(r) \/ Fails(r)
  BY DEF RunStep, Forgets, Advances, Fails

LEMMA CodeKnownStep ==
  ASSUME TypeOK, CodeKnown, Next
  PROVE  CodeKnown'
<1> SUFFICES ASSUME NEW s \in Runs, run'[s].pc = "announce"
             PROVE  run'[s].code \in Codes
  BY DEF CodeKnown
<1>r. run \in [Runs -> Run] /\ run[s] \in Run
  BY DEF TypeOK
<1>u. CASE run' = run
  BY <1>u DEF CodeKnown
<1>1. CASE ApiRefuse
  BY <1>1, <1>r, <1>u DEF ApiRefuse, CodeKnown, Run
<1>2. ASSUME NEW r \in Runs, ApiEnqueue(r) PROVE run'[s].code \in Codes
  BY <1>2, <1>r DEF ApiEnqueue, CodeKnown, Run
<1>3. ASSUME NEW r \in Runs, Forgets(r) PROVE run'[s].code \in Codes
  <2>1. run'[s] = run[s]
    BY <1>3, <1>r, ForgetSteps, ForgetEffect
  <2> QED BY <2>1 DEF CodeKnown
<1>4. ASSUME NEW r \in Runs, Advances(r) PROVE run'[s].code \in Codes
  <2> SUFFICES run'[s] = run[s]
    BY DEF CodeKnown
  <2>1. CASE RunLoad(r)
    BY <2>1, <1>r DEF RunLoad, Forget, NoRun
  <2>2. CASE RunBeginRound(r)
    BY <2>2, <1>r DEF RunBeginRound, Run
  <2>3. CASE RunAsk(r)
    BY <2>3, <1>r DEF RunAsk, AskRound, Run
  <2>4. CASE RunSubscribe(r)
    BY <2>4, <1>r DEF RunSubscribe, Goto, Run
  <2>5. CASE RunContinue(r)
    BY <2>5, <1>r DEF RunContinue, Run
  <2>6. CASE RunRefresh(r)
    BY <2>6, <1>r DEF RunRefresh, Run
  <2>7. CASE RunApplyFiles(r)
    BY <2>7, <1>r DEF RunApplyFiles, Run
  <2>8. CASE RunMatching(r)
    BY <2>8, <1>r DEF RunMatching, Run
  <2>9. CASE RecoverRead(r)
    BY <2>9, <1>r DEF RecoverRead, Run
  <2>10. ASSUME NEW k \in Replies \ {"non_json"}, RunReply(r, k) PROVE run'[s] = run[s]
    BY <2>10, <1>r DEF RunReply, Run
  <2> QED BY <1>4, <2>1, <2>2, <2>3, <2>4, <2>5, <2>6, <2>7, <2>8, <2>9, <2>10 DEF Advances
<1>5. ASSUME NEW r \in Runs, Fails(r) PROVE run'[s].code \in Codes
  <2>1. \E code \in Codes : \E files : Fail(r, code, files)
    BY <1>5 DEF Fails, RunInvalid, RunPartial, RunRoundCap, RunTimeout, Codes
  <2> QED BY <2>1, <1>r DEF Fail, CodeKnown, Run
<1>6. ASSUME NEW r \in Runs, NEW t \in Runs, Duplicate(r, t) PROVE run'[s].code \in Codes
  BY <1>6, <1>r DEF Duplicate, CodeKnown, Run
<1>7. ASSUME NEW q \in Requests, ClarifyPublish(q) PROVE run'[s].code \in Codes
  BY <1>7, <1>r DEF ClarifyPublish, CodeKnown, Run
<1>8. CASE \/ ApiCreate \/ ApiMarkUnavailable \/ PublishBegin \/ PublishCommit \/ PublishRaise
           \/ \E q \in Requests : \/ ClarifyCompress(q) \/ ClarifyCommit(q) \/ ClarifySilent(q)
                                  \/ \E n \in Rounds : ClarifyRead(q, n)
  BY <1>8, <1>u
  DEF ApiCreate, ApiMarkUnavailable, PublishBegin, PublishCommit, PublishRaise, ClarifyCompress, ClarifyCommit, ClarifySilent,
      ClarifyRead
<1> QED
  BY <1>1, <1>2, <1>3, <1>4, <1>5, <1>6, <1>7, <1>8, RunSteps DEF Next, ClarifyStep

LEMMA RoomLeftStep ==
  ASSUME TypeOK, RoomLeft, Next
  PROVE  RoomLeft'
<1> SUFFICES ASSUME NEW p \in Requests, req'[p].pc \in {"read", "compressed"}
             PROVE  req'[p].round + 1 \in Rounds
  BY DEF RoomLeft, Target
<1>r. req \in [Requests -> Request] /\ req[p] \in Request
  BY DEF TypeOK
<1>u. CASE req' = req
  BY <1>u DEF RoomLeft, Target
<1>1. ASSUME NEW q \in Requests, NEW n \in Rounds, ClarifyRead(q, n)
      PROVE  req'[p].round + 1 \in Rounds
  <2>1. CASE p = q
    <3>1. req'[p].round = session.round /\ session.round < MaxRounds
      BY <2>1, <1>1, <1>r DEF ClarifyRead, NoRequest
    <3>2. session.round \in Nat
      BY DEF TypeOK, Session
    <3> QED BY <3>1, <3>2, ConstantsAssumption DEF Rounds
  <2>2. CASE p # q
    BY <2>2, <1>1, <1>r DEF ClarifyRead, RoomLeft, Target
  <2> QED BY <2>1, <2>2
<1>2. ASSUME NEW q \in Requests, ClarifyCompress(q) PROVE req'[p].round + 1 \in Rounds
  BY <1>2, <1>r DEF ClarifyCompress, RoomLeft, Target, Request
<1>3. ASSUME NEW q \in Requests, ClarifyCommit(q) PROVE req'[p].round + 1 \in Rounds
  BY <1>3, <1>r DEF ClarifyCommit, NoRequest, RoomLeft, Target
<1>4. ASSUME NEW q \in Requests, ClarifyPublish(q) \/ ClarifySilent(q)
      PROVE  req'[p].round + 1 \in Rounds
  BY <1>4, <1>r DEF ClarifyPublish, ClarifySilent, RoomLeft, Target, Request
<1>5. CASE ~\E q \in Requests : ClarifyStep(q) \/ \E n \in Rounds : ClarifyRead(q, n)
  <2>1. ASSUME NEW r \in Runs, RunStep(r) \/ RunRaise(r) \/ RunSetupFails(r) \/ RunCrash(r) PROVE req' = req
    BY <2>1
    DEF RunStep, RunSkip, RunLoad, RunBeginRound, RunReply, RunInvalid, RunPartial,
        RunRoundCap, RunAsk, AskRound, RunSubscribe, RunContinue, RunTimeout, RunRefresh,
        RunApplyFiles, RunMatching, RunFinish, RunAnnounce, RunReturn, RecoverRead,
        RecoverWrite, RecoverFail, RunReraise, Retried, RunRaise, RunSetupFails, RunCrash
  <2>2. CASE \/ ApiCreate \/ ApiRefuse \/ ApiMarkUnavailable \/ PublishBegin \/ PublishCommit \/ PublishRaise
             \/ \E r \in Runs : ApiEnqueue(r)
             \/ \E r, s \in Runs : Duplicate(r, s)
    BY <2>2, <1>u
    DEF ApiCreate, ApiRefuse, ApiMarkUnavailable, PublishBegin, PublishCommit, PublishRaise, ApiEnqueue, Duplicate
  <2> QED BY <1>5, <2>1, <2>2, <1>u DEF Next
<1> QED BY <1>1, <1>2, <1>3, <1>4, <1>5 DEF ClarifyStep

TypeInv == TypeOK /\ CodeKnown /\ RoomLeft

LEMMA TypeInvInit == Init => TypeInv
<1>1. Init => CodeKnown /\ RoomLeft
  BY DEF Init, CodeKnown, RoomLeft, NoRun, NoRequest
<1> QED BY <1>1, InitType DEF TypeInv

LEMMA TypeInvStep == TypeInv /\ [Next]_vars => TypeInv'
<1> SUFFICES ASSUME TypeInv, [Next]_vars PROVE TypeInv'
  OBVIOUS
<1>1. CASE Next
  BY <1>1, ApiType, RunType, ClarifyType, CodeKnownStep, RoomLeftStep DEF TypeInv, Next
<1>2. CASE UNCHANGED vars
  <2>1. TypeOK'
    BY <1>2 DEF TypeInv, TypeOK, vars
  <2>2. CodeKnown' /\ RoomLeft'
    BY <1>2 DEF TypeInv, CodeKnown, RoomLeft, Target, vars
  <2> QED BY <2>1, <2>2 DEF TypeInv
<1> QED BY <1>1, <1>2

LEMMA TypeInvAlways == Spec => []TypeInv
  BY TypeInvInit, TypeInvStep, PTL DEF Spec

\* Every variable keeps its type.  In particular neither the persona's nor the session's
\* round counter passes MAX_CLARIFICATION_ROUNDS, whatever stale copies the task and
\* concurrent clarify requests write back.
THEOREM TypeCorrect == Spec => []TypeOK
<1>1. TypeInv => TypeOK
  BY DEF TypeInv
<1> QED BY <1>1, TypeInvAlways, PTL
-----------------------------------------------------------------------------
(* The questions of every counted round are stored *)

\* Only asking a round moves the counter or the set of stored questions; any other step
\* leaves a run with its own counter, the row's (a load) or none (it starts over).
LEMMA RoundFrame ==
  ASSUME TypeOK, Next, ~\E r \in Runs : RunAsk(r)
  PROVE  /\ persona'.rounds = persona.rounds
         /\ log'.asked = log.asked
         /\ \A s \in Runs : run'[s].rounds \in {0, run[s].rounds, persona.rounds}
<1>r. run \in [Runs -> Run] /\ persona \in Persona /\ log \in Log
  BY DEF TypeOK
<1> DEFINE Framed == /\ persona'.rounds = persona.rounds
                     /\ log'.asked = log.asked
                     /\ \A s \in Runs : run'[s].rounds \in {0, run[s].rounds, persona.rounds}
<1>1. CASE ApiCreate \/ ApiMarkUnavailable \/ PublishBegin \/ PublishCommit \/ PublishRaise
  BY <1>1, <1>r DEF ApiCreate, ApiMarkUnavailable, PublishBegin, PublishCommit, PublishRaise, Persona
<1>2. CASE ApiRefuse
  BY <1>2, <1>r DEF ApiRefuse, Run
<1>3. ASSUME NEW r \in Runs, ApiEnqueue(r) PROVE Framed
  BY <1>3, <1>r DEF ApiEnqueue, Run
<1>4. ASSUME NEW r \in Runs, NEW t \in Runs, Duplicate(r, t) PROVE Framed
  BY <1>4, <1>r DEF Duplicate, Run
<1>5. ASSUME NEW r \in Runs, Forgets(r) PROVE Framed
  <2>1. \A s \in Runs : run'[s].rounds \in {0, run[s].rounds}
    BY <1>5, <1>r, ForgetSteps, ForgetEffect
  <2>2. persona'.rounds = persona.rounds /\ log' = log
    BY <1>5, <1>r
    DEF Forgets, RunSkip, RunFinish, RunAnnounce, RecoverWrite, RecoverFail, RunReraise, Retried,
        RunRaise, RunSetupFails, RunCrash, RunReturn, RunReply, Persona
  <2> QED BY <2>1, <2>2
<1>6. ASSUME NEW r \in Runs, Advances(r) PROVE Framed
  <2>1. CASE RunLoad(r)
    BY <2>1, <1>r DEF RunLoad, Forget, NoRun
  <2>2. CASE RunBeginRound(r)
    BY <2>2, <1>r DEF RunBeginRound, Run, Persona
  <2>3. CASE RunSubscribe(r)
    BY <2>3, <1>r DEF RunSubscribe, Goto, Run
  <2>8. CASE RunContinue(r)
    BY <2>8, <1>r DEF RunContinue, Run
  <2>9. CASE RunRefresh(r)
    BY <2>9, <1>r DEF RunRefresh, Run
  <2>4. CASE RunApplyFiles(r)
    BY <2>4, <1>r DEF RunApplyFiles, Run, Persona
  <2>5. CASE RunMatching(r)
    BY <2>5, <1>r DEF RunMatching, Run, Persona
  <2>6. CASE RecoverRead(r)
    BY <2>6, <1>r DEF RecoverRead, Run
  <2>7. ASSUME NEW k \in Replies \ {"non_json"}, RunReply(r, k) PROVE Framed
    BY <2>7, <1>r DEF RunReply, Run
  <2> QED BY <1>6, <2>1, <2>2, <2>3, <2>4, <2>5, <2>6, <2>7, <2>8, <2>9 DEF Advances
<1>7. ASSUME NEW r \in Runs, Fails(r) PROVE Framed
  <2>1. \E code \in Codes : \E files : Fail(r, code, files)
    BY <1>7 DEF Fails, RunInvalid, RunPartial, RunRoundCap, RunTimeout, Codes
  <2>2. log' = log
    BY <1>7 DEF Fails, RunInvalid, RunPartial, RunRoundCap, RunTimeout
  <2> QED BY <2>1, <2>2, <1>r DEF Fail, Run, Persona
<1>8. ASSUME NEW q \in Requests, ClarifyStep(q) \/ \E n \in Rounds : ClarifyRead(q, n)
      PROVE  Framed
  <2>1. CASE ClarifyPublish(q)
    BY <2>1, <1>r DEF ClarifyPublish, Run
  <2>2. CASE ClarifyCommit(q)
    BY <2>2, <1>r DEF ClarifyCommit, Log
  <2>3. CASE ClarifyCompress(q) \/ ClarifySilent(q) \/ \E n \in Rounds : ClarifyRead(q, n)
    BY <2>3 DEF ClarifyCompress, ClarifySilent, ClarifyRead
  <2> QED BY <1>8, <2>1, <2>2, <2>3 DEF ClarifyStep
<1> QED BY <1>1, <1>2, <1>3, <1>4, <1>5, <1>6, <1>7, <1>8, RunSteps DEF Next

\* Inductive: the counter a run carries in memory is what its next commit writes, so the
\* questions of that many rounds must be stored too.
QuestionsInv ==
  /\ 1..persona.rounds \subseteq log.asked
  /\ \A r \in Runs : 1..run[r].rounds \subseteq log.asked

LEMMA QuestionsInvInit == Init => QuestionsInv
  BY DEF Init, QuestionsInv, NoRun

LEMMA QuestionsInvStep == TypeInv /\ QuestionsInv /\ [Next]_vars => QuestionsInv'
<1> SUFFICES ASSUME TypeInv, QuestionsInv, [Next]_vars PROVE QuestionsInv'
  OBVIOUS
<1>r. TypeOK /\ run \in [Runs -> Run] /\ persona \in Persona /\ log \in Log
  BY DEF TypeInv, TypeOK
<1>1. CASE UNCHANGED vars
  BY <1>1 DEF QuestionsInv, vars
<1>2. ASSUME NEW r \in Runs, RunAsk(r) PROVE QuestionsInv'
  <2> DEFINE n == run[r].rounds + 1
  <2>1. run[r].rounds \in Nat
    BY <1>r, ConstantsAssumption DEF Run
  <2>2. 1..n \subseteq log.asked \cup {n}
    BY <2>1 DEF QuestionsInv
  <2>3. AskRound(r, n, log.asked \cup {n})
    BY <1>2 DEF RunAsk
  <2>4. /\ persona'.rounds = n /\ log'.asked = log.asked \cup {n}
        /\ \A s \in Runs : run'[s].rounds = IF s = r THEN n ELSE run[s].rounds
    BY <2>3, <1>r DEF AskRound, Persona, Log, Run
  <2>5. \A s \in Runs : 1..run[s].rounds \subseteq log.asked
    BY DEF QuestionsInv
  <2> HIDE DEF n
  <2> QED BY <2>2, <2>4, <2>5 DEF QuestionsInv
<1>3. CASE Next /\ ~\E r \in Runs : RunAsk(r)
  <2>1. ASSUME NEW s \in Runs PROVE 1..run'[s].rounds \subseteq log'.asked
    <3>1. 1..0 = {}
      OBVIOUS
    <3> QED BY <1>3, <1>r, <3>1, RoundFrame DEF QuestionsInv
  <2>2. persona'.rounds = persona.rounds /\ log'.asked = log.asked
    BY <1>3, <1>r, RoundFrame
  <2> QED BY <2>1, <2>2 DEF QuestionsInv
<1> QED BY <1>1, <1>2, <1>3

\* The round the event stream is about to show always has its questions stored: no
\* interleaving of deliveries, retries and crashes lets persona.rounds run ahead of the
\* assistant messages (worker/tasks/generation.py commits both in one transaction).
THEOREM QuestionsAlwaysExist == Spec => []QuestionsExist
<1>1. Init => TypeInv /\ QuestionsInv
  BY TypeInvInit, QuestionsInvInit
<1>2. TypeInv /\ QuestionsInv /\ [Next]_vars => (TypeInv /\ QuestionsInv)'
  BY TypeInvStep, QuestionsInvStep
<1>3. QuestionsInv => QuestionsExist
  BY DEF QuestionsInv, QuestionsExist
<1> QED BY <1>1, <1>2, <1>3, PTL DEF Spec

-----------------------------------------------------------------------------
(* A generated persona is complete *)

\* No file is missing but one that a reply left blank.
HasFiles ==
  /\ persona.files.head > 0 \/ "head" \in persona.files.blank
  /\ persona.files.tail > 0 \/ "tail" \in persona.files.blank

\* The step of run r stores x in column c.
StoredBy(r, c, x) ==
  /\ persona'.files[c] = x
  /\ x \in Nat
  /\ c \notin persona'.files.blank => x = run[r].attempt
  /\ x = run[r].attempt \/ x = 0 \/ (c \in run[r].empty /\ x = persona.files[c])
  /\ x # run[r].attempt => c \in persona'.files.blank

LEMMA ApplyEffect ==
  ASSUME TypeOK, NEW r \in Runs, RunApplyFiles(r)
  PROVE  \E head, tail : StoredBy(r, "head", head) /\ StoredBy(r, "tail", tail)
<1>r. persona \in Persona
  BY DEF TypeOK
<1> PICK blank \in SUBSET Blanks :
       \E head \in Stored(r, "head", blank), tail \in Stored(r, "tail", blank) :
         persona' = [persona EXCEPT
           !.status = StatusWrite(r, "generating"),
           !.files = [head |-> head, tail |-> tail, blank |-> @.blank \cup blank]]
  BY DEF RunApplyFiles
<1> PICK head \in Stored(r, "head", blank), tail \in Stored(r, "tail", blank) :
       persona' = [persona EXCEPT
         !.status = StatusWrite(r, "generating"),
         !.files = [head |-> head, tail |-> tail, blank |-> @.blank \cup blank]]
  OBVIOUS
<1>1. persona'.files = [head |-> head, tail |-> tail, blank |-> persona.files.blank \cup blank]
  BY <1>r DEF Persona
<1>2. StoredBy(r, "head", head)
  BY <1>1, StoredType DEF StoredBy, Columns
<1>3. StoredBy(r, "tail", tail)
  BY <1>1, StoredType DEF StoredBy, Columns
<1> QED BY <1>2, <1>3

LEMMA ApplyRow ==
  ASSUME TypeOK, NEW r \in Runs, RunApplyFiles(r)
  PROVE  /\ persona'.status = StatusWrite(r, "generating")
         /\ persona'.rounds = persona.rounds /\ persona'.error = persona.error
         /\ run[r].pc = "replied" /\ run'[r].pc = "files"
         /\ run'[r].status = "generating" /\ run'[r].empty = {}
         /\ run'[r].attempt = run[r].attempt /\ run'[r].retries = run[r].retries
         /\ \A s \in Runs \ {r} : run'[s] = run[s]
<1>r. run \in [Runs -> Run] /\ run[r] \in Run /\ persona \in Persona
  BY DEF TypeOK
<1>1. /\ run[r].pc = "replied"
      /\ run' = [run EXCEPT ![r] = [run[r] EXCEPT
           !.pc = "files", !.status = "generating", !.reply = "none", !.empty = {}]]
      /\ \E files : persona' = [persona EXCEPT
           !.status = StatusWrite(r, "generating"), !.files = files]
  BY DEF RunApplyFiles, Replied
<1>2. PICK files : persona' = [persona EXCEPT
        !.status = StatusWrite(r, "generating"), !.files = files]
  BY <1>1
<1>3. /\ persona'.status = StatusWrite(r, "generating")
      /\ persona'.rounds = persona.rounds /\ persona'.error = persona.error
  BY <1>2, <1>r DEF Persona
<1>4. /\ run'[r] = [run[r] EXCEPT
           !.pc = "files", !.status = "generating", !.reply = "none", !.empty = {}]
      /\ \A s \in Runs \ {r} : run'[s] = run[s]
  BY <1>1, <1>r
<1>5. /\ run'[r].pc = "files" /\ run'[r].status = "generating" /\ run'[r].empty = {}
      /\ run'[r].attempt = run[r].attempt /\ run'[r].retries = run[r].retries
  BY <1>4, <1>r DEF Run
<1> QED BY <1>1, <1>3, <1>4, <1>5

LEMMA PartialEffect ==
  ASSUME TypeOK, NEW r \in Runs, RunPartial(r)
  PROVE  /\ persona'.files.tail = persona.files.tail
         /\ persona.files.blank \subseteq persona'.files.blank
         /\ \E head : StoredBy(r, "head", head)
<1>r. persona \in Persona
  BY DEF TypeOK
<1> PICK blank \in SUBSET (Blanks \cap {"head"}) : \E head \in Stored(r, "head", blank) :
       Fail(r, "INVALID_LLM_RESPONSE",
            [persona.files EXCEPT !.head = head, !.blank = @ \cup blank])
  BY DEF RunPartial
<1> PICK head \in Stored(r, "head", blank) :
       Fail(r, "INVALID_LLM_RESPONSE",
            [persona.files EXCEPT !.head = head, !.blank = @ \cup blank])
  OBVIOUS
<1>1. persona'.files = [persona.files EXCEPT !.head = head, !.blank = persona.files.blank \cup blank]
  BY <1>r DEF Fail, Persona, Contents
<1>2. /\ persona'.files.head = head /\ persona'.files.tail = persona.files.tail
      /\ persona'.files.blank = persona.files.blank \cup blank
  BY <1>1, <1>r DEF Persona, Contents
<1>3. StoredBy(r, "head", head)
  BY <1>2, StoredType DEF StoredBy, Columns
<1> QED BY <1>2, <1>3

\* No other step touches the files.
LEMMA FilesFrame ==
  ASSUME TypeOK, Next, ~\E r \in Runs : RunPartial(r) \/ RunApplyFiles(r)
  PROVE  persona'.files = persona.files
<1>r. persona \in Persona
  BY DEF TypeOK
<1> QED
  BY ZenonT(30), <1>r
  DEF Next, RunStep, ClarifyStep, ApiCreate, ApiRefuse, ApiMarkUnavailable, ApiEnqueue,
      PublishBegin, PublishCommit, PublishRaise, Goto, Fail, RunSkip, RunLoad,
      RunBeginRound, RunReply, RunInvalid, RunRoundCap, RunAsk, AskRound, RunSubscribe,
      RunContinue, RunTimeout, RunRefresh, RunMatching, RunFinish, RunAnnounce, RunReturn,
      RecoverRead, RecoverWrite, RecoverFail, RunReraise, RunRaise, RunSetupFails, RunCrash,
      Duplicate, ClarifyRead, ClarifyCompress, ClarifyCommit, ClarifyPublish, ClarifySilent,
      Persona

\* Files are overwritten, never removed, and a completed session stays completed.
LEMMA FilesStay ==
  ASSUME TypeOK, Next,
         \A r \in Runs : run[r].pc \in Working => run[r].attempt > 0
  PROVE  /\ HasFiles => HasFiles'
         /\ session.complete => session'.complete
<1>r. persona \in Persona /\ session \in Session /\ run \in [Runs -> Run]
  BY DEF TypeOK
<1>1. ASSUME NEW r \in Runs, RunPartial(r) PROVE HasFiles => HasFiles'
  <2>1. run[r].attempt > 0
    BY <1>1 DEF RunPartial, Replied, Working
  <2> QED BY <2>1, <1>1, <1>r, PartialEffect DEF HasFiles, StoredBy
<1>2. ASSUME NEW r \in Runs, RunApplyFiles(r) PROVE HasFiles'
  <2>1. run[r].attempt > 0
    BY <1>2 DEF RunApplyFiles, Replied, Working
  <2> QED BY <2>1, <1>2, <1>r, ApplyEffect DEF HasFiles, StoredBy
<1>3. ASSUME ~\E r \in Runs : RunPartial(r) \/ RunApplyFiles(r)
      PROVE  persona'.files = persona.files
  BY <1>3, FilesFrame
<1>4. ASSUME ~\E r \in Runs : RunFinish(r), ~\E q \in Requests : ClarifyCommit(q)
      PROVE  session' = session
  BY ZenonT(30), <1>4
  DEF Next, RunStep, ClarifyStep, ApiCreate, ApiRefuse, ApiMarkUnavailable, ApiEnqueue,
      PublishBegin, PublishCommit, PublishRaise, RunSkip, RunLoad, RunBeginRound,
      RunReply, RunInvalid, RunPartial, RunRoundCap, RunAsk, AskRound, RunSubscribe,
      RunContinue, RunTimeout, RunRefresh, RunApplyFiles, RunMatching, RunAnnounce,
      RunReturn, RecoverRead, RecoverWrite, RecoverFail, RunReraise, Retried, RunRaise, RunSetupFails, RunCrash,
      Duplicate, ClarifyRead, ClarifyCompress, ClarifyPublish, ClarifySilent
<1>5. ASSUME NEW r \in Runs, RunFinish(r) PROVE session'.complete
  BY <1>5, <1>r DEF RunFinish, Session
<1>6. ASSUME NEW q \in Requests, ClarifyCommit(q) PROVE session'.complete = session.complete
  BY <1>6, <1>r DEF ClarifyCommit, Session
<1> QED BY <1>1, <1>2, <1>3, <1>4, <1>5, <1>6 DEF HasFiles

\* Inductive: a run past its load writes with a positive attempt number; from the commit
\* of the files on they are there; and what is, or is about to be, generated or published
\* is complete.
AttemptKnown == \A r \in Runs : run[r].pc \in Working => run[r].attempt > 0
FilesStored == \A r \in Runs : run[r].pc \in {"files", "matching"} => HasFiles
GeneratedInv ==
  persona.status \in {"generated", "published"} \/ publishing
    => HasFiles /\ session.complete
CompleteInv == AttemptKnown /\ FilesStored /\ GeneratedInv

LEMMA CompleteInvInit == Init => CompleteInv
  BY DEF Init, CompleteInv, AttemptKnown, FilesStored, GeneratedInv, NoRun, Working

\* Only a load, a commit of files and the step to matching bring a run to a place that
\* the invariant speaks of.
LEMMA PlacesFrame ==
  ASSUME TypeOK, Next, NEW s \in Runs
  PROVE  /\ run'[s].pc \in Working =>
              \/ RunLoad(s) /\ run'[s].attempt = attempts + 1
              \/ run[s].pc \in Working /\ run'[s].attempt = run[s].attempt
         /\ run'[s].pc \in {"files", "matching"} =>
              run[s].pc \in {"files", "matching"} \/ RunApplyFiles(s)
<1>r. run \in [Runs -> Run] /\ run[s] \in Run /\ attempts \in Nat
  BY DEF TypeOK
<1> DEFINE Placed ==
         /\ run'[s].pc \in Working =>
              \/ RunLoad(s) /\ run'[s].attempt = attempts + 1
              \/ run[s].pc \in Working /\ run'[s].attempt = run[s].attempt
         /\ run'[s].pc \in {"files", "matching"} =>
              run[s].pc \in {"files", "matching"} \/ RunApplyFiles(s)
<1>u. CASE run'[s] = run[s]
  BY <1>u
<1>w. CASE run'[s].pc \notin Working
  BY <1>w DEF Working
<1>1. CASE ApiRefuse
  <2>1. run'[s] = run[s] \/ run'[s].pc = "queued"
    BY <1>1, <1>r DEF ApiRefuse, Run
  <2> QED BY <2>1, <1>u, <1>w DEF Working
<1>2. ASSUME NEW r \in Runs, ApiEnqueue(r) PROVE Placed
  BY <1>2, <1>r DEF ApiEnqueue, Working
<1>3. ASSUME NEW r \in Runs, NEW t \in Runs, Duplicate(r, t) PROVE Placed
  BY <1>3, <1>r DEF Duplicate, Working
<1>4. ASSUME NEW r \in Runs, Forgets(r) PROVE Placed
  <2>1. CASE r = s
    <3>1. run'[s].pc \in {"queued", "done", "lost", "recovering", "reraise", "returning"}
      BY <1>4, <2>1, <1>r, ForgetSteps, ForgetEffect
    <3> QED BY <3>1, <1>w DEF Working
  <2>2. CASE r # s
    BY <1>4, <2>2, <1>r, <1>u, ForgetSteps, ForgetEffect
  <2> QED BY <2>1, <2>2
<1>5. ASSUME NEW r \in Runs, Fails(r) PROVE Placed
  <2>1. \E code \in Codes : \E files : Fail(r, code, files)
    BY <1>5 DEF Fails, RunInvalid, RunPartial, RunRoundCap, RunTimeout, Codes
  <2>2. run'[s].pc = "announce" \/ run'[s] = run[s]
    BY <2>1, <1>r DEF Fail, Run
  <2> QED BY <2>2, <1>w, <1>u DEF Working
<1>6. ASSUME NEW r \in Runs, Advances(r) PROVE Placed
  <2>0. CASE r # s
    <3>1. run'[s] = run[s]
      BY <2>0, <1>6, <1>r
      DEF Advances, RunLoad, RunBeginRound, RunAsk, AskRound, RunSubscribe, Goto,
          RunContinue, RunRefresh, RunApplyFiles, RunMatching, RecoverRead, RunReply
    <3> QED BY <3>1, <1>u
  <2> SUFFICES ASSUME r = s PROVE Placed
    BY <2>0
  <2>1. CASE RunLoad(r)
    BY <2>1, <1>r DEF RunLoad, Forget, NoRun, Working
  <2>2. CASE RunBeginRound(r)
    BY <2>2, <1>r DEF RunBeginRound, Run, Working
  <2>3. CASE RunAsk(r)
    BY <2>3, <1>r DEF RunAsk, AskRound, Replied, Run, Working
  <2>4. CASE RunSubscribe(r)
    BY <2>4, <1>r DEF RunSubscribe, Goto, Run, Working
  <2>5. CASE RunContinue(r)
    BY <2>5, <1>r DEF RunContinue, Run, Working
  <2>6. CASE RunRefresh(r)
    BY <2>6, <1>r DEF RunRefresh, Run, Working
  <2>7. CASE RunApplyFiles(r)
    BY <2>7, ApplyRow DEF Working
  <2>8. CASE RunMatching(r)
    BY <2>8, <1>r DEF RunMatching, Run, Working
  <2>9. CASE RecoverRead(r)
    BY <2>9, <1>r DEF RecoverRead, Run, Working
  <2>10. ASSUME NEW k \in Replies \ {"non_json"}, RunReply(r, k) PROVE Placed
    BY <2>10, <1>r DEF RunReply, Run, Working
  <2> QED BY <1>6, <2>1, <2>2, <2>3, <2>4, <2>5, <2>6, <2>7, <2>8, <2>9, <2>10 DEF Advances
<1>7. ASSUME NEW q \in Requests, ClarifyStep(q) \/ \E n \in Rounds : ClarifyRead(q, n)
      PROVE  Placed
  <2>1. CASE ClarifyPublish(q)
    <3>1. run'[s].pc = run[s].pc /\ run'[s].attempt = run[s].attempt
      BY <2>1, <1>r DEF ClarifyPublish, Run
    <3> QED BY <3>1
  <2>2. CASE ~ClarifyPublish(q)
    BY <2>2, <1>7, <1>u
    DEF ClarifyStep, ClarifyCompress, ClarifyCommit, ClarifySilent, ClarifyRead
  <2> QED BY <2>1, <2>2
<1>8. CASE ApiCreate \/ ApiMarkUnavailable \/ PublishBegin \/ PublishCommit \/ PublishRaise
  BY <1>8, <1>u DEF ApiCreate, ApiMarkUnavailable, PublishBegin, PublishCommit, PublishRaise
<1> QED BY <1>1, <1>2, <1>3, <1>4, <1>5, <1>6, <1>7, <1>8, RunSteps DEF Next

LEMMA CompleteInvStep == TypeInv /\ CompleteInv /\ [Next]_vars => CompleteInv'
<1> SUFFICES ASSUME TypeInv, CompleteInv, [Next]_vars PROVE CompleteInv'
  OBVIOUS
<1>r. /\ TypeOK /\ attempts \in Nat /\ persona \in Persona
      /\ AttemptKnown /\ FilesStored /\ GeneratedInv
  BY DEF TypeInv, TypeOK, CompleteInv
<1>1. CASE UNCHANGED vars
  BY <1>1 DEF CompleteInv, AttemptKnown, FilesStored, GeneratedInv, HasFiles, vars
<1>2. CASE Next
  <2>1. AttemptKnown'
    BY <1>2, <1>r, PlacesFrame DEF AttemptKnown
  <2>2. (HasFiles => HasFiles') /\ (session.complete => session'.complete)
    BY <1>2, <1>r, FilesStay DEF AttemptKnown
  <2>3. FilesStored'
    <3>1. ASSUME NEW r \in Runs, RunApplyFiles(r) PROVE HasFiles'
      <4>1. run[r].attempt > 0
        BY <3>1, <1>r DEF RunApplyFiles, Replied, Working, AttemptKnown
      <4> QED BY <4>1, <3>1, <1>r, ApplyEffect DEF HasFiles, StoredBy
    <3> QED BY <3>1, <2>2, <1>2, <1>r, PlacesFrame DEF FilesStored
  <2>4. GeneratedInv'
    <3>1. ASSUME NEW r \in Runs, RunFinish(r) PROVE HasFiles' /\ session'.complete
      <4>1. HasFiles'
        BY <3>1, <2>2, <1>r DEF RunFinish, FilesStored
      <4>2. session'.complete
        BY <3>1, <1>r DEF RunFinish, TypeOK, Session
      <4> QED BY <4>1, <4>2
    <3>2. ASSUME ~\E r \in Runs : RunFinish(r)
          PROVE  /\ persona'.status \in {"generated", "published"} =>
                      persona.status \in {"generated", "published"} \/ publishing
                 /\ publishing' => persona.status = "generated" \/ publishing
      <4>1. ASSUME NEW r \in Runs, RunStep(r) \/ RunRaise(r) \/ RunSetupFails(r) \/ RunCrash(r)
            PROVE  /\ persona'.status \in {"generated", "published"} => persona'.status = persona.status
                   /\ publishing' = publishing
        BY ZenonT(30), <4>1, <3>2, <1>r
        DEF RunStep, Fail, StatusWrite, RunSkip, RunLoad, RunBeginRound, RunReply,
            RunInvalid, RunPartial, RunRoundCap, RunAsk, AskRound, RunSubscribe, Goto,
            RunContinue, RunTimeout, RunRefresh, RunApplyFiles, RunMatching, RunAnnounce,
            RunReturn, RecoverRead, RecoverWrite, RecoverFail, RunReraise, Retried, RunRaise, RunSetupFails,
            RunCrash, Persona
      <4>2. CASE PublishBegin \/ PublishCommit \/ PublishRaise
        BY <4>2, <1>r DEF PublishBegin, PublishCommit, PublishRaise
      <4>3. CASE ApiCreate \/ ApiMarkUnavailable
        <5>1. publishing' = publishing
          BY <4>3 DEF ApiCreate, ApiMarkUnavailable
        <5>2. persona'.status \in {"draft", "failed"}
          BY <4>3, <1>r DEF ApiCreate, ApiMarkUnavailable, Persona
        <5> QED BY <5>1, <5>2
      <4>4. CASE ApiRefuse \/ \E r \in Runs : ApiEnqueue(r) \/ \E t \in Runs : Duplicate(r, t)
        <5>1. publishing' = publishing /\ persona' = persona
          BY <4>4 DEF ApiRefuse, ApiEnqueue, Duplicate
        <5> QED BY <5>1
      <4>5. ASSUME NEW q \in Requests, ClarifyStep(q) \/ \E n \in Rounds : ClarifyRead(q, n)
            PROVE  persona' = persona /\ publishing' = publishing
        BY <4>5 DEF ClarifyStep, ClarifyRead, ClarifyCompress, ClarifyCommit,
                    ClarifyPublish, ClarifySilent
      <4> QED BY <1>2, <4>1, <4>2, <4>3, <4>4, <4>5 DEF Next
    <3> QED BY <3>1, <3>2, <2>2, <1>r DEF GeneratedInv
  <2> QED BY <2>1, <2>3, <2>4 DEF CompleteInv
<1> QED BY <1>1, <1>2

\* A persona that is generated or published has a completed session and each of its files,
\* but for one a reply left null or empty, for any number of deliveries, duplicates, crashes
\* and concurrent clarify requests.
THEOREM GeneratedIsComplete == Spec => []GeneratedComplete
<1>1. Init => TypeInv /\ CompleteInv
  BY TypeInvInit, CompleteInvInit
<1>2. TypeInv /\ CompleteInv /\ [Next]_vars => (TypeInv /\ CompleteInv)'
  BY TypeInvStep, CompleteInvStep
<1>3. CompleteInv => GeneratedComplete
  BY DEF CompleteInv, GeneratedInv, HasFiles, GeneratedComplete, Columns
<1> QED BY <1>1, <1>2, <1>3, PTL DEF Spec

-----------------------------------------------------------------------------
(* The number of LLM calls, when the message is delivered to one run *)

SingleDelivery == \A r, s \in Runs : r = s

\* Inductive: on its way to a call a run has one in hand, and its counter is the row's.
CallInHand ==
  \A r \in Runs : run[r].pc \in {"loop", "asked", "waiting", "refresh"}
                    => calls < attempts + persona.rounds
CountersAgree == \A r \in Runs : run[r].pc \in Working => run[r].rounds = persona.rounds
BudgetInv == LlmCallsBounded /\ CallInHand /\ CountersAgree

LEMMA BudgetInvInit == Init => BudgetInv
  BY DEF Init, BudgetInv, LlmCallsBounded, CallInHand, CountersAgree, NoRun, Working

\* Everything but a load, a call and a round leaves the counts alone.
LEMMA CountsFrame ==
  ASSUME TypeOK, Next, ~\E r \in Runs : RunLoad(r) \/ RunBeginRound(r) \/ RunAsk(r)
  PROVE  calls' = calls /\ attempts' = attempts /\ persona'.rounds = persona.rounds
<1>1. calls' = calls /\ attempts' = attempts
  BY
  DEF Next, RunStep, ClarifyStep, ApiCreate, ApiRefuse, ApiMarkUnavailable, ApiEnqueue,
      PublishBegin, PublishCommit, PublishRaise, RunSkip, RunReply, RunInvalid, RunPartial,
      RunRoundCap, RunSubscribe, RunContinue, RunTimeout, RunRefresh, RunApplyFiles,
      RunMatching, RunFinish, RunAnnounce, RunReturn, RecoverRead, RecoverWrite,
      RecoverFail, RunReraise, Retried, RunRaise, RunSetupFails, RunCrash, Duplicate, ClarifyRead,
      ClarifyCompress, ClarifyCommit, ClarifyPublish, ClarifySilent
<1>2. persona'.rounds = persona.rounds
  BY RoundFrame
<1> QED BY <1>1, <1>2

\* They take a run nowhere on the way to a call unless it was on it, or at a reply, with the same counter.
LEMMA BudgetFrame ==
  ASSUME TypeOK, Next, NEW s \in Runs,
         ~\E r \in Runs : RunLoad(r) \/ RunBeginRound(r) \/ RunAsk(r)
  PROVE  /\ run'[s].pc \in Working =>
              run[s].pc \in Working /\ run'[s].rounds = run[s].rounds
         /\ run'[s].pc \in {"loop", "asked", "waiting", "refresh"} =>
              run[s].pc \in {"loop", "asked", "waiting", "refresh"}
<1>r. run \in [Runs -> Run] /\ run[s] \in Run
  BY DEF TypeOK
<1> DEFINE Placed ==
         /\ run'[s].pc \in Working =>
              run[s].pc \in Working /\ run'[s].rounds = run[s].rounds
         /\ run'[s].pc \in {"loop", "asked", "waiting", "refresh"} =>
              run[s].pc \in {"loop", "asked", "waiting", "refresh"}
<1>u. CASE run'[s] = run[s]
  BY <1>u
<1>w. CASE run'[s].pc \notin Working
  BY <1>w DEF Working
<1>1. CASE ApiRefuse
  <2>1. run'[s] = run[s] \/ run'[s].pc = "queued"
    BY <1>1, <1>r DEF ApiRefuse, Run
  <2> QED BY <2>1, <1>u, <1>w DEF Working
<1>2. ASSUME NEW r \in Runs, ApiEnqueue(r) PROVE Placed
  BY <1>2, <1>r DEF ApiEnqueue, Working
<1>3. ASSUME NEW r \in Runs, NEW t \in Runs, Duplicate(r, t) PROVE Placed
  BY <1>3, <1>r DEF Duplicate, Working
<1>4. ASSUME NEW r \in Runs, Forgets(r) PROVE Placed
  <2>1. run'[s] = run[s] \/ run'[s].pc \in {"queued", "done", "lost", "recovering", "reraise", "returning"}
    BY <1>4, <1>r, ForgetSteps, ForgetEffect
  <2> QED BY <2>1 DEF Working
<1>5. ASSUME NEW r \in Runs, Fails(r) PROVE Placed
  <2>1. \E code \in Codes : \E files : Fail(r, code, files)
    BY <1>5 DEF Fails, RunInvalid, RunPartial, RunRoundCap, RunTimeout, Codes
  <2>2. run'[s].pc = "announce" \/ run'[s] = run[s]
    BY <2>1, <1>r DEF Fail, Run
  <2> QED BY <2>2 DEF Working
<1>6. ASSUME NEW r \in Runs, Advances(r), ~(RunLoad(r) \/ RunBeginRound(r) \/ RunAsk(r))
      PROVE  Placed
  <2>1. CASE RunSubscribe(r)
    BY <2>1, <1>r DEF RunSubscribe, Goto, Run, Working
  <2>2. CASE RunContinue(r)
    BY <2>2, <1>r DEF RunContinue, Run, Working
  <2>3. CASE RunRefresh(r)
    BY <2>3, <1>r DEF RunRefresh, Run, Working
  <2>4. CASE RunApplyFiles(r)
    BY <2>4, <1>r DEF RunApplyFiles, Replied, Run, Working
  <2>5. CASE RunMatching(r)
    BY <2>5, <1>r DEF RunMatching, Run, Working
  <2>6. CASE RecoverRead(r)
    BY <2>6, <1>r DEF RecoverRead, Run, Working
  <2>7. ASSUME NEW k \in Replies \ {"non_json"}, RunReply(r, k) PROVE Placed
    BY <2>7, <1>r DEF RunReply, Run, Working
  <2> QED BY <1>6, <2>1, <2>2, <2>3, <2>4, <2>5, <2>6, <2>7 DEF Advances
<1>7. ASSUME NEW q \in Requests, ClarifyStep(q) \/ \E n \in Rounds : ClarifyRead(q, n)
      PROVE  Placed
  <2>1. CASE ClarifyPublish(q)
    <3>1. run'[s].pc = run[s].pc /\ run'[s].rounds = run[s].rounds
      BY <2>1, <1>r DEF ClarifyPublish, Run
    <3> QED BY <3>1
  <2>2. CASE ~ClarifyPublish(q)
    BY <2>2, <1>7, <1>u
    DEF ClarifyStep, ClarifyCompress, ClarifyCommit, ClarifySilent, ClarifyRead
  <2> QED BY <2>1, <2>2
<1>8. CASE ApiCreate \/ ApiMarkUnavailable \/ PublishBegin \/ PublishCommit \/ PublishRaise
  BY <1>8, <1>u DEF ApiCreate, ApiMarkUnavailable, PublishBegin, PublishCommit, PublishRaise
<1> QED
  BY <1>1, <1>2, <1>3, <1>4, <1>5, <1>6, <1>7, <1>8, RunSteps DEF Next

LEMMA BudgetInvStep ==
  ASSUME SingleDelivery
  PROVE  TypeInv /\ BudgetInv /\ [Next]_vars => BudgetInv'
<1> SUFFICES ASSUME TypeInv, BudgetInv, [Next]_vars PROVE BudgetInv'
  OBVIOUS
<1>r. /\ TypeOK /\ LlmCallsBounded /\ CallInHand /\ CountersAgree
      /\ run \in [Runs -> Run] /\ persona \in Persona
      /\ calls \in Nat /\ attempts \in Nat /\ persona.rounds \in Nat
  BY ConstantsAssumption DEF TypeInv, TypeOK, BudgetInv, Persona
<1>0. CASE UNCHANGED vars
  BY <1>0 DEF BudgetInv, LlmCallsBounded, CallInHand, CountersAgree, vars
<1>1. ASSUME NEW r \in Runs, RunLoad(r) PROVE BudgetInv'
  <2>1. /\ calls' = calls /\ attempts' = attempts + 1 /\ persona' = persona
        /\ run'[r].rounds = persona.rounds
    BY <1>1, <1>r DEF RunLoad, Forget, NoRun
  <2>2. LlmCallsBounded' /\ CallInHand'
    BY <2>1, <1>r DEF LlmCallsBounded, CallInHand
  <2>3. CountersAgree'
    BY <2>1, SingleDelivery DEF CountersAgree, SingleDelivery
  <2> QED BY <2>2, <2>3 DEF BudgetInv
<1>2. ASSUME NEW r \in Runs, RunBeginRound(r) PROVE BudgetInv'
  <2>1. /\ calls' = calls + 1 /\ attempts' = attempts /\ persona'.rounds = persona.rounds
        /\ run'[r].rounds = run[r].rounds /\ run'[r].pc = "calling" /\ run[r].pc = "loop"
    BY <1>2, <1>r DEF RunBeginRound, Run, Persona
  <2>2. LlmCallsBounded'
    BY <2>1, <1>r DEF LlmCallsBounded, CallInHand
  <2>3. CallInHand'
    BY <2>1, SingleDelivery DEF CallInHand, SingleDelivery
  <2>4. CountersAgree'
    BY <2>1, <1>r, SingleDelivery DEF CountersAgree, SingleDelivery, Working
  <2> QED BY <2>2, <2>3, <2>4 DEF BudgetInv
<1>3. ASSUME NEW r \in Runs, RunAsk(r) PROVE BudgetInv'
  <2>1. /\ calls' = calls /\ attempts' = attempts /\ run[r].pc = "replied"
        /\ persona'.rounds = run[r].rounds + 1 /\ run'[r].rounds = run[r].rounds + 1
    BY <1>3, <1>r DEF RunAsk, Replied, AskRound, Run, Persona
  <2>2. run[r].rounds = persona.rounds
    BY <2>1, <1>r DEF CountersAgree, Working
  <2>3. LlmCallsBounded' /\ CallInHand'
    BY <2>1, <2>2, <1>r DEF LlmCallsBounded, CallInHand
  <2>4. CountersAgree'
    BY <2>1, SingleDelivery DEF CountersAgree, SingleDelivery
  <2> QED BY <2>3, <2>4 DEF BudgetInv
<1>4. CASE Next /\ ~\E r \in Runs : RunLoad(r) \/ RunBeginRound(r) \/ RunAsk(r)
  <2>1. calls' = calls /\ attempts' = attempts /\ persona'.rounds = persona.rounds
    BY <1>4, <1>r, CountsFrame
  <2>2. LlmCallsBounded' /\ CallInHand' /\ CountersAgree'
    BY <1>4, <2>1, <1>r, BudgetFrame DEF LlmCallsBounded, CallInHand, CountersAgree
  <2> QED BY <2>2 DEF BudgetInv
<1> QED BY <1>0, <1>1, <1>2, <1>3, <1>4

\* With one delivery of the message at a time, restarts and retries included, the LLM is
\* called at most once per attempt plus once per clarification round.
THEOREM SingleDeliveryCallsBounded ==
  ASSUME SingleDelivery
  PROVE  Spec => []LlmCallsBounded
<1>1. Init => TypeInv /\ BudgetInv
  BY TypeInvInit, BudgetInvInit
<1>2. TypeInv /\ BudgetInv /\ [Next]_vars => (TypeInv /\ BudgetInv)'
  BY TypeInvStep, BudgetInvStep
<1>3. BudgetInv => LlmCallsBounded
  BY DEF BudgetInv
<1> QED BY <1>1, <1>2, <1>3, PTL DEF Spec

-----------------------------------------------------------------------------
(* The row follows the lifecycle: the refinement of PersonaLifecycle *)

InProgress == Lifecycle!InProgress

\* The cached status of run record x is the row's status s wherever the task writes through
\* it, and its place in the task says which status that is.
Tracks(x, s) ==
  /\ x.pc \in Working \cup {"mark_failed"} => x.status = s
  /\ x.pc \in {"loop", "mark_failed"} => s \in InProgress
  /\ x.pc \in {"calling", "replied", "files"} => s = "generating"
  /\ x.pc \in {"asked", "waiting", "refresh"} => s = "needs_clarification"
  /\ x.pc = "matching" => s = "skills_matching"
  /\ x.pc = "announce" => s = "failed"
  /\ x.pc = "returning" => s \in Terminal

\* What the endpoints know: the row is a draft until the task is queued, no run exists
\* before that, and a publish request holds a generated persona.
ApiInv ==
  /\ api = "idle" => persona.status = "absent"
  /\ api \in {"created", "refused"} => persona.status = "draft"
  /\ api = "done" => persona.status # "absent"
  /\ api # "done" => \A r \in Runs : run[r].pc = "absent"
  /\ publishing => persona.status = "generated"

LifeInv == ApiInv /\ \A r \in Runs : Tracks(run[r], persona.status)

LEMMA LifeInvInit == Init => LifeInv
  BY DEF Init, LifeInv, ApiInv, Tracks, NoRun, Working

LEMMA StatusSets ==
  /\ InProgress = {"draft", "generating", "needs_clarification", "skills_matching"}
  /\ Working = {"loop", "calling", "replied", "asked", "waiting", "refresh", "files", "matching"}
  BY DEF InProgress, Lifecycle!InProgress, Working

\* A run that tracks the row is not working on a persona that a publish request holds, and
\* its next commit does write the status.
LEMMA TracksWrites ==
  ASSUME LifeInv, NEW r \in Runs, run[r].pc \in Working \cup {"mark_failed"}
  PROVE  /\ persona.status \in InProgress /\ ~publishing
         /\ \A s : StatusWrite(r, s) = s
<1>1. run[r].status = persona.status /\ persona.status \in InProgress
  BY StatusSets DEF LifeInv, Tracks
<1>2. ~publishing
  BY <1>1, StatusSets DEF LifeInv, ApiInv
<1> QED BY <1>1, <1>2 DEF StatusWrite

\* A step of the only run keeps the invariant when the run tracks the row after it.
LEMMA LifeByRun ==
  ASSUME SingleDelivery, LifeInv, NEW r \in Runs, run[r].pc # "absent",
         api' = api, publishing' = publishing,
         persona'.status # "absent", persona'.status = persona.status \/ ~publishing,
         Tracks(run'[r], persona'.status)
  PROVE  LifeInv'
<1>1. api = "done"
  BY DEF LifeInv, ApiInv
<1>2. ApiInv'
  BY <1>1 DEF LifeInv, ApiInv
<1>3. \A s \in Runs : Tracks(run'[s], persona'.status)
  BY DEF SingleDelivery
<1> QED BY <1>2, <1>3 DEF LifeInv

LifeStep == LifeInv' /\ [Lifecycle!Next]_(Lifecycle!lifecycle)

\* A step that leaves the row's status, counter and code alone is a stutter of the lifecycle.
LEMMA LifeStutter ==
  ASSUME persona'.status = persona.status, persona'.rounds = persona.rounds,
         persona'.error = persona.error, LifeInv'
  PROVE  LifeStep
  BY DEF LifeStep, Lifecycle!lifecycle

LEMMA LifeApi ==
  ASSUME TypeInv, LifeInv, "ambiguous_delay" \notin Faults,
         \/ ApiCreate \/ ApiRefuse \/ ApiMarkUnavailable
         \/ PublishBegin \/ PublishCommit \/ PublishRaise
  PROVE  LifeStep
<1>r. TypeOK /\ persona \in Persona /\ ApiInv /\ \A r \in Runs : Tracks(run[r], persona.status)
  BY DEF TypeInv, TypeOK, LifeInv
<1>1. CASE ApiCreate
  <2>1. /\ persona.status = "absent" /\ persona'.status = "draft" /\ api' = "created"
        /\ persona'.rounds = persona.rounds /\ persona'.error = persona.error
        /\ run' = run /\ publishing' = publishing /\ \A r \in Runs : run[r].pc = "absent"
    BY <1>1, <1>r DEF ApiCreate, Persona, ApiInv
  <2>2. ApiInv'
    BY <2>1, <1>r DEF ApiInv
  <2>3. \A r \in Runs : Tracks(run'[r], persona'.status)
    BY <2>1 DEF Tracks, Working
  <2>4. Lifecycle!Create
    BY <2>1 DEF Lifecycle!Create
  <2> QED BY <2>2, <2>3, <2>4 DEF LifeStep, LifeInv, Lifecycle!Next
<1>2. CASE ApiRefuse
  <2>1. persona' = persona /\ run' = run /\ publishing' = publishing /\ api = "created" /\ api' = "refused"
    BY <1>2 DEF ApiRefuse
  <2>2. LifeInv'
    BY <2>1, <1>r DEF ApiInv, LifeInv
  <2> QED BY <2>1, <2>2, LifeStutter
<1>3. CASE ApiMarkUnavailable
  <2>1. /\ persona.status = "draft" /\ persona'.status = "failed" /\ api' = "done"
        /\ persona'.rounds = persona.rounds /\ persona'.error = "QUEUE_UNAVAILABLE"
        /\ run' = run /\ publishing' = publishing /\ \A r \in Runs : run[r].pc = "absent"
    BY <1>3, <1>r DEF ApiMarkUnavailable, Persona, ApiInv
  <2>2. ApiInv'
    BY <2>1, <1>r DEF ApiInv
  <2>3. \A r \in Runs : Tracks(run'[r], persona'.status)
    BY <2>1 DEF Tracks, Working
  <2>4. Lifecycle!Fail
    BY <2>1 DEF Lifecycle!Fail, Lifecycle!InProgress
  <2> QED BY <2>2, <2>3, <2>4 DEF LifeStep, LifeInv, Lifecycle!Next
<1>4. CASE PublishBegin \/ PublishRaise
  <2>1. persona' = persona /\ run' = run /\ api' = api /\ (publishing' => persona.status = "generated")
    BY <1>4 DEF PublishBegin, PublishRaise
  <2>2. LifeInv'
    BY <2>1, <1>r DEF ApiInv, LifeInv
  <2> QED BY <2>1, <2>2, LifeStutter
<1>5. CASE PublishCommit
  <2>1. /\ persona.status = "generated" /\ persona'.status = "published" /\ api' = api
        /\ persona'.rounds = persona.rounds /\ persona'.error = persona.error
        /\ run' = run /\ ~publishing'
    BY <1>5, <1>r DEF PublishCommit, Persona, ApiInv
  <2>2. ApiInv'
    BY <2>1, <1>r DEF ApiInv
  <2>3. ASSUME NEW r \in Runs PROVE Tracks(run'[r], persona'.status)
    <3>1. Tracks(run[r], "generated")
      BY <2>1, <1>r
    <3> QED BY <3>1, <2>1, StatusSets DEF Tracks, Terminal
  <2>4. Lifecycle!Publish
    BY <2>1 DEF Lifecycle!Publish
  <2> QED BY <2>2, <2>3, <2>4 DEF LifeStep, LifeInv, Lifecycle!Next
<1> QED BY <1>1, <1>2, <1>3, <1>4, <1>5

LEMMA LifeRestart ==
  ASSUME SingleDelivery, TypeInv, LifeInv, NEW r \in Runs, Forgets(r), ~RunFinish(r), ~RecoverWrite(r)
  PROVE  LifeStep
<1>r. TypeOK /\ run \in [Runs -> Run] /\ Tracks(run[r], persona.status)
  BY DEF TypeInv, TypeOK, LifeInv
<1>1. persona' = persona /\ api' = api /\ publishing' = publishing /\ run[r].pc # "absent"
  BY StatusSets DEF Forgets, RunSkip, RunAnnounce, RecoverFail, RunReraise, Retried, RunRaise, RunSetupFails, RunCrash, RunReturn,
       RunReply, Held, Recovering
<1>2. run'[r].pc \in {"queued", "done", "lost", "recovering", "reraise", "returning"}
  BY <1>r, ForgetSteps, ForgetEffect
<1>3. run'[r].pc = "returning" => persona.status \in Terminal
  <2>1. CASE RunAnnounce(r)
    BY <2>1, <1>r DEF RunAnnounce, Tracks, Terminal
  <2>2. CASE ~RunAnnounce(r)
    <3>1. \E pc \in {"queued", "done", "lost", "recovering", "reraise"} : \E n :
            run' = [run EXCEPT ![r] = Forget(pc, n)]
      BY <2>2 DEF Forgets, RunSkip, RecoverFail, RunReraise, Retried, RunRaise, RunSetupFails, RunCrash, RunReturn, RunReply
    <3>2. PICK pc \in {"queued", "done", "lost", "recovering", "reraise"} :
            \E n : run' = [run EXCEPT ![r] = Forget(pc, n)]
      BY <3>1
    <3>3. PICK n : run' = [run EXCEPT ![r] = Forget(pc, n)]
      BY <3>2
    <3>4. run'[r].pc = pc
      BY <3>3, <1>r, ForgetEffect
    <3> QED BY <3>4
  <2> QED BY <2>1, <2>2
<1>4. Tracks(run'[r], persona'.status)
  BY <1>1, <1>2, <1>3, StatusSets DEF Tracks
<1>5. persona.status # "absent"
  BY <1>1 DEF LifeInv, ApiInv
<1>6. LifeInv'
  BY <1>1, <1>4, <1>5, LifeByRun
<1> QED BY <1>1, <1>6, LifeStutter

\* A failure of the task: the row it holds is in progress, and gets a code.
LEMMA LifeFail ==
  ASSUME SingleDelivery, TypeInv, LifeInv, NEW r \in Runs,
         Fails(r) \/ RecoverWrite(r)
  PROVE  LifeStep
<1>r. TypeOK /\ run \in [Runs -> Run] /\ persona \in Persona /\ Tracks(run[r], persona.status)
  BY DEF TypeInv, TypeOK, LifeInv
<1>0. run[r].pc \in Working \cup {"mark_failed"}
  BY StatusSets DEF Fails, RunInvalid, RunPartial, RunRoundCap, RunTimeout, RecoverWrite, Replied
<1>1. persona.status \in InProgress /\ ~publishing /\ StatusWrite(r, "failed") = "failed"
  BY <1>0, TracksWrites
<1>2. /\ api' = api /\ publishing' = publishing /\ persona'.status = "failed"
      /\ persona'.rounds = persona.rounds /\ persona'.error \in Codes
      /\ run'[r].pc \in {"announce", "reraise"}
  <2>1. CASE Fails(r)
    <3>1. api' = api /\ publishing' = publishing /\ \E code \in Codes : \E files : Fail(r, code, files)
      BY <2>1 DEF Fails, RunInvalid, RunPartial, RunRoundCap, RunTimeout, Codes
    <3> QED BY <3>1, <1>1, <1>r DEF Fail, Persona
  <2>2. CASE RecoverWrite(r)
    <3>1. run'[r].pc = "reraise"
      BY <2>2, <1>r, ForgetEffect DEF RecoverWrite
    <3> QED BY <3>1, <2>2, <1>1, <1>r DEF RecoverWrite, Persona, Codes
  <2> QED BY <2>1, <2>2
<1>3. Tracks(run'[r], persona'.status)
  BY <1>2, StatusSets DEF Tracks
<1>4. LifeInv'
  BY <1>0, <1>1, <1>2, <1>3, StatusSets, LifeByRun
<1>5. Lifecycle!Fail
  BY <1>1, <1>2 DEF Lifecycle!Fail, InProgress, Codes
<1> QED BY <1>4, <1>5 DEF LifeStep, Lifecycle!Next

\* The steps of the task that write the row on the way to a persona.
LEMMA LifeProgress ==
  ASSUME SingleDelivery, TypeInv, LifeInv, CountersAgree, NEW r \in Runs,
         \/ RunBeginRound(r) \/ RunAsk(r) \/ RunApplyFiles(r) \/ RunMatching(r) \/ RunFinish(r)
  PROVE  LifeStep
<1>r. TypeOK /\ run \in [Runs -> Run] /\ persona \in Persona /\ Tracks(run[r], persona.status)
  BY DEF TypeInv, TypeOK, LifeInv
<1>0. run[r].pc \in Working
  BY StatusSets DEF RunBeginRound, RunAsk, RunApplyFiles, RunMatching, RunFinish, Replied
<1>1. persona.status \in InProgress /\ ~publishing /\ \A s : StatusWrite(r, s) = s
  BY <1>0, TracksWrites
<1>2. api' = api /\ publishing' = publishing
  BY DEF RunBeginRound, RunAsk, AskRound, RunApplyFiles, RunMatching, RunFinish
<1>k. run[r].pc # "absent"
  BY <1>0, StatusSets
<1>3. ASSUME Tracks(run'[r], persona'.status), persona'.status # "absent", Lifecycle!Next
      PROVE  LifeStep
  BY <1>3, <1>1, <1>2, <1>k, LifeByRun DEF LifeStep
<1>4. CASE RunBeginRound(r)
  <2>1. /\ persona'.status = "generating" /\ persona'.rounds = persona.rounds /\ persona'.error = persona.error
        /\ run'[r].pc = "calling" /\ run'[r].status = "generating"
    BY <1>4, <1>1, <1>r DEF RunBeginRound, Persona, Run
  <2>2. Lifecycle!Generate
    BY <2>1, <1>1 DEF Lifecycle!Generate, InProgress
  <2>3. Tracks(run'[r], persona'.status)
    BY <2>1, StatusSets DEF Tracks
  <2> QED BY <2>1, <2>2, <2>3, <1>3 DEF Lifecycle!Next
<1>5. CASE RunAsk(r)
  <2>1. /\ persona'.status = "needs_clarification" /\ persona'.rounds = run[r].rounds + 1
        /\ persona'.error = persona.error
        /\ run'[r].pc = "asked" /\ run'[r].status = "needs_clarification"
        /\ run[r].rounds < MaxRounds /\ run[r].pc = "replied"
    BY <1>5, <1>1, <1>r DEF RunAsk, AskRound, Replied, Persona, Run
  <2>2. persona.status = "generating" /\ run[r].rounds = persona.rounds
    BY <2>1, <1>0, <1>r DEF Tracks, CountersAgree
  <2>3. Lifecycle!Ask
    BY <2>1, <2>2 DEF Lifecycle!Ask
  <2>4. Tracks(run'[r], persona'.status)
    BY <2>1, StatusSets DEF Tracks
  <2> QED BY <2>1, <2>3, <2>4, <1>3 DEF Lifecycle!Next
<1>6. CASE RunApplyFiles(r)
  <2>1. /\ persona'.status = "generating" /\ persona'.rounds = persona.rounds /\ persona'.error = persona.error
        /\ run'[r].pc = "files" /\ run'[r].status = "generating"
    BY <1>6, <1>1, <1>r, ApplyRow
  <2>2. Lifecycle!Generate
    BY <2>1, <1>1 DEF Lifecycle!Generate, InProgress
  <2>3. Tracks(run'[r], persona'.status)
    BY <2>1, StatusSets DEF Tracks
  <2> QED BY <2>1, <2>2, <2>3, <1>3 DEF Lifecycle!Next
<1>7. CASE RunMatching(r)
  <2>1. /\ persona'.status = "skills_matching" /\ persona'.rounds = persona.rounds
        /\ persona'.error = persona.error /\ run[r].pc = "files"
        /\ run'[r].pc = "matching" /\ run'[r].status = "skills_matching"
    BY <1>7, <1>1, <1>r DEF RunMatching, Persona, Run
  <2>2. Lifecycle!MatchSkills
    BY <2>1, <1>r DEF Lifecycle!MatchSkills, Tracks
  <2>3. Tracks(run'[r], persona'.status)
    BY <2>1, StatusSets DEF Tracks
  <2> QED BY <2>1, <2>2, <2>3, <1>3 DEF Lifecycle!Next
<1>8. CASE RunFinish(r)
  <2>1. /\ persona'.status = "generated" /\ persona'.rounds = persona.rounds
        /\ persona'.error = persona.error /\ run[r].pc = "matching"
    BY <1>8, <1>1, <1>r DEF RunFinish, Persona
  <2>2. run'[r].pc = "returning"
    BY <1>8, <1>r, ForgetEffect DEF RunFinish
  <2>3. Lifecycle!Finish
    BY <2>1, <1>r DEF Lifecycle!Finish, Tracks
  <2>4. Tracks(run'[r], persona'.status)
    BY <2>1, <2>2, StatusSets DEF Tracks, Terminal
  <2> QED BY <2>1, <2>3, <2>4, <1>3 DEF Lifecycle!Next
<1> QED BY <1>4, <1>5, <1>6, <1>7, <1>8

\* The steps of the task that leave the row alone, and the load.
LEMMA LifeSilent ==
  ASSUME SingleDelivery, TypeInv, LifeInv, NEW r \in Runs,
         \/ RunLoad(r) \/ RunSubscribe(r) \/ RunContinue(r) \/ RunRefresh(r) \/ RecoverRead(r)
         \/ \E k \in Replies \ {"non_json"} : RunReply(r, k)
  PROVE  LifeStep
<1>r. TypeOK /\ run \in [Runs -> Run] /\ persona \in Persona /\ Tracks(run[r], persona.status)
  BY DEF TypeInv, TypeOK, LifeInv
<1>1. persona' = persona /\ api' = api /\ publishing' = publishing /\ run[r].pc # "absent"
  BY DEF RunLoad, RunSubscribe, Goto, RunContinue, RunRefresh, RecoverRead, RunReply
<1>2. persona.status # "absent"
  BY <1>1 DEF LifeInv, ApiInv
<1>m. persona.status \notin Terminal => persona.status \in InProgress
  BY <1>2, <1>r, StatusSets DEF Persona, Status, Terminal
<1>3. Tracks(run'[r], persona.status)
  <2>1. CASE RunLoad(r)
    <3>1. run'[r].pc = "loop" /\ run'[r].status = persona.status /\ persona.status \notin Terminal
      BY <2>1, <1>r DEF RunLoad, Forget, NoRun
    <3> QED BY <3>1, <1>m, StatusSets DEF Tracks
  <2>2. CASE RunSubscribe(r)
    <3>1. run[r].pc = "asked" /\ run'[r].pc = "waiting" /\ run'[r].status = run[r].status
      BY <2>2, <1>r DEF RunSubscribe, Goto, Run
    <3> QED BY <3>1, <1>r, StatusSets DEF Tracks
  <2>3. CASE RunContinue(r)
    <3>1. run[r].pc = "waiting" /\ run'[r].pc = "refresh" /\ run'[r].status = run[r].status
      BY <2>3, <1>r DEF RunContinue, Run
    <3> QED BY <3>1, <1>r, StatusSets DEF Tracks
  <2>4. CASE RunRefresh(r)
    <3>1. run[r].pc = "refresh" /\ run'[r].pc = "loop" /\ run'[r].status = run[r].status
      BY <2>4, <1>r DEF RunRefresh, Run
    <3> QED BY <3>1, <1>r, StatusSets DEF Tracks
  <2>5. CASE RecoverRead(r)
    <3>1. /\ run'[r].pc = "reraise" \/ (run'[r].pc = "mark_failed" /\ persona.status \notin Terminal)
          /\ run'[r].status = persona.status
      BY <2>5, <1>r DEF RecoverRead, Run
    <3> QED BY <3>1, <1>m, StatusSets DEF Tracks
  <2>6. ASSUME NEW k \in Replies \ {"non_json"}, RunReply(r, k) PROVE Tracks(run'[r], persona.status)
    <3>0. run[r] \in Run /\ k # "non_json"
      BY <1>r
    <3>1. run[r].pc = "calling" /\ run'[r] = [run[r] EXCEPT !.pc = "replied", !.reply = k]
      BY <2>6, <3>0, <1>r DEF RunReply
    <3>2. run'[r].pc = "replied" /\ run'[r].status = run[r].status
      BY <3>0, <3>1 DEF Run
    <3> QED BY <3>1, <3>2, <1>r, StatusSets DEF Tracks
  <2>7. CASE \E k \in Replies \ {"non_json"} : RunReply(r, k)
    BY <2>6, <2>7
  <2> QED BY <2>1, <2>2, <2>3, <2>4, <2>5, <2>7
<1>4. LifeInv'
  BY <1>1, <1>2, <1>3, LifeByRun
<1> QED BY <1>1, <1>4, LifeStutter

LEMMA LifeClarify ==
  ASSUME TypeInv, LifeInv, NEW q \in Requests,
         ClarifyStep(q) \/ \E n \in Rounds : ClarifyRead(q, n)
  PROVE  LifeStep
<1>1. persona' = persona /\ api' = api /\ publishing' = publishing
  BY DEF ClarifyStep, ClarifyRead, ClarifyCompress, ClarifyCommit, ClarifyPublish, ClarifySilent
<1>2. ASSUME NEW r \in Runs PROVE run'[r].pc = run[r].pc /\ run'[r].status = run[r].status
  <2>r. run \in [Runs -> Run]
    BY DEF TypeInv, TypeOK
  <2>1. CASE ClarifyPublish(q)
    BY <2>1, <2>r DEF ClarifyPublish, Run
  <2>2. CASE ~ClarifyPublish(q)
    BY <2>2 DEF ClarifyStep, ClarifyRead, ClarifyCompress, ClarifyCommit, ClarifySilent
  <2> QED BY <2>1, <2>2
<1>3. LifeInv'
  BY <1>1, <1>2 DEF LifeInv, ApiInv, Tracks
<1> QED BY <1>1, <1>3, LifeStutter

LEMMA LifeNext ==
  ASSUME SingleDelivery, "ambiguous_delay" \notin Faults, TypeInv, LifeInv, CountersAgree, Next
  PROVE  LifeStep
<1>r. TypeOK /\ run \in [Runs -> Run]
  BY DEF TypeInv, TypeOK
<1>1. ASSUME NEW r \in Runs, ApiEnqueue(r) PROVE LifeStep
  <2>1. persona' = persona /\ api' = "done" /\ api = "created" /\ publishing' = publishing
    BY <1>1 DEF ApiEnqueue
  <2>2. run'[r].pc = "queued"
    BY <1>1, <1>r DEF ApiEnqueue, Run
  <2>3. ASSUME NEW s \in Runs PROVE Tracks(run'[s], persona'.status)
    <3>1. s = r
      BY DEF SingleDelivery
    <3> QED BY <3>1, <2>2, StatusSets DEF Tracks
  <2>4. LifeInv'
    BY <2>1, <2>3 DEF LifeInv, ApiInv
  <2> QED BY <2>1, <2>4, LifeStutter
<1>2. ASSUME NEW r \in Runs, RunStep(r) \/ RunRaise(r) \/ RunSetupFails(r) \/ RunCrash(r) PROVE LifeStep
  BY <1>2, RunSteps, LifeRestart, LifeFail, LifeProgress, LifeSilent DEF Advances
<1>3. ASSUME NEW r \in Runs, NEW s \in Runs, Duplicate(r, s) PROVE FALSE
  BY <1>3 DEF Duplicate, SingleDelivery, Held, Working, Recovering
<1> QED BY <1>1, <1>2, <1>3, LifeApi, LifeClarify DEF Next

LEMMA LifeInvStep ==
  ASSUME SingleDelivery, "ambiguous_delay" \notin Faults
  PROVE  TypeInv /\ BudgetInv /\ LifeInv /\ [Next]_vars => LifeStep
<1> SUFFICES ASSUME TypeInv, BudgetInv, LifeInv, [Next]_vars PROVE LifeStep
  OBVIOUS
<1>1. CASE Next
  BY <1>1, LifeNext DEF BudgetInv
<1>2. CASE UNCHANGED vars
  <2>1. LifeInv'
    BY <1>2 DEF LifeInv, ApiInv, vars
  <2> QED BY <2>1, <1>2, LifeStutter DEF vars
<1> QED BY <1>1, <1>2

\* With one delivery and a broker that took no message it reported as refused, the status,
\* counter and error code of the row move only as the lifecycle says, through every commit of
\* stale cached attributes, retry, crash and publish request.
THEOREM RowFollowsLifecycle ==
  ASSUME SingleDelivery, "ambiguous_delay" \notin Faults
  PROVE  Spec => ImplementsLifecycle
<1>1. Init => TypeInv /\ BudgetInv /\ LifeInv /\ Lifecycle!Init
  BY TypeInvInit, BudgetInvInit, LifeInvInit DEF Init, Lifecycle!Init
<1>2. TypeInv /\ BudgetInv /\ LifeInv /\ [Next]_vars
        => (TypeInv /\ BudgetInv /\ LifeInv)' /\ [Lifecycle!Next]_(Lifecycle!lifecycle)
  BY TypeInvStep, BudgetInvStep, LifeInvStep DEF LifeStep
<1> QED BY <1>1, <1>2, PTL DEF Spec, ImplementsLifecycle, Lifecycle!Spec

-----------------------------------------------------------------------------
(* An announced failure is final *)

Succeeded == {"generated", "published"}
Failing == {"queued", "recovering", "reraise"}

\* Inductive, on top of LifeInv: who announces an error has read or written a terminal row,
\* and until a worker crashes no message is on its way to a run after the persona succeeded.
FinalInv ==
  /\ announced # {} => persona.status \in Terminal
  /\ \A r \in Runs : run[r].pc = "reraise" => persona.status \in Terminal
  /\ crashes = 0 =>
       /\ announced # {} => persona.status = "failed"
       /\ \A r \in Runs : run[r].pc \in Failing => persona.status \notin Succeeded

LEMMA FinalInvInit == Init => FinalInv
  BY DEF Init, FinalInv, NoRun, Failing

\* What the lifecycle says about rows that have ended.
LEMMA LifeEnds ==
  ASSUME [Lifecycle!Next]_(Lifecycle!lifecycle)
  PROVE  /\ persona.status \in Terminal => persona'.status \in Terminal
         /\ persona.status = "failed" => persona'.status = "failed"
         /\ persona'.status \in Succeeded =>
              persona.status \in Succeeded \/ persona.status = "skills_matching"
  BY DEF Lifecycle!Next, Lifecycle!lifecycle, Lifecycle!Create, Lifecycle!Generate, Lifecycle!Ask,
         Lifecycle!MatchSkills, Lifecycle!Finish, Lifecycle!Fail, Lifecycle!Publish,
         Lifecycle!InProgress, Terminal, Succeeded

\* An error is announced by the run that failed, before or after Celery takes over.
LEMMA WhoAnnounces ==
  ASSUME Next, ~\E r \in Runs : RunAnnounce(r) \/ RunReraise(r)
  PROVE  announced' = announced
  BY ZenonT(30)
  DEF Next, RunStep, ClarifyStep, ApiCreate, ApiRefuse, ApiMarkUnavailable, ApiEnqueue,
      PublishBegin, PublishCommit, PublishRaise, RunSkip, RunLoad, RunBeginRound, RunReply,
      RunInvalid, RunPartial, RunRoundCap, RunAsk, AskRound, RunSubscribe, RunContinue,
      RunTimeout, RunRefresh, RunApplyFiles, RunMatching, RunFinish, RunReturn, RecoverRead,
      RecoverWrite, RecoverFail, RunRaise, RunSetupFails, RunCrash, Duplicate, ClarifyRead, ClarifyCompress,
      ClarifyCommit, ClarifyPublish, ClarifySilent

\* Where a run can have come from that is about to fail, or to be delivered again.
LEMMA FailingFrame ==
  ASSUME SingleDelivery, "ambiguous_delay" \notin Faults, "recovery" \notin Faults,
         TypeInv, LifeInv, LifeStep, Next, NEW s \in Runs
  PROVE  /\ run'[s].pc = "reraise" => run[s].pc = "reraise" \/ persona'.status \in Terminal
         /\ run'[s].pc \in Failing /\ crashes' = 0 /\ persona'.status \in Succeeded =>
              run[s].pc \in Failing /\ crashes = 0 /\ persona.status \in Succeeded
<1> DEFINE Good ==
         /\ run'[s].pc = "reraise" => run[s].pc = "reraise" \/ persona'.status \in Terminal
         /\ run'[s].pc \in Failing /\ crashes' = 0 /\ persona'.status \in Succeeded =>
              run[s].pc \in Failing /\ crashes = 0 /\ persona.status \in Succeeded
<1>r. /\ TypeOK /\ run \in [Runs -> Run] /\ persona \in Persona /\ crashes \in Nat
      /\ Tracks(run[s], persona.status) /\ ApiInv
  BY ConstantsAssumption DEF TypeInv, TypeOK, LifeInv
<1>e. persona'.status \in Succeeded =>
         persona.status \in Succeeded \/ persona.status = "skills_matching"
  BY LifeEnds DEF LifeStep
<1>o. \A r \in Runs : r = s
  BY DEF SingleDelivery
<1>u. ASSUME run'[s].pc = run[s].pc, crashes' = crashes, persona'.status \in Succeeded => persona.status \in Succeeded
      PROVE  Good
  BY <1>u
<1>l. ASSUME run'[s].pc \notin Failing PROVE Good
  BY <1>l DEF Failing
<1>1. CASE \/ ApiCreate \/ ApiRefuse \/ ApiMarkUnavailable
           \/ PublishBegin \/ PublishCommit \/ PublishRaise
  <2>1. run' = run /\ crashes' = crashes
    BY <1>1 DEF ApiCreate, ApiRefuse, ApiMarkUnavailable, PublishBegin, PublishCommit, PublishRaise
  <2>2. persona'.status \in Succeeded => persona.status \in Succeeded
    BY <1>1, <1>r DEF ApiCreate, ApiRefuse, ApiMarkUnavailable, PublishBegin, PublishCommit,
       PublishRaise, Persona, ApiInv, Succeeded
  <2> QED BY <2>1, <2>2, <1>u
<1>2. ASSUME NEW r \in Runs, ApiEnqueue(r) PROVE Good
  <2>1. persona' = persona /\ persona.status = "draft" /\ run'[s].pc = "queued"
    BY <1>2, <1>r, <1>o DEF ApiEnqueue, ApiInv, Run
  <2> QED BY <2>1 DEF Succeeded
<1>3. ASSUME NEW r \in Runs, Forgets(r) PROVE Good
  <2>0. r = s
    BY <1>o
  <2>1. CASE RunSkip(s) \/ RunFinish(s) \/ RunAnnounce(s) \/ RunReturn(s)
    <3>1. run'[s].pc \in {"done", "returning"}
      BY <2>1, <1>r, ForgetEffect DEF RunSkip, RunFinish, RunAnnounce, RunReturn
    <3> QED BY <3>1, <1>l DEF Failing
  <2>2. CASE RecoverWrite(s)
    <3>1. persona'.status = "failed"
      BY <2>2, <1>r, TracksWrites DEF RecoverWrite, Persona
    <3> QED BY <3>1 DEF Terminal, Succeeded
  <2>3. CASE RecoverFail(s)
    BY <2>3 DEF RecoverFail
  <2>4. CASE RunReraise(s)
    BY <2>4 DEF RunReraise, Retried, Failing
  <2>5. CASE RunRaise(s)
    <3>1. persona' = persona /\ crashes' = crashes
      BY <2>5 DEF RunRaise
    <3>2. run[s].pc = "queued" \/ persona.status \in InProgress
      BY <2>5, TracksWrites DEF RunRaise
    <3>3. run'[s].pc = "recovering"
      BY <2>5, <1>r, ForgetEffect DEF RunRaise
    <3> QED BY <3>1, <3>2, <3>3, StatusSets DEF Failing, Succeeded
  <2>6. CASE RunCrash(s)
    <3>1. crashes' # 0
      BY <2>6, <1>r DEF RunCrash
    <3>2. run'[s].pc # "reraise"
      <4>1. CASE run' = [run EXCEPT ![s] = Forget("queued", run[s].retries)]
        BY <4>1, <1>r DEF Forget, NoRun
      <4>2. CASE run' = [run EXCEPT ![s] = Forget("lost", run[s].retries)]
        BY <4>2, <1>r DEF Forget, NoRun
      <4> QED BY <2>6, <4>1, <4>2 DEF RunCrash
    <3> QED BY <3>1, <3>2
  <2>7. CASE RunReply(s, "non_json")
    <3>1. persona' = persona /\ run[s].pc = "calling"
      BY <2>7 DEF RunReply
    <3>2. persona.status = "generating"
      BY <3>1, <1>r DEF Tracks
    <3>3. run'[s].pc = "recovering"
      BY <2>7, <1>r, ForgetEffect DEF RunReply
    <3> QED BY <3>1, <3>2, <3>3 DEF Succeeded
  <2>8. CASE RunSetupFails(s)
    <3>1. run[s].pc = "queued" /\ persona' = persona /\ crashes' = crashes
      BY <2>8 DEF RunSetupFails
    <3>2. run'[s].pc \in {"queued", "done"}
      BY <2>8, <1>r, ForgetEffect DEF RunSetupFails, Retried
    <3> QED BY <3>1, <3>2, <1>l DEF Failing
  <2> QED BY <1>3, <2>0, <2>1, <2>2, <2>3, <2>4, <2>5, <2>6, <2>7, <2>8 DEF Forgets
<1>4. ASSUME NEW r \in Runs, Fails(r) PROVE Good
  <2>1. \E code \in Codes : \E files : Fail(r, code, files)
    BY <1>4 DEF Fails, RunInvalid, RunPartial, RunRoundCap, RunTimeout, Codes
  <2>2. run'[s].pc = "announce"
    BY <2>1, <1>r, <1>o DEF Fail, Run
  <2> QED BY <2>2, <1>l DEF Failing
<1>5. ASSUME NEW r \in Runs, Advances(r) PROVE Good
  <2>0. r = s
    BY <1>o
  <2>1. CASE RecoverRead(s)
    BY <2>1, <1>r DEF RecoverRead, Run, Failing
  <2>2. CASE ~RecoverRead(s)
    <3>1. CASE RunLoad(s)
      BY <3>1, <1>r, <1>l DEF RunLoad, Forget, NoRun, Failing
    <3>2. CASE RunBeginRound(s) \/ RunMatching(s)
      BY ZenonT(30), <3>2, <1>r, <1>l DEF RunBeginRound, RunMatching, Run, Failing
    <3>3. CASE RunAsk(s)
      BY <3>3, <1>r, <1>l DEF RunAsk, AskRound, Run, Failing
    <3>4. CASE RunSubscribe(s) \/ RunContinue(s) \/ RunRefresh(s)
      <4>1. run'[s].pc \in {"waiting", "refresh", "loop"}
        <5>1. CASE RunSubscribe(s)
          BY <5>1, <1>r DEF RunSubscribe, Goto, Run
        <5>2. CASE RunContinue(s)
          BY <5>2, <1>r DEF RunContinue, Run
        <5>3. CASE RunRefresh(s)
          BY <5>3, <1>r DEF RunRefresh, Run
        <5> QED BY <3>4, <5>1, <5>2, <5>3
      <4> QED BY <4>1, <1>l DEF Failing
    <3>5. CASE RunApplyFiles(s)
      BY <3>5, <1>r, <1>l DEF RunApplyFiles, Run, Failing
    <3>6. ASSUME NEW k \in Replies \ {"non_json"}, RunReply(s, k) PROVE Good
      <4>0. run[s] \in Run /\ k # "non_json"
        BY <1>r
      <4>1. run'[s] = [run[s] EXCEPT !.pc = "replied", !.reply = k]
        BY <3>6, <4>0, <1>r DEF RunReply
      <4>2. run'[s].pc = "replied"
        BY <4>0, <4>1 DEF Run
      <4> QED BY <4>2, <1>l DEF Failing
    <3> QED BY <1>5, <2>0, <2>2, <3>1, <3>2, <3>3, <3>4, <3>5, <3>6 DEF Advances
  <2> QED BY <2>1, <2>2
<1>6. ASSUME NEW r \in Runs, NEW t \in Runs, Duplicate(r, t) PROVE FALSE
  BY <1>6 DEF Duplicate, SingleDelivery, Held, Working, Recovering
<1>7. ASSUME NEW q \in Requests, ClarifyStep(q) \/ \E n \in Rounds : ClarifyRead(q, n) PROVE Good
  <2>1. persona' = persona /\ crashes' = crashes
    BY <1>7 DEF ClarifyStep, ClarifyRead, ClarifyCompress, ClarifyCommit, ClarifyPublish, ClarifySilent
  <2>2. CASE ClarifyPublish(q)
    <3>1. run'[s].pc = run[s].pc
      BY <2>2, <1>r DEF ClarifyPublish, Run
    <3> QED BY <3>1, <2>1, <1>u
  <2>3. CASE ~ClarifyPublish(q)
    <3>1. run' = run
      BY <2>3, <1>7 DEF ClarifyStep, ClarifyRead, ClarifyCompress, ClarifyCommit, ClarifySilent
    <3> QED BY <3>1, <2>1, <1>u
  <2> QED BY <2>2, <2>3
<1> QED BY <1>1, <1>2, <1>3, <1>4, <1>5, <1>6, <1>7, RunSteps DEF Next

LEMMA FinalInvStep ==
  ASSUME SingleDelivery, "ambiguous_delay" \notin Faults, "recovery" \notin Faults
  PROVE  TypeInv /\ BudgetInv /\ LifeInv /\ FinalInv /\ [Next]_vars => FinalInv'
<1> SUFFICES ASSUME TypeInv, BudgetInv, LifeInv, FinalInv, [Next]_vars PROVE FinalInv'
  OBVIOUS
<1>0. CASE UNCHANGED vars
  BY <1>0 DEF FinalInv, vars
<1>1. CASE Next
  <2>1. LifeStep
    BY <1>1, LifeInvStep
  <2>e. /\ persona.status \in Terminal => persona'.status \in Terminal
        /\ persona.status = "failed" => persona'.status = "failed"
    BY <2>1, LifeEnds DEF LifeStep
  <2>c. crashes \in Nat /\ (crashes' = 0 => crashes = 0)
    <3>1. crashes' = crashes \/ crashes' = crashes + 1
      BY ZenonT(30), <1>1
      DEF Next, RunStep, ClarifyStep, ApiCreate, ApiRefuse, ApiMarkUnavailable, ApiEnqueue,
        PublishBegin, PublishCommit, PublishRaise, RunSkip, RunLoad, RunBeginRound, RunReply,
        RunInvalid, RunPartial, RunRoundCap, RunAsk, AskRound, RunSubscribe, RunContinue,
        RunTimeout, RunRefresh, RunApplyFiles, RunMatching, RunFinish, RunReturn, RunAnnounce,
        RunReraise, Retried, RecoverRead, RecoverWrite, RecoverFail, RunRaise, RunSetupFails, RunCrash, Duplicate,
        ClarifyRead, ClarifyCompress, ClarifyCommit, ClarifyPublish, ClarifySilent
    <3> QED BY <3>1, ConstantsAssumption DEF TypeInv, TypeOK
  <2>2. announced' # {} =>
          /\ persona.status \in Terminal
          /\ crashes = 0 => persona.status = "failed"
    <3>1. ASSUME NEW r \in Runs, RunAnnounce(r) PROVE persona.status = "failed"
      BY <3>1 DEF RunAnnounce, LifeInv, Tracks
    <3>2. ASSUME NEW r \in Runs, RunReraise(r)
          PROVE  persona.status \in Terminal /\ (crashes = 0 => persona.status = "failed")
      <4>1. run[r].pc = "reraise"
        BY <3>2 DEF RunReraise, Retried
      <4> QED BY <4>1 DEF FinalInv, Failing, Succeeded, Terminal
    <3> QED BY <3>1, <3>2, <1>1, WhoAnnounces DEF FinalInv, Terminal
  <2>3. \A r \in Runs : run'[r].pc = "reraise" => persona'.status \in Terminal
    BY <1>1, <2>1, <2>e, FailingFrame DEF FinalInv
  <2>4. crashes' = 0 => \A r \in Runs : run'[r].pc \in Failing => persona'.status \notin Succeeded
    BY <1>1, <2>1, <2>c, FailingFrame DEF FinalInv
  <2> QED BY <2>e, <2>c, <2>2, <2>3, <2>4 DEF FinalInv
<1> QED BY <1>0, <1>1

\* Whoever receives an error event finds a terminal row, and a failed one until a worker has
\* crashed: no persona that was announced as failed succeeds afterwards.
THEOREM ErrorEventsAreFinal ==
  ASSUME SingleDelivery, "ambiguous_delay" \notin Faults, "recovery" \notin Faults
  PROVE  Spec => []AnnouncedIsFinal
<1>1. Init => TypeInv /\ BudgetInv /\ LifeInv /\ FinalInv
  BY TypeInvInit, BudgetInvInit, LifeInvInit, FinalInvInit
<1>2. TypeInv /\ BudgetInv /\ LifeInv /\ FinalInv /\ [Next]_vars
        => (TypeInv /\ BudgetInv /\ LifeInv /\ FinalInv)'
  BY TypeInvStep, BudgetInvStep, LifeInvStep, FinalInvStep DEF LifeStep
<1>3. FinalInv => AnnouncedIsFinal
  BY DEF FinalInv, AnnouncedIsFinal
<1> QED BY <1>1, <1>2, <1>3, PTL DEF Spec

-----------------------------------------------------------------------------
(* The files of a generated persona come from one reply *)

Whole == persona.files.head \in {0, attempts} /\ persona.files.tail \in {0, attempts}

\* Inductive: the only run that works is the last attempt, and a column it has found empty
\* stays empty until it stores its reply.
LastInv ==
  /\ \A r \in Runs : run[r].pc \in Working => run[r].attempt = attempts
  /\ \A r \in Runs : \A c \in run[r].empty : persona.files[c] = 0

LEMMA LastInvInit == Init => LastInv
  BY DEF Init, LastInv, NoRun, Working

\* What a run has found empty it knows until it stores, fails or starts over.
LEMMA EmptyFrame ==
  ASSUME TypeOK, Next, NEW s \in Runs, ~RunLoad(s)
  PROVE  /\ run'[s].empty \in {{}, run[s].empty}
         /\ RunPartial(s) \/ RunApplyFiles(s) => run'[s].empty = {}
<1>r. run \in [Runs -> Run] /\ run[s] \in Run
  BY DEF TypeOK
<1>a. ASSUME NEW r \in Runs, RunPartial(r) \/ RunApplyFiles(r)
      PROVE  run'[r].empty = {} /\ \A t \in Runs \ {r} : run'[t] = run[t]
  <2>1. CASE RunPartial(r)
    <3>1. \E code, files : Fail(r, code, files)
      BY <2>1 DEF RunPartial
    <3> QED BY <3>1, <1>r DEF Fail, Run
  <2>2. CASE RunApplyFiles(r)
    BY <2>2, <1>r, ApplyRow
  <2> QED BY <1>a, <2>1, <2>2
<1> DEFINE Kept == run'[s].empty \in {{}, run[s].empty}
<1>1. ASSUME ApiCreate \/ ApiMarkUnavailable \/ PublishBegin \/ PublishCommit \/ PublishRaise
      PROVE  Kept
  BY <1>1 DEF ApiCreate, ApiMarkUnavailable, PublishBegin, PublishCommit, PublishRaise
<1>2. ASSUME ApiRefuse PROVE Kept
  BY <1>2, <1>r DEF ApiRefuse, Run
<1>3. ASSUME NEW r \in Runs, ApiEnqueue(r) PROVE Kept
  BY <1>3, <1>r DEF ApiEnqueue, Run
<1>4. ASSUME NEW r \in Runs, NEW t \in Runs, Duplicate(r, t) PROVE Kept
  BY <1>4, <1>r DEF Duplicate, Run
<1>5. ASSUME NEW r \in Runs, Forgets(r) PROVE Kept
  <2>1. PICK pc, n : run' = [run EXCEPT ![r] = Forget(pc, n)]
    BY <1>5, ForgetSteps
  <2>2. Forget(pc, n).empty = {}
    BY DEF Forget, NoRun
  <2>3. run'[s] = IF s = r THEN Forget(pc, n) ELSE run[s]
    BY <2>1, <1>r
  <2> QED BY <2>2, <2>3
<1>6. ASSUME NEW r \in Runs, Advances(r) PROVE Kept
  <2>1. CASE RunLoad(r)
    <3>1. r # s
      BY <2>1
    <3> QED BY <3>1, <2>1, <1>r DEF RunLoad
  <2>2. CASE RunBeginRound(r)
    BY <2>2, <1>r DEF RunBeginRound, Run
  <2>3. CASE RunSubscribe(r)
    BY <2>3, <1>r DEF RunSubscribe, Goto, Run
  <2>8. CASE RunContinue(r)
    BY <2>8, <1>r DEF RunContinue, Run
  <2>9. CASE RunRefresh(r)
    BY <2>9, <1>r DEF RunRefresh, Run
  <2>4. CASE RunApplyFiles(r)
    BY <2>4, <1>a
  <2>5. CASE RunMatching(r)
    BY <2>5, <1>r DEF RunMatching, Run
  <2>6. CASE RecoverRead(r)
    BY <2>6, <1>r DEF RecoverRead, Run
  <2>7. ASSUME NEW k \in Replies \ {"non_json"}, RunReply(r, k) PROVE Kept
    BY <2>7, <1>r DEF RunReply, Run
  <2>10. CASE RunAsk(r)
    BY <2>10, <1>r DEF RunAsk, AskRound, Run
  <2> QED BY <1>6, <2>1, <2>2, <2>3, <2>4, <2>5, <2>6, <2>7, <2>8, <2>9, <2>10 DEF Advances
<1>7. ASSUME NEW r \in Runs, Fails(r) PROVE Kept
  <2>1. \E code \in Codes : \E files : Fail(r, code, files)
    BY <1>7 DEF Fails, RunInvalid, RunPartial, RunRoundCap, RunTimeout, Codes
  <2> QED BY <2>1, <1>r DEF Fail, Run
<1>8. ASSUME NEW q \in Requests, ClarifyStep(q) \/ \E n \in Rounds : ClarifyRead(q, n)
      PROVE  Kept
  <2>1. CASE ClarifyPublish(q)
    BY <2>1, <1>r DEF ClarifyPublish, Run
  <2>2. CASE ~ClarifyPublish(q)
    BY <2>2, <1>8 DEF ClarifyStep, ClarifyRead, ClarifyCompress, ClarifyCommit, ClarifySilent
  <2> QED BY <2>1, <2>2
<1> QED BY <1>a, <1>1, <1>2, <1>3, <1>4, <1>5, <1>6, <1>7, <1>8, RunSteps DEF Next

LEMMA AttemptsFrame ==
  ASSUME Next, ~\E r \in Runs : RunLoad(r)
  PROVE  attempts' = attempts
  BY ZenonT(30)
  DEF Next, RunStep, ClarifyStep, ApiCreate, ApiRefuse, ApiMarkUnavailable, ApiEnqueue,
      PublishBegin, PublishCommit, PublishRaise, RunSkip, RunBeginRound, RunReply, RunInvalid,
      RunPartial, RunRoundCap, RunAsk, AskRound, RunSubscribe, RunContinue, RunTimeout,
      RunRefresh, RunApplyFiles, RunMatching, RunFinish, RunAnnounce, RunReturn, RecoverRead,
      RecoverWrite, RecoverFail, RunReraise, RunRaise, RunSetupFails, RunCrash, Duplicate,
      ClarifyRead, ClarifyCompress, ClarifyCommit, ClarifyPublish, ClarifySilent

LEMMA LastInvStep ==
  ASSUME SingleDelivery
  PROVE  TypeInv /\ LastInv /\ [Next]_vars => LastInv'
<1> SUFFICES ASSUME TypeInv, LastInv, [Next]_vars PROVE LastInv'
  OBVIOUS
<1>r. TypeOK /\ run \in [Runs -> Run]
  BY DEF TypeInv, TypeOK
<1>0. CASE UNCHANGED vars
  BY <1>0 DEF LastInv, vars
<1>1. ASSUME NEW r \in Runs, RunLoad(r) PROVE LastInv'
  <2>1. /\ attempts' = attempts + 1 /\ persona' = persona
        /\ run'[r].attempt = attempts + 1
        /\ run'[r].empty = {c \in Blanks : persona.files[c] = 0}
    BY <1>1, <1>r DEF RunLoad, Forget, NoRun
  <2>2. \A s \in Runs : s = r
    BY DEF SingleDelivery
  <2> QED BY <2>1, <2>2 DEF LastInv
<1>2. CASE Next /\ ~\E r \in Runs : RunLoad(r)
  <2>1. \A s \in Runs : run'[s].pc \in Working => run'[s].attempt = attempts'
    BY <1>2, <1>r, PlacesFrame, AttemptsFrame DEF LastInv
  <2>2. ASSUME NEW s \in Runs, NEW c \in run'[s].empty PROVE persona'.files[c] = 0
    <3>1. c \in run[s].empty /\ ~(RunPartial(s) \/ RunApplyFiles(s))
      BY <1>2, <1>r, EmptyFrame
    <3>2. ~\E r \in Runs : RunPartial(r) \/ RunApplyFiles(r)
      BY <3>1 DEF SingleDelivery
    <3> QED BY <3>1, <3>2, <1>2, <1>r, FilesFrame DEF LastInv
  <2> QED BY <2>1, <2>2 DEF LastInv
<1> QED BY <1>0, <1>1, <1>2

\* Inductive: nobody publishes, and nothing has succeeded, while the only run is working; the
\* files are the last attempt's from the commit of the reply until the run ends, and while publishable.
OneReplyInv ==
  /\ api = "idle" => persona.status = "absent"
  /\ api \in {"idle", "created"} => \A r \in Runs : run[r].pc = "absent"
  /\ publishing => persona.status \in Terminal
  /\ persona.status \in Succeeded \/ publishing => Whole
  /\ \A r \in Runs : run[r].pc \in Working => persona.status \notin Succeeded /\ ~publishing
  /\ \A r \in Runs : run[r].pc \in {"files", "matching"} => Whole

LEMMA OneReplyInvInit == Init => OneReplyInv
  BY DEF Init, OneReplyInv, NoRun, NoFiles, Working, Succeeded, Whole

\* What a step of the only run, r, has to keep.
LEMMA OneReplyByRun ==
  ASSUME SingleDelivery, OneReplyInv, NEW r \in Runs, run[r].pc # "absent",
         api' = api, publishing' = publishing,
         publishing => persona'.status \in Terminal,
         persona'.status \in Succeeded \/ publishing => Whole',
         run'[r].pc \in Working => persona'.status \notin Succeeded /\ ~publishing,
         run'[r].pc \in {"files", "matching"} => Whole'
  PROVE  OneReplyInv'
<1>1. \A s \in Runs : s = r
  BY DEF SingleDelivery
<1>2. api \notin {"idle", "created"}
  BY DEF OneReplyInv
<1> QED BY <1>1, <1>2 DEF OneReplyInv

LEMMA OneReplyApi ==
  ASSUME TypeInv, OneReplyInv,
         \/ ApiCreate \/ ApiRefuse \/ ApiMarkUnavailable
         \/ PublishBegin \/ PublishCommit \/ PublishRaise
         \/ \E r \in Runs : ApiEnqueue(r)
  PROVE  OneReplyInv'
<1>r. TypeOK /\ persona \in Persona /\ run \in [Runs -> Run]
  BY DEF TypeInv, TypeOK
<1>1. CASE ApiCreate
  <2>1. /\ persona.status = "absent" /\ persona'.status = "draft" /\ persona'.files = persona.files
        /\ run' = run /\ publishing' = publishing /\ api' = "created"
        /\ attempts' = attempts /\ \A r \in Runs : run[r].pc = "absent"
    BY <1>1, <1>r DEF ApiCreate, Persona, OneReplyInv
  <2>2. ~publishing
    BY <2>1 DEF OneReplyInv, Terminal
  <2> QED BY <2>1, <2>2 DEF OneReplyInv, Working, Succeeded
<1>2. CASE ApiRefuse \/ \E r \in Runs : ApiEnqueue(r)
  <2>1. /\ persona' = persona /\ publishing' = publishing /\ api' \in {"refused", "done"}
        /\ attempts' = attempts
    BY <1>2 DEF ApiRefuse, ApiEnqueue
  <2>2. ASSUME NEW s \in Runs PROVE run'[s].pc = run[s].pc \/ run'[s].pc = "queued"
    BY <1>2, <1>r DEF ApiRefuse, ApiEnqueue, Run
  <2>3. ASSUME NEW s \in Runs, run'[s].pc \in Working PROVE run[s].pc = run'[s].pc
    BY <2>2, <2>3, StatusSets
  <2> QED BY <2>1, <2>3, StatusSets DEF OneReplyInv, Whole
<1>3. CASE ApiMarkUnavailable
  <2>1. /\ persona'.status = "failed" /\ persona'.files = persona.files
        /\ run' = run /\ publishing' = publishing /\ api' = "done" /\ attempts' = attempts
    BY <1>3, <1>r DEF ApiMarkUnavailable, Persona
  <2> QED BY <2>1 DEF OneReplyInv, Whole, Succeeded, Terminal
<1>4. CASE PublishBegin
  <2>1. /\ persona' = persona /\ persona.status = "generated" /\ run' = run /\ api' = api
        /\ attempts' = attempts
    BY <1>4 DEF PublishBegin
  <2> QED BY <2>1 DEF OneReplyInv, Whole, Succeeded, Terminal
<1>5. CASE PublishCommit
  <2>1. /\ persona'.status = "published" /\ persona'.files = persona.files /\ publishing
        /\ run' = run /\ ~publishing' /\ api' = api /\ attempts' = attempts
    BY <1>5, <1>r DEF PublishCommit, Persona
  <2>2. Whole /\ \A r \in Runs : run[r].pc \notin Working
    BY <2>1 DEF OneReplyInv
  <2>3. api' # "idle"
    BY <2>1 DEF OneReplyInv, Terminal
  <2> QED BY <2>1, <2>2, <2>3 DEF OneReplyInv, Whole
<1>6. CASE PublishRaise
  <2>1. persona' = persona /\ run' = run /\ api' = api /\ ~publishing' /\ attempts' = attempts
    BY <1>6 DEF PublishRaise
  <2> QED BY <2>1 DEF OneReplyInv, Whole
<1> QED BY <1>1, <1>2, <1>3, <1>4, <1>5, <1>6

LEMMA OneReplyRun ==
  ASSUME SingleDelivery, TypeInv, LastInv, OneReplyInv, NEW r \in Runs,
         RunStep(r) \/ RunRaise(r) \/ RunSetupFails(r) \/ RunCrash(r)
  PROVE  OneReplyInv'
<1>r. TypeOK /\ persona \in Persona /\ run \in [Runs -> Run] /\ run[r] \in Run
  BY DEF TypeInv, TypeOK
<1>s. StatusWrite(r, "failed") \in {"failed", persona.status}
  BY DEF StatusWrite
<1>i. \/ publishing => persona.status \in Terminal
      \/ persona.status \in Succeeded \/ publishing => Whole
  BY DEF OneReplyInv
<1>1. CASE Forgets(r) /\ ~RunFinish(r)
  <2>1. /\ api' = api /\ publishing' = publishing /\ persona'.files = persona.files
        /\ persona'.status \in {"failed", persona.status} /\ run[r].pc # "absent"
        /\ attempts' = attempts
    BY <1>1, <1>r, <1>s, StatusSets
    DEF Forgets, RunSkip, RunAnnounce, RecoverWrite, RecoverFail, RunReraise, Retried, RunRaise, RunSetupFails, RunCrash,
        RunReturn, RunReply, Persona, Held, Recovering
  <2>2. run'[r].pc \notin Working
    BY <1>1, <1>r, ForgetSteps, ForgetEffect, StatusSets
  <2>3. /\ publishing => persona'.status \in Terminal
        /\ persona'.status \in Succeeded \/ publishing => Whole'
    BY <2>1 DEF OneReplyInv, Terminal, Succeeded, Whole
  <2> QED BY <2>1, <2>2, <2>3, OneReplyByRun, StatusSets
<1>2. CASE RunFinish(r)
  <2>1. /\ run[r].pc = "matching" /\ api' = api /\ publishing' = publishing
        /\ persona'.files = persona.files /\ attempts' = attempts
    BY <1>2, <1>r DEF RunFinish, Persona
  <2>2. Whole' /\ ~publishing
    BY <2>1, StatusSets DEF OneReplyInv, Whole
  <2>3. run'[r].pc = "returning"
    BY <1>2, <1>r, ForgetEffect DEF RunFinish
  <2> QED BY <2>1, <2>2, <2>3, OneReplyByRun, StatusSets
<1>3. CASE Fails(r)
  <2>0. /\ run[r].pc \in Working /\ api' = api /\ publishing' = publishing
        /\ \E code \in Codes : \E files : Fail(r, code, files)
    BY <1>3, StatusSets DEF Fails, RunInvalid, RunPartial, RunRoundCap, RunTimeout, Codes, Replied
  <2>1. persona.status \notin Succeeded /\ ~publishing
    BY <2>0 DEF OneReplyInv
  <2>2. run'[r].pc = "announce" /\ persona'.status \in {"failed", persona.status}
    BY <2>0, <1>r, <1>s DEF Fail, Run, Persona
  <2> QED BY <2>0, <2>1, <2>2, OneReplyByRun, StatusSets DEF Succeeded
<1>4. CASE Advances(r) /\ ~(RunLoad(r) \/ RecoverRead(r) \/ RunApplyFiles(r))
  <2>0. /\ run[r].pc \in Working /\ api' = api /\ publishing' = publishing
        /\ persona'.files = persona.files /\ attempts' = attempts
    BY <1>4, <1>r, StatusSets
    DEF Advances, RunBeginRound, RunAsk, AskRound, RunSubscribe, Goto, RunContinue, RunRefresh,
        RunMatching, RunReply, Replied, Persona
  <2>1. persona.status \notin Succeeded /\ ~publishing
    BY <2>0 DEF OneReplyInv
  <2>2. persona'.status \notin Succeeded
    BY <1>4, <1>r, <2>1
    DEF Advances, RunBeginRound, RunAsk, AskRound, RunSubscribe, Goto, RunContinue, RunRefresh,
        RunMatching, RunReply, Persona, StatusWrite, Succeeded
  <2>3. run'[r].pc \in {"files", "matching"} => run[r].pc = "files"
    <3>1. CASE RunBeginRound(r) \/ RunAsk(r)
      <4>1. CASE RunBeginRound(r)
        BY <4>1, <1>r DEF RunBeginRound, Run
      <4>2. CASE RunAsk(r)
        BY <4>2, <1>r DEF RunAsk, AskRound, Run
      <4> QED BY <3>1, <4>1, <4>2
    <3>2. CASE RunSubscribe(r)
      BY <3>2, <1>r DEF RunSubscribe, Goto, Run
    <3>3. CASE RunContinue(r)
      BY <3>3, <1>r DEF RunContinue, Run
    <3>4. CASE RunRefresh(r)
      BY <3>4, <1>r DEF RunRefresh, Run
    <3>5. CASE RunMatching(r)
      BY <3>5 DEF RunMatching
    <3>6. ASSUME NEW k \in Replies \ {"non_json"}, RunReply(r, k) PROVE run'[r].pc = "replied"
      <4>0. k # "non_json"
        OBVIOUS
      <4>1. run'[r] = [run[r] EXCEPT !.pc = "replied", !.reply = k]
        BY <3>6, <4>0, <1>r DEF RunReply
      <4> QED BY <4>1, <1>r DEF Run
    <3> QED BY <1>4, <3>1, <3>2, <3>3, <3>4, <3>5, <3>6 DEF Advances
  <2>4. run'[r].pc \in {"files", "matching"} => Whole'
    BY <2>0, <2>3 DEF OneReplyInv, Whole
  <2> QED BY <2>0, <2>1, <2>2, <2>4, OneReplyByRun, StatusSets
<1>5. CASE RunApplyFiles(r)
  <2>0. /\ run[r].pc = "replied" /\ api' = api /\ publishing' = publishing
        /\ attempts' = attempts
    BY <1>5 DEF RunApplyFiles, Replied
  <2>a. run[r].attempt = attempts /\ \A c \in run[r].empty : persona.files[c] = 0
    BY <2>0, StatusSets DEF LastInv
  <2>w. Whole'
    <3>1. PICK head, tail : StoredBy(r, "head", head) /\ StoredBy(r, "tail", tail)
      BY <1>5, <1>r, ApplyEffect
    <3> QED BY <3>1, <2>0, <2>a DEF StoredBy, Whole
  <2>1. run[r].pc = "replied" /\ api' = api /\ publishing' = publishing /\ Whole'
    BY <2>0, <2>w
  <2>2. persona.status \notin Succeeded /\ ~publishing
    BY <2>1, StatusSets DEF OneReplyInv
  <2>3. persona'.status \notin Succeeded
    BY <1>5, <2>2, <1>r, ApplyRow DEF StatusWrite, Succeeded
  <2> QED BY <2>1, <2>2, <2>3, OneReplyByRun
<1>6. CASE RunLoad(r)
  <2>1. /\ persona' = persona /\ api' = api /\ publishing' = publishing /\ run[r].pc = "queued"
        /\ persona.status \notin Terminal /\ run'[r].pc = "loop"
    BY <1>6, <1>r DEF RunLoad, Forget, NoRun
  <2> QED BY <2>1, OneReplyByRun DEF OneReplyInv, Terminal, Succeeded
<1>7. CASE RecoverRead(r)
  <2>1. /\ persona' = persona /\ api' = api /\ publishing' = publishing
        /\ run[r].pc = "recovering" /\ attempts' = attempts
    BY <1>7 DEF RecoverRead
  <2>2. run'[r].pc \in {"mark_failed", "reraise"}
    BY <1>7, <1>r DEF RecoverRead, Run
  <2>3. /\ publishing => persona'.status \in Terminal
        /\ persona'.status \in Succeeded \/ publishing => Whole'
    BY <2>1 DEF OneReplyInv, Whole
  <2> QED BY <2>1, <2>2, <2>3, OneReplyByRun, StatusSets
<1> QED BY <1>1, <1>2, <1>3, <1>4, <1>5, <1>6, <1>7, RunSteps

LEMMA OneReplyInvStep ==
  ASSUME SingleDelivery
  PROVE  TypeInv /\ LastInv /\ OneReplyInv /\ [Next]_vars => OneReplyInv'
<1> SUFFICES ASSUME TypeInv, LastInv, OneReplyInv, [Next]_vars PROVE OneReplyInv'
  OBVIOUS
<1>0. CASE UNCHANGED vars
  BY <1>0 DEF OneReplyInv, Whole, vars
<1>1. ASSUME NEW q \in Requests, ClarifyStep(q) \/ \E n \in Rounds : ClarifyRead(q, n)
      PROVE  OneReplyInv'
  <2>1. persona' = persona /\ api' = api /\ publishing' = publishing /\ attempts' = attempts
    BY <1>1 DEF ClarifyStep, ClarifyRead, ClarifyCompress, ClarifyCommit, ClarifyPublish, ClarifySilent
  <2>2. ASSUME NEW r \in Runs PROVE run'[r].pc = run[r].pc
    <3>r. run \in [Runs -> Run]
      BY DEF TypeInv, TypeOK
    <3>1. CASE ClarifyPublish(q)
      BY <3>1, <3>r DEF ClarifyPublish, Run
    <3>2. CASE ~ClarifyPublish(q)
      BY <3>2, <1>1 DEF ClarifyStep, ClarifyRead, ClarifyCompress, ClarifyCommit, ClarifySilent
    <3> QED BY <3>1, <3>2
  <2> QED BY <2>1, <2>2 DEF OneReplyInv, Whole
<1>2. ASSUME NEW r \in Runs, NEW t \in Runs, Duplicate(r, t) PROVE FALSE
  BY <1>2 DEF Duplicate, SingleDelivery, Held, Working, Recovering
<1> QED BY <1>0, <1>1, <1>2, OneReplyApi, OneReplyRun DEF Next

\* With one delivery the files of a generated persona are those of its last attempt's reply:
\* what an earlier, crashed or failed attempt left behind is replaced (by nothing, where the
\* reply is blank), and a reply without one of the keys never succeeds, whatever the broker,
\* the database and Redis do.
THEOREM FilesFromOneReply ==
  ASSUME SingleDelivery
  PROVE  Spec => []GeneratedFromOneReply
<1>1. Init => TypeInv /\ LastInv /\ OneReplyInv
  BY TypeInvInit, LastInvInit, OneReplyInvInit
<1>2. TypeInv /\ LastInv /\ OneReplyInv /\ [Next]_vars => (TypeInv /\ LastInv /\ OneReplyInv)'
  BY TypeInvStep, LastInvStep, OneReplyInvStep
<1>3. OneReplyInv => GeneratedFromOneReply
  BY DEF OneReplyInv, GeneratedFromOneReply, Succeeded, Whole, Columns
<1> QED BY <1>1, <1>2, <1>3, PTL DEF Spec

-----------------------------------------------------------------------------
(* The answers a follow-up prompt holds *)

StartInv ==
  attempts = 0 => persona.rounds = 0 /\ \A r \in Runs : run[r].pc \notin Working

\* A disciplined client answers the round that was asked last, and nobody else does.
Answering(q) ==
  /\ req[q].answers \in 0..persona.rounds
  /\ req[q].pc = "idle" <=> req[q].answers = 0
  /\ req[q].pc \notin {"idle", "published"} => req[q].answers = persona.rounds
  /\ req[q].pc \in {"read", "compressed"} =>
       /\ session.round + 1 = persona.rounds
       /\ req[q].round = session.round
       /\ req[q].context = session.context
  /\ req[q].pc = "compressed" =>
       /\ req[q].filed
       /\ req[q].view = [log.answers EXCEPT ![persona.rounds] = persona.rounds]

RequestsInv ==
  /\ log.asked \subseteq 1..persona.rounds
  /\ \A q \in Requests : Answering(q)
  /\ \A p, q \in Requests : req[p].answers # 0 /\ req[p].answers = req[q].answers => p = q

\* The session has counted every round but perhaps the last, whose answer is then under way.
SessionInv ==
  /\ session.round = persona.rounds \/ session.round + 1 = persona.rounds
  /\ session.round + 1 = persona.rounds => \A q \in Requests :
       req[q].answers = persona.rounds => req[q].pc \in {"read", "compressed"}
  /\ session.round = persona.rounds /\ persona.rounds > 0 => \E q \in Requests :
       req[q].answers = persona.rounds /\ req[q].pc \notin {"read", "compressed"}
  /\ \A n \in 1..session.round : session.context[n] = n /\ log.answers[n] = n

\* Every round asked is answered and its request over.
Settled ==
  session.round = persona.rounds /\ \A q \in Requests : req[q].pc \in {"idle", "published"}

Informed(x) ==
  /\ x.pc \in {"loop", "calling", "replied", "refresh"} => Settled
  /\ x.inbox => x.pc = "waiting" /\ Settled
  /\ x.pc \in {"loop", "calling"} /\ x.prompt.kind = "followup" =>
       \A n \in 1..persona.rounds : x.prompt.context[n] = n

\* Inductive, for a task that was started once.
AnswerInv ==
  attempts <= 1 =>
    /\ StartInv /\ RequestsInv /\ SessionInv
    /\ \A r \in Runs : Informed(run[r])

LEMMA AnswerInvInit == Init => AnswerInv
<1> SUFFICES ASSUME Init PROVE AnswerInv
  OBVIOUS
<1>1. persona.rounds = 0 /\ session.round = 0 /\ log.asked = {}
  BY DEF Init
<1>2. \A r \in Runs : run[r].pc = "absent" /\ ~run[r].inbox
  BY DEF Init, NoRun
<1>3. \A q \in Requests : req[q].pc = "idle" /\ req[q].answers = 0
  BY DEF Init, NoRequest
<1>4. StartInv
  BY <1>1, <1>2, StatusSets DEF StartInv
<1>5. RequestsInv
  BY <1>1, <1>3 DEF RequestsInv, Answering
<1>6. SessionInv
  BY <1>1 DEF SessionInv
<1>7. \A r \in Runs : Informed(run[r])
  BY <1>2 DEF Informed
<1> QED BY <1>4, <1>5, <1>6, <1>7 DEF AnswerInv

LEMMA CounterTypes ==
  ASSUME TypeInv
  PROVE  /\ persona.rounds \in 0..MaxRounds /\ session.round \in 0..MaxRounds
         /\ MaxRounds \in Nat /\ attempts \in Nat
         /\ persona \in Persona /\ session \in Session /\ log \in Log
         /\ run \in [Runs -> Run] /\ req \in [Requests -> Request]
         /\ session.context \in AnswerLog /\ log.answers \in AnswerLog
  BY ConstantsAssumption DEF TypeInv, TypeOK, Persona, Session, Log

\* Only questions and clarify requests change what the answers depend on.
RowsStill ==
  /\ persona'.rounds = persona.rounds /\ log' = log /\ req' = req
  /\ session'.round = session.round /\ session'.context = session.context

LEMMA RowsFrame ==
  ASSUME RowsStill
  PROVE  /\ RequestsInv => RequestsInv'
         /\ SessionInv => SessionInv'
         /\ Settled' <=> Settled
<1>1. RequestsInv => RequestsInv'
  BY DEF RowsStill, RequestsInv, Answering
<1>2. SessionInv => SessionInv'
  BY DEF RowsStill, SessionInv
<1>3. Settled' <=> Settled
  BY DEF RowsStill, Settled
<1> QED BY <1>1, <1>2, <1>3

LEMMA RowsStay ==
  ASSUME TypeInv, Next,
         ~\E r \in Runs : RunAsk(r),
         ~\E q \in Requests : ClarifyStep(q) \/ \E n \in Rounds : ClarifyRead(q, n)
  PROVE  RowsStill
<1>r. session \in Session /\ TypeOK
  BY CounterTypes DEF TypeInv
<1>1. persona'.rounds = persona.rounds
  BY <1>r, RoundFrame
<1>2. log' = log /\ req' = req
  BY ZenonT(30)
  DEF Next, RunStep, ApiCreate, ApiRefuse, ApiMarkUnavailable, ApiEnqueue,
      PublishBegin, PublishCommit, PublishRaise, RunSkip, RunLoad, RunBeginRound, RunReply,
      RunInvalid, RunPartial, RunRoundCap, RunSubscribe, RunContinue,
      RunTimeout, RunRefresh, RunApplyFiles, RunMatching, RunFinish, RunAnnounce, RunReturn,
      RecoverRead, RecoverWrite, RecoverFail, RunReraise, Retried, RunRaise, RunSetupFails, RunCrash, Duplicate
<1>3. CASE ~\E r \in Runs : RunFinish(r)
  <2>1. session' = session
    BY ZenonT(30), <1>3
    DEF Next, RunStep, ApiCreate, ApiRefuse, ApiMarkUnavailable, ApiEnqueue,
      PublishBegin, PublishCommit, PublishRaise, RunSkip, RunLoad, RunBeginRound, RunReply,
      RunInvalid, RunPartial, RunRoundCap, RunSubscribe, RunContinue,
      RunTimeout, RunRefresh, RunApplyFiles, RunMatching, RunAnnounce, RunReturn,
      RecoverRead, RecoverWrite, RecoverFail, RunReraise, Retried, RunRaise, RunSetupFails, RunCrash, Duplicate
  <2> QED BY <2>1, <1>1, <1>2 DEF RowsStill
<1>4. ASSUME NEW r \in Runs, RunFinish(r) PROVE RowsStill
  <2>1. session'.round = session.round /\ session'.context = session.context
    BY <1>4, <1>r DEF RunFinish, Session
  <2> QED BY <2>1, <1>1, <1>2 DEF RowsStill
<1> QED BY <1>3, <1>4

\* A request that is under way answers the last round, alone; no run reads answers meanwhile.
LEMMA UnderWay ==
  ASSUME TypeInv, RequestsInv, NEW q \in Requests, req[q].pc \notin {"idle", "published"}
  PROVE  /\ req[q].answers = persona.rounds /\ persona.rounds \in 1..MaxRounds
         /\ \A p \in Requests \ {q} : req[p].pc \in {"idle", "published"} /\ req[p].answers # persona.rounds
         /\ ~Settled
<1>1. req[q].answers = persona.rounds /\ req[q].answers # 0
  BY DEF RequestsInv, Answering
<1>2. persona.rounds \in 1..MaxRounds
  BY <1>1, CounterTypes
<1>3. \A p \in Requests \ {q} : req[p].answers # persona.rounds
  BY <1>1 DEF RequestsInv
<1>4. \A p \in Requests \ {q} : req[p].pc \in {"idle", "published"}
  BY <1>3 DEF RequestsInv, Answering
<1>5. ~Settled
  BY DEF Settled
<1> QED BY <1>1, <1>2, <1>3, <1>4, <1>5

Answered == StartInv /\ RequestsInv /\ SessionInv /\ \A r \in Runs : Informed(run[r])

LEMMA AnswerRead ==
  ASSUME TypeInv, Answered, Disciplined, NEW q \in Requests, NEW n \in Rounds, ClarifyRead(q, n)
  PROVE  Answered'
<1>t. /\ persona.rounds \in 0..MaxRounds /\ session.round \in 0..MaxRounds /\ MaxRounds \in Nat
      /\ req \in [Requests -> Request]
  BY CounterTypes
<1>1. /\ n = persona.rounds /\ persona.rounds > 0
      /\ \A p \in Requests : req[p].answers # persona.rounds
  BY <1>t DEF ClarifyRead, MayAnswer, Rounds
<1>2. /\ persona' = persona /\ session' = session /\ log' = log /\ run' = run /\ attempts' = attempts
      /\ req[q].pc = "idle"
  BY DEF ClarifyRead
<1>3. /\ req'[q].pc = "read" /\ req'[q].answers = persona.rounds
      /\ req'[q].round = session.round /\ req'[q].context = session.context
      /\ \A p \in Requests \ {q} : req'[p] = req[p]
  BY <1>1, <1>t DEF ClarifyRead, NoRequest
<1>4. session.round + 1 = persona.rounds /\ ~Settled
  BY <1>1, <1>t DEF Answered, SessionInv, Settled
<1>5. RequestsInv'
  <2>1. ASSUME NEW p \in Requests PROVE Answering(p)'
    <3>1. CASE p = q
      BY <3>1, <1>1, <1>2, <1>3, <1>4, <1>t DEF Answering
    <3>2. CASE p # q
      <4>1. Answering(p)
        BY DEF Answered, RequestsInv
      <4> QED BY <4>1, <3>2, <1>2, <1>3 DEF Answering
    <3> QED BY <3>1, <3>2
  <2>2. \A p, o \in Requests : req'[p].answers # 0 /\ req'[p].answers = req'[o].answers => p = o
    BY <1>1, <1>3 DEF Answered, RequestsInv
  <2> QED BY <2>1, <2>2, <1>2 DEF Answered, RequestsInv
<1>6. SessionInv'
  <2>1. \A p \in Requests : req'[p].answers = persona.rounds => req'[p].pc = "read"
    BY <1>1, <1>3
  <2> QED BY <2>1, <1>2, <1>4, <1>t DEF Answered, SessionInv
<1>7. StartInv' /\ \A r \in Runs : Informed(run[r])'
  BY <1>2, <1>4 DEF Answered, StartInv, Informed
<1> QED BY <1>5, <1>6, <1>7 DEF Answered

LEMMA AnswerCompress ==
  ASSUME TypeInv, QuestionsExist, Answered, NEW q \in Requests, ClarifyCompress(q)
  PROVE  Answered'
<1>t. /\ persona.rounds \in 0..MaxRounds /\ session.round \in 0..MaxRounds /\ MaxRounds \in Nat
      /\ req \in [Requests -> Request] /\ req[q] \in Request
  BY CounterTypes
<1>1. /\ persona' = persona /\ session' = session /\ log' = log /\ run' = run /\ attempts' = attempts
      /\ req[q].pc = "read"
  BY DEF ClarifyCompress
<1>2. /\ req[q].answers = persona.rounds /\ persona.rounds \in 1..MaxRounds /\ ~Settled
      /\ \A p \in Requests \ {q} : req[p].pc \in {"idle", "published"}
  BY <1>1, UnderWay DEF Answered
<1>3. Target(q) = persona.rounds
  BY <1>1 DEF Answered, RequestsInv, Answering, Target
<1>4. Target(q) \in log.asked
  BY <1>2, <1>3, <1>t DEF QuestionsExist
<1>5. PICK filed \in BOOLEAN :
        /\ Target(q) \in log.asked /\ Target(q) = req[q].answers => filed
        /\ req' = [req EXCEPT ![q] = [@ EXCEPT
             !.pc = "compressed", !.filed = filed,
             !.view = IF filed THEN [log.answers EXCEPT ![Target(q)] = req[q].answers]
                               ELSE log.answers]]
  BY DEF ClarifyCompress
<1>6. filed
  BY <1>2, <1>3, <1>4, <1>5
<1>7. /\ req'[q].pc = "compressed" /\ req'[q].filed
      /\ req'[q].view = [log.answers EXCEPT ![persona.rounds] = persona.rounds]
      /\ req'[q].answers = req[q].answers
      /\ req'[q].round = req[q].round /\ req'[q].context = req[q].context
      /\ \A p \in Requests \ {q} : req'[p] = req[p]
  BY <1>2, <1>3, <1>5, <1>6, <1>t DEF Request
<1>8. RequestsInv'
  <2>1. ASSUME NEW p \in Requests PROVE Answering(p)'
    <3>0. Answering(p)
      BY DEF Answered, RequestsInv
    <3>1. CASE p = q
      BY <3>0, <3>1, <1>1, <1>2, <1>7 DEF Answering
    <3>2. CASE p # q
      BY <3>0, <3>2, <1>1, <1>7 DEF Answering
    <3> QED BY <3>1, <3>2
  <2>2. \A p, o \in Requests : req'[p].answers # 0 /\ req'[p].answers = req'[o].answers => p = o
    BY <1>7 DEF Answered, RequestsInv
  <2> QED BY <2>1, <2>2, <1>1 DEF Answered, RequestsInv
<1>9. SessionInv'
  <2>1. \A p \in Requests : /\ req'[p].answers = req[p].answers
                            /\ req'[p].pc \in {"read", "compressed"} <=> req[p].pc \in {"read", "compressed"}
    BY <1>1, <1>7
  <2> QED BY <2>1, <1>1 DEF Answered, SessionInv
<1>10. ~Settled' /\ StartInv' /\ \A r \in Runs : Informed(run[r])'
  BY <1>1, <1>2, <1>7 DEF Answered, StartInv, Informed, Settled
<1> QED BY <1>8, <1>9, <1>10 DEF Answered

LEMMA AnswerCommit ==
  ASSUME TypeInv, Answered, NEW q \in Requests, ClarifyCommit(q)
  PROVE  Answered'
<1>t. /\ persona.rounds \in 0..MaxRounds /\ session.round \in 0..MaxRounds /\ MaxRounds \in Nat
      /\ req \in [Requests -> Request] /\ session \in Session /\ log \in Log
      /\ session.context \in AnswerLog /\ log.answers \in AnswerLog
  BY CounterTypes
<1>1. persona' = persona /\ run' = run /\ attempts' = attempts /\ req[q].pc = "compressed"
  BY DEF ClarifyCommit
<1>2. /\ req[q].answers = persona.rounds /\ persona.rounds \in 1..MaxRounds /\ ~Settled
      /\ \A p \in Requests \ {q} : req[p].pc \in {"idle", "published"} /\ req[p].answers # persona.rounds
  BY <1>1, UnderWay DEF Answered
<1>3. /\ Target(q) = persona.rounds /\ session.round + 1 = persona.rounds
      /\ req[q].context = session.context
      /\ req[q].view = [log.answers EXCEPT ![persona.rounds] = persona.rounds] /\ req[q].filed
  BY <1>1 DEF Answered, RequestsInv, Answering, Target
<1>4. /\ req'[q].pc = "committed" /\ req'[q].answers = persona.rounds
      /\ \A p \in Requests \ {q} : req'[p] = req[p]
  BY <1>2, <1>t DEF ClarifyCommit, NoRequest
<1>5. log'.answers = req[q].view /\ log'.asked = log.asked
  BY <1>2, <1>3, <1>t DEF ClarifyCommit, Log
<1>6. session'.round = persona.rounds /\ session'.context = req[q].view
  BY <1>3, <1>t DEF ClarifyCommit, Session
<1>7. RequestsInv'
  <2>1. ASSUME NEW p \in Requests PROVE Answering(p)'
    <3>1. CASE p = q
      BY <3>1, <1>1, <1>2, <1>4 DEF Answering
    <3>2. CASE p # q
      <4>1. Answering(p)
        BY DEF Answered, RequestsInv
      <4>2. req'[p] = req[p] /\ req[p].pc \in {"idle", "published"}
        BY <3>2, <1>2, <1>4
      <4> QED BY <4>1, <4>2, <1>1 DEF Answering
    <3> QED BY <3>1, <3>2
  <2>2. \A p, o \in Requests : req'[p].answers # 0 /\ req'[p].answers = req'[o].answers => p = o
    BY <1>2, <1>4 DEF Answered, RequestsInv
  <2> QED BY <2>1, <2>2, <1>1, <1>5 DEF Answered, RequestsInv
<1>8. SessionInv'
  <2>1. ASSUME NEW n \in 1..persona.rounds PROVE req[q].view[n] = n
    <3>1. n \in Rounds
      BY <1>2, <1>t DEF Rounds
    <3>2. CASE n = persona.rounds
      BY <3>1, <3>2, <1>3, <1>t DEF AnswerLog
    <3>3. CASE n # persona.rounds
      <4>1. n \in 1..session.round
        BY <3>3, <1>3, <1>t
      <4>2. log.answers[n] = n
        BY <4>1 DEF Answered, SessionInv
      <4> QED BY <3>1, <3>3, <4>2, <1>3, <1>t DEF AnswerLog
    <3> QED BY <3>2, <3>3
  <2>2. req'[q].answers = persona.rounds /\ req'[q].pc \notin {"read", "compressed"}
    BY <1>4
  <2>3. session'.round = persona'.rounds /\ session'.round + 1 # persona'.rounds
    BY <1>1, <1>6, <1>t
  <2>4. \A n \in 1..session'.round : session'.context[n] = n /\ log'.answers[n] = n
    BY <2>1, <1>5, <1>6
  <2> QED BY <1>1, <2>2, <2>3, <2>4 DEF SessionInv
<1>9. StartInv' /\ \A r \in Runs : Informed(run[r])'
  BY <1>1, <1>2 DEF Answered, StartInv, Informed
<1> QED BY <1>7, <1>8, <1>9 DEF Answered

\* The end of a request: its message reaches a waiting task, or nobody.
LEMMA AnswerOver ==
  ASSUME TypeInv, Answered, NEW q \in Requests, ClarifyPublish(q) \/ ClarifySilent(q)
  PROVE  Answered'
<1>t. /\ persona.rounds \in 0..MaxRounds /\ session.round \in 0..MaxRounds /\ MaxRounds \in Nat
      /\ req \in [Requests -> Request] /\ run \in [Runs -> Run] /\ req[q] \in Request
  BY CounterTypes
<1>1. /\ persona' = persona /\ session' = session /\ log' = log /\ attempts' = attempts
      /\ req[q].pc = "committed"
  BY DEF ClarifyPublish, ClarifySilent
<1>2. /\ req[q].answers = persona.rounds /\ persona.rounds \in 1..MaxRounds /\ ~Settled
      /\ \A p \in Requests \ {q} : req[p].pc \in {"idle", "published"} /\ req[p].answers # persona.rounds
  BY <1>1, UnderWay DEF Answered
<1>3. /\ req'[q].pc \in {"published", "silent"} /\ req'[q].answers = req[q].answers
      /\ \A p \in Requests \ {q} : req'[p] = req[p]
  BY <1>t DEF ClarifyPublish, ClarifySilent, Request
<1>4. RequestsInv'
  <2>1. ASSUME NEW p \in Requests PROVE Answering(p)'
    <3>0. Answering(p)
      BY DEF Answered, RequestsInv
    <3>1. CASE p = q
      BY <3>1, <1>1, <1>2, <1>3 DEF Answering
    <3>2. CASE p # q
      BY <3>0, <3>2, <1>1, <1>3 DEF Answering
    <3> QED BY <3>1, <3>2
  <2>2. \A p, o \in Requests : req'[p].answers # 0 /\ req'[p].answers = req'[o].answers => p = o
    BY <1>3 DEF Answered, RequestsInv
  <2> QED BY <2>1, <2>2, <1>1 DEF Answered, RequestsInv
<1>5. SessionInv'
  <2>1. \A p \in Requests : /\ req'[p].answers = req[p].answers
                            /\ req'[p].pc \in {"read", "compressed"} <=> req[p].pc \in {"read", "compressed"}
    BY <1>1, <1>3
  <2> QED BY <2>1, <1>1 DEF Answered, SessionInv
<1>6. CASE ClarifySilent(q)
  <2>1. run' = run
    BY <1>6 DEF ClarifySilent
  <2>2. \A r \in Runs : Informed(run[r])'
    BY <2>1, <1>1, <1>2 DEF Answered, Informed
  <2> QED BY <2>1, <2>2, <1>1, <1>4, <1>5 DEF Answered, StartInv
<1>7. CASE ClarifyPublish(q)
  <2>1. session.round = persona.rounds
    BY <1>1, <1>2 DEF Answered, SessionInv
  <2>2. Settled'
    <3>1. req'[q].pc = "published"
      BY <1>7, <1>t DEF ClarifyPublish, Request
    <3> QED BY <3>1, <2>1, <1>1, <1>2, <1>3 DEF Settled
  <2>3. ASSUME NEW r \in Runs
        PROVE  /\ run'[r].pc = run[r].pc /\ run'[r].prompt = run[r].prompt
               /\ run'[r].inbox => run[r].inbox \/ run[r].pc = "waiting"
    <3>1. run[r] \in Run /\ run'[r] = [run[r] EXCEPT !.inbox = @ \/ run[r].pc = "waiting"]
      BY <1>7, <1>t DEF ClarifyPublish
    <3> QED BY <3>1 DEF Run
  <2>4. ASSUME NEW r \in Runs PROVE Informed(run[r])'
    <3>1. Informed(run[r])
      BY DEF Answered
    <3> QED BY <3>1, <2>2, <2>3, <1>1 DEF Informed
  <2>5. StartInv'
    BY <2>3, <1>1 DEF Answered, StartInv
  <2> QED BY <2>4, <2>5, <1>4, <1>5 DEF Answered
<1> QED BY <1>6, <1>7

LEMMA AnswerAsk ==
  ASSUME SingleDelivery, TypeInv, CountersAgree, Answered, NEW r \in Runs, RunAsk(r)
  PROVE  Answered'
<1>t. /\ persona.rounds \in 0..MaxRounds /\ session.round \in 0..MaxRounds /\ MaxRounds \in Nat
      /\ run \in [Runs -> Run] /\ run[r] \in Run /\ persona \in Persona /\ log \in Log
  BY CounterTypes
<1>1. /\ run[r].pc = "replied" /\ session' = session /\ req' = req /\ attempts' = attempts
  BY DEF RunAsk, AskRound, Replied
<1>2. run[r].rounds = persona.rounds
  BY <1>1, StatusSets DEF CountersAgree
<1>3. /\ persona'.rounds = persona.rounds + 1 /\ log'.answers = log.answers
      /\ log'.asked = log.asked \cup {persona.rounds + 1}
  BY <1>2, <1>t DEF RunAsk, AskRound, Persona, Log
<1>4. run'[r].pc = "asked" /\ run'[r].inbox = run[r].inbox
  BY <1>t DEF RunAsk, AskRound, Run
<1>5. Settled /\ ~run[r].inbox
  BY <1>1 DEF Answered, Informed
<1>6. RequestsInv'
  <2>1. ASSUME NEW q \in Requests PROVE Answering(q)'
    <3>1. req[q].pc \in {"idle", "published"} /\ Answering(q)
      BY <1>5 DEF Settled, Answered, RequestsInv
    <3> QED BY <3>1, <1>1, <1>3, <1>t DEF Answering
  <2>2. log'.asked \subseteq 1..persona'.rounds
    BY <1>3, <1>t DEF Answered, RequestsInv
  <2> QED BY <2>1, <2>2, <1>1 DEF Answered, RequestsInv
<1>7. SessionInv'
  <2>1. session'.round + 1 = persona'.rounds /\ session'.round # persona'.rounds
    BY <1>1, <1>3, <1>5, <1>t DEF Settled
  <2>2. \A q \in Requests : req'[q].answers # persona'.rounds
    BY <1>1, <1>3, <1>t DEF Answered, RequestsInv, Answering
  <2> QED BY <2>1, <2>2, <1>1, <1>3 DEF Answered, SessionInv
<1>8. StartInv'
  BY <1>1, StatusSets DEF Answered, StartInv
<1>9. ASSUME NEW s \in Runs PROVE Informed(run[s])'
  <2>1. s = r
    BY DEF SingleDelivery
  <2> QED BY <2>1, <1>4, <1>5 DEF Informed
<1> QED BY <1>6, <1>7, <1>8, <1>9 DEF Answered

\* A first load finds no rounds and no answers; a later one is out of scope.
LEMMA AnswerLoad ==
  ASSUME SingleDelivery, TypeInv, Answered, NEW r \in Runs, RunLoad(r), attempts' <= 1
  PROVE  Answered'
<1>t. /\ persona.rounds \in 0..MaxRounds /\ session.round \in 0..MaxRounds /\ MaxRounds \in Nat
      /\ run \in [Runs -> Run] /\ attempts \in Nat
  BY CounterTypes
<1>1. attempts = 0 /\ attempts' = 1
  BY <1>t DEF RunLoad
<1>2. persona.rounds = 0 /\ session.round = 0
  BY <1>1, <1>t DEF Answered, StartInv, SessionInv
<1>3. Settled
  BY <1>2 DEF Answered, RequestsInv, Answering, Settled
<1>4. RowsStill
  BY DEF RunLoad, RowsStill
<1>5. run'[r].pc = "loop" /\ run'[r].prompt = BasePrompt /\ ~run'[r].inbox
  BY <1>t DEF RunLoad, Forget, NoRun
<1>6. ASSUME NEW s \in Runs PROVE Informed(run[s])'
  <2>1. s = r
    BY DEF SingleDelivery
  <2> QED BY <2>1, <1>3, <1>4, <1>5, RowsFrame DEF Informed, BasePrompt
<1>7. StartInv'
  BY <1>1 DEF StartInv
<1> QED BY <1>4, <1>6, <1>7, RowsFrame DEF Answered

\* Every other step of the task.
LEMMA AnswerRun ==
  ASSUME SingleDelivery, TypeInv, Answered, RowsStill, attempts' = attempts, NEW r \in Runs,
         RunStep(r) \/ RunRaise(r) \/ RunSetupFails(r) \/ RunCrash(r), ~RunLoad(r), ~RunAsk(r)
  PROVE  Answered'
<1>t. /\ persona.rounds \in 0..MaxRounds /\ session.round \in 0..MaxRounds
      /\ run \in [Runs -> Run] /\ run[r] \in Run
  BY CounterTypes
<1>i. Informed(run[r]) /\ (Settled' <=> Settled) /\ persona'.rounds = persona.rounds
  BY RowsFrame DEF Answered, RowsStill
<1>1. SUFFICES Informed(run'[r]) /\ (run'[r].pc \in Working => run[r].pc \in Working)
  <2>1. \A s \in Runs : Informed(run[s])'
    BY <1>1, <1>i DEF SingleDelivery, Informed
  <2>2. StartInv'
    BY <1>1, <1>i DEF SingleDelivery, StartInv, Answered
  <2> QED BY <2>1, <2>2, RowsFrame DEF Answered
<1>2. CASE Forgets(r)
  <2>1. run'[r].pc \in {"queued", "done", "lost", "recovering", "reraise", "returning"}
    BY <1>2, <1>t, ForgetSteps, ForgetEffect
  <2>2. ~run'[r].inbox
    <3>1. \E pc, n : run' = [run EXCEPT ![r] = Forget(pc, n)]
      BY <1>2, ForgetSteps
    <3> QED BY <3>1, <1>t DEF Forget, NoRun
  <2> QED BY <2>1, <2>2, StatusSets DEF Informed
<1>3. CASE Fails(r)
  <2>1. \E code \in Codes : \E files : Fail(r, code, files)
    BY <1>3 DEF Fails, RunInvalid, RunPartial, RunRoundCap, RunTimeout, Codes
  <2>2. run'[r].pc = "announce" /\ ~run'[r].inbox
    BY <2>1, <1>t DEF Fail, Run
  <2> QED BY <2>2, StatusSets DEF Informed
<1>4. CASE RunBeginRound(r)
  <2>1. /\ run[r].pc = "loop" /\ run'[r].pc = "calling" /\ run'[r].inbox = run[r].inbox
        /\ run'[r].prompt = run[r].prompt
    BY <1>4, <1>t DEF RunBeginRound, Run
  <2> QED BY <2>1, <1>i, StatusSets DEF Informed
<1>5. CASE RunSubscribe(r)
  <2>1. run[r].pc = "asked" /\ run'[r].pc = "waiting" /\ run'[r].inbox = run[r].inbox
    BY <1>5, <1>t DEF RunSubscribe, Goto, Run
  <2> QED BY <2>1, <1>i, StatusSets DEF Informed
<1>6. CASE RunContinue(r)
  <2>1. run[r].pc = "waiting" /\ run[r].inbox /\ run'[r].pc = "refresh" /\ ~run'[r].inbox
    BY <1>6, <1>t DEF RunContinue, Run
  <2> QED BY <2>1, <1>i, StatusSets DEF Informed
<1>7. CASE RunRefresh(r)
  <2>1. /\ run[r].pc = "refresh" /\ run'[r].pc = "loop" /\ run'[r].inbox = run[r].inbox
        /\ run'[r].prompt = FollowupPrompt(session.context)
    BY <1>7, <1>t DEF RunRefresh, Run
  <2>2. Settled /\ \A n \in 1..persona.rounds : run'[r].prompt.context[n] = n
    BY <2>1, <1>i DEF Informed, Settled, Answered, SessionInv, FollowupPrompt
  <2> QED BY <2>1, <2>2, <1>i, StatusSets DEF Informed
<1>8. CASE RunApplyFiles(r)
  <2>1. run[r].pc = "replied" /\ run'[r].pc = "files" /\ run'[r].inbox = run[r].inbox
    BY <1>8, <1>t DEF RunApplyFiles, Replied, Run
  <2> QED BY <2>1, <1>i, StatusSets DEF Informed
<1>9. CASE RunMatching(r)
  <2>1. run[r].pc = "files" /\ run'[r].pc = "matching" /\ run'[r].inbox = run[r].inbox
    BY <1>9, <1>t DEF RunMatching, Run
  <2> QED BY <2>1, <1>i, StatusSets DEF Informed
<1>10. CASE RecoverRead(r)
  <2>1. run[r].pc = "recovering" /\ run'[r].pc \in {"reraise", "mark_failed"} /\ run'[r].inbox = run[r].inbox
    BY <1>10, <1>t DEF RecoverRead, Run
  <2> QED BY <2>1, <1>i, StatusSets DEF Informed
<1>11. ASSUME NEW k \in Replies \ {"non_json"}, RunReply(r, k)
       PROVE  Informed(run'[r]) /\ (run'[r].pc \in Working => run[r].pc \in Working)
  <2>0. k # "non_json"
    OBVIOUS
  <2>1. run[r].pc = "calling" /\ run'[r] = [run[r] EXCEPT !.pc = "replied", !.reply = k]
    BY <1>11, <2>0, <1>t DEF RunReply
  <2>2. run'[r].pc = "replied" /\ run'[r].inbox = run[r].inbox
    BY <2>1, <1>t DEF Run
  <2> QED BY <2>1, <2>2, <1>i, StatusSets DEF Informed
<1> QED
  BY <1>2, <1>3, <1>4, <1>5, <1>6, <1>7, <1>8, <1>9, <1>10, <1>11, RunSteps DEF Advances


LEMMA AnswerInvStep ==
  ASSUME SingleDelivery, Disciplined
  PROVE  TypeInv /\ QuestionsInv /\ BudgetInv /\ OneReplyInv /\ AnswerInv /\ [Next]_vars
           => AnswerInv'
<1> SUFFICES ASSUME TypeInv, QuestionsInv, BudgetInv, OneReplyInv, AnswerInv, [Next]_vars,
                    attempts' <= 1
             PROVE  Answered'
  BY DEF AnswerInv, Answered
<1>t. attempts \in Nat /\ run \in [Runs -> Run] /\ QuestionsExist /\ CountersAgree
  BY CounterTypes DEF QuestionsInv, QuestionsExist, BudgetInv
<1>a. attempts' = attempts \/ attempts' = attempts + 1
  <2>1. ASSUME NEW r \in Runs, RunLoad(r) PROVE attempts' = attempts + 1
    BY <2>1 DEF RunLoad
  <2> QED BY <2>1, AttemptsFrame DEF vars
<1>b. Answered
  BY <1>a, <1>t DEF AnswerInv, Answered
<1>0. CASE UNCHANGED vars
  <2>1. RowsStill /\ run' = run /\ attempts' = attempts
    BY <1>0 DEF RowsStill, vars
  <2>2. \A r \in Runs : Informed(run[r])'
    BY <2>1, <1>b, RowsFrame DEF Answered, Informed, RowsStill
  <2> QED BY <2>1, <2>2, <1>b, RowsFrame DEF Answered, StartInv, RowsStill
<1>1. ASSUME NEW q \in Requests, ClarifyStep(q) \/ \E n \in Rounds : ClarifyRead(q, n)
      PROVE  Answered'
  BY <1>1, <1>b, <1>t, AnswerRead, AnswerCompress, AnswerCommit, AnswerOver DEF ClarifyStep
<1>2. ASSUME NEW r \in Runs, RunAsk(r) PROVE Answered'
  BY <1>2, <1>b, <1>t, AnswerAsk
<1>3. ASSUME NEW r \in Runs, RunLoad(r) PROVE Answered'
  BY <1>3, <1>b, AnswerLoad
<1>4. CASE /\ Next
           /\ ~\E r \in Runs : RunAsk(r) \/ RunLoad(r)
           /\ ~\E q \in Requests : ClarifyStep(q) \/ \E n \in Rounds : ClarifyRead(q, n)
  <2>1. RowsStill /\ attempts' = attempts
    BY <1>4, RowsStay, AttemptsFrame
  <2>2. ASSUME NEW r \in Runs, RunStep(r) \/ RunRaise(r) \/ RunSetupFails(r) \/ RunCrash(r) PROVE Answered'
    BY <2>1, <2>2, <1>4, <1>b, AnswerRun
  <2>3. ASSUME NEW r \in Runs, NEW s \in Runs, Duplicate(r, s) PROVE Answered'
    BY <2>3 DEF Duplicate, SingleDelivery, Held, Working, Recovering
  <2>4. CASE \/ ApiCreate \/ ApiRefuse \/ ApiMarkUnavailable
             \/ PublishBegin \/ PublishCommit \/ PublishRaise
             \/ \E r \in Runs : ApiEnqueue(r)
    <3>1. ASSUME NEW s \in Runs
          PROVE  \/ run'[s] = run[s]
                 \/ run'[s].pc = "queued" /\ run'[s].inbox = run[s].inbox /\ run[s].pc = "absent"
      BY <2>4, <1>t
      DEF ApiCreate, ApiRefuse, ApiMarkUnavailable, PublishBegin, PublishCommit, PublishRaise,
          ApiEnqueue, OneReplyInv, Run
    <3>2. \A s \in Runs : Informed(run[s])'
      BY <3>1, <2>1, <1>b, RowsFrame DEF Answered, Informed, RowsStill
    <3>3. StartInv'
      BY <3>1, <2>1, <1>b, StatusSets DEF Answered, StartInv, RowsStill
    <3> QED BY <3>2, <3>3, <2>1, <1>b, RowsFrame DEF Answered
  <2> QED BY <1>4, <2>2, <2>3, <2>4 DEF Next
<1> QED BY <1>0, <1>1, <1>2, <1>3, <1>4

\* With one delivery and a client that answers each round once, when asked, a follow-up
\* prompt of a task that was not restarted holds every round's answers: neither the compression
\* of the context, nor the commit order of concurrent requests, nor the wake-up loses one.
THEOREM PromptHasAllAnswers ==
  ASSUME SingleDelivery, Disciplined
  PROVE  Spec => []AnswersReachPrompt
<1> DEFINE PInv == TypeInv /\ QuestionsInv /\ BudgetInv /\ LastInv /\ OneReplyInv /\ AnswerInv
<1>1. Init => PInv
  BY TypeInvInit, QuestionsInvInit, BudgetInvInit, LastInvInit, OneReplyInvInit, AnswerInvInit
<1>2. PInv /\ [Next]_vars => PInv'
  BY TypeInvStep, QuestionsInvStep, BudgetInvStep, LastInvStep, OneReplyInvStep, AnswerInvStep
<1>3. BudgetInv /\ AnswerInv => AnswersReachPrompt
  BY StatusSets DEF BudgetInv, CountersAgree, AnswerInv, Informed, AnswersReachPrompt
<1> QED BY <1>1, <1>2, <1>3, PTL DEF Spec

-----------------------------------------------------------------------------
(***************************************************************************)
(* What DeliveredTerminates rests on, for any number of deliveries,        *)
(* crashes and duplicates.  No persona is left to nobody: while its row is *)
(* not terminal some run is unfinished.  And a run comes to an end: each   *)
(* of its steps takes it nearer to it, and only a crash takes it back.     *)
(***************************************************************************)

\* Where a run still has the row's last status to write.
Unfinished == Working \cup {"queued", "recovering", "mark_failed"}

\* Where run record x can go in one step of the task, whatever the row and the others hold.
Moves(x, y) ==
  \/ /\ y.retries = x.retries
     /\ \/ x.pc = "queued" /\ y.pc \in {"done", "recovering"}
        \/ x.pc = "queued" /\ y.pc = "loop" /\ y.status \notin Terminal
        \/ x.pc = "loop" /\ y.pc = "calling" /\ y.rounds = x.rounds /\ y.status = "generating"
        \/ x.pc = "calling" /\ y.pc = "replied" /\ y.rounds = x.rounds /\ y.status = x.status
        \/ x.pc = "replied" /\ y.pc = "asked" /\ y.rounds = x.rounds + 1
           /\ y.status = "needs_clarification"
        \/ /\ <<x.pc, y.pc>> \in {<<"asked", "waiting">>, <<"waiting", "refresh">>,
                                  <<"refresh", "loop">>}
           /\ y.rounds = x.rounds /\ y.status = x.status
        \/ x.pc = "replied" /\ y.pc = "files" /\ y.status = "generating"
        \/ x.pc = "files" /\ y.pc = "matching" /\ y.status = "skills_matching"
        \/ x.pc \in Working /\ y.pc \in {"recovering", "announce"}
        \/ x.pc = "matching" /\ y.pc = "returning"
        \/ x.pc = "recovering" /\ y.pc = "mark_failed" /\ y.status \notin Terminal
        \/ x.pc \in {"recovering", "mark_failed"} /\ y.pc = "reraise"
        \/ x.pc = "announce" /\ y.pc = "returning"
        \/ x.pc \in {"returning", "reraise"} /\ y.pc = "done"
  \/ x.pc \in {"queued", "reraise"} /\ y.pc = "queued" /\ y.retries = x.retries + 1

\* Every step of the task, and every exception in it, moves its own run and no other.
LEMMA RunMoves ==
  ASSUME TypeOK, NEW r \in Runs, RunStep(r) \/ RunRaise(r) \/ RunSetupFails(r)
  PROVE  Moves(run[r], run'[r]) /\ \A s \in Runs \ {r} : run'[s] = run[s]
<1> DEFINE Moved == Moves(run[r], run'[r]) /\ \A s \in Runs \ {r} : run'[s] = run[s]
<1>r. run \in [Runs -> Run] /\ run[r] \in Run /\ run[r].retries \in Nat
  BY ConstantsAssumption DEF TypeOK, Run
<1>f. ASSUME NEW pc, NEW n, run' = [run EXCEPT ![r] = Forget(pc, n)],
             \/ n = run[r].retries /\ run[r].pc \in Working /\ pc = "recovering"
             \/ n = run[r].retries /\ <<run[r].pc, pc>> \in
                  {<<"queued", "done">>, <<"queued", "recovering">>, <<"matching", "returning">>,
                   <<"announce", "returning">>, <<"returning", "done">>, <<"reraise", "done">>,
                   <<"recovering", "reraise">>, <<"mark_failed", "reraise">>}
             \/ n = run[r].retries + 1 /\ run[r].pc \in {"queued", "reraise"} /\ pc = "queued"
      PROVE  Moved
  <2>1. run'[r].pc = pc /\ run'[r].retries = n /\ \A s \in Runs \ {r} : run'[s] = run[s]
    BY <1>f, <1>r, ForgetEffect
  <2> QED BY <1>f, <2>1 DEF Moves
<1>1. CASE RunSkip(r)
  BY <1>1, <1>f DEF RunSkip
<1>2. CASE RunLoad(r)
  <2>1. /\ run[r].pc = "queued" /\ run'[r].pc = "loop" /\ run'[r].retries = run[r].retries
        /\ run'[r].status = persona.status /\ persona.status \notin Terminal
        /\ \A s \in Runs \ {r} : run'[s] = run[s]
    BY <1>2, <1>r DEF RunLoad, Forget, NoRun
  <2> QED BY <2>1 DEF Moves
<1>3. CASE RunBeginRound(r)
  BY <1>3, <1>r DEF RunBeginRound, Moves, Run
<1>4. ASSUME NEW k \in Replies, RunReply(r, k) PROVE Moved
  <2>1. CASE k = "non_json"
    BY <1>4, <2>1, <1>f DEF RunReply, Working
  <2>2. CASE k # "non_json"
    <3>1. run[r].pc = "calling" /\ run' = [run EXCEPT ![r] = [run[r] EXCEPT !.pc = "replied", !.reply = k]]
      BY <1>4, <2>2 DEF RunReply
    <3> QED BY <3>1, <1>r DEF Moves, Run
  <2> QED BY <2>1, <2>2
<1>5. CASE Fails(r)
  <2>1. run[r].pc \in {"replied", "waiting"} /\ \E code \in Codes : \E files : Fail(r, code, files)
    BY <1>5 DEF Fails, RunInvalid, RunPartial, RunRoundCap, RunTimeout, Codes, Replied
  <2>2. /\ run'[r].pc = "announce" /\ run'[r].retries = run[r].retries
        /\ \A s \in Runs \ {r} : run'[s] = run[s]
    BY <2>1, <1>r DEF Fail, Run
  <2> QED BY <2>1, <2>2 DEF Moves, Working
<1>6. CASE RunAsk(r)
  BY <1>6, <1>r DEF RunAsk, AskRound, Replied, Moves, Run
<1>7. CASE RunSubscribe(r)
  BY <1>7, <1>r DEF RunSubscribe, Goto, Moves, Run
<1>8. CASE RunContinue(r)
  BY <1>8, <1>r DEF RunContinue, Moves, Run
<1>9. CASE RunRefresh(r)
  BY <1>9, <1>r DEF RunRefresh, Moves, Run
<1>10. CASE RunApplyFiles(r)
  BY <1>10, ApplyRow DEF Moves
<1>11. CASE RunMatching(r)
  BY <1>11, <1>r DEF RunMatching, Moves, Run
<1>12. CASE RunFinish(r)
  BY <1>12, <1>f DEF RunFinish
<1>13. CASE RunAnnounce(r)
  BY <1>13, <1>f DEF RunAnnounce
<1>14. CASE RunReturn(r)
  BY <1>14, <1>f DEF RunReturn
<1>15. CASE RecoverRead(r)
  BY <1>15, <1>r DEF RecoverRead, Moves, Run
<1>16. CASE RecoverWrite(r)
  BY <1>16, <1>f DEF RecoverWrite
<1>17. CASE RecoverFail(r)
  BY <1>17, <1>f DEF RecoverFail
<1>18. CASE RunReraise(r) \/ RunSetupFails(r)
  <2>0. run[r].pc \in {"queued", "reraise"} /\ run' = Retried(r)
    BY <1>18 DEF RunReraise, RunSetupFails
  <2>1. CASE run' = [run EXCEPT ![r] = Forget("queued", run[r].retries + 1)]
    BY <2>0, <2>1, <1>f
  <2>2. CASE run' = [run EXCEPT ![r] = Forget("done", run[r].retries)]
    BY <2>0, <2>2, <1>f
  <2> QED BY <2>0, <2>1, <2>2 DEF Retried
<1>19. CASE RunRaise(r)
  BY <1>19, <1>f DEF RunRaise
<1> QED
  BY <1>1, <1>2, <1>3, <1>4, <1>5, <1>6, <1>7, <1>8, <1>9, <1>10, <1>11, <1>12, <1>13, <1>14,
     <1>15, <1>16, <1>17, <1>18, <1>19 DEF RunStep, Fails

\* Only a message that was delivered moves.
LEMMA MovesFrom ==
  ASSUME NEW x, NEW y, Moves(x, y)
  PROVE  x.pc # "absent"
<1>1. x.pc \in Working => x.pc # "absent"
  BY StatusSets
<1> QED BY <1>1 DEF Moves

\* A killed worker's message is queued again or lost; nothing else is written.
LEMMA CrashMoves ==
  ASSUME TypeOK, NEW r \in Runs, RunCrash(r)
  PROVE  /\ run[r].pc \in Held /\ run'[r].pc \in {"queued", "lost"}
         /\ persona' = persona /\ api' = api /\ \A s \in Runs \ {r} : run'[s] = run[s]
<1>1. /\ run[r].pc \in Held /\ persona' = persona /\ api' = api
      /\ \E pc \in {"queued", "lost"} : run' = [run EXCEPT ![r] = Forget(pc, run[r].retries)]
  BY DEF RunCrash
<1>2. PICK pc \in {"queued", "lost"} : run' = [run EXCEPT ![r] = Forget(pc, run[r].retries)]
  BY <1>1
<1> QED BY <1>1, <1>2, ForgetEffect DEF TypeOK

\* The message is queued when the request is answered, and not before.
NotQueuedYet == api \in {"idle", "created"} => \A r \in Runs : run[r].pc = "absent"

Still(x, y) == /\ y.pc = x.pc /\ y.status = x.status
               /\ y.rounds = x.rounds /\ y.retries = x.retries

\* The endpoints and the broker queue a message for a run that has none, and else leave
\* every run where it is.
LEMMA OthersLeaveRuns ==
  ASSUME TypeOK, NotQueuedYet, Next,
         \A r \in Runs : ~(RunStep(r) \/ RunRaise(r) \/ RunSetupFails(r) \/ RunCrash(r)), NEW s \in Runs
  PROVE  Still(run[s], run'[s]) \/ (run[s].pc = "absent" /\ run'[s].pc = "queued")
<1> DEFINE Moved == Still(run[s], run'[s]) \/ (run[s].pc = "absent" /\ run'[s].pc = "queued")
<1>r. run \in [Runs -> Run] /\ run[s] \in Run
  BY DEF TypeOK
<1>1. CASE run' = run
  BY <1>1 DEF Still
<1>2. ASSUME NEW r \in Runs, run[r].pc = "absent",
             run' = [run EXCEPT ![r] = [@ EXCEPT !.pc = "queued"]]
      PROVE  Moved
  BY <1>2, <1>r DEF Still, Run
<1>3. CASE ApiRefuse
  BY <1>1, <1>2, <1>3 DEF ApiRefuse, NotQueuedYet
<1>4. ASSUME NEW r \in Runs, ApiEnqueue(r) PROVE Moved
  BY <1>2, <1>4 DEF ApiEnqueue, NotQueuedYet
<1>5. ASSUME NEW r \in Runs, NEW t \in Runs, Duplicate(r, t) PROVE Moved
  BY <1>5, <1>r DEF Duplicate, Still, Run
<1>6. ASSUME NEW q \in Requests, ClarifyPublish(q) PROVE Moved
  BY <1>6, <1>r DEF ClarifyPublish, Still, Run
<1>7. CASE \/ ApiCreate \/ ApiMarkUnavailable \/ PublishBegin \/ PublishCommit \/ PublishRaise
           \/ \E q \in Requests : \/ ClarifyCompress(q) \/ ClarifyCommit(q) \/ ClarifySilent(q)
                                  \/ \E n \in Rounds : ClarifyRead(q, n)
  BY <1>1, <1>7
  DEF ApiCreate, ApiMarkUnavailable, PublishBegin, PublishCommit, PublishRaise, ClarifyCompress,
      ClarifyCommit, ClarifySilent, ClarifyRead
<1> QED BY <1>3, <1>4, <1>5, <1>6, <1>7 DEF Next, ClarifyStep

\* Inductive: the attributes that a run writes over are those of a row that has not ended.
OpenInv ==
  /\ NotQueuedYet
  /\ \A r \in Runs : run[r].pc \in Working \cup {"mark_failed"} => run[r].status \notin Terminal

LEMMA OpenInvInit == Init => OpenInv
  BY DEF Init, OpenInv, NotQueuedYet, NoRun, Working

\* A move from an open place to an open place leaves the cached status open.
LEMMA MovesStayOpen ==
  ASSUME NEW x \in Run, NEW y, Moves(x, y),
         x.pc \in Working \cup {"mark_failed"} => x.status \notin Terminal
  PROVE  y.pc \in Working \cup {"mark_failed"} => y.status \notin Terminal
  BY StatusSets DEF Moves, Terminal

LEMMA OpenInvStep == TypeInv /\ OpenInv /\ [Next]_vars => OpenInv'
<1> SUFFICES ASSUME TypeInv, OpenInv, [Next]_vars PROVE OpenInv'
  OBVIOUS
<1>r. TypeOK /\ run \in [Runs -> Run] /\ NotQueuedYet
  BY DEF TypeInv, TypeOK, OpenInv
<1> DEFINE Open(x) == x.pc \in Working \cup {"mark_failed"} => x.status \notin Terminal
<1>o. \A s \in Runs : Open(run[s])
  BY DEF OpenInv
<1>0. CASE UNCHANGED vars
  BY <1>0 DEF OpenInv, NotQueuedYet, vars
<1>1. CASE Next
  <2>1. ASSUME NEW s \in Runs PROVE Open(run'[s])
    <3>1. ASSUME NEW r \in Runs, RunStep(r) \/ RunRaise(r) \/ RunSetupFails(r) PROVE Open(run'[s])
      BY <3>1, <1>r, <1>o, RunMoves, MovesStayOpen
    <3>2. ASSUME NEW r \in Runs, RunCrash(r) PROVE Open(run'[s])
      BY <3>2, <1>r, <1>o, CrashMoves, StatusSets
    <3>3. CASE \A r \in Runs : ~(RunStep(r) \/ RunRaise(r) \/ RunSetupFails(r) \/ RunCrash(r))
      BY <3>3, <1>1, <1>r, <1>o, OthersLeaveRuns, StatusSets DEF Still
    <3> QED BY <3>1, <3>2, <3>3
  <2>2. NotQueuedYet'
    <3>1. CASE api' = api /\ api \notin {"idle", "created"}
      BY <3>1 DEF NotQueuedYet
    <3>2. CASE ApiCreate \/ ApiRefuse \/ ApiMarkUnavailable \/ \E r \in Runs : ApiEnqueue(r)
      BY <3>2, <1>r DEF ApiCreate, ApiRefuse, ApiMarkUnavailable, ApiEnqueue, NotQueuedYet
    <3>3. ASSUME NEW r \in Runs, RunStep(r) \/ RunRaise(r) \/ RunSetupFails(r) \/ RunCrash(r)
          PROVE  api' = api /\ run[r].pc # "absent"
      <4>1. api' = api
        BY <3>3 DEF RunStep, RunSkip, RunLoad, RunBeginRound, RunReply, RunInvalid, RunPartial,
             RunRoundCap, RunAsk, AskRound, RunSubscribe, RunContinue, RunTimeout, RunRefresh,
             RunApplyFiles, RunMatching, RunFinish, RunReturn, RunAnnounce, RunReraise, Retried,
             RecoverRead, RecoverWrite, RecoverFail, RunRaise, RunSetupFails, RunCrash
      <4>2. CASE RunCrash(r)
        BY <4>2, <1>r, CrashMoves, StatusSets DEF Held, Recovering
      <4>3. CASE RunStep(r) \/ RunRaise(r) \/ RunSetupFails(r)
        <5>1. Moves(run[r], run'[r])
          BY <4>3, <1>r, RunMoves
        <5> QED BY <4>1, <5>1, MovesFrom
      <4> QED BY <3>3, <4>1, <4>2, <4>3
    <3>4. ASSUME NEW r \in Runs, NEW t \in Runs, Duplicate(r, t)
          PROVE  api' = api /\ run[r].pc # "absent"
      BY <3>4, StatusSets DEF Duplicate, Held, Recovering
    <3>5. CASE PublishBegin \/ PublishCommit \/ PublishRaise
      BY <3>5, <1>r DEF PublishBegin, PublishCommit, PublishRaise, NotQueuedYet
    <3>6. ASSUME NEW q \in Requests, ClarifyStep(q) \/ \E n \in Rounds : ClarifyRead(q, n)
          PROVE  api' = api /\ \A r \in Runs : run'[r].pc = run[r].pc
      <4>1. CASE ClarifyPublish(q)
        BY <4>1, <1>r DEF ClarifyPublish, Run
      <4>2. CASE ~ClarifyPublish(q)
        BY <4>2, <3>6 DEF ClarifyStep, ClarifyCompress, ClarifyCommit, ClarifySilent, ClarifyRead
      <4> QED BY <4>1, <4>2
    <3>7. ASSUME api' = api, NEW r \in Runs, run[r].pc # "absent" PROVE NotQueuedYet'
      BY <1>r, <3>7 DEF NotQueuedYet
    <3> QED BY <1>1, <1>r, <3>2, <3>3, <3>4, <3>5, <3>6, <3>7 DEF Next, NotQueuedYet
  <2> QED BY <2>1, <2>2 DEF OpenInv
<1> QED BY <1>0, <1>1

\* While some message was delivered and none was lost, a persona that has not ended is still
\* somebody's: a run that will write its last status, or raise and be recovered.
NoneAbandoned ==
  (\E r \in Runs : run[r].pc # "absent") =>
    \/ persona.status \in Terminal
    \/ \E r \in Runs : run[r].pc \in Unfinished \cup {"lost"}

\* A run leaves the unfinished places only with a terminal row behind it, as long as the
\* recovery reaches the database; a finished run writes no status.
LEMMA LeavesTerminal ==
  ASSUME Faults \cap {"recovery", "setup"} = {}, TypeOK, OpenInv, NEW r \in Runs,
         RunStep(r) \/ RunRaise(r) \/ RunSetupFails(r) \/ RunCrash(r)
  PROVE  \/ run'[r].pc \in Unfinished \cup {"lost"}
         \/ persona'.status \in Terminal
         \/ run[r].pc \notin Unfinished \cup {"lost"} /\ persona' = persona
<1> DEFINE Good == \/ run'[r].pc \in Unfinished \cup {"lost"}
                   \/ persona'.status \in Terminal
                   \/ run[r].pc \notin Unfinished \cup {"lost"} /\ persona' = persona
<1>r. run \in [Runs -> Run] /\ run[r] \in Run /\ persona \in Persona
  BY DEF TypeOK
<1>w. run[r].pc \in Working \cup {"mark_failed"} =>
        /\ StatusWrite(r, "failed") = "failed"
        /\ StatusWrite(r, "generated") = "generated"
  BY DEF OpenInv, StatusWrite, Terminal
<1>c. CASE RunCrash(r)
  BY <1>c, <1>r, CrashMoves DEF Unfinished
<1>m. CASE RunStep(r) \/ RunRaise(r) \/ RunSetupFails(r)
  <2>1. CASE RunSkip(r)
    BY <2>1 DEF RunSkip
  <2>2. CASE Fails(r)
    <3>1. run[r].pc \in Working /\ \E code \in Codes : \E files : Fail(r, code, files)
      BY <2>2 DEF Fails, RunInvalid, RunPartial, RunRoundCap, RunTimeout, Codes, Replied, Working
    <3>2. persona'.status = "failed"
      BY <3>1, <1>w, <1>r DEF Fail, Persona
    <3> QED BY <3>2 DEF Terminal
  <2>3. CASE RunFinish(r)
    <3>1. persona'.status = "generated"
      BY <2>3, <1>w, <1>r, StatusSets DEF RunFinish, Persona
    <3> QED BY <3>1 DEF Terminal
  <2>4. CASE RecoverWrite(r)
    <3>1. persona'.status = "failed"
      BY <2>4, <1>w, <1>r DEF RecoverWrite, Persona
    <3> QED BY <3>1 DEF Terminal
  <2>5. CASE RecoverRead(r)
    <3>1. CASE persona.status \in Terminal
      BY <2>5, <3>1 DEF RecoverRead
    <3>2. CASE persona.status \notin Terminal
      <4>1. run'[r].pc = "mark_failed"
        BY <2>5, <3>2, <1>r DEF RecoverRead, Run
      <4> QED BY <4>1 DEF Unfinished
    <3> QED BY <3>1, <3>2
  <2>6. CASE RunAnnounce(r) \/ RunReturn(r) \/ RunReraise(r)
    <3>1. run[r].pc \in {"announce", "returning", "reraise"} /\ persona' = persona
      BY <2>6 DEF RunAnnounce, RunReturn, RunReraise, Retried
    <3> QED BY <3>1, StatusSets DEF Unfinished
  <2>7. ASSUME ~RunSkip(r), ~Fails(r), ~RunFinish(r), ~RecoverWrite(r), ~RecoverRead(r),
               ~(RunAnnounce(r) \/ RunReturn(r) \/ RunReraise(r))
        PROVE  Good
    <3>1. \/ RunLoad(r) \/ RunBeginRound(r) \/ RunAsk(r) \/ RunSubscribe(r) \/ RunContinue(r)
          \/ RunRefresh(r) \/ RunApplyFiles(r) \/ RunMatching(r) \/ RunRaise(r)
          \/ \E k \in Replies : RunReply(r, k)
      BY <1>m, <2>7 DEF RunStep, Fails, RecoverFail, RunSetupFails
    <3>2. run'[r].pc \in {"loop", "calling", "asked", "waiting", "refresh", "files", "matching",
                          "recovering", "replied"}
      <4>1. CASE RunLoad(r)
        BY <4>1, <1>r DEF RunLoad, Forget, NoRun
      <4>2. CASE RunRaise(r)
        BY <4>2, <1>r, ForgetEffect DEF RunRaise
      <4>3. CASE \E k \in Replies : RunReply(r, k)
        BY <4>3, <1>r DEF RunReply, Forget, NoRun, Run
      <4>4. CASE \/ RunBeginRound(r) \/ RunAsk(r) \/ RunSubscribe(r) \/ RunContinue(r)
                 \/ RunRefresh(r) \/ RunApplyFiles(r) \/ RunMatching(r)
        <5>1. CASE RunBeginRound(r)
          BY <5>1, <1>r DEF RunBeginRound, Run
        <5>2. CASE RunAsk(r)
          BY <5>2, <1>r DEF RunAsk, AskRound, Run
        <5>3. CASE RunSubscribe(r)
          BY <5>3, <1>r DEF RunSubscribe, Goto, Run
        <5>4. CASE RunContinue(r)
          BY <5>4, <1>r DEF RunContinue, Run
        <5>5. CASE RunRefresh(r)
          BY <5>5, <1>r DEF RunRefresh, Run
        <5>6. CASE RunApplyFiles(r)
          BY <5>6, ApplyRow
        <5>7. CASE RunMatching(r)
          BY <5>7, <1>r DEF RunMatching, Run
        <5> QED BY <4>4, <5>1, <5>2, <5>3, <5>4, <5>5, <5>6, <5>7
      <4> QED BY <3>1, <4>1, <4>2, <4>3, <4>4
    <3> QED BY <3>2, StatusSets DEF Unfinished
  <2> QED BY <2>1, <2>2, <2>3, <2>4, <2>5, <2>6, <2>7
<1> QED BY <1>c, <1>m

\* What the endpoints write to the row of a queued message is the end of it.
LEMMA OthersLeaveRow ==
  ASSUME TypeOK, NotQueuedYet, Next,
         \A r \in Runs : ~(RunStep(r) \/ RunRaise(r) \/ RunSetupFails(r) \/ RunCrash(r))
  PROVE  \/ persona' = persona
         \/ persona'.status \in Terminal
         \/ \A r \in Runs : run'[r].pc = "absent"
<1>r. persona \in Persona
  BY DEF TypeOK
<1>1. CASE ApiCreate
  BY <1>1 DEF ApiCreate, NotQueuedYet
<1>2. CASE ApiMarkUnavailable \/ PublishCommit
  BY <1>2, <1>r DEF ApiMarkUnavailable, PublishCommit, Persona, Terminal
<1>3. CASE \/ ApiRefuse \/ PublishBegin \/ PublishRaise
           \/ \E r \in Runs : ApiEnqueue(r) \/ \E s \in Runs : Duplicate(r, s)
  BY <1>3 DEF ApiRefuse, PublishBegin, PublishRaise, ApiEnqueue, Duplicate
<1>4. ASSUME NEW q \in Requests, ClarifyStep(q) \/ \E n \in Rounds : ClarifyRead(q, n)
      PROVE  persona' = persona
  BY <1>4 DEF ClarifyStep, ClarifyRead, ClarifyCompress, ClarifyCommit, ClarifyPublish, ClarifySilent
<1> QED BY <1>1, <1>2, <1>3, <1>4 DEF Next

LEMMA NoneAbandonedStep ==
  ASSUME Faults \cap {"recovery", "setup"} = {}
  PROVE  TypeInv /\ OpenInv /\ NoneAbandoned /\ [Next]_vars => NoneAbandoned'
<1> SUFFICES ASSUME TypeInv, OpenInv, NoneAbandoned, [Next]_vars PROVE NoneAbandoned'
  OBVIOUS
<1>r. TypeOK /\ NotQueuedYet
  BY DEF TypeInv, OpenInv
<1>0. CASE UNCHANGED vars
  BY <1>0 DEF NoneAbandoned, vars
<1>1. ASSUME NEW r \in Runs, RunStep(r) \/ RunRaise(r) \/ RunSetupFails(r) \/ RunCrash(r) PROVE NoneAbandoned'
  <2>1. run[r].pc # "absent" /\ \A s \in Runs \ {r} : run'[s] = run[s]
    <3>1. CASE RunCrash(r)
      BY <3>1, <1>r, CrashMoves, StatusSets DEF Held, Recovering
    <3>2. CASE RunStep(r) \/ RunRaise(r) \/ RunSetupFails(r)
      <4>1. Moves(run[r], run'[r]) /\ \A s \in Runs \ {r} : run'[s] = run[s]
        BY <3>2, <1>r, RunMoves
      <4> QED BY <4>1, MovesFrom
    <3> QED BY <1>1, <3>1, <3>2
  <2>2. CASE run'[r].pc \in Unfinished \cup {"lost"} \/ persona'.status \in Terminal
    BY <2>2 DEF NoneAbandoned
  <2>3. CASE run[r].pc \notin Unfinished \cup {"lost"} /\ persona' = persona
    <3>1. \/ persona.status \in Terminal
          \/ \E s \in Runs \ {r} : run[s].pc \in Unfinished \cup {"lost"}
      BY <2>1, <2>3 DEF NoneAbandoned
    <3> QED BY <2>1, <2>3, <3>1 DEF NoneAbandoned
  <2> QED BY <1>1, <1>r, <2>2, <2>3, LeavesTerminal
<1>2. CASE Next /\ \A r \in Runs : ~(RunStep(r) \/ RunRaise(r) \/ RunSetupFails(r) \/ RunCrash(r))
  <2>1. CASE \E s \in Runs : run[s].pc = "absent" /\ run'[s].pc = "queued"
    BY <2>1 DEF NoneAbandoned, Unfinished
  <2>2. CASE \A s \in Runs : Still(run[s], run'[s])
    <3>1. \A s \in Runs : run'[s].pc = run[s].pc
      BY <2>2 DEF Still
    <3> QED BY <1>2, <1>r, <3>1, OthersLeaveRow DEF NoneAbandoned
  <2> QED BY <1>2, <1>r, <2>1, <2>2, OthersLeaveRuns
<1> QED BY <1>0, <1>1, <1>2

\* Whatever is delivered twice, retried, crashed or answered late, a persona whose message
\* was delivered has ended or is some unfinished run's, unless a message was lost with its
\* worker; for any number of deliveries, as long as the task can be set up and its recovery
\* reaches the database.
THEOREM PersonaNeverAbandoned ==
  ASSUME Faults \cap {"recovery", "setup"} = {}
  PROVE  Spec => []NoneAbandoned
<1>1. Init => TypeInv /\ OpenInv /\ NoneAbandoned
  BY TypeInvInit, OpenInvInit DEF Init, NoneAbandoned, NoRun
<1>2. TypeInv /\ OpenInv /\ NoneAbandoned /\ [Next]_vars => (TypeInv /\ OpenInv /\ NoneAbandoned)'
  BY TypeInvStep, OpenInvStep, NoneAbandonedStep
<1> QED BY <1>1, <1>2, PTL DEF Spec

\* The places of a round, in the order in which they are passed, counted from the last one.
RoundPlaces == {"asked", "waiting", "refresh", "loop", "calling", "replied"}
Place(pc) ==
  CASE pc = "asked" -> 17       [] pc = "waiting" -> 16     [] pc = "refresh" -> 15
    [] pc = "loop" -> 14        [] pc = "calling" -> 13     [] pc = "replied" -> 12
    [] pc = "files" -> 7        [] pc = "matching" -> 6     [] pc = "recovering" -> 5
    [] pc = "mark_failed" -> 4  [] pc = "reraise" -> 3      [] pc = "announce" -> 2
    [] pc = "returning" -> 1    [] pc \in {"done", "lost"} -> 0
    [] OTHER -> 18

\* How many steps the run that x records can still take before it ends or is queued again.
StepsLeft(x) ==
  IF x.pc \in RoundPlaces THEN 6 * (MaxRounds - x.rounds) + Place(x.pc)
  ELSE IF x.pc \in {"absent", "queued"} THEN 6 * MaxRounds + Place(x.pc)
  ELSE Place(x.pc)

\* Record y is nearer to the end of a run than x: of a later retry, or with fewer steps left.
Nearer(x, y) ==
  \/ y.retries > x.retries
  \/ y.retries = x.retries /\ StepsLeft(y) < StepsLeft(x)

\* The measure is a pair of a retry, which Celery bounds, and a natural number.
LEMMA StepsLeftType ==
  ASSUME NEW x \in Run
  PROVE  StepsLeft(x) \in Nat /\ x.retries \in 0..MaxRetries
<1>1. /\ MaxRounds \in Nat /\ x.rounds \in 0..MaxRounds /\ x.retries \in 0..MaxRetries
      /\ 6 * (MaxRounds - x.rounds) \in Nat /\ 6 * MaxRounds \in Nat
  BY ConstantsAssumption DEF Run
<1>2. Place(x.pc) \in Nat
  BY DEF Place
<1> QED BY <1>1, <1>2 DEF StepsLeft

\* Every move of the task is one step nearer to the end.
LEMMA MovesNearer ==
  ASSUME NEW x \in Run, NEW y \in Run, Moves(x, y)
  PROVE  Nearer(x, y)
<1>1. /\ MaxRounds \in Nat /\ x.rounds \in 0..MaxRounds /\ y.rounds \in 0..MaxRounds
      /\ x.retries \in Nat /\ y.retries \in Nat
  BY ConstantsAssumption DEF Run
<1>2. CASE y.retries = x.retries + 1
  BY <1>1, <1>2 DEF Nearer
<1>p. /\ Place("queued") = 18 /\ Place("asked") = 17 /\ Place("waiting") = 16
      /\ Place("refresh") = 15 /\ Place("loop") = 14 /\ Place("calling") = 13
      /\ Place("replied") = 12 /\ Place("files") = 7 /\ Place("matching") = 6
      /\ Place("recovering") = 5 /\ Place("mark_failed") = 4 /\ Place("reraise") = 3
      /\ Place("announce") = 2 /\ Place("returning") = 1 /\ Place("done") = 0
  BY DEF Place
<1>s. /\ x.pc \in RoundPlaces => StepsLeft(x) = 6 * (MaxRounds - x.rounds) + Place(x.pc)
      /\ x.pc = "queued" => StepsLeft(x) = 6 * MaxRounds + 18
      /\ x.pc \notin RoundPlaces \cup {"absent", "queued"} => StepsLeft(x) = Place(x.pc)
      /\ y.pc \in RoundPlaces => StepsLeft(y) = 6 * (MaxRounds - y.rounds) + Place(y.pc)
      /\ y.pc \notin RoundPlaces \cup {"absent", "queued"} => StepsLeft(y) = Place(y.pc)
  BY <1>p DEF StepsLeft, RoundPlaces
<1> HIDE DEF Place, StepsLeft
<1>3. ASSUME StepsLeft(y) < StepsLeft(x), y.retries = x.retries PROVE Nearer(x, y)
  BY <1>3 DEF Nearer
<1>4. CASE x.pc = "queued" /\ y.pc \in {"done", "recovering", "loop"} /\ y.retries = x.retries
  BY <1>1, <1>p, <1>s, <1>3, <1>4 DEF RoundPlaces
<1>5. CASE /\ <<x.pc, y.pc>> \in {<<"loop", "calling">>, <<"calling", "replied">>,
                <<"asked", "waiting">>, <<"waiting", "refresh">>, <<"refresh", "loop">>}
           /\ y.rounds = x.rounds /\ y.retries = x.retries
  BY <1>1, <1>p, <1>s, <1>3, <1>5 DEF RoundPlaces
<1>6. CASE x.pc = "replied" /\ y.pc = "asked" /\ y.rounds = x.rounds + 1 /\ y.retries = x.retries
  BY <1>1, <1>p, <1>s, <1>3, <1>6 DEF RoundPlaces
<1>7. CASE /\ x.pc \in RoundPlaces /\ y.pc \in {"files", "recovering", "announce"}
           /\ y.retries = x.retries
  BY <1>1, <1>p, <1>s, <1>3, <1>7 DEF RoundPlaces
<1>8. CASE /\ <<x.pc, y.pc>> \in
                {<<"files", "matching">>, <<"files", "recovering">>, <<"files", "announce">>,
                 <<"matching", "recovering">>, <<"matching", "announce">>,
                 <<"matching", "returning">>, <<"recovering", "mark_failed">>,
                 <<"recovering", "reraise">>, <<"mark_failed", "reraise">>,
                 <<"announce", "returning">>, <<"returning", "done">>, <<"reraise", "done">>}
           /\ y.retries = x.retries
  BY <1>1, <1>p, <1>s, <1>3, <1>8 DEF RoundPlaces
<1> QED
  BY <1>2, <1>4, <1>5, <1>6, <1>7, <1>8, StatusSets DEF Moves, RoundPlaces

\* The bounds and the direction of every run: its steps and its exceptions take it nearer to
\* its end, nobody else moves it, and only the crash of its own worker takes it back.
RunsAreFinite == \A r \in Runs : StepsLeft(run[r]) \in Nat /\ run[r].retries \in 0..MaxRetries
RunsComeNearer ==
  [][\A r \in Runs :
       /\ RunStep(r) \/ RunRaise(r) \/ RunSetupFails(r) => Nearer(run[r], run'[r])
       /\ run[r].pc # "absent" => \/ Nearer(run[r], run'[r])
                                  \/ Still(run[r], run'[r])
                                  \/ RunCrash(r)]_vars

\* generation.py: a delivered task takes finitely many steps between two crashes of its
\* worker, for any number of rounds and retries: the clarification loop, the recovery and
\* Celery's retries cannot go round for ever.  With PersonaNeverAbandoned this is what
\* DeliveredTerminates needs besides the fairness of the steps.
THEOREM RunsComeToAnEnd == Spec => []RunsAreFinite /\ RunsComeNearer
<1>1. TypeInv => RunsAreFinite
  BY StepsLeftType DEF TypeInv, TypeOK, RunsAreFinite
<1>2. TypeInv /\ TypeInv' /\ OpenInv /\ [Next]_vars =>
        [\A r \in Runs :
           /\ RunStep(r) \/ RunRaise(r) \/ RunSetupFails(r) => Nearer(run[r], run'[r])
           /\ run[r].pc # "absent" => \/ Nearer(run[r], run'[r])
                                      \/ Still(run[r], run'[r])
                                      \/ RunCrash(r)]_vars
  <2> SUFFICES ASSUME TypeInv, TypeInv', OpenInv, Next, NEW r \in Runs
               PROVE  /\ RunStep(r) \/ RunRaise(r) \/ RunSetupFails(r) => Nearer(run[r], run'[r])
                      /\ run[r].pc # "absent" => \/ Nearer(run[r], run'[r])
                                                 \/ Still(run[r], run'[r])
                                                 \/ RunCrash(r)
    OBVIOUS
  <2>r. TypeOK /\ NotQueuedYet /\ run[r] \in Run /\ run'[r] \in Run
    BY DEF TypeInv, TypeOK, OpenInv
  <2>1. ASSUME RunStep(r) \/ RunRaise(r) \/ RunSetupFails(r) PROVE Nearer(run[r], run'[r])
    BY <2>1, <2>r, RunMoves, MovesNearer
  <2>2. ASSUME run[r].pc # "absent", ~RunCrash(r), ~(RunStep(r) \/ RunRaise(r) \/ RunSetupFails(r))
        PROVE  Still(run[r], run'[r])
    <3>1. ASSUME NEW s \in Runs, s # r, RunStep(s) \/ RunRaise(s) \/ RunSetupFails(s) \/ RunCrash(s)
          PROVE  run'[r] = run[r]
      BY <3>1, <2>r, RunMoves, CrashMoves
    <3>2. CASE \A s \in Runs : ~(RunStep(s) \/ RunRaise(s) \/ RunSetupFails(s) \/ RunCrash(s))
      BY <3>2, <2>2, <2>r, OthersLeaveRuns
    <3>3. run'[r] = run[r] => Still(run[r], run'[r])
      BY DEF Still
    <3> QED BY <2>2, <3>1, <3>2, <3>3
  <2> QED BY <2>1, <2>2
<1> QED
  BY <1>1, <1>2, TypeInvInit, TypeInvStep, OpenInvInit, OpenInvStep, PTL DEF Spec, RunsComeNearer

=============================================================================
