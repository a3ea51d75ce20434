------------------------- MODULE PersonaStreamProofs -------------------------
(***************************************************************************)
(* Theorems about PersonaStream, for any files, rounds and attempts.  What *)
(* the client got and what waits in the queue are taken together: the      *)
(* invariant says of that one sequence what each of its events promises,   *)
(* and of the poller and the listener what they have seen but not yet put. *)
(* The last part is about termination: how near a response is to its end. *)
(***************************************************************************)
EXTENDS PersonaStream, SequenceTheorems, TLAPS

(* Sequences of events *)

Types == {"start", "file", "skills", "clarification", "complete", "error", "_DONE"}
Events == [type : Types, what : Files \cup {"-"}, which : Nat]

Has(s, e) == \E i \in 1..Len(s) : s[i] = e

LEMMA Regrouped ==
  ASSUME NEW s \in Seq(Events), NEW t \in Seq(Events), NEW u \in Seq(Events)
  PROVE  s \o (t \o u) = (s \o t) \o u
BY ConcatAssociative, SMTT(30)

LEMMA HasConcat ==
  ASSUME NEW s \in Seq(Events), NEW t \in Seq(Events), NEW e
  PROVE  Has(s \o t, e) <=> Has(s, e) \/ Has(t, e)
<1>1. ASSUME NEW i \in 1..Len(s), s[i] = e PROVE Has(s \o t, e)
  <2>1. i \in 1..Len(s \o t) /\ (s \o t)[i] = e
    BY <1>1
  <2> QED BY <2>1 DEF Has
<1>2. ASSUME NEW i \in 1..Len(t), t[i] = e PROVE Has(s \o t, e)
  <2>1. Len(s) + i \in 1..Len(s \o t) /\ (s \o t)[Len(s) + i] = e
    BY <1>2
  <2> QED BY <2>1 DEF Has
<1>3. ASSUME NEW i \in 1..Len(s \o t), (s \o t)[i] = e PROVE Has(s, e) \/ Has(t, e)
  <2>1. CASE i <= Len(s)
    BY <1>3, <2>1 DEF Has
  <2>2. CASE i > Len(s)
    <3>1. i - Len(s) \in 1..Len(t) /\ t[i - Len(s)] = e
      BY <1>3, <2>2
    <3> QED BY <3>1 DEF Has
  <2> QED BY <2>1, <2>2
<1> QED BY <1>1, <1>2, <1>3 DEF Has

LEMMA HasOne ==
  ASSUME NEW x, NEW e
  PROVE  /\ Has(<<x>>, e) <=> e = x
         /\ ~Has(<<>>, e)
  BY DEF Has

LEMMA FilesAre == Files = {"head", "tail", "readme"}
  BY DEF Files, FILE_COLUMNS, ToSet

\* What FileEvents reads off the row.
LEMMA FileEventsHas ==
  ASSUME NEW version \in Version, NEW sent
  PROVE  /\ FileEvents(version, sent) \in Seq(Events)
         /\ \A e : Has(FileEvents(version, sent), e) <=>
              \E f \in Files : version[f] # 0 /\ f \notin sent /\ e = FileEvent(f, version[f])
<1> DEFINE one(f) == IF version[f] # 0 /\ f \notin sent THEN <<FileEvent(f, version[f])>> ELSE <<>>
<1>1. ASSUME NEW f \in Files
      PROVE  /\ one(f) \in Seq(Events)
             /\ \A e : Has(one(f), e) <=> version[f] # 0 /\ f \notin sent /\ e = FileEvent(f, version[f])
  <2>1. FileEvent(f, version[f]) \in Events
    BY StreamAssumption DEF FileEvent, Event, Events, Types, Version
  <2>2. CASE version[f] # 0 /\ f \notin sent
    BY <2>1, <2>2, HasOne
  <2>3. CASE ~(version[f] # 0 /\ f \notin sent)
    BY <2>3, HasOne
  <2> QED BY <2>2, <2>3
<1>2. FileEvents(version, sent) = one("head") \o one("tail") \o one("readme")
  BY DEF FileEvents, FILE_COLUMNS
<1> HIDE DEF one
<1>3. one("head") \in Seq(Events) /\ one("tail") \in Seq(Events) /\ one("readme") \in Seq(Events)
  BY <1>1, FilesAre
<1>4. one("head") \o one("tail") \in Seq(Events)
  BY <1>3
<1>5. FileEvents(version, sent) \in Seq(Events)
  BY <1>2, <1>3, <1>4
<1>6. ASSUME NEW e
      PROVE  Has(FileEvents(version, sent), e) <=>
               Has(one("head"), e) \/ Has(one("tail"), e) \/ Has(one("readme"), e)
  <2>1. Has((one("head") \o one("tail")) \o one("readme"), e) <=>
          Has(one("head") \o one("tail"), e) \/ Has(one("readme"), e)
    BY <1>3, <1>4, HasConcat
  <2>2. Has(one("head") \o one("tail"), e) <=> Has(one("head"), e) \/ Has(one("tail"), e)
    BY <1>3, HasConcat
  <2> QED BY <2>1, <2>2, <1>2
<1>7. ASSUME NEW e
      PROVE  Has(FileEvents(version, sent), e) <=>
               \E f \in Files : version[f] # 0 /\ f \notin sent /\ e = FileEvent(f, version[f])
  <2>1. "head" \in Files /\ "tail" \in Files /\ "readme" \in Files
    BY FilesAre
  <2>2. Has(FileEvents(version, sent), e) <=> \E f \in Files : Has(one(f), e)
    BY <1>6, <2>1, FilesAre
  <2> QED BY <1>1, <2>2
<1> QED BY <1>5, <1>7

-----------------------------------------------------------------------------
(* Type correctness *)

\* Inductive: the types, with those of the events, and the bounds they need.  A file comes
\* from an attempt that was made, and a persona in clarification has a round.
TypeInv ==
  /\ TypeOK
  /\ queue \in Seq(Events) /\ out \in Seq(Events)
  /\ \A f \in Files : files[f] <= attempt
  /\ status = "needs_clarification" => rounds # 0
  /\ poller.pc \in {"skills", "fetching"} /\ poller.status = "needs_clarification" => poller.round # 0
  /\ poller.pc = "fetching" => poller.status = "needs_clarification"

LEMMA EventTypes ==
  ASSUME NEW s \in Seq(Events)
  PROVE  \A e \in ToSet(s) : e.type \in Types
<1>1. ASSUME NEW e \in ToSet(s) PROVE e \in Events
  BY <1>1 DEF ToSet
<1> QED BY <1>1 DEF Events

LEMMA PlainEvents ==
  \A t \in Types : Plain(t) \in Events /\ Plain(t).type = t
  BY DEF Plain, Event, Events

LEMMA StartingPoller ==
  \A pc \in {"none", "poll", "done"} : NewPoller(pc) \in Poller /\ NewPoller(pc).pc = pc
  BY StreamAssumption DEF NewPoller, Poller, Status, Terminal

LEMMA TypeInit == Init => TypeInv
<1> SUFFICES ASSUME Init PROVE TypeInv
  OBVIOUS
<1>1. status \in Status /\ rounds \in 0..MaxRounds /\ error \in {"none", "code"} /\ attempt \in 0..MaxAttempts
  BY StreamAssumption DEF Init, Status, Terminal
<1>2. files \in Version /\ view \in View
  BY StreamAssumption DEF Init, Version, View, NoView, Status, Terminal
<1>3. poller \in Poller /\ poller.pc = "none"
  BY StartingPoller DEF Init
<1>4. queue = <<>> /\ out = <<>> /\ queue \in Seq(Events) /\ out \in Seq(Events)
  BY DEF Init
<1>5. \A e \in ToSet(queue) \cup ToSet(out) : e.type \in Types
  BY <1>4, EventTypes
<1>6. TypeOK
  BY <1>1, <1>2, <1>3, <1>5 DEF Init, TypeOK, Types
<1> QED BY <1>3, <1>4, <1>6 DEF TypeInv, Init

\* The row and its files.
RowStep ==
  \/ TaskStart \/ TaskNextRound \/ TaskAsk \/ TaskWriteFiles \/ TaskMatchSkills
  \/ TaskFinish \/ TaskFail \/ Publish \/ Purge

RowMoves ==
  /\ rounds <= rounds' /\ attempt <= attempt' /\ (gone => gone')
  /\ status \in Terminal => status' \in Terminal
  /\ status = "failed" => status' = "failed"
  /\ status \in {"generated", "published"} =>
       /\ status' \in {"generated", "published"}
       /\ files' = files /\ (skills' => skills) /\ attempt' = attempt

RowTypes ==
  /\ status \in Status /\ rounds \in 0..MaxRounds /\ error \in {"none", "code"}
  /\ files \in Version /\ skills \in BOOLEAN /\ attempt \in 0..MaxAttempts /\ gone \in BOOLEAN
  /\ \A f \in Files : files[f] <= attempt
  /\ status = "needs_clarification" => rounds # 0

LEMMA RowEffect ==
  ASSUME RowTypes, RowStep
  PROVE  RowTypes' /\ RowMoves
<1>r. /\ status \in Status /\ rounds \in 0..MaxRounds /\ error \in {"none", "code"} /\ MaxRounds \in Nat
      /\ files \in [Files -> 0..MaxAttempts] /\ skills \in BOOLEAN /\ attempt \in 0..MaxAttempts /\ MaxAttempts \in Nat
      /\ gone \in BOOLEAN
      /\ \A f \in Files : files[f] <= attempt
      /\ status = "needs_clarification" => rounds # 0
  BY StreamAssumption DEF RowTypes, Version
<1> USE DEF Lifecycle!InProgress, Status, Terminal
<1>s. ASSUME status' \in Status, rounds' \in 0..MaxRounds, rounds <= rounds', error' \in {"none", "code"},
             status' = "needs_clarification" => rounds' # 0,
             files' = files, skills' = skills, attempt' = attempt, gone' = gone,
             status \in Terminal => status' \in Terminal,
             status = "failed" => status' = "failed",
             status \in {"generated", "published"} => status' \in {"generated", "published"}
      PROVE  RowTypes' /\ RowMoves
  BY <1>s, <1>r DEF RowTypes, RowMoves, Version
<1>f. ASSUME status' \in Status, rounds' = rounds, error' \in {"none", "code"},
             status' # "needs_clarification",
             files' \in [Files -> 0..MaxAttempts], \A f \in Files : files'[f] <= attempt,
             skills' \in BOOLEAN, attempt' = attempt, gone' = gone, status \notin Terminal
      PROVE  RowTypes' /\ RowMoves
  BY <1>f, <1>r DEF RowTypes, RowMoves, Version
<1>1. CASE TaskStart
  <2>1. /\ status \notin Terminal /\ status' = "generating" /\ rounds' = rounds /\ error' = error
        /\ files' = files /\ skills' = skills /\ attempt' = attempt + 1 /\ attempt < MaxAttempts
        /\ gone' = gone
    BY <1>1 DEF TaskStart, Exists, Lifecycle!Generate
  <2>2. attempt' \in 0..MaxAttempts /\ \A f \in Files : files'[f] <= attempt'
    BY <2>1, <1>r
  <2> QED BY <2>1, <2>2, <1>r DEF RowTypes, RowMoves, Version
<1>2. CASE TaskNextRound
  BY <1>2, <1>s, <1>r DEF TaskNextRound, Exists, Lifecycle!Generate
<1>3. CASE TaskAsk
  BY <1>3, <1>s, <1>r DEF TaskAsk, Exists, Lifecycle!Ask
<1>4. CASE TaskWriteFiles
  <2>0. files' = [files EXCEPT !["head"] = attempt, !["tail"] = attempt]
    BY <1>4 DEF TaskWriteFiles
  <2>a. \A f \in Files : files'[f] \in {attempt, files[f]}
    BY <2>0, <1>r
  <2>b. files' \in [Files -> 0..MaxAttempts]
    BY <2>0, <1>r
  <2>1. files' \in [Files -> 0..MaxAttempts] /\ \A f \in Files : files'[f] <= attempt
    BY <2>a, <2>b, <1>r
  <2>2. status = "generating" /\ UNCHANGED <<status, rounds, error, skills, attempt, gone>>
    BY <1>4 DEF TaskWriteFiles, Exists
  <2> QED BY <2>1, <2>2, <1>f, <1>r
<1>5. CASE TaskMatchSkills
  BY <1>5, <1>s, <1>r DEF TaskMatchSkills, Exists, Lifecycle!MatchSkills
<1>6. CASE TaskFinish
  <2>1. PICK n \in {0, attempt} : files' = [files EXCEPT !["readme"] = n]
    BY <1>6 DEF TaskFinish
  <2>a. n \in 0..MaxAttempts /\ n <= attempt
    BY <2>1, <1>r
  <2>b. \A f \in Files : files'[f] \in {n, files[f]}
    BY <2>1, <1>r
  <2>c. files' \in [Files -> 0..MaxAttempts]
    BY <2>1, <2>a, <1>r
  <2>2. files' \in [Files -> 0..MaxAttempts] /\ \A f \in Files : files'[f] <= attempt
    BY <2>a, <2>b, <2>c, <1>r
  <2>3. /\ status = "skills_matching" /\ status' = "generated" /\ skills' \in BOOLEAN
        /\ rounds' = rounds /\ error' = error /\ attempt' = attempt /\ gone' = gone
    BY <1>6 DEF TaskFinish, Exists, Lifecycle!Finish
  <2> QED BY <2>2, <2>3, <1>f, <1>r
<1>7. CASE TaskFail
  <2>1. PICK n \in {files["head"], attempt} : files' = [files EXCEPT !["head"] = n]
    BY <1>7 DEF TaskFail
  <2>2. n \in 0..MaxAttempts /\ n <= attempt
    BY <2>1, <1>r, FilesAre
  <2>b. \A f \in Files : files'[f] \in {n, files[f]}
    BY <2>1, <1>r
  <2>c. files' \in [Files -> 0..MaxAttempts]
    BY <2>1, <2>2, <1>r
  <2>3. files' \in [Files -> 0..MaxAttempts] /\ \A f \in Files : files'[f] <= attempt
    BY <2>2, <2>b, <2>c, <1>r
  <2>4. /\ status \in Lifecycle!InProgress /\ status' = "failed" /\ skills' = skills
        /\ rounds' = rounds /\ error' = "code" /\ attempt' = attempt /\ gone' = gone
    BY <1>7 DEF TaskFail, Exists, Lifecycle!Fail
  <2> QED BY <2>3, <2>4, <1>f, <1>r
<1>8. CASE Publish
  BY <1>8, <1>s, <1>r DEF Publish, Exists, Lifecycle!Publish
<1>9. CASE Purge
  <2>1. gone' = TRUE /\ skills' = FALSE /\ UNCHANGED <<status, rounds, error, files, attempt>>
    BY <1>9 DEF Purge
  <2>2. RowTypes'
    BY <2>1, <1>r DEF RowTypes, Version
  <2>3. RowMoves
    <3>1. rounds <= rounds' /\ attempt <= attempt'
      BY <2>1, <1>r
    <3>2. /\ status' = status /\ files' = files /\ attempt' = attempt
          /\ (skills' => skills) /\ (gone => gone')
      BY <2>1, Zenon
    <3> QED BY <3>1, <3>2, Zenon DEF RowMoves
  <2> QED BY <2>2, <2>3
<1> QED BY <1>1, <1>2, <1>3, <1>4, <1>5, <1>6, <1>7, <1>8, <1>9 DEF RowStep

\* What the branch on the status does to the poller and the queue.
LEMMA BranchEffect ==
  ASSUME NEW p \in Poller, NEW q \in Seq(Events), Branch(p, q)
  PROVE  /\ poller' = [p EXCEPT !.pc = poller'.pc] /\ poller' \in Poller
         /\ poller'.pc \in {"sleeping", "fetching", "final_skills", "closing"}
         /\ poller'.pc = "fetching" => p.status = "needs_clarification" /\ ~Shown(p)
         /\ poller'.pc = "final_skills" => p.status = "generated"
         /\ stop' \in {stop, TRUE} /\ queue' \in Seq(Events)
         /\ \/ queue' = q
            \/ queue' = q \o <<Plain("complete")>> /\ p.status = "generated" /\ p.skills_sent
            \/ queue' = q \o <<Plain("error")>> /\ p.status = "failed"
<1>1. ASSUME NEW pc \in {"sleeping", "fetching", "final_skills", "closing"}, poller' = [p EXCEPT !.pc = pc]
      PROVE  poller' = [p EXCEPT !.pc = poller'.pc] /\ poller' \in Poller /\ poller'.pc = pc
  BY <1>1 DEF Poller
<1>e. Plain("complete") \in Events /\ Plain("error") \in Events
  BY PlainEvents DEF Types
<1>a. \A e \in Events : Append(q, e) = q \o <<e>> /\ Append(q, e) \in Seq(Events)
  BY AppendIsConcat, AppendProperties
<1>2. CASE p.status = "needs_clarification"
  <2>1. /\ poller' = [p EXCEPT !.pc = IF Shown(p) THEN "sleeping" ELSE "fetching"]
        /\ queue' = q /\ stop' = stop
    BY <1>2 DEF Branch, Succeeded
  <2>2. CASE Shown(p)
    <3>1. poller' = [p EXCEPT !.pc = "sleeping"]
      BY <2>1, <2>2
    <3> QED BY <3>1, <2>1, <1>1
  <2>3. CASE ~Shown(p)
    <3>1. poller' = [p EXCEPT !.pc = "fetching"]
      BY <2>1, <2>3
    <3> QED BY <3>1, <2>1, <2>3, <1>1, <1>2
  <2> QED BY <2>2, <2>3
<1>3. CASE Succeeded(p) /\ p.skills_sent
  <2>1. poller' = [p EXCEPT !.pc = "closing"] /\ queue' = Append(q, Plain("complete")) /\ stop' = TRUE
    BY <1>3 DEF Branch, Succeeded, Leave
  <2> QED BY <2>1, <1>1, <1>3, <1>a, <1>e DEF Succeeded
<1>4. CASE Succeeded(p) /\ ~p.skills_sent
  <2>1. poller' = [p EXCEPT !.pc = "final_skills"] /\ queue' = q /\ stop' = stop
    BY <1>4 DEF Branch, Succeeded
  <2> QED BY <2>1, <1>1, <1>4 DEF Succeeded
<1>5. CASE p.status = "failed"
  <2>1. poller' = [p EXCEPT !.pc = "closing"] /\ queue' = Append(q, Plain("error")) /\ stop' = TRUE
    BY <1>5 DEF Branch, Succeeded, Leave
  <2> QED BY <2>1, <1>1, <1>5, <1>a, <1>e
<1>6. CASE p.status \notin {"needs_clarification", "failed"} /\ ~Succeeded(p)
  <2>1. poller' = [p EXCEPT !.pc = "sleeping"] /\ queue' = q /\ stop' = stop
    BY <1>6 DEF Branch, Succeeded
  <2> QED BY <2>1, <1>1
<1> QED BY <1>2, <1>3, <1>4, <1>5, <1>6

LEMMA SkillEventsHas ==
  /\ SkillEvents \in Seq(Events)
  /\ \A e : Has(SkillEvents, e) <=> skills /\ e = Plain("skills")
<1>1. Plain("skills") \in Events
  BY PlainEvents DEF Types
<1> QED BY <1>1, HasOne DEF SkillEvents

\* The poller after its read of the row.
LEMMA AfterReadIs ==
  ASSUME TypeInv
  PROVE  /\ AfterRead \in Poller /\ AfterRead.pc = poller.pc
         /\ AfterRead.status = status /\ AfterRead.round = rounds
         /\ AfterRead.sent_files = poller.sent_files \cup {f \in Files : files[f] # 0}
         /\ AfterRead.skills_sent = poller.skills_sent
         /\ AfterRead.clarification_sent = poller.clarification_sent
         /\ QueueAfterRead \in Seq(Events)
<1>r. poller \in Poller /\ status \in Status /\ rounds \in 0..MaxRounds /\ files \in Version /\ queue \in Seq(Events)
  BY DEF TypeInv, TypeOK
<1>1. QueueAfterRead \in Seq(Events)
  BY <1>r, FileEventsHas DEF QueueAfterRead
<1> QED BY <1>r, <1>1 DEF AfterRead, Poller

\* What the poller's record must keep for the types.
PollerFits ==
  /\ poller \in Poller
  /\ poller.pc \in {"skills", "fetching"} /\ poller.status = "needs_clarification" => poller.round # 0
  /\ poller.pc = "fetching" => poller.status = "needs_clarification"

TypeParts ==
  /\ RowTypes /\ PollerFits
  /\ stream \in {"idle", "opened", "live", "closed"} /\ view \in View
  /\ listener \in {"none", "subscribing", "listening", "done"}
  /\ heard \in BOOLEAN /\ stop \in BOOLEAN
  /\ queue \in Seq(Events) /\ out \in Seq(Events)

LEMMA TypeByParts == (TypeInv => TypeParts) /\ (TypeParts' => TypeInv')
<1>1. TypeInv => TypeParts
  BY DEF TypeParts, TypeInv, TypeOK, RowTypes, PollerFits
<1>2. ASSUME TypeParts' PROVE TypeInv'
  <2>1. \A e \in ToSet(queue') \cup ToSet(out') : e.type \in Types
    BY <1>2, EventTypes DEF TypeParts
  <2> QED BY <1>2, <2>1 DEF TypeParts, TypeInv, TypeOK, RowTypes, PollerFits, Types
<1> QED BY <1>1, <1>2

LEMMA PollType ==
  ASSUME TypeInv, PollStep
  PROVE  PollerFits' /\ queue' \in Seq(Events) /\ stop' \in BOOLEAN
<1>r. poller \in Poller /\ queue \in Seq(Events) /\ stop \in BOOLEAN /\ skills \in BOOLEAN /\ PollerFits
      /\ (status = "needs_clarification" => rounds # 0)
  BY DEF TypeInv, TypeOK, PollerFits
<1>l. ASSUME NEW p \in Poller, NEW q \in Seq(Events), Leave(p, q)
      PROVE  PollerFits' /\ queue' \in Seq(Events) /\ stop' \in BOOLEAN
  BY <1>l DEF Leave, PollerFits, Poller
<1>b. ASSUME NEW p \in Poller, NEW q \in Seq(Events), Branch(p, q),
             p.status = "needs_clarification" => p.round # 0
      PROVE  PollerFits' /\ queue' \in Seq(Events) /\ stop' \in BOOLEAN
  <2>1. /\ poller' \in Poller /\ queue' \in Seq(Events) /\ stop' \in {stop, TRUE}
        /\ poller'.pc \in {"sleeping", "fetching", "final_skills", "closing"}
        /\ poller'.pc = "fetching" => p.status = "needs_clarification"
        /\ poller' = [p EXCEPT !.pc = poller'.pc]
    BY <1>b, BranchEffect
  <2>2. poller'.status = p.status /\ poller'.round = p.round
    BY <2>1 DEF Poller
  <2> QED BY <2>1, <2>2, <1>b, <1>r DEF PollerFits
<1>1. CASE PollRead
  <2>1. CASE poller.skills_sent
    <3>1. Branch(AfterRead, QueueAfterRead)
      BY <1>1, <2>1 DEF PollRead
    <3> QED BY <3>1, <1>b, <1>r, AfterReadIs
  <2>2. CASE ~poller.skills_sent
    <3>1. poller' = [AfterRead EXCEPT !.pc = "skills"] /\ queue' = QueueAfterRead /\ stop' = stop
      BY <1>1, <2>2 DEF PollRead
    <3>2. poller' \in Poller /\ poller'.status = status /\ poller'.round = rounds /\ poller'.pc = "skills"
      BY <3>1, AfterReadIs DEF Poller
    <3> QED BY <3>1, <3>2, <1>r, AfterReadIs DEF PollerFits
  <2> QED BY <2>1, <2>2
<1>2. CASE PollSkills
  <2>1. [poller EXCEPT !.skills_sent = skills] \in Poller
    BY <1>r DEF Poller
  <2>2. queue \o SkillEvents \in Seq(Events)
    BY <1>r, SkillEventsHas
  <2>3. /\ [poller EXCEPT !.skills_sent = skills].status = poller.status
        /\ [poller EXCEPT !.skills_sent = skills].round = poller.round
        /\ poller.pc = "skills" /\ Branch([poller EXCEPT !.skills_sent = skills], queue \o SkillEvents)
    BY <1>2, <1>r DEF PollSkills, Poller
  <2>4. poller.status = "needs_clarification" => poller.round # 0
    BY <2>3, <1>r DEF PollerFits
  <2> QED BY <2>1, <2>2, <2>3, <2>4, <1>b
<1>3. CASE PollFinalSkills
  <2>1. (queue \o SkillEvents) \o <<Plain("complete")>> \in Seq(Events)
    BY <1>r, SkillEventsHas, PlainEvents DEF Types
  <2> QED BY <2>1, <1>3, <1>l, <1>r DEF PollFinalSkills
<1>4. CASE PollFetch
  <2>1. poller.round \in 1..MaxRounds
    BY <1>4, <1>r, StreamAssumption DEF PollFetch, PollerFits, Poller
  <2>2. QuestionsEvent(poller.round) \in Events
    BY <2>1, StreamAssumption DEF QuestionsEvent, Event, Events, Types
  <2>3. poller' \in Poller /\ poller'.pc = "sleeping"
    BY <2>1, <1>4, <1>r DEF PollFetch, Poller
  <2> QED BY <2>2, <2>3, <1>4, <1>r DEF PollFetch, PollerFits
<1>5. CASE PollWake
  BY <1>5, <1>r DEF PollWake, PollerFits, Poller
<1>6. CASE PollStopped \/ PollRaise
  BY <1>6, <1>r, <1>l DEF PollStopped, PollRaise
<1>7. CASE PollDone
  <2>1. Append(queue, Done) \in Seq(Events)
    BY <1>r, PlainEvents DEF Done, Types
  <2> QED BY <2>1, <1>7, <1>r DEF PollDone, PollerFits, Poller
<1>8. CASE PollGone
  <2>1. Append(queue, Plain("error")) \in Seq(Events)
    BY <1>r, PlainEvents DEF Types
  <2> QED BY <2>1, <1>8, <1>r, <1>l DEF PollGone
<1>9. CASE PollFetchNothing
  BY <1>9, <1>r DEF PollFetchNothing, PollerFits, Poller
<1> QED BY <1>1, <1>2, <1>3, <1>4, <1>5, <1>6, <1>7, <1>8, <1>9 DEF PollStep

LEMMA TypeStep == TypeInv /\ [Next]_vars => TypeInv'
<1> SUFFICES ASSUME TypeInv, [Next]_vars PROVE TypeInv'
  OBVIOUS
<1>r. /\ RowTypes /\ PollerFits
      /\ stream \in {"idle", "opened", "live", "closed"} /\ view \in View
      /\ listener \in {"none", "subscribing", "listening", "done"}
      /\ heard \in BOOLEAN /\ stop \in BOOLEAN
      /\ queue \in Seq(Events) /\ out \in Seq(Events)
  BY TypeByParts DEF TypeParts
<1>w. UNCHANGED row => RowTypes'
  BY <1>r DEF row, RowTypes
<1>v. NoView \in View /\ [status |-> status, files |-> files] \in View
  BY <1>r, StreamAssumption DEF NoView, View, Version, RowTypes, Status, Terminal
<1>p. \A pc \in {"none", "poll", "done"} : NewPoller(pc) \in Poller /\ NewPoller(pc).pc = pc
  BY StartingPoller
<1>t. \A type \in Types : <<Plain(type)>> \in Seq(Events)
  BY PlainEvents
<1>0. CASE UNCHANGED vars
  BY <1>0, <1>r, <1>w, TypeByParts DEF TypeParts, vars, client, PollerFits
<1>1. CASE RowStep
  <2>1. UNCHANGED <<client, heard>>
    BY <1>1 DEF RowStep, TaskStart, TaskNextRound, TaskAsk, TaskWriteFiles, TaskMatchSkills,
                TaskFinish, TaskFail, Publish, Exists, Purge
  <2>2. RowTypes'
    BY <1>1, <1>r, RowEffect
  <2> QED BY <2>1, <2>2, <1>r, TypeByParts DEF TypeParts, client, PollerFits
<1>2. CASE TaskAnnounce
  BY <1>2, <1>r, <1>w, TypeByParts DEF TypeParts, TaskAnnounce, client, PollerFits
<1>3. CASE StreamOpen
  BY <1>3, <1>r, <1>w, <1>v, TypeByParts DEF TypeParts, StreamOpen, PollerFits
<1>4. CASE StreamFastPath
  <2>1. view.files \in Version
    BY <1>r DEF View
  <2>2. FileEvents(view.files, {}) \in Seq(Events) /\ SkillEvents \in Seq(Events)
    BY <2>1, FileEventsHas, SkillEventsHas
  <2>3. /\ <<Plain("start")>> \in Seq(Events) /\ <<Plain("error")>> \in Seq(Events)
        /\ <<Plain("complete")>> \in Seq(Events)
    BY <1>t DEF Types
  <2>4. out' \in Seq(Events)
    BY <2>2, <2>3, <1>4 DEF StreamFastPath
  <2> QED BY <2>4, <1>4, <1>r, <1>w, <1>v, TypeByParts DEF TypeParts, StreamFastPath, PollerFits
<1>5. CASE StreamLivePath
  <2>1. out' \in Seq(Events)
    BY <1>5, <1>t DEF StreamLivePath, Types
  <2>2. PollerFits'
    BY <1>5, <1>p DEF StreamLivePath, PollerFits
  <2> QED BY <2>1, <2>2, <1>5, <1>r, <1>w, <1>v, TypeByParts DEF TypeParts, StreamLivePath
<1>6. CASE StreamNext
  <2>1. CASE Head(queue) = Done
    <3>1. PollerFits'
      BY <1>6, <2>1, <1>p DEF StreamNext, StreamClose, PollerFits
    <3>2. <<>> \in Seq(Events)
      OBVIOUS
    <3> QED BY <2>1, <3>1, <3>2, <1>6, <1>r, <1>w, TypeByParts DEF TypeParts, StreamNext, StreamClose
  <2>2. CASE Head(queue) # Done
    <3>1. out' = Append(out, Head(queue)) /\ queue' = Tail(queue) /\ queue # <<>>
      BY <1>6, <2>2 DEF StreamNext
    <3>2. out' \in Seq(Events) /\ queue' \in Seq(Events)
      BY <3>1, <1>r, HeadTailProperties, AppendProperties
    <3> QED BY <2>2, <3>2, <1>6, <1>r, <1>w, TypeByParts DEF TypeParts, StreamNext, PollerFits
  <2> QED BY <2>1, <2>2
<1>7. CASE StreamDisconnect
  <2>1. PollerFits'
    BY <1>7, <1>p DEF StreamDisconnect, StreamClose, PollerFits
  <2>2. <<>> \in Seq(Events)
    OBVIOUS
  <2> QED BY <2>1, <2>2, <1>7, <1>r, <1>w, TypeByParts DEF TypeParts, StreamDisconnect, StreamClose
<1>8. CASE PollStep
  <2>1. PollerAlone
    BY <1>8 DEF PollStep, PollRead, PollGone, PollSkills, PollFinalSkills, PollFetch, PollFetchNothing, PollWake,
                PollStopped, PollRaise, PollDone
  <2>2. PollerFits' /\ queue' \in Seq(Events) /\ stop' \in BOOLEAN
    BY <1>8, PollType
  <2> QED BY <2>1, <2>2, <1>r, <1>w, TypeByParts DEF TypeParts, PollerAlone
<1>9. CASE ListenStep
  <2>1. /\ UNCHANGED <<row, stream, view, poller, heard, out>>
        /\ listener' \in {"listening", "done"} /\ stop' \in {stop, TRUE}
        /\ queue' = queue \/ queue' = Append(queue, Plain("error"))
    BY <1>9 DEF ListenStep, ListenSubscribe, ListenError, ListenStop, ListenRaise
  <2>2. queue' \in Seq(Events)
    BY <2>1, <1>r, PlainEvents DEF Types
  <2> QED BY <2>1, <2>2, <1>r, <1>w, TypeByParts DEF TypeParts, PollerFits
<1> QED
  BY <1>0, <1>1, <1>2, <1>3, <1>4, <1>5, <1>6, <1>7, <1>8, <1>9 DEF Next, RowStep

LEMMA TypeAlways == Spec => []TypeInv
  BY TypeInit, TypeStep, PTL DEF Spec

\* Every variable keeps its type: in particular the poller never records a round beyond
\* MAX_CLARIFICATION_ROUNDS, and only the known events reach the queue and the client.
THEOREM StreamTypeCorrect == Spec => []TypeOK
<1>1. TypeInv => TypeOK
  BY DEF TypeInv
<1> QED BY <1>1, TypeAlways, PTL

-----------------------------------------------------------------------------
(* What the stream tells *)

Success == {"generated", "published"}

\* Everything the stream has said or is about to say.
Told == out \o queue

\* The first i events of s show every file that is set, and the skills.
Covered(s, i) ==
  /\ \A f \in Files : files[f] # 0 => \E n \in 1..attempt : \E j \in 1..i : s[j] = FileEvent(f, n)
  /\ skills => \E j \in 1..i : s[j] = Plain("skills")

CompleteInv(s) == \A i \in 1..Len(s) : s[i] = Plain("complete") => status \in Success /\ Covered(s, i)
ErrorInv(s) == Has(s, Plain("error")) => status \in Terminal \/ gone
OrderInv(s) ==
  \A i, j \in 1..Len(s) :
    i < j /\ s[i].type = "clarification" /\ s[j].type = "clarification" => s[i].which < s[j].which

EventsInv(s) == CompleteInv(s) /\ ErrorInv(s) /\ OrderInv(s)

\* What poller p remembers having told is in s, and rounds come to it in order.
FilesTold(p, s) == \A f \in p.sent_files : \E n \in 1..attempt : Has(s, FileEvent(f, n))
SkillsTold(p, s) == p.skills_sent => Has(s, Plain("skills"))
RoundsTold(p, s) ==
  /\ p.round <= rounds
  /\ \A n \in p.clarification_sent : n <= p.round
  /\ \A i \in 1..Len(s) : s[i].type = "clarification" => s[i].which \in p.clarification_sent

\* What it has read of a terminal row is still so, and it has told the files of that row.
ReadEnd(p) ==
  /\ p.status = "generated" => status \in Success /\ {f \in Files : files[f] # 0} \subseteq p.sent_files
  /\ p.status = "failed" => status = "failed"
ReadInv(p) ==
  /\ p.pc = "fetching" => ~Shown(p)
  /\ p.pc = "final_skills" => p.status = "generated"
  /\ p.pc \in {"skills", "final_skills"} => ReadEnd(p)

PollInv(p, s) == FilesTold(p, s) /\ SkillsTold(p, s) /\ RoundsTold(p, s) /\ ReadInv(p)

\* Nobody speaks before or after the response.
IdleInv ==
  /\ stream # "live" => poller.pc \in {"none", "done"} /\ listener \in {"none", "done"} /\ queue = <<>>
  /\ stream \in {"idle", "opened"} => out = <<>>
ViewInv ==
  stream = "opened" =>
    /\ view.status = "generated" => status \in Success /\ view.files = files
    /\ view.status = "failed" => status = "failed"
HeardInv == heard => status \in Terminal

ToldInv == EventsInv(Told)
PolledInv == stream = "live" => PollInv(poller, Told)

TellInv ==
  /\ ToldInv /\ PolledInv
  /\ IdleInv /\ ViewInv /\ HeardInv

\* Telling more.
LEMMA AddQuiet ==
  ASSUME NEW s \in Seq(Events), NEW t \in Seq(Events), EventsInv(s),
         \A k \in 1..Len(t) : t[k].type \notin {"complete", "error", "clarification"}
  PROVE  EventsInv(s \o t)
<1>1. \A i \in 1..Len(s \o t) :
        \/ i \in 1..Len(s) /\ (s \o t)[i] = s[i]
        \/ (s \o t)[i].type \notin {"complete", "error", "clarification"}
  <2> TAKE i \in 1..Len(s \o t)
  <2>1. CASE i <= Len(s)
    BY <2>1
  <2>2. CASE i > Len(s)
    <3>1. i - Len(s) \in 1..Len(t) /\ (s \o t)[i] = t[i - Len(s)]
      BY <2>2
    <3> QED BY <3>1
  <2> QED BY <2>1, <2>2
<1>2. \A j \in 1..Len(s) : (s \o t)[j] = s[j]
  OBVIOUS
<1>p. Plain("complete").type = "complete" /\ Plain("error").type = "error"
  BY DEF Plain, Event
<1>3. CompleteInv(s \o t)
  <2>1. ASSUME NEW i \in 1..Len(s \o t), (s \o t)[i] = Plain("complete")
        PROVE  status \in Success /\ Covered(s \o t, i)
    <3>1. i \in 1..Len(s) /\ s[i] = Plain("complete")
      BY <2>1, <1>1, <1>p
    <3>2. status \in Success /\ Covered(s, i)
      BY <3>1 DEF EventsInv, CompleteInv
    <3>3. \A j \in 1..i : (s \o t)[j] = s[j]
      BY <3>1, <1>2
    <3> QED BY <3>2, <3>3 DEF Covered
  <2> QED BY <2>1 DEF CompleteInv
<1>4. ErrorInv(s \o t)
  BY <1>1, <1>p DEF EventsInv, ErrorInv, Has
<1>5. OrderInv(s \o t)
  BY <1>1 DEF EventsInv, OrderInv
<1> QED BY <1>3, <1>4, <1>5 DEF EventsInv

\* One more event, at the end.
LEMMA AtEnd ==
  ASSUME NEW s \in Seq(Events), NEW e \in Events
  PROVE  /\ Len(s \o <<e>>) = Len(s) + 1 /\ (s \o <<e>>)[Len(s) + 1] = e /\ Len(s) \in Nat
         /\ \A i \in 1..Len(s) : (s \o <<e>>)[i] = s[i]
         /\ s \o <<e>> \in Seq(Events)
  OBVIOUS

LEMMA AddEnd ==
  ASSUME NEW s \in Seq(Events), NEW type \in {"complete", "error"}, EventsInv(s),
         type = "complete" => status \in Success /\ Covered(s, Len(s)),
         type = "error" => status \in Terminal \/ gone
  PROVE  EventsInv(s \o <<Plain(type)>>)
<1> DEFINE t == s \o <<Plain(type)>>
<1>e. Plain(type) \in Events /\ Plain(type).type = type
  BY PlainEvents DEF Types
<1>1. /\ Len(t) = Len(s) + 1 /\ t[Len(s) + 1] = Plain(type) /\ Len(s) \in Nat
      /\ \A i \in 1..Len(s) : t[i] = s[i]
  BY <1>e, AtEnd
<1> HIDE DEF t
<1>c. Plain("complete").type = "complete" /\ Plain("error").type = "error"
  BY DEF Plain, Event
<1>2. CompleteInv(t)
  <2>1. ASSUME NEW i \in 1..Len(t), t[i] = Plain("complete")
        PROVE  status \in Success /\ Covered(t, i)
    <3>1. CASE i \in 1..Len(s)
      <4>1. status \in Success /\ Covered(s, i)
        BY <2>1, <3>1, <1>1 DEF EventsInv, CompleteInv
      <4>2. \A j \in 1..i : t[j] = s[j]
        BY <3>1, <1>1
      <4> QED BY <4>1, <4>2 DEF Covered
    <3>2. CASE i = Len(s) + 1
      <4>1. type = "complete"
        BY <2>1, <3>2, <1>1, <1>e, <1>c
      <4>2. \A j \in 1..Len(s) : t[j] = s[j] /\ j \in 1..i
        BY <3>2, <1>1
      <4> QED BY <4>1, <4>2 DEF Covered
    <3> QED BY <3>1, <3>2, <1>1
  <2> QED BY <2>1 DEF CompleteInv
<1>3. ErrorInv(t)
  <2>1. ASSUME NEW i \in 1..Len(t), t[i] = Plain("error") PROVE status \in Terminal \/ gone
    <3>1. CASE i \in 1..Len(s)
      BY <2>1, <3>1, <1>1 DEF EventsInv, ErrorInv, Has
    <3>2. CASE i = Len(s) + 1
      BY <2>1, <3>2, <1>1, <1>e, <1>c
    <3> QED BY <3>1, <3>2, <1>1
  <2> QED BY <2>1 DEF ErrorInv, Has
<1>4. OrderInv(t)
  <2>1. \A i \in 1..Len(t) : t[i].type = "clarification" => i \in 1..Len(s) /\ t[i] = s[i]
    <3> TAKE i \in 1..Len(t)
    <3>1. CASE i = Len(s) + 1
      BY <3>1, <1>1, <1>e
    <3> QED BY <3>1, <1>1
  <2> QED BY <2>1 DEF EventsInv, OrderInv
<1> QED BY <1>2, <1>3, <1>4 DEF EventsInv, t

LEMMA AddQuestions ==
  ASSUME NEW s \in Seq(Events), NEW n \in Nat, EventsInv(s),
         \A i \in 1..Len(s) : s[i].type = "clarification" => s[i].which < n
  PROVE  EventsInv(s \o <<QuestionsEvent(n)>>)
<1> DEFINE t == s \o <<QuestionsEvent(n)>>
<1>e. /\ QuestionsEvent(n) \in Events /\ QuestionsEvent(n).type = "clarification"
      /\ QuestionsEvent(n).which = n
  BY DEF QuestionsEvent, Event, Events, Types
<1>1. /\ Len(t) = Len(s) + 1 /\ t[Len(s) + 1] = QuestionsEvent(n) /\ Len(s) \in Nat
      /\ \A i \in 1..Len(s) : t[i] = s[i]
  BY <1>e, AtEnd
<1> HIDE DEF t
<1>c. Plain("complete").type = "complete" /\ Plain("error").type = "error"
  BY DEF Plain, Event
<1>q. \A i \in 1..Len(t) : i \in 1..Len(s) \/ (i = Len(s) + 1 /\ t[i] = QuestionsEvent(n))
  BY <1>1
<1>2. CompleteInv(t)
  <2>1. ASSUME NEW i \in 1..Len(t), t[i] = Plain("complete")
        PROVE  status \in Success /\ Covered(t, i)
    <3>1. i \in 1..Len(s)
      BY <2>1, <1>q, <1>c, <1>e
    <3>2. status \in Success /\ Covered(s, i)
      BY <2>1, <3>1, <1>1 DEF EventsInv, CompleteInv
    <3>3. \A j \in 1..i : t[j] = s[j]
      BY <3>1, <1>1
    <3> QED BY <3>2, <3>3 DEF Covered
  <2> QED BY <2>1 DEF CompleteInv
<1>3. ErrorInv(t)
  BY <1>q, <1>1, <1>c, <1>e DEF EventsInv, ErrorInv, Has
<1>4. OrderInv(t)
  <2>1. ASSUME NEW i \in 1..Len(t), NEW j \in 1..Len(t), i < j,
               t[i].type = "clarification", t[j].type = "clarification"
        PROVE  t[i].which < t[j].which
    <3>1. i \in 1..Len(s) /\ t[i] = s[i]
      BY <2>1, <1>1
    <3>2. CASE j \in 1..Len(s)
      BY <2>1, <3>1, <3>2, <1>1 DEF EventsInv, OrderInv
    <3>3. CASE j = Len(s) + 1
      BY <2>1, <3>1, <3>3, <1>1, <1>e
    <3> QED BY <3>2, <3>3, <1>1
  <2> QED BY <2>1 DEF OrderInv
<1> QED BY <1>2, <1>3, <1>4 DEF EventsInv, t

\* Telling less: what is dropped from the queue was the end of it.
LEMMA ToldBefore ==
  ASSUME NEW s \in Seq(Events), NEW t \in Seq(Events), EventsInv(s \o t)
  PROVE  EventsInv(s)
<1>1. \A i \in 1..Len(s) : i \in 1..Len(s \o t) /\ (s \o t)[i] = s[i]
  OBVIOUS
<1>2. CompleteInv(s)
  <2>1. ASSUME NEW i \in 1..Len(s), s[i] = Plain("complete")
        PROVE  status \in Success /\ Covered(s, i)
    <3>1. status \in Success /\ Covered(s \o t, i)
      BY <2>1, <1>1 DEF EventsInv, CompleteInv
    <3>2. \A j \in 1..i : (s \o t)[j] = s[j]
      BY <1>1
    <3> QED BY <3>1, <3>2 DEF Covered
  <2> QED BY <2>1 DEF CompleteInv
<1>3. ErrorInv(s) /\ OrderInv(s)
  BY <1>1 DEF EventsInv, ErrorInv, OrderInv, Has
<1> QED BY <1>2, <1>3 DEF EventsInv

LEMMA AfterMore ==
  ASSUME NEW s \in Seq(Events), NEW t \in Seq(Events)
  PROVE  /\ Len(s \o t) = Len(s) + Len(t)
         /\ \A i \in 1..Len(s) : (s \o t)[i] = s[i]
         /\ \A i \in 1..Len(s \o t) : i \in 1..Len(s) \/ (i - Len(s) \in 1..Len(t) /\ (s \o t)[i] = t[i - Len(s)])
  OBVIOUS

\* What the poller has told stays told.
LEMMA FilesStayTold ==
  ASSUME NEW s \in Seq(Events), NEW t \in Seq(Events), NEW p, FilesTold(p, s)
  PROVE  FilesTold(p, s \o t)
<1>1. \A e : Has(s, e) => Has(s \o t, e)
  BY HasConcat
<1> QED BY <1>1 DEF FilesTold

LEMMA SkillsStayTold ==
  ASSUME NEW s \in Seq(Events), NEW t \in Seq(Events), NEW p, SkillsTold(p, s)
  PROVE  SkillsTold(p, s \o t)
  BY HasConcat DEF SkillsTold

LEMMA RoundsStayTold ==
  ASSUME NEW s \in Seq(Events), NEW t \in Seq(Events), NEW p, RoundsTold(p, s),
         \A k \in 1..Len(t) : t[k].type # "clarification"
  PROVE  RoundsTold(p, s \o t)
<1>1. \A i \in 1..Len(s \o t) : (s \o t)[i].type = "clarification" =>
        i \in 1..Len(s) /\ (s \o t)[i] = s[i]
  BY AfterMore
<1> QED BY <1>1 DEF RoundsTold

\* The poller's memory but for its place in the loop.
Remembers(p, s) == FilesTold(p, s) /\ SkillsTold(p, s) /\ RoundsTold(p, s)

LEMMA StaysTold ==
  ASSUME NEW s \in Seq(Events), NEW t \in Seq(Events), NEW p, Remembers(p, s),
         \A k \in 1..Len(t) : t[k].type # "clarification"
  PROVE  Remembers(p, s \o t)
  BY FilesStayTold, SkillsStayTold, RoundsStayTold DEF Remembers

LEMMA OneEvent ==
  ASSUME NEW e
  PROVE  Len(<<e>>) = 1 /\ \A k \in 1..Len(<<e>>) : <<e>>[k] = e
  OBVIOUS

LEMMA FileEventsAreQuiet ==
  ASSUME NEW version \in Version, NEW sent, NEW k \in 1..Len(FileEvents(version, sent))
  PROVE  FileEvents(version, sent)[k].type = "file"
<1>1. Has(FileEvents(version, sent), FileEvents(version, sent)[k])
  BY DEF Has
<1>2. PICK f \in Files : FileEvents(version, sent)[k] = FileEvent(f, version[f])
  BY <1>1, FileEventsHas
<1> QED BY <1>2 DEF FileEvent, Event

LEMMA SkillEventsAreQuiet ==
  ASSUME NEW k \in 1..Len(SkillEvents)
  PROVE  SkillEvents[k].type = "skills"
<1>1. Has(SkillEvents, SkillEvents[k])
  BY DEF Has
<1>2. SkillEvents[k] = Plain("skills")
  BY <1>1, SkillEventsHas
<1> QED BY <1>2 DEF Plain, Event

\* A poller that has told everything may say "complete".
LEMMA AllTold ==
  ASSUME NEW s \in Seq(Events), NEW p, FilesTold(p, s), p.status = "generated", ReadEnd(p),
         skills => Has(s, Plain("skills"))
  PROVE  status \in Success /\ Covered(s, Len(s))
<1>1. status \in Success /\ {f \in Files : files[f] # 0} \subseteq p.sent_files
  BY DEF ReadEnd
<1>2. ASSUME NEW f \in Files, files[f] # 0
      PROVE  \E n \in 1..attempt : \E j \in 1..Len(s) : s[j] = FileEvent(f, n)
  BY <1>1, <1>2 DEF FilesTold, Has
<1> QED BY <1>1, <1>2 DEF Covered, Has

\* The branch on the status, over the queue q with o already received.
LEMMA BranchTells ==
  ASSUME NEW p \in Poller, NEW o \in Seq(Events), NEW q \in Seq(Events), Branch(p, q),
         Remembers(p, o \o q), ReadEnd(p), EventsInv(o \o q)
  PROVE  EventsInv(o \o queue') /\ PollInv(poller', o \o queue')
<1>b. /\ poller' = [p EXCEPT !.pc = poller'.pc] /\ poller' \in Poller
      /\ poller'.pc \in {"sleeping", "fetching", "final_skills", "closing"}
      /\ poller'.pc = "fetching" => p.status = "needs_clarification" /\ ~Shown(p)
      /\ poller'.pc = "final_skills" => p.status = "generated"
      /\ \/ queue' = q
         \/ queue' = q \o <<Plain("complete")>> /\ p.status = "generated" /\ p.skills_sent
         \/ queue' = q \o <<Plain("error")>> /\ p.status = "failed"
  BY BranchEffect
<1>f. /\ poller'.status = p.status /\ poller'.round = p.round /\ poller'.sent_files = p.sent_files
      /\ poller'.skills_sent = p.skills_sent /\ poller'.clarification_sent = p.clarification_sent
  BY <1>b DEF Poller
<1>s. o \o q \in Seq(Events)
  OBVIOUS
<1>e. \A type \in {"complete", "error"} :
        /\ <<Plain(type)>> \in Seq(Events)
        /\ \A k \in 1..Len(<<Plain(type)>>) : <<Plain(type)>>[k].type # "clarification"
        /\ o \o (q \o <<Plain(type)>>) = (o \o q) \o <<Plain(type)>>
  <2> TAKE type \in {"complete", "error"}
  <2>1. Plain(type) \in Events /\ Plain(type).type = type
    BY PlainEvents DEF Types
  <2>2. <<Plain(type)>> \in Seq(Events)
    BY <2>1
  <2> QED BY <2>1, <2>2, OneEvent, Regrouped
<1>r. ReadInv(poller')
  BY <1>b, <1>f DEF ReadInv, Shown, ReadEnd
<1>m. ASSUME NEW x, Remembers(p, x) PROVE PollInv(poller', x)
  BY <1>m, <1>f, <1>r DEF Remembers, PollInv, FilesTold, SkillsTold, RoundsTold
<1>1. CASE queue' = q
  BY <1>1, <1>m
<1>2. CASE queue' = q \o <<Plain("complete")>> /\ p.status = "generated" /\ p.skills_sent
  <2>1. status \in Success /\ Covered(o \o q, Len(o \o q))
    BY <1>2, <1>s, AllTold DEF Remembers, SkillsTold
  <2>2. EventsInv((o \o q) \o <<Plain("complete")>>)
    BY <2>1, <1>s, AddEnd
  <2>3. Remembers(p, (o \o q) \o <<Plain("complete")>>)
    BY <1>e, <1>s, StaysTold
  <2> QED BY <2>2, <2>3, <1>2, <1>e, <1>m
<1>3. CASE queue' = q \o <<Plain("error")>> /\ p.status = "failed"
  <2>1. status \in Terminal
    BY <1>3 DEF ReadEnd, Terminal
  <2>2. EventsInv((o \o q) \o <<Plain("error")>>)
    BY <2>1, <1>s, AddEnd
  <2>3. Remembers(p, (o \o q) \o <<Plain("error")>>)
    BY <1>e, <1>s, StaysTold
  <2> QED BY <2>2, <2>3, <1>3, <1>e, <1>m
<1> QED BY <1>1, <1>2, <1>3, <1>b

\* With the row as it was, what held of these events holds of them still.
LEMMA SameRow ==
  ASSUME UNCHANGED row, NEW x, Told' = x, EventsInv(x)
  PROVE  ToldInv'
<1>1. UNCHANGED <<status, files, skills, attempt, gone>>
  BY DEF row
<1>2. CompleteInv(x)
  BY DEF EventsInv
<1>3. CompleteInv(Told)'
  BY <1>1, <1>2 DEF CompleteInv, Covered, Success
<1>4. ErrorInv(Told)'
  BY <1>1 DEF EventsInv, ErrorInv, Has
<1>5. OrderInv(Told)'
  BY DEF EventsInv, OrderInv
<1> QED BY <1>3, <1>4, <1>5 DEF ToldInv, EventsInv

LEMMA SamePolled ==
  ASSUME UNCHANGED row, NEW x, Told' = x, PollInv(poller', x)
  PROVE  PolledInv'
<1>1. UNCHANGED <<status, rounds, files, skills, attempt>>
  BY DEF row
<1>2. FilesTold(poller, Told)'
  BY <1>1 DEF PollInv, FilesTold, Has
<1>3. SkillsTold(poller, Told)'
  BY <1>1 DEF PollInv, SkillsTold, Has
<1>4. RoundsTold(poller, Told)'
  BY <1>1 DEF PollInv, RoundsTold
<1>5. ReadInv(poller)'
  BY <1>1 DEF PollInv, ReadInv, ReadEnd, Success, Shown
<1> QED BY <1>2, <1>3, <1>4, <1>5 DEF PolledInv, PollInv

LEMMA PollTells ==
  ASSUME TypeInv, ToldInv, PolledInv, IdleInv, PollStep
  PROVE  ToldInv' /\ PolledInv'
<1>r. /\ poller \in Poller /\ queue \in Seq(Events) /\ out \in Seq(Events) /\ skills \in BOOLEAN
      /\ files \in Version /\ status \in Status /\ rounds \in 0..MaxRounds
      /\ out \o queue \in Seq(Events) /\ \A f \in Files : files[f] <= attempt /\ attempt \in Nat
  BY StreamAssumption DEF TypeInv, TypeOK
<1>a. UNCHANGED row /\ out' = out /\ stream' = stream /\ poller.pc \notin {"none", "done"}
  BY DEF PollStep, PollRead, PollGone, PollSkills, PollFinalSkills, PollFetch, PollFetchNothing, PollWake,
         PollStopped, PollRaise, PollDone, PollerAlone
<1>i. stream = "live" /\ PollInv(poller, out \o queue) /\ EventsInv(out \o queue)
  BY <1>a DEF IdleInv, PolledInv, ToldInv, Told
<1>m. Remembers(poller, out \o queue) /\ ReadInv(poller)
  BY <1>i DEF PollInv, Remembers
<1>t. ASSUME EventsInv(out \o queue'), PollInv(poller', out \o queue') PROVE ToldInv' /\ PolledInv'
  <2>1. PICK x : x = out \o queue'
    OBVIOUS
  <2>2. Told' = x /\ EventsInv(x) /\ PollInv(poller', x)
    BY <2>1, <1>t, <1>a DEF Told
  <2> QED BY <2>2, <1>a, SameRow, SamePolled
<1>p. ASSUME NEW pc \in {"sleeping", "poll", "closing", "done"}, poller' = [poller EXCEPT !.pc = pc],
             NEW x, Remembers(poller, x)
      PROVE  PollInv(poller', x)
  <2>1. /\ poller'.status = poller.status /\ poller'.round = poller.round
        /\ poller'.sent_files = poller.sent_files /\ poller'.skills_sent = poller.skills_sent
        /\ poller'.clarification_sent = poller.clarification_sent /\ poller'.pc = pc
    BY <1>p, <1>r DEF Poller
  <2> QED BY <2>1, <1>p DEF Remembers, PollInv, FilesTold, SkillsTold, RoundsTold, ReadInv
\* The read of the row.
<1>f. FileEvents(files, poller.sent_files) \in Seq(Events)
  BY <1>r, FileEventsHas
<1>q. out \o QueueAfterRead = (out \o queue) \o FileEvents(files, poller.sent_files)
  BY <1>r, <1>f, Regrouped DEF QueueAfterRead
<1>8. /\ EventsInv(out \o QueueAfterRead) /\ Remembers(AfterRead, out \o QueueAfterRead)
      /\ ReadEnd(AfterRead)
  <2>1. \A k \in 1..Len(FileEvents(files, poller.sent_files)) :
          FileEvents(files, poller.sent_files)[k].type = "file"
    BY <1>r, FileEventsAreQuiet
  <2> DEFINE s == (out \o queue) \o FileEvents(files, poller.sent_files)
  <2>2. EventsInv(s)
    BY <2>1, <1>r, <1>f, <1>i, AddQuiet
  <2>3. Remembers(poller, s)
    BY <2>1, <1>r, <1>f, <1>m, StaysTold
  <2>4. \A f \in Files : files[f] # 0 /\ f \notin poller.sent_files => Has(s, FileEvent(f, files[f]))
    BY <1>r, <1>f, FileEventsHas, HasConcat
  <2>5. \A f \in Files : files[f] # 0 => files[f] \in 1..attempt
    BY <1>r, StreamAssumption DEF Version
  <2> HIDE DEF s
  <2>6. FilesTold(AfterRead, s)
    <3>1. ASSUME NEW f \in AfterRead.sent_files PROVE \E n \in 1..attempt : Has(s, FileEvent(f, n))
      <4>1. CASE f \in poller.sent_files
        BY <4>1, <2>3 DEF Remembers, FilesTold
      <4>2. CASE f \notin poller.sent_files
        <5>1. f \in Files /\ files[f] # 0
          BY <3>1, <4>2, AfterReadIs
        <5> QED BY <5>1, <4>2, <2>4, <2>5
      <4> QED BY <4>1, <4>2
    <3> QED BY <3>1 DEF FilesTold
  <2>7. SkillsTold(AfterRead, s)
    BY <2>3, AfterReadIs DEF Remembers, SkillsTold
  <2>8. RoundsTold(AfterRead, s)
    <3>1. poller.round \in Nat /\ rounds \in Nat /\ poller.clarification_sent \subseteq Nat
      BY <1>r, StreamAssumption DEF Poller
    <3>2. /\ AfterRead.round = rounds /\ AfterRead.clarification_sent = poller.clarification_sent
      BY AfterReadIs
    <3> QED BY <3>1, <3>2, <2>3 DEF Remembers, RoundsTold
  <2>9. ReadEnd(AfterRead)
    <3>1. /\ AfterRead.status = status
          /\ AfterRead.sent_files = poller.sent_files \cup {f \in Files : files[f] # 0}
      BY AfterReadIs
    <3> QED BY <3>1 DEF ReadEnd, Success
  <2> QED BY <2>2, <2>6, <2>7, <2>8, <2>9, <1>q DEF s, Remembers
<1>1. CASE PollRead
  <2>1. CASE poller.skills_sent
    <3>1. Branch(AfterRead, QueueAfterRead)
      BY <1>1, <2>1 DEF PollRead
    <3>2. EventsInv(out \o queue') /\ PollInv(poller', out \o queue')
      BY <3>1, <1>8, <1>r, AfterReadIs, BranchTells
    <3> QED BY <3>2, <1>t
  <2>2. CASE ~poller.skills_sent
    <3>1. poller' = [AfterRead EXCEPT !.pc = "skills"] /\ queue' = QueueAfterRead
      BY <1>1, <2>2 DEF PollRead
    <3>2. /\ poller'.status = AfterRead.status /\ poller'.round = AfterRead.round
          /\ poller'.sent_files = AfterRead.sent_files /\ poller'.skills_sent = AfterRead.skills_sent
          /\ poller'.clarification_sent = AfterRead.clarification_sent /\ poller'.pc = "skills"
      BY <3>1, AfterReadIs DEF Poller
    <3>3. ReadInv(poller')
      BY <3>2, <1>8 DEF ReadInv, ReadEnd
    <3>4. ASSUME NEW x, Remembers(AfterRead, x) PROVE PollInv(poller', x)
      BY <3>2, <3>3, <3>4 DEF Remembers, PollInv, FilesTold, SkillsTold, RoundsTold
    <3> QED BY <3>1, <3>4, <1>8, <1>t
  <2> QED BY <2>1, <2>2
\* The skills.
<1>k. SkillEvents \in Seq(Events) /\ \A k \in 1..Len(SkillEvents) : SkillEvents[k].type = "skills"
  BY SkillEventsHas, SkillEventsAreQuiet
<1>9. /\ out \o (queue \o SkillEvents) = (out \o queue) \o SkillEvents
      /\ EventsInv((out \o queue) \o SkillEvents) /\ Remembers(poller, (out \o queue) \o SkillEvents)
      /\ skills => Has((out \o queue) \o SkillEvents, Plain("skills"))
      /\ queue \o SkillEvents \in Seq(Events)
  <2>1. EventsInv((out \o queue) \o SkillEvents)
    BY <1>k, <1>r, <1>i, AddQuiet
  <2>2. Remembers(poller, (out \o queue) \o SkillEvents)
    BY <1>k, <1>r, <1>m, StaysTold
  <2>3. skills => Has((out \o queue) \o SkillEvents, Plain("skills"))
    BY <1>k, <1>r, SkillEventsHas, HasConcat
  <2>4. out \o (queue \o SkillEvents) = (out \o queue) \o SkillEvents /\ queue \o SkillEvents \in Seq(Events)
    BY <1>k, <1>r, Regrouped
  <2> QED BY <2>1, <2>2, <2>3, <2>4
<1>2. CASE PollSkills
  <2> DEFINE p == [poller EXCEPT !.skills_sent = skills]
  <2>1. p \in Poller /\ Branch(p, queue \o SkillEvents) /\ poller.pc = "skills"
    BY <1>2, <1>r DEF PollSkills, Poller
  <2>2. /\ p.status = poller.status /\ p.round = poller.round /\ p.sent_files = poller.sent_files
        /\ p.skills_sent = skills /\ p.clarification_sent = poller.clarification_sent
    BY <1>r DEF Poller
  <2> HIDE DEF p
  <2>3. ReadEnd(p)
    BY <2>1, <2>2, <1>m DEF ReadInv, ReadEnd
  <2>4. ASSUME NEW x, Remembers(poller, x), skills => Has(x, Plain("skills")) PROVE Remembers(p, x)
    BY <2>2, <2>4 DEF Remembers, FilesTold, SkillsTold, RoundsTold
  <2>5. Remembers(p, out \o (queue \o SkillEvents)) /\ EventsInv(out \o (queue \o SkillEvents))
    BY <2>4, <1>9
  <2>6. EventsInv(out \o queue') /\ PollInv(poller', out \o queue')
    BY <2>1, <2>3, <2>5, <1>9, <1>r, BranchTells
  <2> QED BY <2>6, <1>t
<1>3. CASE PollFinalSkills
  <2>1. /\ poller' = [poller EXCEPT !.pc = "closing"] /\ poller.pc = "final_skills"
        /\ queue' = (queue \o SkillEvents) \o <<Plain("complete")>>
    BY <1>3 DEF PollFinalSkills, Leave
  <2>2. poller.status = "generated" /\ ReadEnd(poller)
    BY <2>1, <1>m DEF ReadInv
  <2> DEFINE s == (out \o queue) \o SkillEvents
  <2>3. s \in Seq(Events)
    BY <1>r, <1>k
  <2>e. /\ Plain("complete") \in Events /\ <<Plain("complete")>> \in Seq(Events)
        /\ Plain("complete").type = "complete"
    BY PlainEvents DEF Types
  <2>4. out \o queue' = s \o <<Plain("complete")>>
    BY SMTT(30), <2>1, <2>e, <1>9, <1>r, Regrouped
  <2>5. EventsInv(s) /\ Remembers(poller, s) /\ (skills => Has(s, Plain("skills")))
    BY <1>9
  <2> HIDE DEF s
  <2>6. status \in Success /\ Covered(s, Len(s))
    BY <2>2, <2>3, <2>5, AllTold DEF Remembers
  <2>7. EventsInv(s \o <<Plain("complete")>>)
    BY <2>6, <2>3, <2>5, AddEnd
  <2>8. Remembers(poller, s \o <<Plain("complete")>>)
    BY <2>3, <2>5, <2>e, OneEvent, StaysTold
  <2> QED BY <2>1, <2>4, <2>7, <2>8, <1>p, <1>t
\* The questions of a round that was not shown.
<1>4. CASE PollFetch
  <2>1. /\ poller' = [poller EXCEPT !.pc = "sleeping", !.clarification_sent = @ \cup {poller.round}]
        /\ queue' = Append(queue, QuestionsEvent(poller.round)) /\ poller.pc = "fetching"
    BY <1>4 DEF PollFetch
  <2>2. /\ poller'.status = poller.status /\ poller'.round = poller.round
        /\ poller'.sent_files = poller.sent_files /\ poller'.skills_sent = poller.skills_sent
        /\ poller'.clarification_sent = poller.clarification_sent \cup {poller.round}
        /\ poller'.pc = "sleeping"
    BY <2>1, <1>r DEF Poller
  <2>n. poller.round \in Nat /\ poller.clarification_sent \subseteq Nat
    BY <1>r, StreamAssumption DEF Poller
  <2>e. /\ QuestionsEvent(poller.round) \in Events /\ QuestionsEvent(poller.round).type = "clarification"
        /\ QuestionsEvent(poller.round).which = poller.round
        /\ <<QuestionsEvent(poller.round)>> \in Seq(Events)
    BY <2>n DEF QuestionsEvent, Event, Events, Types
  <2> DEFINE s == out \o queue
             e == QuestionsEvent(poller.round)
  <2>3. s \in Seq(Events) /\ EventsInv(s) /\ Remembers(poller, s)
    BY <1>r, <1>i, <1>m
  <2>4. out \o queue' = s \o <<e>>
    BY <2>1, <2>e, <1>r, AppendIsConcat, Regrouped
  <2> HIDE DEF s, e
  <2>5. poller.round \notin poller.clarification_sent
    BY <2>1, <1>m DEF ReadInv, Shown
  <2>6. \A i \in 1..Len(s) : s[i].type = "clarification" => s[i].which < poller.round
    BY <2>3, <2>5, <2>n DEF Remembers, RoundsTold
  <2>7. EventsInv(s \o <<e>>)
    BY <2>3, <2>6, <2>n, AddQuestions DEF e
  <2>8. FilesTold(poller', s \o <<e>>) /\ SkillsTold(poller', s \o <<e>>)
    <3>1. FilesTold(poller, s \o <<e>>) /\ SkillsTold(poller, s \o <<e>>)
      BY <2>3, <2>e, FilesStayTold, SkillsStayTold DEF Remembers, e
    <3> QED BY <3>1, <2>2 DEF FilesTold, SkillsTold
  <2>9. RoundsTold(poller', s \o <<e>>)
    <3>1. RoundsTold(poller, s)
      BY <2>3 DEF Remembers
    <3>2. /\ Len(s \o <<e>>) = Len(s) + 1 /\ (s \o <<e>>)[Len(s) + 1] = e /\ Len(s) \in Nat
          /\ \A i \in 1..Len(s) : (s \o <<e>>)[i] = s[i]
      BY <2>3, <2>e, AtEnd DEF e
    <3>3. ASSUME NEW i \in 1..Len(s \o <<e>>), (s \o <<e>>)[i].type = "clarification"
          PROVE  (s \o <<e>>)[i].which \in poller'.clarification_sent
      <4>1. CASE i \in 1..Len(s)
        BY <4>1, <3>1, <3>2, <3>3, <2>2 DEF RoundsTold
      <4>2. CASE i = Len(s) + 1
        BY <4>2, <3>2, <2>e, <2>2 DEF e
      <4> QED BY <4>1, <4>2, <3>2
    <3>4. poller'.round <= rounds /\ \A n \in poller'.clarification_sent : n <= poller'.round
      BY <3>1, <2>2, <2>n DEF RoundsTold
    <3> QED BY <3>3, <3>4 DEF RoundsTold
  <2>10. ReadInv(poller')
    BY <2>2 DEF ReadInv
  <2> QED BY <2>4, <2>7, <2>8, <2>9, <2>10, <1>t DEF PollInv
<1>5. CASE PollWake
  BY <1>5, <1>i, <1>m, <1>p, <1>t DEF PollWake
<1>6. CASE PollStopped
  BY <1>6, <1>i, <1>m, <1>p, <1>t DEF PollStopped, Leave
<1>7. CASE PollRaise
  BY <1>7, <1>i, <1>m, <1>p, <1>t DEF PollRaise, Leave
<1>11. CASE PollFetchNothing
  BY <1>11, <1>i, <1>m, <1>p, <1>t DEF PollFetchNothing
<1>12. CASE PollGone
  <2>1. poller' = [poller EXCEPT !.pc = "closing"] /\ queue' = Append(queue, Plain("error")) /\ gone
    BY <1>12 DEF PollGone, Leave
  <2>2. /\ Plain("error") \in Events /\ Plain("error").type = "error"
        /\ <<Plain("error")>> \in Seq(Events)
    BY PlainEvents DEF Types
  <2>3. out \o queue' = (out \o queue) \o <<Plain("error")>>
    BY <2>1, <2>2, <1>r, AppendIsConcat, Regrouped
  <2>4. EventsInv((out \o queue) \o <<Plain("error")>>)
    BY <2>1, <1>r, <1>i, AddEnd
  <2>5. Remembers(poller, (out \o queue) \o <<Plain("error")>>)
    BY <2>2, <1>r, <1>m, OneEvent, StaysTold
  <2> QED BY <2>1, <2>3, <2>4, <2>5, <1>p, <1>t
<1>10. CASE PollDone
  <2>1. poller' = [poller EXCEPT !.pc = "done"] /\ queue' = Append(queue, Done)
    BY <1>10 DEF PollDone
  <2>2. Done \in Events /\ Done.type = "_DONE" /\ <<Done>> \in Seq(Events)
    BY PlainEvents DEF Done, Types
  <2>3. out \o queue' = (out \o queue) \o <<Done>>
    BY <2>1, <2>2, <1>r, AppendIsConcat, Regrouped
  <2>4. EventsInv((out \o queue) \o <<Done>>)
    BY <2>2, <1>r, <1>i, OneEvent, AddQuiet
  <2>5. Remembers(poller, (out \o queue) \o <<Done>>)
    BY <2>2, <1>r, <1>m, OneEvent, StaysTold
  <2> QED BY <2>1, <2>3, <2>4, <2>5, <1>p, <1>t
<1> QED BY <1>1, <1>2, <1>3, <1>4, <1>5, <1>6, <1>7, <1>10, <1>11, <1>12 DEF PollStep

\* The row moves on: what was said of it stays true.
LEMMA RowTells ==
  ASSUME TypeInv, TellInv, RowStep
  PROVE  TellInv'
<1>r. /\ poller \in Poller /\ status \in Status /\ rounds \in Nat /\ attempt \in Nat /\ attempt' \in Nat
      /\ rounds' \in Nat /\ RowMoves
  BY TypeByParts, RowEffect, StreamAssumption DEF TypeParts, PollerFits, RowTypes
<1>u. UNCHANGED <<client, heard>>
  BY DEF RowStep, TaskStart, TaskNextRound, TaskAsk, TaskWriteFiles, TaskMatchSkills,
         TaskFinish, TaskFail, Publish, Exists, Purge
<1>v. UNCHANGED <<stream, view, poller, listener, stop, queue, out, heard>> /\ Told' = Told
  BY <1>u DEF client, Told
<1>n. poller.round \in Nat
  BY <1>r, StreamAssumption DEF Poller
<1>m. /\ rounds <= rounds' /\ 1..attempt \subseteq 1..attempt' /\ (status \in Terminal => status' \in Terminal)
      /\ status = "failed" => status' = "failed"
      /\ status \in Success =>
           status' \in Success /\ files' = files /\ (skills' => skills) /\ attempt' = attempt
      /\ gone => gone'
  BY <1>r DEF RowMoves, Success
<1>1. ToldInv'
  <2>1. CompleteInv(Told) /\ ErrorInv(Told) /\ OrderInv(Told)
    BY DEF TellInv, ToldInv, EventsInv
  <2>2. CompleteInv(Told)'
    BY <2>1, <1>m, <1>v DEF CompleteInv, Covered
  <2>3. ErrorInv(Told)'
    BY <2>1, <1>m, <1>v DEF ErrorInv, Has
  <2>4. OrderInv(Told)'
    BY <2>1, <1>v DEF OrderInv
  <2> QED BY <2>2, <2>3, <2>4 DEF ToldInv, EventsInv
<1>2. PolledInv'
  <2>0. SUFFICES ASSUME stream = "live" PROVE PollInv(poller, Told)'
    BY <1>v DEF PolledInv
  <2>1. FilesTold(poller, Told) /\ SkillsTold(poller, Told) /\ RoundsTold(poller, Told) /\ ReadInv(poller)
    BY <2>0 DEF TellInv, PolledInv, PollInv
  <2>2. FilesTold(poller, Told)'
    <3>1. ASSUME NEW f \in poller.sent_files
          PROVE  \E n \in 1..attempt' : \E i \in 1..Len(Told) : Told[i] = FileEvent(f, n)
      <4>1. PICK n \in 1..attempt : \E i \in 1..Len(Told) : Told[i] = FileEvent(f, n)
        BY <2>1, <3>1 DEF FilesTold, Has
      <4> QED BY <4>1, <1>m
    <3> QED BY <3>1, <1>v DEF FilesTold, Has
  <2>3. SkillsTold(poller, Told)'
    BY <2>1, <1>v DEF SkillsTold, Has
  <2>4. RoundsTold(poller, Told)'
    BY <2>1, <1>v, <1>m, <1>n, <1>r DEF RoundsTold
  <2>5. ReadInv(poller)'
    BY <2>1, <1>v, <1>m DEF ReadInv, ReadEnd, Shown
  <2> QED BY <2>2, <2>3, <2>4, <2>5 DEF PollInv
<1>3. IdleInv' /\ HeardInv'
  BY <1>v, <1>m DEF TellInv, IdleInv, HeardInv
<1>4. ViewInv'
  BY <1>v, <1>m DEF TellInv, ViewInv
<1> QED BY <1>1, <1>2, <1>3, <1>4 DEF TellInv

LEMMA NothingTold ==
  \A t \in Types : EventsInv(<<>>) /\ (t \notin {"complete", "error"} => EventsInv(<<Plain(t)>>))
<1>1. Len(<<>>) = 0
  OBVIOUS
<1>2. EventsInv(<<>>)
  BY <1>1 DEF EventsInv, CompleteInv, ErrorInv, OrderInv, Has
<1>3. ASSUME NEW t \in Types, t \notin {"complete", "error"} PROVE EventsInv(<<Plain(t)>>)
  <2>1. Plain(t).type = t /\ Plain("complete").type = "complete" /\ Plain("error").type = "error"
    BY PlainEvents DEF Types
  <2>2. Len(<<Plain(t)>>) = 1 /\ <<Plain(t)>>[1] = Plain(t)
    OBVIOUS
  <2>3. \A i \in 1..1 : i = 1
    OBVIOUS
  <2>4. CompleteInv(<<Plain(t)>>) /\ ErrorInv(<<Plain(t)>>)
    BY <1>3, <2>1, <2>2, <2>3 DEF CompleteInv, ErrorInv, Has
  <2>5. OrderInv(<<Plain(t)>>)
    <3>1. \A i, j \in 1..1 : ~(i < j)
      OBVIOUS
    <3> QED BY <3>1, <2>2 DEF OrderInv
  <2> QED BY <2>4, <2>5 DEF EventsInv
<1> QED BY <1>2, <1>3

LEMMA TellInit == Init => TellInv
<1> SUFFICES ASSUME Init PROVE TellInv
  OBVIOUS
<1>1. Told = <<>>
  BY DEF Init, Told
<1>2. ToldInv
  BY <1>1, NothingTold DEF ToldInv, Types
<1>3. poller.pc = "none"
  BY StartingPoller DEF Init
<1> QED BY <1>2, <1>3 DEF Init, TellInv, PolledInv, IdleInv, ViewInv, HeardInv

\* The row the endpoint read is still so: the whole answer is in it.
LEMMA FastPathTells ==
  ASSUME TypeInv, TellInv, StreamFastPath
  PROVE  EventsInv(out')
<1>r. files \in Version /\ attempt \in Nat /\ skills \in BOOLEAN /\ \A f \in Files : files[f] <= attempt
  BY StreamAssumption DEF TypeInv, TypeOK
<1>s. EventsInv(<<Plain("start")>>) /\ <<Plain("start")>> \in Seq(Events)
  BY NothingTold, PlainEvents DEF Types
<1>1. CASE view.status = "failed"
  <2>1. out' = <<Plain("start")>> \o <<Plain("error")>>
    BY <1>1 DEF StreamFastPath
  <2>2. status \in Terminal
    BY <1>1 DEF TellInv, ViewInv, StreamFastPath, Terminal
  <2> QED BY <2>1, <2>2, <1>s, AddEnd
<1>2. CASE view.status # "failed"
  <2> DEFINE fs == FileEvents(files, {})
             s == (<<Plain("start")>> \o fs) \o SkillEvents
  <2>1. /\ out' = <<Plain("start")>> \o (FileEvents(view.files, {}) \o SkillEvents \o <<Plain("complete")>>)
        /\ view.status = "generated" /\ stream = "opened"
    BY <1>2 DEF StreamFastPath
  <2>2. status \in Success /\ view.files = files
    BY <2>1 DEF TellInv, ViewInv
  <2>3. fs \in Seq(Events) /\ SkillEvents \in Seq(Events) /\ <<Plain("complete")>> \in Seq(Events)
    BY <1>r, FileEventsHas, SkillEventsHas, PlainEvents DEF Types
  <2>4. \A k \in 1..Len(fs) : fs[k].type = "file"
    BY <1>r, FileEventsAreQuiet
  <2>5. \A k \in 1..Len(SkillEvents) : SkillEvents[k].type = "skills"
    BY SkillEventsAreQuiet
  <2>f. \A f \in Files : files[f] # 0 => Has(fs, FileEvent(f, files[f]))
    BY <1>r, FileEventsHas
  <2>6. out' = s \o <<Plain("complete")>>
    BY SMTT(30), <2>1, <2>2, <2>3, <1>s, Regrouped
  <2> HIDE DEF fs
  <2>7. <<Plain("start")>> \o fs \in Seq(Events) /\ s \in Seq(Events)
    BY <2>3, <1>s
  <2>8. EventsInv(<<Plain("start")>> \o fs)
    BY <2>3, <2>4, <1>s, AddQuiet
  <2>9. EventsInv(s)
    BY <2>3, <2>5, <2>7, <2>8, AddQuiet
  <2>10. Covered(s, Len(s))
    <3>1. ASSUME NEW f \in Files, files[f] # 0 PROVE files[f] \in 1..attempt /\ Has(s, FileEvent(f, files[f]))
      <4>1. files[f] \in 1..attempt
        BY <3>1, <1>r, StreamAssumption DEF Version
      <4>2. Has(<<Plain("start")>> \o fs, FileEvent(f, files[f]))
        BY <3>1, <2>f, <2>3, <1>s, HasConcat
      <4> QED BY <4>1, <4>2, <2>3, <2>7, HasConcat
    <3>2. skills => Has(s, Plain("skills"))
      BY <2>3, <2>7, HasConcat, SkillEventsHas
    <3> QED BY <3>1, <3>2 DEF Covered, Has
  <2> HIDE DEF s
  <2> QED BY <2>2, <2>6, <2>7, <2>9, <2>10, AddEnd
<1> QED BY <1>1, <1>2

LEMMA TellStep == TypeInv /\ TellInv /\ [Next]_vars => TellInv'
<1> SUFFICES ASSUME TypeInv, TellInv, [Next]_vars PROVE TellInv'
  OBVIOUS
<1>r. queue \in Seq(Events) /\ out \in Seq(Events) /\ poller \in Poller
  BY DEF TypeInv, TypeOK
<1>i. ToldInv /\ PolledInv /\ IdleInv /\ ViewInv /\ HeardInv
  BY DEF TellInv
<1>e. EventsInv(out \o queue)
  BY <1>i DEF ToldInv, Told
<1>f. UNCHANGED row => UNCHANGED <<status, files>>
  BY DEF row
<1>k. ASSUME UNCHANGED row, UNCHANGED <<out, queue, poller, stream>> PROVE ToldInv' /\ PolledInv'
  <2>1. PICK x : x = out \o queue
    OBVIOUS
  <2>2. Told' = x /\ EventsInv(x)
    BY <1>k, <1>e, <2>1 DEF Told
  <2>3. ToldInv'
    BY <1>k, <2>2, SameRow
  <2>4. CASE stream = "live"
    <3>1. PollInv(poller', x)
      BY <2>4, <1>k, <1>i, <2>1 DEF PolledInv, Told
    <3> QED BY <3>1, <2>2, <2>3, <1>k, SamePolled
  <2>5. CASE stream # "live"
    BY <2>3, <2>5, <1>k DEF PolledInv
  <2> QED BY <2>4, <2>5
<1>d. ASSUME UNCHANGED row, NEW x, out' \o queue' = x, EventsInv(x), stream' # "live"
      PROVE  ToldInv' /\ PolledInv'
  <2>1. Told' = x
    BY <1>d DEF Told
  <2> QED BY <2>1, <1>d, SameRow DEF PolledInv
<1>0. CASE UNCHANGED vars
  <2>1. UNCHANGED row /\ UNCHANGED <<stream, view, poller, listener, stop, queue, out, heard>>
    BY <1>0 DEF vars, client
  <2> QED BY <2>1, <1>k, <1>i, <1>f DEF TellInv, IdleInv, ViewInv, HeardInv
<1>1. CASE RowStep
  BY <1>1, RowTells
<1>2. CASE TaskAnnounce
  <2>1. /\ UNCHANGED row /\ UNCHANGED <<stream, view, poller, listener, stop, queue, out>>
        /\ status \in Terminal
    BY <1>2 DEF TaskAnnounce, client
  <2> QED BY <2>1, <1>k, <1>i, <1>f DEF TellInv, IdleInv, ViewInv, HeardInv
<1>3. CASE StreamOpen
  <2>1. /\ UNCHANGED row /\ UNCHANGED <<poller, listener, heard, queue, out>>
        /\ stream = "idle" /\ stream' = "opened" /\ view' = [status |-> status, files |-> files]
    BY <1>3 DEF StreamOpen
  <2>2. ToldInv' /\ PolledInv'
    BY <2>1, <1>d, <1>e
  <2>3. ViewInv'
    BY <2>1, <1>f DEF ViewInv, Success
  <2> QED BY <2>1, <2>2, <2>3, <1>i, <1>f DEF TellInv, IdleInv, HeardInv
<1>4. CASE StreamFastPath
  <2>1. UNCHANGED row /\ UNCHANGED <<poller, listener, heard, queue>> /\ stream = "opened" /\ stream' = "closed"
    BY <1>4 DEF StreamFastPath
  <2>2. EventsInv(out')
    BY <1>4, FastPathTells
  <2>3. out' \in Seq(Events) /\ queue' = <<>>
    BY <2>1, <1>4, <1>i, TypeStep DEF TypeInv, IdleInv, Next
  <2>4. out' \o queue' = out'
    BY <2>3
  <2>5. ToldInv' /\ PolledInv'
    BY <2>1, <2>2, <2>4, <1>d
  <2> QED BY <2>1, <2>5, <1>i, <1>f DEF TellInv, IdleInv, HeardInv, ViewInv
<1>5. CASE StreamLivePath
  <2>1. /\ UNCHANGED row /\ UNCHANGED <<heard, stop, queue>> /\ stream = "opened" /\ stream' = "live"
        /\ out' = <<Plain("start")>> /\ poller' = NewPoller("poll") /\ queue' = <<>>
    BY <1>5, <1>i DEF StreamLivePath, IdleInv
  <2> DEFINE s == <<Plain("start")>>
  <2>2. s \in Seq(Events) /\ EventsInv(s)
    BY PlainEvents, NothingTold DEF Types
  <2>3. Told' = s
    BY <2>1, <2>2 DEF Told
  <2>4. ToldInv'
    BY <2>1, <2>2, <2>3, SameRow
  <2>5. PollInv(poller', s)
    <3>1. /\ poller'.pc = "poll" /\ poller'.round = 0 /\ poller'.sent_files = {}
          /\ poller'.skills_sent = FALSE /\ poller'.clarification_sent = {}
      BY <2>1 DEF NewPoller
    <3>2. 0 <= rounds
      BY StreamAssumption DEF TypeInv, TypeOK
    <3>3. \A i \in 1..Len(s) : s[i].type = "start"
      BY PlainEvents, OneEvent DEF Types
    <3> HIDE DEF s
    <3>4. FilesTold(poller', s) /\ SkillsTold(poller', s) /\ ReadInv(poller')
      BY <3>1 DEF FilesTold, SkillsTold, ReadInv
    <3>5. RoundsTold(poller', s)
      BY <3>1, <3>2, <3>3 DEF RoundsTold
    <3> QED BY <3>4, <3>5 DEF PollInv
  <2>6. PolledInv'
    BY <2>1, <2>3, <2>5, SamePolled
  <2> QED BY <2>1, <2>4, <2>6, <1>i, <1>f DEF TellInv, IdleInv, HeardInv, ViewInv
<1>c. ASSUME UNCHANGED row, UNCHANGED <<view, out>>, StreamClose PROVE TellInv'
  <2>1. EventsInv(out)
    BY <1>e, <1>r, ToldBefore
  <2>2. out' \o queue' = out /\ stream' = "closed" /\ queue' = <<>> /\ listener' = "done" /\ heard' = FALSE
    BY <1>c, <1>r DEF StreamClose
  <2>3. ToldInv' /\ PolledInv'
    BY <2>1, <2>2, <1>c, <1>d
  <2>4. poller'.pc = "done"
    BY <1>c, StartingPoller DEF StreamClose
  <2> QED BY <2>2, <2>3, <2>4, <1>c DEF TellInv, IdleInv, ViewInv, HeardInv
<1>6. CASE StreamNext
  <2>1. CASE Head(queue) = Done
    BY <2>1, <1>6, <1>c DEF StreamNext
  <2>2. CASE Head(queue) # Done
    <3>1. /\ UNCHANGED <<row, view, stream, stop, poller, listener, heard>> /\ queue # <<>>
          /\ out' = Append(out, Head(queue)) /\ queue' = Tail(queue) /\ stream = "live"
      BY <1>6, <2>2 DEF StreamNext
    <3>2. /\ Head(queue) \in Events /\ Tail(queue) \in Seq(Events)
          /\ queue = <<Head(queue)>> \o Tail(queue)
      BY <3>1, <1>r
    <3>3. out' \o queue' = out \o queue
      BY <3>1, <3>2, <1>r, AppendIsConcat, Regrouped
    <3>4. PICK x : x = out \o queue
      OBVIOUS
    <3>5. Told' = x /\ EventsInv(x) /\ PollInv(poller', x)
      BY <3>1, <3>3, <3>4, <1>e, <1>i DEF Told, PolledInv
    <3>6. ToldInv' /\ PolledInv'
      BY <3>1, <3>5, SameRow, SamePolled
    <3> QED BY <3>1, <3>6, <1>i, <1>f DEF TellInv, IdleInv, ViewInv, HeardInv
  <2> QED BY <2>1, <2>2
<1>7. CASE StreamDisconnect
  BY <1>7, <1>c DEF StreamDisconnect
<1>8. CASE PollStep
  <2>1. /\ UNCHANGED <<row, stream, view, listener, heard, out>>
        /\ poller.pc \notin {"none", "done"}
    BY <1>8 DEF PollStep, PollRead, PollGone, PollSkills, PollFinalSkills, PollFetch, PollFetchNothing, PollWake,
                PollStopped, PollRaise, PollDone, PollerAlone
  <2>2. ToldInv' /\ PolledInv'
    BY <1>8, <1>i, PollTells
  <2>3. stream = "live"
    BY <2>1, <1>i DEF IdleInv
  <2> QED BY <2>1, <2>2, <2>3, <1>i, <1>f DEF TellInv, IdleInv, ViewInv, HeardInv
<1>9. CASE ListenStep
  <2>1. /\ UNCHANGED <<row, stream, view, poller, heard, out>> /\ listener \notin {"none", "done"}
        /\ queue' = queue \/ (queue' = Append(queue, Plain("error")) /\ heard)
    BY <1>9 DEF ListenStep, ListenSubscribe, ListenError, ListenStop, ListenRaise
  <2>2. stream = "live" /\ PollInv(poller, out \o queue)
    BY <2>1, <1>i DEF IdleInv, PolledInv, Told
  <2>3. ToldInv' /\ PolledInv'
    <3>1. CASE queue' = queue
      BY <3>1, <2>1, <1>k
    <3>2. CASE queue' = Append(queue, Plain("error")) /\ heard
      <4> DEFINE s == (out \o queue) \o <<Plain("error")>>
      <4>1. Plain("error") \in Events /\ Plain("error").type = "error" /\ <<Plain("error")>> \in Seq(Events)
        BY PlainEvents DEF Types
      <4>2. out' \o queue' = s
        <5>1. out' = out /\ queue' = queue \o <<Plain("error")>>
          BY <3>2, <2>1, <4>1, <1>r, AppendIsConcat
        <5> QED BY <5>1, <4>1, <1>r, Regrouped
      <4>3. EventsInv(s)
        <5>1. status \in Terminal /\ out \o queue \in Seq(Events)
          BY <3>2, <1>i, <1>r DEF HeardInv
        <5> QED BY <5>1, <1>e, AddEnd
      <4>4. Remembers(poller, s)
        <5>1. Remembers(poller, out \o queue)
          BY <2>2 DEF PollInv, Remembers
        <5>2. /\ out \o queue \in Seq(Events)
              /\ \A k \in 1..Len(<<Plain("error")>>) : <<Plain("error")>>[k].type # "clarification"
          BY <4>1, <1>r, OneEvent
        <5> QED BY <5>1, <5>2, <4>1, StaysTold
      <4> HIDE DEF s
      <4>5. PollInv(poller', s)
        BY <4>4, <2>1, <2>2 DEF PollInv, Remembers
      <4>6. Told' = s
        BY <4>2 DEF Told
      <4>7. PICK x : x = s
        OBVIOUS
      <4> QED BY <2>1, <4>3, <4>5, <4>6, <4>7, SameRow, SamePolled
    <3> QED BY <3>1, <3>2, <2>1
  <2> QED BY <2>1, <2>2, <2>3, <1>i, <1>f DEF TellInv, IdleInv, ViewInv, HeardInv
<1> QED
  BY <1>0, <1>1, <1>2, <1>3, <1>4, <1>5, <1>6, <1>7, <1>8, <1>9 DEF Next, RowStep

LEMMA ReceivedIsTrue == Spec => [](TypeInv /\ EventsInv(out))
<1> DEFINE Inv == TypeInv /\ TellInv
<1>1. Init => Inv
  BY TypeInit, TellInit
<1>2. Inv /\ [Next]_vars => Inv'
  BY TypeStep, TellStep
<1>3. Inv => TypeInv /\ EventsInv(out)
  <2> SUFFICES ASSUME Inv PROVE EventsInv(out)
    OBVIOUS
  <2>1. out \in Seq(Events) /\ queue \in Seq(Events)
    BY DEF TypeInv
  <2> QED BY <2>1, ToldBefore DEF TellInv, ToldInv, Told
<1> QED BY <1>1, <1>2, <1>3, PTL DEF Spec

\* "complete" is received after every file the persona has (its final contents, if it was
\* generated in one attempt) and after its skills: _poll_db's bookkeeping of what it sent.
THEOREM CompleteIsComplete == Spec => []CompleteAfterFiles
<1>1. TypeInv /\ EventsInv(out) => CompleteAfterFiles
  <2> SUFFICES ASSUME TypeInv, EventsInv(out), NEW i \in DOMAIN out, out[i] = Plain("complete")
               PROVE  LET before == ToSet(SubSeq(out, 1, i))
                      IN  /\ \A f \in Files : files[f] # 0 =>
                               \E n \in 1..attempt : /\ FileEvent(f, n) \in before
                                                     /\ attempt = 1 => n = files[f]
                          /\ skills => Plain("skills") \in before
    BY DEF CompleteAfterFiles
  <2>r. out \in Seq(Events) /\ files \in Version /\ attempt \in Nat /\ \A f \in Files : files[f] <= attempt
    BY StreamAssumption DEF TypeInv, TypeOK
  <2>i. i \in 1..Len(out)
    BY <2>r
  <2>1. Covered(out, i)
    BY <2>i DEF EventsInv, CompleteInv
  <2>2. ASSUME NEW j \in 1..i PROVE out[j] \in ToSet(SubSeq(out, 1, i))
    <3>1. Len(SubSeq(out, 1, i)) = i /\ SubSeq(out, 1, i)[j] = out[j] /\ j \in DOMAIN SubSeq(out, 1, i)
      BY <2>r, <2>i
    <3> QED BY <3>1 DEF ToSet
  <2>3. ASSUME NEW f \in Files, files[f] # 0
        PROVE  \E n \in 1..attempt : /\ FileEvent(f, n) \in ToSet(SubSeq(out, 1, i))
                                     /\ attempt = 1 => n = files[f]
    <3>1. PICK n \in 1..attempt : \E j \in 1..i : out[j] = FileEvent(f, n)
      BY <2>1, <2>3 DEF Covered
    <3>2. files[f] \in Nat /\ files[f] <= attempt
      BY <2>r, StreamAssumption DEF Version
    <3>3. attempt = 1 => n = files[f]
      BY <3>1, <3>2, <2>3
    <3> QED BY <3>1, <3>3, <2>2
  <2>4. skills => Plain("skills") \in ToSet(SubSeq(out, 1, i))
    BY <2>1, <2>2 DEF Covered
  <2> QED BY <2>3, <2>4
<1> QED BY <1>1, ReceivedIsTrue, PTL

\* A client that was told "complete" has a generated persona, and one that was told "error"
\* a persona that no longer changes or is gone, however the poller and the listener interleaved.
THEOREM TerminalEventsAreTrue == Spec => []TerminalEventIsTrue
<1>1. TypeInv /\ EventsInv(out) => TerminalEventIsTrue
  <2> SUFFICES ASSUME TypeInv, EventsInv(out) PROVE TerminalEventIsTrue
    OBVIOUS
  <2>1. \A e : e \in ToSet(out) => Has(out, e)
    BY DEF TypeInv, ToSet, Has
  <2>2. Has(out, Plain("complete")) => status \in Success
    BY DEF EventsInv, CompleteInv, Has
  <2> QED BY <2>1, <2>2 DEF EventsInv, ErrorInv, TerminalEventIsTrue, Received, Success
<1> QED BY <1>1, ReceivedIsTrue, PTL

\* A round's questions are received once, and never after those of a later round:
\* clarification_sent of _poll_db.
THEOREM RoundsAreShownInOrder == Spec => []RoundsInOrder
<1>1. TypeInv /\ EventsInv(out) => RoundsInOrder
  BY DEF TypeInv, EventsInv, OrderInv, RoundsInOrder
<1> QED BY <1>1, ReceivedIsTrue, PTL

-----------------------------------------------------------------------------
(***************************************************************************)
(* What StreamEnds and RoundShown rest on, whatever the generation task    *)
(* does: while a response is open somebody can act on it, and each step of *)
(* the poller or of the generator brings what is promised nearer.  That    *)
(* such steps are taken is the fairness of FairSpec, left to TLC.          *)
(***************************************************************************)

\* The poller runs, or has put the event that ends the response.
ResponseIsServed ==
  stream = "live" =>
    \/ poller.pc \in {"poll", "skills", "fetching", "final_skills", "sleeping", "closing"}
    \/ poller.pc = "done" /\ Has(queue, Done)

\* The response is to end: the persona will not be generated any further or is purged, or the
\* poller has left its loop.  (Of a published persona this is not so: PublishedStreamEnds is violated.)
Settled == {"generated", "failed"}
Ending == stream = "live" /\ (status \in Settled \/ gone \/ poller.pc \in {"closing", "done"})

\* The steps a poller can take until it is done, and the events it can put, once the persona
\* is settled; the same for the listener.
Ahead(p) ==
  CASE p.pc = "closing" -> 2
    [] p.pc = "final_skills" -> 5
    [] p.pc = "skills" -> IF p.status \in Settled THEN 7 ELSE 16
    [] p.pc = "poll" -> 11
    [] p.pc = "sleeping" -> 12
    [] p.pc = "fetching" -> 14
    [] OTHER -> 0
ListenerAhead ==
  CASE listener = "subscribing" -> 3 [] listener = "listening" -> 2 [] OTHER -> 0
Remaining == Len(queue) + Ahead(poller) + ListenerAhead

\* The response ends, or something of what remains is done; what is not a step of the poller
\* or of the generator leaves the response alone or does something too.
EndComesNearer ==
  Ending =>
    \/ stream' = "closed" \/ (status' = "published" /\ ~gone')
    \/ Ending' /\ Remaining' < Remaining
    \/ Ending' /\ UNCHANGED client /\ ~(PollStep \/ StreamNext)

LEMMA AheadType == ASSUME NEW p \in Poller PROVE Ahead(p) \in Nat
  BY DEF Ahead

LEMMA RemainingType == TypeInv => Remaining \in Nat
<1> SUFFICES ASSUME TypeInv PROVE Remaining \in Nat
  OBVIOUS
<1>1. Len(queue) \in Nat /\ poller \in Poller
  BY DEF TypeInv, TypeOK
<1>2. ListenerAhead \in Nat
  BY DEF ListenerAhead
<1> QED BY <1>1, <1>2, AheadType DEF Remaining

LEMMA LenConcat ==
  ASSUME NEW s \in Seq(Events), NEW t \in Seq(Events)
  PROVE  s \o t \in Seq(Events) /\ Len(s \o t) = Len(s) + Len(t) /\ Len(s) \in Nat /\ Len(t) \in Nat
  BY ConcatProperties

LEMMA LenWithin ==
  ASSUME NEW s \in Seq(Events), NEW t \in Seq(Events), NEW k \in Nat, Len(t) \in 0..k
  PROVE  s \o t \in Seq(Events) /\ Len(s \o t) \in Nat /\ Len(s \o t) <= Len(s) + k
<1>1. s \o t \in Seq(Events) /\ Len(s \o t) = Len(s) + Len(t)
  BY LenConcat
<1>2. Len(s) \in Nat
  OBVIOUS
<1> QED BY <1>1, <1>2

LEMMA FewEvents ==
  /\ \A version \in Version : \A sent : Len(FileEvents(version, sent)) \in 0..3
  /\ Len(SkillEvents) \in 0..1
<1>1. ASSUME NEW version \in Version, NEW sent PROVE Len(FileEvents(version, sent)) \in 0..3
  <2> DEFINE one(f) == IF version[f] # 0 /\ f \notin sent THEN <<FileEvent(f, version[f])>> ELSE <<>>
  <2>1. FileEvents(version, sent) = one("head") \o one("tail") \o one("readme")
    BY DEF FileEvents, FILE_COLUMNS
  <2>2. ASSUME NEW f \in Files PROVE one(f) \in Seq(Events) /\ Len(one(f)) \in 0..1
    <3>1. FileEvent(f, version[f]) \in Events
      BY StreamAssumption DEF FileEvent, Event, Events, Types, Version
    <3>2. CASE one(f) = <<>>
      BY <3>2
    <3>3. CASE one(f) = <<FileEvent(f, version[f])>>
      BY <3>1, <3>3
    <3> QED BY <3>2, <3>3
  <2> HIDE DEF one
  <2>3. /\ one("head") \in Seq(Events) /\ one("tail") \in Seq(Events) /\ one("readme") \in Seq(Events)
        /\ Len(one("head")) \in 0..1 /\ Len(one("tail")) \in 0..1 /\ Len(one("readme")) \in 0..1
    BY <2>2, FilesAre
  <2>4. /\ one("head") \o one("tail") \in Seq(Events)
        /\ Len(one("head") \o one("tail")) = Len(one("head")) + Len(one("tail"))
    BY <2>3, LenConcat
  <2>5. Len((one("head") \o one("tail")) \o one("readme"))
          = Len(one("head")) + Len(one("tail")) + Len(one("readme"))
    BY <2>3, <2>4, LenConcat
  <2> QED BY <2>1, <2>3, <2>5
<1>2. Len(SkillEvents) \in 0..1
  BY DEF SkillEvents
<1> QED BY <1>1, <1>2

\* A branch on a settled status leads to the end; on another one to a new poll.
LEMMA BranchSpends ==
  ASSUME NEW p \in Poller, NEW q \in Seq(Events), Branch(p, q)
  PROVE  /\ p.status \in Settled =>
              /\ poller'.pc \in {"closing", "final_skills"}
              /\ Len(queue') + Ahead(poller') <= Len(q) + 5
         /\ p.status \notin Settled =>
              /\ poller'.pc \in {"sleeping", "fetching"}
              /\ Len(queue') + Ahead(poller') <= Len(q) + 14
<1>p. \A pc : [p EXCEPT !.pc = pc].pc = pc
  BY DEF Poller
<1>q. Len(q) \in Nat /\ \A e : Len(Append(q, e)) = Len(q) + 1
  BY AppendProperties
<1>1. CASE p.status = "failed" \/ (Succeeded(p) /\ p.skills_sent)
  <2>1. poller' = [p EXCEPT !.pc = "closing"] /\ Len(queue') = Len(q) + 1
    BY <1>1, <1>q DEF Branch, Succeeded, Leave
  <2> QED BY <2>1, <1>1, <1>p, <1>q DEF Ahead, Settled, Succeeded
<1>2. CASE Succeeded(p) /\ ~p.skills_sent
  <2>1. poller' = [p EXCEPT !.pc = "final_skills"] /\ queue' = q
    BY <1>2 DEF Branch, Succeeded
  <2> QED BY <2>1, <1>2, <1>p, <1>q DEF Ahead, Settled, Succeeded
<1>3. CASE p.status # "failed" /\ ~Succeeded(p)
  <2>1. queue' = q /\ poller' = [p EXCEPT !.pc = poller'.pc] /\ poller'.pc \in {"sleeping", "fetching"}
    BY <1>3, <1>p DEF Branch, Succeeded
  <2>2. Ahead(poller') \in {12, 14}
    BY <2>1 DEF Ahead
  <2> QED BY <2>1, <2>2, <1>3, <1>q DEF Settled, Succeeded
<1> QED BY <1>1, <1>2, <1>3

\* What a step of the poller queues is less than what it had ahead of it.
LEMMA PollSpends ==
  ASSUME TypeInv, PollStep, status \in Settled \/ gone \/ poller.pc \in {"closing", "done"}
  PROVE  /\ Len(queue') + Ahead(poller') < Len(queue) + Ahead(poller)
         /\ UNCHANGED <<row, stream, listener>>
         /\ poller.pc = "closing" => poller'.pc = "done"
<1>r. /\ poller \in Poller /\ queue \in Seq(Events) /\ Len(queue) \in Nat
      /\ files \in Version /\ skills \in BOOLEAN /\ status \in Status /\ poller.pc # "done"
  BY DEF TypeInv, TypeOK, PollStep, PollRead, PollGone, PollSkills, PollFinalSkills, PollFetch, PollFetchNothing, PollWake,
         PollStopped, PollRaise, PollDone
<1>a. UNCHANGED <<row, stream, listener>>
  BY DEF PollStep, PollRead, PollGone, PollSkills, PollFinalSkills, PollFetch, PollFetchNothing, PollWake,
         PollStopped, PollRaise, PollDone, PollerAlone
<1>p. \A pc : [poller EXCEPT !.pc = pc].pc = pc
  BY <1>r DEF Poller
<1>q. \A e : Len(Append(queue, e)) = Len(queue) + 1
  BY <1>r, AppendProperties
<1>s. SkillEvents \in Seq(Events) /\ Len(SkillEvents) \in 0..1
  BY SkillEventsHas, FewEvents
<1>k. queue \o SkillEvents \in Seq(Events) /\ Len(queue \o SkillEvents) <= Len(queue) + 1
      /\ Len(queue \o SkillEvents) \in Nat
  BY <1>r, <1>s, LenWithin
<1>b. ASSUME NEW p \in Poller, NEW q \in Seq(Events), Branch(p, q)
      PROVE  queue' \in Seq(Events) /\ Len(queue') \in Nat
  <2>1. queue' \in Seq(Events)
    BY <1>b, BranchEffect
  <2> QED BY <2>1
<1>1. CASE PollRead
  <2>1. poller.pc = "poll" /\ status \in Settled
    BY <1>1 DEF PollRead
  <2>2. /\ AfterRead \in Poller /\ AfterRead.status = status /\ QueueAfterRead \in Seq(Events)
        /\ Len(QueueAfterRead) <= Len(queue) + 3 /\ Len(QueueAfterRead) \in Nat
    <3>1. FileEvents(files, poller.sent_files) \in Seq(Events)
      BY <1>r, FileEventsHas
    <3>2. Len(FileEvents(files, poller.sent_files)) \in 0..3
      BY <1>r, FewEvents
    <3>3. Len(QueueAfterRead) \in Nat /\ Len(QueueAfterRead) <= Len(queue) + 3
      BY <1>r, <3>1, <3>2, LenWithin DEF QueueAfterRead
    <3> QED BY <3>3, AfterReadIs
  <2>3. CASE poller.skills_sent
    <3>1. Branch(AfterRead, QueueAfterRead)
      BY <1>1, <2>3 DEF PollRead
    <3>2. /\ poller'.pc \in {"closing", "final_skills"}
          /\ Len(queue') + Ahead(poller') <= Len(QueueAfterRead) + 5
      BY <3>1, <2>1, <2>2, BranchSpends
    <3>3. Ahead(poller') \in {2, 5} /\ queue' \in Seq(Events) /\ Len(queue') \in Nat
      BY <3>1, <3>2, <2>2, <1>b DEF Ahead
    <3> QED BY <3>2, <3>3, <2>1, <2>2, <1>r, <1>a DEF Ahead
  <2>4. CASE ~poller.skills_sent
    <3>1. poller' = [AfterRead EXCEPT !.pc = "skills"] /\ queue' = QueueAfterRead
      BY <1>1, <2>4 DEF PollRead
    <3>2. poller'.pc = "skills" /\ poller'.status \in Settled
      BY <3>1, <2>1, <2>2 DEF Poller
    <3> QED BY <3>1, <3>2, <2>1, <2>2, <1>r, <1>a DEF Ahead
  <2> QED BY <2>3, <2>4
<1>2. CASE PollSkills
  <2> DEFINE p == [poller EXCEPT !.skills_sent = skills]
  <2>1. p \in Poller /\ p.status = poller.status /\ poller.pc = "skills"
        /\ Branch(p, queue \o SkillEvents)
    BY <1>2, <1>r DEF PollSkills, Poller
  <2> HIDE DEF p
  <2>2. queue' \in Seq(Events) /\ Len(queue') \in Nat
    BY <2>1, <1>k, <1>b
  <2>3. CASE poller.status \in Settled
    <3>1. Len(queue') + Ahead(poller') <= Len(queue \o SkillEvents) + 5
          /\ poller'.pc \in {"closing", "final_skills"}
      BY <2>1, <2>3, <1>k, BranchSpends
    <3>2. Ahead(poller') \in {2, 5} /\ Ahead(poller) = 7
      BY <3>1, <2>1, <2>3 DEF Ahead
    <3> QED BY <3>1, <3>2, <2>1, <2>2, <1>k, <1>r, <1>a
  <2>4. CASE poller.status \notin Settled
    <3>1. Len(queue') + Ahead(poller') <= Len(queue \o SkillEvents) + 14
          /\ poller'.pc \in {"sleeping", "fetching"}
      BY <2>1, <2>4, <1>k, BranchSpends
    <3>2. Ahead(poller') \in {12, 14} /\ Ahead(poller) = 16
      BY <3>1, <2>1, <2>4 DEF Ahead
    <3> QED BY <3>1, <3>2, <2>1, <2>2, <1>k, <1>r, <1>a
  <2> QED BY <2>3, <2>4
<1>3. CASE PollFinalSkills
  <2>1. /\ poller.pc = "final_skills" /\ poller'.pc = "closing"
        /\ queue' = (queue \o SkillEvents) \o <<Plain("complete")>>
    BY <1>3, <1>p DEF PollFinalSkills, Leave
  <2>2. <<Plain("complete")>> \in Seq(Events) /\ Len(<<Plain("complete")>>) = 1
    BY PlainEvents DEF Types
  <2>3. Len(queue') <= Len(queue) + 2 /\ Len(queue') \in Nat
    BY <2>1, <2>2, <1>k, <1>r, LenConcat
  <2> QED BY <2>1, <2>3, <1>r, <1>a DEF Ahead
<1>4. CASE PollFetch
  <2>1. [poller EXCEPT !.pc = "sleeping",
                       !.clarification_sent = @ \cup {poller.round}].pc = "sleeping"
    BY <1>r DEF Poller
  <2>2. poller.pc = "fetching" /\ poller'.pc = "sleeping" /\ Len(queue') = Len(queue) + 1
    BY <2>1, <1>4, <1>q DEF PollFetch
  <2> QED BY <2>2, <1>r, <1>a DEF Ahead
<1>5. CASE PollWake
  <2>1. poller.pc = "sleeping" /\ poller'.pc = "poll" /\ queue' = queue
    BY <1>5, <1>p DEF PollWake
  <2> QED BY <2>1, <1>r, <1>a DEF Ahead
<1>6. CASE PollStopped \/ PollRaise
  <2>1. /\ poller.pc \in {"poll", "skills", "fetching", "final_skills"}
        /\ poller'.pc = "closing" /\ queue' = queue
    BY <1>6, <1>p DEF PollStopped, PollRaise, Leave
  <2> QED BY <2>1, <1>r, <1>a DEF Ahead
<1>7. CASE PollDone
  <2>1. poller.pc = "closing" /\ poller'.pc = "done" /\ Len(queue') = Len(queue) + 1
    BY <1>7, <1>p, <1>q DEF PollDone
  <2> QED BY <2>1, <1>r, <1>a DEF Ahead
<1>8. CASE PollGone
  <2>1. poller.pc = "poll" /\ poller'.pc = "closing" /\ Len(queue') = Len(queue) + 1
    BY <1>8, <1>p, <1>q DEF PollGone, Leave
  <2> QED BY <2>1, <1>r, <1>a DEF Ahead
<1>9. CASE PollFetchNothing
  <2>1. poller.pc = "fetching" /\ poller'.pc = "sleeping" /\ queue' = queue
    BY <1>9, <1>p DEF PollFetchNothing
  <2> QED BY <2>1, <1>r, <1>a DEF Ahead
<1> QED BY <1>1, <1>2, <1>3, <1>4, <1>5, <1>6, <1>7, <1>8, <1>9 DEF PollStep

LEMMA ListenSpends ==
  ASSUME TypeInv, ListenStep
  PROVE  /\ UNCHANGED <<row, stream, poller>>
         /\ Len(queue') + ListenerAhead' < Len(queue) + ListenerAhead
<1>r. queue \in Seq(Events) /\ Len(queue) \in Nat
  BY DEF TypeInv
<1>q. Len(Append(queue, Plain("error"))) = Len(queue) + 1
  BY <1>r, AppendProperties
<1>1. CASE ListenSubscribe
  BY <1>1, <1>r DEF ListenSubscribe, ListenerAhead
<1>2. CASE ListenError
  BY <1>2, <1>r, <1>q DEF ListenError, ListenerAhead
<1>3. CASE ListenStop
  BY <1>3, <1>r DEF ListenStop, ListenerAhead
<1>4. CASE ListenRaise
  BY <1>4, <1>r DEF ListenRaise, ListenerAhead
<1> QED BY <1>1, <1>2, <1>3, <1>4 DEF ListenStep

LEMMA GeneratorSpends ==
  ASSUME TypeInv, StreamNext, stream' # "closed"
  PROVE  /\ UNCHANGED <<row, stream, poller, listener>>
         /\ queue # <<>> /\ Head(queue) # Done /\ queue' = Tail(queue) /\ out' = Append(out, Head(queue))
         /\ Len(queue') < Len(queue)
<1>1. Head(queue) # Done
  BY DEF StreamNext, StreamClose
<1>2. queue # <<>> /\ queue' = Tail(queue) /\ queue \in Seq(Events)
  BY <1>1 DEF StreamNext, TypeInv
<1>3. Len(queue') < Len(queue)
  BY <1>2, HeadTailProperties
<1> QED BY <1>1, <1>2, <1>3 DEF StreamNext

LEMMA EndStep == TypeInv /\ [Next]_vars => EndComesNearer
<1> SUFFICES ASSUME TypeInv, [Next]_vars, Ending, stream' # "closed", status' # "published" \/ gone'
             PROVE  \/ Ending' /\ Remaining' < Remaining
                    \/ Ending' /\ UNCHANGED client /\ ~(PollStep \/ StreamNext)
  BY DEF EndComesNearer
<1>r. /\ stream = "live" /\ Len(queue) \in Nat /\ Ahead(poller) \in Nat /\ ListenerAhead \in Nat
      /\ (status \in Settled \/ gone \/ poller.pc \in {"closing", "done"})
  BY AheadType DEF Ending, TypeInv, TypeOK, ListenerAhead
<1>1. CASE PollStep
  <2>1. /\ Len(queue') + Ahead(poller') < Len(queue) + Ahead(poller)
        /\ UNCHANGED <<row, stream, listener>>
        /\ poller.pc = "closing" => poller'.pc = "done"
    BY <1>1, <1>r, PollSpends
  <2>2. poller.pc # "done"
    BY <1>1 DEF PollStep, PollRead, PollGone, PollSkills, PollFinalSkills, PollFetch, PollFetchNothing, PollWake,
                PollStopped, PollRaise, PollDone
  <2>3. Ending'
    BY <2>1, <2>2, <1>r DEF Ending, row
  <2>4. ListenerAhead' = ListenerAhead
    BY <2>1 DEF ListenerAhead
  <2>5. queue' \in Seq(Events) /\ poller' \in Poller
    BY <1>1, PollType DEF PollerFits
  <2>6. Len(queue') \in Nat /\ Ahead(poller') \in Nat
    BY <2>5, AheadType
  <2>7. Remaining' = Len(queue') + Ahead(poller') + ListenerAhead
    BY <2>4 DEF Remaining, Ahead
  <2> QED BY <2>1, <2>3, <2>6, <2>7, <1>r DEF Remaining
<1>2. CASE StreamNext
  <2>1. UNCHANGED <<row, stream, poller, listener>> /\ Len(queue') < Len(queue) /\ queue' = Tail(queue)
    BY <1>2, GeneratorSpends
  <2>2. queue' \in Seq(Events) /\ Len(queue') \in Nat
    <3>1. queue # <<>> /\ queue' = Tail(queue) /\ queue \in Seq(Events)
      BY <1>2, GeneratorSpends DEF TypeInv
    <3>2. queue' \in Seq(Events)
      BY <3>1, HeadTailProperties
    <3> QED BY <3>2
  <2>3. Ending' /\ Ahead(poller)' = Ahead(poller) /\ ListenerAhead' = ListenerAhead
    BY <2>1, <1>r DEF Ending, Ahead, ListenerAhead, row
  <2> QED BY <2>1, <2>2, <2>3, <1>r DEF Remaining
<1>3. CASE ListenStep
  <2>1. UNCHANGED <<row, stream, poller>> /\ Len(queue') + ListenerAhead' < Len(queue) + ListenerAhead
    BY <1>3, ListenSpends
  <2>2. Ending' /\ Ahead(poller)' = Ahead(poller)
    BY <2>1, <1>r DEF Ending, Ahead, row
  <2>3. queue' \in Seq(Events) /\ Len(queue') \in Nat /\ ListenerAhead' \in Nat
    <3>1. queue' = queue \/ queue' = Append(queue, Plain("error"))
      BY <1>3 DEF ListenStep, ListenSubscribe, ListenError, ListenStop, ListenRaise
    <3>2. queue' \in Seq(Events)
      BY <3>1, PlainEvents DEF TypeInv, Types
    <3> QED BY <3>2 DEF ListenerAhead
  <2> QED BY <2>1, <2>2, <2>3, <1>r DEF Remaining
<1>4. CASE ~PollStep /\ ~StreamNext /\ ~ListenStep
  <2>1. UNCHANGED client /\ (status \in Settled \/ gone => status' \in Settled \/ gone')
    <3>1. CASE RowStep
      <4>1. UNCHANGED client
        BY <3>1 DEF RowStep, TaskStart, TaskNextRound, TaskAsk, TaskWriteFiles, TaskMatchSkills,
                    TaskFinish, TaskFail, Publish, Exists, Purge
      <4>2. RowMoves
        BY <3>1, RowEffect, TypeByParts DEF TypeParts
      <4> QED BY <4>1, <4>2 DEF RowMoves, Settled
    <3>2. CASE UNCHANGED vars \/ TaskAnnounce
      BY <3>2 DEF vars, row, TaskAnnounce
    <3> QED
      BY <3>1, <3>2, <1>4, <1>r
      DEF Next, RowStep, StreamOpen, StreamFastPath, StreamLivePath, StreamDisconnect, StreamClose
  <2> QED BY <2>1, <1>4, <1>r DEF Ending, client
<1> QED BY <1>1, <1>2, <1>3, <1>4

LEMMA PollSaysMore ==
  ASSUME TypeInv, PollStep
  PROVE  \E more \in Seq(Events) : queue' = queue \o more
<1>r. /\ poller \in Poller /\ queue \in Seq(Events) /\ files \in Version
      /\ <<>> \in Seq(Events) /\ queue = queue \o <<>> /\ SkillEvents \in Seq(Events)
  BY SkillEventsHas DEF TypeInv, TypeOK
<1>t. \A type \in Types : Plain(type) \in Events /\ <<Plain(type)>> \in Seq(Events)
  BY PlainEvents
<1>b. ASSUME NEW p \in Poller, NEW s \in Seq(Events), Branch(p, queue \o s)
      PROVE  \E more \in Seq(Events) : queue' = queue \o more
  <2>1. queue \o s \in Seq(Events)
    BY <1>r
  <2>2. \/ queue' = queue \o s
        \/ \E type \in {"complete", "error"} : queue' = (queue \o s) \o <<Plain(type)>>
    BY <2>1, <1>b, BranchEffect
  <2>3. ASSUME NEW type \in {"complete", "error"}, queue' = (queue \o s) \o <<Plain(type)>>
        PROVE  \E more \in Seq(Events) : queue' = queue \o more
    <3>1. <<Plain(type)>> \in Seq(Events)
      BY <1>t DEF Types
    <3>2. queue' = queue \o (s \o <<Plain(type)>>) /\ s \o <<Plain(type)>> \in Seq(Events)
      BY <3>1, <2>3, <1>r, Regrouped
    <3> QED BY <3>2
  <2> QED BY <2>2, <2>3
<1>1. CASE PollRead
  <2>1. FileEvents(files, poller.sent_files) \in Seq(Events) /\ AfterRead \in Poller
    BY <1>r, FileEventsHas, AfterReadIs
  <2>2. Branch(AfterRead, queue \o FileEvents(files, poller.sent_files))
          \/ queue' = queue \o FileEvents(files, poller.sent_files)
    BY <1>1 DEF PollRead, QueueAfterRead
  <2> QED BY <2>1, <2>2, <1>b
<1>2. CASE PollSkills
  <2>1. [poller EXCEPT !.skills_sent = skills] \in Poller
    BY <1>r DEF Poller, TypeInv, TypeOK
  <2> QED BY <2>1, <1>2, <1>r, <1>b DEF PollSkills
<1>3. CASE PollFinalSkills
  <2>1. queue' = (queue \o SkillEvents) \o <<Plain("complete")>>
    BY <1>3 DEF PollFinalSkills, Leave
  <2>2. <<Plain("complete")>> \in Seq(Events)
    BY <1>t DEF Types
  <2>3. queue' = queue \o (SkillEvents \o <<Plain("complete")>>) /\ SkillEvents \o <<Plain("complete")>> \in Seq(Events)
    BY <2>1, <2>2, <1>r, Regrouped
  <2> QED BY <2>3
<1>4. CASE PollFetch
  <2>1. QuestionsEvent(poller.round) \in Events
    BY <1>r, StreamAssumption DEF QuestionsEvent, Event, Events, Types, Poller
  <2>2. queue' = queue \o <<QuestionsEvent(poller.round)>> /\ <<QuestionsEvent(poller.round)>> \in Seq(Events)
    BY <2>1, <1>4, <1>r, AppendIsConcat DEF PollFetch
  <2> QED BY <2>2
<1>5. CASE PollWake \/ PollFetchNothing \/ PollStopped \/ PollRaise
  BY <1>5, <1>r DEF PollWake, PollFetchNothing, PollStopped, PollRaise, Leave
<1>6. CASE PollDone
  <2>1. Done \in Events
    BY <1>t DEF Done, Types
  <2>2. queue' = queue \o <<Done>> /\ <<Done>> \in Seq(Events)
    BY <2>1, <1>6, <1>r, AppendIsConcat DEF PollDone
  <2> QED BY <2>2
<1>7. CASE PollGone
  <2>1. queue' = Append(queue, Plain("error"))
    BY <1>7 DEF PollGone, Leave
  <2>2. queue' = queue \o <<Plain("error")>> /\ <<Plain("error")>> \in Seq(Events)
    BY <2>1, <1>t, <1>r, AppendIsConcat DEF Types
  <2> QED BY <2>2
<1> QED BY <1>1, <1>2, <1>3, <1>4, <1>5, <1>6, <1>7 DEF PollStep

\* While the response is open it only says more, and in the order of the queue.
LEMMA OnlySaysMore ==
  ASSUME TypeInv, [Next]_vars, stream = "live", stream' # "closed"
  PROVE  /\ stream' = "live" /\ Told' \in Seq(Events)
         /\ \A e : Has(Told, e) => Has(Told', e)
         /\ ~StreamNext => \A e : Has(queue, e) => Has(queue', e)
         /\ StreamNext => \A e : e # Head(queue) /\ Has(queue, e) => Has(queue', e)
<1>r. queue \in Seq(Events) /\ out \in Seq(Events) /\ Told \in Seq(Events)
  BY DEF TypeInv, Told
<1>m. ASSUME NEW more \in Seq(Events), stream' = stream, out' = out, queue' = queue \o more, ~StreamNext
      PROVE  /\ stream' = "live" /\ Told' \in Seq(Events)
             /\ \A e : Has(Told, e) => Has(Told', e)
             /\ \A e : Has(queue, e) => Has(queue', e)
  <2>1. Told' = Told \o more /\ Told' \in Seq(Events)
    BY SMTT(30), <1>m, <1>r DEF Told
  <2>2. \A e : Has(Told, e) => Has(Told', e)
    BY <2>1, <1>r, HasConcat
  <2>3. \A e : Has(queue, e) => Has(queue', e)
    BY <1>m, <1>r, HasConcat
  <2> QED BY <2>1, <2>2, <2>3, <1>m
<1>e. <<>> \in Seq(Events) /\ queue = queue \o <<>>
  BY <1>r
<1>1. CASE StreamNext
  <2>1. /\ stream' = stream /\ queue # <<>> /\ queue' = Tail(queue)
        /\ out' = Append(out, Head(queue))
    BY <1>1, GeneratorSpends
  <2>2. /\ Head(queue) \in Events /\ queue' \in Seq(Events) /\ out' = out \o <<Head(queue)>>
        /\ queue = <<Head(queue)>> \o queue'
    <3>1. /\ Head(queue) \in Events /\ Tail(queue) \in Seq(Events)
          /\ queue = <<Head(queue)>> \o Tail(queue)
      BY <2>1, <1>r
    <3>2. Append(out, Head(queue)) = out \o <<Head(queue)>>
      BY <3>1, <1>r, AppendIsConcat
    <3> QED BY <3>1, <3>2, <2>1
  <2>3. <<Head(queue)>> \in Seq(Events)
    BY <2>2
  <2>4. ASSUME NEW t \in Seq(Events), NEW u \in Seq(Events)
        PROVE  out \o (t \o u) = (out \o t) \o u
    BY <1>r, Regrouped, SMTT(30)
  <2>5. Told' = Told
    BY <2>2, <2>3, <2>4, Zenon DEF Told
  <2>6. ASSUME NEW e, e # Head(queue), Has(queue, e) PROVE Has(queue', e)
    <3>a. \A t \in Seq(Events) : Has(<<Head(queue)>> \o t, e) <=> Has(<<Head(queue)>>, e) \/ Has(t, e)
      BY <2>3, HasConcat
    <3>b. Has(<<Head(queue)>> \o queue', e)
      BY <2>2, <2>6, Zenon
    <3>1. Has(<<Head(queue)>>, e) \/ Has(queue', e)
      BY <3>a, <3>b, <2>2, Zenon
    <3> QED BY <3>1, <2>6, HasOne
  <2> QED BY <2>1, <2>5, <2>6, <1>1, <1>r
<1>2. CASE PollStep /\ ~StreamNext
  <2>1. UNCHANGED <<stream, out>>
    BY <1>2 DEF PollStep, PollRead, PollGone, PollSkills, PollFinalSkills, PollFetch, PollFetchNothing, PollWake,
                PollStopped, PollRaise, PollDone, PollerAlone
  <2>2. \E more \in Seq(Events) : queue' = queue \o more
    BY <1>2, PollSaysMore
  <2> QED BY <2>1, <2>2, <1>m, <1>2
<1>3. CASE ListenStep /\ ~StreamNext
  <2>1. UNCHANGED <<stream, out>> /\ (queue' = queue \/ queue' = Append(queue, Plain("error")))
    BY <1>3 DEF ListenStep, ListenSubscribe, ListenError, ListenStop, ListenRaise
  <2>2. Plain("error") \in Events
    BY PlainEvents DEF Types
  <2>3. queue' = queue \o <<>> \/ queue' = queue \o <<Plain("error")>>
    BY <2>1, <2>2, <1>r, <1>e, AppendIsConcat
  <2>4. <<Plain("error")>> \in Seq(Events)
    BY <2>2
  <2> QED BY <2>1, <2>3, <2>4, <1>e, <1>m, <1>3
<1>4. CASE ~PollStep /\ ~StreamNext /\ ~ListenStep
  <2>1. UNCHANGED client
    BY <1>4 DEF Next, vars, TaskStart, TaskNextRound, TaskAsk, TaskWriteFiles, TaskMatchSkills,
                TaskFinish, TaskFail, TaskAnnounce, Publish, Exists, Purge, StreamOpen, StreamFastPath,
                StreamLivePath, StreamDisconnect, StreamClose
  <2>2. stream' = stream /\ out' = out /\ queue' = queue \o <<>>
    BY <2>1, <1>e DEF client
  <2> QED BY <2>2, <1>4, <1>e, <1>m
<1> QED BY <1>1, <1>2, <1>3, <1>4

\* Inductive: the response is served, and what the poller remembers having asked was said.
ServedInv ==
  /\ ResponseIsServed
  /\ stream = "live" => \A n \in poller.clarification_sent : Has(Told, QuestionsEvent(n))

LEMMA PollServes ==
  ASSUME TypeInv, PollStep
  PROVE  /\ poller'.pc \in {"poll", "skills", "fetching", "final_skills", "sleeping", "closing"}
              \/ (poller'.pc = "done" /\ Has(queue', Done))
         /\ \A n \in poller'.clarification_sent :
              n \in poller.clarification_sent \/ Has(Told', QuestionsEvent(n))
<1>r. poller \in Poller /\ queue \in Seq(Events) /\ out \in Seq(Events)
  BY DEF TypeInv, TypeOK
<1>p. \A pc : /\ [poller EXCEPT !.pc = pc].pc = pc
              /\ [poller EXCEPT !.pc = pc].clarification_sent = poller.clarification_sent
  BY <1>r DEF Poller
<1>b. ASSUME NEW p \in Poller, NEW q \in Seq(Events), Branch(p, q)
      PROVE  /\ poller'.pc \in {"sleeping", "fetching", "final_skills", "closing"}
             /\ poller'.clarification_sent = p.clarification_sent
  <2>1. poller' = [p EXCEPT !.pc = poller'.pc] /\ poller'.pc \in {"sleeping", "fetching", "final_skills", "closing"}
    BY <1>b, BranchEffect
  <2>2. [p EXCEPT !.pc = poller'.pc].clarification_sent = p.clarification_sent
    BY DEF Poller
  <2> QED BY <2>1, <2>2
<1>1. CASE PollRead
  <2>1. AfterRead \in Poller /\ QueueAfterRead \in Seq(Events)
        /\ AfterRead.clarification_sent = poller.clarification_sent
    BY AfterReadIs
  <2>2. CASE Branch(AfterRead, QueueAfterRead)
    BY <2>1, <2>2, <1>b
  <2>3. CASE poller' = [AfterRead EXCEPT !.pc = "skills"]
    <3>1. poller'.pc = "skills" /\ poller'.clarification_sent = AfterRead.clarification_sent
      BY <2>3, <2>1 DEF Poller
    <3> QED BY <3>1, <2>1
  <2> QED BY <2>2, <2>3, <1>1 DEF PollRead
<1>2. CASE PollSkills
  <2>1. /\ [poller EXCEPT !.skills_sent = skills] \in Poller
        /\ [poller EXCEPT !.skills_sent = skills].clarification_sent = poller.clarification_sent
    BY <1>r DEF Poller, TypeInv, TypeOK
  <2>2. queue \o SkillEvents \in Seq(Events)
    BY <1>r, SkillEventsHas
  <2>3. Branch([poller EXCEPT !.skills_sent = skills], queue \o SkillEvents)
    BY <1>2 DEF PollSkills
  <2> QED BY <2>1, <2>2, <2>3, <1>b
<1>3. CASE PollGone \/ PollFinalSkills \/ PollStopped \/ PollRaise
  BY <1>3, <1>p DEF PollGone, PollFinalSkills, PollStopped, PollRaise, Leave
<1>4. CASE PollFetch
  <2> DEFINE asked == QuestionsEvent(poller.round)
  <2>1. poller'.pc = "sleeping" /\ poller'.clarification_sent = poller.clarification_sent \cup {poller.round}
    BY <1>4, <1>r DEF PollFetch, Poller
  <2>2. asked \in Events /\ <<asked>> \in Seq(Events)
    BY <1>r, StreamAssumption DEF QuestionsEvent, Event, Events, Types, Poller
  <2>3. queue' = queue \o <<asked>> /\ out' = out /\ queue' \in Seq(Events)
    BY <1>4, <1>r, <2>2, AppendIsConcat DEF PollFetch, PollerAlone
  <2> HIDE DEF asked
  <2>4. Has(<<asked>>, asked)
    BY HasOne
  <2>5. Has(out \o queue', asked)
    BY <2>2, <2>3, <2>4, <1>r, HasConcat
  <2> QED BY <2>1, <2>3, <2>5 DEF Told, asked
<1>5. CASE PollWake \/ PollFetchNothing
  BY <1>5, <1>p DEF PollWake, PollFetchNothing
<1>6. CASE PollDone
  <2>1. Done \in Events /\ <<Done>> \in Seq(Events)
    BY PlainEvents DEF Done, Types
  <2>2. queue' = queue \o <<Done>>
    BY <2>1, <1>6, <1>r, AppendIsConcat DEF PollDone
  <2>3. Has(<<Done>>, Done)
    BY HasOne
  <2>4. Has(queue', Done)
    BY <2>1, <2>2, <2>3, <1>r, HasConcat
  <2> QED BY <2>4, <1>6, <1>p DEF PollDone
<1> QED BY <1>1, <1>2, <1>3, <1>4, <1>5, <1>6 DEF PollStep

LEMMA ServedStep == TypeInv /\ ServedInv /\ [Next]_vars => ServedInv'
<1> SUFFICES ASSUME TypeInv, ServedInv, [Next]_vars, stream' = "live" PROVE ServedInv'
  BY DEF ServedInv, ResponseIsServed
<1>1. CASE stream # "live"
  <2>1. StreamLivePath
    BY <1>1 DEF Next, vars, client, row, TaskStart, TaskNextRound, TaskAsk, TaskWriteFiles,
                TaskMatchSkills, TaskFinish, TaskFail, TaskAnnounce, Publish, Exists, Purge, StreamOpen,
                StreamFastPath, StreamNext, StreamClose, StreamDisconnect, PollStep, PollRead,
                PollGone, PollSkills, PollFinalSkills, PollFetch, PollFetchNothing, PollWake, PollStopped, PollRaise, PollDone,
                PollerAlone, ListenStep, ListenSubscribe, ListenError, ListenStop, ListenRaise
  <2>2. poller'.pc = "poll" /\ poller'.clarification_sent = {}
    BY <2>1 DEF StreamLivePath, NewPoller
  <2> QED BY <2>2 DEF ServedInv, ResponseIsServed
<1>2. CASE stream = "live"
  <2>1. /\ \A e : Has(Told, e) => Has(Told', e)
        /\ ~StreamNext => \A e : Has(queue, e) => Has(queue', e)
        /\ StreamNext => \A e : e # Head(queue) /\ Has(queue, e) => Has(queue', e)
    BY <1>2, OnlySaysMore
  <2>2. \A n \in poller.clarification_sent : Has(Told', QuestionsEvent(n))
    BY <2>1, <1>2 DEF ServedInv
  <2>3. CASE PollStep
    BY <2>2, <2>3, PollServes DEF ServedInv, ResponseIsServed
  <2>4. CASE ~PollStep
    <3>1. poller' = poller
      <4>1. StreamNext => poller' = poller
        BY GeneratorSpends
      <4> QED
        BY <4>1, <2>4, <1>2
        DEF Next, vars, client, TaskStart, TaskNextRound, TaskAsk, TaskWriteFiles, TaskMatchSkills,
            TaskFinish, TaskFail, TaskAnnounce, Publish, Exists, Purge, StreamOpen, StreamFastPath, StreamLivePath,
            StreamDisconnect, StreamClose, ListenStep, ListenSubscribe, ListenError, ListenStop, ListenRaise
    <3>2. Has(queue, Done) => Has(queue', Done)
      <4>1. StreamNext => Head(queue) # Done
        BY GeneratorSpends
      <4> QED BY <4>1, <2>1
    <3> QED BY <3>1, <3>2, <2>2, <1>2 DEF ServedInv, ResponseIsServed
  <2> QED BY <2>3, <2>4
<1> QED BY <1>1, <1>2

LEMMA ServedAlways == Spec => [](TypeInv /\ ServedInv)
<1>1. Init => TypeInv /\ ServedInv
  BY TypeInit DEF Init, ServedInv, ResponseIsServed
<1>2. TypeInv /\ ServedInv /\ [Next]_vars => (TypeInv /\ ServedInv)'
  BY TypeStep, ServedStep
<1> QED BY <1>1, <1>2, PTL DEF Spec

\* An open response never waits for an event that nobody will put, and once the persona has
\* failed, is generated or purged, or the poller has given up, every step but those that concern only
\* the persona brings the end nearer: _poll_db's finally block and the generator's loop.
THEOREM StreamComesToItsEnd ==
  Spec => [](ResponseIsServed /\ Remaining \in Nat) /\ [][EndComesNearer]_vars
<1>1. TypeInv /\ ServedInv => ResponseIsServed /\ Remaining \in Nat
  BY RemainingType DEF ServedInv
<1>2. TypeInv /\ [Next]_vars => [EndComesNearer]_vars
  BY EndStep
<1> QED BY <1>1, <1>2, ServedAlways, PTL DEF Spec

\* Round n is the one the persona waits in, and the poller has still to ask it.
Asked(n) == stream = "live" /\ ~gone /\ status = "needs_clarification" /\ rounds = n
Unasked(n) == poller.pc \notin {"closing", "done"} /\ n \notin poller.clarification_sent

\* The steps poller p needs at most until it has queued the questions of round n, if the row
\* stays as it is: what it has read of an earlier row costs another poll.
UntilAsked(p, n) ==
  CASE p.pc = "final_skills" -> 1
    [] p.pc = "fetching" -> IF p.round = n THEN 1 ELSE 5
    [] p.pc = "skills" -> IF p.status = "needs_clarification" /\ p.round = n THEN 2 ELSE 6
    [] p.pc = "poll" -> 3
    [] p.pc = "sleeping" -> 4
    [] OTHER -> 0

RoundComesNearer ==
  \A n \in 1..MaxRounds : Asked(n) /\ Unasked(n) =>
    \/ ~Asked(n)' \/ ~Unasked(n)'
    \/ UntilAsked(poller', n) < UntilAsked(poller, n)
    \/ UNCHANGED poller /\ ~PollStep

LEMMA BranchAsks ==
  ASSUME NEW p \in Poller, NEW q \in Seq(Events), Branch(p, q), NEW n \in Nat, n \notin p.clarification_sent
  PROVE  /\ UntilAsked(poller', n) <= 5
         /\ p.status = "needs_clarification" /\ p.round = n => UntilAsked(poller', n) = 1
<1>1. /\ poller' = [p EXCEPT !.pc = poller'.pc]
      /\ poller'.pc \in {"sleeping", "fetching", "final_skills", "closing"}
  BY BranchEffect
<1>2. poller'.round = p.round
  BY <1>1 DEF Poller
<1>3. CASE p.status = "needs_clarification" /\ p.round = n
  <2>1. poller' = [p EXCEPT !.pc = "fetching"]
    BY <1>3 DEF Branch, Succeeded, Shown
  <2>2. poller'.pc = "fetching"
    BY <2>1 DEF Poller
  <2> QED BY <2>2, <1>2, <1>3 DEF UntilAsked
<1>4. CASE ~(p.status = "needs_clarification" /\ p.round = n)
  BY <1>4, <1>1 DEF UntilAsked
<1> QED BY <1>3, <1>4

LEMMA PollAsks ==
  ASSUME TypeInv, PollStep, NEW n \in 1..MaxRounds, Asked(n), Unasked(n), Unasked(n)'
  PROVE  UntilAsked(poller', n) < UntilAsked(poller, n)
<1>r. /\ poller \in Poller /\ queue \in Seq(Events) /\ skills \in BOOLEAN /\ n \in Nat
      /\ ~gone /\ status = "needs_clarification" /\ rounds = n /\ n \notin poller.clarification_sent
  BY StreamAssumption DEF TypeInv, TypeOK, Asked, Unasked
<1>p. \A pc : [poller EXCEPT !.pc = pc].pc = pc
  BY <1>r DEF Poller
<1>1. CASE PollRead
  <2>1. /\ AfterRead \in Poller /\ AfterRead.status = "needs_clarification" /\ AfterRead.round = n
        /\ QueueAfterRead \in Seq(Events) /\ n \notin AfterRead.clarification_sent
    BY AfterReadIs, <1>r
  <2>2. UntilAsked(poller, n) = 3
    BY <1>1 DEF PollRead, UntilAsked
  <2>3. CASE Branch(AfterRead, QueueAfterRead)
    <3>1. UntilAsked(poller', n) = 1
      BY <2>1, <2>3, <1>r, BranchAsks
    <3> QED BY <3>1, <2>2
  <2>4. CASE poller' = [AfterRead EXCEPT !.pc = "skills"]
    <3>1. poller'.pc = "skills" /\ poller'.status = "needs_clarification" /\ poller'.round = n
      BY <2>4, <2>1 DEF Poller
    <3> QED BY <3>1, <2>2 DEF UntilAsked
  <2> QED BY <2>3, <2>4, <1>1 DEF PollRead
<1>2. CASE PollSkills
  <2> DEFINE p == [poller EXCEPT !.skills_sent = skills]
  <2>1. /\ p \in Poller /\ p.status = poller.status /\ p.round = poller.round
        /\ n \notin p.clarification_sent /\ Branch(p, queue \o SkillEvents) /\ poller.pc = "skills"
    BY <1>2, <1>r DEF PollSkills, Poller
  <2> HIDE DEF p
  <2>2. queue \o SkillEvents \in Seq(Events)
    BY <1>r, SkillEventsHas
  <2>3. /\ UntilAsked(poller', n) <= 5
        /\ poller.status = "needs_clarification" /\ poller.round = n => UntilAsked(poller', n) = 1
    BY <2>1, <2>2, <1>r, BranchAsks
  <2>4. UntilAsked(poller', n) \in Nat
    BY DEF UntilAsked
  <2>5. /\ poller.status = "needs_clarification" /\ poller.round = n => UntilAsked(poller, n) = 2
        /\ ~(poller.status = "needs_clarification" /\ poller.round = n) => UntilAsked(poller, n) = 6
    BY <2>1 DEF UntilAsked
  <2> QED BY <2>3, <2>4, <2>5
<1>3. CASE PollFinalSkills \/ PollStopped \/ PollRaise \/ PollDone
  <2>1. poller'.pc \in {"closing", "done"}
    BY <1>3, <1>p DEF PollFinalSkills, PollStopped, PollRaise, PollDone, Leave
  <2> QED BY <2>1 DEF Unasked
<1>4. CASE PollFetch
  <2>1. /\ poller.pc = "fetching" /\ poller'.pc = "sleeping"
        /\ poller'.clarification_sent = poller.clarification_sent \cup {poller.round}
    BY <1>4, <1>r DEF PollFetch, Poller
  <2>2. poller.round # n
    BY <2>1 DEF Unasked
  <2> QED BY <2>1, <2>2 DEF UntilAsked
<1>5. CASE PollWake
  <2>1. poller.pc = "sleeping" /\ poller'.pc = "poll"
    BY <1>5, <1>p DEF PollWake
  <2> QED BY <2>1 DEF UntilAsked
<1>6. ~PollGone /\ ~PollFetchNothing
  BY <1>r DEF PollGone, PollFetchNothing
<1> QED BY <1>1, <1>2, <1>3, <1>4, <1>5, <1>6 DEF PollStep

LEMMA RoundStep == TypeInv /\ [Next]_vars => RoundComesNearer
<1> SUFFICES ASSUME TypeInv, [Next]_vars, NEW n \in 1..MaxRounds, Asked(n), Unasked(n), Asked(n)', Unasked(n)'
             PROVE  \/ UntilAsked(poller', n) < UntilAsked(poller, n)
                    \/ UNCHANGED poller /\ ~PollStep
  BY DEF RoundComesNearer
<1>1. CASE PollStep
  BY <1>1, PollAsks
<1>2. CASE ~PollStep
  <2>1. stream = "live" /\ stream' = "live"
    BY DEF Asked
  <2>2. StreamNext => poller' = poller
    BY <2>1, GeneratorSpends
  <2> QED
    BY <1>2, <2>1, <2>2
    DEF Next, vars, client, TaskStart, TaskNextRound, TaskAsk, TaskWriteFiles, TaskMatchSkills,
        TaskFinish, TaskFail, TaskAnnounce, Publish, Exists, Purge, StreamOpen, StreamFastPath, StreamLivePath,
        StreamDisconnect, StreamClose, ListenStep, ListenSubscribe, ListenError, ListenStop, ListenRaise
<1> QED BY <1>1, <1>2

\* Whatever the poller remembers having asked has been received or waits in the queue, and a
\* round that stays asked is queued after six of the poller's steps at most, even if it was
\* at work on an earlier state of the row: _poll_db's clarification_sent and its re-reads.
THEOREM RoundsAreQueued ==
  Spec => /\ [](stream = "live" => \A n \in poller.clarification_sent : Has(Told, QuestionsEvent(n)))
          /\ [][RoundComesNearer]_vars
<1>1. TypeInv /\ ServedInv =>
        (stream = "live" => \A n \in poller.clarification_sent : Has(Told, QuestionsEvent(n)))
  BY DEF ServedInv
<1>2. TypeInv /\ [Next]_vars => [RoundComesNearer]_vars
  BY RoundStep
<1> QED BY <1>1, <1>2, ServedAlways, PTL DEF Spec

=============================================================================
