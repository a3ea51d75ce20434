-------------------------- MODULE PersonaLifecycle --------------------------
(***************************************************************************)
(* What the API promises about a persona row while it is generated: the    *)
(* values of status, clarification_rounds and error_code that a reader of  *)
(* the row (the status endpoint, the SSE poller, the publisher) can see,   *)
(* and the order in which it can see them.  Failed and generated are       *)
(* final, except that a generated persona may be published.                *)
(***************************************************************************)
EXTENDS Naturals

CONSTANTS MaxRounds, NoError

VARIABLES status, rounds, error

lifecycle == <<status, rounds, error>>

InProgress == {"draft", "generating", "needs_clarification", "skills_matching"}

Init == status = "absent" /\ rounds = 0 /\ error = NoError

Create ==
  /\ status = "absent"
  /\ status' = "draft"
  /\ UNCHANGED <<rounds, error>>

\* A round starts: the first, one after an answer, or one of a restarted task.
Generate ==
  /\ status \in InProgress
  /\ status' = "generating"
  /\ UNCHANGED <<rounds, error>>

Ask ==
  /\ status = "generating"
  /\ rounds < MaxRounds
  /\ status' = "needs_clarification"
  /\ rounds' = rounds + 1
  /\ UNCHANGED error

MatchSkills ==
  /\ status = "generating"
  /\ status' = "skills_matching"
  /\ UNCHANGED <<rounds, error>>

Finish ==
  /\ status = "skills_matching"
  /\ status' = "generated"
  /\ UNCHANGED <<rounds, error>>

\* A failure is always explained by an error code.
Fail ==
  /\ status \in InProgress
  /\ status' = "failed"
  /\ error' # NoError
  /\ UNCHANGED rounds

Publish ==
  /\ status = "generated"
  /\ status' = "published"
  /\ UNCHANGED <<rounds, error>>

Next == Create \/ Generate \/ Ask \/ MatchSkills \/ Finish \/ Fail \/ Publish

Spec == Init /\ [][Next]_lifecycle
=============================================================================
