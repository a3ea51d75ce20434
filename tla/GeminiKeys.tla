----------------------------- MODULE GeminiKeys -----------------------------
(***************************************************************************)
(* The Gemini keys of one process: the key manager all adapters share      *)
(* (llm/key_manager.py) and the adapters themselves (llm/gemini.py), one   *)
(* per task run, whose LLM calls overlap when the process runs several     *)
(* tasks.  What Gemini answers is arbitrary.                               *)
(***************************************************************************)
EXTENDS Naturals

CONSTANTS
  KeyCount,      \* the configured keys are 1..KeyCount
  Adapters       \* adapters alive at one time

ASSUME KeyCountAssumption == KeyCount \in Nat \ {0}

VARIABLES
  index,         \* GeminiKeyManager._index
  marked,        \* keys whose ManagedKey.exhausted is set; nothing clears it
  adapter,       \* per adapter: its progress, its client's key and the key it will blame
  refused,       \* history: keys that were answered 429
  misjudged      \* history: keys blamed for a 429 that another key was answered

keyVars == <<index, marked, adapter, refused, misjudged>>

-----------------------------------------------------------------------------
KeyNames == 1..KeyCount
Adapter == [pc : {"none", "ready", "calling", "refused", "retrying"},
            client : 0..KeyCount, blamed : 0..KeyCount]
NoAdapter == [pc |-> "none", client |-> 0, blamed |-> 0]

KeysTypeOK ==
  /\ index \in KeyNames
  /\ marked \subseteq KeyNames
  /\ adapter \in [Adapters -> Adapter]
  /\ refused \subseteq KeyNames
  /\ misjudged \subseteq KeyNames

KeysInit ==
  /\ index = 1
  /\ marked = {}
  /\ adapter = [a \in Adapters |-> NoAdapter]
  /\ refused = {}
  /\ misjudged = {}

Adapt(a, new) == adapter' = [adapter EXCEPT ![a] = new]

-----------------------------------------------------------------------------
(* GeminiAdapter *)

Build(a) ==
  /\ adapter[a].pc = "none"
  /\ Adapt(a, [pc |-> "ready", client |-> index, blamed |-> 0])
  /\ UNCHANGED <<index, marked, refused, misjudged>>

\* generate or stream begins: the key to blame is the manager's, not the client's.
Call(a) ==
  /\ adapter[a].pc = "ready"
  /\ Adapt(a, [adapter[a] EXCEPT !.pc = "calling", !.blamed = index])
  /\ UNCHANGED <<index, marked, refused, misjudged>>

Answered(a) ==
  /\ adapter[a].pc \in {"calling", "retrying"}
  /\ Adapt(a, [adapter[a] EXCEPT !.pc = "ready"])
  /\ UNCHANGED <<index, marked, refused, misjudged>>

\* Another error, or any error of the second attempt, ends the task run.
Fails(a) ==
  /\ adapter[a].pc \in {"calling", "retrying"}
  /\ Adapt(a, NoAdapter)
  /\ UNCHANGED <<index, marked, refused, misjudged>>

\* 429 at the first attempt: the adapter waits for the manager's lock.
Refused(a) ==
  /\ adapter[a].pc = "calling"
  /\ Adapt(a, [adapter[a] EXCEPT !.pc = "refused"])
  /\ refused' = refused \cup {adapter[a].client}
  /\ misjudged' = IF adapter[a].blamed = adapter[a].client THEN misjudged
                  ELSE misjudged \cup {adapter[a].blamed}
  /\ UNCHANGED <<index, marked>>

-----------------------------------------------------------------------------
(* GeminiKeyManager.rotate *)

Following(n) == ((index + n - 1) % KeyCount) + 1
Exhausted(key) == key \in marked \cup {index}

\* The first key after the current one that is not exhausted, or the current one after a
\* whole round.
NextIndex ==
  LET n == CHOOSE m \in 1..KeyCount :
             /\ m = KeyCount \/ ~Exhausted(Following(m))
             /\ \A l \in 1..(m - 1) : Exhausted(Following(l))
  IN Following(n)

\* Mutant: whoever is refused rotates, even if the key was rotated away while it waited.
StaleNever(a) == FALSE

Stale(a) == adapter[a].blamed # index

\* The key was rotated away by another adapter: the new one is simply used.
RotatedByAnother(a) ==
  /\ adapter[a].pc = "refused"
  /\ Stale(a)
  /\ Adapt(a, [adapter[a] EXCEPT !.pc = "retrying", !.client = index])
  /\ UNCHANGED <<index, marked, refused, misjudged>>

\* Mark and advance; when every key is exhausted the task run ends.
MarkAndAdvance(a) ==
  /\ adapter[a].pc = "refused"
  /\ ~Stale(a)
  /\ marked' = marked \cup {index}
  /\ index' = NextIndex
  /\ IF Exhausted(NextIndex) THEN Adapt(a, NoAdapter)
     ELSE Adapt(a, [adapter[a] EXCEPT !.pc = "retrying", !.client = NextIndex])
  /\ UNCHANGED <<refused, misjudged>>

KeyStep(a) ==
  \/ Build(a) \/ Call(a) \/ Answered(a) \/ Fails(a) \/ Refused(a)
  \/ RotatedByAnother(a) \/ MarkAndAdvance(a)

KeysNext == \E a \in Adapters : KeyStep(a)

KeysSpec == KeysInit /\ [][KeysNext]_keyVars

-----------------------------------------------------------------------------
(* Properties *)

\* "only mark if this key is actually the current one and hasn't already been marked
\* (concurrent requests may race here)": however many calls are refused together, a key is
\* marked only if it was itself refused, or was blamed by an adapter whose client was older
\* than the manager's current key; and an exhausted key is current only when all are.
OnlyRefusedKeysMarked ==
  /\ marked \subseteq refused \cup misjudged
  /\ index \in marked => marked = KeyNames
=============================================================================
