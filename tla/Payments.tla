------------------------------ MODULE Payments ------------------------------
(***************************************************************************)
(* One user's payments for private publishing (endpoints/payment.py):      *)
(* checkout requests, each of which creates a Stripe session before its    *)
(* row is committed, and Stripe's webhooks, which may come late, in any    *)
(* order and more than once, and whose handlers overlap.  A checkout, its  *)
(* Stripe session, its payment intent and its row are one identifier.      *)
(***************************************************************************)
CONSTANTS
  Checkouts,
  Hooks          \* webhook requests that may be handled at one time

VARIABLES
  checkout,      \* progress of each POST /payment/checkout
  stripe,        \* what happened at Stripe, and so which events it may send
  transaction,   \* the payment_transactions rows
  hook,          \* progress of each webhook handler
  late           \* history: a refusal was found to concern a completed checkout

paymentVars == <<checkout, stripe, transaction, hook, late>>

-----------------------------------------------------------------------------
Statuses == {"none", "pending", "succeeded", "failed"}
Transaction == [status : Statuses, intent : BOOLEAN]     \* intent: its id is stored
NoTransaction == [status |-> "none", intent |-> FALSE]
StripeSession == [refused : BOOLEAN, completed : {"no", "paid", "unpaid"}]
Untouched == [refused |-> FALSE, completed |-> "no"]
NoHook == [event |-> "none"]
Hook == [event : {"completed", "refused"}, of : Checkouts, seen : Statuses] \cup {NoHook}

PaymentsTypeOK ==
  /\ checkout \in [Checkouts -> {"idle", "checked", "created", "committed", "ended"}]
  /\ stripe \in [Checkouts -> StripeSession]
  /\ transaction \in [Checkouts -> Transaction]
  /\ hook \in [Hooks -> Hook]
  /\ late \in [Checkouts -> BOOLEAN]

PaymentsInit ==
  /\ checkout = [c \in Checkouts |-> "idle"]
  /\ stripe = [c \in Checkouts |-> Untouched]
  /\ transaction = [c \in Checkouts |-> NoTransaction]
  /\ hook = [h \in Hooks |-> NoHook]
  /\ late = [c \in Checkouts |-> FALSE]

-----------------------------------------------------------------------------
(* create_checkout_session *)

AlreadyPaid == \E c \in Checkouts : transaction[c].status = "succeeded"

CheckoutLooks(c) ==
  /\ checkout[c] = "idle"
  /\ checkout' = [checkout EXCEPT ![c] = IF AlreadyPaid THEN "ended" ELSE "checked"]
  /\ UNCHANGED <<stripe, transaction, hook, late>>

CheckoutCreates(c) ==
  /\ checkout[c] = "checked"
  /\ checkout' = [checkout EXCEPT ![c] = "created"]
  /\ UNCHANGED <<stripe, transaction, hook, late>>

\* The row is committed, and only then is the customer told where to pay.
CheckoutCommits(c) ==
  /\ checkout[c] = "created"
  /\ checkout' = [checkout EXCEPT ![c] = "committed"]
  /\ transaction' = [transaction EXCEPT ![c].status = "pending"]
  /\ UNCHANGED <<stripe, hook, late>>

\* Stripe or the commit fails: a session nobody knows may be left at Stripe.
CheckoutFails(c) ==
  /\ checkout[c] \in {"checked", "created"}
  /\ checkout' = [checkout EXCEPT ![c] = "ended"]
  /\ UNCHANGED <<stripe, transaction, hook, late>>

-----------------------------------------------------------------------------
(* The customer at Stripe: cards may be refused before the session is completed. *)

CardRefused(c) ==
  /\ checkout[c] = "committed"
  /\ stripe[c].completed = "no"
  /\ stripe' = [stripe EXCEPT ![c].refused = TRUE]
  /\ UNCHANGED <<checkout, transaction, hook, late>>

SessionCompleted(c) ==
  /\ checkout[c] = "committed"
  /\ stripe[c].completed = "no"
  /\ \E outcome \in {"paid", "unpaid"} :
       stripe' = [stripe EXCEPT ![c].completed = outcome]
  /\ UNCHANGED <<checkout, transaction, hook, late>>

-----------------------------------------------------------------------------
(* stripe_webhook *)

\* checkout.session.completed finds its row by the session.
CompletedArrives(h, c) ==
  /\ hook[h] = NoHook
  /\ stripe[c].completed # "no"
  /\ transaction[c].status # "none"
  /\ hook' = [hook EXCEPT ![h] =
       [event |-> "completed", of |-> c, seen |-> transaction[c].status]]
  /\ UNCHANGED <<checkout, stripe, transaction, late>>

\* payment_intent.payment_failed finds its row by the intent, which a completion has stored;
\* before that the event is acknowledged and forgotten.
RefusalArrives(h, c) ==
  /\ hook[h] = NoHook
  /\ stripe[c].refused
  /\ transaction[c].intent
  /\ hook' = [hook EXCEPT ![h] =
       [event |-> "refused", of |-> c, seen |-> transaction[c].status]]
  /\ late' = [late EXCEPT ![c] = TRUE]
  /\ UNCHANGED <<checkout, stripe, transaction>>

\* Mutant: a completed session is taken for a paid one.
OutcomeTrusting(h) == IF hook[h].event = "completed" THEN "succeeded" ELSE "failed"

Outcome(h) ==
  IF hook[h].event = "completed" /\ stripe[hook[h].of].completed = "paid"
  THEN "succeeded" ELSE "failed"

\* The commit: a column is written when its new value is not the one that was read.
HookCommits(h) ==
  /\ hook[h] # NoHook
  /\ transaction' = [transaction EXCEPT ![hook[h].of] =
       [status |-> IF Outcome(h) = hook[h].seen THEN @.status ELSE Outcome(h),
        intent |-> TRUE]]
  /\ hook' = [hook EXCEPT ![h] = NoHook]
  /\ UNCHANGED <<checkout, stripe, late>>

CheckoutStep(c) ==
  \/ CheckoutLooks(c) \/ CheckoutCreates(c) \/ CheckoutCommits(c) \/ CheckoutFails(c)
  \/ CardRefused(c) \/ SessionCompleted(c)

HookStep(h) ==
  \/ \E c \in Checkouts : CompletedArrives(h, c) \/ RefusalArrives(h, c)
  \/ HookCommits(h)

PaymentsNext == (\E c \in Checkouts : CheckoutStep(c)) \/ (\E h \in Hooks : HookStep(h))

PaymentsSpec == PaymentsInit /\ [][PaymentsNext]_paymentVars

-----------------------------------------------------------------------------
(* Properties *)

\* payment.py: private publishing is unlocked only by a session that was paid, and a paid
\* one that has been reported unlocks it for good, whatever the order and the number of the
\* reports, unless a refused card is reported after the completion (:136 overwrites then).
PaymentSettled ==
  \A c \in Checkouts :
    /\ transaction[c].status = "succeeded" => stripe[c].completed = "paid"
    /\ transaction[c].intent /\ stripe[c].completed = "paid" /\ ~late[c] =>
         transaction[c].status = "succeeded"
=============================================================================
