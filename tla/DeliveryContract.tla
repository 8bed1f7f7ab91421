-------------------------- MODULE DeliveryContract --------------------------
(***************************************************************************)
(* What the webhook outbox promises its operator and its receiver, without *)
(* workers, leases, batches or clocks: a delivery that was accepted into   *)
(* the outbox is owed until it is either delivered or given up, it is      *)
(* tried a bounded number of times, and once it is settled nothing about   *)
(* it moves again.                                                         *)
(***************************************************************************)
EXTENDS Naturals

CONSTANTS
  Delivery,      \* the rows an outbox may ever hold
  MaxAttempts    \* WEBHOOK_OUTBOX_MAX_ATTEMPTS

VARIABLES
  outcome,       \* outcome[d] : "absent", "owed", "delivered" or "dead"
  tries,         \* tries[d] : attempts begun for d
  accepted       \* accepted[d] : the endpoint has answered 2xx to a request for d

vars == <<outcome, tries, accepted>>

Init ==
  /\ outcome  = [d \in Delivery |-> "absent"]
  /\ tries    = [d \in Delivery |-> 0]
  /\ accepted = [d \in Delivery |-> FALSE]

Owe(d) ==
  /\ outcome[d] = "absent"
  /\ outcome' = [outcome EXCEPT ![d] = "owed"]
  /\ UNCHANGED <<tries, accepted>>

\* A worker claims a batch: one more attempt for every row of it.
Try(S) ==
  /\ \A d \in S : outcome[d] = "owed" /\ tries[d] < MaxAttempts
  /\ tries' = [d \in Delivery |-> IF d \in S THEN tries[d] + 1 ELSE tries[d]]
  /\ UNCHANGED <<outcome, accepted>>

Accept(d) ==
  /\ outcome[d] = "owed"
  /\ tries[d] > 0
  /\ accepted' = [accepted EXCEPT ![d] = TRUE]
  /\ UNCHANGED <<outcome, tries>>

Deliver(d) ==
  /\ outcome[d] = "owed"
  /\ accepted[d]
  /\ outcome' = [outcome EXCEPT ![d] = "delivered"]
  /\ UNCHANGED <<tries, accepted>>

GiveUp(d) ==
  /\ outcome[d] = "owed"
  /\ tries[d] >= MaxAttempts
  /\ outcome' = [outcome EXCEPT ![d] = "dead"]
  /\ UNCHANGED <<tries, accepted>>

Next ==
  \/ \E S \in SUBSET Delivery : Try(S)
  \/ \E d \in Delivery : Owe(d) \/ Accept(d) \/ Deliver(d) \/ GiveUp(d)

Spec == Init /\ [][Next]_vars
=============================================================================
