--------------------------- MODULE Notifications ---------------------------
(***************************************************************************)
(* The control tower's notification queue (services/notificationWorker.ts, *)
(* services/notifications.ts): a finding or snapshot enqueues one delivery *)
(* for each active destination; processes claim deliveries under a lease   *)
(* and hand them to an adapter, which writes an inbox row or leaves them   *)
(* to an extension; destinations are enabled and disabled meanwhile.       *)
(*                                                                         *)
(* due is the order in which a claim looks at the rows whose               *)
(* next_attempt_at has come.  A row keeps its place while it is being      *)
(* delivered, since only a failure changes next_attempt_at.                *)
(***************************************************************************)
EXTENDS Integers, FiniteSets, Sequences, SequencesExt

CONSTANTS
  Delivery,       \* notification_deliveries rows: a result and a destination
  Destination,    \* notification_destinations rows
  DestinationOf,
  Extension,      \* the destinations of kind `outbox'; the others are `in_product'
  Notifier,       \* processes that run NotificationWorker
  MaxDeliveryAttempts, DeliveryBatch,   \* AutomationWorkerOptions
  MaxTroubles     \* bound: changes of a destination and processes that stop, together

NotificationsAssumption ==
  /\ DestinationOf \in [Delivery -> Destination]
  /\ Extension \subseteq Destination
  /\ MaxDeliveryAttempts \in Nat \ {0}
  /\ DeliveryBatch \in Nat \ {0}
  /\ MaxTroubles \in Nat

VARIABLES
  dest,       \* notification_destinations.status: active or not
  seen,       \* deliveries whose enqueuing transaction has read the active destinations
  status,     \* notification_deliveries.status
  attempts,   \* notification_deliveries.attempt_count
  leased,     \* lease_until has not come
  due,        \* the rows whose next_attempt_at has come, earliest first
  log,        \* the attempts of each delivery with a row in notification_delivery_attempts
  inbox,      \* notification_inbox rows of each delivery
  holds,      \* holds[w][d]: the attempt under which w claimed d, 0 if it did not
  troubles    \* changes of a destination and processes that stopped

table      == <<status, attempts, leased, due, log, inbox>>
notifyVars == <<dest, seen, table, holds, troubles>>

RowStatus == {"absent", "pending", "delivering", "delivered", "ready_for_extension",
              "failed", "dead", "not_configured"}
MaxClaims == MaxDeliveryAttempts + Cardinality(Notifier) + MaxTroubles
Attempt   == 0 .. MaxClaims
NoAttempt == [d \in Delivery |-> 0]
SettledDelivery == {"delivered", "ready_for_extension", "dead", "not_configured"}
Active(d) == dest[DestinationOf[d]]

NotifyInit ==
  /\ dest \in [Destination -> BOOLEAN]
  /\ seen = {}
  /\ status = [d \in Delivery |-> "absent"]
  /\ attempts = NoAttempt
  /\ leased = [d \in Delivery |-> FALSE]
  /\ due = <<>>
  /\ log = [d \in Delivery |-> {}]
  /\ inbox = NoAttempt
  /\ holds = [w \in Notifier |-> NoAttempt]
  /\ troubles = 0

-----------------------------------------------------------------------------
(* Enqueueing and destinations.                                             *)

\* enqueueNotifications reads the active destinations.  For one that is not
\* active nothing is enqueued, or a row that will never be claimed.
ReadActive(d) ==
  /\ status[d] = "absent" /\ d \notin seen
  /\ IF Active(d)
     THEN seen' = seen \cup {d} /\ UNCHANGED status
     ELSE seen' = seen /\ status' = [status EXCEPT ![d] = "not_configured"]
  /\ UNCHANGED <<dest, attempts, leased, due, log, inbox, holds, troubles>>

\* Its INSERT is committed, whether or not the destination is still active.
Enqueue(d) ==
  /\ d \in seen
  /\ seen' = seen \ {d}
  /\ status' = [status EXCEPT ![d] = "pending"]
  /\ due' = Append(due, d)
  /\ UNCHANGED <<dest, attempts, leased, log, inbox, holds, troubles>>

\* transitionNotificationDestination: disabling, even once more, clears what is
\* waiting, not what is being delivered or not yet committed.  Enabling what is
\* enabled changes nothing.
TransitionDestination(x, active) ==
  LET cleared == {d \in Delivery : /\ ~active /\ DestinationOf[d] = x
                                   /\ status[d] \in {"pending", "failed"}} IN
  /\ ~dest[x] \/ ~active
  /\ troubles < MaxTroubles
  /\ troubles' = troubles + 1
  /\ dest' = [dest EXCEPT ![x] = active]
  /\ status' = [d \in Delivery |-> IF d \in cleared THEN "not_configured" ELSE status[d]]
  /\ due' = SelectSeq(due, LAMBDA d : d \notin cleared)
  /\ UNCHANGED <<seen, attempts, leased, log, inbox, holds>>

-----------------------------------------------------------------------------
(* One run of NotificationWorker.                                           *)

\* Mutant: deliveries of a lost process are never taken over.
DeliveryWithoutTakeover(d) == status[d] \in {"pending", "failed"}

ClaimableDelivery(d) ==
  \/ status[d] \in {"pending", "failed"}
  \/ status[d] = "delivering" /\ ~leased[d]

\* Mutant: the attempt is counted when it ends.
NextAttemptLate(d) == IF attempts[d] = 0 THEN 1 ELSE attempts[d]

NextAttempt(d) == attempts[d] + 1

\* ORDER BY next_attempt_at ... LIMIT.
Picked(rows) == SubSeq(rows, 1, Min({DeliveryBatch, Len(rows)}))

\* claim: the first BatchSize claimable rows, of which those are taken whose
\* destination is active.  The others keep their place in front of the queue.
Claim(w) ==
  LET taken == {d \in ToSet(Picked(SelectSeq(due, ClaimableDelivery))) : Active(d)} IN
  /\ holds[w] = NoAttempt
  /\ taken # {}
  /\ status' = [d \in Delivery |-> IF d \in taken THEN "delivering" ELSE status[d]]
  /\ leased' = [d \in Delivery |-> leased[d] \/ d \in taken]
  /\ attempts' = [d \in Delivery |-> IF d \in taken THEN NextAttempt(d) ELSE attempts[d]]
  /\ holds' = [holds EXCEPT ![w] =
                 [d \in Delivery |-> IF d \in taken THEN attempts'[d] ELSE 0]]
  /\ UNCHANGED <<dest, seen, due, log, inbox, troubles>>

Release(w, d) == holds' = [holds EXCEPT ![w] = [@ EXCEPT ![d] = 0]]

\* InProductAdapter: INSERT ... ON CONFLICT (project_id, delivery_id) DO NOTHING.
InboxAfter(d) == [inbox EXCEPT ![d] = 1]

\* The adapter, the attempt row and the status in one transaction.  Neither
\* asks whether the worker still holds the delivery.
Deliver(w, d) ==
  LET s == IF DestinationOf[d] \in Extension THEN "ready_for_extension" ELSE "delivered" IN
  /\ holds[w][d] > 0
  /\ holds[w][d] \notin log[d]
  /\ inbox' = IF DestinationOf[d] \in Extension THEN inbox ELSE InboxAfter(d)
  /\ log' = [log EXCEPT ![d] = @ \cup {holds[w][d]}]
  /\ status' = [status EXCEPT ![d] = s]
  /\ leased' = [leased EXCEPT ![d] = FALSE]
  /\ due' = SelectSeq(due, LAMBDA o : o # d)
  /\ Release(w, d)
  /\ UNCHANGED <<dest, seen, attempts, troubles>>

\* The adapter or its transaction failed; the failure is recorded by another.
DeliveryFails(w, d) ==
  /\ holds[w][d] > 0
  /\ holds[w][d] \notin log[d]
  /\ log' = [log EXCEPT ![d] = @ \cup {holds[w][d]}]
  /\ status' = [status EXCEPT ![d] = IF holds[w][d] >= MaxDeliveryAttempts THEN "dead" ELSE "failed"]
  /\ leased' = [leased EXCEPT ![d] = FALSE]
  /\ due' = SelectSeq(due, LAMBDA o : o # d)
  /\ Release(w, d)
  /\ UNCHANGED <<dest, seen, attempts, inbox, troubles>>

\* The process stops, or recording the failure fails and ends the run.
NotifierStops(w) ==
  /\ holds[w] # NoAttempt
  /\ troubles < MaxTroubles
  /\ troubles' = troubles + 1
  /\ holds' = [holds EXCEPT ![w] = NoAttempt]
  /\ UNCHANGED <<dest, seen, table>>

DeliveryLeaseEnds(d) ==
  /\ leased[d]
  /\ leased' = [leased EXCEPT ![d] = FALSE]
  /\ UNCHANGED <<dest, seen, status, attempts, due, log, inbox, holds, troubles>>

\* The delay of a failed delivery is over: its next_attempt_at is the latest.
RetryComesDue(d) ==
  /\ status[d] = "failed"
  /\ d \notin ToSet(due)
  /\ due' = Append(due, d)
  /\ UNCHANGED <<dest, seen, status, attempts, leased, log, inbox, holds, troubles>>

Notify(w) == Claim(w) \/ \E d \in Delivery : Deliver(w, d) \/ DeliveryFails(w, d)

NotifyNext ==
  \/ \E d \in Delivery : ReadActive(d) \/ Enqueue(d) \/ DeliveryLeaseEnds(d) \/ RetryComesDue(d)
  \/ \E x \in Destination, active \in BOOLEAN : TransitionDestination(x, active)
  \/ \E w \in Notifier : Notify(w) \/ NotifierStops(w)

NotifySpec == NotifyInit /\ [][NotifyNext]_notifyVars

DeliveriesWait == \E d \in Delivery : Enqueue(d) \/ DeliveryLeaseEnds(d) \/ RetryComesDue(d)

NotifyFairness == WF_notifyVars(DeliveriesWait) /\ \A w \in Notifier : WF_notifyVars(Notify(w))

FairNotifySpec == NotifySpec /\ NotifyFairness

-----------------------------------------------------------------------------
(* Properties.                                                              *)

NotifyTypeOK ==
  /\ dest \in [Destination -> BOOLEAN]
  /\ seen \subseteq Delivery
  /\ status \in [Delivery -> RowStatus]
  /\ attempts \in [Delivery -> Attempt]
  /\ leased \in [Delivery -> BOOLEAN]
  /\ ToSet(due) \subseteq Delivery /\ Len(due) = Cardinality(ToSet(due))
  /\ log \in [Delivery -> SUBSET (1 .. MaxClaims)]
  /\ inbox \in [Delivery -> Nat]
  /\ holds \in [Notifier -> [Delivery -> Attempt]]
  /\ troubles \in 0 .. MaxTroubles

\* An attempt has one owner: no two workers hold one attempt of a delivery, and
\* none holds an attempt that already has its row, so that the unique key of the
\* attempt log never makes a worker that succeeded record a failure.
AttemptHasOneOwner ==
  \A w \in Notifier, d \in Delivery :
    holds[w][d] > 0 => /\ holds[w][d] \notin log[d]
                       /\ \A v \in Notifier \ {w} : holds[v][d] # holds[w][d]

\* A notification is in the inbox at most once, however many workers delivered
\* it, a delivery reported as delivered is there, and what is there was attempted.
InboxTellsTheTruth ==
  \A d \in Delivery :
    /\ inbox[d] <= 1
    /\ status[d] = "delivered" => inbox[d] = 1
    /\ inbox[d] = 1 => log[d] # {} /\ DestinationOf[d] \notin Extension

\* What the attempts leave behind: each owned by one worker, and a true inbox.
DeliveriesAreSound == AttemptHasOneOwner /\ InboxTellsTheTruth

Enqueued(d) == d \in seen \/ status[d] # "absent"
IsSettled(d) == Enqueued(d) => status[d] \in SettledDelivery \/ ~Active(d)

\* Every notification of a destination that stays active is settled in the end,
\* as long as fewer rows than a batch wait in front of it for a destination
\* that was disabled while they were enqueued or delivered.  (What is enqueued
\* stays enqueued.)
DeliveriesSettle == \A d \in Delivery : []<>IsSettled(d)
=============================================================================
