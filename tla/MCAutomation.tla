---------------------------- MODULE MCAutomation ----------------------------
(* The evaluation workers of the control tower, or the worker that delivers  *)
(* what they enqueue: a behaviour is one of one of the two, chosen at its   *)
(* start.                                                                   *)
EXTENDS MonitorRuns, Notifications, TLC

CONSTANTS old, fresh, team, partner

VARIABLE part

\* A delivery for each of two destinations, one of them an extension.
MCDestinationOf == (old :> partner) @@ (fresh :> team)

ASSUME NotificationsAssumption /\ Notifier = Worker

\* The initial choices of the part that stands still are fixed.
EitherInit ==
  /\ Init /\ NotifyInit
  /\ \/ part = "evaluate" /\ \A x \in DOMAIN dest : ~dest[x]
     \/ part = "notify" /\ kind = "feed" /\ head.status = "active"

Evaluating == part = "evaluate" /\ Next /\ UNCHANGED <<part, notifyVars>>
Notifying  == part = "notify" /\ NotifyNext /\ UNCHANGED <<part, vars>>

EitherNext == Evaluating \/ Notifying

either == <<part, vars, notifyVars>>

\* The fairness of both: timers fire, leases end, retries come due.
Working(w) ==
  \/ part = "evaluate" /\ Work(w) /\ UNCHANGED <<part, notifyVars>>
  \/ part = "notify" /\ Notify(w) /\ UNCHANGED <<part, vars>>

EitherWaits ==
  \/ part = "evaluate" /\ Waiting /\ UNCHANGED <<part, notifyVars>>
  \/ part = "notify" /\ DeliveriesWait /\ UNCHANGED <<part, vars>>

EitherSpec ==
  /\ EitherInit /\ [][EitherNext]_either
  /\ WF_either(EitherWaits) /\ \A w \in Worker : WF_either(Working(w))

-----------------------------------------------------------------------------
\* Every variable of the two has its type.
TypesOK == TypeOK /\ NotifyTypeOK

\* Whatever leases end and whichever processes crash: every run ends and the
\* monitor or feed catches up with the clock, and every delivery is settled.
QueuesAreWorkedOff ==
  /\ <>[](part = "evaluate" => RunsSettled) /\ []<>(part = "evaluate" => HeadCaughtUp)
  /\ \A d \in Delivery : []<>(part = "notify" => IsSettled(d))
=============================================================================
