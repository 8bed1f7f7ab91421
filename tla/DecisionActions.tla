--------------------------- MODULE DecisionActions --------------------------
(***************************************************************************)
(* Prepared actions of a decision (services/actions.ts): prepare freezes a *)
(* payload and its undo, a human approves or rejects it, and execution     *)
(* changes a feature flag or puts a delivery into the webhook outbox.      *)
(*                                                                         *)
(* Only approve and reject lock the row.  Execution is a sequence of       *)
(* transactions (the effect, the status, the audit row), each a step here, *)
(* so that other requests and crashes come in between.  What happens to an *)
(* enqueued delivery is the DeliveryContract the outbox implements.        *)
(***************************************************************************)
EXTENDS Naturals, FiniteSets

CONSTANTS
  Action,        \* decision_actions rows (one per idempotency key)
  FlagAction,    \* the prepare_flag_rollback ones; the others are generic_webhook
  Variants,      \* values of feature_flags.variants
  Wanted,        \* Wanted[a]: the variants a flag action writes
  Current,       \* the variants before anything happens
  Client,        \* API requests being served
  NoAction,
  OutboxAttempts, \* WEBHOOK_OUTBOX_MAX_ATTEMPTS
  MaxCalls,      \* bound: approve and retry requests
  MaxStops       \* bound: crashes and failed statements

ActionsAssumption ==
  /\ FlagAction \subseteq Action
  /\ Wanted \in [FlagAction -> Variants]
  /\ Current \in Variants
  /\ NoAction \notin Action
  /\ OutboxAttempts \in Nat \ {0} /\ MaxCalls \in Nat /\ MaxStops \in Nat

VARIABLES
  rowStatus,     \* decision_actions.status, "absent" before prepare
  undo,          \* decision_actions.undo: the variants an undo would restore
  audit,         \* audit[a]: events of decision_action_audit
  approved,      \* the decision is approved
  variants,      \* feature_flags.variants
  frozen,        \* the flag is archived or part of a running experiment
  verified,      \* a webhook destination is verified
  outcome, tries, delivered, \* the outbox, as its contract sees it
  pc, target,    \* what a request is doing, and with which action
  seen,          \* the variants a prepare request has read
  writes,        \* writes[a]: flag changes executed for a
  calls, stops

table   == <<rowStatus, undo, audit>>
setting == <<approved, variants, frozen, verified>>
outbox  == <<outcome, tries, delivered>>
request == <<pc, target, seen>>
counters == <<calls, stops>>
actionVars == <<table, setting, outbox, request, writes, counters>>

ActionStatus == {"absent", "prepared", "approved", "executed", "failed", "rejected"}
Event        == {"prepared", "approved", "rejected", "retried", "executed", "failed"}
Step         == {"idle", "preparing", "executing", "recording", "auditing",
                 "failing", "auditing_failure"}

Outbox == INSTANCE DeliveryContract WITH
  Delivery <- Action, MaxAttempts <- OutboxAttempts, accepted <- delivered

ActionsInit ==
  /\ rowStatus = [a \in Action |-> "absent"]
  /\ undo   = [a \in Action |-> Current]
  /\ audit  = [a \in Action |-> {}]
  /\ approved = FALSE /\ variants = Current /\ frozen = FALSE /\ verified = FALSE
  /\ Outbox!Init
  /\ pc     = [p \in Client |-> "idle"]
  /\ target = [p \in Client |-> NoAction]
  /\ seen   = [p \in Client |-> Current]
  /\ writes = [a \in Action |-> 0]
  /\ calls = 0 /\ stops = 0

Enter(p, a, phase) ==
  /\ pc[p] = "idle"
  /\ pc'     = [pc EXCEPT ![p] = phase]
  /\ target' = [target EXCEPT ![p] = a]

Goto(p, from, to) ==
  /\ pc[p] = from
  /\ pc' = [pc EXCEPT ![p] = to]
  /\ UNCHANGED <<target, seen>>

Leave(p) ==
  /\ pc'     = [pc EXCEPT ![p] = "idle"]
  /\ target' = [target EXCEPT ![p] = NoAction]
  /\ seen'   = [seen EXCEPT ![p] = Current]

Log(a, event) == audit' = [audit EXCEPT ![a] = @ \cup {event}]

-----------------------------------------------------------------------------
(* Prepare, approve, reject, retry.                                         *)

\* prepareAction: getDecision and undoFor, before the transaction.
ReadForPrepare(p, a) ==
  /\ Enter(p, a, "preparing")
  /\ seen' = [seen EXCEPT ![p] = variants]
  /\ UNCHANGED <<table, setting, outbox, writes, counters>>

\* No row has the idempotency key yet.
IsNew(a) == rowStatus[a] = "absent"

\* prepareAction: the transaction, under an advisory lock on the key.  A row
\* that exists is returned, or refused if its fingerprint (which covers the
\* undo) is another one.
InsertPrepared(p) ==
  LET a == target[p] IN
  /\ pc[p] = "preparing"
  /\ IF IsNew(a)
     THEN /\ rowStatus' = [rowStatus EXCEPT ![a] = "prepared"]
          /\ undo'   = [undo EXCEPT ![a] = seen[p]]
          /\ Log(a, "prepared")
     ELSE UNCHANGED table
  /\ Leave(p)
  /\ UNCHANGED <<setting, outbox, writes, counters>>

\* Mutant: the decision's approval is not required.
ApprovableEarly(a) == rowStatus[a] \in {"prepared", "approved", "failed"}

\* The checks of approveAction, under the row lock.  An action that is
\* `approved' is either being executed or was left so by a crash.
Approvable(a) == rowStatus[a] \in {"prepared", "approved", "failed"} /\ approved

ApproveAction(p, a) ==
  /\ calls < MaxCalls
  /\ Approvable(a)
  /\ Enter(p, a, "executing")
  /\ rowStatus' = [rowStatus EXCEPT ![a] = "approved"]
  /\ Log(a, "approved")
  /\ calls' = calls + 1
  /\ UNCHANGED <<undo, setting, outbox, seen, writes, stops>>

\* rejectAction, under the row lock.
RejectAction(a) ==
  /\ rowStatus[a] = "prepared"
  /\ rowStatus' = [rowStatus EXCEPT ![a] = "rejected"]
  /\ Log(a, "rejected")
  /\ UNCHANGED <<undo, setting, outbox, request, writes, counters>>

\* retryAction reads the row without a lock; its status stays `failed'.
RetryAction(p, a) ==
  /\ calls < MaxCalls
  /\ rowStatus[a] = "failed"
  /\ Enter(p, a, "executing")
  /\ Log(a, "retried")
  /\ calls' = calls + 1
  /\ UNCHANGED <<rowStatus, undo, setting, outbox, seen, writes, stops>>

-----------------------------------------------------------------------------
(* executeApproved.                                                         *)

\* updateFeatureFlag: its own transaction, refused for an archived flag or a
\* flag of a running experiment.
ExecuteFlagChange(p) ==
  LET a == target[p] IN
  /\ a \in FlagAction /\ ~frozen
  /\ Goto(p, "executing", "recording")
  /\ variants' = Wanted[a]
  /\ writes'   = [writes EXCEPT ![a] = @ + 1]
  /\ UNCHANGED <<table, approved, frozen, verified, outbox, counters>>

\* Mutant: a conflicting row is made pending again.
OweAgain(a) ==
  /\ outcome' = [outcome EXCEPT ![a] = "owed"]
  /\ UNCHANGED <<tries, delivered>>

\* INSERT INTO webhook_outbox ... ON CONFLICT returns the row that exists.
OweOnce(a) == IF outcome[a] = "absent" THEN Outbox!Owe(a) ELSE UNCHANGED outbox

\* enqueueWebhook: needs a verified destination.
EnqueueWebhook(p) ==
  LET a == target[p] IN
  /\ a \in Action \ FlagAction /\ verified
  /\ Goto(p, "executing", "recording")
  /\ OweOnce(a)
  /\ UNCHANGED <<table, setting, writes, counters>>

\* The effect is refused: frozen flag, no verified destination.
EffectRefused(p) ==
  /\ IF target[p] \in FlagAction THEN frozen ELSE ~verified
  /\ Goto(p, "executing", "failing")
  /\ UNCHANGED <<table, setting, outbox, writes, counters>>

\* UPDATE decision_actions SET status = 'executed', whatever it is now.
RecordExecuted(p) ==
  /\ Goto(p, "recording", "auditing")
  /\ rowStatus' = [rowStatus EXCEPT ![target[p]] = "executed"]
  /\ UNCHANGED <<undo, audit, setting, outbox, writes, counters>>

AuditExecuted(p) ==
  /\ pc[p] = "auditing"
  /\ Log(target[p], "executed")
  /\ Leave(p)
  /\ UNCHANGED <<rowStatus, undo, setting, outbox, writes, counters>>

\* A statement of the try block throws, at the latest the audit row of an
\* action already marked executed; or the effect committed and its answer
\* was lost.
StatementFails(p) ==
  /\ pc[p] \in {"executing", "recording", "auditing"}
  /\ stops < MaxStops
  /\ stops' = stops + 1
  /\ Goto(p, pc[p], "failing")
  /\ UNCHANGED <<table, setting, outbox, writes, calls>>

VerdictOfCatch == "failed"

\* The catch block of executeApproved, whatever the status is now.
RecordFailed(p) ==
  /\ Goto(p, "failing", "auditing_failure")
  /\ rowStatus' = [rowStatus EXCEPT ![target[p]] = VerdictOfCatch]
  /\ UNCHANGED <<undo, audit, setting, outbox, writes, counters>>

AuditFailed(p) ==
  /\ pc[p] = "auditing_failure"
  /\ Log(target[p], "failed")
  /\ Leave(p)
  /\ UNCHANGED <<rowStatus, undo, setting, outbox, writes, counters>>

\* The process crashes, or a statement of the catch block throws.
Crash(p) ==
  /\ pc[p] # "idle" /\ stops < MaxStops
  /\ stops' = stops + 1
  /\ Leave(p)
  /\ UNCHANGED <<table, setting, outbox, writes, calls>>

-----------------------------------------------------------------------------
(* Everybody else.                                                          *)

\* reviseDecision: approval is final.
DecisionApproved ==
  /\ ~approved
  /\ approved' = TRUE
  /\ UNCHANGED <<table, variants, frozen, verified, outbox, request, writes, counters>>

\* An operator edits the flag, archives it or starts an experiment on it.
OperatorChangesFlag ==
  /\ \E v \in Variants \ {variants} : variants' = v
  /\ ~frozen
  /\ UNCHANGED <<table, approved, frozen, verified, outbox, request, writes, counters>>

OperatorFreezesFlag ==
  /\ frozen' = ~frozen
  /\ UNCHANGED <<table, approved, variants, verified, outbox, request, writes, counters>>

\* A test delivery verifies the destination or puts it into error.
DestinationTested ==
  /\ verified' = ~verified
  /\ UNCHANGED <<table, approved, variants, frozen, outbox, request, writes, counters>>

\* The outbox worker: every step of the contract except enqueueing.
OutboxWorks ==
  /\ \/ \E S \in SUBSET Action : S # {} /\ Outbox!Try(S)
     \/ \E a \in Action : Outbox!Accept(a) \/ Outbox!Deliver(a) \/ Outbox!GiveUp(a)
  /\ UNCHANGED <<table, setting, request, writes, counters>>

Execute(p) ==
  \/ ExecuteFlagChange(p) \/ EnqueueWebhook(p) \/ EffectRefused(p)
  \/ RecordExecuted(p) \/ AuditExecuted(p)
  \/ RecordFailed(p) \/ AuditFailed(p)

ActionsNext ==
  \/ \E p \in Client, a \in Action :
       ReadForPrepare(p, a) \/ ApproveAction(p, a) \/ RetryAction(p, a)
  \/ \E p \in Client : InsertPrepared(p) \/ Execute(p) \/ StatementFails(p) \/ Crash(p)
  \/ \E a \in Action : RejectAction(a)
  \/ DecisionApproved \/ OperatorChangesFlag \/ OperatorFreezesFlag
  \/ DestinationTested \/ OutboxWorks

ActionsSpec == ActionsInit /\ [][ActionsNext]_actionVars

-----------------------------------------------------------------------------
(* Properties.                                                              *)

\* Every column and request keeps the type the schema and the code give it,
\* and a request that is executing knows an action that has been prepared.
ActionsTypeOK ==
  /\ rowStatus \in [Action -> ActionStatus]
  /\ undo \in [Action -> Variants]
  /\ audit \in [Action -> SUBSET Event]
  /\ approved \in BOOLEAN /\ frozen \in BOOLEAN /\ verified \in BOOLEAN
  /\ variants \in Variants
  /\ outcome \in [Action -> {"absent", "owed", "delivered", "dead"}]
  /\ tries \in [Action -> 0 .. OutboxAttempts]
  /\ delivered \in [Action -> BOOLEAN]
  /\ pc \in [Client -> Step]
  /\ target \in [Client -> Action \cup {NoAction}]
  /\ seen \in [Client -> Variants]
  /\ writes \in [Action -> Nat]
  /\ calls \in 0 .. MaxCalls /\ stops \in 0 .. MaxStops
  /\ \A p \in Client : pc[p] # "idle" => target[p] \in Action
  /\ \A p \in Client :
       pc[p] \notin {"idle", "preparing"} => rowStatus[target[p]] \notin {"absent", "prepared"}

\* The effect of an action: a flag change, or a delivery in the outbox.
HasEffect(a) == IF a \in FlagAction THEN writes[a] > 0 ELSE outcome[a] # "absent"

\* "An action cannot execute until its decision is approved by a human", on
\* every path: approve, retry, a second approve of an action whose first
\* executor crashed, requests that overlap.  A rejected action has no effect.
NoEffectWithoutApproval ==
  \A a \in Action :
    HasEffect(a) => approved /\ "approved" \in audit[a] /\ rowStatus[a] # "rejected"

\* An action that reports executed, now or anywhere in its audit, really had
\* its effect, whichever of several executors wrote the row last.
ExecutedHasEffect ==
  \A a \in Action : rowStatus[a] = "executed" \/ "executed" \in audit[a] => HasEffect(a)

\* Approving, retrying and executing an action any number of times, by
\* requests that overlap, puts at most one delivery into the outbox and
\* never touches it again: the outbox still keeps its contract.
DeliverySpec == Outbox!Spec

\* An executed or failed status is explained by the audit, unless a crash or
\* a failed statement came between the two.
StatusIsAudited ==
  \A a \in Action :
    /\ rowStatus[a] = "executed" =>
         "executed" \in audit[a] \/ stops > 0
           \/ \E p \in Client : pc[p] = "auditing" /\ target[p] = a
    /\ rowStatus[a] = "failed" =>
         "failed" \in audit[a] \/ stops > 0
           \/ \E p \in Client : pc[p] = "auditing_failure" /\ target[p] = a

\* What an action did, what its row says and what its audit says agree.
EffectsMatchStatus == NoEffectWithoutApproval /\ ExecutedHasEffect /\ StatusIsAudited

\* "Failed actions are retryable without duplicating a successful flag
\* change" (the decision-loop requirements): a flag change is made once.
FlagChangedOnce == \A a \in FlagAction : writes[a] <= 1
=============================================================================
