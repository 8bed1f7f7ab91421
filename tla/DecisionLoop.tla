---------------------------- MODULE DecisionLoop ----------------------------
(***************************************************************************)
(* The product decision loop: releases (services/releases.ts), the release *)
(* monitor (services/releaseMonitor.ts), evaluations started by a monitor  *)
(* or by an API request (services/evaluation.ts), the decisions they       *)
(* propose and their review (services/decisions.ts), and the               *)
(* schedule_observation action (services/actions.ts).                      *)
(*                                                                         *)
(* Time is abstracted to its order: a release is due now, due later, due   *)
(* at the end of its observation window, or leased to a monitor, until     *)
(* TimePasses.  A monitor captures its `now' and claims in one step.  An   *)
(* evaluation reads the release, moves it to observing and stores its      *)
(* evidence in three separate transactions, and each is a step here.       *)
(***************************************************************************)
EXTENDS Naturals, FiniteSets

CONSTANTS
  Release,       \* releases rows
  Worker,        \* processes that run startReleaseMonitor
  Caller,        \* API requests that evaluate a release
  Evidence,      \* evidence keys an evaluation may arrive at
  Ready,         \* the ones with no blocker (and so trusted)
  Directional,   \* the ready ones that propose keep, fix or rollback
  NoRelease, NoEvidence,
  MaxAttempts, BatchSize, \* ReleaseMonitorOptions
  LeaseHolds,    \* TRUE: no run outlives the lease of a release it claimed
  MaxCount,      \* bound: attempts begun for a release
  MaxFaults,     \* bound: crashes and rolled back transactions
  MaxSchedules   \* bound: executed schedule_observation actions

LoopAssumption ==
  /\ Directional \subseteq Ready /\ Ready \subseteq Evidence
  /\ NoRelease \notin Release /\ NoEvidence \notin Evidence
  /\ Worker \cap Caller = {}
  /\ MaxAttempts \in Nat \ {0} /\ BatchSize \in Nat \ {0}
  /\ LeaseHolds \in BOOLEAN
  /\ MaxCount \in Nat /\ MaxFaults \in Nat /\ MaxSchedules \in Nat

VARIABLES
  status,        \* releases.status, "absent" before registration
  complete,      \* the fixed observation window of the release is over
  due,           \* releases.next_evaluation_at (NULL: due since the deployment)
  mirror,        \* releases.evaluation_attempts
  retry,         \* releases.retry_state.status
  attempt,       \* evaluation_attempts: one row per release window
  decision,      \* decision[r][e]: the decision proposed from evidence e of r
  accepted,      \* decisions.accepted_outcome
  phase,         \* where a worker or caller stands
  job,           \* the release it is working on
  todo,          \* the claimed releases a worker has not begun yet
  closed,        \* releases whose window was over at the `now' of its run
  number,        \* the attempt number beginAttempt returned
  found,         \* the evidence the evaluation arrived at
  result,        \* what the attempt has come to
  faults, schedules

releases  == <<status, complete, due, mirror, retry>>
decisions == <<decision, accepted>>
process   == <<phase, job, todo, closed, number, found, result>>
bounds    == <<faults, schedules>>
loopVars      == <<releases, attempt, decisions, process, bounds>>

Process == Worker \cup Caller
Final   == {"decided", "cancelled"}
Live    == {"deployed", "observing"}
Status  == {"absent", "planned"} \cup Live \cup Final
Verdicts == {"waiting", "failed", "succeeded"}
Phase   == {"idle", "working", "evaluating", "observing", "persisting", "finishing"}
Result  == {"none", "early", "ready", "blocked", "error"}

NoAttempt == [status |-> "absent", count |-> 0, evidence |-> NoEvidence]

LoopInit ==
  /\ status    = [r \in Release |-> "absent"]
  /\ complete  = [r \in Release |-> FALSE]
  /\ due       = [r \in Release |-> "due"]
  /\ mirror    = [r \in Release |-> 0]
  /\ retry     = [r \in Release |-> "none"]
  /\ attempt   = [r \in Release |-> NoAttempt]
  /\ decision  = [r \in Release |-> [e \in Evidence |-> "absent"]]
  /\ accepted  = [r \in Release |-> [e \in Evidence |-> "none"]]
  /\ phase     = [p \in Process |-> "idle"]
  /\ job       = [p \in Process |-> NoRelease]
  /\ todo      = [w \in Worker |-> {}]
  /\ closed    = [w \in Worker |-> {}]
  /\ number    = [w \in Worker |-> 0]
  /\ found     = [p \in Process |-> NoEvidence]
  /\ result    = [w \in Worker |-> "none"]
  /\ faults = 0 /\ schedules = 0

-----------------------------------------------------------------------------
(* Releases.                                                                *)

\* registerRelease: a replay of the same key returns the row unchanged.
RegisterRelease(r, s) ==
  /\ status[r] = "absent"
  /\ s \in {"planned", "deployed"}
  /\ status' = [status EXCEPT ![r] = s]
  /\ UNCHANGED <<complete, due, mirror, retry, attempt, decisions, process, bounds>>

AllowedTransition(from, to) ==
  \/ to = "cancelled" /\ from \in {"planned"} \cup Live
  \/ <<from, to>> \in {<<"planned", "deployed">>, <<"deployed", "observing">>,
                       <<"observing", "decided">>}

\* transitionRelease called through the API.
TransitionRelease(r, to) ==
  /\ AllowedTransition(status[r], to)
  /\ status' = [status EXCEPT ![r] = to]
  /\ UNCHANGED <<complete, due, mirror, retry, attempt, decisions, process, bounds>>

\* The last day of observation_window_days is over.
WindowCloses(r) ==
  /\ status[r] \notin {"absent", "planned"} /\ ~complete[r]
  /\ complete' = [complete EXCEPT ![r] = TRUE]
  /\ UNCHANGED <<status, due, mirror, retry, attempt, decisions, process, bounds>>

Holds(w, r) == job[w] = r \/ r \in todo[w]

\* next_evaluation_at arrives: a retry delay or a lease is over.
TimePasses(r) ==
  /\ \/ due[r] \in {"later", "leased"}
     \/ due[r] = "window" /\ complete[r]
  /\ due[r] = "leased" /\ LeaseHolds => \A w \in Worker : ~Holds(w, r)
  /\ due' = [due EXCEPT ![r] = "due"]
  /\ UNCHANGED <<status, complete, mirror, retry, attempt, decisions, process, bounds>>

-----------------------------------------------------------------------------
(* One run of a release monitor.                                            *)

\* The NOT EXISTS subquery of claimDue: no attempt may follow this one.
Judged(r) ==
  \/ attempt[r].status = "succeeded"
  \/ attempt[r].status = "failed" /\ attempt[r].count >= MaxAttempts

\* Mutants: an attempt that a lost monitor left running is waited for; a
\* succeeded attempt is no obstacle.
ClaimableUnlessRunning(r) ==
  status[r] \in Live /\ due[r] = "due" /\ ~Judged(r) /\ attempt[r].status # "running"

ClaimableAfterSuccess(r) ==
  /\ status[r] \in Live /\ due[r] = "due"
  /\ attempt[r].status = "failed" => attempt[r].count < MaxAttempts

\* The WHERE clause of claimDue.
Claimable(r) == status[r] \in Live /\ due[r] = "due" /\ ~Judged(r)

\* SKIP LOCKED: another monitor may have a transaction open on the release.
\* (Skipping one that an API request has locked is claiming it a little later.)
MaybeLocked(w, r) == \E v \in Worker \ {w} : job[v] = r

\* startReleaseMonitor fires runOnce, and claimDue leases at most batchSize
\* due releases.  The `now' of the run decides which windows are over.
ClaimDue(w) ==
  /\ phase[w] = "idle"
  /\ \E S \in SUBSET {r \in Release : Claimable(r)} \ {{}} :
       /\ Cardinality(S) <= BatchSize
       /\ \A r \in Release \ S :
            Claimable(r) => MaybeLocked(w, r) \/ Cardinality(S) = BatchSize
       /\ due'  = [r \in Release |-> IF r \in S THEN "leased" ELSE due[r]]
       /\ todo' = [todo EXCEPT ![w] = S]
  /\ closed' = [closed EXCEPT ![w] = {r \in Release : complete[r]}]
  /\ phase'  = [phase EXCEPT ![w] = "working"]
  /\ UNCHANGED <<status, complete, mirror, retry, attempt, decisions, job, number, found, result, bounds>>

\* beginAttempt: one row per window, neither its status nor its count is
\* tested; before the end of the window nothing is evaluated.
BeginAttempt(w, r) ==
  /\ phase[w] = "working" /\ r \in todo[w]
  /\ attempt[r].count < MaxCount
  /\ attempt' = [attempt EXCEPT ![r] =
       [@ EXCEPT !.status = "running", !.count = attempt[r].count + 1]]
  /\ number'  = [number EXCEPT ![w] = attempt[r].count + 1]
  /\ todo'    = [todo EXCEPT ![w] = @ \ {r}]
  /\ job'     = [job EXCEPT ![w] = r]
  /\ phase'   = [phase EXCEPT ![w] = IF r \in closed[w] THEN "evaluating" ELSE "finishing"]
  /\ result'  = [result EXCEPT ![w] = IF r \in closed[w] THEN "none" ELSE "early"]
  /\ UNCHANGED <<releases, decisions, closed, found, bounds>>

-----------------------------------------------------------------------------
(* evaluateRelease, called by a monitor or by an API request.               *)

\* Mutant: what the evaluation came to is not handed to the monitor.
EndEvaluationSilently(p, outcome) ==
  /\ phase' = [phase EXCEPT ![p] = IF p \in Worker THEN "finishing" ELSE "idle"]
  /\ UNCHANGED <<job, found, result>>

\* The evaluation of an API request ends with it; a monitor goes on to
\* finishAttempt with what the evaluation came to.
EndEvaluation(p, outcome) ==
  IF p \in Worker
  THEN /\ phase'  = [phase EXCEPT ![p] = "finishing"]
       /\ result' = [result EXCEPT ![p] = outcome]
       /\ UNCHANGED <<job, found>>
  ELSE /\ phase' = [phase EXCEPT ![p] = "idle"]
       /\ job'   = [job EXCEPT ![p] = NoRelease]
       /\ found' = [found EXCEPT ![p] = NoEvidence]
       /\ UNCHANGED result

\* POST /releases/:id/evaluate.
CallEvaluation(c, r) ==
  /\ phase[c] = "idle" /\ status[r] # "absent"
  /\ phase' = [phase EXCEPT ![c] = "evaluating"]
  /\ job'   = [job EXCEPT ![c] = r]
  /\ UNCHANGED <<releases, attempt, decisions, todo, closed, number, found, result, bounds>>

\* What the queries may show: an open window is itself a blocker.
Readable(p, r) ==
  IF complete[r] \/ (p \in Worker /\ r \in closed[p]) THEN Evidence ELSE Evidence \ Ready

\* getRelease and the queries; the release is read without a lock.
ReadRelease(p) ==
  /\ phase[p] = "evaluating"
  /\ status[job[p]] \in Live
  /\ \E e \in Readable(p, job[p]) :
       /\ found' = [found EXCEPT ![p] = e]
       /\ phase' = [phase EXCEPT ![p] =
            IF e \in Ready /\ status[job[p]] = "deployed" THEN "observing" ELSE "persisting"]
  /\ UNCHANGED <<releases, attempt, decisions, job, todo, closed, number, result, bounds>>

\* transitionRelease(observing): takes the lock and looks at the status again.
MarkObserving(p) ==
  /\ phase[p] = "observing"
  /\ AllowedTransition(status[job[p]], "observing")
  /\ status' = [status EXCEPT ![job[p]] = "observing"]
  /\ phase'  = [phase EXCEPT ![p] = "persisting"]
  /\ UNCHANGED <<complete, due, mirror, retry, attempt, decisions,
                 job, todo, closed, number, found, result, bounds>>

\* persistEvaluation: a new evidence key brings a new proposed decision, a
\* known one returns the decision it already has.  The release's status is
\* not looked at again.
PersistEvaluation(p) ==
  /\ phase[p] = "persisting"
  /\ decision' = [decision EXCEPT ![job[p]][found[p]] = IF @ = "absent" THEN "proposed" ELSE @]
  /\ EndEvaluation(p, IF found[p] \in Ready THEN "ready" ELSE "blocked")
  /\ UNCHANGED <<releases, attempt, accepted, todo, closed, number, bounds>>

\* The evaluation throws: the release is not live, it left `deployed' before
\* the transition, its contract is no longer valid, or the database failed.
EvaluationFails(p) ==
  /\ phase[p] \in {"evaluating", "observing", "persisting"}
  /\ EndEvaluation(p, "error")
  /\ UNCHANGED <<releases, attempt, decisions, todo, closed, number, bounds>>

-----------------------------------------------------------------------------
(* The end of an attempt.                                                   *)

\* The status runOnce gives the attempt.
Outcome(res, n) ==
  CASE res = "early" -> "waiting"
    [] res = "ready" -> "succeeded"
    [] res = "blocked" -> IF n >= MaxAttempts THEN "failed" ELSE "waiting"
    [] res = "error" -> "failed"

\* scheduledAt: the end of the window, a retry delay, or NULL (which claimDue
\* reads as due).
NextDue(w) ==
  CASE result[w] = "early" -> "window"
    [] result[w] = "ready" -> "due"
    [] result[w] \in {"blocked", "error"} -> IF number[w] >= MaxAttempts THEN "due" ELSE "later"

\* The run goes on with the next claimed release, or ends.
Advance(w) ==
  /\ phase'  = [phase EXCEPT ![w] = IF todo[w] = {} THEN "idle" ELSE "working"]
  /\ job'    = [job EXCEPT ![w] = NoRelease]
  /\ found'  = [found EXCEPT ![w] = NoEvidence]
  /\ number' = [number EXCEPT ![w] = 0]
  /\ result' = [result EXCEPT ![w] = "none"]
  /\ closed' = [closed EXCEPT ![w] = IF todo[w] = {} THEN {} ELSE @]
  /\ UNCHANGED todo

\* finishAttempt: updates the attempt by id and the release, whatever has
\* become of them; COALESCE keeps earlier evidence when there is none.
FinishAttempt(w) ==
  LET r   == job[w]
      st  == Outcome(result[w], number[w])
      new == IF result[w] \in {"ready", "blocked"} THEN found[w] ELSE attempt[r].evidence
  IN
  /\ phase[w] = "finishing"
  /\ attempt' = [attempt EXCEPT ![r] = [@ EXCEPT !.status = st, !.evidence = new]]
  /\ mirror' = [mirror EXCEPT ![r] = number[w]]
  /\ due'    = [due EXCEPT ![r] = NextDue(w)]
  /\ retry'  = [retry EXCEPT ![r] = st]
  /\ Advance(w)
  /\ UNCHANGED <<status, complete, decisions, bounds>>

\* finishAttempt rolls back after an evaluation: the catch of runOnce
\* records the attempt as failed instead.
FinishRollsBack(w) ==
  /\ phase[w] = "finishing" /\ result[w] \in {"ready", "blocked"}
  /\ faults < MaxFaults
  /\ faults' = faults + 1
  /\ result' = [result EXCEPT ![w] = "error"]
  /\ UNCHANGED <<releases, attempt, decisions, phase, job, todo, closed, number, found, schedules>>

\* The process crashes, or a statement outside the try block throws: the
\* rest of the batch stays leased.
Abandon(w) ==
  /\ phase[w] # "idle" /\ faults < MaxFaults
  /\ faults' = faults + 1
  /\ phase'  = [phase EXCEPT ![w] = "idle"]
  /\ job'    = [job EXCEPT ![w] = NoRelease]
  /\ todo'   = [todo EXCEPT ![w] = {}]
  /\ closed' = [closed EXCEPT ![w] = {}]
  /\ number' = [number EXCEPT ![w] = 0]
  /\ found'  = [found EXCEPT ![w] = NoEvidence]
  /\ result' = [result EXCEPT ![w] = "none"]
  /\ UNCHANGED <<releases, attempt, decisions, schedules>>

-----------------------------------------------------------------------------
(* Review of a decision.                                                    *)

Proposal(e) == IF e \in Directional THEN "directional" ELSE "inconclusive"

\* Mutant: the release is decided without a second look at its status.
FinalizeBlindly(r) == status' = [status EXCEPT ![r] = "decided"]

\* finalizeObservedRelease: only an observing release becomes decided.
FinalizeObservedRelease(r) ==
  status' = [status EXCEPT ![r] = IF @ = "observing" THEN "decided" ELSE @]

\* Mutant: only the proposal is looked at, not what the reviewer accepts.
AcceptableAsProposed(e, o) == Proposal(e) = "directional" => e \in Ready

\* A directional outcome needs ready and trusted evidence.
Acceptable(e, o) == o = "directional" => e \in Ready

Accept(r, e, o) ==
  /\ Acceptable(e, o)
  /\ decision' = [decision EXCEPT ![r][e] = "approved"]
  /\ accepted' = [accepted EXCEPT ![r][e] = o]
  /\ FinalizeObservedRelease(r)
  /\ UNCHANGED <<complete, due, mirror, retry, attempt, process, bounds>>

\* reviseDecision: approve takes the proposal, edit names an outcome.
ApproveDecision(r, e) == decision[r][e] = "proposed" /\ Accept(r, e, Proposal(e))

EditDecision(r, e) ==
  /\ decision[r][e] \in {"proposed", "rejected"}
  /\ \E o \in {"directional", "inconclusive"} : Accept(r, e, o)

RejectDecision(r, e) ==
  /\ decision[r][e] = "proposed"
  /\ decision' = [decision EXCEPT ![r][e] = "rejected"]
  /\ UNCHANGED <<releases, attempt, accepted, process, bounds>>

\* executeApproved for schedule_observation: allowed once a decision of the
\* release is approved; it overwrites next_evaluation_at, a lease included.
ScheduleObservation(r) ==
  /\ schedules < MaxSchedules
  /\ \E e \in Evidence : decision[r][e] = "approved"
  /\ schedules' = schedules + 1
  /\ due'   = [due EXCEPT ![r] = "later"]
  /\ retry' = [retry EXCEPT ![r] = "scheduled_by_action"]
  /\ UNCHANGED <<status, complete, mirror, attempt, decisions, process, faults>>

-----------------------------------------------------------------------------
Evaluate(p) ==
  ReadRelease(p) \/ MarkObserving(p) \/ PersistEvaluation(p) \/ EvaluationFails(p)

Work(w) == Evaluate(w) \/ FinishAttempt(w) \/ \E r \in Release : BeginAttempt(w, r)

Operate(r) ==
  \/ \E s \in Status : RegisterRelease(r, s) \/ TransitionRelease(r, s)
  \/ \E e \in Evidence : ApproveDecision(r, e) \/ EditDecision(r, e) \/ RejectDecision(r, e)
  \/ ScheduleObservation(r)

LoopNext ==
  \/ \E r \in Release : Operate(r) \/ WindowCloses(r) \/ TimePasses(r)
  \/ \E w \in Worker : ClaimDue(w) \/ Work(w) \/ FinishRollsBack(w) \/ Abandon(w)
  \/ \E c \in Caller : Evaluate(c) \/ \E r \in Release : CallEvaluation(c, r)

LoopSpec == LoopInit /\ [][LoopNext]_loopVars

\* Time passes, timers fire and a started run goes on; nobody is forced to
\* call the API.
Fairness ==
  /\ \A r \in Release : WF_loopVars(WindowCloses(r)) /\ WF_loopVars(TimePasses(r))
  /\ \A w \in Worker : WF_loopVars(ClaimDue(w)) /\ WF_loopVars(Work(w))

FairSpec == LoopSpec /\ Fairness

-----------------------------------------------------------------------------
(* Properties of every run.                                                 *)

\* Every column, worker and caller keeps the type the schema and the code
\* give it; a finishing worker knows its release, its attempt number and
\* what the attempt came to.
LoopTypeOK ==
  /\ status \in [Release -> Status]
  /\ complete \in [Release -> BOOLEAN]
  /\ due \in [Release -> {"due", "later", "leased", "window"}]
  /\ mirror \in [Release -> Nat]
  /\ retry \in [Release -> {"none", "scheduled_by_action"} \cup Verdicts]
  /\ attempt \in [Release -> [status : {"absent", "running"} \cup Verdicts,
                              count : Nat, evidence : Evidence \cup {NoEvidence}]]
  /\ decision \in [Release -> [Evidence -> {"absent", "proposed", "approved", "rejected"}]]
  /\ accepted \in [Release -> [Evidence -> {"none", "inconclusive", "directional"}]]
  /\ phase \in [Process -> Phase]
  /\ job \in [Process -> Release \cup {NoRelease}]
  /\ todo \in [Worker -> SUBSET Release]
  /\ closed \in [Worker -> SUBSET Release]
  /\ number \in [Worker -> Nat]
  /\ found \in [Process -> Evidence \cup {NoEvidence}]
  /\ result \in [Worker -> Result]
  /\ faults \in 0 .. MaxFaults /\ schedules \in 0 .. MaxSchedules
  /\ \A p \in Process : phase[p] \in {"evaluating", "observing", "persisting"} => job[p] \in Release
  /\ \A p \in Process : phase[p] \in {"observing", "persisting"} => found[p] \in Evidence
  /\ \A w \in Worker :
       phase[w] = "finishing" => job[w] \in Release /\ result[w] # "none" /\ number[w] > 0

\* A succeeded attempt points at ready evidence whose decision exists,
\* whichever workers wrote the row last: reviewers never see success
\* reported over blocked or missing evidence.
SucceededOnReadyEvidence ==
  \A r \in Release : attempt[r].status = "succeeded" =>
    attempt[r].evidence \in Ready /\ decision[r][attempt[r].evidence] # "absent"

\* "final and cancelled releases are immutable": no evaluation in flight, no
\* operator and no late approval moves a release out of a final status.
FinalStaysFinal ==
  [][\A r \in Release : status[r] \in Final => status'[r] = status[r]]_loopVars

\* A keep, fix or rollback verdict rests on ready evidence taken after the
\* whole observation window, also when a reviewer edits the outcome or
\* revives a rejected decision.
DirectionalIsGrounded ==
  \A r \in Release, e \in Evidence :
    accepted[r][e] = "directional" => decision[r][e] = "approved" /\ e \in Ready /\ complete[r]

\* What the two rows claim about a release, the evidence bears out.
VerdictsAreGrounded == SucceededOnReadyEvidence /\ DirectionalIsGrounded

Monitored(r) == status[r] \in Live /\ complete[r]

\* "A terminal attempt stays visible" (the decision-loop documentation): a
\* deployed release whose window is over comes to a succeeded or terminally
\* failed attempt that no late worker takes back for good, or it is final.
JudgedForGood ==
  \A r \in Release : <>[](Monitored(r) => Judged(r) \/ status[r] \in Final)

\* schedule_observation "assigns a new durable monitor attempt" (the
\* decision-loop documentation): the release is attempted again, which
\* replaces the retry state that the action wrote.
ScheduledObservationIsAttempted ==
  \A r \in Release : retry[r] = "scheduled_by_action" ~> retry[r] # "scheduled_by_action"

-----------------------------------------------------------------------------
(* Properties of runs in which leases hold and no lease is overwritten by a *)
(* schedule_observation action.                                             *)

\* One monitor at a time works on a release.
OneMonitor ==
  \A v, w \in Worker, r \in Release : Holds(v, r) /\ Holds(w, r) => v = w

\* Once an attempt succeeded or failed for the last time, no other attempt
\* of the release is begun and the verdict is not rewritten.
JudgedIsFinal ==
  [][\A r \in Release : Judged(r) => attempt'[r] = attempt[r]]_loopVars
=============================================================================
