---------------------------- MODULE MonitorRuns ----------------------------
(***************************************************************************)
(* The control tower's evaluation workers (services/monitorWorker.ts,      *)
(* services/insightFeedWorker.ts): a monitor policy or a feed schedule     *)
(* seeds one run per window, processes claim runs under a lease, evaluate  *)
(* them and record a result, which puts its notifications in a queue of    *)
(* their own (module Notifications).  Both workers have the same shape;    *)
(* `kind', chosen once, says which of the two a behaviour is about.        *)
(*                                                                         *)
(* Clocks are abstracted to what the code asks of them: leased (the        *)
(* lease_until of a run has not come), cooling (the policy has a finding   *)
(* younger than its cooldown).  A failed run may be claimed at any later   *)
(* moment: how long retryDelay makes it wait is left open.                 *)
(***************************************************************************)
EXTENDS Integers, FiniteSets, FiniteSetsExt

CONSTANTS
  Worker,        \* processes that run startControlTowerAutomation
  NoRun,         \* "this worker has no run in hand"
  MaxAttempts, BatchSize,   \* AutomationWorkerOptions
  MaxVersion,    \* bound: revisions of the policy or schedule
  MaxWindow,     \* bound: windows that pass
  MaxSpan,       \* bound: revisions and windows together
  MaxUpsets      \* bound: pauses, resumptions, archivals and processes that stop

Version == 1 .. MaxVersion
Window  == 1 .. MaxWindow
Run     == Version \X Window      \* a run row: the revision and window it was seeded for

ASSUME MonitorAssumption ==
  /\ NoRun \notin Run
  /\ IsFiniteSet(Worker)
  /\ MaxAttempts \in Nat \ {0}
  /\ BatchSize \in Nat \ {0}
  /\ MaxVersion \in Nat \ {0}
  /\ MaxWindow \in Nat \ {0}
  /\ MaxSpan \in Nat
  /\ MaxUpsets \in Nat

VARIABLES
  kind,        \* "monitor" or "feed"
  head,        \* monitor_policies / insight_feed_schedules: [version, status, next]
  clock,       \* the current window
  run,         \* monitor_runs / insight_feed_runs: [status, attempts, leased]
  results,     \* the runs with a row in monitor_findings / insight_feed_snapshots
  routed,      \* the runs whose notifications were enqueued
  frozen,      \* the runs whose finding has a row in automation_proposals
  cooling,     \* the policy has a finding younger than its cooldown
  burst,       \* burst[w]: findings w recorded since cooling was last FALSE
  pc,          \* where runOnce of a worker stands
  held,        \* held[w][r]: attempt number under which w claimed r, 0 if it did not
  cur,         \* the run the worker is evaluating
  finds,       \* whether its evaluation is to be recorded as a finding or snapshot
  recent,      \* recent[w]: a finding is younger than the cooldown, by the `now' of w
  upsets       \* pauses, resumptions, archivals and stopped processes so far

rows   == <<head, run, results, routed, frozen>>
spell  == <<cooling, burst>>
hands  == <<pc, held, cur, finds, recent>>
vars   == <<kind, rows, clock, spell, hands, upsets>>

AttemptCap == MaxAttempts + 1   \* bound: attempts are counted up to one too many
HeadStatus == {"active", "paused", "archived"}
RunStatus  == {"absent", "pending", "running", "succeeded", "failed", "dead"}
Phase      == {"idle", "working", "recording"}
RunRow     == [status : RunStatus, attempts : 0 .. AttemptCap, leased : BOOLEAN]
NoFindings == [w \in Worker |-> 0]
Nothing    == [r \in Run |-> 0]
Settled    == {"succeeded", "dead"}

Init ==
  /\ kind \in {"monitor", "feed"}
  /\ \E s \in {"active", "paused"} : head = [version |-> 1, status |-> s, next |-> 1]
  /\ clock = 1
  /\ run = [r \in Run |-> [status |-> "absent", attempts |-> 0, leased |-> FALSE]]
  /\ results = {}
  /\ routed = {}
  /\ frozen = {}
  /\ cooling = FALSE
  /\ burst = NoFindings
  /\ pc = [w \in Worker |-> "idle"]
  /\ held = [w \in Worker |-> Nothing]
  /\ cur = [w \in Worker |-> NoRun]
  /\ finds = [w \in Worker |-> FALSE]
  /\ recent = [w \in Worker |-> FALSE]
  /\ upsets = 0

-----------------------------------------------------------------------------
(* The policy or schedule.                                                  *)

\* reviseMonitorPolicy, reviseInsightFeedSchedule: the revision is due at
\* once (a monitor) or at its next occurrence (a feed), which may be one of
\* the day that already has a run.
Revise ==
  /\ head.status # "archived"
  /\ head.version < MaxVersion /\ head.version + clock < MaxSpan
  /\ \E n \in {clock, clock + 1} :
       /\ kind = "monitor" => n = clock
       /\ head' = [head EXCEPT !.version = head.version + 1, !.next = n]
  /\ UNCHANGED <<kind, clock, run, results, routed, frozen, spell, hands, upsets>>

\* transitionMonitorPolicy, transitionInsightFeedSchedule: an archived head
\* stays archived; resuming makes it due again.
Transition(s) ==
  /\ head.status # "archived"
  /\ s # head.status
  /\ upsets < MaxUpsets /\ upsets' = upsets + 1
  /\ \E n \in {head.next, clock, clock + 1} :
       /\ s # "active" => n = head.next
       /\ s = "active" => n \in (IF kind = "monitor" THEN {clock} ELSE {clock, clock + 1})
       /\ head' = [head EXCEPT !.status = s, !.next = n]
  /\ UNCHANGED <<kind, clock, run, results, routed, frozen, spell, hands>>

-----------------------------------------------------------------------------
(* One tick of a process.                                                   *)

\* Mutant: the key of a feed's run names the revision too.
SeedConflictByRevision(r) == run[r].status # "absent"

\* The unique key the INSERT of seedDue runs into: a monitor's names the
\* revision and the window, a feed's the schedule and the local day.
SeedConflict(r) ==
  \E o \in Run : /\ run[o].status # "absent"
                 /\ o[2] = r[2]
                 /\ kind = "monitor" => o[1] = r[1]

\* A monitor evaluates the window that has just ended and skips those it
\* missed; a feed works through its occurrences one by one.
SeedWindow == IF kind = "monitor" THEN clock ELSE head.next

\* Mutant: a run left running by a lost process is never taken over.
ClaimableWithoutTakeover(row) == row.status \in {"pending", "failed"}

\* The WHERE clause of claim.  Unlike the webhook outbox it has no limit on
\* attempt_count.
Claimable(row) ==
  \/ row.status \in {"pending", "failed"}
  \/ row.status = "running" /\ ~row.leased

\* Mutant: the attempt is not counted, so a run that always fails is retried
\* for ever.
ClaimedUncounted(row) == [row EXCEPT !.status = "running", !.leased = TRUE]

Claimed(row) ==
  [row EXCEPT !.status = "running", !.leased = TRUE,
              !.attempts = Min({@ + 1, AttemptCap})]

\* Mutant: the head is moved past the occurrence after the one just seeded.
MovedOnTwice(h) == [h EXCEPT !.next = SeedWindow + 2]

MovedOn(h) == [h EXCEPT !.next = SeedWindow + 1]

\* runOnce captures `now', seedDue seeds the due head and moves it on, claim
\* takes up to BatchSize runs in one UPDATE.
BeginRun(w) ==
  LET seeded == <<head.version, SeedWindow>>
      isDue  == head.status = "active" /\ head.next <= clock
      table  == IF isDue /\ ~SeedConflict(seeded)
                THEN [run EXCEPT ![seeded] = [@ EXCEPT !.status = "pending"]] ELSE run
      free   == {r \in Run : Claimable(table[r])}
  IN /\ pc[w] = "idle"
     /\ head' = IF isDue THEN MovedOn(head) ELSE head
     /\ \E S \in kSubset(Min({BatchSize, Cardinality(free)}), free) :
          /\ run' = [r \in Run |-> IF r \in S THEN Claimed(table[r]) ELSE table[r]]
          /\ held' = [held EXCEPT ![w] = [r \in Run |-> IF r \in S THEN run'[r].attempts ELSE 0]]
          /\ pc' = [pc EXCEPT ![w] = IF S = {} THEN "idle" ELSE "working"]
          /\ recent' = [recent EXCEPT ![w] = S # {} /\ cooling]
     /\ UNCHANGED <<kind, clock, results, routed, frozen, spell, cur, finds, upsets>>

\* Mutant: the cooldown is not looked at.
InCooldownIgnored(w) == FALSE

\* The read of recent findings in MonitorWorker.complete: committed findings
\* younger than the cooldown, counted back from the `now' of the worker.
InCooldown(w) == kind = "monitor" /\ recent[w]

\* The evaluator's query, then the reads of complete: a feed always records a
\* snapshot, a monitor a finding if the threshold is breached and no finding
\* is recent.
Evaluate(w, r) ==
  /\ pc[w] = "working"
  /\ held[w][r] > 0
  /\ cur' = [cur EXCEPT ![w] = r]
  /\ pc' = [pc EXCEPT ![w] = "recording"]
  /\ \E breach \in BOOLEAN :
       /\ kind = "feed" => breach
       /\ finds' = [finds EXCEPT ![w] = breach /\ ~InCooldown(w)]
  /\ UNCHANGED <<kind, rows, clock, spell, held, recent, upsets>>

\* The worker has dealt with r; a tick without claims left is over.
Done(w, r) ==
  /\ held' = [held EXCEPT ![w] = [@ EXCEPT ![r] = 0]]
  /\ cur' = [cur EXCEPT ![w] = NoRun]
  /\ finds' = [finds EXCEPT ![w] = FALSE]
  /\ pc' = [pc EXCEPT ![w] = IF held'[w] = Nothing THEN "idle" ELSE "working"]

\* A row in the given status, with its lease gone.
Left(row, s) == [row EXCEPT !.status = s, !.leased = FALSE]

Routed(r) == routed' = routed \cup {r}

\* freezeProposal, of a monitor that proposes a change of a flag.
Frozen(r) == IF kind = "monitor" THEN frozen \cup {r} ELSE frozen

\* The rest of complete: the finding with its proposal, or the snapshot, its
\* notifications and the run's status, in one transaction.  The UPDATE of the
\* status does not ask who holds the run.
Record(w) ==
  LET r == cur[w] IN
  /\ pc[w] = "recording"
  /\ finds[w] => r \notin results
  /\ Done(w, r)
  /\ run' = [run EXCEPT ![r] = Left(@, "succeeded")]
  /\ IF finds[w]
     THEN /\ results' = results \cup {r}
          /\ Routed(r)
          /\ frozen' = Frozen(r)
          /\ IF kind = "monitor"
             THEN /\ cooling' = TRUE
                  /\ burst' = [burst EXCEPT ![w] = @ + 1]
                  /\ recent' = [v \in Worker |-> pc'[v] # "idle"]
             ELSE UNCHANGED <<cooling, burst, recent>>
     ELSE /\ recent' = [recent EXCEPT ![w] = @ /\ pc'[w] # "idle"]
          /\ UNCHANGED <<results, routed, frozen, cooling, burst>>
  /\ UNCHANGED <<kind, head, clock, upsets>>

IsTerminal(n) == n >= MaxAttempts

\* The catch block of runOnce, after an evaluation that failed or a complete
\* that was rolled back: the run already has its finding or snapshot (unique
\* key), the proposal's flag has moved to another environment, or the database
\* gave up.  This UPDATE does not ask who holds the run either: a worker whose
\* lease was taken over overwrites its successor.
Fail(w, r) ==
  /\ \/ pc[w] = "working" /\ held[w][r] > 0
     \/ pc[w] = "recording" /\ cur[w] = r
  /\ run' = [run EXCEPT ![r] = Left(@, IF IsTerminal(held[w][r]) THEN "dead" ELSE "failed")]
  /\ Done(w, r)
  /\ recent' = [recent EXCEPT ![w] = @ /\ pc'[w] # "idle"]
  /\ UNCHANGED <<kind, head, clock, results, routed, frozen, spell, upsets>>

\* The process stops, or the catch block's own UPDATE throws and ends the tick.
Crash(w) ==
  /\ upsets < MaxUpsets
  /\ pc[w] # "idle"
  /\ pc' = [pc EXCEPT ![w] = "idle"]
  /\ held' = [held EXCEPT ![w] = Nothing]
  /\ cur' = [cur EXCEPT ![w] = NoRun]
  /\ finds' = [finds EXCEPT ![w] = FALSE]
  /\ recent' = [recent EXCEPT ![w] = FALSE]
  /\ upsets' = upsets + 1
  /\ UNCHANGED <<kind, rows, clock, spell>>

-----------------------------------------------------------------------------
(* Time.                                                                    *)

LeaseEnds(r) ==
  /\ run[r].status = "running" /\ run[r].leased
  /\ run' = [run EXCEPT ![r] = [@ EXCEPT !.leased = FALSE]]
  /\ UNCHANGED <<kind, head, clock, results, routed, frozen, spell, hands, upsets>>

WindowPasses ==
  /\ clock < MaxWindow /\ head.version + clock < MaxSpan
  /\ clock' = clock + 1
  /\ UNCHANGED <<kind, rows, spell, hands, upsets>>

CooldownEnds ==
  /\ cooling
  /\ cooling' = FALSE
  /\ burst' = NoFindings
  /\ UNCHANGED <<kind, rows, clock, hands, upsets>>

Work(w) ==
  \/ BeginRun(w) \/ Record(w)
  \/ \E r \in Run : Evaluate(w, r) \/ Fail(w, r)

Next ==
  \/ \E w \in Worker : Work(w) \/ Crash(w)
  \/ \E r \in Run : LeaseEnds(r)
  \/ \E s \in HeadStatus : Transition(s)
  \/ Revise \/ WindowPasses \/ CooldownEnds

Spec == Init /\ [][Next]_vars

Waiting == \E r \in Run : LeaseEnds(r)

\* The timer of every process keeps firing, a started tick goes on, time passes.
Fairness == WF_vars(Waiting) /\ \A w \in Worker : WF_vars(Work(w))

FairSpec == Spec /\ Fairness
-----------------------------------------------------------------------------
(* Properties.                                                              *)

TypeOK ==
  /\ kind \in {"monitor", "feed"}
  /\ head \in [version : Version, status : HeadStatus, next : 1 .. MaxWindow + 1]
  /\ clock \in Window
  /\ run \in [Run -> RunRow]
  /\ results \subseteq Run /\ routed \subseteq Run /\ frozen \subseteq Run
  /\ cooling \in BOOLEAN /\ burst \in [Worker -> Nat]
  /\ pc \in [Worker -> Phase]
  /\ held \in [Worker -> [Run -> 0 .. AttemptCap]]
  /\ cur \in [Worker -> Run \cup {NoRun}]
  /\ finds \in [Worker -> BOOLEAN] /\ recent \in [Worker -> BOOLEAN]
  /\ upsets \in 0 .. MaxUpsets

\* A window has at most one finding for each revision of a monitor, and a day
\* at most one snapshot of a feed whatever its revision, however workers are
\* restarted, leases outlived and schedules revised during the day.
OneResultPerWindow ==
  \A r, s \in results : r[2] = s[2] /\ (kind = "monitor" => r[1] = s[1]) => r = s

\* A finding or snapshot, its proposal and its notifications are recorded
\* together: none is there without the others.  A feed run reported as succeeded
\* has its snapshot.
ResultsAreWhole ==
  /\ results = routed
  /\ frozen = (IF kind = "monitor" THEN results ELSE {})
  /\ kind = "feed" => {r \in Run : run[r].status = "succeeded"} \subseteq results

\* What the evaluations leave behind: each result once, and whole.
ResultsAreSound == OneResultPerWindow /\ ResultsAreWhole

\* No process records two findings of a policy within one cooldown, over
\* however many runs, revisions and restarts.  Two processes may record one
\* each: the read of recent findings and the insert of the next belong to
\* transactions that do not see each other.
CooldownHoldsPerProcess == \A w \in Worker : burst[w] <= 1

RunsSettled == \A r \in Run : run[r].status \in Settled \cup {"absent"}
HeadCaughtUp == head.status = "active" => head.next > clock

\* However often attempts fail, processes stop, leases end under a slow worker
\* and a late failure reopens a finished run: in the end every run that was
\* seeded has succeeded or is dead, and stays so.  However often a schedule is
\* revised, missed and resumed, an active head that is due is moved past the
\* present again: no occurrence holds up the next.
NothingIsLeftBehind == <>[]RunsSettled /\ []<>HeadCaughtUp
=============================================================================
