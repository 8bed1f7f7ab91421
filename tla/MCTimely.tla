------------------------------ MODULE MCTimely ------------------------------
(* The webhook outbox, or the decision loop, while every run ends within    *)
(* its leases: a behaviour is one of one of the two, chosen at its start.   *)
EXTENDS MCWebhookOutbox

CONSTANTS r1, c1, blocked, ready, NoRelease, NoEvidence

VARIABLES
  part,
  release, complete, due, mirror, retry, attempt, decision, verdict, phase, job, todo,
  closed, number, found, result, faults, schedules

loopVars == <<release, complete, due, mirror, retry, attempt, decision, verdict, phase,
              job, todo, closed, number, found, result, faults, schedules>>

\* One release, two monitors and an API request.
Loop == INSTANCE DecisionLoop WITH
  Release <- {r1}, Caller <- {c1},
  Evidence <- {blocked, ready}, Ready <- {ready}, Directional <- {ready},
  MaxAttempts <- 2, BatchSize <- 1, LeaseHolds <- TRUE,
  MaxCount <- 5, MaxFaults <- 2, MaxSchedules <- 0,
  status <- release, accepted <- verdict

ASSUME LoopAssumption == Loop!LoopAssumption

timely == <<part, vars, loopVars>>

TimelyInit == part \in {"outbox", "loop"} /\ Init /\ Loop!LoopInit

InOutbox(A) == part = "outbox" /\ A /\ UNCHANGED <<part, loopVars>>
InLoop(A)   == part = "loop" /\ A /\ UNCHANGED <<part, vars>>

TimelyNext == InOutbox(Next) \/ InLoop(Loop!LoopNext)

\* The fairness of both: time passes, timers fire, a run that began goes on.
TimelySpec ==
  /\ TimelyInit /\ [][TimelyNext]_timely
  /\ WF_timely(InOutbox(Tick) \/ InLoop(Loop!WindowCloses(r1)))
  /\ WF_timely(InLoop(Loop!TimePasses(r1)))
  /\ \A w \in Worker :
       /\ WF_timely(InOutbox(BeginRun(w)) \/ InLoop(Loop!ClaimDue(w)))
       /\ SF_timely(InOutbox(Claim(w)))
       /\ WF_timely(InOutbox(Work(w)) \/ InLoop(Loop!Work(w)))

-----------------------------------------------------------------------------
\* One monitor at a time works on a release, and none after it was judged: the
\* verdict of an attempt is not overtaken by that of another one.
JudgedOnce == []Loop!OneMonitor /\ Loop!JudgedIsFinal

\* The properties of the loop, by their names.
JudgedForGood == Loop!JudgedForGood
=============================================================================
