----------------------------- MODULE MCProcess -----------------------------
(* What one API process keeps in memory, the buckets of its rate limiter,   *)
(* its query cache and its event buffer, and the rotation of its retention  *)
(* worker.  They share no state; a behaviour is one of one of the four,     *)
(* chosen at its start.                                                     *)
EXTENDS RateLimiter, QueryCache, IngestBuffer, TLC

CONSTANTS
  k1, k2, k3, p1, p2, acme, zen,               \* limiter
  trend, funnel, shop, c1, c2,                 \* cache
  a1, a2, a3, i1, empty, large,                \* buffer
  busy, calm, quiet                            \* rotation

\* Three keys of two projects of two organizations.
MCTenantOf == (k1 :> acme) @@ (k2 :> acme) @@ (k3 :> zen) @@ (p1 :> acme) @@ (p2 :> zen)
MCPair     == {<<k1, p1>>, <<k2, p1>>, <<k3, p2>>}
MCBurst    == (k1 :> 3) @@ (k2 :> 3) @@ (k3 :> 3) @@ (p1 :> 4) @@ (p2 :> 4)
MCRate     == [b \in DOMAIN MCBurst |-> 1]

\* Two questions about one project, and room for one answer.
MCProjectOf == (trend :> shop) @@ (funnel :> shop)

\* Three appends of one to three events, two idempotent batches, one of them empty,
\* and a batch that is too large.
MCEventsOf == (a1 :> 1) @@ (a2 :> 2) @@ (a3 :> 3) @@ (i1 :> 1) @@ (empty :> 0) @@ (large :> 4)

VARIABLES part, due, order, waiting, run, faults

turnVars == <<due, order, waiting, run, faults>>

\* One project fails at will and has more rows than all budgets together.
Rotation == INSTANCE RetentionSweep WITH
  Project <- {busy, calm, quiet}, Unruly <- {busy},
  LastTable <- 2, Backlog <- 1, MaxProjects <- 2, BatchSize <- 1, MaxRows <- 1, MaxFaults <- 1

ASSUME SweepAssumption == Rotation!SweepAssumption

processVars == <<vars, part, cacheVars, bufferVars, turnVars>>

ProcessInit ==
  /\ Init /\ CacheInit /\ BufferInit /\ Rotation!Init
  /\ \/ part \in {"limiter", "cache", "buffer"} /\ order = <<busy, calm, quiet>>
     \/ part = "rotation"

Limiting(A)  == part = "limiter" /\ A /\ UNCHANGED <<part, cacheVars, bufferVars, turnVars>>
Caching(A)   == part = "cache" /\ A /\ UNCHANGED <<part, vars, bufferVars, turnVars>>
Buffering(A) == part = "buffer" /\ A /\ UNCHANGED <<part, vars, cacheVars, turnVars>>
Turning(A)   == part = "rotation" /\ A /\ UNCHANGED <<part, vars, cacheVars, bufferVars>>

ProcessNext ==
  \/ Limiting(Next) \/ Caching(CacheNext) \/ Buffering(BufferNext) \/ Turning(Rotation!Next)

\* The fairness of the buffer and of the rotation: timers fire, statements end.
ProcessSpec ==
  /\ ProcessInit /\ [][ProcessNext]_processVars
  /\ WF_processVars(Buffering(TimerFires))
  /\ WF_processVars(Buffering(Flush) \/ Turning(Rotation!BeginRun))
  /\ WF_processVars(Turning(Rotation!Work))
  /\ \A c \in Idempotent : WF_processVars(Buffering(SlotSettles(c)))
  /\ \A p \in {busy, calm, quiet} : WF_processVars(Turning(Rotation!RetryComes(p)))

-----------------------------------------------------------------------------
\* Every variable of the four parts has its type.
TypesOK == TypeOK /\ CacheTypeOK /\ BufferTypeOK /\ Rotation!TypeOK

\* No call waits for an answer for ever, and no project for its sweep.
NobodyStarves == EveryCallIsAnswered /\ Rotation!EveryProjectIsSwept
=============================================================================
