---------------------------- MODULE IngestBuffer ----------------------------
(***************************************************************************)
(* stores/bufferedEventStore.ts: the queue of one API process in front of  *)
(* the event store.  Plain appends are gathered into physical batches that *)
(* one flush at a time writes; idempotent batches each keep a transaction  *)
(* of their own and wait for one of a few slots.  Both count towards one   *)
(* limit of queued events.                                                 *)
(*                                                                         *)
(* JavaScript runs a callback to its next await without interruption, so   *)
(* each action is what happens from one await to the next: a call arrives, *)
(* the timer fires, a write of the inner store settles.                    *)
(***************************************************************************)
EXTENDS Integers, Sequences, SequencesExt, FiniteSets, FiniteSetsExt

CONSTANTS
  Plain,        \* callers of append
  Idempotent,   \* callers of appendIdempotent
  EventsOf,     \* EventsOf[c]: events in the call of c
  MaxEvents,        \* maxEvents: the largest physical batch
  MaxPendingEvents, \* maxPendingEvents: events queued or being written
  MaxConcurrent     \* maxConcurrentIdempotentAppends

Caller == Plain \cup Idempotent

\* validateOptions; an append without events returns at once and is left out.
ASSUME BufferAssumption ==
  /\ Plain \cap Idempotent = {} /\ IsFiniteSet(Caller)
  /\ EventsOf \in [Caller -> Nat] /\ \A c \in Plain : EventsOf[c] > 0
  /\ MaxEvents \in Nat \ {0} /\ MaxConcurrent \in Nat \ {0}
  /\ MaxPendingEvents \in Nat /\ MaxEvents <= MaxPendingEvents

VARIABLES
  status,      \* status[c]: what the promise of c has come to
  stored,      \* callers whose events the inner store has committed
  pending, pendingEvents,      \* appends waiting for a flush
  inFlight, inFlightEvents,    \* the physical batch being written
  flushing, timer,
  queue,       \* idempotentQueue
  running,     \* idempotent appends handed to the inner store
  idempotentEvents

buffer == <<pending, pendingEvents, inFlight, inFlightEvents, flushing, timer>>
slots  == <<queue, running, idempotentEvents>>
bufferVars   == <<status, stored, buffer, slots>>

Settled == {"acknowledged", "failed", "turned away"}

BufferInit ==
  /\ status = [c \in Caller |-> "idle"] /\ stored = {}
  /\ pending = <<>> /\ pendingEvents = 0
  /\ inFlight = <<>> /\ inFlightEvents = 0
  /\ flushing = FALSE /\ timer = FALSE
  /\ queue = <<>> /\ running = {} /\ idempotentEvents = 0

-----------------------------------------------------------------------------
\* An idempotent batch of invalid events still takes a place in the queue.
Weight(c) == Max({1, EventsOf[c]})
Load(c) == IF c \in Plain THEN EventsOf[c] ELSE Weight(c)

\* The load of some calls, and of a list, in which no call is twice.
LoadOf(calls) == MapThenSumSet(Load, calls)
Events(s) == LoadOf(ToSet(s))

FitsWithoutInFlight(n) == pendingEvents + idempotentEvents + n <= MaxPendingEvents
Fits(n) == pendingEvents + inFlightEvents + idempotentEvents + n <= MaxPendingEvents

LastInFirst(s, c) == <<c>> \o s
Enqueue(s, c) == Append(s, c)

\* The longest prefix of the waiting appends that makes a physical batch.
WholeQueue(s) == s
FirstBatch(s) ==
  SubSeq(s, 1, Max({k \in 0 .. Len(s) : Events(SubSeq(s, 1, k)) <= MaxEvents}))

\* The flush that has written n events takes its next batch from s, of which the
\* counter says total, and waits for the inner store; without one it ends.
TakeBatch(s, total, n) ==
  LET taken == FirstBatch(s) IN
  /\ inFlight' = taken /\ inFlightEvents' = inFlightEvents - n + Events(taken)
  /\ pending' = SubSeq(s, Len(taken) + 1, Len(s))
  /\ pendingEvents' = total - Events(taken)
  /\ flushing' = (s # <<>>)

\* 413 or 503.
TurnAway(c) ==
  /\ status[c] = "idle"
  /\ EventsOf[c] > MaxEvents \/ ~Fits(Load(c))
  /\ status' = [status EXCEPT ![c] = "turned away"]
  /\ UNCHANGED <<stored, buffer, slots>>

Admit(c) ==
  /\ status[c] = "idle"
  /\ EventsOf[c] <= MaxEvents /\ Fits(Load(c))
  /\ status' = [status EXCEPT ![c] = "waiting"]

\* scheduleFlush leaves a timer that is set, and a running flush, alone.
NeverArmed == timer
ArmTimer == timer \/ ~flushing

\* A full queue is flushed at once; a flush that is running will come to it.
AppendCall(c) ==
  LET s     == Enqueue(pending, c)
      total == pendingEvents + EventsOf[c]
  IN /\ Admit(c)
     /\ IF total >= MaxEvents /\ ~flushing
        THEN TakeBatch(s, total, 0) /\ timer' = FALSE
        ELSE /\ pending' = s /\ pendingEvents' = total
             /\ timer' = (total < MaxEvents /\ ArmTimer)
             /\ UNCHANGED <<inFlight, inFlightEvents, flushing>>
     /\ UNCHANGED <<stored, slots>>

TimerFires ==
  /\ timer /\ timer' = FALSE
  /\ IF flushing \/ pending = <<>>
     THEN UNCHANGED <<pending, pendingEvents, inFlight, inFlightEvents, flushing>>
     ELSE TakeBatch(pending, pendingEvents, 0)
  /\ UNCHANGED <<status, stored, slots>>

Settle(callers, answer) ==
  status' = [c \in Caller |-> IF c \in callers THEN answer ELSE status[c]]

\* How a write of the inner store can end: an error may hide a commit.
EndsAckedEarly == {[commit |-> TRUE, answer |-> "acknowledged"],
                   [commit |-> FALSE, answer |-> "acknowledged"]}
Ends == {[commit |-> TRUE,  answer |-> "acknowledged"],
         [commit |-> TRUE,  answer |-> "failed"],
         [commit |-> FALSE, answer |-> "failed"]}

FlushSettles(end) ==
  /\ flushing
  /\ Settle(ToSet(inFlight), end.answer)
  /\ stored' = IF end.commit THEN stored \cup ToSet(inFlight) ELSE stored
  /\ TakeBatch(pending, pendingEvents, Events(inFlight))
  /\ UNCHANGED <<timer, slots>>

-----------------------------------------------------------------------------
\* pumpIdempotentQueue starts what there are slots for.
PumpWithoutShift(s, r) ==
  /\ queue' = s /\ running' = IF Cardinality(r) < MaxConcurrent
                               THEN r \cup ToSet(SubSeq(s, 1, 1)) ELSE r
Pump(s, r) ==
  LET free == MaxConcurrent - Cardinality(r)
      k    == IF Len(s) < free THEN Len(s) ELSE free
  IN /\ queue' = SubSeq(s, k + 1, Len(s))
     /\ running' = r \cup ToSet(SubSeq(s, 1, k))

AppendIdempotentCall(c) ==
  /\ Admit(c)
  /\ idempotentEvents' = idempotentEvents + Weight(c)
  /\ Pump(Enqueue(queue, c), running)
  /\ UNCHANGED <<stored, buffer>>

Freed(c) == Weight(c)

IdempotentSettles(c, end) ==
  /\ c \in running
  /\ Settle({c}, end.answer)
  /\ stored' = IF end.commit THEN stored \cup {c} ELSE stored
  /\ idempotentEvents' = idempotentEvents - Freed(c)
  /\ Pump(queue, running \ {c})
  /\ UNCHANGED buffer

\* The caller comes back with other events.
CallAgain(c) ==
  /\ status[c] \in Settled
  /\ status' = [status EXCEPT ![c] = "idle"]
  /\ stored' = stored \ {c}
  /\ UNCHANGED <<buffer, slots>>

Flush == \E end \in Ends : FlushSettles(end)
SlotSettles(c) == \E end \in Ends : IdempotentSettles(c, end)

BufferNext ==
  \/ \E c \in Plain : AppendCall(c)
  \/ \E c \in Idempotent : AppendIdempotentCall(c)
  \/ \E c \in Caller : TurnAway(c) \/ CallAgain(c)
  \/ TimerFires
  \/ Flush
  \/ \E c \in Idempotent : SlotSettles(c)

\* Timers fire, and the database answers or its statement times out.
BufferFairness ==
  /\ WF_bufferVars(TimerFires) /\ WF_bufferVars(Flush)
  /\ \A c \in Idempotent : WF_bufferVars(SlotSettles(c))

BufferSpec     == BufferInit /\ [][BufferNext]_bufferVars
BufferFairSpec == BufferSpec /\ BufferFairness

-----------------------------------------------------------------------------
(* Properties.                                                             *)

Queued == ToSet(pending) \cup ToSet(inFlight) \cup ToSet(queue) \cup running

\* Every variable has its type; a batch that is being written is never larger than
\* a physical batch, and the counters are never negative.
BufferTypeOK ==
  /\ status \in [Caller -> {"idle", "waiting"} \cup Settled]
  /\ stored \subseteq Caller
  /\ pending \in Seq(Plain) /\ inFlight \in Seq(Plain)
  /\ pendingEvents \in Nat /\ inFlightEvents \in 0 .. MaxEvents
  /\ flushing \in BOOLEAN /\ timer \in BOOLEAN
  /\ queue \in Seq(Idempotent) /\ running \subseteq Idempotent
  /\ idempotentEvents \in 0 .. MaxPendingEvents

\* Every admitted call is in exactly one place of the queue, and nothing else is.
HeldOnce ==
  /\ \A c \in Caller : status[c] = "waiting" <=> c \in Queued
  /\ Cardinality(Queued) = Len(pending) + Len(inFlight) + Len(queue) + Cardinality(running)

\* What the process really holds never exceeds maxPendingEvents, whatever was
\* admitted while a batch was being written and whatever writes failed (no call is
\* counted twice: HeldOnce).
BufferIsBounded == LoadOf(Queued) <= MaxPendingEvents

\* There is always something left that will come to a waiting call: a timer or a
\* flush for an append, a slot in use for an idempotent batch.
NothingIsForgotten ==
  /\ pending # <<>> => timer \/ flushing
  /\ queue # <<>> => Cardinality(running) = MaxConcurrent

\* A caller that was told so can rely on its events being stored.
AnswersAreTrue == \A c \in Caller : status[c] = "acknowledged" => c \in stored

\* What was admitted is held in one place, will be written, and is told the truth.
CallsAreKept == HeldOnce /\ NothingIsForgotten /\ AnswersAreTrue

\* The buffer neither loses a call nor takes more than it has room for.
BufferIsSound == CallsAreKept /\ BufferIsBounded

\* Every call that was admitted is answered, however many come after it: none
\* waits for ever.
EveryCallIsAnswered == \A c \in Caller : []<>(status[c] # "waiting")
=============================================================================
