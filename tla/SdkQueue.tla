------------------------------ MODULE SdkQueue ------------------------------
(***************************************************************************)
(* sdk/src/index.ts: the client a product embeds.  Events and entity       *)
(* updates wait in queues; a flush drains batches that failed before, then *)
(* entities, then events, one request at a time.  The flushes of the timer *)
(* exclude each other, that of a page that is being hidden runs beside     *)
(* them.  A batch that cannot be delivered is kept and sent again under    *)
(* the identifier it was formed with.                                      *)
(*                                                                         *)
(* JavaScript runs to the next await, so an action is the answer to one    *)
(* request with all that the drain does until its next request.            *)
(***************************************************************************)
EXTENDS Integers, Sequences, SequencesExt, FiniteSets

CONSTANTS
  Events,       \* bound: calls of capture, whose events are numbered in their order
  Entities,     \* bound: calls of identify, numbered after them
  Drain,        \* drains that can run: that of the timer and those of a hidden page
  Timer,        \* the drain that `flushing' guards
  MaxBatch, KeepaliveBatch,   \* items of a request: maxBatchSize, KEEPALIVE_BATCH
  MaxQueue,     \* maxQueue
  MaxRetryBatches,
  MaxTries      \* attempts of a request of the timer's drain: send

Captured  == 1 .. Events
Entity == Events + 1 .. Events + Entities
Item   == Captured \cup Entity

ASSUME SdkAssumption ==
  /\ Events \in Nat /\ Entities \in Nat
  /\ IsFiniteSet(Drain) /\ Timer \in Drain
  /\ MaxBatch \in Nat \ {0} /\ KeepaliveBatch \in Nat \ {0}
  /\ MaxQueue \in Nat \ {0} /\ MaxRetryBatches \in Nat \ {0}
  /\ MaxTries \in Nat \ {0}

VARIABLES
  fate,      \* fate[i]: what has become of the item, as far as the client knows
  events, entities,   \* the queues
  retries,   \* batches that failed transiently
  drain,     \* drain[d]: its phase, the batches it still has to retry, the batch
             \* on its way and the attempts made for it
  client,    \* the client runs, is in shutdown, or shutdown has returned
  seen,      \* external: the batches still alive that the server has stored
  stored     \* external: how often the server has stored an event

clientVars == <<fate, events, entities, retries, drain, client, seen, stored>>

NoBatch == [id |-> 0, items |-> <<>>]
IdleDrain == [phase |-> "idle", pending |-> <<>>, batch |-> NoBatch, attempts |-> 0]
Fates == {"new", "held", "accepted", "given_up"}

ClientInit ==
  /\ fate = [i \in Item |-> "new"]
  /\ events = <<>> /\ entities = <<>> /\ retries = <<>>
  /\ drain = [d \in Drain |-> IdleDrain]
  /\ client = "running"
  /\ seen = {}
  /\ stored = [e \in Captured |-> 0]

Cap(d) == IF d = Timer THEN MaxBatch ELSE KeepaliveBatch
First(s, n) == SubSeq(s, 1, IF Len(s) < n THEN Len(s) ELSE n)
Rest(s, n)  == SubSeq(s, (IF Len(s) < n THEN Len(s) ELSE n) + 1, Len(s))
Oldest(s, n) == First(s, IF Len(s) > n THEN Len(s) - n ELSE 0)
Newest(s, n) == Rest(s, IF Len(s) > n THEN Len(s) - n ELSE 0)
\* What is left of s, in its order, without the elements in gone.
Without(s, gone) ==
  LET left == {i \in DOMAIN s : s[i] \notin gone} IN
  [n \in 1 .. Cardinality(left) |->
     s[CHOOSE i \in left : Cardinality({j \in left : j <= i}) = n]]

Held(batches) == UNION {ToSet(b.items) : b \in ToSet(batches)}

Decided(items, f) == [i \in Item |-> IF i \in items THEN f ELSE fate[i]]

\* Identifiers of the batches of which something may still be heard.
Alive ==
  {b.id : b \in ToSet(retries)}
  \cup UNION {{b.id : b \in ToSet(drain[d].pending) \cup {drain[d].batch}} : d \in Drain}

\* randomUUID: an identifier that no batch has.
Fresh == CHOOSE id \in 1 .. Cardinality(Alive) + 1 : id \notin Alive

-----------------------------------------------------------------------------
(* drain.  The queues the drain finds are arguments: the caller may just have *)
(* changed them.                                                            *)

\* d goes on to its next request: the batches that failed, from the oldest, then
\* entities, then events.  A phase that is over does not come back.  The server
\* knows some batches.
Proceed(d, phase, pending, evs, ents, rets, known) ==
  LET at(p, b, rest) == [phase |-> p, pending |-> rest, batch |-> b, attempts |-> 0] IN
  /\ retries' = rets
  /\ IF pending # <<>>
     THEN /\ drain' = [drain EXCEPT ![d] = at("retries", pending[1], Tail(pending))]
          /\ entities' = ents /\ events' = evs
     ELSE IF phase # "events" /\ ents # <<>>
     THEN /\ drain' = [drain EXCEPT ![d] =
               at("entities", [id |-> Fresh, items |-> First(ents, Cap(d))], <<>>)]
          /\ entities' = Rest(ents, Cap(d)) /\ events' = evs
     ELSE IF evs # <<>>
     THEN /\ drain' = [drain EXCEPT ![d] =
               at("events", [id |-> Fresh, items |-> First(evs, Cap(d))], <<>>)]
          /\ events' = Rest(evs, Cap(d)) /\ entities' = ents
     ELSE /\ drain' = [drain EXCEPT ![d] =
               IF d = Timer THEN at("ending", NoBatch, <<>>) ELSE IdleDrain]
          /\ entities' = ents /\ events' = evs
  /\ seen' = known \cap Alive'

\* Mutant: the batches a drain takes stay in the list of those to retry.
RetriesStay == retries

\* drain takes all the batches that wait.
RetriesTaken == <<>>

\* flush: without keepalive it leaves a running flush to its work.
Flush(d, evs, ents) ==
  IF drain[d].phase # "idle"
  THEN events' = evs /\ entities' = ents /\ UNCHANGED <<retries, drain, seen>>
  ELSE Proceed(d, "retries", retries, evs, ents, RetriesTaken, seen)

\* flushing becomes false in a callback after the one that found nothing to send.
FlushEnds ==
  /\ drain[Timer].phase = "ending"
  /\ drain' = [drain EXCEPT ![Timer] = IdleDrain]
  /\ client' = IF client = "closing" THEN "closed" ELSE client
  /\ UNCHANGED <<fate, events, entities, retries, seen, stored>>

-----------------------------------------------------------------------------
(* The calls of the product.                                                *)

Capture(e) ==
  LET all  == Append(events, e)
      kept == Newest(all, MaxQueue) IN
  /\ client = "running" /\ fate[e] = "new" /\ (e - 1 \in Captured => fate[e - 1] # "new")
  /\ fate' = [Decided(ToSet(Oldest(all, MaxQueue)), "given_up") EXCEPT
                ![e] = IF e \in ToSet(kept) THEN "held" ELSE "given_up"]
  /\ IF Len(kept) >= MaxBatch THEN Flush(Timer, kept, entities)
     ELSE events' = kept /\ UNCHANGED <<entities, retries, drain, seen>>
  /\ UNCHANGED <<client, stored>>

Identify(u) ==
  LET all == Append(entities, u) IN
  /\ client = "running" /\ fate[u] = "new" /\ (u - 1 \in Entity => fate[u - 1] # "new")
  /\ fate' = [fate EXCEPT ![u] = "held"]
  /\ IF Len(all) >= MaxBatch THEN Flush(Timer, events, all)
     ELSE entities' = all /\ UNCHANGED <<events, retries, drain, seen>>
  /\ UNCHANGED <<client, stored>>

\* discardQueuedEvents: from the queue and from the batches that wait, not from
\* what a running drain has taken.
DiscardQueued(selected) ==
  LET filtered == [n \in DOMAIN retries |->
                     [retries[n] EXCEPT !.items = Without(@, selected)]]
      gone == selected \cap (ToSet(events) \cup Held(retries)) IN
  /\ client = "running" /\ gone # {}
  /\ events' = Without(events, selected)
  /\ retries' = Without(filtered, {b \in ToSet(filtered) : b.items = <<>>})
  /\ fate' = Decided(gone, "given_up")
  /\ UNCHANGED <<entities, drain, client, stored>>
  /\ seen' = seen \cap Alive'

\* The interval of the timer.
TimerFires ==
  /\ client = "running" /\ drain[Timer].phase = "idle"
  /\ retries # <<>> \/ entities # <<>> \/ events # <<>>
  /\ Flush(Timer, events, entities)
  /\ UNCHANGED <<fate, client, stored>>

\* visibilitychange or pagehide.
PageHidden(d) ==
  /\ client = "running" /\ d # Timer /\ drain[d].phase = "idle"
  /\ retries # <<>> \/ entities # <<>> \/ events # <<>>
  /\ Flush(d, events, entities)
  /\ UNCHANGED <<fate, client, stored>>

\* shutdown stops the timer, and awaits a flush that returns at once when another
\* is running.
Shutdown ==
  /\ client = "running"
  /\ client' = IF drain[Timer].phase = "idle" THEN "closing" ELSE "closed"
  /\ Flush(Timer, events, entities)
  /\ UNCHANGED <<fate, stored>>

-----------------------------------------------------------------------------
(* send.                                                                    *)

\* The server stores the events of a batch whose identifier it has not seen; an
\* update of entities has no identifier, and may be repeated.
StoredWith(b) ==
  [e \in Captured |-> IF e \in ToSet(b.items) /\ b.id \notin seen THEN stored[e] + 1 ELSE stored[e]]

\* A batch that could not be delivered is kept; the oldest give way.
Requeued(b) == Newest(Append(retries, b), MaxRetryBatches)

Accepted(d) ==
  LET b == drain[d].batch IN
  /\ b # NoBatch
  /\ stored' = StoredWith(b)
  /\ fate' = Decided(ToSet(b.items), "accepted")
  /\ Proceed(d, drain[d].phase, drain[d].pending, events, entities, retries, seen \cup {b.id})
  /\ UNCHANGED client

\* A status below 500 that is no success drops the batch.
Rejected(d) ==
  LET b == drain[d].batch IN
  /\ b # NoBatch
  /\ fate' = Decided(ToSet(b.items), "given_up")
  /\ Proceed(d, drain[d].phase, drain[d].pending, events, entities, retries, seen)
  /\ UNCHANGED <<client, stored>>

Attempts(d) == IF d = Timer THEN MaxTries ELSE 1

\* A status of 500 or more, or no answer: the request may have arrived.
Failed(d, arrived) ==
  LET b    == drain[d].batch
      kept == Requeued(b)
      lost == Held(Oldest(Append(retries, b), MaxRetryBatches))
      known == IF arrived THEN seen \cup {b.id} ELSE seen IN
  /\ b # NoBatch
  /\ stored' = IF arrived THEN StoredWith(b) ELSE stored
  /\ IF drain[d].attempts + 1 < Attempts(d)
     THEN /\ drain' = [drain EXCEPT ![d].attempts = @ + 1]
          /\ seen' = known
          /\ UNCHANGED <<fate, events, entities, retries>>
     ELSE /\ fate' = Decided(lost, "given_up")
          /\ Proceed(d, drain[d].phase, drain[d].pending, events, entities, kept, known)
  /\ UNCHANGED client

Answered(d) == Accepted(d) \/ Rejected(d) \/ \E arrived \in BOOLEAN : Failed(d, arrived)

ClientNext ==
  \/ \E e \in Captured : Capture(e)
  \/ \E u \in Entity : Identify(u)
  \/ \E selected \in SUBSET Captured : DiscardQueued(selected)
  \/ TimerFires \/ FlushEnds \/ Shutdown
  \/ \E d \in Drain : PageHidden(d) \/ Answered(d)

ClientSpec == ClientInit /\ [][ClientNext]_clientVars

-----------------------------------------------------------------------------
(* Properties.                                                              *)

ClientTypeOK ==
  /\ fate \in [Item -> Fates]
  /\ events \in Seq(Captured) /\ entities \in Seq(Entity)
  /\ Held(retries) \subseteq Item
  /\ \A d \in Drain :
       /\ drain[d].phase \in {"idle", "retries", "entities", "events"}
                            \cup IF d = Timer THEN {"ending"} ELSE {}
       /\ Held(drain[d].pending) \cup ToSet(drain[d].batch.items) \subseteq Item
       /\ drain[d].attempts \in 0 .. MaxTries - 1
  /\ seen \subseteq Alive
  /\ client \in {"running", "closing", "closed"}
  /\ stored \in [Captured -> Nat]

\* Where the client has item i.
Places(i) ==
  {<<"queue", k>> : k \in {n \in 1 .. 1 : i \in ToSet(events) \cup ToSet(entities)}}
  \cup {<<"retry", k>> : k \in {n \in DOMAIN retries : i \in ToSet(retries[n].items)}}
  \cup {<<"drain", d>> : d \in {x \in Drain :
          i \in ToSet(drain[x].batch.items) \cup Held(drain[x].pending)}}

\* Whatever drains run beside each other, an item is in exactly one place until its
\* fate is known, then nowhere; and the queue and the batches kept stay bounded.
NothingVanishes ==
  /\ \A i \in Item : Cardinality(Places(i)) = IF fate[i] = "held" THEN 1 ELSE 0
  /\ Len(events) <= MaxQueue /\ Len(retries) <= MaxRetryBatches

\* An event is stored at most once, however often its batch is sent and though some
\* of the batch was discarded meanwhile, and it is if the client was told so.
DeliveredOnce ==
  \A e \in Captured : stored[e] <= 1 /\ (fate[e] = "accepted" => stored[e] = 1)

\* What the client was given it keeps, sends once, or knowingly gives up.
EventsAreKept == NothingVanishes /\ DeliveredOnce

\* `await shutdown()' flushes (sdk/README.md:283): once it has returned nothing
\* waits in the queues, and no request is on its way that it should have awaited.
ShutdownHasFlushed ==
  client = "closed" =>
    events = <<>> /\ entities = <<>> /\ drain[Timer].batch = NoBatch
=============================================================================
