--------------------------- MODULE WebhookOutbox ---------------------------
(***************************************************************************)
(* The durable webhook outbox (services/webhooks.ts): rows of              *)
(* webhook_outbox, the workers that claim them under a lease, the HTTP     *)
(* endpoint that may accept a request whose answer is lost, and the        *)
(* transactions that record the result of an attempt.                      *)
(*                                                                         *)
(* Time is relative, so that it can pass for ever in finitely many states: *)
(* wait[d] is next_attempt_at minus the current instant, age[d] is the     *)
(* current instant minus updated_at, and lag[w] is the current instant     *)
(* minus the `now' that runOnce of worker w captured when it began.  The   *)
(* code only compares these values with one another, so they are kept      *)
(* exact up to MaxLag, the longest time a run may last (see Tick).         *)
(***************************************************************************)
EXTENDS Integers, FiniteSets

CONSTANTS
  Delivery,      \* webhook_outbox rows (one per idempotency key)
  Test,          \* the deliveries enqueued by enqueueTest
  Destination,   \* webhook_destinations rows
  DestinationOf, \* the destination of each delivery
  Worker,        \* processes that run startWebhookOutbox
  NoDelivery,    \* "this worker has no delivery in hand"
  MaxAttempts, BatchSize, Lease, BaseRetry, MaxRetry,  \* WebhookOutboxOptions
  MaxLag,        \* bound: the longest time a run may last before time stops for it
  Faults         \* which of FaultKind the environment may inject

FaultKind == {"crash", "rollback", "lost_ack"}

ASSUME OutboxAssumption ==
  /\ Test \subseteq Delivery
  /\ NoDelivery \notin Delivery
  /\ DestinationOf \in [Delivery -> Destination]
  /\ MaxAttempts \in Nat \ {0}
  /\ BatchSize \in Nat \ {0}
  /\ Lease \in Nat \ {0}
  /\ BaseRetry \in Nat \ {0}
  /\ MaxRetry \in Nat \ {0}
  /\ MaxLag \in Nat
  /\ Faults \subseteq FaultKind

VARIABLES
  status,        \* webhook_outbox.status, "absent" before the INSERT
  attempts,      \* webhook_outbox.attempt_count
  wait,          \* webhook_outbox.next_attempt_at, relative (negative: overdue)
  age,           \* webhook_outbox.updated_at, relative
  deliveredAt,   \* whether webhook_outbox.delivered_at is set
  log,           \* webhook_delivery_attempts: log[d][n] is the row of attempt n
  dest,          \* webhook_destinations.status
  pc,            \* where runOnce of a worker stands
  lag,           \* how long ago the worker captured its `now'
  held,          \* held[w][d]: attempt number under which w claimed d, 0 if it did not
  cur,           \* the delivery the worker is processing
  posted,        \* requests for d that reached the endpoint
  accepted       \* the endpoint has answered 2xx to one of them

row     == <<status, attempts, wait, age, deliveredAt, log>>
runner  == <<pc, lag, held, cur>>
network == <<posted, accepted>>
vars    == <<row, dest, runner, network>>

RowStatus  == {"absent", "pending", "delivering", "delivered", "failed", "dead"}
DestStatus == {"configured", "verified", "error"}
Phase      == {"idle", "claiming", "sending", "succeeding", "failing"}
Attempt    == 0 .. MaxAttempts
Due        == -MaxLag .. MaxRetry
Age        == 0 .. (Lease + MaxLag)
LogEntry   == {"none", "delivered", "failed"}

Nothing == [d \in Delivery |-> 0]

Init ==
  /\ status      = [d \in Delivery |-> "absent"]
  /\ attempts    = [d \in Delivery |-> 0]
  /\ wait        = [d \in Delivery |-> 0]
  /\ age         = [d \in Delivery |-> 0]
  /\ deliveredAt = [d \in Delivery |-> FALSE]
  /\ log         = [d \in Delivery |-> [n \in 1 .. MaxAttempts |-> "none"]]
  /\ dest        = [x \in Destination |-> "configured"]
  /\ pc          = [w \in Worker |-> "idle"]
  /\ lag         = [w \in Worker |-> 0]
  /\ held        = [w \in Worker |-> Nothing]
  /\ cur         = [w \in Worker |-> NoDelivery]
  /\ posted      = [d \in Delivery |-> 0]
  /\ accepted    = [d \in Delivery |-> FALSE]

-----------------------------------------------------------------------------
(* Enqueueing.  A second enqueue with the same idempotency key returns the  *)
(* existing row and changes nothing, so each delivery is inserted once.     *)

Insert(d) ==
  /\ status[d] = "absent"
  /\ status' = [status EXCEPT ![d] = "pending"]
  /\ UNCHANGED <<attempts, wait, age, deliveredAt, log, dest, runner, network>>

\* enqueueTest: any destination, verified or not.
EnqueueTest(d) == d \in Test /\ Insert(d)

\* enqueueAction: only a destination whose status is `verified' now.
EnqueueAction(d) ==
  /\ d \notin Test
  /\ dest[DestinationOf[d]] = "verified"
  /\ Insert(d)

-----------------------------------------------------------------------------
(* One run of a worker.                                                     *)

\* startWebhookOutbox: the single-flight timer starts runOnce, which
\* captures `now' before it has a database connection.
BeginRun(w) ==
  /\ pc[w] = "idle"
  /\ pc' = [pc EXCEPT ![w] = "claiming"]
  /\ UNCHANGED <<row, dest, lag, held, cur, network>>

\* Mutant: the lease length is left out of the comparison.
LeaseIgnored(w, d) == age[d] >= lag[w]

\* The row's lease ran out, as seen from the `now' of worker w.
LeaseExpired(w, d) == age[d] >= lag[w] + Lease

\* Mutants: no attempt limit; rows left `delivering' by a lost worker never
\* taken over.
ClaimableUnlimited(w, d) ==
  /\ wait[d] <= -lag[w]
  /\ \/ status[d] \in {"pending", "failed"}
     \/ status[d] = "delivering" /\ LeaseExpired(w, d)

ClaimableWithoutTakeover(w, d) ==
  /\ wait[d] <= -lag[w]
  /\ status[d] \in {"pending", "failed"}
  /\ attempts[d] < MaxAttempts

\* The WHERE clause of claim, with the `now' of worker w.
Claimable(w, d) ==
  /\ wait[d] <= -lag[w]
  /\ \/ status[d] \in {"pending", "failed"}
     \/ status[d] = "delivering" /\ LeaseExpired(w, d)
  /\ attempts[d] < MaxAttempts

\* SKIP LOCKED: a row may be passed over while another worker's finishing
\* transaction holds its lock.
MaybeLocked(w, d) == \E v \in Worker \ {w} : held[v][d] # 0

\* ORDER BY next_attempt_at LIMIT batchSize: a claimable row is left out
\* only if it is locked, or if the batch is full of rows due no later.
IsBatch(w, S) ==
  /\ S \subseteq {d \in Delivery : Claimable(w, d)}
  /\ Cardinality(S) <= BatchSize
  /\ \A d \in Delivery \ S :
       Claimable(w, d) =>
         \/ MaybeLocked(w, d)
         \/ Cardinality(S) = BatchSize /\ \A e \in S : wait[e] <= wait[d]

\* Mutant: taking over a stale row resumes its interrupted attempt.
ResumedAttempt(d) == IF status[d] = "delivering" THEN attempts[d] ELSE attempts[d] + 1

\* attempt_count = attempt_count + 1, whatever the row's status.
NextAttempt(d) == attempts[d] + 1

\* The UPDATE of claim on the rows of the batch; updated_at is `now'.
Claim(w) ==
  /\ pc[w] = "claiming"
  /\ \E S \in SUBSET Delivery :
       /\ IsBatch(w, S)
       /\ status'   = [d \in Delivery |-> IF d \in S THEN "delivering" ELSE status[d]]
       /\ attempts' = [d \in Delivery |-> IF d \in S THEN NextAttempt(d) ELSE attempts[d]]
       /\ age'      = [d \in Delivery |-> IF d \in S THEN lag[w] ELSE age[d]]
       /\ held'     = [held EXCEPT ![w] = [d \in Delivery |-> IF d \in S THEN NextAttempt(d) ELSE 0]]
       /\ pc'       = [pc EXCEPT ![w] = IF S = {} THEN "idle" ELSE "sending"]
       /\ lag'      = [lag EXCEPT ![w] = IF S = {} THEN 0 ELSE lag[w]]
  /\ UNCHANGED <<wait, deliveredAt, log, dest, cur, network>>

\* Mutant: any answer counts, the status check of send is dropped.
AnyAnswer(accept, answered) == answered

\* send returns only for a 2xx answer that arrived in time.
Succeeds(accept, answered) == accept /\ answered

\* send: the request reaches the endpoint, which answers 2xx or not; an
\* acceptance whose answer is lost or late is a failure to the worker.
Post(w, d) ==
  /\ pc[w] = "sending"
  /\ held[w][d] # 0
  /\ posted' = [posted EXCEPT ![d] = @ + 1]
  /\ \E accept, answered \in BOOLEAN :
       /\ accepted' = [accepted EXCEPT ![d] = @ \/ accept]
       /\ pc' = [pc EXCEPT ![w] = IF Succeeds(accept, answered) THEN "succeeding" ELSE "failing"]
  /\ cur' = [cur EXCEPT ![w] = d]
  /\ UNCHANGED <<row, dest, lag, held>>

\* decrypt or requestOutbound throws before anything is sent.
SendFails(w, d) ==
  /\ pc[w] = "sending"
  /\ held[w][d] # 0
  /\ pc'  = [pc EXCEPT ![w] = "failing"]
  /\ cur' = [cur EXCEPT ![w] = d]
  /\ UNCHANGED <<row, dest, lag, held, network>>

\* After a delivery is finished the loop goes on with the rest of the batch.
Advance(w, d) ==
  LET rest == [held[w] EXCEPT ![d] = 0] IN
  /\ held' = [held EXCEPT ![w] = rest]
  /\ cur'  = [cur EXCEPT ![w] = NoDelivery]
  /\ pc'   = [pc EXCEPT ![w] = IF rest = Nothing THEN "idle" ELSE "sending"]
  /\ lag'  = [lag EXCEPT ![w] = IF rest = Nothing THEN 0 ELSE lag[w]]

\* INSERT INTO webhook_delivery_attempts ... ON CONFLICT DO NOTHING.
LogWith(d, n, result) ==
  [log EXCEPT ![d][n] = IF @ = "none" THEN result ELSE @]

\* finishSuccess, committed: no test of the row's current status or attempt.
RecordSuccess(w, d) ==
  /\ status'      = [status EXCEPT ![d] = "delivered"]
  /\ deliveredAt' = [deliveredAt EXCEPT ![d] = TRUE]
  /\ age'         = [age EXCEPT ![d] = lag[w]]
  /\ log'         = LogWith(d, held[w][d], "delivered")
  /\ dest'        = IF d \in Test THEN [dest EXCEPT ![DestinationOf[d]] = "verified"] ELSE dest
  /\ UNCHANGED <<attempts, wait, network>>

FinishSuccess(w, d) ==
  /\ pc[w] = "succeeding" /\ cur[w] = d
  /\ RecordSuccess(w, d)
  /\ Advance(w, d)

\* finishSuccess throws and rolls back: runOnce treats the delivery as failed.
SuccessRollsBack(w) ==
  /\ "rollback" \in Faults
  /\ pc[w] = "succeeding"
  /\ pc' = [pc EXCEPT ![w] = "failing"]
  /\ UNCHANGED <<row, dest, lag, held, cur, network>>

\* The COMMIT of finishSuccess took effect but its acknowledgement was
\* lost: the promise rejects and runOnce goes on to finishFailure.
SuccessUnacknowledged(w, d) ==
  /\ "lost_ack" \in Faults
  /\ pc[w] = "succeeding" /\ cur[w] = d
  /\ RecordSuccess(w, d)
  /\ pc' = [pc EXCEPT ![w] = "failing"]
  /\ UNCHANGED <<lag, held, cur>>

\* baseRetryMs * 2^(attempt - 1), capped at maxRetryMs.
Backoff(n) ==
  LET delay == BaseRetry * 2 ^ (n - 1)
  IN  IF delay < MaxRetry THEN delay ELSE MaxRetry

\* next_attempt_at = now + backoff, relative to the current instant.
RetryWait(w, n) ==
  IF Backoff(n) - lag[w] > -MaxLag THEN Backoff(n) - lag[w] ELSE -MaxLag

\* Mutant: one attempt too few.
VerdictTooEarly(n) == IF n >= MaxAttempts - 1 THEN "dead" ELSE "failed"

\* The verdict runOnce computes from the attempt number it claimed.
Verdict(n) == IF n >= MaxAttempts THEN "dead" ELSE "failed"

\* finishFailure: like finishSuccess, it tests neither status nor attempt.
FinishFailure(w, d) ==
  /\ pc[w] = "failing" /\ cur[w] = d
  /\ status' = [status EXCEPT ![d] = Verdict(held[w][d])]
  /\ wait'   = [wait EXCEPT ![d] = RetryWait(w, held[w][d])]
  /\ age'    = [age EXCEPT ![d] = lag[w]]
  /\ log'    = LogWith(d, held[w][d], "failed")
  /\ dest'   = IF d \in Test THEN [dest EXCEPT ![DestinationOf[d]] = "error"] ELSE dest
  /\ Advance(w, d)
  /\ UNCHANGED <<attempts, deliveredAt, network>>

\* The run ends without another write: the process crashed, the claim was
\* rolled back, or finishFailure threw and runOnce rejected.  The rest of
\* the batch stays `delivering' until its lease runs out.
Abandon(w) ==
  /\ "crash" \in Faults
  /\ pc[w] # "idle"
  /\ pc'   = [pc EXCEPT ![w] = "idle"]
  /\ lag'  = [lag EXCEPT ![w] = 0]
  /\ held' = [held EXCEPT ![w] = Nothing]
  /\ cur'  = [cur EXCEPT ![w] = NoDelivery]
  /\ UNCHANGED <<row, dest, network>>

\* One unit of time passes.  MaxLag bounds the length of a run: a run is
\* timely when MaxLag < Lease, as the defaults intend (25 deliveries of at
\* most 10 s each under a lease of 300 s), and may outlive its lease else.
Tick ==
  /\ \A w \in Worker : pc[w] # "idle" => lag[w] < MaxLag
  /\ lag'  = [w \in Worker |-> IF pc[w] = "idle" THEN 0 ELSE lag[w] + 1]
  /\ wait' = [d \in Delivery |->
                IF status[d] # "absent" /\ wait[d] > -MaxLag THEN wait[d] - 1 ELSE wait[d]]
  /\ age'  = [d \in Delivery |->
                IF status[d] # "absent" /\ age[d] < Lease + MaxLag THEN age[d] + 1 ELSE age[d]]
  /\ UNCHANGED <<status, attempts, deliveredAt, log, dest, pc, held, cur, network>>

Enqueue(d) == EnqueueTest(d) \/ EnqueueAction(d)

Work(w) ==
  \E d \in Delivery : Post(w, d) \/ SendFails(w, d) \/ FinishSuccess(w, d) \/ FinishFailure(w, d)

Next ==
  \/ \E d \in Delivery : Enqueue(d)
  \/ \E w \in Worker : BeginRun(w) \/ Claim(w) \/ SuccessRollsBack(w) \/ Abandon(w)
  \/ \E w \in Worker, d \in Delivery :
       \/ Post(w, d) \/ SendFails(w, d)
       \/ FinishSuccess(w, d) \/ SuccessUnacknowledged(w, d) \/ FinishFailure(w, d)
  \/ Tick

Spec == Init /\ [][Next]_vars

\* Time passes, the timer of every process keeps firing and a running batch
\* goes on.  Strong fairness of Claim says that runs do not crash for ever
\* between the timer and the claim.
Fairness ==
  /\ WF_vars(Tick)
  /\ \A w \in Worker : WF_vars(BeginRun(w)) /\ SF_vars(Claim(w)) /\ WF_vars(Work(w))

FairSpec == Spec /\ Fairness

-----------------------------------------------------------------------------
(* Properties of every run, timely or not.                                  *)

\* Every row, worker and time value keeps the type the schema and runOnce
\* give it; in particular attempt_count never passes maxAttempts, so that
\* the attempt column of webhook_delivery_attempts is always in range.
TypeOK ==
  /\ status \in [Delivery -> RowStatus]
  /\ attempts \in [Delivery -> Attempt]
  /\ wait \in [Delivery -> Due]
  /\ age \in [Delivery -> Age]
  /\ deliveredAt \in [Delivery -> BOOLEAN]
  /\ log \in [Delivery -> [1 .. MaxAttempts -> LogEntry]]
  /\ dest \in [Destination -> DestStatus]
  /\ pc \in [Worker -> Phase]
  /\ lag \in [Worker -> 0 .. MaxLag]
  /\ held \in [Worker -> [Delivery -> Attempt]]
  /\ cur \in [Worker -> Delivery \cup {NoDelivery}]
  /\ posted \in [Delivery -> Nat]
  /\ accepted \in [Delivery -> BOOLEAN]

\* Two workers never hold the same attempt of the same delivery, however
\* their leases overlap: an attempt number has one owner, so the append-only
\* attempt row it writes is never silently dropped by ON CONFLICT DO NOTHING
\* in favour of another worker's result.
AttemptHasOneOwner ==
  \A v, w \in Worker, d \in Delivery :
    v # w /\ held[v][d] # 0 => held[v][d] # held[w][d]

\* Retries are bounded at the receiver: the endpoint sees at most one
\* request per attempt claimed, and at most maxAttempts in all, whatever
\* crashes, expired leases and late results do to the row's status.
PostsAreBounded ==
  \A d \in Delivery : posted[d] <= attempts[d] /\ attempts[d] <= MaxAttempts

\* Nothing is reported delivered, and no destination is reported verified,
\* unless the endpoint really answered 2xx: a row whose delivered_at is set
\* was accepted, and a verified destination accepted one of its own tests.
DeliveredWasAccepted ==
  /\ \A d \in Delivery : deliveredAt[d] => accepted[d]
  /\ \A x \in Destination : dest[x] = "verified" =>
       \E d \in Test : DestinationOf[d] = x /\ deliveredAt[d]

\* The append-only attempt history explains a terminal row: a delivered row
\* has an attempt logged as delivered, and a dead row has its last allowed
\* attempt in the log, even when a late worker settled it.
TerminalStatusIsLogged ==
  \A d \in Delivery :
    /\ status[d] = "delivered" => \E n \in 1 .. MaxAttempts : log[d][n] = "delivered"
    /\ status[d] = "dead" => log[d][MaxAttempts] # "none"

\* What the row of a delivery says of its attempts is true.
RowTellsTheTruth == PostsAreBounded /\ DeliveredWasAccepted /\ TerminalStatusIsLogged

-----------------------------------------------------------------------------
(* Properties of timely runs (MaxLag < Lease, no acknowledgement lost).     *)

\* While every run ends within its lease, a delivery is in the hands of one
\* worker at most: the lease alone keeps two workers apart, since neither
\* finish transaction looks at the row it overwrites.
OneHolder ==
  \A v, w \in Worker, d \in Delivery :
    held[v][d] # 0 /\ held[w][d] # 0 => v = w

\* The row, as the contract sees it.
Outcome == [d \in Delivery |->
  IF status[d] \in {"pending", "delivering", "failed"} THEN "owed" ELSE status[d]]

Contract == INSTANCE DeliveryContract
              WITH outcome <- Outcome, tries <- attempts, accepted <- accepted

\* A timely outbox implements the delivery contract.
ContractSpec == Contract!Spec

\* "Retries are bounded and restart-safe" (the decision-loop documentation):
\* every enqueued delivery ends up delivered or dead-lettered.
EverySettled ==
  \A d \in Delivery : status[d] # "absent" ~> status[d] \in {"delivered", "dead"}

\* What does hold: every delivery is settled, or the worker that made its
\* last allowed attempt was lost before it recorded the result.
SettledOrLastAttemptLost ==
  \A d \in Delivery : []<>
    \/ status[d] \in {"absent", "delivered", "dead"}
    \/ attempts[d] = MaxAttempts /\ log[d][MaxAttempts] = "none"
=============================================================================
