# Poolstatis in TLA+

This directory is a verification development of Poolstatis, an analytics server
on PostgreSQL: TLA+ modules translated from its TypeScript source, TLC
configurations that check them on small instances, and proofs that TLAPS checks
for every value of the constants. Paths below are relative to the repository;
`src/` is the server.

The product has one database and any number of server processes. What makes it
hard is hardly ever inside one function: it is in claims and leases, in
transactions that stop half way, in calls that are repeated, and in effects
(an HTTP post, a file) that no transaction covers. The models follow those.

1. [Inventory](#1-inventory)
2. [Modules and the code they model](#2-modules-and-the-code-they-model)
3. [Runs: what TLC checks](#3-runs-what-tlc-checks)
4. [Disagreements with the documentation](#4-disagreements-with-the-documentation)
5. [Theorems: what TLAPS proves](#5-theorems-what-tlaps-proves)
6. [Fairness](#6-fairness)
7. [Not modelled](#7-not-modelled)
8. [Plan](#8-plan)
9. [Running the checks](#9-running-the-checks)

## 1. Inventory

State lives in PostgreSQL unless said otherwise. "Locks" are row locks of a
transaction, "lease" is a timestamp column compared with a worker's clock.

| Component | State | Operations | What is hard | What makes it correct |
|---|---|---|---|---|
| Webhook outbox `services/webhooks.ts` | `webhook_outbox`, `webhook_delivery_attempts`, `webhook_destinations` | enqueue (test, action), claim, send, finish, retry | leases that are outlived, a receiver whose answer is lost, crash between post and record | one owner per attempt number; bounded posts; delivered only if accepted; every row ends delivered or dead |
| Release monitor, evaluation `services/releaseMonitor.ts`, `evaluation.ts`, `releases.ts` | `releases`, `release_evaluation_attempts`, evidence | claim due, evaluate, finish attempt, transition, API evaluation | monitors and API requests on one release; statuses read before a long query | success only on ready evidence; a final release stays final; every closed window gets one verdict |
| Decisions `services/decisions.ts` | `decisions` | propose, review, edit | approval against evaluation and cancellation | a directional outcome needs ready evidence of the whole window |
| Decision actions `services/actions.ts` | `decision_actions`, audit; flags and outbox by effect | prepare, approve, retry, reject | the effect, its record and its audit are three transactions | nothing happens without approval; what is reported happened; at most one delivery |
| Metered event store `stores/postgresEventStore.ts`, `services/usage.ts` | `events`, `ingest_batches`, `usage_ledger`, `organization_usage`, `usage_warnings` | append, idempotent append, experience batches, backfills | retries of a batch, month boundaries, limits changed meanwhile, advisory locks | stored once; acknowledged is stored; usage equals the ledger; the limit holds; crossings are recorded |
| Usage entitlements `services/usageEntitlements.ts` | `organization_entitlements`, `usage_entitlement_revisions` | read, propose, commit a change | optimistic revisions against metering | no change is lost; a limit below the usage is refused |
| Buffered store `stores/bufferedEventStore.ts` | process memory | append, idempotent append, timer, flush loop | five counters and three queues changed around awaits | bounded memory; every call answered; acknowledged is stored |
| Session replay `services/replay.ts`, `replay/objectStore.ts` | `replay_sessions`, `replay_chunks`, `replay_audit_log`, deletion jobs; files | create, upload, complete, play, withdraw, sweep, delete project | two stores without a common transaction; readers during deletion; resumable phases | a tombstone stops readers; a completed deletion leaves nothing; every deletion ends |
| Automation workers `services/{monitor,insightFeed,notification}Worker.ts` | `monitor_runs`, `insight_feed_runs`, `notification_deliveries`, `notification_inbox` | seed, claim, evaluate, record, fail, enqueue, deliver | three chained leased queues; a cooldown that is read and then acted on; heads that are revised while runs are under way | one result per window, recorded whole; one inbox row per notification; nothing waits for ever |
| Corrections and purge `services/eventManagement.ts`, `stores/postgresEventStore.ts` | `events`, `event_revisions`, the fence of a purge | preview, commit, revise; purge in batches | reviews that are stale when applied, row locks a purge waits for | an event changes as reviewed; the audits account for the row; a purge leaves nothing |
| Retention `services/retention.ts` | `projects.retention_checked_at`, `retention_retry_at`, advisory lock | run, delete a batch, mark | budgets, failures that are local to a project, a cutoff that moves | what is deleted is expired at that moment; no project waits for ever |
| Experiments and flags `services/{experiments,flags}.ts` | `experiments`, `feature_flags` | create, prepare, edit, start, launch, conclude, apply; change, archive | two tables locked in two orders; a check of a running experiment | a running experiment keeps the flag and the definitions it started with |
| Query cache `services/queryCache.ts`, `query.ts` | process memory | load, join, settle, invalidate, evict | handlers of a load that run after its entry was dropped | no answer is older than what the caller knows to be written |
| Rate limiter `services/rateLimiter.ts` | process memory | consume, refill, evict | two stores, two orders of last use, limits on both | buckets that come and go let through what permanent ones would |
| Client `sdk/src/index.ts` | memory of the page | capture, identify, flush, drain, discard, shut down | two drains at once, answers that are lost, a queue at its limit | an event is kept, stored once or knowingly given up |
| Metric registry `services/registry.ts`, `metricDefinitions.ts`, `metricSemantics.ts`, `funnelInvestigations.ts` | `metrics`, `metric_definition_revisions`, `funnels`, `funnel_investigations` | register, update, review, apply, delete; define and delete funnels, persist investigations | reviews that are stale when applied, keys that are used again, deletions that look first and delete then | a review applies to what was reviewed; revisions account for the definition; evidence keeps its funnel |
| Contracts, views, intents | one row per key with a revision | create, update, deprecate | optimistic revisions | no update is lost |
| Accounts, organizations, projects, tokens | rows behind unique indexes | sign in, invite, rotate, delete | deletion (part of session replay) | |
| Query engine, reports, identity | none of their own | build SQL, shape results | semantics of queries | |
| HTTP and MCP servers, web interface | connections | authenticate, validate, call a service | keeping a replay lease until the response is out | part of session replay |

How they interact:

- HTTP routes and the MCP server call services; services share nothing in
  memory except the ingest buffer, the query and registry caches and the rate
  limiter, all of them local to a process.
- The release monitor evaluates releases on a timer, API requests evaluate the
  same releases at any time. An evaluation proposes a decision; a reviewer's
  decision moves the release; a decided release may have actions.
- An action changes a feature flag or puts a delivery into the webhook outbox;
  the outbox worker posts it.
- Ingestion passes the client's queue, the buffer, then the metered store, which
  reads the entitlement an operator may be changing.
- Stored events are corrected, purged and expired by three writers that know of
  each other only through row locks.
- A monitor or feed evaluates on the timer of any process; what it finds is
  frozen as a proposal and put into the notification queue of the destinations.
- A project's deletion passes through snapshots, events, replays, the project
  row and the object prefix, one checkpoint for each.

## 2. Modules and the code they model

| Module | Models | Composed with |
|---|---|---|
| `DeliveryContract` | what an outbox promises, without workers, leases and clocks | |
| `WebhookOutbox` | `services/webhooks.ts` | implements `DeliveryContract` (`ContractSpec`) |
| `WebhookOutboxProofs` | theorems about it | extends it |
| `DecisionLoop` | `services/releaseMonitor.ts`, `evaluation.ts`, `releases.ts`, `decisions.ts`, `schedule_observation` of `actions.ts` | |
| `DecisionActions` | `services/actions.ts` | instantiates `DeliveryContract` as the outbox, and is shown to keep it (`DeliverySpec`) |
| `DecisionProofs` | theorems about `DecisionLoop` and `DecisionActions` | extends both |
| `MeteredIngest` | the write path of `stores/postgresEventStore.ts`, `services/usage.ts`, `usageEntitlements.ts` | |
| `IngestBuffer` | `stores/bufferedEventStore.ts` | its writes end like those of `PostgresEventStore.append` |
| `IngestProofs` | theorems about `MeteredIngest` and `IngestBuffer` | extends both |
| `ReplayLifecycle` | `services/replay.ts`, `replay/objectStore.ts`, the playback route of `http/server.ts` | |
| `ReplayLifecycleProofs` | theorems about it | extends it |
| `MonitorRuns` | `services/monitorWorker.ts`, `insightFeedWorker.ts`, revisions of policies and schedules | |
| `Notifications` | `services/notificationWorker.ts`, `notifications.ts` | takes what `MonitorRuns` enqueues |
| `AutomationProofs` | theorems about `MonitorRuns` and `Notifications` | extends both |
| `EventHistory` | `services/eventManagement.ts`, `reviseEvent` and `purge` of the store, `deleteEventPolicyBatch` of `services/retention.ts` | |
| `RetentionSweep` | `runRetentionOnce` of `services/retention.ts` | what one batch deletes is `EventHistory`'s |
| `Experiments` | `services/experiments.ts`, `flags.ts` | |
| `MetricRegistry` | `services/registry.ts`, `metricDefinitions.ts`, `metricSemantics.ts`, `funnelInvestigations.ts` | |
| `RegistryProofs` | theorems about `Experiments` and `MetricRegistry` | extends both |
| `TokenBuckets` | what a rate limiter promises: buckets that are always there | |
| `RateLimiter` | `services/rateLimiter.ts` | implements `TokenBuckets` (`LimitsAsPromised`) |
| `QueryCache` | `services/queryCache.ts` and the routes that write | |
| `ProcessProofs` | theorems about `QueryCache` and `RateLimiter` | extends both |
| `SdkQueue` | `sdk/src/index.ts` | |
| `EventPathProofs` | theorems about `EventHistory` and `SdkQueue` | extends both |
| `MCWebhookOutbox`, `MCDecisionLoop`, `MCDecisionActions`, `MCSdkQueue`, `MCMetricRegistry` | constants of the runs of one module | extend it |
| `MCTimely`, `MCDecisions`, `MCEventPath`, `MCBrowser`, `MCAutomation`, `MCProcess` | suites, see below | extend the modules their properties are theorems about (`MCTimely` one, `MCEventPath`, `MCBrowser` and `MCAutomation` two, `MCProcess` three, `MCDecisions` four), instantiate the others |

Every definition that stands for code is mapped to its lines in `PROJECT.json`.
A few definitions stand for plausible errors (their comments say *mutant*, or
they stand right before the definition they would replace); no action uses
them, they show that the properties can fail.

Conventions: a transaction that takes its locks and finishes without waiting
for anything outside the database is one action. A transaction whose locks
matter while it waits (a batch claim that meters, a replay upload that writes a
file) is several actions, the lock derived from the program counters. A crash
forgets the process and keeps the rows. Data are model values.

### Webhook outbox

`status`, `attempts`, `wait`, `age`, `deliveredAt` and `log` are the row and its
attempts; `pc`, `lag`, `held`, `cur` are one run of a worker: `BeginRun`
captures `now`, `Claim` increments `attempt_count` of a batch, `Send` posts,
`FinishSuccess` and `FinishFailure` record. The clock is relative, so that time
can pass for ever in finitely many states: `wait` is `next_attempt_at` minus
now, `age` is now minus `updated_at`, `lag` is how old a worker's `now` is. The
receiver may accept a request whose answer is lost. A worker may crash, its
finish transaction may roll back, and COMMIT may take effect while its
acknowledgement is lost (`lost_ack`), upon which `runOnce` records a failure.

`DeliveryContract` says what is left when workers, leases and clocks are
removed: a delivery is owed until it is delivered or dead, it is tried at most
`MaxAttempts` times, and it is dead only when all of them are used up. The
refinement maps `pending`, `delivering` and `failed` to `owed`.

### Decision loop

One action per step a process really takes: a monitor claims due releases,
starts an attempt, evaluates (a read that several steps later becomes a write),
moves the release to observing, stores the evidence and its proposed decision,
and finishes the attempt; an API request does the same without an attempt. An
operator may cancel, a reviewer may approve, reject and edit at any time.
Evidence is a value of a small set, of which some is ready and some directional.

### Decision actions

`executeApproved` is split where the code commits: the effect, the status, the
audit row. Two requests may be at any of these steps, a statement may fail and
a process may stop. The outbox is `DeliveryContract`; a step of this module that
enqueues must be an `Owe` step of it.

### Metered ingest

`Serve(r)` is a call: it begins, claims the batch id (`ingest_batches`,
`experience_batches`, `event_backfill_batches`), meters it and commits; the
advisory locks of the batch and of the organization's month are held between
these steps and derived from `pc`. Writes are staged in the call and published
by its commit, as under READ COMMITTED. `Reconfigure(c)` reads an entitlement,
proposes a change against its revision and commits it. Time is the UTC month;
claims live for 35 days, so they end only after a month boundary. Databases
that were upgraded may hold claims an older version left `processing` or
`failed` (`OldRow`).

### Ingest buffer

Appends are merged into physical batches of at most `maxEvents` events by a
timer and a flush loop; idempotent batches wait in a queue for one of
`MaxConcurrent` slots. The counters the code keeps (`pendingEvents`,
`inFlightEvents`, `idempotentEvents`) are variables of their own, next to the
queues they are meant to describe; what a set of calls really weighs is `LoadOf`
(no call is in two places, so a queue weighs what the set of its calls does). A write may succeed, fail, or fail after it
has committed.

### Replay lifecycle

The manifest (`status`, `chunk`, `audit`) is in the database, `object` is in a
file store. An upload holds its session for update and its project for share
from `PutChunk` to its end; a playback holds its session for share from
`OpenRead` until the HTTP response is out (`CloseRead`). A lost connection
releases the lock while the process goes on. `Tombstone`, `EraseObjects` and
`Finalize` are the three steps of `deleteSession`; requests, the retention
worker (`SweepSession`) and the deletion of the project run them. A project
deletion reads its phase, does the work of the phase and checkpoints it
conditionally, so that several runs may be at different phases at once. What
the phases `artifacts` and `events` remove belongs to other components and is
not part of the module; the checkpoints are. View entries of the audit log are
left out.

### Monitors, feeds and notifications

`MonitorRuns` is one policy or schedule (`head`), the runs it seeds for each
window and revision, and the workers: `Claim` takes the due runs of a batch,
`Evaluate` looks for recent findings, `Record` inserts the result, freezes its
proposal, enqueues its notifications and closes the run in one transaction,
`Fail` does what the catch block does, which does not look at the status. Both
workers have this shape; `kind` says which one a behaviour is about, and the
places where they differ (cooldown, the key of a day, revisions) ask for it. A
lease that ends is an action of its own, so every worker may outlive its lease.

`Notifications` keeps the claim's order of rows (`due`), since its LIMIT comes
before its join with active destinations. A delivery ends in the inbox or is left
to an extension.

### History of an event

`row` and `audits` are the two tables. A correction is `Preview`, `CommitRevision`,
`LockRevision`, `ApplyRevision`; a purge is `BeginPurge` (the fence),
`LookForCandidates`, one `LockCandidate` for each row, `EraseCandidates`; the
retention worker is `LockExpired`, `EraseExpired`. `IsFree` derives the row locks
from where the three stand. `owed` is a record of the property alone: what
concerned the actor when the purge began. The clock stands still and the policy
moves instead, which moves the same rows over the same line.

### Rotation of the retention worker

`order` is the list of projects by `retention_checked_at`, `waiting` those whose
`retention_retry_at` is to come. A run visits the first few projects, table by
table, and marks each; `CutShort`, `TimeIsUp`, `ProjectFails`, `MarkIsLost` and
`Abort` are the ways it ends early. Unruly projects fail at will and never run out
of rows.

### Experiments and flags

A request is a transaction of the steps in which it waits for a lock: the row of
the experiment, then that of the flag; a request on the flag locks it and then
looks for running experiments (`CheckRunning`), which locks nothing. Allocations
are counted in halves.

### Metric registry

A definition is one value, equal when its fingerprint is. What locks the row of the
metric first is one step (`UpdateMetric`, `GetDefinition`, `Preview`, `Apply`), and so
is the transaction of `Register`. `deleteMetric`, `defineFunnel` and `deleteFunnel`
have no transaction: a request is at one of their statements. `revisions` outlive
the metric. Metrics from before the revisions have none until they are looked at.
A foreign key and a trigger decide what an insert or a deletion that comes late does
(`Referenced`, `Deletable`).

### Query cache, rate limiter, client

`QueryCache` numbers the loads in the order of their start. `entries` is the map: a
key enters it with its load and keeps its place, so the order of the numbers is the
map's insertion order, and a set stands for it. `Resolve` and `Reject` are the handlers
of a promise, which run whether its entry is still there or not. `Invalidate` is a
route that has written; the write itself (`Write`) came before it.

`RateLimiter` keeps for each bucket what the code keeps, with ages in place of
times; a `Tick` ages them all. `Held` is what a bucket holds or would hold, and
under it the module implements `TokenBuckets`. `all` and `tenant` are the code's maps
in the order of last use.

`SdkQueue` numbers the events in the order of their capture. A step is the answer
to one request and everything the drain does before its next one, which is what
JavaScript runs without interruption; the drain of a hidden page runs beside
that of the timer. A request may be stored and its answer lost.

## 3. Runs: what TLC checks

Bounds are the smallest at which the interesting case happens; each says which.

| Run | Instance | Properties |
|---|---|---|
| `outbox_general` | 2 workers, 2 deliveries (a test and an action) to 1 destination, 3 attempts, a run may outlive its lease, crash, rollback, lost acknowledgement | `TypeOK`, `AttemptHasOneOwner`, `RowTellsTheTruth` |
| `timely` | outbox: runs end within the lease, crash and rollback, batches of 2; loop: 1 release, 2 monitors, 1 request, leases hold, 2 faults | `OneHolder`, `ContractSpec` (refinement), `SettledOrLastAttemptLost` (liveness); `JudgedOnce`, `JudgedForGood` (liveness) |
| `outbox_stuck` | timely runs and crashes | `EverySettled` is violated |
| `decisions` | loop: leases may be outlived and overwritten by a `schedule_observation`; actions: a flag action and a webhook action, 2 overlapping requests, 2 calls, 1 fault; experiments: 2 on one flag with 2 variants, 2 metrics, 2 requests; registry: 1 metric, 3 definitions, registered up to twice, 1 funnel defined up to twice, 2 requests | `TypesOK`, `VerdictsAreGrounded`, `FinalStaysFinal`; `EffectsMatchStatus`, `DeliverySpec` (refinement); `RunningFlagIsFrozen`, `StartedIsSettled`; `RegistryIsKept` |
| `loop_schedule` | 1 monitor, no fault, one executed `schedule_observation` | `ScheduledObservationIsAttempted` is violated |
| `actions_duplicate` | 1 request at a time, 1 fault | `FlagChangedOnce` is violated |
| `event_path` | server: 2 calls over an ingest batch, one without valid events and a backfill with 2 payloads, 2 changes, 2 months, 2 faults; rows: 2 events of 2 actors, 2 corrections, 1 purge, retention, 2 policies, ingests | `TypesOK`, `UsageMatchesLedger`, `LimitHolds`, `BatchesAreStored`, `ConfigurationHolds`; `HistoryIsSound`, `StoredEventsAreKept` |
| `sdk_shutdown` | the client alone | `ShutdownHasFlushed` is violated |
| `registry_orphans` | 1 metric, 1 funnel, 2 requests | `StepsResolve` is violated |
| `browser` | recording: 1 of 2 chunks, 2 uploads that disagree about the first, a playback, a deletion request, a retention worker, a project deletion, 1 fault; client: 3 events, 1 identify, 2 drains, 2 attempts, lost answers | `TypeOK`, `NoPlaybackAfterTombstone`, `DeletedLeavesNothing`, `ChunkKeepsItsObject`, `EveryDeletionEnds` (liveness); `EventsAreKept` |
| `automation` | evaluation: 2 processes, 2 windows, 2 revisions, 1 upset (pause, archival or crash); delivery: 2 processes, 2 deliveries to 2 destinations, 1 upset | `TypesOK`, `ResultsAreSound`, `CooldownHoldsPerProcess`; `DeliveriesAreSound`; `QueuesAreWorkedOff` (liveness of both) |
| `process` | limiter: 3 keys of 2 projects of 2 organizations, room for 2 buckets; cache: 2 keys, room for 1, 3 loads, 1 write; buffer: 3 appends, 3 idempotent batches (one empty, one too large), 1 slot, at most 6 pending events; rotation: 3 projects, one of them unruly, 2 tables | `TypesOK`, `MemoryIsBounded`, `LimitsAsPromised` (refinement), `CacheIsSound`, `BufferIsSound`, `NobodyStarves` (liveness of buffer and rotation) |

*Suites.* Six runs check several modules that share no state. Their MC module
extends one of them (or several, whose names differ) and instantiates the others; a variable `part`, chosen in the
initial state, says which of them moves, and the others stay where they began.
The states of the parts add up and do not multiply, and a property of one part
says nothing of the behaviours of another. An assumption of a module that shares
a suite is a definition there and an `ASSUME` of the suite.

Why the bounds are enough to be of interest:

- *Outbox.* Two workers and a lease shorter than a run are what a takeover
  needs; three attempts distinguish the first, a middle and the last one. The
  proofs remove these bounds for the properties they cover.
- *Loop.* Releases do not touch one another, so one is enough; two monitors and
  a request are the three processes whose steps can interleave. Two attempts
  and two faults let a takeover pass the attempt limit.
- *Actions.* One fault separates each pair of the three transactions; the flag
  action and the webhook action differ in what a repetition does.
- *Ingest.* Two calls under one batch id are a retry; two months are needed for
  a claim to expire and for a change or a batch to straddle the boundary; sizes
  1 and 2 against limits 2 and 3 reach the limit and cross thresholds, and a
  MAX_METER_QUANTITY of 4 can be reached without a limit.
- *Client.* Three events over batches of two and a queue of two fill the queue,
  split a batch, and leave one waiting while another is on its way.
- *History.* Two corrections of one event are a lost update if anything is; two
  events in batches of one make a purge loop and look again; the second event may
  be ingested meanwhile. A second purge was checked once (twice the states) and
  shows nothing new.
- *Experiments.* Two requests are the two sides of every lock; two experiments on
  one flag are what readiness asks about.
- *Registry.* Three definitions let a change go away and come back; two registrations
  of a key are what a review may outlive; of the definitions one is unfit for a
  funnel. Five revisions hold a registration, changes and a second registration.
- *Replay.* One fault at any step of any process, two payloads for one sequence
  (a conflict and an adoption), two chunks so that a playback is between
  chunks and an erasure half done. Sessions meet only in the project deletion.
- *Automation.* Two windows and two revisions make a run late, skipped, superseded
  and caught up; an attempt limit of two lets a lost lease pass it.
- *Limiter and cache.* With room for two buckets and three keys every call may
  have to evict; two organizations make one evict its own. Two questions and room
  for one answer do the same to the cache.
- *Buffer.* The limits are small enough that the queue is full, that a batch
  does not fit behind a larger one, and that a write is in flight meanwhile.
- *Rotation.* Two projects in a run of three, one row in a run: each budget
  ends runs, and the unruly project uses up any of them.

Symmetry is used in `outbox_general`, `decisions` and `event_path`, over values no
definition tells apart, and never where liveness is checked. Deadlock is checked in
the runs of the outbox, of duplicated actions and of the path of events;
in the others the system may really stop, when a release is final, a project is
gone, or the bounded causes of change are used up.

## 4. Disagreements with the documentation

Each is a run of its own that finds a counterexample; `PROJECT.json` quotes the
line.

- `outbox_stuck`: a process that stops during the last allowed attempt leaves
  the row `delivering` for ever. `SettledOrLastAttemptLost`, which is checked,
  says that this is the only way a delivery is not settled.
- `loop_schedule`: an approved `schedule_observation` is executed after the
  approval has already made the release `decided`, which no monitor claims.
- `actions_duplicate`: a crash or failed statement between a flag change and its
  record lets the retry make the change again, over an operator's edit in
  between.
- `sdk_shutdown`: `shutdown()` awaits a flush that returns at once when the
  timer's flush is running, and resolves before anything of it has arrived.

- `registry_orphans`: `deleteMetric` looks for funnels, then deletes, and
  `defineFunnel` resolves its steps, then inserts, both without a transaction. A
  metric may go while a funnel that names it is defined, although the comment on
  `deleteMetric` says that it can never orphan a funnel step. (The deletion of a
  metric's category relies on a foreign key instead, and a test races it.)

Observations that are not runs:

- *Outbox.* `docs/09-product-decision-loop.md:237-238` has delivered rows rest.
  The late failure of a worker that lost its lease (`services/webhooks.ts:352`)
  overwrites `delivered`, and the row is posted again. Default settings keep a run
  within the lease; accepted settings need not.
- *Actions.* The same lines offer the action's retry once a destination has been
  repaired. The action of a dead delivery is `executed` and cannot be retried, and
  enqueueing it again would return the dead row.
- `evaluateRelease` looks at the release's status before its queries and not
  again when it stores evidence, so a release cancelled in between gains
  evidence and a proposed decision. Its status does not change (`FinalStaysFinal`).
- A batch without valid events claims its id too, so a corrected batch under
  the same id is a duplicate. `docs/02-storage.md:85` and `:135` speak of
  (at least) 24 hours for which ids are remembered; the code keeps 35 days.
- A crossing of a warning threshold is recorded after the commit, at best
  effort. `CrossingsAreRecorded` excludes the two cases it can be missed:
  the recording fails (`lost`), and thresholds that were changed across a month
  boundary (`Straddled`).
- The catch block of `putChunk` removes the object of a failed upload after its
  lock is released. A retry that adopted the object may have committed a row
  for it by then: the chunk is left without bytes, until a delayed upload of
  other contents puts its own there. `ChunkKeepsItsObject` speaks of chunks whose
  own request created the object, for which this cannot happen.
- An upload that lost its connection while it put its object may put it after
  the deletion has finished. It removes it again unless the process stops as
  well; the sweep of a project deletion removes it in any case (`stray`).
- A playback whose database connection breaks while its response is being sent
  no longer holds the deletion off (`NoPlaybackAfterTombstone` names it).
- *Automation.* Rows for a destination that was disabled meanwhile fill the
  LIMIT of the notification claim and are never claimed; a batch of them starves
  the others. A claim of a monitor run counts no attempt limit of its own
  (`docs/10-control-tower-automation.md:51`); `fail` alone ends a run. Two
  processes may each record a finding within one cooldown.
- *Query cache.* `queryCache.ts:14-15` bounds staleness by the time to live; the
  time to live begins at the end of a load whose reads may be as old as the load
  is long, and a route that fails after its commit never invalidates.
- *Client.* Events beyond one keepalive batch are not sent when a page is hidden,
  since the drain awaits each answer (`sdk/README.md:40`); `discardQueuedEvents`
  misses the batches a running drain has taken; 429 is dropped like any other 4xx;
  an entity update has no identifier, so a late retry may overwrite a newer one.
- *Retention.* `docs/02-storage.md:149-150` says that the error of one project
  does not keep the next from its turn. Four SQLSTATEs are local to a project; any
  other error ends the run before the project is marked, and the next run begins
  with it again. `MaxFaults` bounds these. `docs/02-storage.md:136` gives
  `experience_batches` the project's window; the code deletes them after 35 days.
- *Purge.* An event whose transaction began before the fence and commits after
  the last look survives (`docs/01-data-model.md:71-72`); `PurgedIsGone` speaks of
  what was there when the purge began. A correction that moves a row to another
  month makes a purge or correction that waits for it fail with SQLSTATE 40001.
- *Experiments.* `launch` refuses a flag that another experiment runs on, the
  legacy `start` does not look. Of two running experiments the decision of one
  rewrites the flag under the other, which the test at
  `test/flags-experiments.test.ts:319` ("locks a running experiment flag so
  allocations cannot rewrite its historical variants") excludes for edits.
  `RunningFlagIsFrozen` exempts exactly that.

## 5. Theorems: what TLAPS proves

The theorems hold for every value of the constants that satisfies the named
assumption of the module (`OutboxAssumption`, `LoopAssumption`,
`ActionsAssumption`, `IngestAssumption`, `ReplayAssumption`, `MonitorAssumption`, `HistoryAssumption` with
`NoneAssumption`, `ExperimentsAssumption`, `RegistryAssumption`, `CacheAssumption`,
`LimiterAssumption`, `BufferAssumption`, `SdkAssumption`), with no bound on workers,
deliveries, releases, monitors, actions, clients, calls, callers, batches, recordings,
chunks, runs, windows, notifications, events, corrections, purges, experiments, flags,
metrics, funnels, keys, buckets, loads, drains, attempts, requests or faults.

`WebhookOutboxProofs`

| Theorem | Property | Argument |
|---|---|---|
| `TypeCorrect` | `TypeOK` | `TypeInv` adds that a worker that is sending or finishing has a delivery it claimed in hand; without it the updates of a row by the worker are not typed |
| `AttemptOwnership` | `AttemptHasOneOwner` | `OwnerInv`: the number a worker holds is one that was begun (at most `attempt_count`). A claim gives a number one larger than any begun, hence than any held |
| `OneHolderWhenTimely` | `OneHolder` | `LeaseInv`: a row in a worker's hands has been `delivering` for no longer than that worker's run; a run within the lease keeps it from being claimable |
| `ImplementsContract` | `ContractSpec` | step simulation under `TimelyInv`: since nobody else holds the row, a finish is `Deliver` or `GiveUp`, or stutters |
| `RowsTellTheTruth` | `RowTellsTheTruth` | `SentInv`: requests sent and attempts still to be sent are attempts that were begun. It counts attempt numbers, not workers, so it needs `AttemptHasOneOwner` and no bound on workers. `LogInv`: the log row of an attempt is free until its owner logs it, so a success is never dropped by ON CONFLICT. `SeenAccepted`: who finishes a success has seen the endpoint accept |

`DecisionProofs`, of the decision loop

| Theorem | Property | Argument |
|---|---|---|
| `LoopTypes` | `LoopTypeOK` | the types carry who has a release, evidence and a result in hand (`PlacesOK`) |
| `GroundedVerdicts` | `VerdictsAreGrounded` | `FoundInv`: what a run takes for a closed window is over, and ready evidence is found only then. `ReadyInv`: a monitor that will report success has persisted the decision of what it found, and decisions do not go away. `EvidenceInv`: a directional outcome is one of an approved decision on ready evidence. None of them asks who holds the lease, so leases may be outlived and overwritten |
| `FinalIsImmutable` | `FinalStaysFinal` | an action property: each write to a release's status asks for a status that is not final, by the types alone |
| `JudgedByOneMonitor` | the two sides of `JudgedOnce` | under `LeaseHolds` and without `schedule_observation`. `HeldInv`: a release in a monitor's hands is leased and not judged, and it is in no other's; a monitor that is idle has none |

`DecisionProofs`, of the decision actions

| Theorem | Property | Argument |
|---|---|---|
| `ActionTypes` | `ActionsTypeOK` | `ClientInv` gives a client at work its action |
| `EffectsAgree` | `EffectsMatchStatus` | `ClientInv`: a client in the middle of `executeApproved` has an action that was approved, and past the effect the effect is there, whichever client had it. `RowInv`: nothing takes an approval or an effect back. `StatusIsAudited` is inductive beside these, because `stops` does not forget that a statement or a client has failed |
| `ActionsKeepTheContract` | `DeliverySpec` | step simulation: enqueueing is `Owe` and is skipped for an action that has its delivery, every other step leaves the outbox alone or is the outbox's own |

`IngestProofs`, of metered ingest

| Theorem | Property | Argument |
|---|---|---|
| `MeterTypeCorrect` | `TypeOK` | the quantities fit because metering holds the month's lock from its check to its commit (`UsageLock`, `MeteringFits`) |
| `LimitIsKept` | `LimitHolds` | a batch that meters the current month has been checked against the limit in force, and a change is checked against the usage under the same lock (`TimeInv` for those begun in an earlier month) |
| `BatchesAreKept` | `BatchesAreStored` | both of `BatchesAreStoredOnce` and `AcknowledgedBatchesAreStored` |
| `ConfigurationIsKept` | `ConfigurationHolds` | both of `CrossingsAreKept` and `ChangesAreSeen` |
| `CrossingsAreKept` | `CrossingsAreRecorded` | what is crossed between two usages is exactly what `Crossings` of the committing call records |
| `ChangesAreSeen` | `NoChangeIsLost` | `BasisInv`: a staged change's basis has the current revision, and revisions determine the entitlement |
| `BatchesAreStoredOnce` | `StoredOnce` | `OnceInv`: a ledger row has a completed claim at least as old as its month, the batch lock keeps two calls apart, and what a call has staged is not in the ledger |
| `AcknowledgedBatchesAreStored` | `AcknowledgedIsStored` | `CompletedInv`: a completed claim of a billable batch has a ledger row with its payload |
| `UsageIsTheLedger` | `UsageMatchesLedger` | `UsageInv` adds that the ledger is finite. A commit adds one row to its month (`FreshInv`: whatever its batch was charged before is of an earlier month, so the row is new) and its quantity to the usage of that month. What the sum of one more row is (`TotalWithout`) holds by induction on the number of rows |

`IngestProofs`, of the ingest buffer

| Theorem | Property | Argument |
|---|---|---|
| `BufferIsKept` | `BufferIsSound` | the next two |
| `CallsAreNeverLost` | `CallsAreKept` | `PlainSide` and `SlotSide`: what waits for the timer or is being flushed, and what waits for a slot or has one, are sets apart, and no queue holds a call twice (`QueueAppend`, `QueueCut`). A flush that runs looks at the queue again before it ends, and a slot is handed on as it is given back (`SlotsAreGiven`), whatever the write did. `Answers`: who is not waiting is in no queue, so nobody is answered twice |
| `MemoryIsLimited` | `BufferIsBounded` | `Sum`: the three counters together are within the limit. That they are what the queues weigh is part of the two sides: each move between queues takes from one counter what it adds to another (`FlushTakes`), and a set of calls weighs what its parts weigh (`LoadUnion`) |
| `BufferTypes` | `BufferTypeOK` | the same invariant: a counter does not fall below zero, because what is subtracted from it is the weight of a part of what it counts |

`ReplayLifecycleProofs`

| Theorem | Property | Argument |
|---|---|---|
| `ReplayTypeCorrect` | `TypeOK` | `TypeInv` adds that who is in `deleteSession` has a session in hand |
| `ReadersAreFencedOff` | `NoPlaybackAfterTombstone` | `LockInv`: an upload that holds its session holds it alone, in a live project, with the session open and its row free. A step that changes a row or the project waits for those locks (`RowsUnlocked`), and locks only ever go away otherwise (`LocksReleased`) |
| `DeletionLeavesNothing` | `DeletedLeavesNothing` | `RemoverInv` ties rows, job and deletions together: beyond its claim a deletion works on a closed session, behind the project's row a job works on a project that is gone. `CleanInv`: whatever *settles* a session (a deletion before its finalization, a job before its end, the audit entry) comes behind an erasure. `SettledIsClosed` then leaves only uploads without a lock to put anything |
| `ChunksKeepTheirObjects` | `ChunkKeepsItsObject` | `CreatorInv`: the object of an open session has one creator, an upload or the committed chunk, and it holds the creator's bytes; an upload removes only what it created, and erasures meet closed sessions only (`RemoverOwned`) |

`AutomationProofs`

| Theorem | Property | Argument |
|---|---|---|
| `RunTypes` | `TypeOK` of `MonitorRuns` | `InHand`: a worker that records holds an attempt of the run it has evaluated |
| `ResultsAreOnceAndWhole` | `ResultsAreSound` | `SeedInv`: runs are told apart by the key that seeding looks for, and who holds an attempt holds one of a seeded run. It asks nothing of leases: who outlived its own and comes second with a result fails on the unique key |
| `OneFindingPerCooldown` | `CooldownHoldsPerProcess` | `CoolInv`: a process that has recorded a finding since the cooldown began sees it from then on, in the pass it is in and in the ones to come |
| `DeliveriesAreOwned` | `DeliveriesAreSound` | `NumberInv`: no attempt is held or logged under a number larger than the last one handed out, so a claim hands out a new one. The theorem needs neither the order of the queue nor the limits of a delivery |

`EventPathProofs`, of the history of events

| Theorem | Property | Argument |
|---|---|---|
| `HistoryIsKept` | `HistoryIsSound` | `PurgeInv`: whatever the purge owes or has picked is gone or still concerns it, because a correction that takes the actor out of the row writes him into its audit; `LocksApart`: a row is locked by one transaction at a time, so what is corrected is not being deleted; `GivenOut`: a row that is gone does not come back under its identifier |
| `EventsAreNotTouched` | `StoredEventsAreKept` | `EditInv`: revisions only go up from the one that was reviewed, and as long as it is that one the fact is what the reviewer saw; `SweepInv`: what the worker locked is expired and stays so, since the policy's row is locked as well |

`EventPathProofs`, of the client's queue

| Theorem | Property | Argument |
|---|---|---|
| `ClientKeepsEvents` | `EventsAreKept` | `Core` speaks of sets: the items that wait (Q), the batches that are kept (K) and those each drain has in hand (H). `Placed`: a batch is in one of these places. `Apart`: no two batches share an item or an identifier, since a new batch gets one that no batch has (`FreshIsNew`). `Owned`: what was given and is not settled is in Q or in a batch, never in both. `Delivered`: an event in a batch is stored exactly if the server has seen that batch's identifier, so a retry never stores it again; thinning a batch by a discard keeps its identifier and hence this. That the lists move what the sets say is a matter of sequences without repetition (`QueueTrim`, `QueueSplit`, `QueueHead`, `WhatIsLeft`) |
| `ClientTypes` | `ClientTypeOK` (no run) | the same invariant: an idle or ending drain has nothing in hand, and the server remembers identifiers of batches there are |

`RegistryProofs`, of experiments

| Theorem | Property | Argument |
|---|---|---|
| `FlagsAreFrozen` | `RunningFlagIsFrozen` | `LocksApart`: a row of an experiment or of a flag is locked by one transaction at a time. `TxInv`: what a transaction has read under the lock of the flag (the flag is active, or nothing runs on it) holds until it ends, since whoever could change it needs the same lock. `ShipsInv`: what has not run ships nothing |
| `StartsAreSettled` | `StartedIsSettled` | the same invariant: a start writes what it read under its two locks, and the stored split is the one the flag serves |

`RegistryProofs`, of the metric registry

| Theorem | Property | Argument |
|---|---|---|
| `KeptByTheRegistry` | `RegistryIsKept` | `KeyInv`: the rows of a key are numbered without a gap, none is of a metric to come, and the last describes the one there is. `ReviewInv`: what a reviewer was shown is one of these rows; since rows stay and numbers are given once, an unchanged last number means an unchanged metric. `FInv`: ids of funnels are given once, so what was read under an id is what is there under it, or nothing is |

`ProcessProofs`

| Theorem | Property | Argument |
|---|---|---|
| `CacheIsFresh` | `CacheIsSound` | `EntriesInv`: a load that is in the map has read no less than what was announced for its project, since an announcement throws out every load that could have read earlier. `CallsInv`: so has, or will have, the load a call awaits, in the map or not, because nothing was announced beyond what is written when it reads (`AnnouncedInv`). `RoomIsMade`: the newest entries are fewer than the places |
| `LimiterKeepsPromise` | `LimitsAsPromised` | step simulation under `LimiterInv`. Nothing done for a request that is turned away changes what any bucket holds (`Keeps`): a refill is idle (`RowFacts`), and what is evicted was full, which is what a missing bucket is taken for (`RemovedKeeps`). A request that passes finds what the buckets hold (`Ready`) and takes its cost from both; ages are counted as far as they matter (`RowAges`) |
| `LimiterIsBounded` | `MemoryIsBounded` of `RateLimiter` | `SameOrder` is part of `LimiterInv`: moving, removing and appending an id do the same to the order of the whole and of its organization (`QueueMove`, `QueueWithout`, `QueueAppend`), so the oldest of an organization is its own and is in the store; `HasRoom` holds when a new bucket is inserted |
| `LimiterTypes` | `TypeOK` of `RateLimiter` | `LimiterInv` |

The invariants had to be found: `DeletedLeavesNothing` alone is not inductive,
since the entry in the audit log is written two steps after the erasure, and in
between other deletions, jobs and uploads of the same session take theirs.

Each proof has the shape: the strengthened invariant holds initially, is kept
by each action (one step per action, one per conjunct the action touches), and
implies the property; the last step is temporal.

Only model-checked:

- liveness (`SettledOrLastAttemptLost`, `JudgedForGood`, `EveryDeletionEnds`,
  `QueuesAreWorkedOff`, `NobodyStarves`), which is beyond the prover;
- the rotation of `RetentionSweep`: its queue is filtered and sorted with `SelectSeq`
  and its like, by recursive definitions inside the library that the prover does not
  expand. Where the code removes one id from a queue the models say `RemoveFirst`,
  which is not recursive, and the order of the queue can be reasoned about
  (`QueueRemoval`); where the client filters a queue its model says `Without`, which
  gives the elements that are left by their rank, for the same reason
  (`RanksAreTaken`, `WhatIsLeft`). A sum over a set can be reasoned about, too: an
  induction over numbers that is stated about a set of numbers instead of a
  predicate (`SetInduction`, from the library's `WFMin`) is within the prover's reach.
  The usage ledger and the ingest buffer share its lemmas (`SumOver`, `Total`);
- the order of the notification queue (`due`) for the same reason, and with it
  `NotifyTypeOK`;
- `TypesOK` of a suite, the conjunction of its parts' type invariants, of which
  those of the parts with proofs are theorems;
- `ShutdownHasFlushed` and the other documented claims of section 4, which are
  refuted, not proved.

## 6. Fairness

Fairness is assumed only of what the code schedules by itself.

- *Outbox*: time passes; the interval timer of every process starts a run
  (`BeginRun`) and a run goes on (`Work`). Strong fairness of `Claim` says that
  a process does not crash in every single run between its timer and its claim.
- *Loop*: windows close, due times come, the monitor's timer fires and a run
  goes on. Nobody is made to call the API or to review.
- *Buffer*: the flush timer fires, and a write ends, since the pool's
  statements have a timeout.
- *Replay*: uploads, playbacks and deletions go on (the deadlines of the code
  end them), claims and backoffs run out, and the retention worker comes round.
  `Tombstone`, `SweepSession` and `SweepJob` have strong fairness: PostgreSQL
  queues the transactions that wait for a row lock, so a deletion is not
  overtaken for ever by playbacks that come and go; and the worker's `SKIP
  LOCKED` meets the row unlocked sooner or later.

- *Automation*: timers of both processes fire and a tick goes on (`Work`), leases
  end and retries come due (`DeliveriesWait`).
- *Rotation*: the timer starts a run, a statement returns or times out, 15 minutes
  pass.

The shape `[]<>` is used where a later event may undo the good state for a while
(a destination is enabled again, rows expire again), `<>[]` where it must stay.
The suites state the fairness of each part under its `part`, and join conditions
of different parts where only one can be enabled.

Crashes and failed statements are bounded by `MaxFaults` (or the set `Faults`)
and never forced.

## 7. Not modelled

`PROJECT.json` lists every component with its status. In short:

- The query engine, identity and attribution, reports and explanations compute
  results from rows and keep no state that changes in steps: what could be wrong
  in them is the SQL they build and its meaning.
- Contracts, accounts, organizations, projects, setup tasks and importers write one
  row or a few in one transaction behind unique indexes and revision numbers.
- Experience maps put a file and a row as replay chunks do.
- The sanitizer rewrites trees of the data the models abstract.
- MCP server, web interface, configuration and schemas translate and validate.
- Of modelled components: the statistics behind an evaluation or an experiment,
  the payloads and signatures of deliveries, views in the audit log, index upkeep
  of the retention worker, cached flags, sessions and replay of the client.

They make up most of the lines of the repository: the models cover the parts that
keep state between steps.

## 8. Plan

Done: contract and outbox, decision loop, decision actions, metered ingest,
ingest buffer, replay lifecycle, automation workers and notifications, history of
events, rotation of retention, experiments, metric registry, query cache, rate limiter, client
queue; the proofs of the outbox, of the decision loop and the decision actions, of
metered ingest with its ledger, of the ingest buffer, of the automation workers, of the
history of events, of the client's queue, of experiments, of the metric registry, of
the query cache, of the rate limiter and of the replay lifecycle.

Next, in this order:

1. The notification queue against `DeliveryContract`, which makes the comparison
   of the two outboxes a refinement.
2. The confirmation of proposals.
3. Pure parts: readiness verdicts, thresholds of monitors, the bucketing of
   visitors, contiguity of replay chunks, against reference definitions.

New modules share runs with the old ones where their constants allow it, and
take the place of properties that turn out to say less.

## 9. Running the checks

    tlc -workers 2 -config Timely.cfg MCTimely
    tlapm IngestProofs.tla

A run takes between seconds (those that expect a violation) and three minutes
(`outbox_general`, `decisions`), the proofs of a module up to five.
