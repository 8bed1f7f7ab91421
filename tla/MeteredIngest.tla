--------------------------- MODULE MeteredIngest ----------------------------
(***************************************************************************)
(* The write path of stores/postgresEventStore.ts for one organization:    *)
(* idempotent batches and historical backfills that claim their batch id,  *)
(* are metered against the entitlement and stored in one transaction, and  *)
(* the operator changes of that entitlement (services/usageEntitlements).  *)
(*                                                                         *)
(* The transactions are READ COMMITTED: what one has written is seen by    *)
(* the others once it commits, so a step stages its writes in the call and *)
(* Commit publishes them.  The advisory locks are derived from the program *)
(* counters.  The clock counts UTC months, the unit of metering; the       *)
(* 35-day life of a claim spans at least one month boundary.               *)
(***************************************************************************)
EXTENDS Integers, FiniteSets, FiniteSetsExt

CONSTANTS
  Call,         \* requests to store a batch, retries included
  Change,       \* requests to change the entitlement
  Batch,        \* batch ids
  Backfills,    \* the ids of historical backfills
  Legacy,       \* ids an older version may have left "processing" or "failed"
  Size,         \* Size[b]: billable events of b, 0 when all were invalid
  Payload,      \* what a caller may send under the id of a backfill
  Settings,     \* entitlements an operator may ask for
  NoLimit, NoClaim,
  MaxQuantity,  \* MAX_METER_QUANTITY
  MaxMonth,     \* bound: months modelled
  MaxFaults     \* bound: failed statements and lost connections

\* A row of a claim table; since: the month of its created_at.
Row == [status : {"completed", "processing", "failed"}, since : 0 .. MaxMonth,
        payload : Payload]

ASSUME IngestAssumption ==
  /\ Batch # {} /\ Payload # {}
  /\ Backfills \subseteq Batch /\ Legacy \subseteq Batch \ Backfills
  /\ Size \in [Batch -> Nat]
  /\ MaxQuantity \in Nat /\ MaxMonth \in Nat \ {0} /\ MaxFaults \in Nat
  /\ NoLimit \notin Nat /\ NoClaim \notin Row
  /\ Settings \subseteq [limit : 0 .. MaxQuantity \cup {NoLimit}, thresholds : SUBSET Nat]
  /\ \A e \in Settings : 0 \notin e.thresholds

VARIABLES
  month,        \* the current UTC month
  claim,        \* ingest_batches, experience_batches, event_backfill_batches
  ledger,       \* usage_ledger rows, each stored with the events it counts
  usage,        \* organization_usage.quantity of each month
  entitlement,  \* organization_entitlements, with configuration_revision
  audit,        \* usage_entitlement_revisions
  warned,       \* usage_warnings: (month, threshold)
  pc, batch, payload, start, crossed,       \* a call's transaction
  step, opened, basis, wanted,              \* a change's transaction
  lost,         \* history: crossings whose best-effort record was not made
  faults

call   == <<pc, batch, payload, start, crossed>>
change == <<step, opened, basis, wanted>>
meter  == <<ledger, usage>>
config == <<entitlement, audit>>
vars   == <<month, claim, meter, config, warned, call, change, lost, faults>>

Month   == 1 .. MaxMonth
Stored  == {"claimed", "metered"}   \* the batch id lock is held
Answer  == {"accepted", "duplicate", "refused"}   \* refused: 402, 409, 500 or 503
Unlimited == [limit |-> NoLimit, thresholds |-> {}]
Unread    == [set |-> Unlimited, revision |-> 0]

\* Only the payload of a backfill is ever compared with another.
Sendable(b) == IF b \in Backfills THEN Payload ELSE {CHOOSE p \in Payload : TRUE}

\* The claims of a database that has been upgraded.
OldRow(b) == {NoClaim} \cup
  IF b \in Legacy THEN [status : {"processing", "failed"}, since : {0},
                        payload : Sendable(b)]
  ELSE {}

Init ==
  /\ month = 1
  /\ claim \in [Batch -> Row \cup {NoClaim}]
  /\ \A b \in Batch : claim[b] \in OldRow(b)
  /\ ledger = {} /\ usage = [m \in Month |-> 0]
  /\ entitlement = Unread /\ audit = {}
  /\ warned = {} /\ lost = {}
  /\ pc = [r \in Call |-> "idle"]
  /\ batch = [r \in Call |-> CHOOSE b \in Batch : TRUE]
  /\ payload = [r \in Call |-> CHOOSE p \in Payload : TRUE]
  /\ start = [r \in Call |-> 1] /\ crossed = [r \in Call |-> {}]
  /\ step = [c \in Change |-> "idle"] /\ opened = [c \in Change |-> 1]
  /\ basis = [c \in Change |-> Unread]
  /\ wanted = [c \in Change |-> Unlimited]
  /\ faults = 0

-----------------------------------------------------------------------------
(* A batch.                                                                *)

Goto(r, from, to) ==
  /\ pc[r] = from
  /\ pc' = [pc EXCEPT ![r] = to]

\* The call is answered; what its transaction knew is gone.
Respond(r, answer) ==
  /\ pc'      = [pc EXCEPT ![r] = answer]
  /\ start'   = [start EXCEPT ![r] = 1]
  /\ crossed' = [crossed EXCEPT ![r] = {}]
  /\ IF answer # "refused" THEN UNCHANGED <<batch, payload>>
     ELSE /\ batch'   = [batch EXCEPT ![r] = CHOOSE b \in Batch : TRUE]
          /\ payload' = [payload EXCEPT ![r] = CHOOSE p \in Payload : TRUE]

\* BEGIN fixes transaction_timestamp.
Begin(r, b, p) ==
  /\ Goto(r, "idle", "begun")
  /\ batch' = [batch EXCEPT ![r] = b]
  /\ payload' = [payload EXCEPT ![r] = p]
  /\ start' = [start EXCEPT ![r] = month]
  /\ UNCHANGED <<month, claim, meter, config, warned, crossed, change, lost, faults>>

BatchFree(b) == \A r \in Call : pc[r] \in Stored => batch[r] # b

\* 35 days can have passed since a month earlier than that of the transaction.
ExpirableAtOnce(since, t) == since <= t
Expirable(since, t) == since < t

InProgressNever(row) == FALSE
InProgress(row) == row.status = "processing"

\* What a transaction does on the claim that its INSERT ... ON CONFLICT, or the
\* SELECT of a backfill, comes upon.
Verdict(b, p, expired) ==
  LET row == claim[b] IN
  IF row = NoClaim THEN "claimed"
  ELSE IF b \in Backfills THEN IF row.payload = p THEN "duplicate" ELSE "refused"
  ELSE IF expired \/ row.status = "failed" THEN "claimed"
  ELSE IF InProgress(row) THEN "refused" ELSE "duplicate"

Expirations(r) ==
  IF claim[batch[r]] # NoClaim /\ Expirable(claim[batch[r]].since, start[r])
  THEN BOOLEAN ELSE {FALSE}

Claim(r) ==
  /\ pc[r] = "begun" /\ BatchFree(batch[r])
  /\ \E expired \in Expirations(r) :
       LET verdict == Verdict(batch[r], payload[r], expired) IN
       IF verdict = "claimed"
       THEN Goto(r, "begun", "claimed") /\ UNCHANGED <<batch, payload, start, crossed>>
       ELSE Respond(r, verdict)
  /\ UNCHANGED <<month, claim, meter, config, warned, change, lost, faults>>

\* pg_try_advisory_xact_lock: only a backfill waits for the batch id.
FindBusy(r) ==
  /\ pc[r] = "begun" /\ ~BatchFree(batch[r]) /\ batch[r] \notin Backfills
  /\ Respond(r, "refused")
  /\ UNCHANGED <<month, claim, meter, config, warned, change, lost, faults>>

\* The configuration lock of the organization, waited for.
UsageFree ==
  /\ \A r \in Call : pc[r] = "metered" => Size[batch[r]] = 0
  /\ \A c \in Change : step[c] # "staged"

OverLimit(quantity) ==
  \/ quantity > MaxQuantity
  \/ entitlement.set.limit # NoLimit /\ quantity > entitlement.set.limit

\* The thresholds that adding n to the month's usage reaches.
CrossedStrictly(used, n) == {t \in entitlement.set.thresholds : used < t /\ t < used + n}
Crossed(used, n) == {t \in entitlement.set.thresholds : used < t /\ t <= used + n}

AdmittedAsBefore(r) == ~OverLimit(usage[start[r]])
Admitted(r) == ~OverLimit(usage[start[r]] + Size[batch[r]])

\* The lock is taken, usage and entitlement are read and the new rows are written;
\* until the commit the lock keeps what was read from changing.
Meter(r) ==
  /\ Goto(r, "claimed", "metered") /\ Size[batch[r]] > 0
  /\ UsageFree /\ Admitted(r)
  /\ crossed' = [crossed EXCEPT ![r] = Crossed(usage[start[r]], Size[batch[r]])]
  /\ UNCHANGED <<month, claim, meter, config, warned, batch, payload, start,
                 change, lost, faults>>

RejectOverLimit(r) ==
  /\ pc[r] = "claimed" /\ Size[batch[r]] > 0
  /\ UsageFree /\ ~Admitted(r)
  /\ Respond(r, "refused")
  /\ UNCHANGED <<month, claim, meter, config, warned, change, lost, faults>>

\* A batch without billable events is neither locked nor metered.
SkipMeter(r) ==
  /\ Goto(r, "claimed", "metered") /\ Size[batch[r]] = 0
  /\ UNCHANGED <<month, claim, meter, config, warned, batch, payload, start,
                 crossed, change, lost, faults>>

SetUsage(m, n) == [usage EXCEPT ![m] = n]
AddUsageTwice(m, n) == [usage EXCEPT ![m] = @ + n + n]
AddUsage(m, n) == [usage EXCEPT ![m] = @ + n]

\* Events, ledger row, usage and claim appear together.
Commit(r) ==
  LET b == batch[r] IN
  /\ Goto(r, "metered", "committed")
  /\ claim' = [claim EXCEPT ![b] = [status |-> "completed", since |-> start[r],
                                    payload |-> payload[r]]]
  /\ IF Size[b] = 0 THEN UNCHANGED meter
     ELSE /\ ledger' = ledger \cup {[call |-> r, batch |-> b, payload |-> payload[r],
                                     period |-> start[r], quantity |-> Size[b]]}
          /\ usage' = AddUsage(start[r], Size[b])
  /\ UNCHANGED <<month, config, warned, batch, payload, start, crossed, change,
                 lost, faults>>

Crossings(r) == {start[r]} \X crossed[r]

RecordWarnings(r) ==
  /\ pc[r] = "committed"
  /\ warned' = warned \cup Crossings(r)
  /\ Respond(r, "accepted")
  /\ UNCHANGED <<month, claim, meter, config, change, lost, faults>>

\* recordUsageWarnings fails and its error is dropped, or the process or its
\* connection is lost after the commit and the caller sees an error.
LoseWarnings(r) ==
  /\ faults < MaxFaults /\ faults' = faults + 1
  /\ pc[r] = "committed"
  /\ lost' = lost \cup Crossings(r)
  /\ \E answer \in {"accepted", "refused"} : Respond(r, answer)
  /\ UNCHANGED <<month, claim, meter, config, warned, change>>

\* Any statement fails, or the process stops: the transaction is rolled back.
Abort(r) ==
  /\ faults < MaxFaults /\ faults' = faults + 1
  /\ pc[r] \in {"begun"} \cup Stored
  /\ Respond(r, "refused")
  /\ UNCHANGED <<month, claim, meter, config, warned, change, lost>>

-----------------------------------------------------------------------------
(* A change of the entitlement.                                            *)

\* The operator has read the current configuration; BEGIN.
OpenChange(c, setting) ==
  /\ step[c] = "idle"
  /\ step'   = [step EXCEPT ![c] = "opened"]
  /\ basis'  = [basis EXCEPT ![c] = entitlement]
  /\ wanted' = [wanted EXCEPT ![c] = setting]
  /\ opened' = [opened EXCEPT ![c] = month]
  /\ UNCHANGED <<month, claim, meter, config, warned, call, lost, faults>>

Close(c) ==
  /\ step'   = [step EXCEPT ![c] = "done"]
  /\ basis'  = [basis EXCEPT ![c] = Unread]
  /\ wanted' = [wanted EXCEPT ![c] = Unlimited]
  /\ opened' = [opened EXCEPT ![c] = 1]

RevisionIgnored(c) == TRUE
RevisionExpected(c) == basis[c].revision = entitlement.revision

BelowUsage(limit, m) == limit # NoLimit /\ limit < usage[m]

\* With the lock held, the snapshot is that of the month the transaction began in.
Acceptable(c) == RevisionExpected(c) /\ ~BelowUsage(wanted[c].limit, opened[c])

LockChange(c) ==
  /\ step[c] = "opened" /\ UsageFree
  /\ Acceptable(c) /\ entitlement.set # wanted[c]
  /\ step' = [step EXCEPT ![c] = "staged"]
  /\ UNCHANGED <<month, claim, meter, config, warned, call, opened, basis, wanted,
                 lost, faults>>

\* 409, or nothing to change.
DeclineChange(c) ==
  /\ step[c] = "opened" /\ UsageFree
  /\ ~Acceptable(c) \/ entitlement.set = wanted[c]
  /\ Close(c)
  /\ UNCHANGED <<month, claim, meter, config, warned, call, lost, faults>>

\* The trigger on organization_entitlements looks at the clock's month.
TriggerRefuses(c) == BelowUsage(wanted[c].limit, month)

CommitChange(c) ==
  LET revision == entitlement.revision + 1 IN
  /\ step[c] = "staged" /\ ~TriggerRefuses(c)
  /\ entitlement' = [set |-> wanted[c], revision |-> revision]
  /\ audit' = audit \cup {[revision |-> revision, basis |-> basis[c],
                           previous |-> entitlement, opened |-> opened[c],
                           committed |-> month]}
  /\ warned' = warned \cup ({opened[c]} \X
                 {t \in wanted[c].thresholds : t <= usage[opened[c]]})
  /\ Close(c)
  /\ UNCHANGED <<month, claim, meter, call, lost, faults>>

RefuseChange(c) ==
  /\ step[c] = "staged" /\ TriggerRefuses(c)
  /\ Close(c)
  /\ UNCHANGED <<month, claim, meter, config, warned, call, lost, faults>>

AbortChange(c) ==
  /\ faults < MaxFaults /\ faults' = faults + 1
  /\ step[c] \in {"opened", "staged"}
  /\ Close(c)
  /\ UNCHANGED <<month, claim, meter, config, warned, call, lost>>

-----------------------------------------------------------------------------
(* The rest of the system.                                                 *)

NextMonth ==
  /\ month < MaxMonth /\ month' = month + 1
  /\ UNCHANGED <<claim, meter, config, warned, call, change, lost, faults>>

\* The retention worker skips rows an open transaction has written.  35 days after
\* a claim the month that follows it is at least four days old, so a transaction
\* that is open then (they last seconds) began in it.
RetentionDeletes(b) ==
  /\ claim[b] # NoClaim /\ b \notin Backfills
  /\ Expirable(claim[b].since, month)
  /\ \A r \in Call : pc[r] = "begun" /\ batch[r] = b => start[r] = month
  /\ BatchFree(b)
  /\ claim' = [claim EXCEPT ![b] = NoClaim]
  /\ UNCHANGED <<month, meter, config, warned, call, change, lost, faults>>

\* Every request has been answered.
Finished ==
  /\ \A r \in Call : pc[r] \in Answer
  /\ \A c \in Change : step[c] = "done"
  /\ UNCHANGED vars

Serve(r) ==
  \/ \E b \in Batch : \E p \in Sendable(b) : Begin(r, b, p)
  \/ Claim(r) \/ FindBusy(r) \/ Meter(r) \/ RejectOverLimit(r)
  \/ SkipMeter(r) \/ Commit(r)
  \/ RecordWarnings(r) \/ LoseWarnings(r) \/ Abort(r)

Reconfigure(c) ==
  \/ \E e \in Settings : OpenChange(c, e)
  \/ LockChange(c) \/ DeclineChange(c) \/ CommitChange(c) \/ RefuseChange(c)
  \/ AbortChange(c)

Next ==
  \/ \E r \in Call : Serve(r)
  \/ \E c \in Change : Reconfigure(c)
  \/ NextMonth
  \/ \E b \in Batch : RetentionDeletes(b)
  \/ Finished

Spec == Init /\ [][Next]_vars

-----------------------------------------------------------------------------
(* Properties.                                                             *)

Entitlement == [set : Settings \cup {Unlimited}, revision : Nat]

\* Every variable has its type; in particular no month's usage exceeds the safe
\* integer that MAX_METER_QUANTITY is.
TypeOK ==
  /\ month \in Month
  /\ claim \in [Batch -> Row \cup {NoClaim}]
  /\ ledger \subseteq [call : Call, batch : Batch, payload : Payload, period : Month,
                       quantity : 1 .. MaxQuantity]
  /\ usage \in [Month -> 0 .. MaxQuantity]
  /\ entitlement \in Entitlement
  /\ audit \subseteq [revision : Nat \ {0}, basis : Entitlement,
                      previous : Entitlement, opened : Month, committed : Month]
  /\ warned \cup lost \subseteq Month \X Nat
  /\ pc \in [Call -> {"idle", "begun", "committed"} \cup Stored \cup Answer]
  /\ batch \in [Call -> Batch] /\ payload \in [Call -> Payload]
  /\ start \in [Call -> Month] /\ crossed \in [Call -> SUBSET Nat]
  /\ step \in [Change -> {"idle", "opened", "staged", "done"}]
  /\ opened \in [Change -> Month] /\ basis \in [Change -> Entitlement]
  /\ wanted \in [Change -> Settings \cup {Unlimited}]
  /\ faults \in 0 .. MaxFaults

\* The projection equals the immutable ledger, whatever is replayed, reclaimed,
\* rolled back or committed after its month has ended.
UsageMatchesLedger ==
  \A m \in Month :
    usage[m] = MapThenSumSet(LAMBDA e : e.quantity, {e \in ledger : e.period = m})

\* The current month's usage never exceeds the configured limit, whichever of a
\* batch and a change of the limit came first and whatever month each began in.
LimitHolds == ~BelowUsage(entitlement.set.limit, month)

\* A batch id is stored at most once while its claim lives; a backfill once, and
\* with the payload its claim records.
StoredOnce ==
  /\ \A e, f \in ledger : e.batch = f.batch /\ e.period = f.period => e = f
  /\ \A e, f \in ledger : e.batch = f.batch /\ e.batch \in Backfills => e = f

\* Who is told that a batch was accepted, or is a duplicate, can rely on it being
\* stored; for a backfill, with the very payload that was sent.
AcknowledgedIsStored ==
  \A r \in Call : pc[r] \in {"accepted", "duplicate"} /\ Size[batch[r]] > 0 =>
    \E e \in ledger : /\ e.batch = batch[r]
                      /\ batch[r] \in Backfills => e.payload = payload[r]

\* The two sides of an acknowledgement: stored, and stored once.
BatchesAreStored == StoredOnce /\ AcknowledgedIsStored

\* The change that set the current entitlement began in an earlier month.
Straddled == \E a \in audit : /\ a.revision = entitlement.revision
                              /\ a.opened < a.committed /\ a.committed = month

\* A threshold the current month has reached is recorded or being recorded, unless
\* the recording was lost or the thresholds were set across the month boundary.
CrossingsAreRecorded ==
  \A t \in entitlement.set.thresholds : t <= usage[month] =>
    \/ <<month, t>> \in warned \cup lost
    \/ \E r \in Call : pc[r] = "committed" /\ <<month, t>> \in Crossings(r)
    \/ Straddled

\* A change replaces exactly the entitlement its author had read.
NoChangeIsLost == \A a \in audit : a.basis = a.previous

\* What an operator configured takes effect, and what it asks for is recorded.
ConfigurationHolds == CrossingsAreRecorded /\ NoChangeIsLost
=============================================================================
