------------------------ MODULE IngestProofs -------------------------
(***************************************************************************)
(* Theorems about ingest.  The metered store: for any batches, requests,   *)
(* entitlements, months and faults.  The buffer of one process in front of *)
(* it: for any callers, any sizes of their batches and any limits.         *)
(***************************************************************************)
EXTENDS MeteredIngest, IngestBuffer, SequenceTheorems, FiniteSetTheorems, WellFoundedInduction,
        TLAPS

LEMMA DefaultBatch == (CHOOSE b \in Batch : TRUE) \in Batch
BY IngestAssumption

LEMMA DefaultPayload == (CHOOSE p \in Payload : TRUE) \in Payload
BY IngestAssumption

\* What an operator may set has the fields of an entitlement.
LEMMA SettingShape ==
  ASSUME NEW e \in Settings \cup {Unlimited}
  PROVE  /\ e.thresholds \in SUBSET Nat /\ 0 \notin e.thresholds
         /\ e.limit \in Nat \cup {NoLimit}
BY IngestAssumption DEF Unlimited

LEMMA TypeInit == Init => TypeOK
<1> SUFFICES ASSUME Init PROVE TypeOK
  OBVIOUS
<1>1. claim \in [Batch -> Row \cup {NoClaim}]
  BY DEF Init
<1> QED
  BY <1>1, IngestAssumption, DefaultBatch, DefaultPayload
  DEF Init, TypeOK, Entitlement, Unread, Month

\* The call has the configuration lock and publishes its usage when it commits.
Metering(r) == pc[r] = "metered" /\ Size[batch[r]] > 0

\* The configuration lock: one batch being metered or one change being made.
UsageLock ==
  /\ \A r, q \in Call : Metering(r) /\ Metering(q) => r = q
  /\ \A c, d \in Change : step[c] = "staged" /\ step[d] = "staged" => c = d
  /\ \A r \in Call, c \in Change : Metering(r) => step[c] # "staged"

\* What a batch was admitted against still holds while it has the lock.
MeteringFits ==
  \A r \in Call : Metering(r) =>
    /\ Admitted(r)
    /\ crossed[r] = Crossed(usage[start[r]], Size[batch[r]])

TypeInv == TypeOK /\ UsageLock /\ MeteringFits

LEMMA TypeNext == TypeInv /\ [Next]_vars => TypeOK'
<1> SUFFICES ASSUME TypeInv, [Next]_vars PROVE TypeOK'
  OBVIOUS
<1> USE IngestAssumption DEF TypeOK, call, change, meter, config
<1>0. TypeOK
  BY DEF TypeInv
<1>1. ASSUME NEW r \in Call, NEW b \in Batch, NEW p \in Payload, Begin(r, b, p) PROVE TypeOK'
  BY <1>0, <1>1 DEF Begin, Goto
<1>2. ASSUME NEW r \in Call, NEW answer \in Answer, Respond(r, answer)
      PROVE  /\ pc' \in [Call -> {"idle", "begun", "committed"} \cup Stored \cup Answer]
             /\ batch' \in [Call -> Batch] /\ payload' \in [Call -> Payload]
             /\ start' \in [Call -> Month] /\ crossed' \in [Call -> SUBSET Nat]
  <2>1. pc' \in [Call -> {"idle", "begun", "committed"} \cup Stored \cup Answer]
    BY <1>0, <1>2 DEF Respond
  <2>2. batch' \in [Call -> Batch] /\ payload' \in [Call -> Payload]
    BY <1>0, <1>2, DefaultBatch, DefaultPayload DEF Respond
  <2>3. start' \in [Call -> Month] /\ crossed' \in [Call -> SUBSET Nat]
    BY <1>0, <1>2 DEF Respond, Month
  <2> QED
    BY <2>1, <2>2, <2>3
<1>3. ASSUME NEW r \in Call, Claim(r) PROVE TypeOK'
  <2>1. PICK expired \in BOOLEAN :
          LET verdict == Verdict(batch[r], payload[r], expired) IN
          IF verdict = "claimed"
          THEN Goto(r, "begun", "claimed") /\ UNCHANGED <<batch, payload, start, crossed>>
          ELSE Respond(r, verdict)
    BY <1>3 DEF Claim, Expirations
  <2>2. Verdict(batch[r], payload[r], expired) \in Answer \cup {"claimed"}
    BY DEF Verdict, Answer
  <2>3. CASE Verdict(batch[r], payload[r], expired) = "claimed"
    BY <1>0, <1>3, <2>1, <2>3 DEF Claim, Goto, Stored
  <2>4. CASE Verdict(batch[r], payload[r], expired) # "claimed"
    BY <1>0, <1>2, <1>3, <2>1, <2>2, <2>4 DEF Claim
  <2> QED
    BY <2>3, <2>4
<1>4. ASSUME NEW r \in Call, FindBusy(r) \/ RejectOverLimit(r) PROVE TypeOK'
  BY <1>0, <1>2, <1>4 DEF FindBusy, RejectOverLimit, Answer
<1>5. ASSUME NEW r \in Call, Meter(r) PROVE TypeOK'
  <2>1. Crossed(usage[start[r]], Size[batch[r]]) \in SUBSET Nat
    BY <1>0, SettingShape DEF Crossed, Entitlement
  <2> QED
    BY <1>0, <1>5, <2>1 DEF Meter, Goto, Stored
<1>6. ASSUME NEW r \in Call, SkipMeter(r) PROVE TypeOK'
  BY <1>0, <1>6 DEF SkipMeter, Goto, Stored
<1>7. ASSUME NEW r \in Call, Commit(r) PROVE TypeOK'
  <2>1. pc' \in [Call -> {"idle", "begun", "committed"} \cup Stored \cup Answer]
    BY <1>0, <1>7 DEF Commit, Goto
  <2>2. claim' \in [Batch -> Row \cup {NoClaim}]
    BY <1>0, <1>7 DEF Commit, Row, Month
  <2>3. CASE Size[batch[r]] = 0
    BY <1>0, <1>7, <2>1, <2>2, <2>3 DEF Commit
  <2>4. CASE Size[batch[r]] # 0
    <3>1. Metering(r)
      BY <1>0, <1>7, <2>4 DEF Commit, Goto, Metering
    <3>2. usage[start[r]] + Size[batch[r]] \in 0 .. MaxQuantity
      BY <1>0, <3>1 DEF TypeInv, MeteringFits, Admitted, OverLimit, Month
    <3>3. usage' \in [Month -> 0 .. MaxQuantity]
      BY <1>0, <1>7, <2>4, <3>2 DEF Commit, AddUsage
    <3>4. Size[batch[r]] \in 1 .. MaxQuantity
      BY <1>0, <2>4, <3>2 DEF Month
    <3>5. ledger' \subseteq [call : Call, batch : Batch, payload : Payload, period : Month,
                             quantity : 1 .. MaxQuantity]
      BY <1>0, <1>7, <2>4, <3>4 DEF Commit
    <3> QED
      BY <1>0, <1>7, <2>1, <2>2, <3>3, <3>5 DEF Commit
  <2> QED
    BY <2>3, <2>4
<1>8. ASSUME NEW r \in Call, RecordWarnings(r) \/ LoseWarnings(r) PROVE TypeOK'
  <2>1. Crossings(r) \subseteq Month \X Nat
    BY <1>0 DEF Crossings
  <2>2. \E answer \in Answer : Respond(r, answer)
    BY <1>8 DEF RecordWarnings, LoseWarnings, Answer
  <2>3. faults' \in 0 .. MaxFaults
    BY <1>0, <1>8 DEF RecordWarnings, LoseWarnings
  <2>4. warned' \cup lost' \subseteq Month \X Nat
    BY <1>0, <1>8, <2>1 DEF RecordWarnings, LoseWarnings
  <2> QED
    BY <1>0, <1>2, <1>8, <2>2, <2>3, <2>4 DEF RecordWarnings, LoseWarnings
<1>9. ASSUME NEW r \in Call, Abort(r) PROVE TypeOK'
  BY <1>0, <1>2, <1>9 DEF Abort, Answer
<1>10. ASSUME NEW c \in Change, NEW e \in Settings, OpenChange(c, e) PROVE TypeOK'
  BY <1>0, <1>10 DEF OpenChange
<1>11. ASSUME NEW c \in Change, Close(c)
       PROVE  /\ step' \in [Change -> {"idle", "opened", "staged", "done"}]
              /\ opened' \in [Change -> Month] /\ basis' \in [Change -> Entitlement]
              /\ wanted' \in [Change -> Settings \cup {Unlimited}]
  BY <1>0, <1>11 DEF Close, Unread, Entitlement, Month
<1>12. ASSUME NEW c \in Change, LockChange(c) PROVE TypeOK'
  BY <1>0, <1>12 DEF LockChange
<1>13. ASSUME NEW c \in Change, DeclineChange(c) \/ RefuseChange(c) \/ AbortChange(c) PROVE TypeOK'
  <2>1. faults' \in 0 .. MaxFaults
    BY <1>0, <1>13 DEF DeclineChange, RefuseChange, AbortChange
  <2> QED
    BY <1>0, <1>11, <1>13, <2>1 DEF DeclineChange, RefuseChange, AbortChange
<1>14. ASSUME NEW c \in Change, CommitChange(c) PROVE TypeOK'
  <2>1. entitlement' \in Entitlement /\ entitlement.revision + 1 \in Nat \ {0}
    BY <1>0, <1>14 DEF CommitChange, Entitlement
  <2>2. audit' \subseteq [revision : Nat \ {0}, basis : Entitlement, previous : Entitlement,
                          opened : Month, committed : Month]
    BY <1>0, <1>14, <2>1 DEF CommitChange
  <2>3. wanted[c].thresholds \in SUBSET Nat
    BY <1>0, SettingShape
  <2>4. warned' \cup lost' \subseteq Month \X Nat
    BY <1>0, <1>14, <2>3 DEF CommitChange
  <2> QED
    BY <1>0, <1>11, <1>14, <2>1, <2>2, <2>4 DEF CommitChange
<1>15. CASE NextMonth
  <2>1. month' \in Month
    BY <1>0, <1>15 DEF NextMonth, Month
  <2> QED
    BY <1>0, <1>15, <2>1 DEF NextMonth
<1>16. ASSUME NEW b \in Batch, RetentionDeletes(b) PROVE TypeOK'
  BY <1>0, <1>16 DEF RetentionDeletes
<1>17. CASE UNCHANGED vars
  BY <1>0, <1>17 DEF vars
<1> QED
  BY <1>1, <1>3, <1>4, <1>5, <1>6, <1>7, <1>8, <1>9, <1>10, <1>12, <1>13, <1>14, <1>15,
     <1>16, <1>17
  DEF Next, Serve, Reconfigure, Finished, Sendable

LEMMA TypeFacts ==
  ASSUME TypeOK
  PROVE  /\ month \in Nat /\ MaxQuantity \in Nat
         /\ \A b \in Batch : Size[b] \in Nat
         /\ \A m \in Month : m \in Nat /\ usage[m] \in Nat
         /\ \A r \in Call : batch[r] \in Batch /\ start[r] \in Month
         /\ \A c \in Change : /\ opened[c] \in Month /\ basis[c] \in Entitlement
                              /\ wanted[c] \in Settings \cup {Unlimited}
         /\ entitlement.set \in Settings \cup {Unlimited}
         /\ entitlement \in Entitlement /\ entitlement.revision \in Nat
BY IngestAssumption DEF TypeOK, Month, Entitlement

-----------------------------------------------------------------------------
(* What a step may change.                                                 *)

SameCall(r) ==
  /\ pc'[r] = pc[r] /\ batch'[r] = batch[r] /\ payload'[r] = payload[r]
  /\ start'[r] = start[r] /\ crossed'[r] = crossed[r]

SameChange(c) ==
  /\ step'[c] = step[c] /\ opened'[c] = opened[c]
  /\ basis'[c] = basis[c] /\ wanted'[c] = wanted[c]

\* A transaction touches no other transaction.
LEMMA ServeIsLocal ==
  ASSUME TypeOK, NEW r \in Call, Serve(r), NEW q \in Call, q # r
  PROVE  SameCall(q)
<1> USE DEF SameCall, TypeOK, call
<1>1. ASSUME NEW answer, Respond(r, answer) PROVE SameCall(q)
  BY <1>1 DEF Respond
<1>2. CASE \E b \in Batch : \E p \in Sendable(b) : Begin(r, b, p)
  BY <1>2 DEF Begin, Goto
<1>3. CASE Claim(r)
  <2>1. \/ Goto(r, "begun", "claimed") /\ UNCHANGED <<batch, payload, start, crossed>>
        \/ \E answer : Respond(r, answer)
    BY <1>3 DEF Claim
  <2> QED
    BY <1>1, <2>1 DEF Goto
<1>4. CASE FindBusy(r) \/ RejectOverLimit(r) \/ RecordWarnings(r) \/ LoseWarnings(r) \/ Abort(r)
  <2>1. \E answer : Respond(r, answer)
    BY <1>4 DEF FindBusy, RejectOverLimit, RecordWarnings, LoseWarnings, Abort
  <2> QED
    BY <1>1, <2>1
<1>5. CASE Meter(r) \/ SkipMeter(r) \/ Commit(r)
  BY <1>5 DEF Meter, SkipMeter, Commit, Goto
<1> QED
  BY <1>2, <1>3, <1>4, <1>5 DEF Serve

LEMMA ReconfigureIsLocal ==
  ASSUME TypeOK, NEW c \in Change, Reconfigure(c), NEW d \in Change, d # c
  PROVE  SameChange(d)
BY DEF Reconfigure, OpenChange, LockChange, DeclineChange, CommitChange, RefuseChange,
       AbortChange, Close, SameChange, TypeOK

\* What a request, a change and the rest of the system leave alone.
LEMMA ServeFrame ==
  ASSUME NEW r \in Call, Serve(r)
  PROVE  UNCHANGED <<month, entitlement, audit, change>>
BY DEF Serve, Begin, Claim, FindBusy, Meter, RejectOverLimit, SkipMeter, Commit,
       RecordWarnings, LoseWarnings, Abort, config

LEMMA ReconfigureFrame ==
  ASSUME NEW c \in Change, Reconfigure(c)
  PROVE  UNCHANGED <<month, claim, ledger, usage, call, lost>>
BY DEF Reconfigure, OpenChange, LockChange, DeclineChange, CommitChange, RefuseChange,
       AbortChange, meter

Elsewhere ==
  \/ NextMonth \/ (\E b \in Batch : RetentionDeletes(b)) \/ Finished \/ UNCHANGED vars

LEMMA ElsewhereFrame ==
  ASSUME Elsewhere
  PROVE  UNCHANGED <<ledger, usage, entitlement, audit, warned, lost, call, change>>
BY DEF Elsewhere, NextMonth, RetentionDeletes, Finished, vars, meter, config

LEMMA Steps ==
  ASSUME [Next]_vars
  PROVE  \/ \E r \in Call : Serve(r)
         \/ \E c \in Change : Reconfigure(c)
         \/ Elsewhere
BY DEF Next, Elsewhere

\* A batch is being metered since the step that locked and admitted it.
LEMMA MeteringBegins ==
  ASSUME TypeOK, [Next]_vars, NEW r \in Call, Metering(r)'
  PROVE  Meter(r) \/ (Metering(r) /\ SameCall(r))
<1>1. CASE Serve(r)
  <2>1. ASSUME NEW answer \in Answer, Respond(r, answer) PROVE FALSE
    BY <2>1 DEF Respond, Metering, TypeOK, Answer
  <2>2. CASE (\E b \in Batch : \E p \in Sendable(b) : Begin(r, b, p)) \/ Commit(r) \/ SkipMeter(r)
    BY <2>2 DEF Begin, Commit, SkipMeter, Goto, Metering, TypeOK
  <2>3. CASE Claim(r)
    <3>1. \/ Goto(r, "begun", "claimed")
          \/ \E answer \in Answer : Respond(r, answer)
      BY <2>3 DEF Claim, Verdict, Answer
    <3> QED
      BY <2>1, <3>1 DEF Goto, Metering, TypeOK
  <2>4. CASE FindBusy(r) \/ RejectOverLimit(r) \/ RecordWarnings(r) \/ LoseWarnings(r) \/ Abort(r)
    BY <2>1, <2>4 DEF FindBusy, RejectOverLimit, RecordWarnings, LoseWarnings, Abort, Answer
  <2> QED
    BY <1>1, <2>2, <2>3, <2>4 DEF Serve
<1>2. CASE SameCall(r)
  BY <1>2 DEF SameCall, Metering
<1>3. ASSUME NEW q \in Call, q # r, Serve(q) PROVE SameCall(r)
  BY <1>3, ServeIsLocal
<1>4. CASE \E c \in Change : Reconfigure(c)
  BY <1>4, ReconfigureFrame, <1>2 DEF SameCall, call
<1>5. CASE Elsewhere
  BY <1>5, ElsewhereFrame, <1>2 DEF SameCall, call
<1> QED
  BY <1>1, <1>2, <1>3, <1>4, <1>5, Steps

\* A change is staged since the step that took the lock.
LEMMA StagedBegins ==
  ASSUME TypeOK, [Next]_vars, NEW c \in Change, step'[c] = "staged"
  PROVE  LockChange(c) \/ (step[c] = "staged" /\ SameChange(c))
<1>1. CASE Reconfigure(c)
  BY <1>1 DEF Reconfigure, OpenChange, DeclineChange, CommitChange, RefuseChange, AbortChange,
              Close, TypeOK
<1>2. CASE SameChange(c)
  BY <1>2 DEF SameChange
<1>3. ASSUME NEW d \in Change, d # c, Reconfigure(d) PROVE SameChange(c)
  BY <1>3, ReconfigureIsLocal
<1>4. CASE \E r \in Call : Serve(r)
  BY <1>4, ServeFrame, <1>2 DEF SameChange, change
<1>5. CASE Elsewhere
  BY <1>5, ElsewhereFrame, <1>2 DEF SameChange, change
<1> QED
  BY <1>1, <1>2, <1>3, <1>4, <1>5, Steps

\* Only the commit of a batch with billable events moves usage or the ledger.
LEMMA UsageMoves ==
  ASSUME [Next]_vars, ~ UNCHANGED <<ledger, usage>>
  PROVE  \E r \in Call : Commit(r) /\ Size[batch[r]] # 0
<1>1. ASSUME NEW r \in Call, Serve(r) PROVE Commit(r) /\ Size[batch[r]] # 0
  BY <1>1 DEF Serve, Begin, Claim, FindBusy, Meter, RejectOverLimit, SkipMeter, Commit,
              RecordWarnings, LoseWarnings, Abort, meter
<1> QED
  BY <1>1, Steps, ReconfigureFrame, ElsewhereFrame

\* Only the commit of a change moves the entitlement.
LEMMA EntitlementMoves ==
  ASSUME [Next]_vars, ~ UNCHANGED <<entitlement, audit>>
  PROVE  \E c \in Change : CommitChange(c)
<1>1. ASSUME NEW c \in Change, Reconfigure(c) PROVE CommitChange(c)
  BY <1>1 DEF Reconfigure, OpenChange, LockChange, DeclineChange, RefuseChange, AbortChange, config
<1> QED
  BY <1>1, Steps, ServeFrame, ElsewhereFrame

-----------------------------------------------------------------------------
(* The lock and the limit.                                                 *)

\* Transactions began in the past, and no month is used before it comes.
TimeInv ==
  /\ \A r \in Call : start[r] <= month
  /\ \A c \in Change : opened[c] <= month
  /\ \A m \in Month : m > month => usage[m] = 0

LEMMA LockNext == TypeInv /\ [Next]_vars => UsageLock'
<1> SUFFICES ASSUME TypeInv, [Next]_vars PROVE UsageLock'
  OBVIOUS
<1>0. TypeOK /\ UsageLock
  BY DEF TypeInv
<1>1. ASSUME NEW r \in Call, NEW q \in Call, Meter(r)
      PROVE  ~Metering(q) /\ (Metering(q)' => q = r) /\ UNCHANGED change
  BY <1>0, <1>1, TypeFacts DEF Meter, Goto, UsageFree, Metering, TypeOK
<1>2. ASSUME NEW c \in Change, NEW d \in Change, LockChange(c)
      PROVE  /\ step[d] # "staged" /\ (step'[d] = "staged" => d = c)
             /\ \A r \in Call : ~Metering(r) /\ ~Metering(r)'
  BY <1>0, <1>2, TypeFacts DEF LockChange, UsageFree, Metering, TypeOK, call
<1>3. ASSUME NEW r \in Call, NEW q \in Call, Metering(r)', Metering(q)' PROVE r = q
  <2>1. (Meter(r) \/ Metering(r)) /\ (Meter(q) \/ Metering(q))
    BY <1>0, <1>3, MeteringBegins
  <2> QED
    BY <1>0, <1>1, <1>3, <2>1 DEF UsageLock
<1>4. ASSUME NEW c \in Change, NEW d \in Change, step'[c] = "staged", step'[d] = "staged"
      PROVE  c = d
  <2>1. (LockChange(c) \/ step[c] = "staged") /\ (LockChange(d) \/ step[d] = "staged")
    BY <1>0, <1>4, StagedBegins
  <2> QED
    BY <1>0, <1>2, <1>4, <2>1 DEF UsageLock
<1>5. ASSUME NEW r \in Call, NEW c \in Change, Metering(r)', step'[c] = "staged" PROVE FALSE
  <2>1. Meter(r) \/ Metering(r)
    BY <1>0, <1>5, MeteringBegins
  <2>2. LockChange(c) \/ step[c] = "staged"
    BY <1>0, <1>5, StagedBegins
  <2>3. CASE Meter(r)
    BY <1>1, <1>5, <2>3 DEF Meter, UsageFree, change
  <2>4. CASE LockChange(c)
    BY <1>2, <1>5, <2>4
  <2> QED
    BY <1>0, <2>1, <2>2, <2>3, <2>4 DEF UsageLock
<1> QED
  BY <1>3, <1>4, <1>5 DEF UsageLock

\* While a batch has the lock, neither usage nor entitlement moves unless it commits.
LEMMA LockFreezes ==
  ASSUME TypeInv, [Next]_vars, NEW r \in Call, Metering(r), Metering(r)'
  PROVE  UNCHANGED <<usage, entitlement>>
<1>0. TypeOK /\ UsageLock
  BY DEF TypeInv
<1>1. ASSUME NEW q \in Call, Commit(q), Size[batch[q]] # 0 PROVE FALSE
  <2>1. Metering(q)
    BY <1>0, <1>1, TypeFacts DEF Commit, Goto, Metering
  <2>2. q = r
    BY <1>0, <2>1 DEF UsageLock
  <2> QED
    BY <1>0, <1>1, <2>2 DEF Commit, Goto, Metering, TypeOK
<1>2. ASSUME NEW c \in Change, CommitChange(c) PROVE FALSE
  BY <1>0, <1>2 DEF CommitChange, UsageLock
<1> QED
  BY <1>1, <1>2, UsageMoves, EntitlementMoves

LEMMA FitsNext == TypeInv /\ [Next]_vars => MeteringFits'
<1> SUFFICES ASSUME TypeInv, [Next]_vars, NEW r \in Call, Metering(r)'
             PROVE  Admitted(r)' /\ (crossed[r] = Crossed(usage[start[r]], Size[batch[r]]))'
  BY DEF MeteringFits
<1>0. TypeOK /\ UsageLock /\ MeteringFits
  BY DEF TypeInv
<1>1. CASE Meter(r)
  BY <1>0, <1>1 DEF Meter, Admitted, OverLimit, Crossed, meter, config, TypeOK
<1>2. CASE Metering(r) /\ SameCall(r)
  <2>1. UNCHANGED <<usage, entitlement>>
    BY <1>2, LockFreezes
  <2> QED
    BY <1>0, <1>2, <2>1 DEF MeteringFits, SameCall, Admitted, OverLimit, Crossed
<1> QED
  BY <1>0, <1>1, <1>2, MeteringBegins

LEMMA TypeInvInit == Init => TypeInv
<1> SUFFICES ASSUME Init PROVE UsageLock /\ MeteringFits
  BY TypeInit DEF TypeInv
<1> QED
  BY DEF Init, UsageLock, MeteringFits, Metering

LEMMA TypeInvNext == TypeInv /\ [Next]_vars => TypeInv'
BY TypeNext, LockNext, FitsNext DEF TypeInv

\* Every variable keeps its type, and no month is ever charged with more than
\* MAX_METER_QUANTITY, for any batches, entitlements, requests and months.
THEOREM MeterTypeCorrect == Spec => []TypeOK
<1>1. TypeInv => TypeOK
  BY DEF TypeInv
<1> QED
  BY <1>1, TypeInvInit, TypeInvNext, PTL DEF Spec

LEMMA TimeNext == TypeInv /\ TimeInv /\ [Next]_vars => TimeInv'
<1> SUFFICES ASSUME TypeInv, TimeInv, [Next]_vars PROVE TimeInv'
  OBVIOUS
<1>0. TypeOK
  BY DEF TypeInv
<1>1. ASSUME NEW r \in Call, Serve(r) PROVE TimeInv'
  <2>1. UNCHANGED <<month, change>>
    BY <1>1, ServeFrame
  <2>2. start'[r] \in {start[r], month, 1}
    <3>1. ASSUME NEW answer, Respond(r, answer) PROVE start'[r] = 1
      BY <1>0, <3>1 DEF Respond, TypeOK
    <3> QED
      BY <1>0, <1>1, <3>1 DEF Serve, Begin, Claim, FindBusy, Meter, RejectOverLimit, SkipMeter,
         Commit, RecordWarnings, LoseWarnings, Abort, TypeOK
  <2>3. \A q \in Call : start'[q] <= month
    <3>1. 1 <= month
      BY <1>0 DEF TypeOK, Month
    <3> QED
      BY <1>0, <1>1, <2>2, <3>1, ServeIsLocal, TypeFacts DEF TimeInv, SameCall
  <2>4. \A m \in Month : m > month => usage'[m] = 0
    <3>1. CASE UNCHANGED <<ledger, usage>>
      BY <3>1 DEF TimeInv
    <3>2. ASSUME NEW q \in Call, Commit(q), Size[batch[q]] # 0
          PROVE  \A m \in Month : m > month => usage'[m] = 0
      BY <1>0, <3>2, TypeFacts DEF Commit, AddUsage, TimeInv, TypeOK
    <3> QED
      BY <3>1, <3>2, UsageMoves
  <2> QED
    BY <2>1, <2>3, <2>4 DEF TimeInv, change
<1>2. ASSUME NEW c \in Change, Reconfigure(c) PROVE TimeInv'
  <2>1. UNCHANGED <<month, usage, call>>
    BY <1>2, ReconfigureFrame
  <2>2. opened'[c] \in {opened[c], month, 1}
    BY <1>0, <1>2 DEF Reconfigure, OpenChange, LockChange, DeclineChange, CommitChange,
       RefuseChange, AbortChange, Close, TypeOK
  <2>3. 1 <= month
    BY <1>0 DEF TypeOK, Month
  <2>4. \A d \in Change : opened'[d] <= month
    BY <1>0, <1>2, <2>2, <2>3, ReconfigureIsLocal, TypeFacts DEF TimeInv, SameChange
  <2> QED
    BY <2>1, <2>4 DEF TimeInv, call
<1>3. CASE Elsewhere
  <2>1. month' \in {month, month + 1}
    BY <1>3 DEF Elsewhere, NextMonth, RetentionDeletes, Finished, vars
  <2> QED
    BY <1>0, <1>3, <2>1, ElsewhereFrame, TypeFacts DEF TimeInv, call, change
<1> QED
  BY <1>1, <1>2, <1>3, Steps

LEMMA LimitNext == TypeInv /\ TimeInv /\ LimitHolds /\ [Next]_vars => LimitHolds'
<1> SUFFICES ASSUME TypeInv, TimeInv, LimitHolds, [Next]_vars PROVE LimitHolds'
  OBVIOUS
<1>0. TypeOK /\ UsageLock /\ MeteringFits
  BY DEF TypeInv
<1>1. CASE UNCHANGED <<month, usage, entitlement>>
  BY <1>1 DEF LimitHolds, BelowUsage
<1>2. ASSUME NEW r \in Call, Commit(r), Size[batch[r]] # 0 PROVE LimitHolds'
  <2>1. Metering(r) /\ UNCHANGED <<month, entitlement>>
    BY <1>0, <1>2, TypeFacts DEF Commit, Goto, Metering, config
  <2>2. entitlement.set.limit = NoLimit
        \/ usage[start[r]] + Size[batch[r]] <= entitlement.set.limit
    BY <1>0, <2>1, TypeFacts, SettingShape DEF MeteringFits, Admitted, OverLimit
  <2>3. usage'[month] = IF start[r] = month THEN usage[month] + Size[batch[r]] ELSE usage[month]
    BY <1>0, <1>2 DEF Commit, AddUsage, TypeOK
  <2> QED
    BY <1>0, <2>1, <2>2, <2>3, TypeFacts, SettingShape DEF LimitHolds, BelowUsage
<1>3. ASSUME NEW c \in Change, CommitChange(c) PROVE LimitHolds'
  BY <1>3 DEF CommitChange, TriggerRefuses, LimitHolds, BelowUsage, meter
<1>4. CASE NextMonth
  <2>1. month' \in Month /\ month' > month
    BY <1>0, <1>4, IngestAssumption DEF NextMonth, TypeOK, Month
  <2>2. usage'[month'] = 0 /\ entitlement' = entitlement
    BY <1>4, <2>1 DEF TimeInv, NextMonth, meter, config
  <2> QED
    BY <1>0, <2>2, TypeFacts, SettingShape DEF LimitHolds, BelowUsage
<1> QED
  <2>1. ASSUME NEW r \in Call, Serve(r) PROVE LimitHolds'
    BY <1>1, <1>2, <2>1, ServeFrame, UsageMoves
  <2>2. ASSUME NEW c \in Change, Reconfigure(c) PROVE LimitHolds'
    BY <1>1, <1>3, <2>2, ReconfigureFrame, EntitlementMoves
  <2>3. CASE Elsewhere
    BY <1>1, <1>4, <2>3, ElsewhereFrame DEF Elsewhere, RetentionDeletes, Finished, vars
  <2> QED
    BY <2>1, <2>2, <2>3, Steps

LEMMA LimitInit == Init => TimeInv /\ LimitHolds
<1> SUFFICES ASSUME Init PROVE TimeInv /\ LimitHolds
  OBVIOUS
<1>1. month = 1 /\ 1 \in Month
  BY IngestAssumption DEF Init, Month
<1> QED
  BY <1>1 DEF Init, TimeInv, LimitHolds, BelowUsage, Unread, Unlimited

\* The usage of the current month never exceeds the configured limit: the lock
\* keeps a batch that was admitted admitted, the trigger refuses a change that the
\* month has overtaken, and a month begins unused.
THEOREM LimitIsKept == Spec => []LimitHolds
<1>1. Spec => [](TypeInv /\ TimeInv /\ LimitHolds)
  BY TypeInvInit, TypeInvNext, LimitInit, TimeNext, LimitNext, PTL DEF Spec
<1> QED
  BY <1>1, PTL

-----------------------------------------------------------------------------
(* Threshold crossings.                                                    *)

Recorded(t) ==
  \/ <<month, t>> \in warned \cup lost
  \/ \E r \in Call : pc[r] = "committed" /\ <<month, t>> \in Crossings(r)

LEMMA RecordedStays ==
  ASSUME TypeOK, [Next]_vars, month' = month, NEW t, Recorded(t)
  PROVE  Recorded(t)'
<1>1. ASSUME NEW r \in Call, Serve(r) PROVE Recorded(t)'
  <2>1. warned \subseteq warned' /\ lost \subseteq lost'
    BY <1>1 DEF Serve, Begin, Claim, FindBusy, Meter, RejectOverLimit, SkipMeter, Commit,
       RecordWarnings, LoseWarnings, Abort
  <2>2. ASSUME NEW q \in Call, pc[q] = "committed", <<month, t>> \in Crossings(q), q # r
        PROVE  Recorded(t)'
    BY <1>1, <2>2, ServeIsLocal DEF Recorded, SameCall, Crossings
  <2>3. CASE pc[r] = "committed" /\ <<month, t>> \in Crossings(r)
    BY <1>1, <2>3 DEF Recorded, Serve, Begin, Claim, FindBusy, Meter, RejectOverLimit,
       SkipMeter, Commit, Goto, RecordWarnings, LoseWarnings, Abort, Stored
  <2> QED
    BY <2>1, <2>2, <2>3 DEF Recorded
<1>2. ASSUME NEW c \in Change, Reconfigure(c) PROVE Recorded(t)'
  <2>1. warned \subseteq warned'
    BY <1>2 DEF Reconfigure, OpenChange, LockChange, DeclineChange, CommitChange, RefuseChange,
       AbortChange
  <2> QED
    BY <1>2, <2>1, ReconfigureFrame DEF Recorded, Crossings, call
<1>3. CASE Elsewhere
  BY <1>3, ElsewhereFrame DEF Recorded, Crossings, call
<1> QED
  BY <1>1, <1>2, <1>3, Steps

CrossingInv == \A t \in entitlement.set.thresholds : t <= usage[month] => Recorded(t) \/ Straddled

LEMMA CrossingNext == TypeInv /\ TimeInv /\ CrossingInv /\ [Next]_vars => CrossingInv'
<1> SUFFICES ASSUME TypeInv, TimeInv, CrossingInv, [Next]_vars,
                    NEW t \in entitlement'.set.thresholds, t <= usage'[month']
             PROVE  (Recorded(t) \/ Straddled)'
  BY DEF CrossingInv
<1>0. TypeOK /\ UsageLock /\ MeteringFits
  BY DEF TypeInv
<1>1. CASE UNCHANGED <<month, usage, entitlement, audit>>
  BY <1>0, <1>1, RecordedStays DEF CrossingInv, Straddled
<1>2. ASSUME NEW r \in Call, Commit(r), Size[batch[r]] # 0 PROVE (Recorded(t) \/ Straddled)'
  <2>1. Metering(r) /\ UNCHANGED <<month, entitlement, audit>>
    BY <1>0, <1>2, TypeFacts DEF Commit, Goto, Metering, config
  <2>2. CASE t <= usage[month]
    BY <1>0, <2>1, <2>2, RecordedStays DEF CrossingInv, Straddled
  <2>3. CASE ~(t <= usage[month])
    <3>1. t \in Nat
      BY <1>0, <2>1, TypeFacts, SettingShape
    <3>2. usage'[month] = IF start[r] = month THEN usage[month] + Size[batch[r]] ELSE usage[month]
      BY <1>0, <1>2 DEF Commit, AddUsage, TypeOK
    <3>3. month \in Month
      BY <1>0 DEF TypeOK
    <3>4. start[r] = month /\ t \in Crossed(usage[start[r]], Size[batch[r]])
      BY <1>0, <2>1, <2>3, <3>1, <3>2, <3>3, TypeFacts DEF Crossed
    <3>5. <<month, t>> \in Crossings(r)
      BY <1>0, <2>1, <3>4 DEF MeteringFits, Crossings
    <3>6. pc'[r] = "committed" /\ UNCHANGED <<start, crossed>>
      BY <1>0, <1>2 DEF Commit, Goto, TypeOK
    <3> QED
      BY <2>1, <3>5, <3>6 DEF Recorded, Crossings
  <2> QED
    BY <2>2, <2>3
<1>3. ASSUME NEW c \in Change, CommitChange(c) PROVE (Recorded(t) \/ Straddled)'
  <2>1. UNCHANGED <<month, usage>> /\ entitlement'.set = wanted[c]
    BY <1>3 DEF CommitChange, meter
  <2>2. CASE opened[c] = month
    BY <1>3, <2>1, <2>2 DEF CommitChange, Recorded
  <2>3. CASE opened[c] # month
    <3>1. opened[c] < month
      BY <1>0, <2>3, TypeFacts DEF TimeInv
    <3> DEFINE a == [revision |-> entitlement.revision + 1, basis |-> basis[c],
                     previous |-> entitlement, opened |-> opened[c], committed |-> month]
    <3>2. a \in audit' /\ entitlement'.revision = entitlement.revision + 1
      BY <1>3 DEF CommitChange
    <3>3. a.revision = entitlement'.revision /\ a.opened = opened[c] /\ a.committed = month
      BY <3>2
    <3> QED
      BY <2>1, <3>1, <3>2, <3>3 DEF Straddled
  <2> QED
    BY <2>2, <2>3
<1>4. CASE NextMonth
  <2>1. month' \in Month /\ month' > month /\ UNCHANGED <<usage, entitlement>>
    BY <1>0, <1>4, IngestAssumption DEF NextMonth, TypeOK, Month, meter, config
  <2>2. usage'[month'] = 0
    BY <2>1 DEF TimeInv
  <2>3. t \in Nat \ {0}
    BY <1>0, <2>1, TypeFacts, SettingShape
  <2> QED
    BY <2>2, <2>3
<1> QED
  <2>1. ASSUME NEW r \in Call, Serve(r) PROVE (Recorded(t) \/ Straddled)'
    BY <1>1, <1>2, <2>1, ServeFrame, UsageMoves
  <2>2. ASSUME NEW c \in Change, Reconfigure(c) PROVE (Recorded(t) \/ Straddled)'
    BY <1>1, <1>3, <2>2, ReconfigureFrame, EntitlementMoves
  <2>3. CASE Elsewhere
    BY <1>1, <1>4, <2>3, ElsewhereFrame DEF Elsewhere, RetentionDeletes, Finished, vars
  <2> QED
    BY <2>1, <2>2, <2>3, Steps

\* A threshold the current month has reached is recorded, being recorded, among
\* the recordings that failed, or set by a change that straddled the month.
THEOREM CrossingsAreKept == Spec => []CrossingsAreRecorded
<1>1. Init => CrossingInv
  BY DEF Init, CrossingInv, Unread, Unlimited
<1>2. CrossingInv => CrossingsAreRecorded
  BY DEF CrossingInv, CrossingsAreRecorded, Recorded
<1> QED
  BY <1>1, <1>2, TypeInvInit, TypeInvNext, LimitInit, TimeNext, CrossingNext, PTL DEF Spec

-----------------------------------------------------------------------------
(* Changes of the entitlement.                                             *)

\* What an open change has read is the current entitlement unless another change
\* has raised the revision; with the lock held it is the current one.
BasisInv ==
  \A c \in Change :
    /\ step[c] \in {"opened", "staged"} =>
         /\ basis[c].revision <= entitlement.revision
         /\ basis[c].revision = entitlement.revision => basis[c] = entitlement
    /\ step[c] = "staged" => basis[c] = entitlement

LEMMA BasisNext == TypeInv /\ BasisInv /\ [Next]_vars => BasisInv'
<1> SUFFICES ASSUME TypeInv, BasisInv, [Next]_vars PROVE BasisInv'
  OBVIOUS
<1>0. TypeOK /\ UsageLock
  BY DEF TypeInv
<1>1. CASE UNCHANGED <<entitlement, change>>
  BY <1>1 DEF BasisInv, change
<1>2. ASSUME NEW c \in Change, Reconfigure(c) PROVE BasisInv'
  <2>1. CASE \E e \in Settings : OpenChange(c, e)
    BY <1>0, <2>1, TypeFacts DEF OpenChange, BasisInv, TypeOK, config
  <2>2. CASE LockChange(c)
    BY <1>0, <2>2 DEF LockChange, Acceptable, RevisionExpected, BasisInv, TypeOK, config
  <2>3. CASE DeclineChange(c) \/ RefuseChange(c) \/ AbortChange(c)
    BY <1>0, <2>3 DEF DeclineChange, RefuseChange, AbortChange, Close, BasisInv, TypeOK, config
  <2>4. CASE CommitChange(c)
    <3>1. entitlement'.revision = entitlement.revision + 1
      BY <2>4 DEF CommitChange
    <3>2. ASSUME NEW d \in Change, step'[d] \in {"opened", "staged"}
          PROVE  step[d] = "opened" /\ step'[d] = "opened" /\ basis'[d] = basis[d]
      BY <1>0, <2>4, <3>2 DEF CommitChange, Close, TypeOK, UsageLock
    <3>3. ASSUME NEW d \in Change, step[d] = "opened"
          PROVE  basis[d].revision \in Nat /\ basis[d].revision <= entitlement.revision
      BY <1>0, <3>3, TypeFacts DEF BasisInv, Entitlement
    <3> QED
      BY <1>0, <3>1, <3>2, <3>3, TypeFacts DEF BasisInv
  <2> QED
    BY <1>2, <2>1, <2>2, <2>3, <2>4 DEF Reconfigure
<1> QED
  BY <1>1, <1>2, Steps, ServeFrame, ElsewhereFrame

\* Compare-and-set: a change of the entitlement replaces exactly what its author
\* had read, so none is overwritten unseen.
THEOREM ChangesAreSeen == Spec => []NoChangeIsLost
<1>1. Init => BasisInv /\ NoChangeIsLost
  BY DEF Init, BasisInv, NoChangeIsLost
<1>2. BasisInv /\ NoChangeIsLost /\ [Next]_vars => NoChangeIsLost'
  <2> SUFFICES ASSUME BasisInv, NoChangeIsLost, [Next]_vars PROVE NoChangeIsLost'
    OBVIOUS
  <2>1. ASSUME NEW c \in Change, CommitChange(c) PROVE NoChangeIsLost'
    BY <2>1 DEF CommitChange, BasisInv, NoChangeIsLost
  <2> QED
    BY <2>1, EntitlementMoves DEF NoChangeIsLost
<1> QED
  BY <1>1, <1>2, TypeInvInit, TypeInvNext, BasisNext, PTL DEF Spec

-----------------------------------------------------------------------------
(* Claims and what they stand for.                                         *)

Holding(r) == pc[r] \in Stored

BatchLock ==
  \A r, q \in Call : Holding(r) /\ Holding(q) /\ batch[r] = batch[q] => r = q

\* The events of a batch are those of its claim, or of one that has expired.
LedgerInv ==
  \A e \in ledger :
    /\ e.period <= month
    /\ claim[e.batch] = NoClaim => e.period < month /\ e.batch \notin Backfills
    /\ claim[e.batch] # NoClaim =>
         /\ claim[e.batch].status = "completed" /\ e.period <= claim[e.batch].since
         /\ e.batch \in Backfills => claim[e.batch].payload = e.payload

\* Whoever may store a batch does so in a later month than it was stored before.
Fresh(r) ==
  \A e \in ledger : e.batch = batch[r] => e.period < start[r] /\ e.batch \notin Backfills

FreshInv ==
  \A r \in Call :
    \/ Holding(r)
    \/ pc[r] = "begun" /\ claim[batch[r]] = NoClaim
    => Fresh(r)

OnceInv == BatchLock /\ LedgerInv /\ FreshInv /\ StoredOnce

LEMMA HoldingBegins ==
  ASSUME TypeOK, [Next]_vars, NEW r \in Call, Holding(r)'
  PROVE  \/ Claim(r) /\ UNCHANGED <<batch, payload, start>>
         \/ Holding(r) /\ batch'[r] = batch[r] /\ payload'[r] = payload[r] /\ start'[r] = start[r]
<1>1. CASE Serve(r)
  <2>1. ASSUME NEW answer \in Answer, Respond(r, answer) PROVE FALSE
    BY <2>1 DEF Respond, Holding, Stored, TypeOK, Answer
  <2>2. CASE (\E b \in Batch : \E p \in Sendable(b) : Begin(r, b, p)) \/ Commit(r)
    BY <2>2 DEF Begin, Commit, Goto, Holding, Stored, TypeOK
  <2>3. CASE Meter(r) \/ SkipMeter(r)
    BY <2>3 DEF Meter, SkipMeter, Goto, Holding, Stored
  <2>4. CASE Claim(r)
    <3>1. \/ UNCHANGED <<batch, payload, start>>
          \/ \E answer \in Answer : Respond(r, answer)
      BY <2>4 DEF Claim, Verdict, Answer
    <3> QED
      BY <2>1, <2>4, <3>1
  <2>5. CASE FindBusy(r) \/ RejectOverLimit(r) \/ RecordWarnings(r) \/ LoseWarnings(r) \/ Abort(r)
    BY <2>1, <2>5 DEF FindBusy, RejectOverLimit, RecordWarnings, LoseWarnings, Abort, Answer
  <2> QED
    BY <1>1, <2>2, <2>3, <2>4, <2>5 DEF Serve
<1>2. CASE SameCall(r)
  BY <1>2 DEF SameCall, Holding
<1>3. ASSUME NEW q \in Call, q # r, Serve(q) PROVE SameCall(r)
  BY <1>3, ServeIsLocal
<1>4. CASE \E c \in Change : Reconfigure(c)
  BY <1>4, ReconfigureFrame, <1>2 DEF SameCall, call
<1>5. CASE Elsewhere
  BY <1>5, ElsewhereFrame, <1>2 DEF SameCall, call
<1> QED
  BY <1>1, <1>2, <1>3, <1>4, <1>5, Steps

LEMMA BatchLockNext == TypeOK /\ BatchLock /\ [Next]_vars => BatchLock'
<1> SUFFICES ASSUME TypeOK, BatchLock, [Next]_vars,
                    NEW r \in Call, NEW q \in Call, Holding(r)', Holding(q)', batch'[r] = batch'[q]
             PROVE  r = q
  BY DEF BatchLock
<1>1. ASSUME NEW s \in Call, NEW t \in Call, Claim(s), Holding(t)', batch'[s] = batch'[t],
             UNCHANGED <<batch, payload, start>>
      PROVE  s = t
  <2>1. ~Holding(t)
    BY <1>1 DEF Claim, BatchFree, Holding
  <2>2. Claim(t)
    BY <1>1, <2>1, HoldingBegins
  <2>3. s # t => pc'[t] = pc[t]
    BY <1>1, ServeIsLocal DEF Serve, SameCall
  <2> QED
    BY <1>1, <2>1, <2>3 DEF Holding
<1> QED
  BY <1>1, HoldingBegins DEF BatchLock

\* The verdicts on a claim that is there: of a backfill, and of an ingest batch.
LEMMA BackfillVerdict ==
  ASSUME NEW b \in Backfills, NEW p, NEW expired \in BOOLEAN, claim[b] # NoClaim
  PROVE  Verdict(b, p, expired) = IF claim[b].payload = p THEN "duplicate" ELSE "refused"
BY DEF Verdict

LEMMA IngestVerdict ==
  ASSUME NEW b \in Batch \ Backfills, NEW p, NEW expired \in BOOLEAN, claim[b] # NoClaim
  PROVE  /\ Verdict(b, p, expired) = "claimed" => expired \/ claim[b].status = "failed"
         /\ Verdict(b, p, expired) = "duplicate" => claim[b].status \notin {"processing", "failed"}
BY DEF Verdict, InProgress

\* A transaction that comes to hold its batch id finds no claim, or one it may replace.
LEMMA ClaimIsFresh ==
  ASSUME TypeOK, LedgerInv, FreshInv, NEW r \in Call, Claim(r), Holding(r)'
  PROVE  Fresh(r)
<1>1. PICK expired \in Expirations(r) :
        LET verdict == Verdict(batch[r], payload[r], expired) IN
        IF verdict = "claimed"
        THEN Goto(r, "begun", "claimed") /\ UNCHANGED <<batch, payload, start, crossed>>
        ELSE Respond(r, verdict)
  BY DEF Claim
<1>2. Verdict(batch[r], payload[r], expired) = "claimed"
  <2>1. Verdict(batch[r], payload[r], expired) \in {"claimed"} \cup Answer
    BY DEF Verdict, Answer
  <2>2. ASSUME NEW answer \in Answer, Respond(r, answer) PROVE FALSE
    BY <2>2 DEF Respond, Holding, Stored, TypeOK, Answer
  <2> QED
    BY <1>1, <2>1, <2>2
<1>3. pc[r] = "begun" /\ batch[r] \in Batch
  BY DEF Claim, TypeOK
<1>4. CASE claim[batch[r]] = NoClaim
  BY <1>3, <1>4 DEF FreshInv
<1>5. CASE claim[batch[r]] # NoClaim
  <2>1. batch[r] \notin Backfills /\ (expired \/ claim[batch[r]].status = "failed")
    BY <1>1, <1>2, <1>3, <1>5, BackfillVerdict, IngestVerdict DEF Expirations
  <2>2. expired => claim[batch[r]].since < start[r]
    BY <1>1 DEF Expirations, Expirable
  <2>3. claim[batch[r]].since \in Nat /\ start[r] \in Nat
    BY <1>3, <1>5, TypeFacts DEF TypeOK, Row
  <2>4. ASSUME NEW e \in ledger, e.batch = batch[r] PROVE e.period < start[r]
    <3>1. /\ claim[batch[r]].status = "completed" /\ e.period <= claim[batch[r]].since
      BY <1>5, <2>4 DEF LedgerInv
    <3>2. e.period \in Nat
      BY TypeFacts DEF TypeOK
    <3> QED
      BY <2>1, <2>2, <2>3, <3>1, <3>2
  <2> QED
    BY <2>1, <2>4 DEF Fresh
<1> QED
  BY <1>4, <1>5

\* What the commit of a batch does to its claim and to the ledger.
LEMMA CommitWrites ==
  ASSUME TypeOK, NEW r \in Call, Commit(r)
  PROVE  /\ Holding(r) /\ ~Holding(r)' /\ UNCHANGED <<month, batch, payload, start>>
         /\ claim'[batch[r]] = [status |-> "completed", since |-> start[r], payload |-> payload[r]]
         /\ claim'[batch[r]] # NoClaim
         /\ \A b \in Batch \ {batch[r]} : claim'[b] = claim[b]
         /\ ledger' = IF Size[batch[r]] = 0 THEN ledger
                      ELSE ledger \cup {[call |-> r, batch |-> batch[r], payload |-> payload[r],
                                         period |-> start[r], quantity |-> Size[batch[r]]]}
<1>1. /\ Holding(r) /\ ~Holding(r)' /\ UNCHANGED <<month, batch, payload, start>>
      /\ claim'[batch[r]] = [status |-> "completed", since |-> start[r], payload |-> payload[r]]
      /\ \A b \in Batch \ {batch[r]} : claim'[b] = claim[b]
  BY DEF Commit, Goto, Holding, Stored, TypeOK
<1>2. ledger' = IF Size[batch[r]] = 0 THEN ledger
                ELSE ledger \cup {[call |-> r, batch |-> batch[r], payload |-> payload[r],
                                   period |-> start[r], quantity |-> Size[batch[r]]]}
  BY DEF Commit, meter
<1>3. claim'[batch[r]] \in Row
  BY <1>1, IngestAssumption DEF TypeOK, Row, Month
<1> QED
  BY <1>1, <1>2, <1>3, IngestAssumption

\* Only the commit of a batch and the retention worker touch a claim.
LEMMA ClaimMoves ==
  ASSUME [Next]_vars
  PROVE  \/ UNCHANGED <<claim, ledger>>
         \/ \E r \in Call : Commit(r)
         \/ \E b \in Batch : RetentionDeletes(b)
<1>1. ASSUME NEW r \in Call, Serve(r), ~Commit(r) PROVE UNCHANGED <<claim, ledger>>
  BY <1>1 DEF Serve, Begin, Claim, FindBusy, Meter, RejectOverLimit, SkipMeter,
              RecordWarnings, LoseWarnings, Abort, meter
<1>2. CASE Elsewhere
  BY <1>2, ElsewhereFrame DEF Elsewhere, NextMonth, Finished, vars
<1> QED
  BY <1>1, <1>2, Steps, ReconfigureFrame

LEMMA MonthMoves ==
  ASSUME TypeOK, [Next]_vars
  PROVE  month' \in Nat /\ month <= month'
<1>1. ASSUME month' \in {month, month + 1} PROVE month' \in Nat /\ month <= month'
  BY <1>1, TypeFacts
<1>2. CASE Elsewhere
  BY <1>1, <1>2 DEF Elsewhere, NextMonth, RetentionDeletes, Finished, vars
<1> QED
  BY <1>1, <1>2, Steps, ServeFrame, ReconfigureFrame

LEMMA LedgerNext ==
  TypeOK /\ TimeInv /\ LedgerInv /\ FreshInv /\ [Next]_vars => LedgerInv'
<1> SUFFICES ASSUME TypeOK, TimeInv, LedgerInv, FreshInv, [Next]_vars, NEW e \in ledger'
             PROVE  /\ e.period <= month'
                    /\ claim'[e.batch] = NoClaim => e.period < month' /\ e.batch \notin Backfills
                    /\ claim'[e.batch] # NoClaim =>
                         /\ claim'[e.batch].status = "completed"
                         /\ e.period <= claim'[e.batch].since
                         /\ e.batch \in Backfills => claim'[e.batch].payload = e.payload
  BY DEF LedgerInv
<1>1. month' \in Nat /\ month \in Nat /\ month <= month'
  BY MonthMoves, TypeFacts
<1>2. \A f \in ledger : f.period \in Nat /\ f.batch \in Batch
  BY TypeFacts DEF TypeOK
<1>3. CASE UNCHANGED <<claim, ledger>>
  BY <1>1, <1>2, <1>3 DEF LedgerInv
<1>4. ASSUME NEW r \in Call, Commit(r)
      PROVE  /\ e.period <= month'
             /\ claim'[e.batch] = NoClaim => e.period < month' /\ e.batch \notin Backfills
             /\ claim'[e.batch] # NoClaim =>
                  /\ claim'[e.batch].status = "completed"
                  /\ e.period <= claim'[e.batch].since
                  /\ e.batch \in Backfills => claim'[e.batch].payload = e.payload
  <2>1. start[r] \in Nat /\ start[r] <= month /\ batch[r] \in Batch
    BY TypeFacts DEF TimeInv
  <2>2. month' = month /\ Holding(r) /\ claim'[batch[r]] # NoClaim
    BY <1>4, CommitWrites
  <2>3. /\ claim'[batch[r]].status = "completed" /\ claim'[batch[r]].since = start[r]
        /\ claim'[batch[r]].payload = payload[r]
    <3>1. claim'[batch[r]] = [status |-> "completed", since |-> start[r], payload |-> payload[r]]
      BY <1>4, CommitWrites
    <3> QED
      BY <3>1
  <2>4. CASE e \in ledger /\ e.batch # batch[r]
    <3>1. claim'[e.batch] = claim[e.batch]
      BY <1>2, <1>4, <2>4, CommitWrites
    <3> QED
      BY <1>2, <2>1, <2>2, <2>4, <3>1 DEF LedgerInv
  <2>5. CASE e \in ledger /\ e.batch = batch[r]
    <3>1. e.period < start[r] /\ e.batch \notin Backfills
      BY <2>2, <2>5 DEF FreshInv, Fresh
    <3>2. claim'[e.batch] = claim'[batch[r]] /\ e.period \in Nat
      BY <1>2, <2>5
    <3>3. e.period <= start[r] /\ e.period <= month'
      BY <2>1, <2>2, <3>1, <3>2, TypeFacts
    <3>4. claim'[e.batch].status = "completed" /\ claim'[e.batch].since = start[r]
      BY <2>3, <3>2
    <3> QED
      BY <2>2, <3>1, <3>2, <3>3, <3>4
  <2>6. CASE e \notin ledger
    <3>1. e = [call |-> r, batch |-> batch[r], payload |-> payload[r],
               period |-> start[r], quantity |-> Size[batch[r]]]
      BY <1>4, <2>6, CommitWrites
    <3>2. e.batch = batch[r] /\ e.period = start[r] /\ e.payload = payload[r]
      BY <3>1
    <3> QED
      BY <2>1, <2>2, <2>3, <3>2
  <2> QED
    BY <2>4, <2>5, <2>6
<1>5. ASSUME NEW b \in Batch, RetentionDeletes(b)
      PROVE  /\ e.period <= month'
             /\ claim'[e.batch] = NoClaim => e.period < month' /\ e.batch \notin Backfills
             /\ claim'[e.batch] # NoClaim =>
                  /\ claim'[e.batch].status = "completed"
                  /\ e.period <= claim'[e.batch].since
                  /\ e.batch \in Backfills => claim'[e.batch].payload = e.payload
  <2>1. UNCHANGED <<month, ledger>> /\ b \notin Backfills /\ claim[b] # NoClaim
        /\ claim' = [claim EXCEPT ![b] = NoClaim] /\ claim[b].since < month
    BY <1>5 DEF RetentionDeletes, meter, Expirable
  <2>2. CASE e.batch = b
    <3>1. claim[b].since \in Nat
      BY <2>1 DEF TypeOK, Row
    <3> QED
      BY <1>2, <1>1, <2>1, <2>2, <3>1 DEF LedgerInv, TypeOK
  <2>3. CASE e.batch # b
    BY <1>2, <2>1, <2>3 DEF LedgerInv, TypeOK
  <2> QED
    BY <2>2, <2>3
<1> QED
  BY <1>3, <1>4, <1>5, ClaimMoves

\* A call that has just begun, or is told of a missing claim, looks for it.
LEMMA BegunBegins ==
  ASSUME TypeOK, [Next]_vars, NEW r \in Call, pc'[r] = "begun"
  PROVE  \/ start'[r] = month /\ month' = month
         \/ pc[r] = "begun" /\ batch'[r] = batch[r] /\ start'[r] = start[r]
<1>1. CASE Serve(r)
  <2>1. ASSUME NEW answer \in Answer, Respond(r, answer) PROVE FALSE
    BY <1>1, <2>1 DEF Respond, TypeOK, Answer
  <2>2. CASE \E b \in Batch : \E p \in Sendable(b) : Begin(r, b, p)
    BY <2>2 DEF Begin, TypeOK
  <2>3. CASE Claim(r)
    <3>1. Goto(r, "begun", "claimed") \/ \E answer \in Answer : Respond(r, answer)
      BY <2>3 DEF Claim, Verdict, Answer
    <3> QED
      BY <2>1, <3>1 DEF Goto, TypeOK
  <2>4. CASE Meter(r) \/ SkipMeter(r) \/ Commit(r)
    BY <2>4 DEF Meter, SkipMeter, Commit, Goto, TypeOK
  <2>5. CASE FindBusy(r) \/ RejectOverLimit(r) \/ RecordWarnings(r) \/ LoseWarnings(r) \/ Abort(r)
    BY <2>1, <2>5 DEF FindBusy, RejectOverLimit, RecordWarnings, LoseWarnings, Abort, Answer
  <2> QED
    BY <1>1, <2>2, <2>3, <2>4, <2>5 DEF Serve
<1>2. CASE SameCall(r)
  BY <1>2 DEF SameCall
<1>3. ASSUME NEW q \in Call, q # r, Serve(q) PROVE SameCall(r)
  BY <1>3, ServeIsLocal
<1>4. CASE \E c \in Change : Reconfigure(c)
  BY <1>4, ReconfigureFrame, <1>2 DEF SameCall, call
<1>5. CASE Elsewhere
  BY <1>5, ElsewhereFrame, <1>2 DEF SameCall, call
<1> QED
  BY <1>1, <1>2, <1>3, <1>4, <1>5, Steps

\* The ledger gains a batch only from the call that holds its id.
LEMMA LedgerGains ==
  ASSUME TypeOK, [Next]_vars, NEW e \in ledger', e \notin ledger
  PROVE  \E r \in Call :
           /\ Commit(r) /\ Holding(r) /\ ~Holding(r)'
           /\ e.batch = batch[r] /\ e.period = start[r] /\ e.payload = payload[r]
<1>1. PICK r \in Call : Commit(r)
  BY UsageMoves
<1>2. e = [call |-> r, batch |-> batch[r], payload |-> payload[r],
           period |-> start[r], quantity |-> Size[batch[r]]]
  BY <1>1, CommitWrites
<1>3. e.batch = batch[r] /\ e.period = start[r] /\ e.payload = payload[r]
  BY <1>2
<1> QED
  BY <1>1, <1>3, CommitWrites

LEMMA FreshNext ==
  TypeOK /\ TimeInv /\ BatchLock /\ LedgerInv /\ LedgerInv' /\ FreshInv /\ [Next]_vars => FreshInv'
<1> SUFFICES ASSUME TypeOK, TimeInv, BatchLock, LedgerInv, LedgerInv', FreshInv, [Next]_vars,
                    NEW r \in Call, NEW e \in ledger', e.batch = batch'[r],
                    Holding(r)' \/ (pc'[r] = "begun" /\ claim'[batch'[r]] = NoClaim)
             PROVE  e.period < start'[r] /\ e.batch \notin Backfills
  BY DEF FreshInv, Fresh
<1>1. CASE Holding(r)'
  <2>1. CASE Claim(r) /\ UNCHANGED <<batch, payload, start>>
    <3>1. Fresh(r)
      BY <1>1, <2>1, ClaimIsFresh
    <3>2. e \in ledger
      <4>1. UNCHANGED ledger
        BY <2>1 DEF Claim, meter
      <4> QED
        BY <4>1
    <3> QED
      BY <2>1, <3>1, <3>2 DEF Fresh
  <2>2. CASE Holding(r) /\ batch'[r] = batch[r] /\ start'[r] = start[r]
    <3>1. e \in ledger
      BY <1>1, <2>2, LedgerGains DEF BatchLock
    <3> QED
      BY <2>2, <3>1 DEF FreshInv, Fresh
  <2> QED
    BY <1>1, <2>1, <2>2, HoldingBegins
<1>2. CASE pc'[r] = "begun" /\ claim'[batch'[r]] = NoClaim
  <2>1. e.period < month' /\ e.batch \notin Backfills
    BY <1>2 DEF LedgerInv
  <2>2. CASE start'[r] = month /\ month' = month
    BY <2>1, <2>2
  <2>3. CASE pc[r] = "begun" /\ batch'[r] = batch[r] /\ start'[r] = start[r]
    <3>1. CASE claim[batch[r]] = NoClaim /\ e \in ledger
      BY <2>3, <3>1 DEF FreshInv, Fresh
    <3>2. ASSUME claim[batch[r]] # NoClaim PROVE start[r] = month /\ month' = month
      <4>1. batch[r] \in Batch
        BY DEF TypeOK
      <4>2. ~ UNCHANGED claim
        BY <1>2, <2>3, <3>2
      <4>3. ASSUME NEW q \in Call, Commit(q) PROVE FALSE
        BY <1>2, <2>3, <3>2, <4>1, <4>3, CommitWrites
      <4>4. ASSUME NEW b \in Batch, RetentionDeletes(b) PROVE start[r] = month /\ month' = month
        BY <1>2, <2>3, <3>2, <4>1, <4>4 DEF RetentionDeletes, TypeOK
      <4> QED
        BY <4>2, <4>3, <4>4, ClaimMoves
    <3>3. ASSUME claim[batch[r]] = NoClaim, e \notin ledger PROVE FALSE
      <4>1. PICK q \in Call : Commit(q) /\ e.batch = batch[q]
        BY <3>3, LedgerGains
      <4> QED
        BY <1>2, <2>3, <4>1, CommitWrites
    <3> QED
      BY <2>1, <2>3, <3>1, <3>2, <3>3
  <2> QED
    BY <1>2, <2>1, <2>2, <2>3, BegunBegins
<1> QED
  BY <1>1, <1>2

LEMMA StoredOnceNext ==
  TypeOK /\ FreshInv /\ StoredOnce /\ [Next]_vars => StoredOnce'
<1> SUFFICES ASSUME TypeOK, FreshInv, StoredOnce, [Next]_vars,
                    NEW e \in ledger', NEW f \in ledger', e.batch = f.batch,
                    e.period = f.period \/ e.batch \in Backfills
             PROVE  e = f
  BY DEF StoredOnce
<1>1. CASE e \in ledger /\ f \in ledger
  BY <1>1 DEF StoredOnce
<1>2. ASSUME NEW g \in ledger', NEW h \in ledger, g \notin ledger, g.batch = h.batch
      PROVE  h.period < g.period /\ g.batch \notin Backfills
  BY <1>2, LedgerGains DEF FreshInv, Fresh
<1>3. \A h \in ledger : h.period \in Nat
  BY TypeFacts DEF TypeOK
<1>4. CASE e \notin ledger /\ f \in ledger
  BY <1>2, <1>3, <1>4
<1>5. CASE e \in ledger /\ f \notin ledger
  BY <1>2, <1>3, <1>5
<1>6. CASE e \notin ledger /\ f \notin ledger
  <2>1. PICK r \in Call : Commit(r)
    BY <1>6, UsageMoves
  <2> DEFINE new == [call |-> r, batch |-> batch[r], payload |-> payload[r],
                     period |-> start[r], quantity |-> Size[batch[r]]]
  <2>2. ledger' = ledger \/ ledger' = ledger \cup {new}
    BY <2>1, CommitWrites
  <2> QED
    BY <1>6, <2>2
<1> QED
  BY <1>1, <1>4, <1>5, <1>6

LEMMA OnceInit == Init => OnceInv
BY DEF Init, OnceInv, BatchLock, LedgerInv, FreshInv, Fresh, StoredOnce, Holding, Stored

LEMMA OnceNext == TypeInv /\ TimeInv /\ OnceInv /\ [Next]_vars => OnceInv'
BY BatchLockNext, LedgerNext, FreshNext, StoredOnceNext DEF OnceInv, TypeInv

\* A batch is stored at most once in a month, a backfill once for ever, whatever
\* is retried, lost after its commit, reclaimed or removed by retention.
THEOREM BatchesAreStoredOnce == Spec => []StoredOnce
<1>1. OnceInv => StoredOnce
  BY DEF OnceInv
<1> QED
  BY <1>1, TypeInvInit, TypeInvNext, LimitInit, TimeNext, OnceInit, OnceNext, PTL DEF Spec

-----------------------------------------------------------------------------
(* Acknowledgements.                                                       *)

StoredIn(rows, b, p) ==
  \E e \in rows : e.batch = b /\ (b \in Backfills => e.payload = p)

\* A completed claim stands for stored events.
CompletedInv ==
  \A b \in Batch : claim[b] # NoClaim =>
    /\ b \in Backfills => claim[b].status = "completed"
    /\ claim[b].status = "completed" /\ Size[b] > 0 => StoredIn(ledger, b, claim[b].payload)

AckInv ==
  \A r \in Call :
    pc[r] \in {"committed", "accepted", "duplicate"} /\ Size[batch[r]] > 0 =>
      StoredIn(ledger, batch[r], payload[r])

LEMMA StoredStays ==
  ASSUME TypeOK, [Next]_vars, NEW b, NEW p, StoredIn(ledger, b, p)
  PROVE  StoredIn(ledger', b, p)
<1>1. ledger \subseteq ledger'
  BY UsageMoves, CommitWrites
<1> QED
  BY <1>1 DEF StoredIn

\* After the commit of a batch with billable events it is stored.
LEMMA CommitStores ==
  ASSUME TypeOK, NEW r \in Call, Commit(r), Size[batch[r]] > 0
  PROVE  StoredIn(ledger', batch[r], payload[r])
<1> DEFINE e == [call |-> r, batch |-> batch[r], payload |-> payload[r],
                 period |-> start[r], quantity |-> Size[batch[r]]]
<1>1. ledger' = ledger \cup {e}
  <2>1. Size[batch[r]] # 0
    BY TypeFacts
  <2>2. ledger' = IF Size[batch[r]] = 0 THEN ledger ELSE ledger \cup {e}
    BY CommitWrites
  <2> QED
    BY <2>1, <2>2
<1>2. e.batch = batch[r] /\ e.payload = payload[r]
  OBVIOUS
<1> QED
  BY <1>1, <1>2 DEF StoredIn

LEMMA CompletedNext == TypeOK /\ CompletedInv /\ [Next]_vars => CompletedInv'
<1> SUFFICES ASSUME TypeOK, CompletedInv, [Next]_vars, NEW b \in Batch, claim'[b] # NoClaim
             PROVE  /\ b \in Backfills => claim'[b].status = "completed"
                    /\ claim'[b].status = "completed" /\ Size[b] > 0 =>
                         StoredIn(ledger', b, claim'[b].payload)
  BY DEF CompletedInv, StoredIn
<1>1. CASE claim'[b] = claim[b]
  BY <1>1, StoredStays DEF CompletedInv
<1>2. ASSUME NEW r \in Call, Commit(r), b = batch[r]
      PROVE  /\ claim'[b].status = "completed"
             /\ Size[b] > 0 => StoredIn(ledger', b, claim'[b].payload)
  <2>1. claim'[b] = [status |-> "completed", since |-> start[r], payload |-> payload[r]]
        /\ UNCHANGED <<batch, payload>>
    BY <1>2, CommitWrites
  <2>2. claim'[b].status = "completed" /\ claim'[b].payload = payload[r]
    BY <2>1
  <2>3. Size[b] > 0 => StoredIn(ledger', batch[r], payload[r])
    BY <1>2, CommitStores
  <2> QED
    BY <1>2, <2>1, <2>2, <2>3 DEF StoredIn
<1>3. ASSUME NEW r \in Call, Commit(r), b # batch[r] PROVE claim'[b] = claim[b]
  BY <1>3, CommitWrites
<1>4. ASSUME NEW c \in Batch, RetentionDeletes(c) PROVE claim'[b] = claim[b]
  BY <1>4 DEF RetentionDeletes, TypeOK
<1> QED
  BY <1>1, <1>2, <1>3, <1>4, ClaimMoves

\* A call that finds a duplicate finds a completed claim, of its own payload.
LEMMA DuplicateIsCompleted ==
  ASSUME TypeOK, CompletedInv, NEW r \in Call, Claim(r), pc'[r] = "duplicate"
  PROVE  /\ batch'[r] = batch[r] /\ payload'[r] = payload[r] /\ batch[r] \in Batch
         /\ claim[batch[r]] # NoClaim /\ claim[batch[r]].status = "completed"
         /\ batch[r] \in Backfills => claim[batch[r]].payload = payload[r]
<1> DEFINE b == batch[r]
<1>0. b \in Batch
  BY DEF TypeOK
<1>1. PICK expired \in BOOLEAN :
        LET verdict == Verdict(batch[r], payload[r], expired) IN
        IF verdict = "claimed"
        THEN Goto(r, "begun", "claimed") /\ UNCHANGED <<batch, payload, start, crossed>>
        ELSE Respond(r, verdict)
  BY DEF Claim, Expirations
<1>2. Verdict(b, payload[r], expired) = "duplicate" /\ Respond(r, "duplicate")
  BY <1>1 DEF Goto, Respond, TypeOK
<1>3. claim[b] # NoClaim
  BY <1>2 DEF Verdict
<1>4. claim[b].status = "completed" /\ (b \in Backfills => claim[b].payload = payload[r])
  <2>1. CASE b \in Backfills
    BY <1>0, <1>2, <1>3, <2>1, BackfillVerdict DEF CompletedInv
  <2>2. CASE b \notin Backfills
    <3>1. claim[b].status \in {"completed", "processing", "failed"}
      BY <1>0, <1>3 DEF TypeOK, Row
    <3> QED
      BY <1>0, <1>2, <1>3, <2>2, <3>1, IngestVerdict
  <2> QED
    BY <2>1, <2>2
<1> QED
  BY <1>0, <1>2, <1>3, <1>4 DEF Respond

\* An answer is given by a commit, a record of warnings or a claim that is there.
LEMMA AnswerBegins ==
  ASSUME TypeOK, [Next]_vars, NEW r \in Call, pc'[r] \in {"committed", "accepted", "duplicate"}
  PROVE  \/ Commit(r)
         \/ Claim(r) /\ pc'[r] = "duplicate"
         \/ /\ pc[r] \in {"committed", "accepted", "duplicate"}
            /\ batch'[r] = batch[r] /\ payload'[r] = payload[r]
<1>1. CASE Serve(r)
  <2>1. CASE (\E b \in Batch : \E p \in Sendable(b) : Begin(r, b, p)) \/ Meter(r) \/ SkipMeter(r)
    BY <2>1 DEF Begin, Meter, SkipMeter, Goto, TypeOK
  <2>2. CASE Claim(r)
    <3>1. Goto(r, "begun", "claimed") \/ Respond(r, "refused") \/ Respond(r, "duplicate")
      BY <2>2 DEF Claim, Verdict
    <3> QED
      BY <2>2, <3>1 DEF Goto, Respond, TypeOK
  <2>3. CASE RecordWarnings(r) \/ LoseWarnings(r)
    BY <2>3 DEF RecordWarnings, LoseWarnings, Respond, TypeOK
  <2>4. CASE FindBusy(r) \/ RejectOverLimit(r) \/ Abort(r)
    BY <2>4 DEF FindBusy, RejectOverLimit, Abort, Respond, TypeOK
  <2> QED
    BY <1>1, <2>1, <2>2, <2>3, <2>4 DEF Serve
<1>2. CASE SameCall(r)
  BY <1>2 DEF SameCall
<1>3. ASSUME NEW q \in Call, q # r, Serve(q) PROVE SameCall(r)
  BY <1>3, ServeIsLocal
<1>4. CASE \E c \in Change : Reconfigure(c)
  BY <1>4, ReconfigureFrame, <1>2 DEF SameCall, call
<1>5. CASE Elsewhere
  BY <1>5, ElsewhereFrame, <1>2 DEF SameCall, call
<1> QED
  BY <1>1, <1>2, <1>3, <1>4, <1>5, Steps

LEMMA AckNext == TypeOK /\ CompletedInv /\ AckInv /\ [Next]_vars => AckInv'
<1> SUFFICES ASSUME TypeOK, CompletedInv, AckInv, [Next]_vars, NEW r \in Call,
                    pc'[r] \in {"committed", "accepted", "duplicate"}, Size[batch'[r]] > 0
             PROVE  StoredIn(ledger', batch'[r], payload'[r])
  BY DEF AckInv, StoredIn
<1>1. CASE Commit(r)
  <2>1. UNCHANGED <<batch, payload>>
    BY <1>1, CommitWrites
  <2> QED
    BY <1>1, <2>1, CommitStores DEF StoredIn
<1>2. CASE Claim(r) /\ pc'[r] = "duplicate"
  <2>1. StoredIn(ledger, batch[r], payload[r])
    BY <1>2, DuplicateIsCompleted DEF CompletedInv, StoredIn
  <2> QED
    BY <1>2, <2>1, DuplicateIsCompleted, StoredStays DEF StoredIn
<1>3. CASE /\ pc[r] \in {"committed", "accepted", "duplicate"}
           /\ batch'[r] = batch[r] /\ payload'[r] = payload[r]
  BY <1>3, StoredStays DEF AckInv, StoredIn
<1> QED
  BY <1>1, <1>2, <1>3, AnswerBegins

LEMMA AckInit == Init => CompletedInv /\ AckInv
<1> SUFFICES ASSUME Init PROVE CompletedInv /\ AckInv
  OBVIOUS
<1>1. ASSUME NEW b \in Batch, claim[b] # NoClaim
      PROVE  b \notin Backfills /\ claim[b].status \in {"processing", "failed"}
  BY <1>1, IngestAssumption DEF Init, OldRow
<1> QED
  BY <1>1 DEF Init, CompletedInv, AckInv

\* Who is told that a batch was accepted, or that it is a duplicate, can rely on
\* its events being stored, and a backfill on the payload that was sent.
THEOREM AcknowledgedBatchesAreStored == Spec => []AcknowledgedIsStored
<1>1. AckInv => AcknowledgedIsStored
  BY DEF AckInv, AcknowledgedIsStored, StoredIn
<1> QED
  BY <1>1, TypeInvInit, TypeInvNext, AckInit, CompletedNext, AckNext, PTL DEF Spec, TypeInv

-----------------------------------------------------------------------------
(* Sums over finite sets of rows.                                          *)

\* Induction over the numbers, about a set instead of a predicate.
LEMMA SetInduction ==
  ASSUME NEW S \in SUBSET Nat, 0 \in S, \A n \in S : n + 1 \in S
  PROVE  S = Nat
<1> SUFFICES ASSUME Nat \ S # {}
             PROVE  FALSE
  OBVIOUS
<1> DEFINE T == Nat \ S
<1>1. IsWellFoundedOn(OpToRel(<, Nat), Nat)
  BY NatLessThanWellFounded, Zenon
<1>2. PICK x \in T : \A y \in T : ~(<<y, x>> \in OpToRel(<, Nat))
  <2> HIDE DEF T
  <2>1. T \subseteq Nat /\ T # {}
    BY DEF T
  <2> QED
    BY <1>1, <2>1, WFMin, Zenon
<1>3. \A y \in T : ~(y < x)
  BY <1>2 DEF OpToRel
<1> QED
  BY <1>3

\* The sum of the weights of the elements of a set, taken out one by one.
Some(s) == CHOOSE x \in s : TRUE
IsSum(w, g, S) ==
  g = [s \in SUBSET S |-> IF s = {} THEN 0 ELSE w[Some(s)] + g[s \ {Some(s)}]]
SumOver(w, S) == CHOOSE g : IsSum(w, g, S)
Total(w, S) == SumOver(w, S)[S]

\* Sets of n rows.
Sized(S, n) == IsFiniteSet(S) /\ Cardinality(S) = n

LEMMA SizedSets ==
  ASSUME NEW S, NEW n \in Nat
  PROVE  /\ Sized(S, 0) <=> S = {}
         /\ Sized(S, n + 1) => S # {}
         /\ \A x \in S : Sized(S, n + 1) => Sized(S \ {x}, n)
<1>1. Sized(S, 0) <=> S = {}
  BY FS_EmptySet DEF Sized
<1>2. Sized(S, n + 1) => S # {}
  BY FS_EmptySet DEF Sized
<1>3. ASSUME NEW x \in S, Sized(S, n + 1) PROVE Sized(S \ {x}, n)
  BY <1>3, FS_RemoveElement DEF Sized
<1> QED
  BY <1>1, <1>2, <1>3

LEMMA SomeOf == \A s : s # {} => Some(s) \in s
BY DEF Some

LEMMA SumAt ==
  ASSUME NEW w, NEW S, NEW g, IsSum(w, g, S), NEW s \in SUBSET S
  PROVE  g[s] = IF s = {} THEN 0 ELSE w[Some(s)] + g[s \ {Some(s)}]
<1> DEFINE f == [t \in SUBSET S |-> IF t = {} THEN 0 ELSE w[Some(t)] + g[t \ {Some(t)}]]
<1>1. g = f
  BY DEF IsSum
<1>2. f[s] = IF s = {} THEN 0 ELSE w[Some(s)] + g[s \ {Some(s)}]
  OBVIOUS
<1> QED
  BY <1>1, <1>2

LEMMA SumOfNone ==
  ASSUME NEW w, NEW S, NEW g, IsSum(w, g, S)
  PROVE  g[{}] = 0
<1>1. {} \in SUBSET S
  OBVIOUS
<1> QED
  BY <1>1, SumAt

\* Two such functions agree on every finite set that both are defined on.
LEMMA SumsAgree ==
  ASSUME NEW w, NEW S, NEW R, NEW g, NEW h, IsSum(w, g, S), IsSum(w, h, R),
         NEW n \in Nat, NEW s \in SUBSET (S \cap R), Sized(s, n)
  PROVE  g[s] = h[s]
<1> DEFINE I == {k \in Nat : \A t \in SUBSET (S \cap R) : Sized(t, k) => g[t] = h[t]}
<1>1. 0 \in I
  <2>1. g[{}] = 0 /\ h[{}] = 0
    BY SumOfNone
  <2> QED
    BY <2>1, SizedSets
<1>2. ASSUME NEW k \in I PROVE k + 1 \in I
  <2> SUFFICES ASSUME NEW t \in SUBSET (S \cap R), Sized(t, k + 1) PROVE g[t] = h[t]
    OBVIOUS
  <2>1. t # {} /\ Sized(t \ {Some(t)}, k)
    BY SizedSets, SomeOf
  <2>2. g[t \ {Some(t)}] = h[t \ {Some(t)}]
    BY <2>1
  <2> QED
    BY <2>1, <2>2, SumAt
<1>3. I = Nat
  <2> HIDE DEF I
  <2>1. I \in SUBSET Nat
    BY DEF I
  <2> QED
    BY <1>1, <1>2, <2>1, SetInduction
<1> QED
  BY <1>3

\* Over a finite set there is one.
LEMMA SumExists ==
  ASSUME NEW w, NEW n \in Nat, NEW S, Sized(S, n)
  PROVE  IsSum(w, SumOver(w, S), S)
<1> DEFINE I == {k \in Nat : \A m \in 0 .. k : \A T : Sized(T, m) => IsSum(w, SumOver(w, T), T)}
<1>1. 0 \in I
  <2> SUFFICES ASSUME NEW T, T = {} PROVE IsSum(w, SumOver(w, T), T)
    BY SizedSets
  <2> DEFINE g == [s \in SUBSET T |-> 0]
  <2>1. IsSum(w, g, T)
    BY DEF IsSum
  <2> QED
    BY <2>1 DEF SumOver
<1>2. ASSUME NEW k \in I PROVE k + 1 \in I
  <2> SUFFICES ASSUME NEW T, Sized(T, k + 1) PROVE IsSum(w, SumOver(w, T), T)
    OBVIOUS
  <2> DEFINE Rest(s) == s \ {Some(s)}
             g == [s \in SUBSET T |-> IF s = {} THEN 0
                     ELSE w[Some(s)] + SumOver(w, Rest(s))[Rest(s)]]
  <2>1. ASSUME NEW s \in SUBSET T, s # {}
        PROVE  \E m \in 0 .. k : Sized(Rest(s), m)
    <3>1. IsFiniteSet(s) /\ Cardinality(s) \in 1 .. k + 1
      BY <2>1, FS_Subset, FS_CardinalityType, FS_EmptySet DEF Sized
    <3>2. Cardinality(s) - 1 \in 0 .. k /\ Sized(s, (Cardinality(s) - 1) + 1)
      BY <3>1 DEF Sized
    <3>3. Sized(Rest(s), Cardinality(s) - 1)
      BY <2>1, <3>2, SomeOf, SizedSets
    <3> QED
      BY <3>2, <3>3
  <2>2. ASSUME NEW s \in SUBSET T, s # {} PROVE g[Rest(s)] = SumOver(w, Rest(s))[Rest(s)]
    <3> DEFINE r == Rest(s)
    <3>1. PICK m \in 0 .. k : Sized(r, m)
      BY <2>1, <2>2
    <3>2. IsSum(w, SumOver(w, r), r)
      BY <3>1
    <3>3. CASE r = {}
      <4>1. SumOver(w, r)[{}] = 0
        BY <3>2, SumOfNone
      <4> QED
        BY <3>3, <4>1
    <3>4. CASE r # {}
      <4>1. PICK j \in 0 .. k : Sized(Rest(r), j)
        BY <2>1, <3>4
      <4>2. IsSum(w, SumOver(w, Rest(r)), Rest(r))
        BY <4>1
      <4>3. SumOver(w, r)[Rest(r)] = SumOver(w, Rest(r))[Rest(r)]
        <5>1. Rest(r) \in SUBSET (r \cap Rest(r)) /\ j \in Nat
          OBVIOUS
        <5> HIDE DEF r, Rest
        <5> QED
          BY <3>2, <4>1, <4>2, <5>1, SumsAgree
      <4>4. SumOver(w, r)[r] = w[Some(r)] + SumOver(w, r)[Rest(r)]
        <5>1. r \in SUBSET r
          OBVIOUS
        <5> HIDE DEF r
        <5> QED
          BY <3>2, <3>4, <5>1, SumAt
      <4> QED
        BY <3>4, <4>3, <4>4
    <3> QED
      BY <3>3, <3>4
  <2>3. IsSum(w, g, T)
    <3> SUFFICES g = [s \in SUBSET T |-> IF s = {} THEN 0 ELSE w[Some(s)] + g[Rest(s)]]
      BY DEF IsSum
    <3> QED
      BY <2>2
  <2> QED
    BY <2>3 DEF SumOver
<1>3. I = Nat
  <2> HIDE DEF I
  <2>1. I \in SUBSET Nat
    BY DEF I
  <2> QED
    BY <1>1, <1>2, <2>1, SetInduction
<1> QED
  BY <1>3

LEMMA TotalOfNone == \A w : Total(w, {}) = 0
<1> SUFFICES ASSUME NEW w PROVE Total(w, {}) = 0
  OBVIOUS
<1>1. Sized({}, 0)
  BY SizedSets
<1>2. IsSum(w, SumOver(w, {}), {})
  BY <1>1, SumExists
<1> QED
  BY <1>2, SumOfNone DEF Total

LEMMA TotalOfSome ==
  ASSUME NEW w, NEW n \in Nat, NEW S, Sized(S, n + 1)
  PROVE  Total(w, S) = w[Some(S)] + Total(w, S \ {Some(S)})
<1> DEFINE R == S \ {Some(S)}
<1>1. S # {} /\ Sized(R, n)
  BY SizedSets, SomeOf
<1>2. IsSum(w, SumOver(w, S), S) /\ IsSum(w, SumOver(w, R), R)
  BY <1>1, SumExists
<1>3. SumOver(w, S)[S] = w[Some(S)] + SumOver(w, S)[R]
  BY <1>1, <1>2, SumAt
<1>4. SumOver(w, S)[R] = SumOver(w, R)[R]
  BY <1>1, <1>2, SumsAgree
<1> QED
  BY <1>3, <1>4 DEF Total

\* Finitely many rows of a ledger.
Counted(w, S) == IsFiniteSet(S) /\ \A e \in S : w[e] \in Nat

LEMMA TotalIsNat ==
  ASSUME NEW w, NEW S, Counted(w, S)
  PROVE  Total(w, S) \in Nat
<1> DEFINE I == {k \in Nat : \A T : Counted(w, T) /\ Sized(T, k) => Total(w, T) \in Nat}
<1>1. 0 \in I
  BY SizedSets, TotalOfNone
<1>2. ASSUME NEW k \in I PROVE k + 1 \in I
  <2> SUFFICES ASSUME NEW T, Counted(w, T), Sized(T, k + 1) PROVE Total(w, T) \in Nat
    OBVIOUS
  <2> DEFINE R == T \ {Some(T)}
  <2>1. Some(T) \in T /\ Sized(R, k)
    BY SizedSets, SomeOf
  <2>2. Counted(w, R)
    BY <2>1 DEF Counted, Sized
  <2>3. Total(w, R) \in Nat /\ w[Some(T)] \in Nat
    BY <2>1, <2>2 DEF Counted
  <2> QED
    BY <2>3, TotalOfSome
<1>3. I = Nat
  <2> HIDE DEF I
  <2>1. I \in SUBSET Nat
    BY DEF I
  <2> QED
    BY <1>1, <1>2, <2>1, SetInduction
<1>4. Cardinality(S) \in Nat /\ Sized(S, Cardinality(S))
  BY FS_CardinalityType DEF Counted, Sized
<1> QED
  BY <1>3, <1>4

\* Which row is taken out first does not matter.
LEMMA TotalWithout ==
  ASSUME NEW w, NEW S, Counted(w, S), NEW e \in S
  PROVE  Total(w, S) = Total(w, S \ {e}) + w[e]
<1> DEFINE I == {k \in Nat : \A T : Counted(w, T) /\ Sized(T, k + 1) =>
                   \A x \in T : Total(w, T) = Total(w, T \ {x}) + w[x]}
<1>0. ASSUME NEW T, Counted(w, T), NEW x \in T
      PROVE  Counted(w, T \ {x}) /\ Total(w, T \ {x}) \in Nat /\ w[x] \in Nat
  <2>1. Counted(w, T \ {x})
    BY <1>0, FS_Subset DEF Counted
  <2> QED
    BY <1>0, <2>1, TotalIsNat DEF Counted
<1>1. ASSUME NEW k \in Nat, NEW T, Counted(w, T), Sized(T, k + 1)
      PROVE  Total(w, T) = Total(w, T \ {Some(T)}) + w[Some(T)]
  <2>1. Some(T) \in T
    BY <1>1, SizedSets, SomeOf
  <2> DEFINE rest == Total(w, T \ {Some(T)})
             one == w[Some(T)]
  <2>2. rest \in Nat /\ one \in Nat
    BY <1>0, <1>1, <2>1
  <2>3. Total(w, T) = one + rest
    BY <1>1, TotalOfSome
  <2> HIDE DEF rest, one
  <2>4. Total(w, T) = rest + one
    BY <2>2, <2>3
  <2> QED
    BY <2>4 DEF rest, one
<1>2. 0 \in I
  <2> SUFFICES ASSUME NEW T, Counted(w, T), Sized(T, 0 + 1), NEW x \in T PROVE x = Some(T)
    BY <1>1
  <2>1. Some(T) \in T /\ Sized(T \ {Some(T)}, 0)
    BY SomeOf, SizedSets
  <2> QED
    BY <2>1, SizedSets
<1>3. ASSUME NEW k \in I PROVE k + 1 \in I
  <2> SUFFICES ASSUME NEW T, Counted(w, T), Sized(T, (k + 1) + 1), NEW x \in T
               PROVE  Total(w, T) = Total(w, T \ {x}) + w[x]
    OBVIOUS
  <2> DEFINE y == Some(T)
  <2>1. y \in T
    BY SomeOf
  <2>2. Sized(T \ {x}, k + 1) /\ Sized(T \ {y}, k + 1)
    BY <2>1, SizedSets
  <2>3. Counted(w, T \ {x}) /\ Counted(w, T \ {y})
    BY <1>0, <2>1
  <2>4. Total(w, T) = Total(w, T \ {y}) + w[y]
    <3>1. k + 1 \in Nat
      OBVIOUS
    <3> HIDE DEF I
    <3> QED
      BY <1>1, <3>1
  <2>5. CASE x = y
    BY <2>4, <2>5
  <2>6. CASE x # y
    <3>1. Total(w, T \ {y}) = Total(w, (T \ {y}) \ {x}) + w[x]
      BY <2>2, <2>3, <2>6
    <3>2. Total(w, T \ {x}) = Total(w, (T \ {x}) \ {y}) + w[y]
      BY <2>1, <2>2, <2>3, <2>6
    <3>3. (T \ {y}) \ {x} = (T \ {x}) \ {y}
      OBVIOUS
    <3>4. Total(w, (T \ {y}) \ {x}) \in Nat /\ w[x] \in Nat /\ w[y] \in Nat
      BY <1>0, <2>1, <2>3, <2>6
    <3> DEFINE rest == Total(w, (T \ {y}) \ {x})
               withX == Total(w, T \ {y})
               withY == Total(w, T \ {x})
    <3>5. withX = rest + w[x] /\ withY = rest + w[y]
      BY <3>1, <3>2, <3>3
    <3>6. Total(w, T) = withX + w[y]
      BY <2>4
    <3> HIDE DEF y, I, rest, withX, withY
    <3>7. rest \in Nat /\ w[x] \in Nat /\ w[y] \in Nat
      BY <3>4 DEF rest
    <3>8. Total(w, T) = withY + w[x]
      BY <3>5, <3>6, <3>7
    <3> QED
      BY <3>8 DEF withY
  <2> QED
    BY <2>5, <2>6
<1>4. I = Nat
  <2> HIDE DEF I
  <2>1. I \in SUBSET Nat
    BY DEF I
  <2>2. 0 \in I /\ \A n \in I : n + 1 \in I
    BY <1>2, <1>3
  <2> QED
    BY <2>1, <2>2, SetInduction
<1>5. Cardinality(S) - 1 \in Nat /\ Sized(S, (Cardinality(S) - 1) + 1)
  BY FS_CardinalityType, FS_EmptySet DEF Counted, Sized
<1> QED
  BY <1>4, <1>5

-----------------------------------------------------------------------------
(* The projection and the ledger.                                          *)

Charged(rows, m) == {e \in rows : e.period = m}

LedgerRow == [call : Call, batch : Batch, payload : Payload, period : Month,
              quantity : 1 .. MaxQuantity]
Quantity == [e \in LedgerRow |-> e.quantity]

\* The sum of UsageMatchesLedger, and its definition by folding.
Quantities(S) == MapThenSumSet(LAMBDA e : e.quantity, S)
IsQuantitySum(g, S) ==
  g = [s \in SUBSET S |-> IF s = {} THEN 0 ELSE Some(s).quantity + g[s \ {Some(s)}]]

LEMMA QuantitiesAreTotal ==
  ASSUME NEW S \in SUBSET LedgerRow, IsFiniteSet(S)
  PROVE  Quantities(S) = Total(Quantity, S)
<1> DEFINE f == CHOOSE g : IsQuantitySum(g, S)
<1>1. Quantities(S) = f[S]
  BY DEF Quantities, MapThenSumSet, MapThenFoldSet, IsQuantitySum, Some
<1>2. \A g : IsQuantitySum(g, S) <=> IsSum(Quantity, g, S)
  <2>1. ASSUME NEW s \in SUBSET S, s # {} PROVE Quantity[Some(s)] = Some(s).quantity
    BY <2>1, SomeOf DEF Quantity
  <2> QED
    BY <2>1 DEF IsQuantitySum, IsSum
<1>3. Cardinality(S) \in Nat /\ Sized(S, Cardinality(S))
  BY FS_CardinalityType DEF Sized
<1>4. IsSum(Quantity, SumOver(Quantity, S), S)
  BY <1>3, SumExists
<1>5. IsSum(Quantity, f, S)
  BY <1>2, <1>4
<1> HIDE DEF f
<1>6. f[S] = SumOver(Quantity, S)[S]
  BY <1>3, <1>4, <1>5, SumsAgree
<1> QED
  BY <1>1, <1>6 DEF Total

\* What each month is charged with; a ledger of finitely many rows has a sum.
UsageInv == IsFiniteSet(ledger) /\ \A m \in Month : usage[m] = Total(Quantity, Charged(ledger, m))

LEMMA UsageInit == Init => UsageInv
<1> SUFFICES ASSUME Init PROVE UsageInv
  OBVIOUS
<1>1. ledger = {} /\ IsFiniteSet(ledger)
  BY FS_EmptySet DEF Init
<1>2. \A m \in Month : usage[m] = 0 /\ Charged(ledger, m) = {}
  BY <1>1 DEF Init, Charged
<1> QED
  BY <1>1, <1>2, TotalOfNone DEF UsageInv

LEMMA ChargedIsCounted ==
  ASSUME TypeOK, NEW rows, IsFiniteSet(rows), NEW m,
         rows \subseteq LedgerRow
  PROVE  Charged(rows, m) \subseteq LedgerRow /\ Counted(Quantity, Charged(rows, m))
<1>1. IsFiniteSet(Charged(rows, m))
  BY FS_Subset DEF Charged
<1>2. \A e \in rows : Quantity[e] = e.quantity /\ e.quantity \in Nat
  BY IngestAssumption DEF LedgerRow, Quantity
<1> QED
  BY <1>1, <1>2 DEF Counted, Charged

\* A committed row is new: whatever its batch was charged before is of an earlier month.
LEMMA UsageNext == TypeInv /\ TypeInv' /\ OnceInv /\ UsageInv /\ [Next]_vars => UsageInv'
<1> SUFFICES ASSUME TypeInv, TypeInv', OnceInv, UsageInv, [Next]_vars PROVE UsageInv'
  OBVIOUS
<1>0. TypeOK /\ TypeOK' /\ FreshInv
  BY DEF TypeInv, OnceInv
<1>1. CASE UNCHANGED <<ledger, usage>>
  BY <1>1 DEF UsageInv
<1>2. ASSUME NEW r \in Call, Commit(r), Size[batch[r]] # 0 PROVE UsageInv'
  <2> DEFINE new == [call |-> r, batch |-> batch[r], payload |-> payload[r],
                     period |-> start[r], quantity |-> Size[batch[r]]]
  <2>1. ledger' = ledger \cup {new} /\ Holding(r)
    BY <1>0, <1>2, CommitWrites
  <2>2. start[r] \in Month /\ usage' = [usage EXCEPT ![start[r]] = usage[start[r]] + Size[batch[r]]]
    BY <1>0, <1>2, TypeFacts DEF Commit, AddUsage
  <2>3. new.period = start[r] /\ new.quantity = Size[batch[r]] /\ new.batch = batch[r]
    OBVIOUS
  <2>4. new \notin ledger
    <3>1. \A e \in ledger : e.batch = batch[r] => e.period < start[r]
      BY <1>0, <2>1 DEF FreshInv, Fresh
    <3>2. start[r] \in Nat
      BY <1>0, TypeFacts
    <3> HIDE DEF new
    <3> QED
      BY <2>3, <3>1, <3>2
  <2> HIDE DEF new
  <2>5. IsFiniteSet(ledger')
    BY <2>1, FS_AddElement DEF UsageInv
  <2>6. ASSUME NEW m \in Month PROVE usage'[m] = Total(Quantity, Charged(ledger', m))
    <3>1. CASE m # start[r]
      <4>1. Charged(ledger', m) = Charged(ledger, m)
        BY <2>1, <2>3, <3>1 DEF Charged
      <4>2. usage'[m] = usage[m]
        BY <1>0, <2>2, <3>1 DEF TypeOK
      <4> QED
        BY <4>1, <4>2 DEF UsageInv
    <3>2. CASE m = start[r]
      <4>1. new \in Charged(ledger', m) /\ Charged(ledger', m) \ {new} = Charged(ledger, m)
        BY <2>1, <2>3, <2>4, <3>2 DEF Charged
      <4>2. Counted(Quantity, Charged(ledger', m))
        BY <1>0, <2>5, ChargedIsCounted DEF TypeOK, LedgerRow
      <4>5. Quantity[new] = Size[batch[r]]
        BY <1>0, <2>1, <2>3 DEF TypeOK, LedgerRow, Quantity
      <4>3. Total(Quantity, Charged(ledger', m)) = Total(Quantity, Charged(ledger, m)) + Size[batch[r]]
        BY <4>1, <4>2, <4>5, TotalWithout
      <4>4. usage'[m] = usage[m] + Size[batch[r]]
        BY <1>0, <2>2, <3>2 DEF TypeOK
      <4> QED
        BY <4>3, <4>4 DEF UsageInv
    <3> QED
      BY <3>1, <3>2
  <2> QED
    BY <2>5, <2>6 DEF UsageInv
<1> QED
  BY <1>1, <1>2, UsageMoves

\* What a month is charged with is what its ledger rows add up to, whatever calls
\* retry, are rolled back, are claimed again or commit after their month has ended.
THEOREM UsageIsTheLedger == Spec => []UsageMatchesLedger
<1>1. TypeInv /\ UsageInv => UsageMatchesLedger
  <2> SUFFICES ASSUME TypeInv, UsageInv, NEW m \in Month
               PROVE  usage[m] = Quantities(Charged(ledger, m))
    BY DEF UsageMatchesLedger, Quantities, Charged
  <2>1. Charged(ledger, m) \in SUBSET LedgerRow /\ IsFiniteSet(Charged(ledger, m))
    BY ChargedIsCounted DEF TypeInv, TypeOK, UsageInv, LedgerRow, Counted
  <2> QED
    BY <2>1, QuantitiesAreTotal DEF UsageInv
<1> QED
  BY <1>1, TypeInvInit, TypeInvNext, LimitInit, TimeNext, OnceInit, OnceNext,
     UsageInit, UsageNext, PTL DEF Spec

-----------------------------------------------------------------------------
(* The properties as they are checked.                                     *)

\* An acknowledged batch is stored, and none is stored twice, for any calls, any
\* batches and any number of faults.
THEOREM BatchesAreKept == Spec => []BatchesAreStored
<1>1. StoredOnce /\ AcknowledgedIsStored => BatchesAreStored
  BY DEF BatchesAreStored
<1> QED
  BY <1>1, BatchesAreStoredOnce, AcknowledgedBatchesAreStored, PTL

\* No crossing of a threshold goes unrecorded and no change is made on a stale
\* reading, for any settings and any number of changes.
THEOREM ConfigurationIsKept == Spec => []ConfigurationHolds
<1>1. CrossingsAreRecorded /\ NoChangeIsLost => ConfigurationHolds
  BY DEF ConfigurationHolds
<1> QED
  BY <1>1, CrossingsAreKept, ChangesAreSeen, PTL

-----------------------------------------------------------------------------
(* The buffer in front of the store: the load of a set of calls.           *)

Loads == [c \in Caller |-> Load(c)]

LEMMA Largest ==
  ASSUME NEW n \in Nat, NEW S \in SUBSET (0 .. n), S # {}
  PROVE  Max(S) \in S /\ \A x \in S : x <= Max(S)
<1> DEFINE T == {m \in Nat : n - m \in S}
<1>1. T \in SUBSET Nat /\ T # {}
  <2>1. PICK x \in S : TRUE
    OBVIOUS
  <2>2. n - x \in Nat /\ n - (n - x) = x
    OBVIOUS
  <2> QED
    BY <2>2
<1>2. IsWellFoundedOn(OpToRel(<, Nat), Nat)
  BY NatLessThanWellFounded, Zenon
<1>3. PICK t \in T : \A y \in T : ~(<<y, t>> \in OpToRel(<, Nat))
  <2> HIDE DEF T
  <2> QED
    BY <1>1, <1>2, WFMin, Zenon
<1>4. \A y \in T : ~(y < t)
  <2> HIDE DEF T
  <2> QED
    BY <1>1, <1>3 DEF OpToRel
<1>5. n - t \in S /\ t \in Nat
  OBVIOUS
<1>6. ASSUME NEW y \in S PROVE n - t >= y
  <2>1. n - y \in Nat /\ n - (n - y) = y
    OBVIOUS
  <2>2. n - y \in T
    BY <2>1
  <2>3. ~(n - y < t)
    BY <1>4, <2>2
  <2> HIDE DEF T
  <2> QED
    BY <1>5, <2>1, <2>3
<1>7. \E x \in S : \A y \in S : x >= y
  BY <1>5, <1>6
<1> QED
  BY <1>7 DEF Max

LEMMA LoadFacts ==
  ASSUME NEW c \in Caller
  PROVE  /\ EventsOf[c] \in Nat /\ Load(c) \in Nat /\ Loads[c] = Load(c)
         /\ c \in Plain => Load(c) = EventsOf[c]
         /\ c \in Idempotent => Load(c) = Weight(c)
<1>1. EventsOf[c] \in Nat
  BY BufferAssumption
<1>2. Max({1, EventsOf[c]}) \in {1, EventsOf[c]}
  <2>1. {1, EventsOf[c]} \in SUBSET (0 .. EventsOf[c] + 1) /\ EventsOf[c] + 1 \in Nat
    BY <1>1
  <2> QED
    BY <2>1, Largest
<1>3. Weight(c) \in Nat
  BY <1>1, <1>2 DEF Weight
<1> QED
  BY <1>1, <1>3, BufferAssumption DEF Load, Loads, Caller

LEMMA CallersAreFinite ==
  ASSUME NEW S \in SUBSET Caller
  PROVE  IsFiniteSet(S) /\ Cardinality(S) \in Nat /\ Sized(S, Cardinality(S)) /\ Counted(Loads, S)
BY BufferAssumption, FS_Subset, FS_CardinalityType, LoadFacts DEF Sized, Counted

\* LoadOf, and its definition by folding.
IsLoadSum(g, S) ==
  g = [s \in SUBSET S |-> IF s = {} THEN 0 ELSE Load(Some(s)) + g[s \ {Some(s)}]]

LEMMA LoadOfIsTotal ==
  ASSUME NEW S \in SUBSET Caller
  PROVE  LoadOf(S) = Total(Loads, S)
<1> DEFINE f == CHOOSE g : IsLoadSum(g, S)
<1>1. LoadOf(S) = f[S]
  BY DEF LoadOf, MapThenSumSet, MapThenFoldSet, IsLoadSum, Some
<1>2. \A g : IsLoadSum(g, S) <=> IsSum(Loads, g, S)
  <2>1. ASSUME NEW s \in SUBSET S, s # {} PROVE Loads[Some(s)] = Load(Some(s))
    BY <2>1, SomeOf, LoadFacts
  <2> QED
    BY <2>1 DEF IsLoadSum, IsSum
<1>3. Cardinality(S) \in Nat /\ Sized(S, Cardinality(S))
  BY CallersAreFinite
<1>4. IsSum(Loads, SumOver(Loads, S), S)
  BY <1>3, SumExists
<1>5. IsSum(Loads, f, S)
  BY <1>2, <1>4
<1> HIDE DEF f
<1>6. f[S] = SumOver(Loads, S)[S]
  BY <1>3, <1>4, <1>5, SumsAgree
<1> QED
  BY <1>1, <1>6 DEF Total

LEMMA LoadOfNone == LoadOf({}) = 0
<1>1. {} \in SUBSET Caller
  OBVIOUS
<1> QED
  BY <1>1, LoadOfIsTotal, TotalOfNone

LEMMA LoadIsNat ==
  ASSUME NEW S \in SUBSET Caller
  PROVE  LoadOf(S) \in Nat
BY LoadOfIsTotal, CallersAreFinite, TotalIsNat

LEMMA LoadWith ==
  ASSUME NEW S \in SUBSET Caller, NEW c \in Caller, c \notin S
  PROVE  LoadOf(S \cup {c}) = LoadOf(S) + Load(c)
<1> DEFINE T == S \cup {c}
<1>1. T \in SUBSET Caller /\ c \in T /\ T \ {c} = S
  OBVIOUS
<1> HIDE DEF T
<1>2. Total(Loads, T) = Total(Loads, S) + Loads[c]
  BY <1>1, CallersAreFinite, TotalWithout
<1> QED
  BY <1>1, <1>2, LoadOfIsTotal, LoadFacts DEF T

LEMMA LoadUnion ==
  ASSUME NEW A \in SUBSET Caller, NEW B \in SUBSET Caller, A \cap B = {}
  PROVE  LoadOf(A \cup B) = LoadOf(A) + LoadOf(B)
<1> DEFINE I == {k \in Nat : \A T \in SUBSET Caller : Sized(T, k) /\ A \cap T = {}
                               => LoadOf(A \cup T) = LoadOf(A) + LoadOf(T)}
<1>1. 0 \in I
  <2> SUFFICES LoadOf(A \cup {}) = LoadOf(A) + LoadOf({})
    BY SizedSets
  <2>1. A \cup {} = A /\ LoadOf(A) \in Nat
    BY LoadIsNat
  <2> QED
    BY <2>1, LoadOfNone
<1>2. ASSUME NEW k \in I PROVE k + 1 \in I
  <2> SUFFICES ASSUME NEW T \in SUBSET Caller, Sized(T, k + 1), A \cap T = {}
               PROVE  LoadOf(A \cup T) = LoadOf(A) + LoadOf(T)
    OBVIOUS
  <2>1. PICK c \in T : TRUE
    BY SizedSets
  <2> DEFINE R == T \ {c}
  <2>2. R \in SUBSET Caller /\ Sized(R, k) /\ A \cap R = {} /\ c \in Caller
    BY SizedSets
  <2>3. LoadOf(A \cup R) = LoadOf(A) + LoadOf(R)
    BY <2>2
  <2>4. LoadOf(R \cup {c}) = LoadOf(R) + Load(c)
    BY <2>2, LoadWith
  <2>5. LoadOf((A \cup R) \cup {c}) = LoadOf(A \cup R) + Load(c)
    <3>1. A \cup R \in SUBSET Caller /\ c \notin A \cup R
      BY <2>1
    <3> HIDE DEF R, I
    <3> QED
      BY <2>2, <3>1, LoadWith
  <2>6. R \cup {c} = T /\ (A \cup R) \cup {c} = A \cup T
    OBVIOUS
  <2>7. LoadOf(A) \in Nat /\ LoadOf(R) \in Nat /\ Load(c) \in Nat
    BY <2>2, LoadIsNat, LoadFacts
  <2> HIDE DEF R, I
  <2>8. PICK a \in Nat, r \in Nat, l \in Nat : a = LoadOf(A) /\ r = LoadOf(R) /\ l = Load(c)
    BY <2>7
  <2>9. LoadOf(T) = r + l /\ LoadOf(A \cup T) = (a + r) + l
    BY <2>3, <2>4, <2>5, <2>6, <2>8
  <2>10. (a + r) + l = a + (r + l)
    OBVIOUS
  <2> QED
    BY <2>8, <2>9, <2>10
<1>3. I = Nat
  <2> HIDE DEF I
  <2>1. I \in SUBSET Nat
    BY DEF I
  <2> QED
    BY <1>1, <1>2, <2>1, SetInduction
<1> QED
  BY <1>3, CallersAreFinite

-----------------------------------------------------------------------------
(* Lists of calls, in which no call is twice.                              *)

Queue(s, S) == s \in Seq(S) /\ IsInjective(s)

LEMMA QueueFacts ==
  ASSUME NEW S, NEW s, Queue(s, S)
  PROVE  /\ Len(s) \in Nat /\ DOMAIN s = 1 .. Len(s) /\ ToSet(s) \subseteq S
         /\ \A j \in 1 .. Len(s) : s[j] \in S
         /\ \A j, k \in 1 .. Len(s) : s[j] = s[k] => j = k
<1>1. Len(s) \in Nat /\ DOMAIN s = 1 .. Len(s) /\ \A j \in 1 .. Len(s) : s[j] \in S
  BY LenProperties, ElementOfSeq DEF Queue
<1> QED
  BY <1>1 DEF Queue, IsInjective, ToSet

LEMMA EmptyQueue ==
  ASSUME NEW S
  PROVE  Queue(<<>>, S) /\ ToSet(<<>>) = {} /\ Len(<<>>) = 0
<1>1. <<>> \in Seq(S) /\ Len(<<>>) = 0
  BY EmptySeq
<1>2. DOMAIN <<>> = {}
  BY <1>1, LenProperties
<1> QED
  BY <1>1, <1>2 DEF Queue, IsInjective, ToSet

LEMMA QueueSize ==
  ASSUME NEW S, NEW s, Queue(s, S)
  PROVE  IsFiniteSet(ToSet(s)) /\ Cardinality(ToSet(s)) = Len(s)
<1>1. Len(s) \in Nat /\ DOMAIN s = 1 .. Len(s)
  BY QueueFacts
<1>2. s \in [1 .. Len(s) -> ToSet(s)] /\ \A x \in ToSet(s) : \E i \in 1 .. Len(s) : s[i] = x
  <2>1. s \in [1 .. Len(s) -> S]
    BY LenProperties DEF Queue
  <2> QED
    BY <1>1, <2>1 DEF ToSet
<1>3. s \in Bijection(1 .. Len(s), ToSet(s))
  BY <1>2 DEF Queue, Bijection, Injection, Surjection
<1>4. ExistsBijection(1 .. Len(s), ToSet(s))
  BY <1>3 DEF ExistsBijection
<1> QED
  BY <1>1, <1>4, FS_CountingElements, FS_NatBijection

LEMMA QueueAppend ==
  ASSUME NEW S, NEW s, Queue(s, S), NEW b \in S, b \notin ToSet(s)
  PROVE  Queue(Append(s, b), S) /\ ToSet(Append(s, b)) = ToSet(s) \cup {b}
<1> DEFINE n == Len(s)
           t == Append(s, b)
<1>0. /\ n \in Nat /\ DOMAIN s = 1 .. n /\ \A j \in 1 .. n : s[j] \in S /\ s[j] # b
      /\ \A j, k \in 1 .. n : s[j] = s[k] => j = k
  BY QueueFacts DEF ToSet
<1>1. /\ t \in Seq(S) /\ Len(t) = n + 1 /\ t[n + 1] = b
      /\ \A j \in 1 .. n : t[j] = s[j]
  BY AppendProperties DEF Queue
<1>2. DOMAIN t = 1 .. n + 1
  BY <1>1, LenProperties
<1> HIDE DEF t
<1>3. IsInjective(t)
  BY <1>0, <1>1, <1>2 DEF IsInjective
<1>4. ToSet(t) = ToSet(s) \cup {b}
  <2>1. \A x \in ToSet(t) : x \in ToSet(s) \/ x = b
    BY <1>0, <1>1, <1>2 DEF ToSet
  <2>2. b \in ToSet(t)
    BY <1>0, <1>1, <1>2 DEF ToSet
  <2>3. \A x \in ToSet(s) : x \in ToSet(t)
    BY <1>0, <1>1, <1>2 DEF ToSet
  <2> QED
    BY <2>1, <2>2, <2>3
<1> QED
  BY <1>1, <1>3, <1>4 DEF Queue, t

\* A queue is cut in two: the calls of the first part, and the calls left.
Cut(s, S, k, first, last) ==
  /\ Queue(first, S) /\ Len(first) = k
  /\ Queue(last, S) /\ Len(last) = Len(s) - k
  /\ ToSet(first) \cup ToSet(last) = ToSet(s) /\ ToSet(first) \cap ToSet(last) = {}

LEMMA QueueCut ==
  ASSUME NEW S, NEW s, Queue(s, S), NEW k \in 0 .. Len(s),
         NEW first, first = SubSeq(s, 1, k), NEW last, last = SubSeq(s, k + 1, Len(s))
  PROVE  Cut(s, S, k, first, last)
<1>. PICK n \in Nat : n = Len(s)
  BY QueueFacts
<1>0. /\ DOMAIN s = 1 .. n /\ \A j \in 1 .. n : s[j] \in S
      /\ \A i, j \in 1 .. n : s[i] = s[j] => i = j
  BY QueueFacts
<1>1. k \in Int /\ 0 <= k /\ k <= n
  OBVIOUS
<1>2. first \in Seq(S) /\ Len(first) = k /\ \A j \in 1 .. k : first[j] = s[j]
  <2>1. /\ first \in Seq(S) /\ Len(first) = IF 1 <= k THEN k - 1 + 1 ELSE 0
        /\ \A j \in 1 .. k - 1 + 1 : first[j] = s[1 + j - 1]
    BY <1>0, <1>1, SubSeqProperties
  <2> QED
    BY <1>1, <2>1
<1>3. last \in Seq(S) /\ Len(last) = n - k /\ \A j \in 1 .. n - k : last[j] = s[k + j]
  <2>1. /\ last \in Seq(S) /\ Len(last) = IF k + 1 <= n THEN n - (k + 1) + 1 ELSE 0
        /\ \A j \in 1 .. n - (k + 1) + 1 : last[j] = s[(k + 1) + j - 1]
    <3>1. k + 1 \in Int /\ n \in Int /\ \A j \in k + 1 .. n : s[j] \in S
      BY <1>0, <1>1
    <3> QED
      BY <3>1, SubSeqProperties
  <2>2. n - (k + 1) + 1 = n - k /\ \A j \in 1 .. n - k : (k + 1) + j - 1 = k + j
    BY <1>1
  <2>3. k + 1 <= n \/ k = n
    BY <1>1
  <2>4. Len(last) = n - k
    BY <1>1, <2>1, <2>2, <2>3
  <2> QED
    BY <2>1, <2>2, <2>4
<1>4. DOMAIN first = 1 .. k /\ DOMAIN last = 1 .. n - k
  BY <1>2, <1>3, LenProperties
<1>5. IsInjective(first)
  BY <1>0, <1>1, <1>2, <1>4 DEF IsInjective
<1>6. IsInjective(last)
  <2>1. \A j \in 1 .. n - k : k + j \in 1 .. n
    BY <1>1
  <2>2. ASSUME NEW i \in 1 .. n - k, NEW j \in 1 .. n - k, last[i] = last[j] PROVE i = j
    <3>1. s[k + i] = s[k + j]
      BY <1>3, <2>2
    <3>2. k + i = k + j
      BY <1>0, <2>1, <3>1
    <3> QED
      BY <1>1, <3>2
  <2> QED
    BY <1>4, <2>2 DEF IsInjective
<1>7. \A x : x \in ToSet(first) <=> \E j \in 1 .. k : s[j] = x
  BY <1>2, <1>4 DEF ToSet
<1>8. \A x : x \in ToSet(last) <=> \E j \in k + 1 .. n : s[j] = x
  <2>1. \A x : x \in ToSet(last) <=> \E i \in 1 .. n - k : s[k + i] = x
    BY <1>3, <1>4 DEF ToSet
  <2>2. \A i \in 1 .. n - k : k + i \in k + 1 .. n
    BY <1>1
  <2>3. \A j \in k + 1 .. n : j - k \in 1 .. n - k /\ k + (j - k) = j
    BY <1>1
  <2>4. ASSUME NEW x, NEW j \in k + 1 .. n, s[j] = x PROVE \E i \in 1 .. n - k : s[k + i] = x
    <3>1. s[k + (j - k)] = x
      BY <2>3, <2>4
    <3> QED
      BY <2>3, <3>1
  <2> QED
    BY <2>1, <2>2, <2>4
<1>9. \A x : x \in ToSet(s) <=> \E j \in 1 .. n : s[j] = x
  BY <1>0 DEF ToSet
<1>10. ToSet(first) \cup ToSet(last) = ToSet(s)
  BY <1>1, <1>7, <1>8, <1>9
<1>11. ToSet(first) \cap ToSet(last) = {}
  BY <1>0, <1>1, <1>7, <1>8
<1> QED
  BY <1>2, <1>3, <1>5, <1>6, <1>10, <1>11 DEF Queue, Cut

-----------------------------------------------------------------------------
(* The invariant of the buffer.                                            *)

\* The calls of either kind that wait or are being written.
Waiting == ToSet(pending) \cup ToSet(inFlight)
Slotted == ToSet(queue) \cup running

\* An append is in one place; the counters say what is there; without a flush no
\* batch is being written, and what waits has a timer or a flush.
PlainSide ==
  /\ pending \in Seq(Plain) /\ inFlight \in Seq(Plain)
  /\ pendingEvents \in Nat /\ inFlightEvents \in 0 .. MaxEvents
  /\ flushing \in BOOLEAN /\ timer \in BOOLEAN
  /\ Queue(pending, Plain) /\ Queue(inFlight, Plain)
  /\ ToSet(pending) \cap ToSet(inFlight) = {}
  /\ pendingEvents = Events(pending) /\ inFlightEvents = Events(inFlight)
  /\ ~flushing => inFlight = <<>>
  /\ pending # <<>> => timer \/ flushing

\* So is an idempotent batch; its counter runs from admission to the end of its
\* write, and while one waits all slots are taken.
SlotSide ==
  /\ queue \in Seq(Idempotent) /\ running \subseteq Idempotent
  /\ Queue(queue, Idempotent) /\ ToSet(queue) \cap running = {}
  /\ idempotentEvents = LoadOf(Slotted) /\ idempotentEvents \in Nat
  /\ Cardinality(running) <= MaxConcurrent
  /\ queue # <<>> => Cardinality(running) = MaxConcurrent

\* Whoever waits for an answer is in one of the places, and answers are true.
Answers ==
  /\ status \in [Caller -> {"idle", "waiting"} \cup Settled] /\ stored \subseteq Caller
  /\ \A c \in Caller : status[c] = "waiting" <=> c \in Waiting \cup Slotted
  /\ AnswersAreTrue

\* What was admitted fits, by the counters.
Sum == pendingEvents + inFlightEvents + idempotentEvents <= MaxPendingEvents

BufferInv == PlainSide /\ SlotSide /\ Answers /\ Sum

LEMMA FirstBatchFits ==
  ASSUME NEW s, Queue(s, Plain)
  PROVE  \E k \in 0 .. Len(s) : FirstBatch(s) = SubSeq(s, 1, k) /\ Events(SubSeq(s, 1, k)) <= MaxEvents
<1> DEFINE K == {k \in 0 .. Len(s) : Events(SubSeq(s, 1, k)) <= MaxEvents}
<1>1. Len(s) \in Nat
  BY QueueFacts
<1>2. 0 \in K
  <2>1. SubSeq(s, 1, 0) = <<>>
    BY SubSeqEmpty
  <2>2. Events(<<>>) = 0
    BY EmptyQueue, LoadOfNone DEF Events
  <2>3. 0 \in 0 .. Len(s) /\ 0 <= MaxEvents
    BY <1>1, BufferAssumption
  <2> QED
    BY <2>1, <2>2, <2>3
<1>3. Max(K) \in K
  <2>1. K \in SUBSET (0 .. Len(s)) /\ K # {}
    BY <1>2
  <2> HIDE DEF K
  <2> QED
    BY <1>1, <2>1, Largest
<1> QED
  BY <1>3 DEF FirstBatch

\* What a flush takes of the appends s leaves the rest, and both counters right.
Taken(s) ==
  /\ Queue(pending', Plain) /\ Queue(inFlight', Plain)
  /\ ToSet(pending') \cap ToSet(inFlight') = {}
  /\ ToSet(pending') \cup ToSet(inFlight') = ToSet(s)
  /\ pendingEvents' = Events(pending)' /\ inFlightEvents' = Events(inFlight)'
  /\ pendingEvents' \in Nat /\ inFlightEvents' \in 0 .. MaxEvents
  /\ pendingEvents' + inFlightEvents' = Events(s)
  /\ flushing' \in BOOLEAN /\ (~flushing' => pending' = <<>> /\ inFlight' = <<>>)

LEMMA TakeBatchTakes ==
  ASSUME NEW s, Queue(s, Plain), inFlightEvents \in Nat, TakeBatch(s, Events(s), inFlightEvents)
  PROVE  Taken(s)
<1>1. PICK k \in 0 .. Len(s) : FirstBatch(s) = SubSeq(s, 1, k) /\ Events(SubSeq(s, 1, k)) <= MaxEvents
  BY FirstBatchFits
<1>2. PICK first : first = SubSeq(s, 1, k)
  OBVIOUS
<1>3. PICK last : last = SubSeq(s, k + 1, Len(s))
  OBVIOUS
<1>4. /\ Queue(first, Plain) /\ Len(first) = k
      /\ Queue(last, Plain) /\ Len(last) = Len(s) - k
      /\ ToSet(first) \cup ToSet(last) = ToSet(s) /\ ToSet(first) \cap ToSet(last) = {}
  <2>1. Cut(s, Plain, k, first, last)
    BY <1>2, <1>3, QueueCut
  <2> QED
    BY <2>1 DEF Cut
<1>5. /\ inFlight' = first /\ inFlightEvents' = inFlightEvents - inFlightEvents + Events(first)
      /\ pending' = last /\ pendingEvents' = Events(s) - Events(first) /\ flushing' = (s # <<>>)
  BY <1>1, <1>2, <1>3, <1>4 DEF TakeBatch
<1>6. ToSet(first) \in SUBSET Caller /\ ToSet(last) \in SUBSET Caller
  BY <1>4, QueueFacts DEF Caller
<1>7. PICK m \in Nat, n \in Nat : m = Events(first) /\ n = Events(last)
  BY <1>6, LoadIsNat DEF Events
<1>8. Events(s) = m + n
  <2>1. LoadOf(ToSet(first) \cup ToSet(last)) = LoadOf(ToSet(first)) + LoadOf(ToSet(last))
    BY <1>4, <1>6, LoadUnion
  <2> QED
    BY <1>4, <1>7, <2>1 DEF Events
<1>9. m <= MaxEvents
  BY <1>1, <1>2, <1>7
<1>10. inFlightEvents' = m /\ pendingEvents' = n
  BY <1>5, <1>7, <1>8
<1>11. Events(pending)' = n /\ Events(inFlight)' = m
  BY <1>5, <1>7 DEF Events
<1>12. s = <<>> => first = <<>> /\ last = <<>>
  <2> SUFFICES ASSUME s = <<>> PROVE first = <<>> /\ last = <<>>
    OBVIOUS
  <2>1. Len(s) = 0
    BY EmptySeq
  <2>2. k = 0 /\ Len(first) = 0 /\ Len(last) = 0
    BY <1>4, <2>1
  <2> QED
    BY <1>4, <2>2, EmptySeq DEF Queue
<1>13. m \in 0 .. MaxEvents /\ n + m = m + n
  BY <1>9, BufferAssumption
<1>14. Queue(pending', Plain) /\ Queue(inFlight', Plain)
  BY <1>4, <1>5
<1>15. ToSet(pending') \cap ToSet(inFlight') = {} /\ ToSet(pending') \cup ToSet(inFlight') = ToSet(s)
  BY <1>4, <1>5
<1>16. flushing' \in BOOLEAN /\ (~flushing' => pending' = <<>> /\ inFlight' = <<>>)
  BY <1>5, <1>12
<1> QED
  BY <1>8, <1>10, <1>11, <1>13, <1>14, <1>15, <1>16 DEF Taken

\* The pump keeps every batch, uses all slots while one waits, and no more.
Pumped(s, r) ==
  /\ Queue(queue', Idempotent) /\ running' \subseteq Idempotent
  /\ ToSet(queue') \cap running' = {} /\ ToSet(queue') \cup running' = ToSet(s) \cup r
  /\ Cardinality(running') <= MaxConcurrent
  /\ queue' # <<>> => Cardinality(running') = MaxConcurrent

LEMMA PumpPumps ==
  ASSUME NEW s, Queue(s, Idempotent), NEW r \in SUBSET Idempotent, ToSet(s) \cap r = {},
         Cardinality(r) <= MaxConcurrent, Pump(s, r)
  PROVE  Pumped(s, r)
<1>0. IsFiniteSet(r) /\ Cardinality(r) \in Nat
  BY CallersAreFinite DEF Caller
<1>1. PICK l \in Nat, u \in Nat, m \in Nat : l = Len(s) /\ u = Cardinality(r) /\ m = MaxConcurrent
  BY <1>0, QueueFacts, BufferAssumption
<1>2. PICK k : k = IF l < m - u THEN l ELSE m - u
  OBVIOUS
<1>3. k \in 0 .. l /\ k <= m - u /\ (k = l \/ k = m - u)
  BY <1>1, <1>2
<1>4. PICK first : first = SubSeq(s, 1, k)
  OBVIOUS
<1>5. PICK last : last = SubSeq(s, k + 1, Len(s))
  OBVIOUS
<1>6. queue' = last /\ running' = r \cup ToSet(first)
  BY <1>1, <1>2, <1>4, <1>5 DEF Pump
<1>7. /\ Queue(first, Idempotent) /\ Len(first) = k
      /\ Queue(last, Idempotent) /\ Len(last) = l - k
      /\ ToSet(first) \cup ToSet(last) = ToSet(s) /\ ToSet(first) \cap ToSet(last) = {}
  <2>1. Cut(s, Idempotent, k, first, last)
    BY <1>1, <1>3, <1>4, <1>5, QueueCut
  <2> QED
    BY <1>1, <2>1 DEF Cut
<1>8. Cardinality(running') = u + k
  <2>1. IsFiniteSet(ToSet(first)) /\ Cardinality(ToSet(first)) = k
    BY <1>7, QueueSize
  <2>2. r \cap ToSet(first) = {}
    BY <1>7
  <2>3. Cardinality(r \cup ToSet(first)) = Cardinality(r) + Cardinality(ToSet(first)) - 0
    BY <1>0, <2>1, <2>2, FS_Union, FS_EmptySet
  <2> QED
    BY <1>1, <1>3, <1>6, <2>1, <2>3
<1>9. u + k <= m
  BY <1>1, <1>3
<1>10. last # <<>> => u + k = m
  <2> SUFFICES ASSUME last # <<>> PROVE u + k = m
    OBVIOUS
  <2>1. l - k \in Nat \ {0}
    BY <1>7, EmptySeq DEF Queue
  <2> QED
    BY <1>1, <1>3, <2>1
<1>11. running' \subseteq Idempotent
  BY <1>6, <1>7, QueueFacts
<1>12. ToSet(queue') \cap running' = {} /\ ToSet(queue') \cup running' = ToSet(s) \cup r
  BY <1>6, <1>7
<1> QED
  BY <1>1, <1>6, <1>7, <1>8, <1>9, <1>10, <1>11, <1>12 DEF Pumped

-----------------------------------------------------------------------------
(* What the steps of the buffer do to its invariant.                       *)

LEMMA BufferInitInv == BufferInit => BufferInv
<1> SUFFICES ASSUME BufferInit PROVE BufferInv
  OBVIOUS
<1>1. /\ Queue(pending, Plain) /\ Queue(inFlight, Plain) /\ Queue(queue, Idempotent)
      /\ ToSet(pending) = {} /\ ToSet(inFlight) = {} /\ ToSet(queue) = {} /\ running = {}
  BY EmptyQueue DEF BufferInit
<1>2. Waiting = {} /\ Slotted = {}
  BY <1>1 DEF Waiting, Slotted
<1>3. Events(pending) = 0 /\ Events(inFlight) = 0 /\ LoadOf(Slotted) = 0
  BY <1>1, <1>2, LoadOfNone DEF Events
<1>4. 0 \in 0 .. MaxEvents /\ 0 + 0 + 0 <= MaxPendingEvents
  BY BufferAssumption
<1>5. PlainSide
  BY <1>1, <1>3, <1>4 DEF BufferInit, PlainSide, Queue
<1>6. Cardinality(running) <= MaxConcurrent
  BY <1>1, FS_EmptySet, BufferAssumption
<1>7. SlotSide
  BY <1>1, <1>3, <1>6 DEF BufferInit, SlotSide, Queue
<1>8. Answers
  BY <1>2 DEF BufferInit, Answers, AnswersAreTrue
<1>9. Sum
  BY <1>4 DEF BufferInit, Sum
<1> QED
  BY <1>5, <1>7, <1>8, <1>9 DEF BufferInv

LEMMA SidesAreCalls ==
  ASSUME PlainSide, SlotSide
  PROVE  Waiting \in SUBSET Plain /\ Slotted \in SUBSET Idempotent /\ Waiting \cap Slotted = {}
<1>1. ToSet(pending) \subseteq Plain /\ ToSet(inFlight) \subseteq Plain /\ ToSet(queue) \subseteq Idempotent
  BY QueueFacts DEF PlainSide, SlotSide
<1> QED
  BY <1>1, BufferAssumption DEF SlotSide, Waiting, Slotted

LEMMA PlainStays == PlainSide /\ UNCHANGED buffer => PlainSide' /\ Waiting' = Waiting
BY DEF PlainSide, buffer, Waiting, Events

LEMMA SlotsStay == SlotSide /\ UNCHANGED slots => SlotSide' /\ Slotted' = Slotted
BY DEF SlotSide, slots, Slotted

\* A flush that takes its batch from the appends that wait.
LEMMA FlushTakes ==
  ASSUME PlainSide, NEW s, Queue(s, Plain), TakeBatch(s, Events(s), inFlightEvents),
         timer' \in BOOLEAN
  PROVE  /\ PlainSide' /\ Waiting' = ToSet(s)
         /\ pendingEvents' + inFlightEvents' = Events(s)
<1>1. Taken(s)
  BY TakeBatchTakes DEF PlainSide
<1>2. Waiting' = ToSet(s) /\ pendingEvents' + inFlightEvents' = Events(s)
  BY <1>1 DEF Taken, Waiting
<1>3. PlainSide'
  BY <1>1 DEF Taken, PlainSide, Queue
<1> QED
  BY <1>2, <1>3

\* Slots are given to the batches that wait.
LEMMA SlotsAreGiven ==
  ASSUME NEW s, Queue(s, Idempotent), NEW r \in SUBSET Idempotent, ToSet(s) \cap r = {},
         Cardinality(r) <= MaxConcurrent, Pump(s, r),
         idempotentEvents' = LoadOf(ToSet(s) \cup r)
  PROVE  SlotSide' /\ Slotted' = ToSet(s) \cup r
<1>1. Pumped(s, r)
  BY PumpPumps
<1>2. Slotted' = ToSet(s) \cup r
  BY <1>1 DEF Pumped, Slotted
<1>3. LoadOf(Slotted)' = LoadOf(ToSet(s) \cup r)
  BY <1>2 DEF LoadOf
<1>4. LoadOf(ToSet(s) \cup r) \in Nat
  <2>1. ToSet(s) \cup r \in SUBSET Caller
    BY QueueFacts DEF Caller
  <2> QED
    BY <2>1, LoadIsNat
<1>5. SlotSide'
  BY <1>1, <1>3, <1>4 DEF Pumped, SlotSide, Queue
<1> QED
  BY <1>2, <1>5

LEMMA DisjointSizes ==
  ASSUME NEW A, IsFiniteSet(A), NEW B, IsFiniteSet(B), A \cap B = {}
  PROVE  IsFiniteSet(A \cup B) /\ Cardinality(A \cup B) = Cardinality(A) + Cardinality(B)
<1>1. Cardinality(A) \in Nat /\ Cardinality(B) \in Nat /\ Cardinality(A \cap B) = 0
  BY FS_CardinalityType, FS_EmptySet
<1>2. /\ IsFiniteSet(A \cup B)
      /\ Cardinality(A \cup B) = Cardinality(A) + Cardinality(B) - Cardinality(A \cap B)
  BY FS_Union
<1> QED
  BY <1>1, <1>2

LEMMA Numbers ==
  ASSUME PlainSide, SlotSide
  PROVE  /\ pendingEvents \in Nat /\ inFlightEvents \in Nat /\ idempotentEvents \in Nat
         /\ MaxPendingEvents \in Nat /\ MaxEvents \in Nat
BY BufferAssumption DEF PlainSide, SlotSide

LEMMA NumbersNext == PlainSide' /\ SlotSide' =>
  pendingEvents' \in Nat /\ inFlightEvents' \in Nat /\ idempotentEvents' \in Nat
BY DEF PlainSide, SlotSide

\* A call that is admitted was in no place, and fits.
LEMMA AdmitFacts ==
  ASSUME PlainSide, SlotSide, Answers, NEW c \in Caller, Admit(c),
         Waiting' \cup Slotted' = (Waiting \cup Slotted) \cup {c}, stored' = stored
  PROVE  c \notin Waiting \cup Slotted /\ Answers'
<1>1. c \notin Waiting \cup Slotted
  BY DEF Answers, Admit
<1>2. status' \in [Caller -> {"idle", "waiting"} \cup Settled]
  BY DEF Answers, Admit
<1>3. \A d \in Caller : status'[d] = IF d = c THEN "waiting" ELSE status[d]
  BY DEF Answers, Admit
<1>4. \A d \in Caller : status'[d] = "waiting" <=> d \in Waiting' \cup Slotted'
  BY <1>3 DEF Answers
<1>5. AnswersAreTrue'
  BY <1>3 DEF Answers, AnswersAreTrue
<1> QED
  BY <1>1, <1>2, <1>4, <1>5 DEF Answers

\* Calls that are answered leave their place.
LEMMA SettleFacts ==
  ASSUME Answers, NEW gone \in SUBSET Caller, NEW end \in Ends, Settle(gone, end.answer),
         stored' = IF end.commit THEN stored \cup gone ELSE stored,
         Waiting' \cup Slotted' = (Waiting \cup Slotted) \ gone
  PROVE  Answers'
<1>1. end.answer \in Settled /\ (end.answer = "acknowledged" => end.commit = TRUE)
  <2>1. CASE end = [commit |-> TRUE, answer |-> "acknowledged"]
    BY <2>1 DEF Settled
  <2>2. CASE end = [commit |-> TRUE, answer |-> "failed"]
    BY <2>2 DEF Settled
  <2>3. CASE end = [commit |-> FALSE, answer |-> "failed"]
    BY <2>3 DEF Settled
  <2> QED
    BY <2>1, <2>2, <2>3 DEF Ends
<1>2. "waiting" \notin Settled
  BY DEF Settled
<1>3. \A d \in Caller : status'[d] = IF d \in gone THEN end.answer ELSE status[d]
  BY DEF Settle
<1>4. status' \in [Caller -> {"idle", "waiting"} \cup Settled] /\ stored' \subseteq Caller
  BY <1>1 DEF Settle, Answers
<1>5. \A d \in Caller : status'[d] = "waiting" <=> d \in Waiting' \cup Slotted'
  BY <1>1, <1>2, <1>3 DEF Answers
<1>6. AnswersAreTrue'
  <2> SUFFICES ASSUME NEW d \in Caller, status'[d] = "acknowledged" PROVE d \in stored'
    BY DEF AnswersAreTrue
  <2>1. CASE d \in gone
    BY <1>1, <1>3, <2>1
  <2>2. CASE d \notin gone
    BY <1>3, <2>2 DEF Answers, AnswersAreTrue
  <2> QED
    BY <2>1, <2>2
<1> QED
  BY <1>4, <1>5, <1>6 DEF Answers

LEMMA TurnAwayKeeps ==
  ASSUME BufferInv, NEW c \in Caller, TurnAway(c)
  PROVE  BufferInv'
<1>1. PlainSide /\ SlotSide /\ Answers /\ Sum
  BY DEF BufferInv
<1>2. PlainSide' /\ Waiting' = Waiting /\ SlotSide' /\ Slotted' = Slotted
  BY <1>1, PlainStays, SlotsStay DEF TurnAway
<1>3. Sum'
  BY <1>1 DEF TurnAway, buffer, slots, Sum
<1>4. Answers'
  <2>1. status' \in [Caller -> {"idle", "waiting"} \cup Settled]
    BY <1>1 DEF TurnAway, Answers, Settled
  <2>2. \A d \in Caller : status'[d] = IF d = c THEN "turned away" ELSE status[d]
    BY <1>1 DEF TurnAway, Answers
  <2>3. stored' = stored /\ status[c] = "idle"
    BY DEF TurnAway
  <2>4. AnswersAreTrue'
    BY <1>1, <2>2, <2>3 DEF Answers, AnswersAreTrue
  <2>5. \A d \in Caller : status'[d] = "waiting" <=> d \in Waiting' \cup Slotted'
    BY <1>1, <1>2, <2>2, <2>3 DEF Answers
  <2> QED
    BY <1>1, <2>1, <2>3, <2>4, <2>5 DEF Answers
<1> QED
  BY <1>2, <1>3, <1>4 DEF BufferInv

LEMMA CallAgainKeeps ==
  ASSUME BufferInv, NEW c \in Caller, CallAgain(c)
  PROVE  BufferInv'
<1>1. PlainSide /\ SlotSide /\ Answers /\ Sum
  BY DEF BufferInv
<1>2. PlainSide' /\ Waiting' = Waiting /\ SlotSide' /\ Slotted' = Slotted
  BY <1>1, PlainStays, SlotsStay DEF CallAgain
<1>3. Sum'
  BY <1>1 DEF CallAgain, buffer, slots, Sum
<1>4. Answers'
  <2>1. status' \in [Caller -> {"idle", "waiting"} \cup Settled]
    BY <1>1 DEF CallAgain, Answers
  <2>2. \A d \in Caller : status'[d] = IF d = c THEN "idle" ELSE status[d]
    BY <1>1 DEF CallAgain, Answers
  <2>3. stored' = stored \ {c} /\ status[c] # "waiting"
    BY DEF CallAgain, Settled
  <2>4. AnswersAreTrue'
    BY <1>1, <2>2, <2>3 DEF Answers, AnswersAreTrue
  <2>5. \A d \in Caller : status'[d] = "waiting" <=> d \in Waiting' \cup Slotted'
    BY <1>1, <1>2, <2>2, <2>3 DEF Answers
  <2> QED
    BY <1>1, <2>1, <2>3, <2>4, <2>5 DEF Answers
<1> QED
  BY <1>2, <1>3, <1>4 DEF BufferInv

LEMMA AppendCallKeeps ==
  ASSUME BufferInv, NEW c \in Plain, AppendCall(c)
  PROVE  BufferInv'
<1>1. PlainSide /\ SlotSide /\ Answers /\ Sum
  BY DEF BufferInv
<1>2. PICK s : s = Append(pending, c)
  OBVIOUS
<1>3. c \in Caller /\ c \notin Waiting \cup Slotted /\ Admit(c) /\ stored' = stored
  BY <1>1 DEF AppendCall, Admit, Answers, Caller
<1>4. Queue(s, Plain) /\ ToSet(s) = ToSet(pending) \cup {c}
  BY <1>1, <1>2, <1>3, QueueAppend DEF PlainSide, Waiting
<1>5. Events(s) = pendingEvents + EventsOf[c] /\ EventsOf[c] \in Nat
  <2>1. ToSet(pending) \in SUBSET Caller /\ c \notin ToSet(pending)
    BY <1>1, <1>3, SidesAreCalls DEF Waiting, Caller
  <2>2. LoadOf(ToSet(pending) \cup {c}) = LoadOf(ToSet(pending)) + Load(c)
    BY <1>3, <2>1, LoadWith
  <2> QED
    BY <1>1, <1>3, <1>4, <2>2, LoadFacts DEF Events, PlainSide
<1>6. SlotSide' /\ Slotted' = Slotted /\ idempotentEvents' = idempotentEvents
  BY <1>1, SlotsStay DEF AppendCall, slots
<1>7. pendingEvents + EventsOf[c] + inFlightEvents + idempotentEvents <= MaxPendingEvents
  <2>1. Load(c) = EventsOf[c]
    BY <1>3, LoadFacts
  <2>2. pendingEvents + inFlightEvents + idempotentEvents + EventsOf[c] <= MaxPendingEvents
    BY <2>1 DEF AppendCall, Admit, Fits
  <2> QED
    BY <1>1, <1>5, <2>2 DEF PlainSide, SlotSide
<1>8. CASE Events(s) >= MaxEvents /\ ~flushing
  <2>1. inFlight = <<>> /\ ToSet(inFlight) = {} /\ inFlightEvents = 0
    BY <1>1, <1>8, EmptyQueue, LoadOfNone DEF PlainSide, Events
  <2>2. TakeBatch(s, Events(s), inFlightEvents) /\ timer' = FALSE
    BY <1>2, <1>5, <1>8, <2>1 DEF AppendCall, Enqueue
  <2>3. PlainSide' /\ Waiting' = ToSet(s) /\ pendingEvents' + inFlightEvents' = Events(s)
    BY <1>1, <1>4, <2>2, FlushTakes
  <2>4. Waiting' = Waiting \cup {c}
    BY <1>4, <2>1, <2>3 DEF Waiting
  <2>5. Answers'
    BY <1>1, <1>3, <1>6, <2>4, AdmitFacts
  <2>6. Sum'
    BY <1>1, <1>5, <1>6, <1>7, <2>1, <2>3, Numbers DEF Sum
  <2> QED
    BY <1>6, <2>3, <2>5, <2>6 DEF BufferInv
<1>9. CASE ~(Events(s) >= MaxEvents /\ ~flushing)
  <2>1. /\ pending' = s /\ pendingEvents' = Events(s)
        /\ timer' = (Events(s) < MaxEvents /\ (timer \/ ~flushing))
        /\ UNCHANGED <<inFlight, inFlightEvents, flushing>>
    BY <1>2, <1>5, <1>9 DEF AppendCall, Enqueue, ArmTimer
  <2>2. Waiting' = Waiting \cup {c}
    BY <1>4, <2>1 DEF Waiting
  <2>3. PlainSide'
    <3>1. pendingEvents' \in Nat
      BY <1>1, <1>5, <2>1 DEF PlainSide
    <3>2. timer' \in BOOLEAN
      BY <2>1
    <3>3. timer' \/ flushing'
      <4>1. CASE flushing
        BY <2>1, <4>1
      <4>2. CASE ~flushing
        <5>1. Events(s) < MaxEvents
          BY <1>1, <1>5, <1>9, <4>2, Numbers
        <5> QED
          BY <2>1, <4>2, <5>1
      <4> QED
        BY <4>1, <4>2
    <3>4. ToSet(pending') \cap ToSet(inFlight') = {}
      BY <1>1, <1>3, <1>4, <2>1 DEF PlainSide, Waiting
    <3>5. pendingEvents' = Events(pending)' /\ inFlightEvents' = Events(inFlight)'
      BY <1>1, <2>1 DEF PlainSide, Events
    <3> QED
      BY <1>1, <1>4, <2>1, <3>1, <3>2, <3>3, <3>4, <3>5 DEF PlainSide, Queue
  <2>4. Answers'
    BY <1>1, <1>3, <1>6, <2>2, AdmitFacts
  <2>5. Sum'
    BY <1>1, <1>5, <1>6, <1>7, <2>1 DEF Sum
  <2> QED
    BY <1>6, <2>3, <2>4, <2>5 DEF BufferInv
<1> QED
  BY <1>8, <1>9

LEMMA TimerFiresKeeps ==
  ASSUME BufferInv, TimerFires
  PROVE  BufferInv'
<1>1. PlainSide /\ SlotSide /\ Answers /\ Sum
  BY DEF BufferInv
<1>2. SlotSide' /\ Slotted' = Slotted /\ idempotentEvents' = idempotentEvents
  BY <1>1, SlotsStay DEF TimerFires, slots
<1>3. status' = status /\ stored' = stored /\ timer' = FALSE
  BY DEF TimerFires
<1>4. CASE flushing \/ pending = <<>>
  <2>1. UNCHANGED <<pending, pendingEvents, inFlight, inFlightEvents, flushing>>
    BY <1>4 DEF TimerFires
  <2>2. PlainSide' /\ Waiting' = Waiting
    BY <1>1, <1>3, <1>4, <2>1 DEF PlainSide, Waiting, Events
  <2>3. Answers' /\ Sum'
    BY <1>1, <1>2, <1>3, <2>1, <2>2 DEF Answers, AnswersAreTrue, Sum
  <2> QED
    BY <1>2, <2>2, <2>3 DEF BufferInv
<1>5. CASE ~(flushing \/ pending = <<>>)
  <2>1. inFlight = <<>> /\ ToSet(inFlight) = {} /\ inFlightEvents = 0
    BY <1>1, <1>5, EmptyQueue, LoadOfNone DEF PlainSide, Events
  <2>2. TakeBatch(pending, Events(pending), inFlightEvents)
    BY <1>1, <1>5, <2>1 DEF TimerFires, PlainSide
  <2>3. PlainSide' /\ Waiting' = ToSet(pending) /\ pendingEvents' + inFlightEvents' = Events(pending)
    BY <1>1, <1>3, <2>2, FlushTakes DEF PlainSide
  <2>4. Waiting' = Waiting
    BY <2>1, <2>3 DEF Waiting
  <2>5. Answers'
    BY <1>1, <1>2, <1>3, <2>4 DEF Answers, AnswersAreTrue
  <2>6. Sum'
    <3>1. pendingEvents' + inFlightEvents' = pendingEvents
      BY <1>1, <2>3 DEF PlainSide
    <3> QED
      BY <1>1, <1>2, <2>1, <3>1, Numbers DEF Sum
  <2> QED
    BY <1>2, <2>3, <2>5, <2>6 DEF BufferInv
<1> QED
  BY <1>4, <1>5

LEMMA FlushKeeps ==
  ASSUME BufferInv, NEW end \in Ends, FlushSettles(end)
  PROVE  BufferInv'
<1>1. PlainSide /\ SlotSide /\ Answers /\ Sum
  BY DEF BufferInv
<1>2. SlotSide' /\ Slotted' = Slotted /\ idempotentEvents' = idempotentEvents
  BY <1>1, SlotsStay DEF FlushSettles, slots
<1>3. TakeBatch(pending, Events(pending), inFlightEvents) /\ timer' = timer
  BY <1>1 DEF FlushSettles, PlainSide
<1>4. /\ PlainSide' /\ Waiting' = ToSet(pending)
      /\ pendingEvents' + inFlightEvents' = pendingEvents
  BY <1>1, <1>3, FlushTakes DEF PlainSide
<1>5. Waiting' \cup Slotted' = (Waiting \cup Slotted) \ ToSet(inFlight)
  BY <1>1, <1>2, <1>4, SidesAreCalls DEF PlainSide, Waiting
<1>6. ToSet(inFlight) \in SUBSET Caller
  BY <1>1, SidesAreCalls DEF Waiting, Caller
<1>7. Answers'
  BY <1>1, <1>5, <1>6, SettleFacts DEF FlushSettles
<1>8. Sum'
  BY <1>1, <1>2, <1>4, Numbers, NumbersNext DEF Sum
<1> QED
  BY <1>2, <1>4, <1>7, <1>8 DEF BufferInv

LEMMA AppendIdempotentKeeps ==
  ASSUME BufferInv, NEW c \in Idempotent, AppendIdempotentCall(c)
  PROVE  BufferInv'
<1>1. PlainSide /\ SlotSide /\ Answers /\ Sum
  BY DEF BufferInv
<1>2. PICK s : s = Append(queue, c)
  OBVIOUS
<1>3. c \in Caller /\ c \notin Waiting \cup Slotted /\ Admit(c) /\ stored' = stored
  BY <1>1 DEF AppendIdempotentCall, Admit, Answers, Caller
<1>4. Queue(s, Idempotent) /\ ToSet(s) = ToSet(queue) \cup {c}
  BY <1>1, <1>2, <1>3, QueueAppend DEF SlotSide, Slotted
<1>5. PlainSide' /\ Waiting' = Waiting /\ UNCHANGED <<pendingEvents, inFlightEvents>>
  BY <1>1, PlainStays DEF AppendIdempotentCall, buffer
<1>6. ToSet(s) \cup running = Slotted \cup {c}
  BY <1>4 DEF Slotted
<1>7. Load(c) = Weight(c) /\ Load(c) \in Nat
  BY <1>3, LoadFacts
<1>8. idempotentEvents' = LoadOf(ToSet(s) \cup running) /\ idempotentEvents' = idempotentEvents + Load(c)
  <2>1. Slotted \in SUBSET Caller /\ c \notin Slotted
    BY <1>1, <1>3, SidesAreCalls DEF Caller
  <2>2. LoadOf(Slotted \cup {c}) = LoadOf(Slotted) + Load(c)
    BY <1>3, <2>1, LoadWith
  <2>3. idempotentEvents' = idempotentEvents + Weight(c)
    BY DEF AppendIdempotentCall
  <2> QED
    BY <1>1, <1>6, <1>7, <2>2, <2>3 DEF SlotSide
<1>9. SlotSide' /\ Slotted' = Slotted \cup {c}
  <2>1. running \in SUBSET Idempotent /\ ToSet(s) \cap running = {}
    BY <1>1, <1>3, <1>4 DEF SlotSide, Slotted
  <2>2. Pump(s, running) /\ Cardinality(running) <= MaxConcurrent
    BY <1>1, <1>2 DEF AppendIdempotentCall, Enqueue, SlotSide
  <2> QED
    BY <1>4, <1>6, <1>8, <2>1, <2>2, SlotsAreGiven
<1>10. Answers'
  BY <1>1, <1>3, <1>5, <1>9, AdmitFacts
<1>11. Sum'
  <2>1. pendingEvents + inFlightEvents + idempotentEvents + Load(c) <= MaxPendingEvents
    BY <1>3 DEF Admit, Fits
  <2> QED
    BY <1>1, <1>5, <1>7, <1>8, <2>1, Numbers DEF Sum
<1> QED
  BY <1>5, <1>9, <1>10, <1>11 DEF BufferInv

LEMMA SlotSettlesKeeps ==
  ASSUME BufferInv, NEW c \in Idempotent, NEW end \in Ends, IdempotentSettles(c, end)
  PROVE  BufferInv'
<1>1. PlainSide /\ SlotSide /\ Answers /\ Sum
  BY DEF BufferInv
<1>2. c \in running /\ c \in Caller
  BY DEF IdempotentSettles, Caller
<1>3. PlainSide' /\ Waiting' = Waiting /\ UNCHANGED <<pendingEvents, inFlightEvents>>
  BY <1>1, PlainStays DEF IdempotentSettles, buffer
<1>4. PICK r : r = running \ {c}
  OBVIOUS
<1>5. /\ Queue(queue, Idempotent) /\ r \in SUBSET Idempotent /\ ToSet(queue) \cap r = {}
      /\ ToSet(queue) \cup r = Slotted \ {c} /\ Pump(queue, r)
  BY <1>1, <1>2, <1>4 DEF SlotSide, Slotted, IdempotentSettles
<1>6. Cardinality(r) <= MaxConcurrent
  <2>1. IsFiniteSet(running) /\ Cardinality(running) \in Nat /\ Cardinality(running) <= MaxConcurrent
    BY <1>1, CallersAreFinite DEF SlotSide, Caller
  <2>2. r \in SUBSET running
    BY <1>4
  <2>3. Cardinality(r) <= Cardinality(running) /\ Cardinality(r) \in Nat
    BY <2>1, <2>2, FS_Subset, FS_CardinalityType
  <2> QED
    BY <2>1, <2>3, BufferAssumption
<1>7. Load(c) = Weight(c) /\ Load(c) \in Nat
  BY <1>2, LoadFacts
<1>8. idempotentEvents' = LoadOf(ToSet(queue) \cup r) /\ idempotentEvents' + Load(c) = idempotentEvents
  <2>1. Slotted \ {c} \in SUBSET Caller /\ (Slotted \ {c}) \cup {c} = Slotted
    BY <1>1, <1>2, SidesAreCalls DEF Caller, Slotted
  <2>2. LoadOf((Slotted \ {c}) \cup {c}) = LoadOf(Slotted \ {c}) + Load(c)
    BY <1>2, <2>1, LoadWith
  <2>3. LoadOf(Slotted \ {c}) \in Nat
    BY <2>1, LoadIsNat
  <2>4. idempotentEvents' = idempotentEvents - Weight(c)
    BY DEF IdempotentSettles, Freed
  <2>5. idempotentEvents = LoadOf(Slotted \ {c}) + Load(c)
    BY <1>1, <2>1, <2>2 DEF SlotSide
  <2>6. idempotentEvents' = LoadOf(Slotted \ {c})
    BY <1>7, <2>3, <2>4, <2>5
  <2> QED
    BY <1>5, <2>5, <2>6
<1>9. SlotSide' /\ Slotted' = Slotted \ {c}
  BY <1>5, <1>6, <1>8, SlotsAreGiven
<1>10. Waiting' \cup Slotted' = (Waiting \cup Slotted) \ {c}
  BY <1>1, <1>2, <1>3, <1>9, SidesAreCalls DEF Slotted
<1>11. Answers'
  <2>1. {c} \in SUBSET Caller
    BY <1>2
  <2> QED
    BY <1>1, <1>10, <2>1, SettleFacts DEF IdempotentSettles
<1>12. Sum'
  BY <1>1, <1>3, <1>7, <1>8, <1>9, Numbers, NumbersNext DEF Sum
<1> QED
  BY <1>3, <1>9, <1>11, <1>12 DEF BufferInv

LEMMA BufferNextInv == BufferInv /\ [BufferNext]_bufferVars => BufferInv'
<1> SUFFICES ASSUME BufferInv, [BufferNext]_bufferVars PROVE BufferInv'
  OBVIOUS
<1>1. CASE UNCHANGED bufferVars
  <2>1. PlainSide /\ SlotSide /\ Answers /\ Sum
    BY DEF BufferInv
  <2>2. PlainSide' /\ Waiting' = Waiting /\ SlotSide' /\ Slotted' = Slotted
    BY <1>1, <2>1, PlainStays, SlotsStay DEF bufferVars
  <2>3. Answers' /\ Sum'
    BY <1>1, <2>1, <2>2 DEF bufferVars, buffer, slots, Answers, AnswersAreTrue, Sum
  <2> QED
    BY <2>2, <2>3 DEF BufferInv
<1> QED
  BY <1>1, AppendCallKeeps, AppendIdempotentKeeps, TurnAwayKeeps, CallAgainKeeps,
     TimerFiresKeeps, FlushKeeps, SlotSettlesKeeps DEF BufferNext, Flush, SlotSettles

LEMMA BufferInvariant == BufferSpec => []BufferInv
BY BufferInitInv, BufferNextInv, PTL DEF BufferSpec

\* Every variable of the buffer has its type: no batch is larger than a physical
\* batch, and no counter falls below zero, whatever is admitted and whatever fails.
THEOREM BufferTypes == BufferSpec => []BufferTypeOK
<1>1. BufferInv => BufferTypeOK
  <2> SUFFICES ASSUME BufferInv PROVE BufferTypeOK
    OBVIOUS
  <2>1. idempotentEvents \in 0 .. MaxPendingEvents
    BY Numbers DEF BufferInv, Sum
  <2> QED
    BY <2>1 DEF BufferTypeOK, BufferInv, PlainSide, SlotSide, Answers
<1> QED
  BY <1>1, BufferInvariant, PTL

\* For any callers, any sizes and any limits: whoever was admitted is held in one
\* place, something is left that will come to it, and it is told the truth.
THEOREM CallsAreNeverLost == BufferSpec => []CallsAreKept
<1>1. BufferInv => CallsAreKept
  <2> SUFFICES ASSUME BufferInv PROVE HeldOnce
    BY DEF BufferInv, PlainSide, SlotSide, Answers, NothingIsForgotten, CallsAreKept
  <2>1. PlainSide /\ SlotSide /\ Answers
    BY DEF BufferInv
  <2>2. /\ IsFiniteSet(ToSet(pending)) /\ Cardinality(ToSet(pending)) = Len(pending)
        /\ IsFiniteSet(ToSet(inFlight)) /\ Cardinality(ToSet(inFlight)) = Len(inFlight)
        /\ IsFiniteSet(ToSet(queue)) /\ Cardinality(ToSet(queue)) = Len(queue)
    BY <2>1, QueueSize DEF PlainSide, SlotSide
  <2>3. IsFiniteSet(running) /\ Cardinality(running) \in Nat
    BY <2>1, CallersAreFinite DEF SlotSide, Caller
  <2>4. Len(pending) \in Nat /\ Len(inFlight) \in Nat /\ Len(queue) \in Nat
    BY <2>1, QueueFacts DEF PlainSide, SlotSide
  <2>5. IsFiniteSet(Waiting) /\ Cardinality(Waiting) = Len(pending) + Len(inFlight)
    <3>1. ToSet(pending) \cap ToSet(inFlight) = {}
      BY <2>1 DEF PlainSide
    <3> QED
      BY <2>2, <3>1, DisjointSizes DEF Waiting
  <2>6. IsFiniteSet(Slotted) /\ Cardinality(Slotted) = Len(queue) + Cardinality(running)
    BY <2>1, <2>2, <2>3, DisjointSizes DEF SlotSide, Slotted
  <2>7. Cardinality(Waiting \cup Slotted) = Cardinality(Waiting) + Cardinality(Slotted)
    BY <2>1, <2>5, <2>6, SidesAreCalls, DisjointSizes
  <2>8. Queued = Waiting \cup Slotted
    BY DEF Queued, Waiting, Slotted
  <2>9. Cardinality(Queued) = Len(pending) + Len(inFlight) + Len(queue) + Cardinality(running)
    BY <2>3, <2>4, <2>5, <2>6, <2>7, <2>8
  <2> QED
    BY <2>1, <2>8, <2>9 DEF HeldOnce, Answers
<1> QED
  BY <1>1, BufferInvariant, PTL

\* The events the buffer really holds never exceed maxPendingEvents, although three
\* counters that change at different moments stand for them.
THEOREM MemoryIsLimited == BufferSpec => []BufferIsBounded
<1>1. BufferInv => BufferIsBounded
  <2> SUFFICES ASSUME BufferInv PROVE BufferIsBounded
    OBVIOUS
  <2>1. PlainSide /\ SlotSide /\ Sum
    BY DEF BufferInv
  <2>2. /\ ToSet(pending) \in SUBSET Caller /\ ToSet(inFlight) \in SUBSET Caller
        /\ Waiting \in SUBSET Caller /\ Slotted \in SUBSET Caller /\ Waiting \cap Slotted = {}
    BY <2>1, SidesAreCalls DEF Waiting, Caller
  <2>3. LoadOf(Waiting) = LoadOf(ToSet(pending)) + LoadOf(ToSet(inFlight))
    BY <2>1, <2>2, LoadUnion DEF PlainSide, Waiting
  <2>4. LoadOf(Waiting \cup Slotted) = LoadOf(Waiting) + LoadOf(Slotted)
    BY <2>2, LoadUnion
  <2>5. Queued = Waiting \cup Slotted
    BY DEF Queued, Waiting, Slotted
  <2>6. LoadOf(Queued) = pendingEvents + inFlightEvents + idempotentEvents
    BY <2>1, <2>3, <2>4, <2>5 DEF PlainSide, SlotSide, Events
  <2> QED
    BY <2>1, <2>6 DEF BufferIsBounded, Sum
<1> QED
  BY <1>1, BufferInvariant, PTL

\* The buffer neither loses a call nor takes more than it has room for.
THEOREM BufferIsKept == BufferSpec => []BufferIsSound
<1>1. CallsAreKept /\ BufferIsBounded => BufferIsSound
  BY DEF BufferIsSound
<1> QED
  BY <1>1, CallsAreNeverLost, MemoryIsLimited, PTL
=============================================================================
