------------------------ MODULE WebhookOutboxProofs ------------------------
(***************************************************************************)
(* Theorems about the webhook outbox, for any number of deliveries,        *)
(* destinations and workers and for every value of its options.            *)
(***************************************************************************)
EXTENDS WebhookOutbox, FiniteSetTheorems, TLAPS

\* The backoff of an attempt is a number of at most maxRetryMs.
LEMMA BackoffRange ==
  ASSUME NEW n \in 1 .. MaxAttempts
  PROVE  Backoff(n) \in Int /\ Backoff(n) <= MaxRetry
BY OutboxAssumption DEF Backoff

\* The next attempt is never due earlier than a run may look back.
LEMMA RetryWaitRange ==
  ASSUME NEW w \in Worker, NEW n \in 1 .. MaxAttempts, lag[w] \in 0 .. MaxLag
  PROVE  RetryWait(w, n) \in Due
BY OutboxAssumption, BackoffRange DEF RetryWait, Due

-----------------------------------------------------------------------------
(* The inductive invariant of every run.                                    *)

\* A worker between runs, or before its claim, holds nothing; the delivery
\* in hand is one it holds, and only while its result is being recorded.
InHand ==
  \A w \in Worker :
    /\ pc[w] \in {"idle", "claiming"} => \A d \in Delivery : held[w][d] = 0
    /\ pc[w] \in {"succeeding", "failing"} <=> cur[w] \in Delivery
    /\ cur[w] \in Delivery => held[w][cur[w]] # 0

\* No worker holds an attempt that the row has not begun.
HeldWasBegun ==
  \A w \in Worker, d \in Delivery : held[w][d] <= attempts[d]

TypeInv == TypeOK /\ InHand

OwnerInv == HeldWasBegun /\ AttemptHasOneOwner

LEMMA TypeInit == Init => TypeInv
BY OutboxAssumption
DEF Init, TypeInv, TypeOK, InHand, RowStatus, DestStatus, Phase, Attempt, Due, Age, LogEntry, Nothing

\* Advance keeps the types and the bookkeeping of the worker in hand.
LEMMA AdvanceKeeps ==
  ASSUME TypeInv, NEW w \in Worker, NEW d \in Delivery, Advance(w, d)
  PROVE  /\ pc' \in [Worker -> Phase] /\ lag' \in [Worker -> 0 .. MaxLag]
         /\ held' \in [Worker -> [Delivery -> Attempt]]
         /\ cur' \in [Worker -> Delivery \cup {NoDelivery}]
         /\ InHand'
<1> DEFINE rest == [held[w] EXCEPT ![d] = 0]
<1>1. /\ held' = [held EXCEPT ![w] = rest]
      /\ cur'  = [cur EXCEPT ![w] = NoDelivery]
      /\ pc'   = [pc EXCEPT ![w] = IF rest = Nothing THEN "idle" ELSE "sending"]
      /\ lag'  = [lag EXCEPT ![w] = IF rest = Nothing THEN 0 ELSE lag[w]]
  BY DEF Advance
<1>2. rest \in [Delivery -> Attempt]
  BY OutboxAssumption DEF TypeInv, TypeOK, Attempt
<1>3. rest = Nothing => \A e \in Delivery : rest[e] = 0
  BY DEF Nothing
<1> HIDE DEF rest
<1>4. /\ pc' \in [Worker -> Phase] /\ lag' \in [Worker -> 0 .. MaxLag]
      /\ held' \in [Worker -> [Delivery -> Attempt]]
      /\ cur' \in [Worker -> Delivery \cup {NoDelivery}]
  BY <1>1, <1>2, OutboxAssumption DEF TypeInv, TypeOK, Phase
<1>5. ASSUME NEW v \in Worker
      PROVE  /\ pc'[v] \in {"idle", "claiming"} => \A e \in Delivery : held'[v][e] = 0
             /\ pc'[v] \in {"succeeding", "failing"} <=> cur'[v] \in Delivery
             /\ cur'[v] \in Delivery => held'[v][cur'[v]] # 0
  <2>1. CASE v = w
    <3>1. /\ held'[v] = rest /\ cur'[v] = NoDelivery
          /\ pc'[v] = IF rest = Nothing THEN "idle" ELSE "sending"
      BY <1>1, <2>1 DEF TypeInv, TypeOK
    <3> QED
      BY <3>1, <1>3, OutboxAssumption
  <2>2. CASE v # w
    <3>1. held'[v] = held[v] /\ cur'[v] = cur[v] /\ pc'[v] = pc[v]
      BY <1>1, <2>2 DEF TypeInv, TypeOK
    <3> QED
      BY <3>1 DEF TypeInv, InHand
  <2> QED
    BY <2>1, <2>2
<1> QED
  BY <1>4, <1>5 DEF InHand

LEMMA TypeNext == TypeInv /\ [Next]_vars => TypeInv'
<1> SUFFICES ASSUME TypeInv, [Next]_vars PROVE TypeInv'
  OBVIOUS
<1> USE OutboxAssumption
    DEF TypeInv, TypeOK, InHand, RowStatus, DestStatus, Phase, Attempt, Due, Age, LogEntry,
        row, runner, network
<1>1. ASSUME NEW d \in Delivery, Insert(d) PROVE TypeInv'
  BY <1>1 DEF Insert
<1>2. ASSUME NEW w \in Worker, BeginRun(w) PROVE TypeInv'
  BY <1>2 DEF BeginRun
<1>3. ASSUME NEW w \in Worker, Claim(w) PROVE TypeInv'
  <2>1. PICK S \in SUBSET Delivery :
       /\ IsBatch(w, S)
       /\ status'   = [d \in Delivery |-> IF d \in S THEN "delivering" ELSE status[d]]
       /\ attempts' = [d \in Delivery |-> IF d \in S THEN NextAttempt(d) ELSE attempts[d]]
       /\ age'      = [d \in Delivery |-> IF d \in S THEN lag[w] ELSE age[d]]
       /\ held'     = [held EXCEPT ![w] = [d \in Delivery |-> IF d \in S THEN NextAttempt(d) ELSE 0]]
       /\ pc'       = [pc EXCEPT ![w] = IF S = {} THEN "idle" ELSE "sending"]
       /\ lag'      = [lag EXCEPT ![w] = IF S = {} THEN 0 ELSE lag[w]]
    BY <1>3 DEF Claim
  <2>2. \A d \in S : attempts[d] < MaxAttempts
    BY <2>1 DEF IsBatch, Claimable
  <2> DEFINE claim == [d \in Delivery |-> IF d \in S THEN attempts[d] + 1 ELSE 0]
  <2>3. \A d \in S : attempts[d] + 1 \in Attempt
    BY <2>2
  <2>4. attempts' \in [Delivery -> Attempt]
    BY <2>1, <2>3 DEF NextAttempt
  <2>5. claim \in [Delivery -> Attempt]
    BY <2>3
  <2>6. S = {} => \A d \in Delivery : claim[d] = 0
    OBVIOUS
  <2>7. held' = [held EXCEPT ![w] = claim]
    BY <2>1 DEF NextAttempt
  <2> HIDE DEF claim
  <2>8. status' \in [Delivery -> RowStatus] /\ age' \in [Delivery -> Age]
    <3>1. /\ status' = [d \in Delivery |-> IF d \in S THEN "delivering" ELSE status[d]]
          /\ age' = [d \in Delivery |-> IF d \in S THEN lag[w] ELSE age[d]]
      BY <2>1
    <3>2. lag[w] \in Age
      OBVIOUS
    <3> QED
      BY <3>1, <3>2
  <2>9. /\ pc' \in [Worker -> Phase] /\ lag' \in [Worker -> 0 .. MaxLag]
        /\ held' \in [Worker -> [Delivery -> Attempt]]
    <3>1. /\ pc' = [pc EXCEPT ![w] = IF S = {} THEN "idle" ELSE "sending"]
          /\ lag' = [lag EXCEPT ![w] = IF S = {} THEN 0 ELSE lag[w]]
      BY <2>1
    <3>2. held' \in [Worker -> [Delivery -> Attempt]]
      BY <2>5, <2>7
    <3>3. pc' \in [Worker -> Phase]
      BY <3>1
    <3>4. lag' \in [Worker -> 0 .. MaxLag]
      BY <3>1
    <3> QED
      BY <3>2, <3>3, <3>4
  <2>10. pc[w] = "claiming" /\ cur' = cur
    BY <1>3 DEF Claim
  <2>11. ASSUME NEW v \in Worker
         PROVE  /\ pc'[v] \in {"idle", "claiming"} => \A e \in Delivery : held'[v][e] = 0
                /\ pc'[v] \in {"succeeding", "failing"} <=> cur'[v] \in Delivery
                /\ cur'[v] \in Delivery => held'[v][cur'[v]] # 0
    <3>1. CASE v = w
      <4>1. held'[v] = claim /\ pc'[v] = (IF S = {} THEN "idle" ELSE "sending")
        BY <2>1, <2>7, <3>1
      <4>2. cur'[v] \notin Delivery
        BY <2>10, <3>1
      <4> QED
        BY <4>1, <4>2, <2>6
    <3>2. CASE v # w
      BY <2>1, <2>7, <2>10, <3>2
    <3> QED
      BY <3>1, <3>2
  <2> QED
    BY <1>3, <2>4, <2>8, <2>9, <2>11 DEF Claim
<1>4. ASSUME NEW w \in Worker, NEW d \in Delivery, Post(w, d) PROVE TypeInv'
  <2>1. PICK accept \in BOOLEAN, answered \in BOOLEAN :
          /\ accepted' = [accepted EXCEPT ![d] = accepted[d] \/ accept]
          /\ pc' = [pc EXCEPT ![w] = IF Succeeds(accept, answered) THEN "succeeding" ELSE "failing"]
    BY <1>4 DEF Post
  <2>2. accepted' \in [Delivery -> BOOLEAN]
    BY <2>1
  <2>3. pc' \in [Worker -> Phase] /\ pc'[w] \in {"succeeding", "failing"}
        /\ \A v \in Worker \ {w} : pc'[v] = pc[v]
    BY <2>1
  <2>4. posted' \in [Delivery -> Nat] /\ cur' \in [Worker -> Delivery \cup {NoDelivery}]
    BY <1>4 DEF Post
  <2>5. InHand'
    BY <1>4, <2>3 DEF Post
  <2> QED
    BY <1>4, <2>2, <2>3, <2>4, <2>5 DEF Post
<1>5. ASSUME NEW w \in Worker, NEW d \in Delivery, SendFails(w, d) PROVE TypeInv'
  BY <1>5 DEF SendFails
<1>6. ASSUME NEW w \in Worker, NEW d \in Delivery, FinishSuccess(w, d) PROVE TypeInv'
  <2>1. Advance(w, d)
    BY <1>6 DEF FinishSuccess
  <2>2. /\ status' \in [Delivery -> RowStatus] /\ deliveredAt' \in [Delivery -> BOOLEAN]
        /\ age' \in [Delivery -> Age] /\ dest' \in [Destination -> DestStatus]
        /\ log' \in [Delivery -> [1 .. MaxAttempts -> LogEntry]]
    BY <1>6 DEF FinishSuccess, RecordSuccess, LogWith
  <2> QED
    BY <1>6, <2>1, <2>2, AdvanceKeeps DEF FinishSuccess, RecordSuccess
<1>7. ASSUME NEW w \in Worker, SuccessRollsBack(w) PROVE TypeInv'
  BY <1>7 DEF SuccessRollsBack
<1>8. ASSUME NEW w \in Worker, NEW d \in Delivery, SuccessUnacknowledged(w, d) PROVE TypeInv'
  BY <1>8 DEF SuccessUnacknowledged, RecordSuccess, LogWith
<1>9. ASSUME NEW w \in Worker, NEW d \in Delivery, FinishFailure(w, d) PROVE TypeInv'
  <2>1. held[w][d] \in 1 .. MaxAttempts
    BY <1>9 DEF FinishFailure
  <2>2. RetryWait(w, held[w][d]) \in Due
    BY <2>1, RetryWaitRange
  <2>3. wait' \in [Delivery -> Due]
    BY <1>9, <2>2 DEF FinishFailure
  <2>4. status' \in [Delivery -> RowStatus]
    BY <1>9 DEF FinishFailure, Verdict
  <2>5. log' \in [Delivery -> [1 .. MaxAttempts -> LogEntry]]
    BY <1>9 DEF FinishFailure, LogWith
  <2>6. age' \in [Delivery -> Age] /\ dest' \in [Destination -> DestStatus]
    BY <1>9 DEF FinishFailure
  <2>7. Advance(w, d)
    BY <1>9 DEF FinishFailure
  <2> QED
    BY <1>9, <2>3, <2>4, <2>5, <2>6, <2>7, AdvanceKeeps DEF FinishFailure
<1>10. ASSUME NEW w \in Worker, Abandon(w) PROVE TypeInv'
  BY <1>10 DEF Abandon, Nothing
<1>11. CASE Tick
  BY <1>11 DEF Tick
<1>12. CASE UNCHANGED vars
  BY <1>12 DEF vars
<1> QED
  BY <1>1, <1>2, <1>3, <1>4, <1>5, <1>6, <1>7, <1>8, <1>9, <1>10, <1>11, <1>12
  DEF Next, Enqueue, EnqueueTest, EnqueueAction

\* Every value keeps its type in every behaviour of the outbox; in
\* particular no row is ever claimed more than maxAttempts times.
THEOREM TypeCorrect == Spec => []TypeOK
<1>1. Spec => []TypeInv
  BY TypeInit, TypeNext, PTL DEF Spec
<1>2. TypeInv => TypeOK
  BY DEF TypeInv
<1> QED
  BY <1>1, <1>2, PTL

-----------------------------------------------------------------------------
(* Who owns an attempt.                                                     *)

\* Only a claim takes deliveries or begins attempts: every other step of
\* the outbox leaves what a worker holds alone or gives it up.
HeldShrinks ==
  /\ attempts' = attempts
  /\ \A v \in Worker, e \in Delivery : held'[v][e] = held[v][e] \/ held'[v][e] = 0

LEMMA AdvanceShrinks ==
  ASSUME TypeInv, NEW w \in Worker, NEW d \in Delivery, Advance(w, d)
  PROVE  \A v \in Worker, e \in Delivery : held'[v][e] = held[v][e] \/ held'[v][e] = 0
BY DEF Advance, TypeInv, TypeOK

LEMMA OnlyClaimTakes ==
  ASSUME TypeInv, [Next]_vars, ~ \E w \in Worker : Claim(w)
  PROVE  HeldShrinks
<1> USE DEF HeldShrinks, row, runner, network
<1>1. ASSUME NEW d \in Delivery, Insert(d) PROVE HeldShrinks
  BY <1>1 DEF Insert
<1>2. ASSUME NEW w \in Worker, BeginRun(w) \/ SuccessRollsBack(w) PROVE HeldShrinks
  BY <1>2 DEF BeginRun, SuccessRollsBack
<1>3. ASSUME NEW w \in Worker, NEW d \in Delivery,
             Post(w, d) \/ SendFails(w, d) \/ SuccessUnacknowledged(w, d)
      PROVE  HeldShrinks
  BY <1>3 DEF Post, SendFails, SuccessUnacknowledged, RecordSuccess
<1>4. ASSUME NEW w \in Worker, NEW d \in Delivery, FinishSuccess(w, d) \/ FinishFailure(w, d)
      PROVE  HeldShrinks
  BY <1>4, AdvanceShrinks DEF FinishSuccess, FinishFailure, RecordSuccess
<1>5. ASSUME NEW w \in Worker, Abandon(w) PROVE HeldShrinks
  BY <1>5 DEF Abandon, Nothing, TypeInv, TypeOK
<1>6. CASE Tick
  BY <1>6 DEF Tick
<1>7. CASE UNCHANGED vars
  BY <1>7 DEF vars
<1> QED
  BY <1>1, <1>2, <1>3, <1>4, <1>5, <1>6, <1>7 DEF Next, Enqueue, EnqueueTest, EnqueueAction

\* What a claim does to one delivery, as seen by every worker.
LEMMA ClaimTakes ==
  ASSUME TypeInv, NEW w \in Worker, Claim(w), NEW d \in Delivery
  PROVE  /\ held[w][d] = 0
         /\ \A v \in Worker \ {w} : held'[v][d] = held[v][d]
         /\ \/ held'[w][d] = 0 /\ attempts'[d] = attempts[d] /\ status'[d] = status[d] /\ age'[d] = age[d]
            \/ /\ Claimable(w, d)
               /\ held'[w][d] = attempts[d] + 1 /\ attempts'[d] = attempts[d] + 1
               /\ status'[d] = "delivering" /\ age'[d] = lag[w] /\ lag'[w] = lag[w]
               /\ pc'[w] = "sending"
<1>1. PICK S \in SUBSET Delivery :
       /\ IsBatch(w, S)
       /\ status'   = [e \in Delivery |-> IF e \in S THEN "delivering" ELSE status[e]]
       /\ attempts' = [e \in Delivery |-> IF e \in S THEN NextAttempt(e) ELSE attempts[e]]
       /\ age'      = [e \in Delivery |-> IF e \in S THEN lag[w] ELSE age[e]]
       /\ held'     = [held EXCEPT ![w] = [e \in Delivery |-> IF e \in S THEN NextAttempt(e) ELSE 0]]
       /\ pc'       = [pc EXCEPT ![w] = IF S = {} THEN "idle" ELSE "sending"]
       /\ lag'      = [lag EXCEPT ![w] = IF S = {} THEN 0 ELSE lag[w]]
  BY DEF Claim
<1>2. held[w][d] = 0
  BY DEF Claim, TypeInv, InHand
<1>3. held'[w] = [e \in Delivery |-> IF e \in S THEN NextAttempt(e) ELSE 0]
      /\ \A v \in Worker \ {w} : held'[v] = held[v]
  BY <1>1 DEF TypeInv, TypeOK
<1>4. CASE d \in S
  <2>1. S # {} /\ Claimable(w, d)
    BY <1>1, <1>4 DEF IsBatch
  <2>2. lag'[w] = lag[w] /\ pc'[w] = "sending"
    BY <1>1, <2>1 DEF TypeInv, TypeOK
  <2> QED
    BY <1>1, <1>2, <1>3, <1>4, <2>1, <2>2 DEF NextAttempt
<1>5. CASE d \notin S
  BY <1>1, <1>2, <1>3, <1>5
<1> QED
  BY <1>4, <1>5

LEMMA OwnerNext == TypeInv /\ OwnerInv /\ [Next]_vars => OwnerInv'
<1> SUFFICES ASSUME TypeInv, OwnerInv, [Next]_vars PROVE OwnerInv'
  OBVIOUS
<1> USE DEF OwnerInv, HeldWasBegun, AttemptHasOneOwner
<1>1. ASSUME NEW w \in Worker, Claim(w) PROVE OwnerInv'
  <2>1. ASSUME NEW v \in Worker, NEW d \in Delivery PROVE held'[v][d] <= attempts'[d]
    <3>1. /\ held[v][d] \in Nat /\ attempts[d] \in Nat /\ held[v][d] <= attempts[d]
      BY OutboxAssumption DEF TypeInv, TypeOK, Attempt
    <3>2. attempts'[d] = attempts[d] \/ attempts'[d] = attempts[d] + 1
      BY <1>1, ClaimTakes
    <3>3. CASE v = w
      BY <1>1, <3>1, <3>2, <3>3, ClaimTakes
    <3>4. CASE v # w
      <4>1. held'[v][d] = held[v][d]
        BY <1>1, <3>4, ClaimTakes
      <4> QED
        BY <3>1, <3>2, <4>1
    <3> QED
      BY <3>3, <3>4
  <2>2. ASSUME NEW u \in Worker, NEW v \in Worker, NEW d \in Delivery,
               u # v, held'[u][d] # 0
        PROVE  held'[u][d] # held'[v][d]
    <3>1. CASE u # w /\ v # w
      BY <1>1, <2>2, <3>1, ClaimTakes
    <3>2. CASE u = w
      BY <1>1, <2>2, <3>2, ClaimTakes DEF TypeInv, TypeOK, Attempt
    <3>3. CASE v = w
      BY <1>1, <2>2, <3>3, ClaimTakes DEF TypeInv, TypeOK, Attempt
    <3> QED
      BY <3>1, <3>2, <3>3
  <2> QED
    BY <2>1, <2>2
<1>2. CASE ~ \E w \in Worker : Claim(w)
  <2>1. HeldShrinks
    BY <1>2, OnlyClaimTakes
  <2>2. \A w \in Worker, d \in Delivery : held[w][d] \in Nat /\ attempts[d] \in Nat
    BY OutboxAssumption DEF TypeInv, TypeOK, Attempt
  <2>3. HeldWasBegun'
    BY <2>1, <2>2 DEF HeldShrinks
  <2>4. AttemptHasOneOwner'
    BY <2>1 DEF HeldShrinks
  <2> QED
    BY <2>3, <2>4
<1> QED
  BY <1>1, <1>2

LEMMA OwnerInit == Init => OwnerInv
BY DEF Init, OwnerInv, HeldWasBegun, AttemptHasOneOwner, Nothing

\* An attempt number has one owner, whatever leases expire: the attempt row
\* a worker writes is its own, so ON CONFLICT DO NOTHING never drops it.
THEOREM AttemptOwnership == Spec => []AttemptHasOneOwner
<1>1. Spec => [](TypeInv /\ OwnerInv)
  BY TypeInit, TypeNext, OwnerInit, OwnerNext, PTL DEF Spec
<1>2. OwnerInv => AttemptHasOneOwner
  BY DEF OwnerInv
<1> QED
  BY <1>1, <1>2, PTL

-----------------------------------------------------------------------------
(* Timely runs: every run ends before its lease does and the acknowledgement *)
(* of a committed success is not lost.                                       *)

Timely == MaxLag < Lease /\ "lost_ack" \notin Faults

\* A delivery in the hands of a worker is `delivering', and its updated_at is
\* the `now' of that worker's run: the lease counts from the same instant.
LeaseInv ==
  \A w \in Worker, d \in Delivery :
    held[w][d] # 0 => status[d] = "delivering" /\ age[d] = lag[w]

\* A worker about to record a success has seen the endpoint accept.
SeenAccepted ==
  \A w \in Worker : pc[w] = "succeeding" => accepted[cur[w]]

TimelyInv == TypeInv /\ OwnerInv /\ LeaseInv /\ OneHolder /\ SeenAccepted

LEMMA TimelyInit == Init => TimelyInv
BY TypeInit, OwnerInit
DEF Init, TimelyInv, LeaseInv, OneHolder, SeenAccepted, Nothing

\* Within a timely run nobody else can claim what a worker holds.
LEMMA HeldIsNotClaimable ==
  ASSUME Timely, TimelyInv, NEW v \in Worker, NEW w \in Worker, NEW d \in Delivery,
         held[v][d] # 0
  PROVE  ~ Claimable(w, d)
<1>1. status[d] = "delivering" /\ age[d] = lag[v]
  BY DEF TimelyInv, LeaseInv
<1>2. lag[v] \in 0 .. MaxLag /\ lag[w] \in 0 .. MaxLag
  BY DEF TimelyInv, TypeInv, TypeOK
<1> QED
  BY <1>1, <1>2, OutboxAssumption DEF Claimable, LeaseExpired, Timely

\* LeaseInv and OneHolder after a step that only touches the row of a
\* delivery d that worker w gives up.
LEMMA GiveUpRow ==
  ASSUME TimelyInv, NEW w \in Worker, NEW d \in Delivery, held[w][d] # 0, Advance(w, d),
         \A e \in Delivery \ {d} : status'[e] = status[e] /\ age'[e] = age[e]
  PROVE  LeaseInv' /\ OneHolder'
<1>1. held'[w][d] = 0 /\ \A e \in Delivery \ {d} : held'[w][e] = held[w][e]
  BY DEF Advance, TimelyInv, TypeInv, TypeOK
<1>2. \A v \in Worker \ {w} : held'[v] = held[v] /\ lag'[v] = lag[v]
  BY DEF Advance, TimelyInv, TypeInv, TypeOK
<1>3. ASSUME NEW e \in Delivery, held'[w][e] # 0 PROVE lag'[w] = lag[w]
  <2> DEFINE rest == [held[w] EXCEPT ![d] = 0]
  <2>1. /\ held' = [held EXCEPT ![w] = rest]
        /\ lag'  = [lag EXCEPT ![w] = IF rest = Nothing THEN 0 ELSE lag[w]]
    BY DEF Advance
  <2>2. rest[e] # 0
    BY <1>3, <2>1 DEF TimelyInv, TypeInv, TypeOK
  <2>3. rest # Nothing
    BY <2>2 DEF Nothing
  <2> QED
    BY <2>1, <2>3 DEF TimelyInv, TypeInv, TypeOK
<1>4. \A v \in Worker \ {w} : held[v][d] = 0
  BY DEF TimelyInv, OneHolder
<1>5. ASSUME NEW v \in Worker, NEW e \in Delivery, held'[v][e] # 0
      PROVE  status'[e] = "delivering" /\ age'[e] = lag'[v]
  <2>1. e # d /\ held[v][e] # 0 /\ lag'[v] = lag[v]
    BY <1>1, <1>2, <1>3, <1>4, <1>5
  <2> QED
    BY <2>1 DEF TimelyInv, LeaseInv
<1>6. OneHolder'
  BY <1>1, <1>2 DEF TimelyInv, OneHolder
<1> QED
  BY <1>5, <1>6 DEF LeaseInv

LEMMA LeaseNext == Timely /\ TimelyInv /\ [Next]_vars => LeaseInv' /\ OneHolder'
<1> SUFFICES ASSUME Timely, TimelyInv, [Next]_vars PROVE LeaseInv' /\ OneHolder'
  OBVIOUS
<1> USE DEF row, runner, network
<1>0. TypeInv /\ LeaseInv /\ OneHolder
  BY DEF TimelyInv
<1>1. ASSUME NEW d \in Delivery, Insert(d) PROVE LeaseInv' /\ OneHolder'
  BY <1>0, <1>1 DEF Insert, LeaseInv, OneHolder, TypeInv, TypeOK
<1>2. ASSUME NEW w \in Worker, BeginRun(w) \/ SuccessRollsBack(w) PROVE LeaseInv' /\ OneHolder'
  BY <1>0, <1>2 DEF BeginRun, SuccessRollsBack, LeaseInv, OneHolder
<1>3. ASSUME NEW w \in Worker, Claim(w) PROVE LeaseInv' /\ OneHolder'
  <2>1. ASSUME NEW v \in Worker, NEW d \in Delivery, held'[v][d] # 0
        PROVE  status'[d] = "delivering" /\ age'[d] = lag'[v]
    <3>1. CASE v = w
      BY <1>0, <1>3, <2>1, <3>1, ClaimTakes
    <3>2. CASE v # w
      <4>1. held[v][d] # 0
        BY <1>0, <1>3, <2>1, <3>2, ClaimTakes
      <4>2. status'[d] = status[d] /\ age'[d] = age[d]
        BY <1>0, <1>3, <4>1, HeldIsNotClaimable, ClaimTakes
      <4>3. lag'[v] = lag[v]
        BY <1>0, <1>3, <3>2 DEF Claim, TypeInv, TypeOK
      <4> QED
        BY <1>0, <4>1, <4>2, <4>3 DEF LeaseInv
    <3> QED
      BY <3>1, <3>2
  <2>2. ASSUME NEW u \in Worker, NEW v \in Worker, NEW d \in Delivery,
               held'[u][d] # 0, held'[v][d] # 0, u # v
        PROVE  FALSE
    <3>1. CASE u # w /\ v # w
      BY <1>0, <1>3, <2>2, <3>1, ClaimTakes DEF OneHolder
    <3>2. CASE u = w
      <4>1. held[v][d] # 0 /\ Claimable(w, d)
        BY <1>0, <1>3, <2>2, <3>2, ClaimTakes
      <4> QED
        BY <4>1, HeldIsNotClaimable
    <3>3. CASE v = w
      <4>1. held[u][d] # 0 /\ Claimable(w, d)
        BY <1>0, <1>3, <2>2, <3>3, ClaimTakes
      <4> QED
        BY <4>1, HeldIsNotClaimable
    <3> QED
      BY <3>1, <3>2, <3>3
  <2> QED
    BY <2>1, <2>2 DEF LeaseInv, OneHolder
<1>4. ASSUME NEW w \in Worker, NEW d \in Delivery, Post(w, d) \/ SendFails(w, d)
      PROVE  LeaseInv' /\ OneHolder'
  BY <1>0, <1>4 DEF Post, SendFails, LeaseInv, OneHolder
<1>5. ASSUME NEW w \in Worker, NEW d \in Delivery, FinishSuccess(w, d) \/ FinishFailure(w, d)
      PROVE  LeaseInv' /\ OneHolder'
  <2>1. Advance(w, d) /\ held[w][d] # 0
    BY <1>0, <1>5 DEF FinishSuccess, FinishFailure, TypeInv, InHand
  <2>2. \A e \in Delivery \ {d} : status'[e] = status[e] /\ age'[e] = age[e]
    BY <1>0, <1>5 DEF FinishSuccess, FinishFailure, RecordSuccess, TypeInv, TypeOK
  <2> QED
    BY <2>1, <2>2, GiveUpRow
<1>6. ASSUME NEW w \in Worker, NEW d \in Delivery, SuccessUnacknowledged(w, d) PROVE FALSE
  BY <1>6 DEF SuccessUnacknowledged, Timely
<1>7. ASSUME NEW w \in Worker, Abandon(w) PROVE LeaseInv' /\ OneHolder'
  <2>1. \A d \in Delivery : held'[w][d] = 0
    BY <1>0, <1>7 DEF Abandon, Nothing, TypeInv, TypeOK
  <2>2. \A v \in Worker \ {w} : held'[v] = held[v] /\ lag'[v] = lag[v]
    BY <1>0, <1>7 DEF Abandon, TypeInv, TypeOK
  <2>3. status' = status /\ age' = age
    BY <1>7 DEF Abandon
  <2> QED
    BY <1>0, <2>1, <2>2, <2>3 DEF LeaseInv, OneHolder
<1>8. CASE Tick
  <2>1. held' = held /\ status' = status
    BY <1>8 DEF Tick
  <2>2. ASSUME NEW w \in Worker, NEW d \in Delivery, held[w][d] # 0
        PROVE  age'[d] = lag'[w]
    <3>1. pc[w] # "idle" /\ status[d] = "delivering" /\ age[d] = lag[w]
      BY <1>0, <2>2 DEF TypeInv, InHand, LeaseInv
    <3>2. lag[w] \in 0 .. MaxLag /\ lag[w] < MaxLag
      BY <1>0, <1>8, <3>1 DEF Tick, TypeInv, TypeOK
    <3>3. lag'[w] = lag[w] + 1
      BY <1>8, <3>1 DEF Tick
    <3>4. age[d] < Lease + MaxLag
      BY <3>1, <3>2, OutboxAssumption
    <3>5. age'[d] = age[d] + 1
      BY <1>8, <3>1, <3>4 DEF Tick
    <3> QED
      BY <3>1, <3>3, <3>5
  <2> QED
    BY <1>0, <2>1, <2>2 DEF LeaseInv, OneHolder
<1>9. CASE UNCHANGED vars
  BY <1>0, <1>9 DEF vars, LeaseInv, OneHolder
<1> QED
  BY <1>1, <1>2, <1>3, <1>4, <1>5, <1>6, <1>7, <1>8, <1>9
  DEF Next, Enqueue, EnqueueTest, EnqueueAction

LEMMA SeenAcceptedNext == TypeInv /\ SeenAccepted /\ [Next]_vars => SeenAccepted'
<1> SUFFICES ASSUME TypeInv, SeenAccepted, [Next]_vars, NEW v \in Worker, pc'[v] = "succeeding"
             PROVE  accepted'[cur'[v]]
  BY DEF SeenAccepted
<1> USE DEF row, runner, network
<1>0. pc \in [Worker -> Phase] /\ cur \in [Worker -> Delivery \cup {NoDelivery}]
      /\ accepted \in [Delivery -> BOOLEAN]
  BY DEF TypeInv, TypeOK
<1>1. CASE pc[v] = "succeeding" /\ cur'[v] = cur[v] /\ accepted' = accepted
  BY <1>1 DEF SeenAccepted
<1>2. ASSUME NEW d \in Delivery, Insert(d) PROVE accepted'[cur'[v]]
  BY <1>1, <1>2 DEF Insert
<1>3. ASSUME NEW w \in Worker, BeginRun(w) \/ SuccessRollsBack(w) \/ Abandon(w) PROVE accepted'[cur'[v]]
  BY <1>0, <1>1, <1>3 DEF BeginRun, SuccessRollsBack, Abandon
<1>4. ASSUME NEW w \in Worker, Claim(w) PROVE accepted'[cur'[v]]
  BY <1>0, <1>1, <1>4 DEF Claim
<1>5. ASSUME NEW w \in Worker, NEW d \in Delivery, Post(w, d) PROVE accepted'[cur'[v]]
  <2>1. PICK accept \in BOOLEAN, answered \in BOOLEAN :
          /\ accepted' = [accepted EXCEPT ![d] = accepted[d] \/ accept]
          /\ pc' = [pc EXCEPT ![w] = IF Succeeds(accept, answered) THEN "succeeding" ELSE "failing"]
    BY <1>5 DEF Post
  <2>2. cur' = [cur EXCEPT ![w] = d]
    BY <1>5 DEF Post
  <2>3. CASE v = w
    <3>1. accept /\ cur'[v] = d
      BY <1>0, <2>1, <2>2, <2>3 DEF Succeeds
    <3> QED
      BY <1>0, <2>1, <3>1
  <2>4. CASE v # w
    <3>1. pc[v] = "succeeding" /\ cur'[v] = cur[v]
      BY <1>0, <2>1, <2>2, <2>4
    <3>2. cur[v] \in Delivery /\ accepted[cur[v]]
      BY <3>1 DEF TypeInv, InHand, SeenAccepted
    <3>3. accepted'[cur[v]] = IF cur[v] = d THEN accepted[d] \/ accept ELSE accepted[cur[v]]
      BY <1>0, <2>1, <3>2
    <3> QED
      BY <3>1, <3>2, <3>3
  <2> QED
    BY <2>3, <2>4
<1>6. ASSUME NEW w \in Worker, NEW d \in Delivery, SendFails(w, d) PROVE accepted'[cur'[v]]
  BY <1>0, <1>1, <1>6 DEF SendFails
<1>7. ASSUME NEW w \in Worker, NEW d \in Delivery, FinishSuccess(w, d) \/ FinishFailure(w, d)
      PROVE  accepted'[cur'[v]]
  <2>1. accepted' = accepted /\ Advance(w, d)
    BY <1>7 DEF FinishSuccess, FinishFailure, RecordSuccess
  <2>2. v # w /\ pc[v] = "succeeding" /\ cur'[v] = cur[v]
    BY <1>0, <2>1 DEF Advance
  <2> QED
    BY <1>1, <2>1, <2>2
<1>8. ASSUME NEW w \in Worker, NEW d \in Delivery, SuccessUnacknowledged(w, d)
      PROVE  accepted'[cur'[v]]
  BY <1>0, <1>1, <1>8 DEF SuccessUnacknowledged, RecordSuccess
<1>9. CASE Tick
  BY <1>1, <1>9 DEF Tick
<1>10. CASE UNCHANGED vars
  BY <1>1, <1>10 DEF vars
<1> QED
  BY <1>2, <1>3, <1>4, <1>5, <1>6, <1>7, <1>8, <1>9, <1>10
  DEF Next, Enqueue, EnqueueTest, EnqueueAction

LEMMA TimelyNext == Timely /\ TimelyInv /\ [Next]_vars => TimelyInv'
BY TypeNext, OwnerNext, LeaseNext, SeenAcceptedNext DEF TimelyInv

\* While runs are timely, a delivery is in the hands of one worker at most.
THEOREM OneHolderWhenTimely ==
  ASSUME Timely
  PROVE  Spec => []OneHolder
<1>1. TimelyInv /\ [Next]_vars => TimelyInv'
  BY TimelyNext
<1>2. TimelyInv => OneHolder
  BY DEF TimelyInv
<1> QED
  BY <1>1, <1>2, TimelyInit, PTL DEF Spec

-----------------------------------------------------------------------------
(* A timely outbox implements the delivery contract.                        *)

LEMMA ContractInit == Init => Contract!Init
BY DEF Init, Contract!Init, Outcome

\* The contract does not see a step that keeps what is owed owed.
LEMMA ContractStutter ==
  ASSUME Outcome' = Outcome, attempts' = attempts, accepted' = accepted
  PROVE  UNCHANGED Contract!vars
BY DEF Contract!vars

LEMMA ContractStep == Timely /\ TimelyInv /\ [Next]_vars => [Contract!Next]_(Contract!vars)
<1> SUFFICES ASSUME Timely, TimelyInv, [Next]_vars PROVE [Contract!Next]_(Contract!vars)
  OBVIOUS
<1> USE DEF row, runner, network
<1>0. /\ TypeInv /\ LeaseInv /\ SeenAccepted /\ HeldWasBegun
      /\ status \in [Delivery -> RowStatus]
      /\ \A w \in Worker, d \in Delivery : held[w][d] \in Nat /\ attempts[d] \in Nat
  BY OutboxAssumption DEF TimelyInv, OwnerInv, TypeInv, TypeOK, Attempt
<1>1. ASSUME NEW d \in Delivery, Insert(d) PROVE [Contract!Next]_(Contract!vars)
  <2>1. Outcome[d] = "absent" /\ Outcome' = [Outcome EXCEPT ![d] = "owed"]
    BY <1>0, <1>1 DEF Insert, Outcome
  <2>2. Contract!Owe(d)
    BY <1>1, <2>1 DEF Insert, Contract!Owe
  <2> QED
    BY <2>2 DEF Contract!Next
<1>2. ASSUME NEW w \in Worker, BeginRun(w) \/ SuccessRollsBack(w) \/ Abandon(w)
      PROVE  [Contract!Next]_(Contract!vars)
  BY <1>2, ContractStutter DEF BeginRun, SuccessRollsBack, Abandon, Outcome
<1>3. ASSUME NEW w \in Worker, Claim(w) PROVE [Contract!Next]_(Contract!vars)
  <2>1. PICK S \in SUBSET Delivery :
       /\ IsBatch(w, S)
       /\ status'   = [d \in Delivery |-> IF d \in S THEN "delivering" ELSE status[d]]
       /\ attempts' = [d \in Delivery |-> IF d \in S THEN NextAttempt(d) ELSE attempts[d]]
    BY <1>3 DEF Claim
  <2>2. \A d \in S : status[d] \in {"pending", "failed", "delivering"} /\ attempts[d] < MaxAttempts
    BY <2>1 DEF IsBatch, Claimable
  <2>3. Outcome' = Outcome
    BY <1>0, <2>1, <2>2 DEF Outcome
  <2>4. Contract!Try(S)
    BY <1>3, <2>1, <2>2, <2>3 DEF Contract!Try, Claim, Outcome, NextAttempt
  <2> QED
    BY <2>4 DEF Contract!Next
<1>4. ASSUME NEW w \in Worker, NEW d \in Delivery, Post(w, d) PROVE [Contract!Next]_(Contract!vars)
  <2>1. Outcome' = Outcome /\ attempts' = attempts
    BY <1>4 DEF Post, Outcome
  <2>2. Outcome[d] = "owed" /\ attempts[d] > 0
    BY <1>0, <1>4 DEF Post, LeaseInv, HeldWasBegun, Outcome
  <2>3. accepted' = accepted \/ accepted' = [accepted EXCEPT ![d] = TRUE]
    <3>1. PICK accept \in BOOLEAN : accepted' = [accepted EXCEPT ![d] = accepted[d] \/ accept]
      BY <1>4 DEF Post
    <3>2. accepted \in [Delivery -> BOOLEAN]
      BY <1>0 DEF TypeInv, TypeOK
    <3>3. CASE accept
      BY <3>1, <3>3
    <3>4. CASE ~accept
      BY <3>1, <3>2, <3>4
    <3> QED
      BY <3>3, <3>4
  <2>4. CASE accepted' = accepted
    BY <2>1, <2>4, ContractStutter
  <2>5. CASE accepted' = [accepted EXCEPT ![d] = TRUE]
    BY <2>1, <2>2, <2>5 DEF Contract!Next, Contract!Accept
  <2> QED
    BY <2>3, <2>4, <2>5
<1>5. ASSUME NEW w \in Worker, NEW d \in Delivery, SendFails(w, d) PROVE [Contract!Next]_(Contract!vars)
  BY <1>5, ContractStutter DEF SendFails, Outcome
<1>6. ASSUME NEW w \in Worker, NEW d \in Delivery, FinishSuccess(w, d)
      PROVE  [Contract!Next]_(Contract!vars)
  <2>1. Outcome[d] = "owed" /\ accepted[d]
    BY <1>0, <1>6 DEF FinishSuccess, TypeInv, InHand, LeaseInv, SeenAccepted, Outcome
  <2>2. Outcome' = [Outcome EXCEPT ![d] = "delivered"]
    BY <1>0, <1>6 DEF FinishSuccess, RecordSuccess, Outcome
  <2>3. Contract!Deliver(d)
    BY <1>6, <2>1, <2>2 DEF FinishSuccess, RecordSuccess, Contract!Deliver
  <2> QED
    BY <2>3 DEF Contract!Next
<1>7. ASSUME NEW w \in Worker, NEW d \in Delivery, SuccessUnacknowledged(w, d) PROVE FALSE
  BY <1>7 DEF SuccessUnacknowledged, Timely
<1>8. ASSUME NEW w \in Worker, NEW d \in Delivery, FinishFailure(w, d)
      PROVE  [Contract!Next]_(Contract!vars)
  <2>1. status[d] = "delivering" /\ held[w][d] <= attempts[d]
    BY <1>0, <1>8 DEF FinishFailure, TypeInv, InHand, LeaseInv, HeldWasBegun
  <2>2. attempts' = attempts /\ accepted' = accepted
        /\ status' = [status EXCEPT ![d] = Verdict(held[w][d])]
    BY <1>8 DEF FinishFailure
  <2>3. CASE held[w][d] >= MaxAttempts
    <3>1. status' = [status EXCEPT ![d] = "dead"]
      BY <2>2, <2>3 DEF Verdict
    <3>2. Outcome[d] = "owed" /\ Outcome' = [Outcome EXCEPT ![d] = "dead"]
      BY <1>0, <2>1, <3>1 DEF Outcome
    <3>3. attempts[d] >= MaxAttempts
      BY <1>0, <2>1, <2>3, OutboxAssumption
    <3>4. Contract!GiveUp(d)
      BY <2>2, <3>2, <3>3 DEF Contract!GiveUp
    <3> QED
      BY <3>4 DEF Contract!Next
  <2>4. CASE ~(held[w][d] >= MaxAttempts)
    <3>1. status' = [status EXCEPT ![d] = "failed"]
      BY <2>2, <2>4 DEF Verdict
    <3>2. Outcome' = Outcome
      BY <1>0, <2>1, <3>1 DEF Outcome
    <3> QED
      BY <2>2, <3>2, ContractStutter
  <2> QED
    BY <2>3, <2>4
<1>9. CASE Tick
  BY <1>9, ContractStutter DEF Tick, Outcome
<1>10. CASE UNCHANGED vars
  BY <1>10, ContractStutter DEF vars, Outcome
<1> QED
  BY <1>1, <1>2, <1>3, <1>4, <1>5, <1>6, <1>7, <1>8, <1>9, <1>10
  DEF Next, Enqueue, EnqueueTest, EnqueueAction

\* While runs are timely the outbox implements the delivery contract: what is
\* delivered or dead stays so and is not tried again, nothing is delivered
\* that was not accepted, and nothing is given up before its last attempt.
THEOREM ImplementsContract ==
  ASSUME Timely
  PROVE  Spec => ContractSpec
<1>1. TimelyInv /\ [Next]_vars => TimelyInv' /\ [Contract!Next]_(Contract!vars)
  BY TimelyNext, ContractStep
<1> QED
  BY <1>1, TimelyInit, ContractInit, PTL DEF Spec, ContractSpec, Contract!Spec

-----------------------------------------------------------------------------
(* What a row says of its attempts, in every run, timely or not.            *)

\* Worker w still has to send the attempt of d that it holds.
Unsent(w, d) == held[w][d] # 0 /\ ~(pc[w] \in {"succeeding", "failing"} /\ cur[w] = d)

\* Attempts of d that were begun and may still reach the endpoint.
UnsentAttempts(d) == {held[w][d] : w \in {v \in Worker : Unsent(v, d)}}

\* Every request and every attempt still to be sent is an attempt of its own.
SentInv ==
  \A d \in Delivery : posted[d] + Cardinality(UnsentAttempts(d)) <= attempts[d]

\* Worker w still has to log the attempt of d that it holds; one that was reported
\* failed may have been logged by a commit whose acknowledgement was lost.
Unlogged(w, d) == held[w][d] # 0 /\ ~(pc[w] = "failing" /\ cur[w] = d)

\* The log has no row of an attempt before it is begun, or before its owner logs it.
LogInv ==
  /\ \A d \in Delivery, n \in 1 .. MaxAttempts : n > attempts[d] => log[d][n] = "none"
  /\ \A w \in Worker, d \in Delivery : Unlogged(w, d) => log[d][held[w][d]] = "none"

TruthInv == SentInv /\ LogInv /\ SeenAccepted /\ DeliveredWasAccepted /\ TerminalStatusIsLogged

LEMMA TruthInit == Init => TruthInv
<1> SUFFICES ASSUME Init
             PROVE  TruthInv
  OBVIOUS
<1>1. \A d \in Delivery : UnsentAttempts(d) = {}
  BY DEF Init, UnsentAttempts, Unsent, Nothing
<1>2. SentInv
  <2>1. Cardinality({}) = 0
    BY FS_EmptySet
  <2>2. \A d \in Delivery : posted[d] = 0 /\ attempts[d] = 0
    BY DEF Init
  <2>3. \A d \in Delivery : Cardinality(UnsentAttempts(d)) = 0
    BY <1>1, <2>1
  <2> HIDE DEF UnsentAttempts
  <2> QED
    BY <2>2, <2>3 DEF SentInv
<1>3. LogInv /\ SeenAccepted /\ DeliveredWasAccepted /\ TerminalStatusIsLogged
  BY DEF Init, LogInv, Unlogged, SeenAccepted, DeliveredWasAccepted, TerminalStatusIsLogged, Nothing
<1> QED
  BY <1>2, <1>3 DEF TruthInv

\* What a worker that goes on to the rest of its batch leaves as it was.
LEMMA AdvanceLeaves ==
  ASSUME TypeInv, NEW w \in Worker, NEW d \in Delivery, cur[w] = d, Advance(w, d)
  PROVE  \A v \in Worker, e \in Delivery : held'[v][e] # 0 =>
           /\ held'[v][e] = held[v][e] /\ (v # w \/ e # d)
           /\ v # w => pc'[v] = pc[v] /\ cur'[v] = cur[v]
BY DEF Advance, TypeInv, TypeOK

-----------------------------------------------------------------------------
(* The bound on requests.                                                   *)

LEMMA UnsentIsFinite ==
  ASSUME TypeInv, OwnerInv, NEW d \in Delivery
  PROVE  /\ UnsentAttempts(d) \subseteq 1 .. attempts[d]
         /\ IsFiniteSet(UnsentAttempts(d)) /\ Cardinality(UnsentAttempts(d)) \in Nat
<1>1. attempts[d] \in Nat /\ \A w \in Worker : held[w][d] \in Nat /\ held[w][d] <= attempts[d]
  BY OutboxAssumption DEF TypeInv, TypeOK, Attempt, OwnerInv, HeldWasBegun
<1>2. UnsentAttempts(d) \subseteq 1 .. attempts[d]
  BY <1>1 DEF UnsentAttempts, Unsent
<1>3. IsFiniteSet(1 .. attempts[d])
  BY <1>1, FS_Interval
<1> QED
  BY <1>2, <1>3, FS_Subset, FS_CardinalityType

\* Every step but a claim and a request leaves the attempts to be sent alone, or
\* gives some up.
UnsentShrinks ==
  /\ attempts' = attempts /\ posted' = posted
  /\ \A w \in Worker, d \in Delivery : Unsent(w, d)' => Unsent(w, d) /\ held'[w][d] = held[w][d]

LEMMA ShrinkingKeepsSent ==
  ASSUME TypeInv, OwnerInv, SentInv, UnsentShrinks
  PROVE  SentInv'
<1> SUFFICES ASSUME NEW d \in Delivery
             PROVE  posted'[d] + Cardinality(UnsentAttempts(d)') <= attempts'[d]
  BY DEF SentInv
<1>1. UnsentAttempts(d)' \subseteq UnsentAttempts(d)
  BY DEF UnsentShrinks, UnsentAttempts
<1>2. /\ IsFiniteSet(UnsentAttempts(d)') /\ Cardinality(UnsentAttempts(d)') \in Nat
      /\ Cardinality(UnsentAttempts(d)') <= Cardinality(UnsentAttempts(d))
  BY <1>1, UnsentIsFinite, FS_Subset, FS_CardinalityType
<1>3. posted[d] \in Nat /\ attempts[d] \in Nat /\ Cardinality(UnsentAttempts(d)) \in Nat
  BY OutboxAssumption, UnsentIsFinite DEF TypeInv, TypeOK, Attempt
<1> QED
  BY <1>2, <1>3 DEF SentInv, UnsentShrinks

LEMMA PostKeepsSent ==
  ASSUME TypeInv, OwnerInv, SentInv, NEW w \in Worker, NEW d \in Delivery, Post(w, d)
  PROVE  SentInv'
<1> USE DEF row
<1>1. /\ pc[w] = "sending" /\ held[w][d] # 0 /\ UNCHANGED <<attempts, held>>
      /\ posted' = [posted EXCEPT ![d] = @ + 1] /\ cur'[w] = d
      /\ pc'[w] \in {"succeeding", "failing"}
      /\ \A v \in Worker \ {w} : pc'[v] = pc[v] /\ cur'[v] = cur[v]
  BY DEF Post, TypeInv, TypeOK
<1>2. ASSUME NEW e \in Delivery, e # d
      PROVE  UnsentAttempts(e)' = UnsentAttempts(e)
  <2>1. \A v \in Worker : Unsent(v, e)' <=> Unsent(v, e)
    BY <1>1, <1>2 DEF Unsent
  <2> QED
    BY <1>1, <2>1 DEF UnsentAttempts
<1>3. UnsentAttempts(d)' = UnsentAttempts(d) \ {held[w][d]} /\ held[w][d] \in UnsentAttempts(d)
  <2>1. \A v \in Worker : Unsent(v, d)' <=> Unsent(v, d) /\ v # w
    BY <1>1 DEF Unsent
  <2>2. Unsent(w, d)
    BY <1>1 DEF Unsent
  <2>3. \A v \in Worker \ {w} : held[v][d] # held[w][d]
    BY <1>1 DEF OwnerInv, AttemptHasOneOwner
  <2> QED
    BY <1>1, <2>1, <2>2, <2>3 DEF UnsentAttempts
<1>4. Cardinality(UnsentAttempts(d)') = Cardinality(UnsentAttempts(d)) - 1
  BY <1>3, UnsentIsFinite, FS_RemoveElement
<1>5. \A e \in Delivery : posted'[e] = IF e = d THEN posted[e] + 1 ELSE posted[e]
  BY <1>1 DEF TypeInv, TypeOK
<1>6. \A e \in Delivery : posted[e] \in Nat /\ attempts[e] \in Nat /\ Cardinality(UnsentAttempts(e)) \in Nat
  BY OutboxAssumption, UnsentIsFinite DEF TypeInv, TypeOK, Attempt
<1>7. \A e \in Delivery : posted'[e] + Cardinality(UnsentAttempts(e)') <= attempts'[e]
  BY <1>1, <1>2, <1>4, <1>5, <1>6 DEF SentInv
<1> QED
  BY <1>7 DEF SentInv

LEMMA ClaimKeepsSent ==
  ASSUME TypeInv, OwnerInv, SentInv, NEW w \in Worker, Claim(w)
  PROVE  SentInv'
<1> SUFFICES ASSUME NEW d \in Delivery
             PROVE  posted'[d] + Cardinality(UnsentAttempts(d)') <= attempts'[d]
  BY DEF SentInv
<1>1. posted' = posted /\ cur' = cur /\ \A v \in Worker \ {w} : pc'[v] = pc[v]
  BY DEF Claim, network, TypeInv, TypeOK
<1>2. posted[d] \in Nat /\ attempts[d] \in Nat /\ Cardinality(UnsentAttempts(d)) \in Nat
  BY OutboxAssumption, UnsentIsFinite DEF TypeInv, TypeOK, Attempt
<1>3. held[w][d] = 0 /\ \A v \in Worker \ {w} : held'[v][d] = held[v][d]
  BY ClaimTakes
<1>4. \A v \in Worker \ {w} : Unsent(v, d)' <=> Unsent(v, d)
  BY <1>1, <1>3 DEF Unsent
<1>5. ~Unsent(w, d)
  BY <1>3 DEF Unsent
<1>6. CASE held'[w][d] = 0 /\ attempts'[d] = attempts[d]
  <2>1. UnsentAttempts(d)' = UnsentAttempts(d)
    BY <1>3, <1>4, <1>5, <1>6 DEF UnsentAttempts, Unsent
  <2> QED
    BY <1>1, <1>6, <2>1 DEF SentInv
<1>7. CASE held'[w][d] = attempts[d] + 1 /\ attempts'[d] = attempts[d] + 1
  <2>1. UnsentAttempts(d)' \subseteq UnsentAttempts(d) \cup {attempts[d] + 1}
    BY <1>3, <1>4, <1>7 DEF UnsentAttempts
  <2>2. /\ IsFiniteSet(UnsentAttempts(d) \cup {attempts[d] + 1})
        /\ Cardinality(UnsentAttempts(d) \cup {attempts[d] + 1}) \in Nat
        /\ Cardinality(UnsentAttempts(d) \cup {attempts[d] + 1}) <= Cardinality(UnsentAttempts(d)) + 1
    <3>1. IsFiniteSet(UnsentAttempts(d))
      BY UnsentIsFinite
    <3>2. /\ IsFiniteSet(UnsentAttempts(d) \cup {attempts[d] + 1})
          /\ Cardinality(UnsentAttempts(d) \cup {attempts[d] + 1})
               = IF attempts[d] + 1 \in UnsentAttempts(d) THEN Cardinality(UnsentAttempts(d))
                 ELSE Cardinality(UnsentAttempts(d)) + 1
      BY <3>1, FS_AddElement
    <3> HIDE DEF UnsentAttempts
    <3> QED
      BY <1>2, <3>2
  <2>3. /\ Cardinality(UnsentAttempts(d)') \in Nat
        /\ Cardinality(UnsentAttempts(d)') <= Cardinality(UnsentAttempts(d) \cup {attempts[d] + 1})
    BY <2>1, <2>2, FS_Subset, FS_CardinalityType
  <2>4. posted[d] + Cardinality(UnsentAttempts(d)) <= attempts[d]
    BY DEF SentInv
  <2> QED
    BY <1>1, <1>2, <1>7, <2>2, <2>3, <2>4
<1> QED
  BY <1>6, <1>7, ClaimTakes

LEMMA SentNext ==
  ASSUME TypeInv, OwnerInv, SentInv, [Next]_vars
  PROVE  SentInv'
<1> USE DEF UnsentShrinks, Unsent, TypeInv, TypeOK, row, runner, network
<1>1. ASSUME NEW d \in Delivery, Insert(d) PROVE UnsentShrinks
  BY <1>1 DEF Insert
<1>2. ASSUME NEW w \in Worker, BeginRun(w) PROVE UnsentShrinks
  BY <1>2 DEF BeginRun
<1>3. ASSUME NEW w \in Worker, SuccessRollsBack(w) PROVE UnsentShrinks
  BY <1>3 DEF SuccessRollsBack
<1>4. ASSUME NEW w \in Worker, Abandon(w) PROVE UnsentShrinks
  BY <1>4 DEF Abandon, Nothing
<1>5. ASSUME NEW w \in Worker, NEW d \in Delivery, SendFails(w, d) PROVE UnsentShrinks
  BY <1>5 DEF SendFails
<1>6. ASSUME NEW w \in Worker, NEW d \in Delivery, FinishSuccess(w, d) \/ FinishFailure(w, d)
      PROVE  UnsentShrinks
  <2>1. Advance(w, d) /\ cur[w] = d /\ UNCHANGED <<attempts, posted>>
    BY <1>6 DEF FinishSuccess, FinishFailure, RecordSuccess
  <2> HIDE DEF TypeInv, TypeOK
  <2>2. \A v \in Worker, e \in Delivery : held'[v][e] # 0 =>
           /\ held'[v][e] = held[v][e] /\ (v # w \/ e # d)
           /\ v # w => pc'[v] = pc[v] /\ cur'[v] = cur[v]
    BY <2>1, AdvanceLeaves
  <2> QED
    BY <2>1, <2>2
<1>7. ASSUME NEW w \in Worker, NEW d \in Delivery, SuccessUnacknowledged(w, d) PROVE UnsentShrinks
  BY <1>7 DEF SuccessUnacknowledged, RecordSuccess
<1>8. ASSUME Tick PROVE UnsentShrinks
  BY <1>8 DEF Tick
<1>9. ASSUME UNCHANGED vars PROVE UnsentShrinks
  BY <1>9 DEF vars
<1>10. UnsentShrinks => SentInv'
  BY ShrinkingKeepsSent
<1> QED
  BY <1>1, <1>2, <1>3, <1>4, <1>5, <1>6, <1>7, <1>8, <1>9, <1>10, PostKeepsSent, ClaimKeepsSent
  DEF Next, Enqueue, EnqueueTest, EnqueueAction

-----------------------------------------------------------------------------
(* The log.                                                                 *)

LEMMA LogWithIs ==
  ASSUME TypeInv, NEW d \in Delivery, NEW n \in 1 .. MaxAttempts, NEW result
  PROVE  \A e \in Delivery, m \in 1 .. MaxAttempts :
           LogWith(d, n, result)[e][m]
             = IF e = d /\ m = n /\ log[e][m] = "none" THEN result ELSE log[e][m]
BY DEF LogWith, TypeInv, TypeOK

\* A worker that logs an attempt holds it, and it is one of those that may be logged.
LEMMA HeldIsAnAttempt ==
  ASSUME TypeInv, NEW w \in Worker, NEW d \in Delivery, held[w][d] # 0
  PROVE  held[w][d] \in 1 .. MaxAttempts
BY OutboxAssumption DEF TypeInv, TypeOK, Attempt

\* A step that logs an attempt, at most the one of w, which nobody logs afterwards.
LEMMA LoggingKeepsLog ==
  ASSUME TypeInv, OwnerInv, LogInv, NEW w \in Worker, NEW d \in Delivery, held[w][d] # 0,
         NEW result, log' = LogWith(d, held[w][d], result), attempts' = attempts,
         \A v \in Worker, e \in Delivery : Unlogged(v, e)' =>
           /\ Unlogged(v, e) /\ held'[v][e] = held[v][e] /\ (v # w \/ e # d)
  PROVE  LogInv'
<1>1. held[w][d] \in 1 .. MaxAttempts
  BY HeldIsAnAttempt
<1>2. \A e \in Delivery, m \in 1 .. MaxAttempts :
        log'[e][m] = IF e = d /\ m = held[w][d] /\ log[e][m] = "none" THEN result ELSE log[e][m]
  BY <1>1, LogWithIs
<1>3. ASSUME NEW e \in Delivery, NEW n \in 1 .. MaxAttempts, n > attempts[e]
      PROVE  log'[e][n] = "none"
  <2>1. ~(e = d /\ n = held[w][d])
    BY <1>1, <1>3, OutboxAssumption DEF OwnerInv, HeldWasBegun, TypeInv, TypeOK, Attempt
  <2> QED
    BY <1>2, <1>3, <2>1 DEF LogInv
<1>4. ASSUME NEW v \in Worker, NEW e \in Delivery, Unlogged(v, e)'
      PROVE  log'[e][held'[v][e]] = "none"
  <2>1. Unlogged(v, e) /\ held'[v][e] = held[v][e] /\ (v # w \/ e # d)
    BY <1>4
  <2>2. held[v][e] \in 1 .. MaxAttempts /\ log[e][held[v][e]] = "none"
    BY <2>1, HeldIsAnAttempt DEF Unlogged, LogInv
  <2>3. ~(e = d /\ held[v][e] = held[w][d])
    BY <2>1 DEF OwnerInv, AttemptHasOneOwner
  <2> QED
    BY <1>2, <2>1, <2>2, <2>3
<1> QED
  BY <1>3, <1>4 DEF LogInv

\* A step that neither logs nor begins an attempt.
QuietForLog ==
  /\ attempts' = attempts /\ log' = log
  /\ \A v \in Worker, e \in Delivery : Unlogged(v, e)' => Unlogged(v, e) /\ held'[v][e] = held[v][e]

LEMMA LogNext ==
  ASSUME TypeInv, OwnerInv, LogInv, [Next]_vars
  PROVE  LogInv'
<1> USE DEF row, runner, network
<1>0. /\ pc \in [Worker -> Phase] /\ cur \in [Worker -> Delivery \cup {NoDelivery}]
      /\ held \in [Worker -> [Delivery -> Attempt]]
  BY DEF TypeInv, TypeOK
<1>1. ASSUME NEW d \in Delivery, Insert(d) PROVE QuietForLog
  BY <1>1 DEF Insert, QuietForLog, Unlogged
<1>2. ASSUME NEW w \in Worker, BeginRun(w) \/ SuccessRollsBack(w) PROVE QuietForLog
  BY <1>0, <1>2 DEF BeginRun, SuccessRollsBack, QuietForLog, Unlogged
<1>3. ASSUME NEW w \in Worker, Abandon(w) PROVE QuietForLog
  BY <1>0, <1>3 DEF Abandon, Nothing, QuietForLog, Unlogged
<1>4. ASSUME NEW w \in Worker, NEW d \in Delivery, Post(w, d) \/ SendFails(w, d) PROVE QuietForLog
  BY <1>0, <1>4 DEF Post, SendFails, QuietForLog, Unlogged
<1>5. ASSUME Tick PROVE QuietForLog
  BY <1>5 DEF Tick, QuietForLog, Unlogged
<1>6. ASSUME UNCHANGED vars PROVE QuietForLog
  BY <1>6 DEF vars, QuietForLog, Unlogged
<1>7. QuietForLog => LogInv'
  BY DEF QuietForLog, LogInv
<1>8. ASSUME NEW w \in Worker, Claim(w) PROVE LogInv'
  <2>1. log' = log /\ cur' = cur /\ \A v \in Worker \ {w} : pc'[v] = pc[v]
    BY <1>0, <1>8 DEF Claim
  <2>2. \A d \in Delivery : attempts[d] \in Nat
    BY OutboxAssumption DEF TypeInv, TypeOK, Attempt
  <2>3. ASSUME NEW d \in Delivery, NEW n \in 1 .. MaxAttempts, n > attempts'[d]
        PROVE  log'[d][n] = "none"
    BY <1>8, <2>1, <2>2, <2>3, ClaimTakes DEF LogInv
  <2>4. ASSUME NEW v \in Worker, NEW d \in Delivery, Unlogged(v, d)'
        PROVE  log'[d][held'[v][d]] = "none"
    <3>1. CASE v = w
      <4>1. held'[w][d] # 0
        BY <2>4, <3>1 DEF Unlogged
      <4>2. Claimable(w, d) /\ held'[w][d] = attempts[d] + 1
        BY <1>8, <4>1, ClaimTakes
      <4>3. attempts[d] + 1 \in 1 .. MaxAttempts
        BY <2>2, <4>2, OutboxAssumption DEF Claimable
      <4> QED
        BY <2>1, <2>2, <3>1, <4>2, <4>3 DEF LogInv
    <3>2. CASE v # w
      <4>1. held'[v][d] = held[v][d]
        BY <1>8, <3>2, ClaimTakes
      <4> QED
        BY <2>1, <2>4, <3>2, <4>1 DEF LogInv, Unlogged
    <3> QED
      BY <3>1, <3>2
  <2> QED
    BY <2>3, <2>4 DEF LogInv
<1>9. ASSUME NEW w \in Worker, NEW d \in Delivery, FinishSuccess(w, d) \/ FinishFailure(w, d)
      PROVE  LogInv'
  <2>1. /\ Advance(w, d) /\ cur[w] = d /\ attempts' = attempts
        /\ \E result : log' = LogWith(d, held[w][d], result)
    BY <1>9 DEF FinishSuccess, FinishFailure, RecordSuccess
  <2>2. held[w][d] # 0
    BY <2>1 DEF TypeInv, InHand
  <2>3. \A v \in Worker, e \in Delivery : Unlogged(v, e)' =>
           /\ Unlogged(v, e) /\ held'[v][e] = held[v][e] /\ (v # w \/ e # d)
    BY <2>1, AdvanceLeaves DEF Unlogged
  <2> QED
    BY <2>1, <2>2, <2>3, LoggingKeepsLog
<1>10. ASSUME NEW w \in Worker, NEW d \in Delivery, SuccessUnacknowledged(w, d)
      PROVE  LogInv'
  <2>1. /\ pc[w] = "succeeding" /\ cur[w] = d /\ pc' = [pc EXCEPT ![w] = "failing"]
        /\ UNCHANGED <<attempts, held, cur>> /\ log' = LogWith(d, held[w][d], "delivered")
    BY <1>10 DEF SuccessUnacknowledged, RecordSuccess
  <2>2. held[w][d] # 0
    BY <2>1 DEF TypeInv, InHand
  <2>3. \A v \in Worker, e \in Delivery : Unlogged(v, e)' =>
           /\ Unlogged(v, e) /\ held'[v][e] = held[v][e] /\ (v # w \/ e # d)
    BY <1>0, <2>1 DEF Unlogged
  <2> QED
    BY <2>1, <2>2, <2>3, LoggingKeepsLog
<1> QED
  BY <1>1, <1>2, <1>3, <1>4, <1>5, <1>6, <1>7, <1>8, <1>9, <1>10
  DEF Next, Enqueue, EnqueueTest, EnqueueAction

-----------------------------------------------------------------------------
(* Delivered, verified and dead.                                            *)

LEMMA SuccessIsTrue ==
  ASSUME TypeInv, LogInv, SeenAccepted, DeliveredWasAccepted, TerminalStatusIsLogged,
         NEW w \in Worker, NEW d \in Delivery,
         pc[w] = "succeeding", cur[w] = d, RecordSuccess(w, d)
  PROVE  DeliveredWasAccepted' /\ TerminalStatusIsLogged'
<1>1. accepted[d] /\ accepted' = accepted
  BY DEF SeenAccepted, RecordSuccess, network
<1>2. held[w][d] \in 1 .. MaxAttempts /\ log[d][held[w][d]] = "none"
  BY HeldIsAnAttempt DEF TypeInv, InHand, LogInv, Unlogged
<1>3. \A e \in Delivery, m \in 1 .. MaxAttempts :
        log'[e][m] = IF e = d /\ m = held[w][d] /\ log[e][m] = "none" THEN "delivered" ELSE log[e][m]
  BY <1>2, LogWithIs DEF RecordSuccess
<1>4. /\ \A e \in Delivery : status'[e] = IF e = d THEN "delivered" ELSE status[e]
      /\ \A e \in Delivery : deliveredAt'[e] <=> deliveredAt[e] \/ e = d
  BY DEF RecordSuccess, TypeInv, TypeOK
<1>5. TerminalStatusIsLogged'
  <2>1. ASSUME NEW e \in Delivery, status'[e] = "delivered"
        PROVE  \E n \in 1 .. MaxAttempts : log'[e][n] = "delivered"
    <3>1. CASE e = d
      BY <1>2, <1>3, <3>1
    <3>2. CASE e # d
      <4>1. PICK n \in 1 .. MaxAttempts : log[e][n] = "delivered"
        BY <1>4, <2>1, <3>2 DEF TerminalStatusIsLogged
      <4> QED
        BY <1>3, <4>1
    <3> QED
      BY <3>1, <3>2
  <2>2. ASSUME NEW e \in Delivery, status'[e] = "dead"
        PROVE  log'[e][MaxAttempts] # "none"
    <3>1. MaxAttempts \in 1 .. MaxAttempts
      BY OutboxAssumption
    <3>2. log[e][MaxAttempts] # "none"
      BY <1>4, <2>2 DEF TerminalStatusIsLogged
    <3> QED
      BY <1>3, <3>1, <3>2
  <2> QED
    BY <2>1, <2>2 DEF TerminalStatusIsLogged
<1>6. DeliveredWasAccepted'
  <2>1. \A e \in Delivery : deliveredAt'[e] => accepted'[e]
    BY <1>1, <1>4 DEF DeliveredWasAccepted
  <2>2. ASSUME NEW x \in Destination, dest'[x] = "verified"
        PROVE  \E e \in Test : DestinationOf[e] = x /\ deliveredAt'[e]
    <3>1. CASE d \in Test /\ DestinationOf[d] = x
      BY <1>4, <3>1, OutboxAssumption
    <3>2. CASE ~(d \in Test /\ DestinationOf[d] = x)
      <4>1. dest[x] = "verified"
        BY <2>2, <3>2, OutboxAssumption DEF RecordSuccess, TypeInv, TypeOK
      <4>2. PICK e \in Test : DestinationOf[e] = x /\ deliveredAt[e]
        BY <4>1 DEF DeliveredWasAccepted
      <4> QED
        BY <1>4, <4>2, OutboxAssumption
    <3> QED
      BY <3>1, <3>2
  <2> QED
    BY <2>1, <2>2 DEF DeliveredWasAccepted
<1> QED
  BY <1>5, <1>6

LEMMA FailureIsTrue ==
  ASSUME TypeInv, DeliveredWasAccepted, TerminalStatusIsLogged,
         NEW w \in Worker, NEW d \in Delivery, FinishFailure(w, d)
  PROVE  DeliveredWasAccepted' /\ TerminalStatusIsLogged'
<1>1. held[w][d] \in 1 .. MaxAttempts
  BY HeldIsAnAttempt DEF FinishFailure, TypeInv, InHand
<1>2. \A e \in Delivery, m \in 1 .. MaxAttempts :
        log'[e][m] = IF e = d /\ m = held[w][d] /\ log[e][m] = "none" THEN "failed" ELSE log[e][m]
  BY <1>1, LogWithIs DEF FinishFailure
<1>3. \A e \in Delivery : status'[e] = IF e = d THEN Verdict(held[w][d]) ELSE status[e]
  BY DEF FinishFailure, TypeInv, TypeOK
<1>4. /\ UNCHANGED <<deliveredAt, accepted>>
      /\ \A x \in Destination : dest'[x] = "verified" => dest[x] = "verified"
  BY OutboxAssumption DEF FinishFailure, network, TypeInv, TypeOK
<1>5. ASSUME NEW e \in Delivery, status'[e] = "delivered"
      PROVE  \E n \in 1 .. MaxAttempts : log'[e][n] = "delivered"
  <2>1. status[e] = "delivered"
    BY <1>3, <1>5 DEF Verdict
  <2>2. PICK n \in 1 .. MaxAttempts : log[e][n] = "delivered"
    BY <2>1 DEF TerminalStatusIsLogged
  <2> QED
    BY <1>2, <2>2
<1>6. ASSUME NEW e \in Delivery, status'[e] = "dead"
      PROVE  log'[e][MaxAttempts] # "none"
  <2>1. MaxAttempts \in 1 .. MaxAttempts
    BY OutboxAssumption
  <2>2. CASE e = d
    <3>1. held[w][d] = MaxAttempts
      BY <1>1, <1>3, <1>6, <2>2, OutboxAssumption DEF Verdict
    <3> QED
      BY <1>2, <2>1, <2>2, <3>1
  <2>3. CASE e # d
    BY <1>2, <1>3, <1>6, <2>1, <2>3 DEF TerminalStatusIsLogged
  <2> QED
    BY <2>2, <2>3
<1> QED
  BY <1>4, <1>5, <1>6 DEF DeliveredWasAccepted, TerminalStatusIsLogged

\* A step that settles no row.
SettlesNothing ==
  /\ UNCHANGED <<deliveredAt, log, dest>>
  /\ \A d \in Delivery : status'[d] \in {"delivered", "dead"} => status'[d] = status[d]
  /\ \A d \in Delivery : accepted[d] => accepted'[d]

LEMMA TruthNext ==
  ASSUME TypeInv, OwnerInv, TruthInv, [Next]_vars
  PROVE  DeliveredWasAccepted' /\ TerminalStatusIsLogged'
<1> USE DEF TruthInv, SettlesNothing, row, network
<1>0. /\ status \in [Delivery -> RowStatus] /\ accepted \in [Delivery -> BOOLEAN]
  BY DEF TypeInv, TypeOK
<1>1. ASSUME NEW d \in Delivery, Insert(d) PROVE SettlesNothing
  BY <1>0, <1>1 DEF Insert
<1>2. ASSUME NEW w \in Worker, BeginRun(w) \/ SuccessRollsBack(w) \/ Abandon(w)
      PROVE  SettlesNothing
  BY <1>2 DEF BeginRun, SuccessRollsBack, Abandon
<1>3. ASSUME NEW w \in Worker, Claim(w) PROVE SettlesNothing
  BY <1>3, ClaimTakes DEF Claim
<1>4. ASSUME NEW w \in Worker, NEW d \in Delivery, Post(w, d) PROVE SettlesNothing
  BY <1>0, <1>4 DEF Post
<1>5. ASSUME NEW w \in Worker, NEW d \in Delivery, SendFails(w, d) PROVE SettlesNothing
  BY <1>5 DEF SendFails
<1>6. ASSUME Tick PROVE SettlesNothing
  BY <1>6 DEF Tick
<1>7. ASSUME UNCHANGED vars PROVE SettlesNothing
  BY <1>7 DEF vars
<1>8. SettlesNothing => DeliveredWasAccepted' /\ TerminalStatusIsLogged'
  BY DEF DeliveredWasAccepted, TerminalStatusIsLogged
<1>9. ASSUME NEW w \in Worker, NEW d \in Delivery, FinishSuccess(w, d) \/ SuccessUnacknowledged(w, d)
      PROVE  DeliveredWasAccepted' /\ TerminalStatusIsLogged'
  BY <1>9, SuccessIsTrue DEF FinishSuccess, SuccessUnacknowledged
<1> QED
  BY <1>1, <1>2, <1>3, <1>4, <1>5, <1>6, <1>7, <1>8, <1>9, FailureIsTrue
  DEF Next, Enqueue, EnqueueTest, EnqueueAction

\* The endpoint sees at most one request per attempt, nothing is called delivered or
\* verified that the endpoint did not accept, and the log explains every settled row
\* (webhooks.ts): in every run, whatever leases are outlived, commits are left
\* unacknowledged and workers are lost.
THEOREM RowsTellTheTruth == Spec => []RowTellsTheTruth
<1> DEFINE Inv == TypeInv /\ OwnerInv /\ TruthInv
<1>1. Init => Inv
  BY TypeInit, OwnerInit, TruthInit
<1>2. Inv /\ [Next]_vars => Inv'
  BY TypeNext, OwnerNext, SentNext, LogNext, SeenAcceptedNext, TruthNext DEF TruthInv
<1>3. Inv => RowTellsTheTruth
  <2> SUFFICES ASSUME Inv
               PROVE  PostsAreBounded
    BY DEF TruthInv, RowTellsTheTruth
  <2>1. ASSUME NEW d \in Delivery
        PROVE  posted[d] <= attempts[d] /\ attempts[d] <= MaxAttempts
    <3>1. /\ posted[d] \in Nat /\ attempts[d] \in 0 .. MaxAttempts
          /\ Cardinality(UnsentAttempts(d)) \in Nat
      BY UnsentIsFinite DEF TypeInv, TypeOK, Attempt
    <3>2. posted[d] + Cardinality(UnsentAttempts(d)) <= attempts[d]
      BY DEF TruthInv, SentInv
    <3> QED
      BY <3>1, <3>2, OutboxAssumption
  <2> QED
    BY <2>1 DEF PostsAreBounded
<1> QED
  BY <1>1, <1>2, <1>3, PTL DEF Spec
=============================================================================
