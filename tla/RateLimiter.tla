---------------------------- MODULE RateLimiter ----------------------------
(***************************************************************************)
(* services/rateLimiter.ts: TenantRateLimiter, one lane.  The buckets of   *)
(* keys and of projects live in two stores of limited size: a map in the   *)
(* order of last use, and one such map for each organization.  A bucket is *)
(* refilled when it is looked at, and may make room for another only when  *)
(* it is idle and full again.                                              *)
(*                                                                         *)
(* Time is counted in whole units, and a rate in tokens per unit.  In      *)
(* place of the times at which it was refilled and seen a bucket has its   *)
(* age since then, counted as far as it could make a difference.           *)
(***************************************************************************)
EXTENDS Integers, Sequences, SequencesExt

CONSTANTS
  KeyId, ProjectId,
  Tenant, TenantOf,    \* the organization of each bucket
  Pair,                \* <<key, project>> of the requests
  Cost,                \* costs of a request
  Burst, Rate,         \* limits of each bucket, by its scope
  MaxEntries, MaxEntriesPerTenant, IdleTtl

Bucket == KeyId \cup ProjectId

\* validateOptions.
ASSUME LimiterAssumption ==
  /\ KeyId \cap ProjectId = {}
  /\ TenantOf \in [Bucket -> Tenant]
  /\ Pair \subseteq KeyId \X ProjectId
  /\ \A pair \in Pair : TenantOf[pair[1]] = TenantOf[pair[2]]
  /\ Cost \subseteq Nat \ {0}
  /\ Burst \in [Bucket -> Nat \ {0}]
  /\ Rate \in [Bucket -> Nat \ {0}]
  /\ MaxEntries \in Nat \ {0}
  /\ MaxEntriesPerTenant \in 1 .. MaxEntries
  /\ IdleTtl \in Nat \ {0}

VARIABLES
  keys, projects   \* the two stores

vars == <<keys, projects>>

\* A store: all ids, the ids of each organization, least recently used first,
\* and the state of each bucket.
Empty == [all |-> <<>>, tenant |-> [t \in Tenant |-> <<>>], state |-> <<>>]

Init == keys = Empty /\ projects = Empty

-----------------------------------------------------------------------------
Smaller(a, b) == IF a < b THEN a ELSE b
Has(st, b)    == b \in DOMAIN st.state
Without(s, b) == RemoveFirst(s, b)   \* no id is in a queue twice
ToEnd(s, b)   == Append(Without(s, b), b)

\* refill.
Tokens(b, r) == Smaller(Burst[b], r.tokens + r.unrefilled * Rate[b])
Refilled(b, r) == [r EXCEPT !.tokens = Tokens(b, r), !.unrefilled = 0]
Fresh(b) == [tokens |-> Burst[b], unrefilled |-> 0, unseen |-> 0]
Put(st, b, r) ==
  [st EXCEPT !.state = [o \in DOMAIN st.state \cup {b} |-> IF o = b THEN r ELSE st.state[o]]]
Seen(st, b) == Put(st, b, [st.state[b] EXCEPT !.unseen = 0])

\* moveToEnd, in the map of its organization.
Moved(st, b) == LET t == TenantOf[b] IN [st.tenant EXCEPT ![t] = ToEnd(st.tenant[t], b)]

\* Mutant: a used bucket keeps its place in the map of its organization.
TouchedGlobally(st, b) ==
  IF ~Has(st, b) THEN st
  ELSE [Seen(st, b) EXCEPT !.all = ToEnd(st.all, b)]

\* touch: what is in its store becomes the most recently used.
Touched(st, b) ==
  IF ~Has(st, b) THEN st
  ELSE [Seen(st, b) EXCEPT !.all = ToEnd(st.all, b), !.tenant = Moved(st, b)]

Removed(st, b) ==
  [all    |-> Without(st.all, b),
   tenant |-> LET t == TenantOf[b] IN [st.tenant EXCEPT ![t] = Without(st.tenant[t], b)],
   state  |-> [o \in DOMAIN st.state \ {b} |-> st.state[o]]]

\* Mutant: an idle bucket is given up before it is full again.
DisposableWhenIdle(b, r) == r.unseen >= IdleTtl

Disposable(b, r) == r.unseen >= IdleTtl /\ r.tokens >= Burst[b]

\* evictRecoveredOldest, for a queue of the store: its oldest makes room, or the
\* request is turned away; ok tells which.
Evicted(st, queue) ==
  LET oldest == queue[1]
      r      == Refilled(oldest, st.state[oldest])
  IN IF Disposable(oldest, r)
     THEN [ok |-> TRUE, store |-> Removed(st, oldest)]
     ELSE [ok |-> FALSE, store |-> Put(st, oldest, r)]

IsFull(st) == Len(st.all) >= MaxEntries

\* ensureRoom.
Room(st, t) ==
  LET own == IF Len(st.tenant[t]) >= MaxEntriesPerTenant
             THEN Evicted(st, st.tenant[t]) ELSE [ok |-> TRUE, store |-> st]
  IN IF own.ok /\ IsFull(own.store) THEN Evicted(own.store, own.store.all) ELSE own

\* The bucket of b as a request finds it: refilled, or room made for a fresh one.
Looked(st, b) ==
  IF Has(st, b) THEN [ok |-> TRUE, store |-> Put(st, b, Refilled(b, st.state[b]))]
                ELSE Room(st, TenantOf[b])

Found(st, b) == IF Has(st, b) THEN st.state[b] ELSE Fresh(b)

\* insert, and the tokens are taken.
Charged(st, b, cost) ==
  LET found == Found(st, b)
      r     == [found EXCEPT !.tokens = found.tokens - cost]
      t     == TenantOf[b]
  IN IF Has(st, b) THEN Put(st, b, r)
     ELSE [Put(st, b, r) EXCEPT
             !.all = Append(st.all, b),
             !.tenant = [st.tenant EXCEPT ![t] = Append(st.tenant[t], b)]]

\* consume.  A request that is turned away has still touched its buckets, and made
\* room where it could.
Consume(k, p, cost) ==
  LET project  == Looked(Touched(projects, p), p)
      key      == Looked(Touched(keys, k), k)
      passesProject == project.ok /\ Found(project.store, p).tokens >= cost
      passesKey     == key.ok /\ Found(key.store, k).tokens >= cost
  IN /\ cost <= Burst[k] /\ cost <= Burst[p]
     /\ projects' = IF passesProject /\ passesKey
                    THEN Charged(project.store, p, cost) ELSE project.store
     /\ keys' = IF ~passesProject THEN Touched(keys, k)
                ELSE IF passesKey THEN Charged(key.store, k, cost) ELSE key.store

\* A unit of time passes.
Aged(b, r) == [tokens     |-> r.tokens,
               unrefilled |-> Smaller(r.unrefilled + 1, Burst[b]),
               unseen     |-> Smaller(r.unseen + 1, IdleTtl)]
Older(st) == [st EXCEPT !.state = [b \in DOMAIN st.state |-> Aged(b, st.state[b])]]

Tick == keys' = Older(keys) /\ projects' = Older(projects)

Next == Tick \/ \E pair \in Pair, cost \in Cost : Consume(pair[1], pair[2], cost)

Spec == Init /\ [][Next]_vars

-----------------------------------------------------------------------------
(* Properties.                                                              *)

StoreOK(st, ids) ==
  /\ ToSet(st.all) = DOMAIN st.state /\ ToSet(st.all) \subseteq ids
  /\ \A b \in DOMAIN st.state :
       st.state[b] \in [tokens : 0 .. Burst[b], unrefilled : 0 .. Burst[b],
                        unseen : 0 .. IdleTtl]

\* The two stores hold buckets of their scope, none of them below zero.
TypeOK == StoreOK(keys, KeyId) /\ StoreOK(projects, ProjectId)

\* What every bucket would hold if it had never left memory.
Held(b) ==
  IF Has(keys, b) THEN Tokens(b, keys.state[b])
  ELSE IF Has(projects, b) THEN Tokens(b, projects.state[b])
  ELSE Burst[b]

\* Buckets that come and go, and are refilled only when looked at, let through
\* exactly what buckets that are always there would: TokenBuckets is implemented.
Buckets == INSTANCE TokenBuckets WITH tokens <- [b \in Bucket |-> Held(b)]
LimitsAsPromised == Buckets!Spec

\* In the queue s, b is to be evicted before c.
Before(s, b, c) == \E i, j \in DOMAIN s : i < j /\ s[i] = b /\ s[j] = c

\* The map of an organization is the part of the whole, in the same order.
SameOrder(st) ==
  \A t \in Tenant :
    /\ ToSet(st.tenant[t]) = {b \in ToSet(st.all) : TenantOf[b] = t}
    /\ \A b, c \in ToSet(st.tenant[t]) : Before(st.tenant[t], b, c) <=> Before(st.all, b, c)

StoreBounded(st) ==
  /\ Len(st.all) <= MaxEntries
  /\ \A t \in Tenant : Len(st.tenant[t]) <= MaxEntriesPerTenant
  /\ SameOrder(st)

\* Neither the process nor one organization can hold more buckets than allowed,
\* and the map of an organization is the part of the whole, in the same order:
\* what is evicted for it is its least recently used bucket.
MemoryIsBounded == StoreBounded(keys) /\ StoreBounded(projects)
=============================================================================
