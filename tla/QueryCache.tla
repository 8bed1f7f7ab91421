----------------------------- MODULE QueryCache -----------------------------
(***************************************************************************)
(* services/queryCache.ts with the routes of http/server.ts that write: the *)
(* answers to read queries that one process keeps for a short time.  A call *)
(* that finds no entry starts a load and shares its promise with the calls *)
(* that come after it; a route that has written drops the entries of its   *)
(* project, finished or not.                                               *)
(*                                                                         *)
(* The data of a project is the number of writes committed to it.  An entry *)
(* is a load, and loads are numbered in the order of their start.  A key   *)
(* enters the map when its load starts and keeps its place until it leaves, *)
(* so the map's insertion order is that of the numbers and a set will do.  *)
(***************************************************************************)
EXTENDS Integers, Sequences, FiniteSets

CONSTANTS
  Key,         \* cache keys: a project and the canonical text of a query
  Project, ProjectOf,
  Reader,      \* requests that read
  MaxCached,   \* QueryCacheOptions.maxEntries
  MaxLoads,    \* bound: loads started
  MaxWrites    \* bound: writes of a project

ASSUME CacheAssumption ==
  /\ ProjectOf \in [Key -> Project]
  /\ MaxCached \in Nat \ {0}
  /\ MaxLoads \in Nat
  /\ MaxWrites \in Nat

VARIABLES
  written,     \* written[p]: writes committed to the data of p
  announced,   \* announced[p]: the writes whose route has dropped p's entries
  entries,     \* the loads in the map
  loads,       \* every load, in the order of its start
  expired,     \* loads whose time to live, counted from their end, is over
  call         \* call[c]: the key asked for, the load awaited, and what had
               \* been announced when the call began

cacheVars == <<written, announced, entries, loads, expired, call>>

Idle == [load |-> 0, floor |-> 0]

CacheInit ==
  /\ written = [p \in Project |-> 0]
  /\ announced = [p \in Project |-> 0]
  /\ entries = {}
  /\ loads = <<>>
  /\ expired = {}
  /\ call = [c \in Reader |-> Idle]

KeyOf(l) == loads[l].key
Owner(l) == ProjectOf[KeyOf(l)]
Running(l) == loads[l].state \in {"started", "read"}

-----------------------------------------------------------------------------
\* evictForInsert: the oldest entries go until there is a place for one more.
Trimmed(s) == {l \in s : Cardinality({m \in s : m > l}) < MaxCached - 1}

Entry(k) == {l \in entries : KeyOf(l) = k}

\* getOrLoad finds an entry that has not expired and shares its promise.
Join(c, k) ==
  /\ call[c] = Idle
  /\ \E l \in Entry(k) \ expired :
       call' = [call EXCEPT ![c] = [load |-> l, floor |-> announced[ProjectOf[k]]]]
  /\ UNCHANGED <<written, announced, entries, loads, expired>>

\* getOrLoad starts a load in place of the missing or expired entry.
StartLoad(c, k) ==
  LET l == Len(loads) + 1 IN
  /\ call[c] = Idle
  /\ Entry(k) \subseteq expired
  /\ Len(loads) < MaxLoads
  /\ loads' = Append(loads, [key |-> k, state |-> "started", data |-> 0])
  /\ entries' = Trimmed(entries \ Entry(k)) \cup {l}
  /\ call' = [call EXCEPT ![c] = [load |-> l, floor |-> announced[ProjectOf[k]]]]
  /\ UNCHANGED <<written, announced, expired>>

\* The database answers the load.
ReadData(l) ==
  /\ loads[l].state = "started"
  /\ loads' = [loads EXCEPT ![l] = [@ EXCEPT !.state = "read", !.data = written[Owner(l)]]]
  /\ UNCHANGED <<written, announced, entries, expired, call>>

\* The promise resolves.  The entry, if it is still in the map, begins its time
\* to live; an entry that was dropped stays out.
EntriesAfterResolve(l) == entries

Resolve(l) ==
  /\ loads[l].state = "read"
  /\ loads' = [loads EXCEPT ![l] = [@ EXCEPT !.state = "resolved"]]
  /\ entries' = EntriesAfterResolve(l)
  /\ UNCHANGED <<written, announced, expired, call>>

\* The promise rejects, and its entry goes.
EntriesAfterReject(l) == entries \ {l}

Reject(l) ==
  /\ Running(l)
  /\ loads' = [loads EXCEPT ![l] = [@ EXCEPT !.state = "rejected"]]
  /\ entries' = EntriesAfterReject(l)
  /\ UNCHANGED <<written, announced, expired, call>>

\* The calls that await a settled promise are answered.
Answer(c) ==
  /\ call[c] # Idle
  /\ ~Running(call[c].load)
  /\ call' = [call EXCEPT ![c] = Idle]
  /\ UNCHANGED <<written, announced, entries, loads, expired>>

TimeToLiveEnds(l) ==
  /\ loads[l].state = "resolved"
  /\ l \in entries \ expired
  /\ expired' = expired \cup {l}
  /\ UNCHANGED <<written, announced, entries, loads, call>>

-----------------------------------------------------------------------------
\* A write commits: of a route of this process, or of another process.
Write(p) ==
  /\ written[p] < MaxWrites
  /\ written' = [written EXCEPT ![p] = @ + 1]
  /\ UNCHANGED <<announced, entries, loads, expired, call>>

\* Mutant: a load that is under way keeps its place.
KeptByUnfinished(p) == {e \in entries : Owner(e) # p \/ Running(e)}

\* invalidateProject.
Kept(p) == {e \in entries : Owner(e) # p}

\* The route goes on after its write.  Every write up to n was committed by then;
\* a route whose write failed, or one of another process, never comes here.
Invalidate(p, n) ==
  /\ n \in announced[p] + 1 .. written[p]
  /\ announced' = [announced EXCEPT ![p] = n]
  /\ entries' = Kept(p)
  /\ UNCHANGED <<written, loads, expired, call>>

CacheNext ==
  \/ \E c \in Reader, k \in Key : Join(c, k) \/ StartLoad(c, k)
  \/ \E c \in Reader : Answer(c)
  \/ \E l \in DOMAIN loads : ReadData(l) \/ Resolve(l) \/ Reject(l) \/ TimeToLiveEnds(l)
  \/ \E p \in Project : Write(p) \/ \E n \in 1 .. MaxWrites : Invalidate(p, n)

CacheSpec == CacheInit /\ [][CacheNext]_cacheVars

-----------------------------------------------------------------------------
(* Properties.                                                              *)

CacheTypeOK ==
  /\ written \in [Project -> 0 .. MaxWrites]
  /\ announced \in [Project -> 0 .. MaxWrites]
  /\ entries \subseteq DOMAIN loads
  /\ loads \in Seq([key : Key,
                    state : {"started", "read", "resolved", "rejected"},
                    data : 0 .. MaxWrites])
  /\ expired \subseteq DOMAIN loads
  /\ call \in [Reader -> [load : 0 .. Len(loads), floor : 0 .. MaxWrites]]

\* A read that begins after a route of the same process has finished a write sees
\* that write, even when it shares the promise of a load that began before it.
ReadsSeeOwnWrites ==
  \A c \in Reader :
    LET l == call[c].load IN
    l # 0 /\ loads[l].state \in {"read", "resolved"} => loads[l].data >= call[c].floor

\* The map never grows past maxEntries, holds one entry for a key, and no call can
\* find a failure in it.
MapIsSound ==
  /\ Cardinality(entries) <= MaxCached
  /\ \A e, f \in entries : e # f => KeyOf(e) # KeyOf(f)
  /\ \A e \in entries : loads[e].state # "rejected"

\* What the cache answers is not older than what the caller knows of, and it never
\* holds more, or anything else, than it may.
CacheIsSound == ReadsSeeOwnWrites /\ MapIsSound
=============================================================================
