---------------------------- MODULE ProcessProofs ----------------------------
(***************************************************************************)
(* Theorems about what an API process keeps in memory.                     *)
(*                                                                         *)
(* QueryCache: for any keys, callers, loads and writes, a call that begins *)
(* after a route has announced its write is answered with that write.      *)
(*                                                                         *)
(* RateLimiter: for any keys, projects, organizations and limits, stores of *)
(* limited size implement buckets that are always there.                   *)
(***************************************************************************)
EXTENDS QueryCache, RateLimiter, SequenceTheorems, FiniteSetTheorems, WellFoundedInduction,
        TLAPS

-----------------------------------------------------------------------------
(* The query cache.                                                         *)

LoadState == {"started", "read", "resolved", "rejected"}
LoadRow == [key : Key, state : LoadState, data : 0 .. MaxWrites]

Answered(l) == loads[l].state \in {"read", "resolved"}

\* A route announces what it has written.
AnnouncedInv == \A p \in Project : announced[p] <= written[p]

\* Whatever is in the map has read what was announced.
EntriesInv == \A l \in entries : Answered(l) => loads[l].data >= announced[Owner(l)]

\* So has, or will have, the load that a call awaits.
CallsInv ==
  \A c \in Reader :
    LET l == call[c].load IN
    l # 0 => /\ call[c].floor <= announced[Owner(l)]
             /\ Answered(l) => loads[l].data >= call[c].floor

CacheInv == CacheTypeOK /\ AnnouncedInv /\ EntriesInv /\ CallsInv /\ MapIsSound

LEMMA LoadsAreRows ==
  ASSUME CacheTypeOK
  PROVE  /\ loads \in Seq(LoadRow) /\ Len(loads) \in Nat /\ DOMAIN loads = 1 .. Len(loads)
         /\ \A l \in DOMAIN loads :
              /\ loads[l] \in LoadRow
              /\ KeyOf(l) \in Key /\ Owner(l) \in Project
<1>1. loads \in Seq(LoadRow)
  BY DEF CacheTypeOK, LoadRow, LoadState
<1>2. Len(loads) \in Nat /\ DOMAIN loads = 1 .. Len(loads)
  BY <1>1, LenProperties
<1>3. ASSUME NEW l \in DOMAIN loads PROVE loads[l] \in LoadRow
  BY <1>1, <1>2, <1>3, ElementOfSeq
<1> QED
  BY <1>1, <1>2, <1>3, CacheAssumption DEF LoadRow, KeyOf, Owner

\* A load goes on: it stays the same load, and the others stay as they are.
GoesOnAs(l, r) == loads' = [loads EXCEPT ![l] = r]

LEMMA LoadGoesOn ==
  ASSUME CacheTypeOK, NEW l \in DOMAIN loads, NEW r \in LoadRow, r.key = loads[l].key,
         GoesOnAs(l, r)
  PROVE  /\ loads' \in Seq(LoadRow) /\ Len(loads') = Len(loads) /\ DOMAIN loads' = DOMAIN loads
         /\ loads'[l] = r
         /\ \A m \in DOMAIN loads : m # l => loads'[m] = loads[m]
         /\ \A m \in DOMAIN loads : KeyOf(m)' = KeyOf(m) /\ Owner(m)' = Owner(m)
<1>1. /\ loads' \in Seq(LoadRow) /\ Len(loads') = Len(loads)
      /\ \A m \in 1 .. Len(loads) : loads'[m] = IF m = l THEN r ELSE loads[m]
  BY LoadsAreRows, ExceptSeq DEF GoesOnAs
<1>2. DOMAIN loads = 1 .. Len(loads) /\ DOMAIN loads' = 1 .. Len(loads)
  BY <1>1, LoadsAreRows, LenProperties
<1> QED
  BY <1>1, <1>2 DEF KeyOf, Owner

LEMMA SmallestNumber ==
  ASSUME NEW S \in SUBSET Nat, S # {}
  PROVE  \E x \in S : \A y \in S : x <= y
<1>1. IsWellFoundedOn(OpToRel(<, Nat), Nat)
  BY NatLessThanWellFounded, Zenon
<1>2. PICK x \in S : \A y \in S : ~(<<y, x>> \in OpToRel(<, Nat))
  BY <1>1, WFMin, Zenon
<1>3. \A y \in S : ~(y < x)
  BY <1>2 DEF OpToRel
<1> QED
  BY <1>3

\* The newest entries are fewer than there are places.
LEMMA RoomIsMade ==
  ASSUME NEW s \in SUBSET Nat, IsFiniteSet(s)
  PROVE  /\ Trimmed(s) \subseteq s
         /\ IsFiniteSet(Trimmed(s)) /\ Cardinality(Trimmed(s)) <= MaxCached - 1
<1>1. Trimmed(s) \subseteq s
  BY DEF Trimmed
<1>2. IsFiniteSet(Trimmed(s)) /\ Cardinality(Trimmed(s)) \in Nat
  BY <1>1, FS_Subset, FS_CardinalityType
<1>3. CASE Trimmed(s) = {}
  BY <1>1, <1>2, <1>3, FS_EmptySet, CacheAssumption
<1>4. CASE Trimmed(s) # {}
  <2>1. PICK x \in Trimmed(s) : \A y \in Trimmed(s) : x <= y
    BY <1>1, <1>4, SmallestNumber
  <2> DEFINE newer == {m \in s : m > x}
  <2>2. IsFiniteSet(newer) /\ Cardinality(newer) \in Nat /\ Cardinality(newer) < MaxCached - 1
    BY <2>1, FS_Subset, FS_CardinalityType DEF Trimmed
  <2>3. Trimmed(s) \ {x} \subseteq newer
    <3> SUFFICES ASSUME NEW y \in Trimmed(s), y # x PROVE y \in s /\ y > x
      OBVIOUS
    <3>1. y \in s /\ x <= y
      BY <1>1, <2>1
    <3>2. x \in Nat /\ y \in Nat
      BY <1>1, <2>1, <3>1
    <3> QED
      BY <3>1, <3>2
  <2>4. Cardinality(Trimmed(s) \ {x}) <= Cardinality(newer)
    BY <2>2, <2>3, FS_Subset
  <2>5. Cardinality(Trimmed(s) \ {x}) = Cardinality(Trimmed(s)) - 1
    BY <1>2, <2>1, FS_RemoveElement
  <2> QED
    BY <1>1, <1>2, <2>2, <2>4, <2>5, CacheAssumption
<1> QED
  BY <1>3, <1>4

LEMMA EntriesAreFinite ==
  ASSUME CacheTypeOK
  PROVE  entries \in SUBSET Nat /\ IsFiniteSet(entries) /\ Cardinality(entries) \in Nat
<1>1. entries \in SUBSET (1 .. Len(loads)) /\ Len(loads) \in Nat
  BY LoadsAreRows DEF CacheTypeOK
<1>2. IsFiniteSet(1 .. Len(loads))
  BY <1>1, FS_Interval
<1>3. IsFiniteSet(entries)
  BY <1>1, <1>2, FS_Subset
<1>4. entries \in SUBSET Nat
  BY <1>1
<1> QED
  BY <1>3, <1>4, FS_CardinalityType

LEMMA CacheInitInv == CacheInit => CacheInv
<1> SUFFICES ASSUME CacheInit PROVE CacheInv
  OBVIOUS
<1>1. loads = << >> /\ loads \in Seq(LoadRow) /\ Len(loads) = 0 /\ DOMAIN loads = {}
  BY EmptySeq, LenProperties DEF CacheInit
<1>2. CacheTypeOK
  BY <1>1, CacheAssumption DEF CacheInit, CacheTypeOK, LoadRow, LoadState, Idle
<1>3. AnnouncedInv /\ EntriesInv /\ CallsInv
  BY DEF CacheInit, AnnouncedInv, EntriesInv, CallsInv, Idle
<1>4. MapIsSound
  BY FS_EmptySet, CacheAssumption DEF CacheInit, MapIsSound
<1> QED
  BY <1>2, <1>3, <1>4 DEF CacheInv

LEMMA JoinKeeps ==
  ASSUME CacheInv, NEW c \in Reader, NEW k \in Key, Join(c, k)
  PROVE  CacheInv'
<1> USE DEF CacheInv
<1>1. PICK l \in entries \ expired :
        /\ KeyOf(l) = k
        /\ call' = [call EXCEPT ![c] = [load |-> l, floor |-> announced[ProjectOf[k]]]]
  BY DEF Join, Entry
<1>2. UNCHANGED <<written, announced, entries, loads, expired>>
  BY DEF Join
<1>3. l \in 1 .. Len(loads) /\ Len(loads) \in Nat /\ Owner(l) = ProjectOf[k] /\ Owner(l) \in Project
  BY <1>1, LoadsAreRows DEF CacheTypeOK, Owner
<1>4. CacheTypeOK'
  BY <1>1, <1>2, <1>3 DEF CacheTypeOK
<1>5. CallsInv'
  <2>1. call'[c] = [load |-> l, floor |-> announced[Owner(l)]]
        /\ \A d \in Reader : d # c => call'[d] = call[d]
    BY <1>1, <1>3 DEF CacheTypeOK
  <2>2. call'[c].load = l /\ call'[c].floor = announced[Owner(l)] /\ announced[Owner(l)] \in Nat
    BY <1>3, <2>1, CacheAssumption DEF CacheTypeOK
  <2>3. Answered(l) => loads[l].data >= announced[Owner(l)]
    BY <1>1 DEF EntriesInv
  <2> QED
    BY <1>2, <2>1, <2>2, <2>3 DEF CallsInv, Owner, KeyOf, Answered
<1>6. AnnouncedInv' /\ EntriesInv' /\ MapIsSound'
  BY <1>2 DEF AnnouncedInv, EntriesInv, MapIsSound, Answered, Owner, KeyOf
<1> QED
  BY <1>4, <1>5, <1>6

LEMMA StartKeeps ==
  ASSUME CacheInv, NEW c \in Reader, NEW k \in Key, StartLoad(c, k)
  PROVE  CacheInv'
<1> DEFINE new == [key |-> k, state |-> "started", data |-> 0]
           old == DOMAIN loads
<1> USE DEF CacheInv
<1>. PICK l \in Nat : l = Len(loads) + 1
  BY LoadsAreRows
<1>0. UNCHANGED <<written, announced, expired>>
  BY DEF StartLoad
<1>1. /\ loads' \in Seq(LoadRow) /\ Len(loads') = l /\ DOMAIN loads' = 1 .. l
      /\ loads'[l] = new /\ \A m \in old : loads'[m] = loads[m]
  <2>1. new \in LoadRow /\ loads' = Append(loads, new)
    BY CacheAssumption DEF StartLoad, LoadRow, LoadState
  <2> HIDE DEF new
  <2> QED
    BY <2>1, LoadsAreRows, AppendProperties, LenProperties
<1>2. /\ l \in Nat /\ l \notin old /\ old = 1 .. (l - 1)
      /\ entries \subseteq old /\ expired \subseteq old
  BY LoadsAreRows DEF CacheTypeOK
<1>3. loads'[l].key = k /\ loads'[l].state = "started"
  BY <1>1
<1> DEFINE left == Trimmed(entries \ Entry(k))
<1>4. /\ entries' = left \cup {l} /\ left \subseteq entries /\ IsFiniteSet(left)
      /\ Cardinality(left) \in Nat /\ Cardinality(left) <= MaxCached - 1
      /\ \A e \in left : KeyOf(e) # k
  <2> DEFINE kept == entries \ Entry(k)
  <2>1. kept \in SUBSET Nat /\ IsFiniteSet(kept) /\ kept \subseteq entries
    BY EntriesAreFinite, FS_Subset
  <2>2. \A e \in kept : KeyOf(e) # k
    BY DEF Entry
  <2> HIDE DEF kept
  <2>3. left = Trimmed(kept)
    BY DEF kept
  <2>4. Trimmed(kept) \subseteq kept /\ IsFiniteSet(left) /\ Cardinality(left) <= MaxCached - 1
    BY <2>1, <2>3, RoomIsMade
  <2> QED
    BY <2>1, <2>2, <2>3, <2>4, FS_CardinalityType DEF StartLoad
<1> HIDE DEF left, new
<1>5. \A m \in old : KeyOf(m)' = KeyOf(m) /\ Owner(m)' = Owner(m) /\ (Answered(m)' <=> Answered(m))
  BY <1>0, <1>1 DEF KeyOf, Owner, Answered
<1>6. ~Answered(l)' /\ KeyOf(l)' = k /\ Owner(l)' = ProjectOf[k]
  BY <1>3 DEF Answered, KeyOf, Owner
<1>7. call' = [call EXCEPT ![c] = [load |-> l, floor |-> announced[ProjectOf[k]]]]
  BY DEF StartLoad
<1>8. announced[ProjectOf[k]] \in 0 .. MaxWrites
  BY CacheAssumption DEF CacheTypeOK
<1>9. CacheTypeOK'
  <2>1. entries' \subseteq DOMAIN loads' /\ expired' \subseteq DOMAIN loads'
    BY <1>0, <1>1, <1>2, <1>4
  <2>2. call' \in [Reader -> [load : 0 .. l, floor : 0 .. MaxWrites]]
    <3>1. call \in [Reader -> [load : 0 .. l, floor : 0 .. MaxWrites]]
      BY <1>2, LoadsAreRows DEF CacheTypeOK
    <3> QED
      BY <1>2, <1>7, <1>8, <3>1
  <2> QED
    BY <1>0, <1>1, <2>1, <2>2 DEF CacheTypeOK, LoadRow, LoadState
<1>10. EntriesInv'
  <2> SUFFICES ASSUME NEW e \in entries', Answered(e)' PROVE loads'[e].data >= announced'[Owner(e)']
    BY DEF EntriesInv
  <2>1. e \in entries /\ e \in old
    BY <1>2, <1>4, <1>6
  <2> QED
    BY <1>0, <1>1, <1>5, <2>1 DEF EntriesInv
<1>11. CallsInv'
  <2> SUFFICES ASSUME NEW d \in Reader, NEW m, m = call'[d].load, m # 0
               PROVE  /\ call'[d].floor <= announced'[Owner(m)']
                      /\ Answered(m)' => loads'[m].data >= call'[d].floor
    BY DEF CallsInv, Answered, Owner, KeyOf
  <2>1. CASE d = c
    <3>1. m = l /\ call'[c].floor = announced[ProjectOf[k]]
      BY <1>7, <2>1 DEF CacheTypeOK
    <3> QED
      BY <1>0, <1>6, <1>8, <2>1, <3>1
  <2>2. CASE d # c
    <3>1. call'[d] = call[d] /\ m \in old
      BY <1>7, <2>2, LoadsAreRows DEF CacheTypeOK
    <3> QED
      BY <1>0, <1>1, <1>5, <3>1 DEF CallsInv
  <2> QED
    BY <2>1, <2>2
<1>12. MapIsSound'
  <2>1. Cardinality(entries') <= MaxCached
    <3>1. Cardinality(left \cup {l}) <= Cardinality(left) + 1
      <4>1. IsFiniteSet(left) /\ Cardinality(left) \in Nat
        BY <1>4
      <4> HIDE <1>4
      <4>2. Cardinality(left \cup {l}) =
              IF l \in left THEN Cardinality(left) ELSE Cardinality(left) + 1
        BY <4>1, FS_AddElement
      <4> QED
        BY <4>1, <4>2
    <3>2. Cardinality(left \cup {l}) \in Nat
      BY <1>4, FS_AddElement, FS_CardinalityType
    <3> QED
      BY <1>4, <3>1, <3>2, CacheAssumption
  <2>2. ASSUME NEW e \in entries', NEW f \in entries', e # f PROVE KeyOf(e)' # KeyOf(f)'
    BY <1>2, <1>4, <1>5, <1>6, <2>2 DEF MapIsSound
  <2>3. ASSUME NEW e \in entries' PROVE loads'[e].state # "rejected"
    BY <1>1, <1>2, <1>3, <1>4 DEF MapIsSound
  <2> QED
    BY <2>1, <2>2, <2>3 DEF MapIsSound
<1> QED
  BY <1>0, <1>9, <1>10, <1>11, <1>12 DEF AnnouncedInv

LEMMA ReadKeeps ==
  ASSUME CacheInv, NEW l \in DOMAIN loads, ReadData(l)
  PROVE  CacheInv'
<1> DEFINE r == [loads[l] EXCEPT !.state = "read", !.data = written[Owner(l)]]
<1> USE DEF CacheInv
<1>0. UNCHANGED <<written, announced, entries, expired, call>>
  BY DEF ReadData
<1>1. /\ r \in LoadRow /\ r.key = loads[l].key /\ r.state = "read" /\ r.data = written[Owner(l)]
      /\ written[Owner(l)] \in Nat /\ written[Owner(l)] >= announced[Owner(l)]
      /\ announced[Owner(l)] \in Nat
  <2>1. Owner(l) \in Project /\ loads[l] \in LoadRow
    BY LoadsAreRows
  <2>2. written[Owner(l)] \in 0 .. MaxWrites /\ announced[Owner(l)] \in 0 .. MaxWrites
        /\ announced[Owner(l)] <= written[Owner(l)]
    BY <2>1 DEF CacheTypeOK, AnnouncedInv
  <2>3. r \in LoadRow /\ r.key = loads[l].key /\ r.state = "read" /\ r.data = written[Owner(l)]
    BY <2>1, <2>2 DEF LoadRow, LoadState
  <2> QED
    BY <2>2, <2>3, CacheAssumption
<1>2. GoesOnAs(l, r)
  BY DEF ReadData, GoesOnAs
<1> HIDE DEF r
<1>3. /\ loads' \in Seq(LoadRow) /\ Len(loads') = Len(loads) /\ DOMAIN loads' = DOMAIN loads
      /\ loads'[l] = r /\ \A m \in DOMAIN loads : m # l => loads'[m] = loads[m]
      /\ \A m \in DOMAIN loads : KeyOf(m)' = KeyOf(m) /\ Owner(m)' = Owner(m)
  BY <1>1, <1>2, LoadGoesOn
<1>4. CacheTypeOK'
  BY <1>0, <1>3 DEF CacheTypeOK, LoadRow, LoadState
<1>5. EntriesInv'
  <2>1. entries \subseteq DOMAIN loads
    BY DEF CacheTypeOK
  <2> QED
    BY <1>0, <1>1, <1>3, <2>1 DEF EntriesInv, Answered
<1>6. CallsInv'
  <2> SUFFICES ASSUME NEW d \in Reader, NEW m, m = call[d].load, m # 0
               PROVE  /\ call[d].floor <= announced[Owner(m)']
                      /\ Answered(m)' => loads'[m].data >= call[d].floor
    BY <1>0 DEF CallsInv, Answered, Owner, KeyOf
  <2>1. m \in DOMAIN loads /\ call[d].floor \in Nat
    <3>1. call[d].load \in 0 .. Len(loads) /\ call[d].floor \in 0 .. MaxWrites
      BY DEF CacheTypeOK
    <3> QED
      BY <3>1, LoadsAreRows, CacheAssumption
  <2>2. call[d].floor <= announced[Owner(m)]
    BY DEF CallsInv
  <2>3. CASE m = l
    <3>1. Owner(l)' = Owner(l) /\ loads'[l].data = written[Owner(l)]
      BY <1>1, <1>3
    <3> QED
      BY <1>1, <2>1, <2>2, <2>3, <3>1
  <2>4. CASE m # l
    <3>1. loads'[m] = loads[m] /\ Owner(m)' = Owner(m)
      BY <1>3, <2>1, <2>4
    <3> QED
      BY <2>2, <3>1 DEF CallsInv, Answered
  <2> QED
    BY <2>3, <2>4
<1>7. MapIsSound'
  <2>1. entries \subseteq DOMAIN loads
    BY DEF CacheTypeOK
  <2> QED
    BY <1>0, <1>1, <1>3, <2>1 DEF MapIsSound
<1> QED
  BY <1>0, <1>4, <1>5, <1>6, <1>7 DEF AnnouncedInv

\* A load ends, with what it has read or with an error; its entry may go.
LEMMA EndKeeps ==
  ASSUME CacheInv, NEW l \in DOMAIN loads, NEW s \in LoadState,
         Answered(l) \/ s = "rejected", s \in {"resolved", "rejected"},
         GoesOnAs(l, [loads[l] EXCEPT !.state = s]),
         entries' \subseteq entries, s = "rejected" => l \notin entries',
         UNCHANGED <<written, announced, expired, call>>
  PROVE  CacheInv'
<1> DEFINE r == [loads[l] EXCEPT !.state = s]
<1> USE DEF CacheInv
<1>1. r \in LoadRow /\ r.key = loads[l].key /\ r.state = s /\ r.data = loads[l].data
  BY LoadsAreRows DEF LoadRow
<1> HIDE DEF r
<1>2. GoesOnAs(l, r)
  BY DEF r
<1>3. /\ loads' \in Seq(LoadRow) /\ Len(loads') = Len(loads) /\ DOMAIN loads' = DOMAIN loads
      /\ loads'[l] = r /\ \A m \in DOMAIN loads : m # l => loads'[m] = loads[m]
      /\ \A m \in DOMAIN loads : KeyOf(m)' = KeyOf(m) /\ Owner(m)' = Owner(m)
  BY <1>1, <1>2, LoadGoesOn
<1>4. \A m \in DOMAIN loads : loads'[m].data = loads[m].data /\ (Answered(m)' => Answered(m))
  BY <1>1, <1>3 DEF Answered
<1>5. entries' \subseteq DOMAIN loads
  BY DEF CacheTypeOK
<1>6. CacheTypeOK'
  BY <1>3, <1>5 DEF CacheTypeOK, LoadRow, LoadState
<1>7. EntriesInv'
  BY <1>3, <1>4, <1>5 DEF EntriesInv
<1>8. CallsInv'
  <2> SUFFICES ASSUME NEW d \in Reader, NEW m, m = call[d].load, m # 0
               PROVE  /\ call[d].floor <= announced[Owner(m)']
                      /\ Answered(m)' => loads'[m].data >= call[d].floor
    BY DEF CallsInv, Answered, Owner, KeyOf
  <2>1. m \in DOMAIN loads
    BY LoadsAreRows DEF CacheTypeOK
  <2> QED
    BY <1>3, <1>4, <2>1 DEF CallsInv
<1>9. MapIsSound'
  <2>1. Cardinality(entries') <= MaxCached
    <3>1. Cardinality(entries') <= Cardinality(entries) /\ Cardinality(entries') \in Nat
      BY EntriesAreFinite, FS_Subset, FS_CardinalityType
    <3> QED
      BY <3>1, EntriesAreFinite, CacheAssumption DEF MapIsSound
  <2>2. \A e, f \in entries' : e # f => KeyOf(e)' # KeyOf(f)'
    BY <1>3, <1>5 DEF MapIsSound
  <2>3. \A e \in entries' : loads'[e].state # "rejected"
    BY <1>1, <1>3, <1>5 DEF MapIsSound
  <2> QED
    BY <2>1, <2>2, <2>3 DEF MapIsSound
<1> QED
  BY <1>6, <1>7, <1>8, <1>9 DEF AnnouncedInv

LEMMA AnswerKeeps ==
  ASSUME CacheInv, NEW c \in Reader, Answer(c)
  PROVE  CacheInv'
<1> USE DEF CacheInv
<1>1. UNCHANGED <<written, announced, entries, loads, expired>> /\ call' = [call EXCEPT ![c] = Idle]
  BY DEF Answer
<1>2. Idle \in [load : 0 .. Len(loads), floor : 0 .. MaxWrites] /\ Idle.load = 0
  BY LoadsAreRows, CacheAssumption DEF Idle
<1>3. CacheTypeOK'
  BY <1>1, <1>2 DEF CacheTypeOK
<1>4. CallsInv'
  <2>1. \A d \in Reader : call'[d] = Idle \/ call'[d] = call[d]
    BY <1>1 DEF CacheTypeOK
  <2> QED
    BY <1>1, <1>2, <2>1 DEF CallsInv, Answered, Owner, KeyOf
<1> QED
  BY <1>1, <1>3, <1>4 DEF AnnouncedInv, EntriesInv, MapIsSound, Answered, Owner, KeyOf

LEMMA WriteKeeps ==
  ASSUME CacheInv, NEW p \in Project, Write(p)
  PROVE  CacheInv'
<1> USE DEF CacheInv
<1>1. UNCHANGED <<announced, entries, loads, expired, call>>
      /\ written' = [written EXCEPT ![p] = written[p] + 1] /\ written[p] < MaxWrites
  BY DEF Write
<1>2. written' \in [Project -> 0 .. MaxWrites]
  BY <1>1, CacheAssumption DEF CacheTypeOK
<1>3. AnnouncedInv'
  BY <1>1, CacheAssumption DEF CacheTypeOK, AnnouncedInv
<1> QED
  BY <1>1, <1>2, <1>3
  DEF CacheTypeOK, EntriesInv, CallsInv, MapIsSound, Answered, Owner, KeyOf

LEMMA InvalidateKeeps ==
  ASSUME CacheInv, NEW p \in Project, NEW n \in 1 .. MaxWrites, Invalidate(p, n)
  PROVE  CacheInv'
<1> USE DEF CacheInv
<1>1. /\ n \in announced[p] + 1 .. written[p]
      /\ announced' = [announced EXCEPT ![p] = n]
      /\ entries' = Kept(p)
      /\ UNCHANGED <<written, loads, expired, call>>
  BY DEF Invalidate
<1>2. \A m : Answered(m)' = Answered(m) /\ Owner(m)' = Owner(m) /\ KeyOf(m)' = KeyOf(m)
  BY <1>1 DEF Answered, Owner, KeyOf
<1>3. entries' \subseteq entries /\ \A e \in entries' : Owner(e) # p
  BY <1>1 DEF Kept
<1>4. /\ announced' \in [Project -> 0 .. MaxWrites] /\ announced[p] <= n
      /\ \A q \in Project : q # p => announced'[q] = announced[q]
      /\ announced'[p] = n /\ \A q \in Project : announced[q] \in Nat
  BY <1>1, CacheAssumption DEF CacheTypeOK
<1>5. CacheTypeOK' /\ AnnouncedInv'
  BY <1>1, <1>3, <1>4, CacheAssumption DEF CacheTypeOK, AnnouncedInv
<1>6. EntriesInv'
  <2>1. \A e \in entries : Owner(e) \in Project
    BY LoadsAreRows DEF CacheTypeOK
  <2> QED
    BY <1>1, <1>2, <1>3, <1>4, <2>1 DEF EntriesInv
<1>7. CallsInv'
  <2> SUFFICES ASSUME NEW d \in Reader, call[d].load # 0
               PROVE  call[d].floor <= announced'[Owner(call[d].load)]
    BY <1>1, <1>2 DEF CallsInv
  <2>1. call[d].load \in DOMAIN loads /\ call[d].floor \in Nat
    BY LoadsAreRows, CacheAssumption DEF CacheTypeOK
  <2>2. Owner(call[d].load) \in Project /\ call[d].floor <= announced[Owner(call[d].load)]
    BY <2>1, LoadsAreRows DEF CallsInv
  <2> QED
    BY <1>4, <2>1, <2>2
<1>8. MapIsSound'
  <2>1. Cardinality(entries') <= MaxCached
    <3>1. Cardinality(entries') <= Cardinality(entries) /\ Cardinality(entries') \in Nat
      BY <1>3, EntriesAreFinite, FS_Subset, FS_CardinalityType
    <3> QED
      BY <3>1, EntriesAreFinite, CacheAssumption DEF MapIsSound
  <2> QED
    BY <1>1, <1>2, <1>3, <2>1 DEF MapIsSound
<1> QED
  BY <1>5, <1>6, <1>7, <1>8

LEMMA CacheNextKeeps == CacheInv /\ [CacheNext]_cacheVars => CacheInv'
<1> SUFFICES ASSUME CacheInv, [CacheNext]_cacheVars PROVE CacheInv'
  OBVIOUS
<1>1. ASSUME NEW l \in DOMAIN loads, Resolve(l) PROVE CacheInv'
  <2>1. /\ Answered(l) /\ GoesOnAs(l, [loads[l] EXCEPT !.state = "resolved"])
        /\ entries' = entries /\ UNCHANGED <<written, announced, expired, call>>
    BY <1>1 DEF Resolve, Answered, GoesOnAs, EntriesAfterResolve
  <2> QED
    BY <2>1, EndKeeps DEF LoadState
<1>2. ASSUME NEW l \in DOMAIN loads, Reject(l) PROVE CacheInv'
  <2>1. /\ GoesOnAs(l, [loads[l] EXCEPT !.state = "rejected"])
        /\ entries' = entries \ {l} /\ UNCHANGED <<written, announced, expired, call>>
    BY <1>2 DEF Reject, GoesOnAs, EntriesAfterReject
  <2> QED
    BY <2>1, EndKeeps DEF LoadState
<1>3. ASSUME NEW l \in DOMAIN loads, TimeToLiveEnds(l) PROVE CacheInv'
  BY <1>3 DEF TimeToLiveEnds, CacheInv, CacheTypeOK, AnnouncedInv, EntriesInv, CallsInv,
     MapIsSound, Answered, Owner, KeyOf
<1>4. CASE UNCHANGED cacheVars
  BY <1>4 DEF cacheVars, CacheInv, CacheTypeOK, AnnouncedInv, EntriesInv, CallsInv,
     MapIsSound, Answered, Owner, KeyOf
<1> QED
  BY <1>1, <1>2, <1>3, <1>4, JoinKeeps, StartKeeps, ReadKeeps, AnswerKeeps, WriteKeeps,
     InvalidateKeeps
  DEF CacheNext

\* The query cache never answers with less than its caller knows to be written, and holds
\* no more, and nothing else, than it may (getOrLoad, invalidateProject, evictForInsert).
THEOREM CacheIsFresh == CacheSpec => []CacheIsSound
<1>1. CacheInv => CacheIsSound
  BY DEF CacheInv, CacheIsSound, CallsInv, ReadsSeeOwnWrites, Answered
<1> QED
  BY <1>1, CacheInitInv, CacheNextKeeps, PTL DEF CacheSpec

-----------------------------------------------------------------------------
(* The rate limiter: queues.                                                *)

LEMMA QueueRemoval ==
  ASSUME NEW S, NEW s \in Seq(S), IsInjective(s), NEW i \in 1 .. Len(s)
  PROVE  /\ Without(s, s[i]) \in Seq(S) /\ Len(Without(s, s[i])) = Len(s) - 1
         /\ \A j \in 1 .. Len(s) - 1 : Without(s, s[i])[j] = IF j < i THEN s[j] ELSE s[j + 1]
<1> DEFINE b == s[i]
           first == SubSeq(s, 1, i - 1)
           last == SubSeq(s, i + 1, Len(s))
<1>0. Len(s) \in Nat /\ DOMAIN s = 1 .. Len(s) /\ \A j \in 1 .. Len(s) : s[j] \in S
  BY LenProperties, ElementOfSeq
<1>1. Without(s, b) = first \o last
  <2>1. {j \in 1 .. Len(s) : s[j] = b} = {i}
    BY <1>0 DEF IsInjective
  <2>2. Min({i}) = i
    BY <1>0 DEF Min
  <2>3. SelectInSeq(s, LAMBDA v : v = b) = i
    BY <2>1, <2>2 DEF SelectInSeq
  <2> QED
    BY <2>3 DEF Without, RemoveFirst, RemoveAt
<1>2. /\ first \in Seq(S) /\ Len(first) = i - 1
      /\ \A j \in 1 .. i - 1 : first[j] = s[j]
  <2>1. 1 \in Int /\ i - 1 \in Int /\ \A j \in 1 .. i - 1 : s[j] \in S
    BY <1>0
  <2>2. /\ first \in Seq(S) /\ Len(first) = IF 1 <= i - 1 THEN i - 1 - 1 + 1 ELSE 0
        /\ \A j \in 1 .. i - 1 - 1 + 1 : first[j] = s[1 + j - 1]
    BY <2>1, SubSeqProperties
  <2> QED
    BY <1>0, <2>2
<1>3. /\ last \in Seq(S) /\ Len(last) = Len(s) - i
      /\ \A j \in 1 .. Len(s) - i : last[j] = s[i + j]
  <2>1. i + 1 \in Int /\ Len(s) \in Int /\ \A j \in i + 1 .. Len(s) : s[j] \in S
    BY <1>0
  <2>2. /\ last \in Seq(S) /\ Len(last) = IF i + 1 <= Len(s) THEN Len(s) - (i + 1) + 1 ELSE 0
        /\ \A j \in 1 .. Len(s) - (i + 1) + 1 : last[j] = s[(i + 1) + j - 1]
    BY <2>1, SubSeqProperties
  <2> HIDE DEF last
  <2>. PICK n \in Nat : n = Len(s)
    BY <1>0
  <2>3. i \in Int /\ 1 <= i /\ i <= n
    OBVIOUS
  <2>4. n - (i + 1) + 1 = n - i
    BY <2>3
  <2>5. \A j \in 1 .. n - i : (i + 1) + j - 1 = i + j
    BY <2>3
  <2>6. i + 1 <= n \/ i = n
    BY <2>3
  <2>7. Len(last) = n - i
    BY <2>2, <2>3, <2>4, <2>6
  <2> QED
    BY <2>2, <2>4, <2>5, <2>7
<1> HIDE DEF b, first, last
<1>4. /\ first \o last \in Seq(S) /\ Len(first \o last) = Len(first) + Len(last)
      /\ \A j \in 1 .. Len(first) + Len(last) :
           (first \o last)[j] = IF j <= Len(first) THEN first[j] ELSE last[j - Len(first)]
  BY <1>2, <1>3, ConcatProperties
<1>5. ASSUME NEW j \in 1 .. Len(s) - 1
      PROVE  (first \o last)[j] = IF j < i THEN s[j] ELSE s[j + 1]
  <2>1. CASE j < i
    BY <1>0, <1>2, <1>3, <1>4, <2>1
  <2>2. CASE ~(j < i)
    <3>1. j - (i - 1) \in 1 .. Len(s) - i /\ i + (j - (i - 1)) = j + 1
      BY <1>0, <2>2
    <3>2. (first \o last)[j] = last[j - (i - 1)]
      BY <1>0, <1>2, <1>3, <1>4, <2>2
    <3>3. last[j - (i - 1)] = s[i + (j - (i - 1))]
      BY <1>3, <3>1
    <3> QED
      BY <2>2, <3>1, <3>2, <3>3
  <2> QED
    BY <2>1, <2>2
<1>6. Len(first \o last) = Len(s) - 1
  BY <1>0, <1>2, <1>3, <1>4
<1> QED
  BY <1>1, <1>4, <1>5, <1>6 DEF b

\* A queue in which no id is twice.
Queue(s, S) == s \in Seq(S) /\ IsInjective(s)

LEMMA QueueFacts ==
  ASSUME NEW S, NEW s, Queue(s, S)
  PROVE  /\ Len(s) \in Nat /\ DOMAIN s = 1 .. Len(s) /\ ToSet(s) \subseteq S
         /\ \A j \in 1 .. Len(s) : s[j] \in S
         /\ \A j, k \in 1 .. Len(s) : s[j] = s[k] => j = k
<1>1. Len(s) \in Nat /\ DOMAIN s = 1 .. Len(s) /\ \A j \in 1 .. Len(s) : s[j] \in S
  BY LenProperties, ElementOfSeq DEF Queue
<1> QED
  BY <1>1 DEF Queue, IsInjective, ToSet

LEMMA QueueWithout ==
  ASSUME NEW S, NEW s, Queue(s, S), NEW b
  PROVE  /\ Queue(Without(s, b), S)
         /\ ToSet(Without(s, b)) = ToSet(s) \ {b}
         /\ Len(Without(s, b)) = IF b \in ToSet(s) THEN Len(s) - 1 ELSE Len(s)
         /\ \A c, d : Before(Without(s, b), c, d) <=> Before(s, c, d) /\ c # b /\ d # b
<1> DEFINE n == Len(s)
<1>0. /\ n \in Nat /\ DOMAIN s = 1 .. n /\ \A j \in 1 .. n : s[j] \in S
      /\ \A j, k \in 1 .. n : s[j] = s[k] => j = k
  BY QueueFacts
<1>1. CASE b \notin ToSet(s)
  <2>1. Without(s, b) = s
    BY <1>0, <1>1 DEF Without, RemoveFirst, ToSet
  <2>2. \A c, d : Before(s, c, d) => c \in ToSet(s) /\ d \in ToSet(s)
    BY <1>0 DEF Before, ToSet
  <2> QED
    BY <1>1, <2>1, <2>2
<1>2. CASE b \in ToSet(s)
  <2>1. PICK i \in 1 .. n : s[i] = b
    BY <1>0, <1>2 DEF ToSet
  <2> DEFINE t == Without(s, b)
  <2>2. /\ t \in Seq(S) /\ Len(t) = n - 1 /\ DOMAIN t = 1 .. n - 1
        /\ \A j \in 1 .. n - 1 : t[j] = IF j < i THEN s[j] ELSE s[j + 1]
    BY <2>1, QueueRemoval, LenProperties DEF Queue
  <2> HIDE DEF t
  \* Where an id that stays is found.
  <2>3. \A j \in 1 .. n : s[j] # b =>
          \E k \in 1 .. n - 1 : k = (IF j < i THEN j ELSE j - 1) /\ t[k] = s[j]
    <3> SUFFICES ASSUME NEW j \in 1 .. n, s[j] # b
                 PROVE  \E k \in 1 .. n - 1 : k = (IF j < i THEN j ELSE j - 1) /\ t[k] = s[j]
      OBVIOUS
    <3>1. CASE j < i
      <4>1. j \in 1 .. n - 1
        BY <1>0, <3>1
      <4>2. t[j] = s[j]
        BY <2>2, <3>1, <4>1
      <4> QED
        BY <3>1, <4>1, <4>2
    <3>2. CASE j > i
      <4>1. j - 1 \in 1 .. n - 1 /\ ~(j - 1 < i) /\ (j - 1) + 1 = j /\ ~(j < i)
        BY <1>0, <3>2
      <4>2. t[j - 1] = s[(j - 1) + 1]
        BY <2>2, <4>1
      <4> QED
        BY <4>1, <4>2
    <3>3. j # i
      BY <2>1
    <3> QED
      BY <1>0, <3>1, <3>2, <3>3
  <2>4. \A k \in 1 .. n - 1 : \E j \in 1 .. n : /\ j = (IF k < i THEN k ELSE k + 1)
                                                /\ j # i /\ t[k] = s[j] /\ s[j] # b
    <3> SUFFICES ASSUME NEW k \in 1 .. n - 1
                 PROVE  \E j \in 1 .. n : /\ j = (IF k < i THEN k ELSE k + 1)
                                          /\ j # i /\ t[k] = s[j] /\ s[j] # b
      OBVIOUS
    <3>1. CASE k < i
      BY <1>0, <2>1, <2>2, <3>1
    <3>2. CASE ~(k < i)
      <4>1. k + 1 \in 1 .. n /\ k + 1 # i
        BY <1>0, <3>2
      <4> QED
        BY <1>0, <2>1, <2>2, <3>2, <4>1
    <3> QED
      BY <3>1, <3>2
  <2>5. IsInjective(t)
    BY <1>0, <2>2, <2>4 DEF IsInjective
  <2>6. ToSet(t) = ToSet(s) \ {b}
    <3>1. \A x \in ToSet(t) : x \in ToSet(s) /\ x # b
      BY <1>0, <2>2, <2>4 DEF ToSet
    <3>2. \A x \in ToSet(s) : x # b => x \in ToSet(t)
      BY <1>0, <2>2, <2>3 DEF ToSet
    <3> QED
      BY <3>1, <3>2
  <2>7. ASSUME NEW c, NEW d, Before(t, c, d) PROVE Before(s, c, d) /\ c # b /\ d # b
    <3>1. PICK j, k \in 1 .. n - 1 : j < k /\ t[j] = c /\ t[k] = d
      BY <2>2, <2>7 DEF Before
    <3>2. PICK jj \in 1 .. n : jj = (IF j < i THEN j ELSE j + 1) /\ t[j] = s[jj] /\ s[jj] # b
      BY <2>4
    <3>3. PICK kk \in 1 .. n : kk = (IF k < i THEN k ELSE k + 1) /\ t[k] = s[kk] /\ s[kk] # b
      BY <2>4
    <3>4. jj < kk
      BY <1>0, <3>1, <3>2, <3>3
    <3>5. s[jj] = c /\ s[kk] = d /\ c # b /\ d # b
      BY <3>1, <3>2, <3>3
    <3> QED
      BY <1>0, <3>4, <3>5 DEF Before
  <2>8. ASSUME NEW c, NEW d, Before(s, c, d), c # b, d # b PROVE Before(t, c, d)
    <3>1. PICK j, k \in 1 .. n : j < k /\ s[j] = c /\ s[k] = d
      BY <1>0, <2>8 DEF Before
    <3>2. PICK jj \in 1 .. n - 1 : jj = (IF j < i THEN j ELSE j - 1) /\ t[jj] = c
      BY <2>3, <2>8, <3>1
    <3>3. PICK kk \in 1 .. n - 1 : kk = (IF k < i THEN k ELSE k - 1) /\ t[kk] = d
      BY <2>3, <2>8, <3>1
    <3>4. jj < kk
      BY <1>0, <2>1, <2>8, <3>1, <3>2, <3>3
    <3> QED
      BY <2>2, <3>2, <3>3, <3>4 DEF Before
  <2> QED
    BY <1>2, <2>2, <2>5, <2>6, <2>7, <2>8 DEF t, Queue
<1> QED
  BY <1>1, <1>2

LEMMA QueueAppend ==
  ASSUME NEW S, NEW s, Queue(s, S), NEW b \in S, b \notin ToSet(s)
  PROVE  /\ Queue(Append(s, b), S)
         /\ ToSet(Append(s, b)) = ToSet(s) \cup {b}
         /\ Len(Append(s, b)) = Len(s) + 1
         /\ \A c, d : Before(Append(s, b), c, d) <=> Before(s, c, d) \/ (c \in ToSet(s) /\ d = b)
<1> DEFINE n == Len(s)
           t == Append(s, b)
<1>0. /\ n \in Nat /\ DOMAIN s = 1 .. n /\ \A j \in 1 .. n : s[j] \in S /\ s[j] # b
      /\ \A j, k \in 1 .. n : s[j] = s[k] => j = k
  BY QueueFacts DEF ToSet
<1>1. /\ t \in Seq(S) /\ Len(t) = n + 1 /\ t[n + 1] = b
      /\ \A j \in 1 .. n : t[j] = s[j]
  BY AppendProperties DEF Queue
<1>2. DOMAIN t = 1 .. n + 1
  BY <1>1, LenProperties
<1> HIDE DEF t
<1>3. IsInjective(t)
  BY <1>0, <1>1, <1>2 DEF IsInjective
<1>4. ToSet(t) = ToSet(s) \cup {b}
  <2>1. \A x \in ToSet(t) : x \in ToSet(s) \/ x = b
    BY <1>0, <1>1, <1>2 DEF ToSet
  <2>2. b \in ToSet(t)
    BY <1>0, <1>1, <1>2 DEF ToSet
  <2>3. \A x \in ToSet(s) : x \in ToSet(t)
    BY <1>0, <1>1, <1>2 DEF ToSet
  <2> QED
    BY <2>1, <2>2, <2>3
<1>5. ASSUME NEW c, NEW d PROVE Before(t, c, d) <=> Before(s, c, d) \/ (c \in ToSet(s) /\ d = b)
  <2>1. ASSUME Before(t, c, d) PROVE Before(s, c, d) \/ (c \in ToSet(s) /\ d = b)
    <3>1. PICK j, k \in 1 .. n + 1 : j < k /\ t[j] = c /\ t[k] = d
      BY <1>2, <2>1 DEF Before
    <3>2. CASE k = n + 1
      BY <1>0, <1>1, <3>1, <3>2 DEF ToSet
    <3>3. CASE k # n + 1
      BY <1>0, <1>1, <3>1, <3>3 DEF Before
    <3> QED
      BY <3>2, <3>3
  <2>2. ASSUME Before(s, c, d) PROVE Before(t, c, d)
    BY <1>0, <1>1, <1>2, <2>2 DEF Before
  <2>3. ASSUME c \in ToSet(s), d = b PROVE Before(t, c, d)
    <3>1. PICK j \in 1 .. n : s[j] = c
      BY <1>0, <2>3 DEF ToSet
    <3> QED
      BY <1>0, <1>1, <1>2, <2>3, <3>1 DEF Before
  <2> QED
    BY <2>1, <2>2, <2>3
<1> QED
  BY <1>1, <1>3, <1>4, <1>5 DEF Queue, t

\* moveToEnd keeps who is in a queue.
LEMMA QueueMove ==
  ASSUME NEW S, NEW s, Queue(s, S), NEW b \in ToSet(s)
  PROVE  /\ Queue(ToEnd(s, b), S) /\ ToSet(ToEnd(s, b)) = ToSet(s) /\ Len(ToEnd(s, b)) = Len(s)
         /\ \A c, d : Before(ToEnd(s, b), c, d) <=>
              c # b /\ c \in ToSet(s) /\ (d = b \/ Before(s, c, d))
<1> DEFINE w == Without(s, b)
<1>1. /\ Queue(w, S) /\ ToSet(w) = ToSet(s) \ {b} /\ Len(w) = Len(s) - 1
      /\ \A c, d : Before(w, c, d) <=> Before(s, c, d) /\ c # b /\ d # b
  BY QueueWithout
<1>2. b \in S /\ b \notin ToSet(w) /\ Len(s) \in Nat
  BY <1>1, QueueFacts
<1>3. \A c, d : Before(s, c, d) => c \in ToSet(s)
  BY QueueFacts DEF Before, ToSet
<1> HIDE DEF w
<1>4. /\ Queue(Append(w, b), S) /\ ToSet(Append(w, b)) = ToSet(w) \cup {b}
      /\ Len(Append(w, b)) = Len(w) + 1
      /\ \A c, d : Before(Append(w, b), c, d) <=> Before(w, c, d) \/ (c \in ToSet(w) /\ d = b)
  BY <1>1, <1>2, QueueAppend
<1> QED
  BY <1>1, <1>2, <1>3, <1>4 DEF ToEnd, w

-----------------------------------------------------------------------------
(* What a bucket holds.                                                     *)

Row(b) == [tokens : 0 .. Burst[b], unrefilled : 0 .. Burst[b], unseen : 0 .. IdleTtl]

LEMMA Limits ==
  /\ \A b \in Bucket : Burst[b] \in Nat /\ Burst[b] > 0 /\ Rate[b] \in Nat /\ Rate[b] > 0
                       /\ TenantOf[b] \in Tenant
  /\ MaxEntries \in Nat /\ MaxEntries > 0 /\ MaxEntriesPerTenant \in Nat
  /\ MaxEntriesPerTenant > 0 /\ IdleTtl \in Nat
BY LimiterAssumption

\* What a bucket holds is between nothing and its burst, and a refill does not change it.
LEMMA RowFacts ==
  ASSUME NEW b \in Bucket, NEW r \in Row(b)
  PROVE  /\ Tokens(b, r) \in 0 .. Burst[b]
         /\ Refilled(b, r) \in Row(b)
         /\ Refilled(b, r).tokens = Tokens(b, r) /\ Refilled(b, r).unrefilled = 0
         /\ Tokens(b, Refilled(b, r)) = Tokens(b, r)
<1>0. r.tokens \in Nat /\ r.unrefilled \in Nat /\ Burst[b] \in Nat /\ Rate[b] \in Nat
  BY Limits DEF Row
<1>1. r.unrefilled * Rate[b] \in Nat
  BY <1>0
<1>2. Tokens(b, r) \in 0 .. Burst[b]
  BY <1>0, <1>1 DEF Tokens, Smaller
<1>3. /\ Refilled(b, r) \in Row(b)
      /\ Refilled(b, r).tokens = Tokens(b, r) /\ Refilled(b, r).unrefilled = 0
  <2>. PICK n \in 0 .. Burst[b] : n = Tokens(b, r)
    BY <1>2
  <2>1. Refilled(b, r) = [r EXCEPT !.tokens = n, !.unrefilled = 0]
    BY DEF Refilled
  <2>2. 0 \in 0 .. Burst[b]
    BY <1>0
  <2>3. [r EXCEPT !.tokens = n, !.unrefilled = 0] \in Row(b)
    BY <2>2 DEF Row
  <2>4. [r EXCEPT !.tokens = n, !.unrefilled = 0].tokens = n
        /\ [r EXCEPT !.tokens = n, !.unrefilled = 0].unrefilled = 0
    BY DEF Row
  <2> QED
    BY <2>1, <2>3, <2>4
<1>4. Tokens(b, r) + 0 * Rate[b] = Tokens(b, r)
  BY <1>0, <1>2
<1>5. Tokens(b, Refilled(b, r)) = Smaller(Burst[b], Tokens(b, r))
  BY <1>3, <1>4 DEF Tokens
<1> QED
  BY <1>0, <1>2, <1>3, <1>5 DEF Smaller

\* A unit of time later it holds as much more as flows in.
LEMMA RowAges ==
  ASSUME NEW b \in Bucket, NEW r \in Row(b)
  PROVE  /\ Aged(b, r) \in Row(b)
         /\ Tokens(b, Aged(b, r)) = Smaller(Burst[b], Tokens(b, r) + Rate[b])
<1> DEFINE u == r.unrefilled
           n == r.tokens
           B == Burst[b]
           R == Rate[b]
<1>0. n \in Nat /\ u \in Nat /\ u <= B /\ B \in Nat /\ R \in Nat /\ R > 0 /\ r.unseen \in Nat
      /\ IdleTtl \in Nat /\ n <= B
  BY Limits DEF Row
<1>1. Aged(b, r) \in Row(b)
  BY <1>0 DEF Aged, Smaller, Row
<1>2. Aged(b, r).tokens = n /\ Aged(b, r).unrefilled = Smaller(u + 1, B)
  BY DEF Aged
<1>3. Tokens(b, Aged(b, r)) = Smaller(B, n + Smaller(u + 1, B) * R)
  BY <1>2 DEF Tokens
<1>4. Tokens(b, r) = Smaller(B, n + u * R)
  BY DEF Tokens
<1> HIDE DEF u, n, B, R
<1>5. u * R \in Nat /\ (u + 1) * R = u * R + R
  BY <1>0
<1>6. CASE u + 1 <= B
  <2>1. Smaller(u + 1, B) = u + 1
    BY <1>0, <1>6 DEF Smaller
  <2>2. Smaller(B, n + (u * R + R)) = Smaller(B, Smaller(B, n + u * R) + R)
    BY <1>0, <1>5 DEF Smaller
  <2> QED
    BY <1>1, <1>3, <1>4, <1>5, <2>1, <2>2 DEF B, R
<1>7. CASE u = B
  <2>1. Smaller(u + 1, B) = B
    BY <1>0, <1>7 DEF Smaller
  <2>2. B * R \in Nat /\ B * R >= B
    BY <1>0
  <2>3. Smaller(B, n + B * R) = B
    BY <1>0, <2>2 DEF Smaller
  <2>4. Smaller(B, Smaller(B, n + B * R) + R) = B
    BY <1>0, <2>3 DEF Smaller
  <2> QED
    BY <1>1, <1>3, <1>4, <1>7, <2>1, <2>3, <2>4 DEF B, R
<1> QED
  BY <1>0, <1>6, <1>7

-----------------------------------------------------------------------------
(* Stores.                                                                  *)

\* A store: its queues, what it knows of the buckets in them, and that each
\* organization's queue is its part of the whole.
StoreShape(st) == st = [all |-> st.all, tenant |-> st.tenant, state |-> st.state]

TenantQueues(st, ids) ==
  /\ DOMAIN st.tenant = Tenant /\ st.tenant = [t \in Tenant |-> st.tenant[t]]
  /\ \A t \in Tenant : Queue(st.tenant[t], ids)

StoreInv(st, ids) ==
  /\ StoreShape(st)
  /\ Queue(st.all, ids)
  /\ TenantQueues(st, ids)
  /\ DOMAIN st.state = ToSet(st.all)
  /\ \A b \in ToSet(st.all) : st.state[b] \in Row(b)
  /\ SameOrder(st)

HeldIn(st, b) == IF Has(st, b) THEN Tokens(b, st.state[b]) ELSE Burst[b]

\* Two stores in which every bucket holds the same.
SameHeld(st, new) == \A b \in Bucket : HeldIn(new, b) = HeldIn(st, b)

LEMMA StoreFacts ==
  ASSUME NEW ids \in SUBSET Bucket, NEW st, StoreInv(st, ids)
  PROVE  /\ \A b : Has(st, b) => b \in ids /\ b \in Bucket /\ st.state[b] \in Row(b)
         /\ \A b : Has(st, b) <=> b \in ToSet(st.all)
         /\ \A t \in Tenant : \A b :
              b \in ToSet(st.tenant[t]) <=> b \in ToSet(st.all) /\ TenantOf[b] = t
         /\ Len(st.all) \in Nat /\ \A t \in Tenant : Len(st.tenant[t]) \in Nat
<1>1. ToSet(st.all) \subseteq ids /\ Len(st.all) \in Nat
  BY QueueFacts DEF StoreInv
<1>2. \A t \in Tenant : Len(st.tenant[t]) \in Nat
  BY QueueFacts DEF StoreInv, TenantQueues
<1>3. \A t \in Tenant : \A b : b \in ToSet(st.tenant[t]) <=> b \in ToSet(st.all) /\ TenantOf[b] = t
  BY DEF StoreInv, SameOrder
<1> QED
  BY <1>1, <1>2, <1>3 DEF StoreInv, Has

\* What is known of a bucket in the store changes, and nothing else.
ChangedAt(st, new, b, r) ==
  /\ new.all = st.all /\ new.tenant = st.tenant
  /\ DOMAIN new.state = DOMAIN st.state
  /\ \A c \in DOMAIN st.state : new.state[c] = IF c = b THEN r ELSE st.state[c]

LEMMA PutKeeps ==
  ASSUME NEW ids \in SUBSET Bucket, NEW st, StoreInv(st, ids),
         NEW b, Has(st, b), NEW r \in Row(b), NEW new, new = Put(st, b, r)
  PROVE  StoreInv(new, ids) /\ ChangedAt(st, new, b, r)
<1> DEFINE rows == [o \in DOMAIN st.state |-> IF o = b THEN r ELSE st.state[o]]
<1>1. DOMAIN st.state \cup {b} = DOMAIN st.state
  BY DEF Has
<1>2. new = [st EXCEPT !.state = rows]
  BY <1>1 DEF Put
<1> HIDE DEF rows
<1>3. new = [all |-> st.all, tenant |-> st.tenant, state |-> rows]
  BY <1>2 DEF StoreInv, StoreShape
<1>4. new.all = st.all /\ new.tenant = st.tenant /\ new.state = rows
  BY <1>3
<1>5. /\ DOMAIN rows = DOMAIN st.state /\ rows[b] = r
      /\ \A c \in DOMAIN st.state : c # b => rows[c] = st.state[c]
  BY DEF rows, Has
<1>6. SameOrder(new) /\ TenantQueues(new, ids)
  BY <1>4 DEF StoreInv, SameOrder, TenantQueues
<1>7. \A c \in ToSet(st.all) : rows[c] \in Row(c)
  BY <1>5 DEF StoreInv
<1>8. StoreShape(new)
  BY <1>3 DEF StoreShape
<1>9. StoreInv(new, ids)
  BY <1>4, <1>5, <1>6, <1>7, <1>8 DEF StoreInv
<1> QED
  BY <1>4, <1>5, <1>9 DEF ChangedAt

\* A refill is a change nobody notices.
LEMMA RefillKeeps ==
  ASSUME NEW ids \in SUBSET Bucket, NEW st, StoreInv(st, ids),
         NEW b, Has(st, b), NEW new, new = Put(st, b, Refilled(b, st.state[b]))
  PROVE  /\ StoreInv(new, ids) /\ SameHeld(st, new)
         /\ ChangedAt(st, new, b, Refilled(b, st.state[b]))
<1>1. b \in Bucket /\ st.state[b] \in Row(b)
  BY StoreFacts
<1>2. PICK r \in Row(b) : r = Refilled(b, st.state[b]) /\ Tokens(b, r) = Tokens(b, st.state[b])
  BY <1>1, RowFacts
<1>3. new = Put(st, b, r)
  BY <1>2
<1>4. StoreInv(new, ids) /\ ChangedAt(st, new, b, r)
  BY <1>3, PutKeeps
<1>5. SameHeld(st, new)
  BY <1>2, <1>4 DEF SameHeld, HeldIn, Has, ChangedAt
<1> QED
  BY <1>2, <1>4, <1>5

\* The queue of one organization changes.
QueueOfBecomes(st, new, t, q) ==
  \A o \in Tenant : new.tenant[o] = IF o = t THEN q ELSE st.tenant[o]

LEMMA TenantChanges ==
  ASSUME NEW ids \in SUBSET Bucket, NEW st, StoreInv(st, ids), NEW t \in Tenant,
         NEW q, Queue(q, ids), NEW new, new.tenant = [st.tenant EXCEPT ![t] = q]
  PROVE  TenantQueues(new, ids) /\ QueueOfBecomes(st, new, t, q)
<1>1. DOMAIN new.tenant = Tenant /\ new.tenant = [o \in Tenant |-> new.tenant[o]]
  BY DEF StoreInv, TenantQueues
<1>2. QueueOfBecomes(st, new, t, q)
  BY DEF StoreInv, TenantQueues, QueueOfBecomes
<1>3. \A o \in Tenant : Queue(new.tenant[o], ids)
  BY <1>2 DEF StoreInv, TenantQueues, QueueOfBecomes
<1> QED
  BY <1>1, <1>2, <1>3 DEF TenantQueues

\* No queue of the store has grown.
NoLarger(st, new) ==
  /\ Len(new.all) <= Len(st.all)
  /\ \A t \in Tenant : Len(new.tenant[t]) <= Len(st.tenant[t])

LEMMA TouchedKeeps ==
  ASSUME NEW ids \in SUBSET Bucket, NEW st, StoreInv(st, ids),
         NEW b, NEW new, new = Touched(st, b)
  PROVE  /\ StoreInv(new, ids) /\ SameHeld(st, new) /\ NoLarger(st, new)
         /\ DOMAIN new.state = DOMAIN st.state
<1>1. CASE ~Has(st, b)
  <2>1. new = st
    BY <1>1 DEF Touched
  <2>2. NoLarger(st, st)
    BY StoreFacts DEF NoLarger
  <2> QED
    BY <2>1, <2>2 DEF SameHeld
<1>2. CASE Has(st, b)
  <2>0. b \in Bucket /\ st.state[b] \in Row(b) /\ b \in ToSet(st.all)
    BY <1>2, StoreFacts
  <2>1. PICK t \in Tenant : t = TenantOf[b]
    BY <2>0, Limits
  <2>2. b \in ToSet(st.tenant[t]) /\ Queue(st.all, ids) /\ Queue(st.tenant[t], ids)
    BY <2>0, <2>1, StoreFacts DEF StoreInv, TenantQueues
  <2>3. PICK a : a = ToEnd(st.all, b)
    OBVIOUS
  <2>4. PICK q : q = ToEnd(st.tenant[t], b)
    OBVIOUS
  <2>5. /\ Queue(a, ids) /\ ToSet(a) = ToSet(st.all) /\ Len(a) = Len(st.all)
        /\ \A c, d : Before(a, c, d) <=>
             c # b /\ c \in ToSet(st.all) /\ (d = b \/ Before(st.all, c, d))
    BY <2>0, <2>2, <2>3, QueueMove
  <2>6. /\ Queue(q, ids) /\ ToSet(q) = ToSet(st.tenant[t]) /\ Len(q) = Len(st.tenant[t])
        /\ \A c, d : Before(q, c, d) <=>
             c # b /\ c \in ToSet(st.tenant[t]) /\ (d = b \/ Before(st.tenant[t], c, d))
    BY <2>2, <2>4, QueueMove
  <2>7. PICK r \in Row(b) : r = [st.state[b] EXCEPT !.unseen = 0]
                            /\ Tokens(b, r) = Tokens(b, st.state[b])
    <3>1. [st.state[b] EXCEPT !.unseen = 0] \in Row(b)
      BY <2>0, Limits DEF Row
    <3>2. /\ [st.state[b] EXCEPT !.unseen = 0].tokens = st.state[b].tokens
          /\ [st.state[b] EXCEPT !.unseen = 0].unrefilled = st.state[b].unrefilled
      BY <2>0 DEF Row
    <3> QED
      BY <3>1, <3>2 DEF Tokens
  <2>8. PICK seen : seen = Put(st, b, r)
    OBVIOUS
  <2>9. StoreInv(seen, ids) /\ ChangedAt(st, seen, b, r)
    BY <1>2, <2>8, PutKeeps
  <2>10. new = [seen EXCEPT !.all = a, !.tenant = [st.tenant EXCEPT ![t] = q]]
    BY <1>2, <2>1, <2>3, <2>4, <2>7, <2>8 DEF Touched, Seen, Moved
  <2>11. new = [all |-> a, tenant |-> [st.tenant EXCEPT ![t] = q], state |-> seen.state]
    BY <2>9, <2>10 DEF StoreInv, StoreShape
  <2>12. new.all = a /\ new.tenant = [st.tenant EXCEPT ![t] = q] /\ new.state = seen.state
         /\ StoreShape(new)
    BY <2>11 DEF StoreShape
  <2>13. TenantQueues(new, ids) /\ QueueOfBecomes(st, new, t, q)
    BY <2>6, <2>12, TenantChanges
  <2>14. DOMAIN new.state = ToSet(new.all) /\ \A c \in ToSet(new.all) : new.state[c] \in Row(c)
    BY <2>5, <2>9, <2>12 DEF StoreInv, ChangedAt
  <2>15. SameOrder(new)
    <3> SUFFICES ASSUME NEW o \in Tenant
                 PROVE  /\ ToSet(new.tenant[o]) = {c \in ToSet(new.all) : TenantOf[c] = o}
                        /\ \A c, d \in ToSet(new.tenant[o]) :
                             Before(new.tenant[o], c, d) <=> Before(new.all, c, d)
      BY DEF SameOrder
    <3>1. /\ ToSet(st.tenant[o]) = {c \in ToSet(st.all) : TenantOf[c] = o}
          /\ \A c, d \in ToSet(st.tenant[o]) :
               Before(st.tenant[o], c, d) <=> Before(st.all, c, d)
      BY DEF StoreInv, SameOrder
    <3>2. CASE o = t
      BY <2>5, <2>6, <2>12, <2>13, <3>1, <3>2 DEF QueueOfBecomes
    <3>3. CASE o # t
      BY <2>1, <2>5, <2>12, <2>13, <3>1, <3>3 DEF QueueOfBecomes
    <3> QED
      BY <3>2, <3>3
  <2>16. StoreInv(new, ids)
    BY <2>5, <2>12, <2>13, <2>14, <2>15 DEF StoreInv
  <2>17. SameHeld(st, new)
    BY <2>7, <2>9, <2>12 DEF SameHeld, HeldIn, Has, ChangedAt
  <2>18. NoLarger(st, new)
    BY <2>5, <2>6, <2>12, <2>13, StoreFacts DEF NoLarger, QueueOfBecomes
  <2> QED
    BY <2>9, <2>12, <2>16, <2>17, <2>18 DEF ChangedAt
<1> QED
  BY <1>1, <1>2

\* A bucket that is full may be forgotten: it is taken to be full when it comes back.
LEMMA RemovedKeeps ==
  ASSUME NEW ids \in SUBSET Bucket, NEW st, StoreInv(st, ids),
         NEW b, Has(st, b), Tokens(b, st.state[b]) = Burst[b], NEW new, new = Removed(st, b)
  PROVE  /\ StoreInv(new, ids) /\ SameHeld(st, new) /\ NoLarger(st, new)
         /\ DOMAIN new.state = DOMAIN st.state \ {b}
         /\ Len(new.all) < Len(st.all)
         /\ Len(new.tenant[TenantOf[b]]) < Len(st.tenant[TenantOf[b]])
<1>0. b \in Bucket /\ b \in ToSet(st.all)
  BY StoreFacts
<1>1. PICK t \in Tenant : t = TenantOf[b]
  BY <1>0, Limits
<1>2. b \in ToSet(st.tenant[t]) /\ Queue(st.all, ids) /\ Queue(st.tenant[t], ids)
  BY <1>0, <1>1, StoreFacts DEF StoreInv, TenantQueues
<1>3. PICK a : a = Without(st.all, b)
  OBVIOUS
<1>4. PICK q : q = Without(st.tenant[t], b)
  OBVIOUS
<1>5. /\ Queue(a, ids) /\ ToSet(a) = ToSet(st.all) \ {b} /\ Len(a) = Len(st.all) - 1
      /\ \A c, d : Before(a, c, d) <=> Before(st.all, c, d) /\ c # b /\ d # b
  BY <1>0, <1>2, <1>3, QueueWithout
<1>6. /\ Queue(q, ids) /\ ToSet(q) = ToSet(st.tenant[t]) \ {b} /\ Len(q) = Len(st.tenant[t]) - 1
      /\ \A c, d : Before(q, c, d) <=> Before(st.tenant[t], c, d) /\ c # b /\ d # b
  BY <1>2, <1>4, QueueWithout
<1> DEFINE rows == [o \in DOMAIN st.state \ {b} |-> st.state[o]]
<1>7. new = [all |-> a, tenant |-> [st.tenant EXCEPT ![t] = q], state |-> rows]
  BY <1>1, <1>3, <1>4 DEF Removed
<1>8. /\ DOMAIN rows = DOMAIN st.state \ {b}
      /\ \A c \in DOMAIN rows : rows[c] = st.state[c]
  OBVIOUS
<1> HIDE DEF rows
<1>9. new.all = a /\ new.tenant = [st.tenant EXCEPT ![t] = q] /\ new.state = rows
      /\ StoreShape(new)
  BY <1>7 DEF StoreShape
<1>10. TenantQueues(new, ids) /\ QueueOfBecomes(st, new, t, q)
  BY <1>6, <1>9, TenantChanges
<1>11. DOMAIN new.state = ToSet(new.all) /\ \A c \in ToSet(new.all) : new.state[c] \in Row(c)
  BY <1>5, <1>8, <1>9 DEF StoreInv
<1>12. SameOrder(new)
  <2> SUFFICES ASSUME NEW o \in Tenant
               PROVE  /\ ToSet(new.tenant[o]) = {c \in ToSet(new.all) : TenantOf[c] = o}
                      /\ \A c, d \in ToSet(new.tenant[o]) :
                           Before(new.tenant[o], c, d) <=> Before(new.all, c, d)
    BY DEF SameOrder
  <2>1. /\ ToSet(st.tenant[o]) = {c \in ToSet(st.all) : TenantOf[c] = o}
        /\ \A c, d \in ToSet(st.tenant[o]) :
             Before(st.tenant[o], c, d) <=> Before(st.all, c, d)
    BY DEF StoreInv, SameOrder
  <2>2. CASE o = t
    BY <1>5, <1>6, <1>9, <1>10, <2>1, <2>2 DEF QueueOfBecomes
  <2>3. CASE o # t
    BY <1>1, <1>5, <1>9, <1>10, <2>1, <2>3 DEF QueueOfBecomes
  <2> QED
    BY <2>2, <2>3
<1>13. StoreInv(new, ids)
  BY <1>5, <1>9, <1>10, <1>11, <1>12 DEF StoreInv
<1>14. SameHeld(st, new)
  BY <1>8, <1>9 DEF SameHeld, HeldIn, Has
<1>15. NoLarger(st, new) /\ Len(new.all) < Len(st.all) /\ Len(new.tenant[t]) < Len(st.tenant[t])
  <2>1. \A o \in Tenant : Len(st.tenant[o]) \in Nat
    BY StoreFacts
  <2>2. Len(st.all) \in Nat
    BY StoreFacts
  <2>3. Len(new.all) <= Len(st.all) /\ Len(new.all) < Len(st.all)
    BY <1>5, <1>9, <2>2
  <2>4. Len(new.tenant[t]) < Len(st.tenant[t])
    BY <1>6, <1>10, <2>1 DEF QueueOfBecomes
  <2>5. \A o \in Tenant : Len(new.tenant[o]) <= Len(st.tenant[o])
    BY <1>6, <1>10, <2>1 DEF QueueOfBecomes
  <2> QED
    BY <2>3, <2>4, <2>5 DEF NoLarger
<1> QED
  BY <1>1, <1>8, <1>9, <1>13, <1>14, <1>15

\* Whatever is done for a request, no bucket holds more or less for it, nothing is
\* added to the store, and no queue grows.
Keeps(st, new, ids) ==
  /\ StoreInv(new, ids) /\ SameHeld(st, new) /\ NoLarger(st, new)
  /\ DOMAIN new.state \subseteq DOMAIN st.state

LEMMA KeepsTwice ==
  ASSUME NEW ids \in SUBSET Bucket, NEW st, NEW mid, NEW new, StoreInv(st, ids),
         Keeps(st, mid, ids), Keeps(mid, new, ids)
  PROVE  Keeps(st, new, ids)
<1>1. /\ Len(st.all) \in Nat /\ Len(mid.all) \in Nat /\ Len(new.all) \in Nat
      /\ \A t \in Tenant : Len(st.tenant[t]) \in Nat /\ Len(mid.tenant[t]) \in Nat
                           /\ Len(new.tenant[t]) \in Nat
  BY StoreFacts DEF Keeps
<1>2. Len(new.all) <= Len(st.all)
  BY <1>1 DEF Keeps, NoLarger
<1>3. ASSUME NEW t \in Tenant PROVE Len(new.tenant[t]) <= Len(st.tenant[t])
  <2>1. Len(new.tenant[t]) <= Len(mid.tenant[t]) /\ Len(mid.tenant[t]) <= Len(st.tenant[t])
    BY DEF Keeps, NoLarger
  <2>2. Len(st.tenant[t]) \in Nat /\ Len(mid.tenant[t]) \in Nat /\ Len(new.tenant[t]) \in Nat
    BY <1>1
  <2> QED
    BY <2>1, <2>2
<1> QED
  BY <1>2, <1>3 DEF Keeps, SameHeld, NoLarger

LEMMA EvictedKeeps ==
  ASSUME NEW ids \in SUBSET Bucket, NEW st, StoreInv(st, ids),
         NEW queue, Queue(queue, ids), ToSet(queue) \subseteq ToSet(st.all), Len(queue) > 0,
         NEW new, new = Evicted(st, queue)
  PROVE  /\ Keeps(st, new.store, ids)
         /\ new.ok => /\ Len(new.store.all) < Len(st.all)
                      /\ Len(new.store.tenant[TenantOf[queue[1]]]) < Len(st.tenant[TenantOf[queue[1]]])
<1>1. PICK b : b = queue[1]
  OBVIOUS
<1>2. b \in ToSet(st.all) /\ Has(st, b) /\ b \in Bucket /\ st.state[b] \in Row(b)
  <2>1. 1 \in DOMAIN queue
    BY QueueFacts
  <2>2. b \in ToSet(queue)
    BY <1>1, <2>1 DEF ToSet
  <2> QED
    BY <2>2, StoreFacts
<1>3. PICK r : r = Refilled(b, st.state[b])
  OBVIOUS
<1>4. r.tokens = Tokens(b, st.state[b]) /\ r.tokens \in 0 .. Burst[b] /\ Burst[b] \in Nat
  BY <1>2, <1>3, RowFacts, Limits
<1>5. CASE Disposable(b, r)
  <2>1. new = [ok |-> TRUE, store |-> Removed(st, b)]
    BY <1>1, <1>3, <1>5 DEF Evicted
  <2>2. new.store = Removed(st, b)
    BY <2>1
  <2>3. Tokens(b, st.state[b]) = Burst[b]
    BY <1>4, <1>5 DEF Disposable
  <2>4. PICK s : s = Removed(st, b)
    OBVIOUS
  <2>5. /\ StoreInv(s, ids) /\ SameHeld(st, s) /\ NoLarger(st, s)
        /\ DOMAIN s.state = DOMAIN st.state \ {b}
        /\ Len(s.all) < Len(st.all)
        /\ Len(s.tenant[TenantOf[b]]) < Len(st.tenant[TenantOf[b]])
    BY <1>2, <2>3, <2>4, RemovedKeeps
  <2> QED
    BY <1>1, <2>2, <2>4, <2>5 DEF Keeps
<1>6. CASE ~Disposable(b, r)
  <2>1. new = [ok |-> FALSE, store |-> Put(st, b, r)]
    BY <1>1, <1>3, <1>6 DEF Evicted
  <2>2. PICK s : s = Put(st, b, r)
    OBVIOUS
  <2>3. new.store = s /\ ~new.ok
    BY <2>1, <2>2
  <2>4. StoreInv(s, ids) /\ SameHeld(st, s) /\ ChangedAt(st, s, b, r)
    BY <1>2, <1>3, <2>2, RefillKeeps
  <2>5. NoLarger(st, s)
    BY <2>4, StoreFacts DEF NoLarger, ChangedAt
  <2> QED
    BY <2>3, <2>4, <2>5 DEF Keeps, ChangedAt
<1> QED
  BY <1>5, <1>6

StoreLimited(st) ==
  /\ Len(st.all) <= MaxEntries
  /\ \A t \in Tenant : Len(st.tenant[t]) <= MaxEntriesPerTenant

HasRoom(st, t) == Len(st.all) < MaxEntries /\ Len(st.tenant[t]) < MaxEntriesPerTenant

LEMMA LimitedStays ==
  ASSUME NEW ids \in SUBSET Bucket, NEW st, NEW new, StoreInv(st, ids), StoreInv(new, ids),
         NoLarger(st, new), StoreLimited(st)
  PROVE  StoreLimited(new)
<1>1. /\ Len(st.all) \in Nat /\ Len(new.all) \in Nat
      /\ MaxEntries \in Nat /\ MaxEntriesPerTenant \in Nat
  BY StoreFacts, Limits
<1>2. Len(new.all) <= MaxEntries
  BY <1>1 DEF NoLarger, StoreLimited
<1>3. ASSUME NEW t \in Tenant PROVE Len(new.tenant[t]) <= MaxEntriesPerTenant
  <2>1. Len(st.tenant[t]) \in Nat /\ Len(new.tenant[t]) \in Nat
    BY StoreFacts
  <2>2. Len(new.tenant[t]) <= Len(st.tenant[t]) /\ Len(st.tenant[t]) <= MaxEntriesPerTenant
    BY DEF NoLarger, StoreLimited
  <2> QED
    BY <1>1, <2>1, <2>2
<1> QED
  BY <1>2, <1>3 DEF StoreLimited

\* A queue of the store whose oldest bucket is the organization's.
QueueOf(st, queue, ids, t) ==
  Queue(queue, ids) /\ ToSet(queue) \subseteq ToSet(st.all) /\ TenantOf[queue[1]] = t

LEMMA OldestIsOwn ==
  ASSUME NEW ids \in SUBSET Bucket, NEW st, StoreInv(st, ids), NEW t \in Tenant,
         NEW queue, queue = st.tenant[t], Len(queue) > 0
  PROVE  QueueOf(st, queue, ids, t)
<1>1. Queue(queue, ids)
  BY DEF StoreInv, TenantQueues
<1>2. 1 \in DOMAIN queue
  BY <1>1, QueueFacts
<1>3. queue[1] \in ToSet(queue)
  BY <1>2 DEF ToSet
<1> QED
  BY <1>1, <1>3, StoreFacts DEF QueueOf

\* Room is made in the map of the organization and in the store, or in vain.
LEMMA RoomKeeps ==
  ASSUME NEW ids \in SUBSET Bucket, NEW st, StoreInv(st, ids), StoreLimited(st),
         NEW t \in Tenant, NEW new, new = Room(st, t)
  PROVE  /\ Keeps(st, new.store, ids)
         /\ new.ok => HasRoom(new.store, t)
<1>0. /\ MaxEntries \in Nat /\ MaxEntriesPerTenant \in Nat
      /\ MaxEntries > 0 /\ MaxEntriesPerTenant > 0
      /\ Len(st.all) \in Nat /\ Len(st.tenant[t]) \in Nat
      /\ Len(st.all) <= MaxEntries /\ Len(st.tenant[t]) <= MaxEntriesPerTenant
  BY StoreFacts, Limits DEF StoreLimited
<1>1. PICK own : own = IF Len(st.tenant[t]) >= MaxEntriesPerTenant
                       THEN Evicted(st, st.tenant[t]) ELSE [ok |-> TRUE, store |-> st]
  OBVIOUS
<1>2. new = IF own.ok /\ IsFull(own.store) THEN Evicted(own.store, own.store.all) ELSE own
  BY <1>1 DEF Room
<1>3. Keeps(st, own.store, ids) /\ (own.ok => Len(own.store.tenant[t]) < MaxEntriesPerTenant)
  <2>1. CASE Len(st.tenant[t]) >= MaxEntriesPerTenant
    <3>1. PICK queue : queue = st.tenant[t]
      OBVIOUS
    <3>2. Len(queue) > 0
      BY <1>0, <2>1, <3>1
    <3>3. QueueOf(st, queue, ids, t)
      BY <3>1, <3>2, OldestIsOwn
    <3>4. own = Evicted(st, queue)
      BY <1>1, <2>1, <3>1
    <3>5. /\ Keeps(st, own.store, ids)
          /\ own.ok => Len(own.store.tenant[TenantOf[queue[1]]]) < Len(st.tenant[TenantOf[queue[1]]])
      BY <3>2, <3>3, <3>4, EvictedKeeps DEF QueueOf
    <3>6. Len(own.store.tenant[t]) \in Nat
      BY <3>5, StoreFacts DEF Keeps
    <3> QED
      BY <1>0, <3>3, <3>5, <3>6 DEF QueueOf
  <2>2. CASE ~(Len(st.tenant[t]) >= MaxEntriesPerTenant)
    <3>1. own = [ok |-> TRUE, store |-> st]
      BY <1>1, <2>2
    <3>2. own.store = st
      BY <3>1
    <3>3. Keeps(st, st, ids)
      BY StoreFacts DEF Keeps, SameHeld, NoLarger
    <3> QED
      BY <1>0, <2>2, <3>2, <3>3
  <2> QED
    BY <2>1, <2>2
<1>4. CASE own.ok /\ IsFull(own.store)
  <2>1. PICK mid : mid = own.store
    OBVIOUS
  <2>2. StoreInv(mid, ids) /\ Len(mid.all) >= MaxEntries /\ Len(mid.tenant[t]) < MaxEntriesPerTenant
        /\ Keeps(st, mid, ids)
    BY <1>3, <1>4, <2>1 DEF Keeps, IsFull
  <2>3. /\ Len(mid.all) \in Nat /\ Len(mid.all) > 0 /\ Queue(mid.all, ids)
        /\ Len(mid.tenant[t]) \in Nat
        /\ Len(mid.all) <= Len(st.all)
    BY <1>0, <2>2, StoreFacts DEF StoreInv, Keeps, NoLarger
  <2>4. PICK queue : queue = mid.all
    OBVIOUS
  <2>5. new = Evicted(mid, queue) /\ Queue(queue, ids) /\ ToSet(queue) \subseteq ToSet(mid.all)
        /\ Len(queue) > 0
    BY <1>2, <1>4, <2>1, <2>3, <2>4
  <2>6. Keeps(mid, new.store, ids) /\ (new.ok => Len(new.store.all) < Len(mid.all))
    BY <2>2, <2>5, EvictedKeeps
  <2>7. Len(new.store.all) \in Nat /\ Len(new.store.tenant[t]) \in Nat
        /\ Len(new.store.tenant[t]) <= Len(mid.tenant[t])
    BY <2>6, StoreFacts DEF Keeps, NoLarger
  <2>8. new.ok => HasRoom(new.store, t)
    <3>1. Len(mid.all) <= MaxEntries
      BY <1>0, <2>3
    <3>2. new.ok => Len(new.store.all) < MaxEntries
      BY <1>0, <2>3, <2>6, <2>7, <3>1
    <3>3. Len(new.store.tenant[t]) < MaxEntriesPerTenant
      BY <1>0, <2>2, <2>3, <2>7
    <3> QED
      BY <3>2, <3>3 DEF HasRoom
  <2> QED
    BY <2>2, <2>6, <2>8, KeepsTwice
<1>5. CASE ~(own.ok /\ IsFull(own.store))
  <2>1. new = own
    BY <1>2, <1>5
  <2>2. own.ok => Len(own.store.all) < MaxEntries
    <3>1. Len(own.store.all) \in Nat
      BY <1>3, StoreFacts DEF Keeps
    <3> QED
      BY <1>0, <1>5, <3>1 DEF IsFull
  <2> QED
    BY <1>3, <2>1, <2>2 DEF HasRoom
<1> QED
  BY <1>4, <1>5

\* The bucket of a request as it is charged: up to date, and with a place if it is new.
Ready(st, b) ==
  /\ Found(st, b) \in Row(b) /\ Found(st, b).unrefilled = 0
  /\ Found(st, b).tokens = HeldIn(st, b)
  /\ ~Has(st, b) => HasRoom(st, TenantOf[b])

LEMMA LookedKeeps ==
  ASSUME NEW ids \in SUBSET Bucket, NEW st, StoreInv(st, ids), StoreLimited(st),
         NEW b \in ids, NEW new, new = Looked(st, b)
  PROVE  Keeps(st, new.store, ids) /\ (new.ok => Ready(new.store, b))
<1>0. b \in Bucket /\ TenantOf[b] \in Tenant /\ Burst[b] \in Nat
  BY Limits
<1>1. CASE Has(st, b)
  <2>0. st.state[b] \in Row(b)
    BY <1>1, StoreFacts
  <2>1. PICK s : s = Put(st, b, Refilled(b, st.state[b]))
    OBVIOUS
  <2>2. new = [ok |-> TRUE, store |-> s]
    BY <1>1, <2>1 DEF Looked
  <2>3. StoreInv(s, ids) /\ SameHeld(st, s) /\ ChangedAt(st, s, b, Refilled(b, st.state[b]))
    BY <1>1, <2>1, RefillKeeps
  <2>4. Keeps(st, s, ids)
    BY <2>3, StoreFacts DEF Keeps, NoLarger, ChangedAt
  <2>5. Has(s, b) /\ Found(s, b) = Refilled(b, st.state[b])
    BY <1>1, <2>3 DEF ChangedAt, Has, Found
  <2>6. /\ Refilled(b, st.state[b]) \in Row(b)
        /\ Refilled(b, st.state[b]).tokens = Tokens(b, st.state[b])
        /\ Refilled(b, st.state[b]).unrefilled = 0
    BY <1>0, <2>0, RowFacts
  <2>7. HeldIn(s, b) = Tokens(b, st.state[b])
    BY <1>0, <1>1, <2>3 DEF SameHeld, HeldIn
  <2>8. Ready(s, b)
    BY <2>5, <2>6, <2>7 DEF Ready
  <2> QED
    BY <2>2, <2>4, <2>8
<1>2. CASE ~Has(st, b)
  <2>1. new = Room(st, TenantOf[b])
    BY <1>2 DEF Looked
  <2>2. Keeps(st, new.store, ids) /\ (new.ok => HasRoom(new.store, TenantOf[b]))
    BY <1>0, <2>1, RoomKeeps
  <2>3. ~Has(new.store, b)
    BY <1>2, <2>2 DEF Keeps, Has
  <2>4. Found(new.store, b) = Fresh(b) /\ HeldIn(new.store, b) = Burst[b]
    BY <2>3 DEF Found, HeldIn
  <2>5. Fresh(b) \in Row(b) /\ Fresh(b).unrefilled = 0 /\ Fresh(b).tokens = Burst[b]
    BY <1>0, Limits DEF Fresh, Row
  <2> QED
    BY <2>2, <2>4, <2>5 DEF Ready
<1> QED
  BY <1>1, <1>2

\* One bucket holds less than before by what it was charged.
HeldLess(st, new, b, cost) ==
  \A c \in Bucket : HeldIn(new, c) = IF c = b THEN HeldIn(st, b) - cost ELSE HeldIn(st, c)

LEMMA RowCharged ==
  ASSUME NEW b \in Bucket, NEW r \in Row(b), r.unrefilled = 0, NEW cost \in Nat, cost <= r.tokens
  PROVE  /\ [r EXCEPT !.tokens = r.tokens - cost] \in Row(b)
         /\ Tokens(b, [r EXCEPT !.tokens = r.tokens - cost]) = r.tokens - cost
<1>1. r.tokens \in Nat /\ Burst[b] \in Nat /\ Rate[b] \in Nat /\ r.tokens <= Burst[b]
  BY Limits DEF Row
<1>2. PICK n \in 0 .. Burst[b] : n = r.tokens - cost
  BY <1>1
<1>3. [r EXCEPT !.tokens = n] \in Row(b) /\ [r EXCEPT !.tokens = n].tokens = n
      /\ [r EXCEPT !.tokens = n].unrefilled = 0
  BY DEF Row
<1>4. n + 0 * Rate[b] = n
  BY <1>1
<1>5. Tokens(b, [r EXCEPT !.tokens = n]) = Smaller(Burst[b], n)
  BY <1>3, <1>4 DEF Tokens
<1>6. Smaller(Burst[b], n) = n
  BY <1>1 DEF Smaller
<1> QED
  BY <1>2, <1>3, <1>5, <1>6

LEMMA ChargedKeeps ==
  ASSUME NEW ids \in SUBSET Bucket, NEW st, StoreInv(st, ids), StoreLimited(st),
         NEW b \in ids, Ready(st, b), NEW cost \in Nat, cost <= HeldIn(st, b),
         NEW new, new = Charged(st, b, cost)
  PROVE  StoreInv(new, ids) /\ StoreLimited(new) /\ HeldLess(st, new, b, cost)
<1>1. PICK t \in Tenant : t = TenantOf[b]
  BY Limits
<1>2. PICK found \in Row(b) :
        found = Found(st, b) /\ found.unrefilled = 0 /\ found.tokens = HeldIn(st, b)
  BY DEF Ready
<1>3. PICK r \in Row(b) : r = [found EXCEPT !.tokens = found.tokens - cost]
                          /\ Tokens(b, r) = HeldIn(st, b) - cost
  BY <1>2, RowCharged
<1>4. PICK s : s = Put(st, b, r)
  OBVIOUS
<1>5. CASE Has(st, b)
  <2>1. new = s
    BY <1>2, <1>3, <1>4, <1>5 DEF Charged
  <2>2. StoreInv(s, ids) /\ ChangedAt(st, s, b, r)
    BY <1>4, <1>5, PutKeeps
  <2>3. NoLarger(st, s)
    BY <2>2, StoreFacts DEF NoLarger, ChangedAt
  <2>4. StoreLimited(s)
    BY <2>2, <2>3, LimitedStays
  <2>5. HeldLess(st, s, b, cost)
    BY <1>3, <1>5, <2>2 DEF HeldLess, HeldIn, Has, ChangedAt
  <2> QED
    BY <2>1, <2>2, <2>4, <2>5
<1>6. CASE ~Has(st, b)
  <2>0. b \notin ToSet(st.all) /\ b \notin ToSet(st.tenant[t]) /\ b \in ids
        /\ Queue(st.all, ids) /\ Queue(st.tenant[t], ids) /\ HasRoom(st, t)
    BY <1>1, <1>6, StoreFacts DEF StoreInv, TenantQueues, Ready
  <2>1. PICK a : a = Append(st.all, b)
    OBVIOUS
  <2>2. PICK q : q = Append(st.tenant[t], b)
    OBVIOUS
  <2>3. /\ Queue(a, ids) /\ ToSet(a) = ToSet(st.all) \cup {b} /\ Len(a) = Len(st.all) + 1
        /\ \A c, d : Before(a, c, d) <=> Before(st.all, c, d) \/ (c \in ToSet(st.all) /\ d = b)
    BY <2>0, <2>1, QueueAppend
  <2>4. /\ Queue(q, ids) /\ ToSet(q) = ToSet(st.tenant[t]) \cup {b}
        /\ Len(q) = Len(st.tenant[t]) + 1
        /\ \A c, d : Before(q, c, d) <=>
             Before(st.tenant[t], c, d) \/ (c \in ToSet(st.tenant[t]) /\ d = b)
    BY <2>0, <2>2, QueueAppend
  <2> DEFINE rows == [o \in DOMAIN st.state \cup {b} |-> IF o = b THEN r ELSE st.state[o]]
  <2>5. s = [st EXCEPT !.state = rows]
    BY <1>4 DEF Put
  <2>6. new = [s EXCEPT !.all = a, !.tenant = [st.tenant EXCEPT ![t] = q]]
    BY <1>1, <1>2, <1>3, <1>4, <1>6, <2>1, <2>2 DEF Charged
  <2>7. /\ DOMAIN rows = DOMAIN st.state \cup {b} /\ rows[b] = r
        /\ \A c \in DOMAIN st.state : rows[c] = st.state[c]
    BY <1>6 DEF Has
  <2> HIDE DEF rows
  <2>8. new = [all |-> a, tenant |-> [st.tenant EXCEPT ![t] = q], state |-> rows]
    BY <2>5, <2>6 DEF StoreInv, StoreShape
  <2>9. new.all = a /\ new.tenant = [st.tenant EXCEPT ![t] = q] /\ new.state = rows
        /\ StoreShape(new)
    BY <2>8 DEF StoreShape
  <2>10. TenantQueues(new, ids) /\ QueueOfBecomes(st, new, t, q)
    BY <2>4, <2>9, TenantChanges
  <2>11. DOMAIN new.state = ToSet(new.all) /\ \A c \in ToSet(new.all) : new.state[c] \in Row(c)
    BY <2>3, <2>7, <2>9 DEF StoreInv
  <2>12. SameOrder(new)
    <3> SUFFICES ASSUME NEW o \in Tenant
                 PROVE  /\ ToSet(new.tenant[o]) = {c \in ToSet(new.all) : TenantOf[c] = o}
                        /\ \A c, d \in ToSet(new.tenant[o]) :
                             Before(new.tenant[o], c, d) <=> Before(new.all, c, d)
      BY DEF SameOrder
    <3>1. /\ ToSet(st.tenant[o]) = {c \in ToSet(st.all) : TenantOf[c] = o}
          /\ \A c, d \in ToSet(st.tenant[o]) :
               Before(st.tenant[o], c, d) <=> Before(st.all, c, d)
      BY DEF StoreInv, SameOrder
    <3>2. \A c, d : Before(st.all, c, d) => c # b /\ d # b
      BY <2>0, QueueFacts DEF Before, ToSet
    <3>3. \A c, d : Before(st.tenant[t], c, d) => c # b /\ d # b
      BY <2>0, QueueFacts DEF Before, ToSet
    <3>4. CASE o = t
      <4>1. new.tenant[o] = q /\ new.all = a /\ TenantOf[b] = o
        BY <1>1, <2>9, <2>10, <3>4 DEF QueueOfBecomes
      <4>2. ToSet(q) = {c \in ToSet(a) : TenantOf[c] = o}
        BY <2>3, <2>4, <3>1, <3>4, <4>1
      <4>3. ASSUME NEW c \in ToSet(q), NEW d \in ToSet(q) PROVE Before(q, c, d) <=> Before(a, c, d)
        <5>1. CASE d = b
          BY <2>0, <2>3, <2>4, <3>1, <3>2, <3>3, <3>4, <4>3, <5>1
        <5>2. CASE d # b
          BY <2>0, <2>3, <2>4, <3>1, <3>2, <3>3, <3>4, <4>3, <5>2
        <5> QED
          BY <5>1, <5>2
      <4> QED
        BY <4>1, <4>2, <4>3
    <3>5. CASE o # t
      BY <1>1, <2>0, <2>3, <2>9, <2>10, <3>1, <3>2, <3>5 DEF QueueOfBecomes
    <3> QED
      BY <3>4, <3>5
  <2>13. StoreInv(new, ids)
    BY <2>3, <2>9, <2>10, <2>11, <2>12 DEF StoreInv
  <2>14. StoreLimited(new)
    <3>1. Len(new.all) <= MaxEntries
      BY <2>0, <2>3, <2>9, StoreFacts, Limits DEF HasRoom
    <3>2. ASSUME NEW o \in Tenant PROVE Len(new.tenant[o]) <= MaxEntriesPerTenant
      <4>1. Len(st.tenant[o]) \in Nat /\ Len(st.tenant[o]) <= MaxEntriesPerTenant
            /\ MaxEntriesPerTenant \in Nat
        BY StoreFacts, Limits DEF StoreLimited
      <4>2. new.tenant[o] = IF o = t THEN q ELSE st.tenant[o]
        BY <2>10 DEF QueueOfBecomes
      <4> QED
        BY <2>0, <2>4, <4>1, <4>2 DEF HasRoom
    <3> QED
      BY <3>1, <3>2 DEF StoreLimited
  <2>15. HeldLess(st, new, b, cost)
    BY <1>3, <1>6, <2>7, <2>9 DEF HeldLess, HeldIn, Has
  <2> QED
    BY <2>13, <2>14, <2>15
<1> QED
  BY <1>5, <1>6

\* A unit of time later every bucket holds as much more as flows in.
HeldLater(st, new) ==
  \A b \in Bucket : HeldIn(new, b) = Smaller(Burst[b], HeldIn(st, b) + Rate[b])

LEMMA OlderKeeps ==
  ASSUME NEW ids \in SUBSET Bucket, NEW st, StoreInv(st, ids), StoreLimited(st),
         NEW new, new = Older(st)
  PROVE  StoreInv(new, ids) /\ StoreLimited(new) /\ HeldLater(st, new)
<1> DEFINE rows == [b \in DOMAIN st.state |-> Aged(b, st.state[b])]
<1>1. new = [st EXCEPT !.state = rows]
  BY DEF Older
<1>2. DOMAIN rows = DOMAIN st.state /\ \A b \in DOMAIN st.state : rows[b] = Aged(b, st.state[b])
  OBVIOUS
<1> HIDE DEF rows
<1>3. new = [all |-> st.all, tenant |-> st.tenant, state |-> rows]
  BY <1>1 DEF StoreInv, StoreShape
<1>4. new.all = st.all /\ new.tenant = st.tenant /\ new.state = rows /\ StoreShape(new)
  BY <1>3 DEF StoreShape
<1>5. \A b \in DOMAIN st.state : b \in Bucket /\ st.state[b] \in Row(b)
  BY StoreFacts DEF Has
<1>6. \A b \in DOMAIN st.state :
        /\ rows[b] \in Row(b)
        /\ Tokens(b, rows[b]) = Smaller(Burst[b], Tokens(b, st.state[b]) + Rate[b])
  BY <1>2, <1>5, RowAges
<1>7. SameOrder(new) /\ TenantQueues(new, ids) /\ StoreLimited(new)
  BY <1>4 DEF StoreInv, SameOrder, TenantQueues, StoreLimited
<1>8. StoreInv(new, ids)
  BY <1>2, <1>4, <1>6, <1>7 DEF StoreInv
<1>9. HeldLater(st, new)
  <2> SUFFICES ASSUME NEW b \in Bucket
               PROVE  HeldIn(new, b) = Smaller(Burst[b], HeldIn(st, b) + Rate[b])
    BY DEF HeldLater
  <2>1. CASE Has(st, b)
    BY <1>2, <1>4, <1>6, <2>1 DEF HeldIn, Has
  <2>2. CASE ~Has(st, b)
    <3>1. HeldIn(new, b) = Burst[b] /\ HeldIn(st, b) = Burst[b]
      BY <1>2, <1>4, <2>2 DEF HeldIn, Has
    <3>2. Smaller(Burst[b], Burst[b] + Rate[b]) = Burst[b]
      BY Limits DEF Smaller
    <3> QED
      BY <3>1, <3>2
  <2> QED
    BY <2>1, <2>2
<1> QED
  BY <1>7, <1>8, <1>9

LEMMA EmptyKeeps ==
  ASSUME NEW ids \in SUBSET Bucket
  PROVE  /\ StoreInv(Empty, ids) /\ StoreLimited(Empty)
         /\ \A b \in Bucket : HeldIn(Empty, b) = Burst[b]
<1> DEFINE none == << >>
<1>1. /\ none \in Seq(ids) /\ Len(none) = 0 /\ DOMAIN none = {}
  BY EmptySeq, LenProperties
<1>2. Empty = [all |-> none, tenant |-> [t \in Tenant |-> none], state |-> none]
  BY DEF Empty
<1> HIDE DEF none
<1>3. Empty.all = none /\ Empty.tenant = [t \in Tenant |-> none] /\ Empty.state = none
      /\ StoreShape(Empty)
  BY <1>2 DEF StoreShape
<1>4. Queue(none, ids) /\ ToSet(none) = {}
  BY <1>1 DEF Queue, IsInjective, ToSet
<1>5. TenantQueues(Empty, ids)
  BY <1>3, <1>4 DEF TenantQueues
<1>6. SameOrder(Empty)
  BY <1>3, <1>4 DEF SameOrder
<1>7. StoreInv(Empty, ids)
  BY <1>1, <1>3, <1>4, <1>5, <1>6 DEF StoreInv
<1>8. StoreLimited(Empty)
  BY <1>1, <1>3, Limits DEF StoreLimited
<1>9. \A b \in Bucket : HeldIn(Empty, b) = Burst[b]
  BY <1>1, <1>3 DEF HeldIn, Has
<1> QED
  BY <1>7, <1>8, <1>9

-----------------------------------------------------------------------------
(* Requests and time.                                                       *)

\* The invariant: both stores are sound and within their limits.
LimiterInv ==
  /\ StoreInv(keys, KeyId) /\ StoreLimited(keys)
  /\ StoreInv(projects, ProjectId) /\ StoreLimited(projects)

LEMMA Scopes ==
  /\ KeyId \in SUBSET Bucket /\ ProjectId \in SUBSET Bucket
  /\ \A b \in Bucket : b \in KeyId <=> b \notin ProjectId
BY LimiterAssumption DEF Bucket

LEMMA LimiterInit == Init => LimiterInv
BY EmptyKeeps, Scopes DEF Init, LimiterInv

\* What a store does for a request that may be turned away: looked at, it is only
\* kept; charged, one bucket holds less.
LEMMA AskedKeeps ==
  ASSUME NEW ids \in SUBSET Bucket, NEW st, StoreInv(st, ids), StoreLimited(st),
         NEW b \in ids, NEW mid, mid = Touched(st, b), NEW looked, looked = Looked(mid, b),
         NEW cost \in Nat
  PROVE  /\ Keeps(st, mid, ids)
         /\ Keeps(st, looked.store, ids)
         /\ looked.ok => Ready(looked.store, b)
<1>1. StoreInv(mid, ids) /\ Keeps(st, mid, ids) /\ NoLarger(st, mid)
  BY TouchedKeeps DEF Keeps
<1>2. StoreLimited(mid)
  BY <1>1, LimitedStays
<1>3. Keeps(mid, looked.store, ids) /\ (looked.ok => Ready(looked.store, b))
  BY <1>1, <1>2, LookedKeeps
<1> QED
  BY <1>1, <1>3, KeepsTwice

\* What a bucket holds is told by the store of its scope.
HeldByScope ==
  \A b \in Bucket : Held(b) = IF b \in KeyId THEN HeldIn(keys, b) ELSE HeldIn(projects, b)

LEMMA HeldIs == LimiterInv => HeldByScope
<1> SUFFICES ASSUME LimiterInv, NEW b \in Bucket
             PROVE  Held(b) = IF b \in KeyId THEN HeldIn(keys, b) ELSE HeldIn(projects, b)
  BY DEF HeldByScope
<1>1. Has(keys, b) => b \in KeyId
  BY Scopes, StoreFacts DEF LimiterInv
<1>2. Has(projects, b) => b \in ProjectId
  BY Scopes, StoreFacts DEF LimiterInv
<1> QED
  BY <1>1, <1>2, Scopes DEF Held, HeldIn

LEMMA HeldIsNext == LimiterInv' => HeldByScope'
BY HeldIs, PTL

\* A request takes its cost from both of its buckets or from none.
NothingTaken == \A b \in Bucket : Held(b)' = Held(b)
Taken(k, p, cost) ==
  /\ Held(k) >= cost /\ Held(p) >= cost
  /\ \A b \in Bucket : Held(b)' = IF b \in {k, p} THEN Held(b) - cost ELSE Held(b)

LEMMA ConsumeStep ==
  ASSUME LimiterInv, NEW k \in KeyId, NEW p \in ProjectId, NEW cost \in Nat, Consume(k, p, cost)
  PROVE  LimiterInv' /\ (NothingTaken \/ Taken(k, p, cost))
<1>0. /\ StoreInv(keys, KeyId) /\ StoreLimited(keys)
      /\ StoreInv(projects, ProjectId) /\ StoreLimited(projects)
      /\ KeyId \in SUBSET Bucket /\ ProjectId \in SUBSET Bucket
  BY Scopes DEF LimiterInv
<1>1. PICK kt : kt = Touched(keys, k)
  OBVIOUS
<1>2. PICK pt : pt = Touched(projects, p)
  OBVIOUS
<1>3. PICK kl : kl = Looked(kt, k)
  OBVIOUS
<1>4. PICK pl : pl = Looked(pt, p)
  OBVIOUS
<1> DEFINE passesP == pl.ok /\ Found(pl.store, p).tokens >= cost
           passesK == kl.ok /\ Found(kl.store, k).tokens >= cost
<1>5. /\ projects' = IF passesP /\ passesK THEN Charged(pl.store, p, cost) ELSE pl.store
      /\ keys' = IF ~passesP THEN kt
                 ELSE IF passesK THEN Charged(kl.store, k, cost) ELSE kl.store
  BY <1>1, <1>2, <1>3, <1>4 DEF Consume
<1>6. Keeps(keys, kt, KeyId) /\ Keeps(keys, kl.store, KeyId) /\ (kl.ok => Ready(kl.store, k))
  BY <1>0, <1>1, <1>3, AskedKeeps
<1>7. Keeps(projects, pl.store, ProjectId) /\ (pl.ok => Ready(pl.store, p))
  BY <1>0, <1>2, <1>4, AskedKeeps
<1>8. /\ StoreInv(kt, KeyId) /\ StoreLimited(kt) /\ SameHeld(keys, kt)
      /\ StoreInv(kl.store, KeyId) /\ StoreLimited(kl.store) /\ SameHeld(keys, kl.store)
      /\ StoreInv(pl.store, ProjectId) /\ StoreLimited(pl.store) /\ SameHeld(projects, pl.store)
  BY <1>0, <1>6, <1>7, LimitedStays DEF Keeps
<1>9. HeldByScope
  BY HeldIs
<1>10. k \in Bucket /\ p \in Bucket
  BY <1>0
<1>11. CASE passesP /\ passesK
  <2>1. projects' = Charged(pl.store, p, cost) /\ keys' = Charged(kl.store, k, cost)
    BY <1>5, <1>11
  <2>2. /\ Ready(pl.store, p) /\ cost <= HeldIn(pl.store, p)
        /\ Ready(kl.store, k) /\ cost <= HeldIn(kl.store, k)
    <3>1. Ready(pl.store, p) /\ Ready(kl.store, k)
      BY <1>6, <1>7, <1>11
    <3>2. Found(pl.store, p).tokens \in Nat /\ Found(kl.store, k).tokens \in Nat
      BY <1>10, <3>1, Limits DEF Ready, Row
    <3> QED
      BY <1>11, <3>1, <3>2 DEF Ready
  <2> HIDE DEF passesP, passesK
  <2>3. /\ StoreInv(projects', ProjectId) /\ StoreLimited(projects')
        /\ HeldLess(pl.store, projects', p, cost)
    BY <1>0, <1>8, <2>1, <2>2, ChargedKeeps
  <2>4. /\ StoreInv(keys', KeyId) /\ StoreLimited(keys')
        /\ HeldLess(kl.store, keys', k, cost)
    BY <1>0, <1>8, <2>1, <2>2, ChargedKeeps
  <2>5. LimiterInv'
    BY <2>3, <2>4 DEF LimiterInv
  <2>6. HeldByScope'
    BY <2>5, HeldIsNext
  <2>7. /\ Held(k) = HeldIn(keys, k) /\ HeldIn(keys, k) = HeldIn(kl.store, k)
        /\ Held(p) = HeldIn(projects, p) /\ HeldIn(projects, p) = HeldIn(pl.store, p)
    BY <1>8, <1>9, <1>10, Scopes DEF HeldByScope, SameHeld
  <2>8. HeldIn(kl.store, k) \in Int /\ HeldIn(pl.store, p) \in Int
    BY <1>10, <2>2, Limits DEF Ready, Row
  <2>9. Held(k) >= cost /\ Held(p) >= cost
    BY <2>2, <2>7, <2>8
  <2>10. ASSUME NEW b \in Bucket
         PROVE  Held(b)' = IF b \in {k, p} THEN Held(b) - cost ELSE Held(b)
    <3>1. CASE b \in KeyId
      <4>1. b # p /\ Held(b)' = HeldIn(keys', b) /\ Held(b) = HeldIn(kl.store, b)
        BY <1>8, <1>9, <2>6, <3>1, Scopes DEF HeldByScope, SameHeld
      <4> QED
        BY <2>4, <4>1 DEF HeldLess
    <3>2. CASE b \notin KeyId
      <4>1. b # k /\ Held(b)' = HeldIn(projects', b) /\ Held(b) = HeldIn(pl.store, b)
        BY <1>8, <1>9, <2>6, <3>2 DEF HeldByScope, SameHeld
      <4> QED
        BY <2>3, <4>1 DEF HeldLess
    <3> QED
      BY <3>1, <3>2
  <2> QED
    BY <2>5, <2>9, <2>10 DEF Taken
<1>12. CASE ~(passesP /\ passesK)
  <2>1. projects' = pl.store /\ (keys' = kt \/ keys' = kl.store)
    BY <1>5, <1>12
  <2>2. LimiterInv' /\ SameHeld(keys, keys') /\ SameHeld(projects, projects')
    BY <1>8, <2>1 DEF LimiterInv
  <2>3. HeldByScope'
    BY <2>2, HeldIsNext
  <2> QED
    BY <1>9, <2>2, <2>3 DEF HeldByScope, SameHeld, NothingTaken
<1> QED
  BY <1>11, <1>12

\* Time fills every bucket at its rate.
HeldFlows == \A b \in Bucket : Held(b)' = Smaller(Burst[b], Held(b) + Rate[b])

LEMMA TickStep ==
  ASSUME LimiterInv, Tick
  PROVE  LimiterInv' /\ HeldFlows
<1>1. /\ StoreInv(keys', KeyId) /\ StoreLimited(keys') /\ HeldLater(keys, keys')
      /\ StoreInv(projects', ProjectId) /\ StoreLimited(projects') /\ HeldLater(projects, projects')
  BY OlderKeeps, Scopes DEF LimiterInv, Tick
<1>2. LimiterInv'
  BY <1>1 DEF LimiterInv
<1>3. HeldByScope /\ HeldByScope'
  BY <1>2, HeldIs, HeldIsNext
<1> QED
  BY <1>1, <1>2, <1>3 DEF HeldByScope, HeldLater, HeldFlows

LEMMA RequestFacts ==
  ASSUME NEW pair \in Pair, NEW cost \in Cost
  PROVE  pair[1] \in KeyId /\ pair[2] \in ProjectId /\ cost \in Nat
BY LimiterAssumption

LEMMA LimiterKeeps == LimiterInv /\ [Next]_vars => LimiterInv'
<1> SUFFICES ASSUME LimiterInv, [Next]_vars PROVE LimiterInv'
  OBVIOUS
<1>1. CASE Tick
  BY <1>1, TickStep
<1>2. ASSUME NEW pair \in Pair, NEW cost \in Cost, Consume(pair[1], pair[2], cost)
      PROVE  LimiterInv'
  BY <1>2, RequestFacts, ConsumeStep
<1>3. CASE UNCHANGED vars
  BY <1>3 DEF vars, LimiterInv
<1> QED
  BY <1>1, <1>2, <1>3 DEF Next

\* The stores hold buckets of their scope, none of them below zero or above its burst
\* (insert, refill, consume).
THEOREM LimiterTypes == Spec => []TypeOK
<1>1. LimiterInv => TypeOK
  BY QueueFacts DEF LimiterInv, TypeOK, StoreOK, StoreInv, Row
<1> QED
  BY <1>1, LimiterInit, LimiterKeeps, PTL DEF Spec

\* Neither the process nor an organization holds more buckets than it may, and what is
\* evicted for an organization is its least recently used bucket (ensureRoom, touch).
THEOREM LimiterIsBounded == Spec => []MemoryIsBounded
<1>1. LimiterInv => MemoryIsBounded
  BY DEF LimiterInv, MemoryIsBounded, StoreBounded, StoreInv, StoreLimited
<1> QED
  BY <1>1, LimiterInit, LimiterKeeps, PTL DEF Spec

\* The abstract buckets, as the stores hold them.
Tally == [b \in Bucket |-> Held(b)]

LEMMA BucketsStart == Init => Buckets!Init
<1> SUFFICES ASSUME Init PROVE Buckets!Init
  OBVIOUS
<1>1. LimiterInv /\ HeldByScope
  BY LimiterInit, HeldIs
<1>2. \A b \in Bucket : Held(b) = Burst[b]
  BY <1>1, EmptyKeeps, Scopes DEF Init, HeldByScope
<1> QED
  BY <1>2 DEF Buckets!Init

LEMMA BucketsStep == LimiterInv /\ [Next]_vars => [Buckets!Next]_Tally
<1> SUFFICES ASSUME LimiterInv, [Next]_vars PROVE [Buckets!Next]_Tally
  OBVIOUS
<1>1. CASE Tick
  <2>1. HeldFlows
    BY <1>1, TickStep
  <2>2. ASSUME NEW b \in Bucket
        PROVE  Buckets!Refilled(b, Held(b), 1) = Smaller(Burst[b], Held(b) + Rate[b])
    <3>1. 1 * Rate[b] = Rate[b]
      BY Limits
    <3> QED
      BY <3>1 DEF Buckets!Refilled, Buckets!Sooner, Smaller
  <2>3. Buckets!Tick
    BY <2>1, <2>2 DEF HeldFlows, Buckets!Tick
  <2> QED
    BY <2>3 DEF Buckets!Next
<1>2. ASSUME NEW pair \in Pair, NEW cost \in Cost, Consume(pair[1], pair[2], cost)
      PROVE  [Buckets!Next]_Tally
  <2>1. NothingTaken \/ Taken(pair[1], pair[2], cost)
    BY <1>2, RequestFacts, ConsumeStep
  <2>2. CASE NothingTaken
    BY <2>2 DEF NothingTaken, Tally
  <2>3. CASE Taken(pair[1], pair[2], cost)
    <3>1. pair[1] \in Bucket /\ pair[2] \in Bucket
      BY RequestFacts, Scopes
    <3>2. Buckets!Pass(pair, cost)
      BY <2>3, <3>1 DEF Taken, Buckets!Pass
    <3> QED
      BY <3>2 DEF Buckets!Next
  <2> QED
    BY <2>1, <2>2, <2>3
<1>3. CASE UNCHANGED vars
  BY <1>3 DEF vars, Tally, Held, Has, Tokens
<1> QED
  BY <1>1, <1>2, <1>3 DEF Next

\* Buckets that leave memory and come back, and are refilled only when looked at, let
\* through what buckets that are always there would (consume, evictRecoveredOldest).
THEOREM LimiterKeepsPromise == Spec => LimitsAsPromised
BY BucketsStart, BucketsStep, LimiterInit, LimiterKeeps, PTL
  DEF Spec, LimitsAsPromised, Buckets!Spec, Tally
=============================================================================
