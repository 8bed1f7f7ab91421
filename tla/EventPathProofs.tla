--------------------------- MODULE EventPathProofs ---------------------------
(***************************************************************************)
(* Theorems about the two ends of an event's path: its row in the database *)
(* and the queue of the client that captured it.                           *)
(*                                                                         *)
(* EventHistory, for any events, actors, corrections and purges: the       *)
(* audits account for the rows, a purge that reports success has left      *)
(* nothing (HistoryIsSound), and a stored event changes only as it was     *)
(* reviewed or when it is due (StoredEventsAreKept).                       *)
(*                                                                         *)
(* SdkQueue, for any events, drains, sizes of queues and batches, and      *)
(* attempts: an event that was given is in one place of the client, in its *)
(* batch for good, or its call is over (EventsAreKept).                    *)
(***************************************************************************)
EXTENDS EventHistory, SdkQueue, SequenceTheorems, FiniteSetTheorems, TLAPS

-----------------------------------------------------------------------------
(* The history of events: the inductive invariant.                          *)

Phase   == {"idle", "reviewed", "checked", "locked", "over"}
EditRow == [phase : Phase, event : Event \cup {None}, expected : Nat,
            before : Fact \cup {None}, after : Fact \cup {None}]
PurgeRow == [phase : {"idle", "looking", "locking", "done"},
             scope : Actor \cup {Everyone, None},
             seen : SUBSET Event, locked : SUBSET Event, owed : SUBSET Event]
SweepRow == [phase : {"idle", "locked"}, locked : SUBSET Event]

Open(c)   == edit[c].phase \in {"reviewed", "checked", "locked"}
Locked(c) == edit[c].phase = "locked"

TypeInv ==
  /\ row \in [Event -> StoredRow \cup {None}]
  /\ audits \in [Event -> Seq(Audit)]
  /\ insert \in [Event -> StoredRow \cup {None}]
  /\ taken \in SUBSET Event
  /\ months \in Policy
  /\ edit \in [Editor -> EditRow]
  /\ purge \in PurgeRow
  /\ purges \in 0 .. MaxPurges
  /\ sweep \in SweepRow

\* An identifier that was given out and is not being inserted: its row is there,
\* or gone for good.
Known(e) == e \in taken /\ insert[e] = None

\* Every row has an identifier of its own, and so has one yet to be committed.
GivenOut ==
  \A e \in Event :
    /\ insert[e] # None => row[e] = None /\ e \in taken /\ insert[e].revision = 1
    /\ row[e] # None => e \in taken

\* The revision of an event goes up from the one that was reviewed, and as long as
\* it is that one the event is as it was reviewed; a correction that holds the lock
\* found it so.
EditInv(c) ==
  Open(c) =>
    LET e == edit[c].event IN
    /\ e \in Event /\ edit[c].before \in Fact /\ edit[c].after \in Fact
    /\ Known(e)
    /\ row[e] # None =>
         /\ row[e].revision >= edit[c].expected
         /\ row[e].revision = edit[c].expected => FactOf(e) = edit[c].before
    /\ Locked(c) => row[e] # None /\ row[e].revision = edit[c].expected

EditsInv == \A c \in Editor : EditInv(c)

\* A row is locked by one transaction at a time.
LocksApart ==
  /\ \A c, d \in Editor : Locked(c) /\ Locked(d) /\ c # d => edit[c].event # edit[d].event
  /\ \A c \in Editor : Locked(c) => edit[c].event \notin purge.locked \cup sweep.locked
  /\ purge.locked \cap sweep.locked = {}

\* What the retention worker has locked is expired, and stays so.
SweepInv ==
  /\ sweep.phase = "idle" => sweep.locked = {}
  /\ \A e \in sweep.locked : row[e] # None /\ Outside(row[e].month, months)

\* While a purge runs, what it owes and what it picked is gone or still concerned:
\* a correction that takes the actor out of the row puts him into its audit.
PurgeInv ==
  /\ purge.phase # "locking" => purge.seen = {}
  /\ purge.locked \subseteq purge.seen
  /\ \A e \in purge.owed \cup purge.seen :
       /\ Known(e)
       /\ purge.phase \in {"looking", "locking"} =>
            row[e] = None \/ Concerned(e, purge.scope, purges)
       /\ purge.phase = "done" => row[e] = None

IInv ==
  TypeInv /\ GivenOut /\ EditsInv /\ LocksApart /\ SweepInv /\ PurgeInv /\ ChainIsWhole

-----------------------------------------------------------------------------
(* Initially.                                                               *)

LEMMA InitIInv == HistoryInit => IInv
<1> SUFFICES ASSUME HistoryInit PROVE IInv
  OBVIOUS
<1> USE HistoryAssumption, NoneAssumption
<1>1. TypeInv
  BY DEF HistoryInit, TypeInv, StoredRow, EditRow, PurgeRow, SweepRow, NoEdit, NoPurge, NoSweep, Phase
<1>2. GivenOut /\ EditsInv /\ LocksApart /\ SweepInv /\ PurgeInv
  BY DEF HistoryInit, GivenOut, EditsInv, EditInv, LocksApart, SweepInv, PurgeInv, Open, Locked,
         NoEdit, NoPurge, NoSweep
<1>3. ChainIsWhole
  BY DEF HistoryInit, ChainIsWhole, StoredRow
<1> QED
  BY <1>1, <1>2, <1>3 DEF IInv

-----------------------------------------------------------------------------
(* Steps that leave both tables as they are.                                *)

\* The chain of an event depends on the two tables only.
LEMMA SameTable ==
  ASSUME ChainIsWhole, UNCHANGED table
  PROVE  ChainIsWhole'
BY DEF ChainIsWhole, table, FactOf

LEMMA ChangePolicyStep ==
  ASSUME IInv, ChangePolicy
  PROVE  IInv'
<1> USE DEF IInv, ChangePolicy, table
<1>1. TypeInv' /\ GivenOut'
  BY DEF TypeInv, GivenOut
<1>2. EditsInv' /\ LocksApart'
  BY DEF EditsInv, EditInv, LocksApart, Open, Locked, Known, FactOf
<1>3. SweepInv'
  BY DEF SweepInv, PolicyIsFree, TypeInv, SweepRow
<1>4. PurgeInv'
  BY DEF PurgeInv, Known, Concerned, MentionedBy
<1> QED
  BY <1>1, <1>2, <1>3, <1>4, SameTable

LEMMA BeginInsertStep ==
  ASSUME IInv, NEW e \in Event, BeginInsert(e)
  PROVE  IInv'
<1> USE HistoryAssumption, NoneAssumption DEF IInv, BeginInsert, table
<1>1. TypeInv'
  BY DEF TypeInv, Fact, StoredRow
<1>2. GivenOut'
  BY DEF TypeInv, GivenOut, Fact, StoredRow
<1>3. EditsInv' /\ LocksApart'
  BY DEF TypeInv, EditsInv, EditInv, LocksApart, Open, Locked, Known, FactOf
<1>4. SweepInv'
  BY DEF SweepInv
<1>5. PurgeInv'
  BY DEF TypeInv, PurgeInv, PurgeRow, Known, Concerned, MentionedBy
<1> QED
  BY <1>1, <1>2, <1>3, <1>4, <1>5, SameTable

-----------------------------------------------------------------------------
(* Corrections.                                                             *)

LEMMA PreviewStep ==
  ASSUME IInv, NEW c \in Editor, NEW e \in Event, NEW f \in Fact, Preview(c, e, f)
  PROVE  IInv'
<1> USE HistoryAssumption, NoneAssumption DEF IInv, Preview, table
<1>0. /\ row[e] \in StoredRow /\ FactOf(e) \in Fact
      /\ Known(e)
  BY DEF TypeInv, GivenOut, Known, FactOf, Fact, StoredRow
<1>1. TypeInv' /\ GivenOut'
  BY <1>0 DEF TypeInv, GivenOut, EditRow, Phase, StoredRow
<1>2. EditsInv'
  BY <1>0 DEF TypeInv, EditsInv, EditInv, Open, Locked, Known, FactOf, StoredRow
<1>3. LocksApart'
  BY DEF TypeInv, LocksApart, Locked
<1>4. SweepInv' /\ PurgeInv'
  BY DEF SweepInv, PurgeInv, Known, Concerned, MentionedBy
<1> QED
  BY <1>1, <1>2, <1>3, <1>4, SameTable

\* A request that is refused, crashes or is rolled back lets go of its row.
LEMMA OverStep ==
  ASSUME IInv, NEW c \in Editor, edit' = [edit EXCEPT ![c] = Over],
         UNCHANGED <<table, insert, taken, months, purge, purges, sweep>>
  PROVE  IInv'
<1> USE HistoryAssumption, NoneAssumption DEF IInv, Over, table
<1>1. TypeInv' /\ GivenOut'
  BY DEF TypeInv, GivenOut, EditRow, Phase
<1>2. EditsInv'
  BY DEF TypeInv, EditsInv, EditInv, Open, Locked, Known, FactOf
<1>3. LocksApart'
  BY DEF TypeInv, LocksApart, Locked
<1>4. SweepInv' /\ PurgeInv'
  BY DEF SweepInv, PurgeInv, Known, Concerned, MentionedBy
<1> QED
  BY <1>1, <1>2, <1>3, <1>4, SameTable

LEMMA PhaseIsTyped ==
  ASSUME NEW f \in [Editor -> EditRow], NEW c \in Editor, NEW p \in Phase
  PROVE  [f EXCEPT ![c].phase = p] \in [Editor -> EditRow]
<1>1. f[c] \in EditRow
  OBVIOUS
<1>2. [f[c] EXCEPT !.phase = p] \in EditRow
  BY <1>1 DEF EditRow
<1> QED
  BY <1>2

LEMMA CommitRevisionStep ==
  ASSUME IInv, NEW c \in Editor, CommitRevision(c)
  PROVE  IInv'
<1> USE HistoryAssumption, NoneAssumption DEF IInv, table
<1>1. CASE edit' = [edit EXCEPT ![c].phase = "checked"]
  <2> USE DEF CommitRevision
  <2>0. edit' \in [Editor -> EditRow]
    BY <1>1, PhaseIsTyped DEF TypeInv, Phase
  <2>1. TypeInv' /\ GivenOut'
    BY <2>0 DEF TypeInv, GivenOut
  <2>2. EditsInv'
    BY <1>1 DEF TypeInv, EditsInv, EditInv, EditRow, Open, Locked, Known, FactOf
  <2>3. LocksApart'
    BY <1>1 DEF TypeInv, LocksApart, EditRow, Locked
  <2>4. SweepInv' /\ PurgeInv'
    BY DEF SweepInv, PurgeInv, Known, Concerned, MentionedBy
  <2> QED
    BY <2>1, <2>2, <2>3, <2>4, SameTable
<1>2. CASE edit' = [edit EXCEPT ![c] = Over]
  BY <1>2, OverStep DEF CommitRevision
<1> QED
  BY <1>1, <1>2 DEF CommitRevision, StepIf

LEMMA LockRevisionStep ==
  ASSUME IInv, NEW c \in Editor, LockRevision(c)
  PROVE  IInv'
<1> USE HistoryAssumption, NoneAssumption DEF IInv, table
<1>1. CASE /\ edit' = [edit EXCEPT ![c].phase = "locked"]
           /\ row[edit[c].event] # None /\ SameRevision(c)
  <2> USE DEF LockRevision
  <2>0. edit' \in [Editor -> EditRow]
    BY <1>1, PhaseIsTyped DEF TypeInv, Phase
  <2>1. TypeInv' /\ GivenOut'
    BY <2>0 DEF TypeInv, GivenOut
  <2>2. EditsInv'
    BY <1>1 DEF TypeInv, EditsInv, EditInv, EditRow, Open, Locked, Known, FactOf,
                SameRevision
  <2>3. LocksApart'
    BY <1>1 DEF TypeInv, LocksApart, EditRow, Locked, IsFree, EditLocks, PurgeLocks, SweepLocks
  <2>4. SweepInv' /\ PurgeInv'
    BY DEF SweepInv, PurgeInv, Known, Concerned, MentionedBy
  <2> QED
    BY <2>1, <2>2, <2>3, <2>4, SameTable
<1>2. CASE edit' = [edit EXCEPT ![c] = Over]
  BY <1>2, OverStep DEF LockRevision
<1> QED
  BY <1>1, <1>2 DEF LockRevision, StepIf

LEMMA EditFailsStep ==
  ASSUME IInv, NEW c \in Editor, EditFails(c)
  PROVE  IInv'
BY OverStep DEF EditFails

-----------------------------------------------------------------------------
(* The purge and the retention worker up to their writes.                   *)

\* What concerns a purge has a row: audits do not outlive theirs.
LEMMA ConcernedIsKnown ==
  ASSUME IInv, NEW e \in Event, NEW s, NEW k, Concerned(e, s, k)
  PROVE  row[e] # None /\ Known(e)
BY DEF IInv, TypeInv, GivenOut, ChainIsWhole, Concerned, Known

LEMMA BeginPurgeStep ==
  ASSUME IInv, NEW s \in Actor \cup {Everyone}, BeginPurge(s)
  PROVE  IInv'
<1> USE HistoryAssumption, NoneAssumption DEF IInv, BeginPurge, table
<1>0. purges' \in 0 .. MaxPurges /\ purge' \in PurgeRow
  <2>1. {e \in Event : Concerned(e, s, purges + 1)} \in SUBSET Event
    OBVIOUS
  <2>2. purges' \in 0 .. MaxPurges
    BY DEF TypeInv
  <2> QED
    BY <2>1, <2>2 DEF TypeInv, PurgeRow
<1>1. TypeInv' /\ GivenOut'
  BY <1>0 DEF TypeInv, GivenOut
<1>2. EditsInv' /\ LocksApart' /\ SweepInv'
  BY DEF TypeInv, EditsInv, EditInv, LocksApart, SweepInv, Open, Locked, Known, FactOf
<1>3. PurgeInv'
  <2>1. ASSUME NEW e \in purge'.owed
        PROVE  Known(e) /\ Concerned(e, s, purges + 1)
    BY <2>1, ConcernedIsKnown
  <2>2. ASSUME NEW e \in purge'.owed
        PROVE  Known(e)' /\ Concerned(e, purge.scope, purges)'
    BY <2>1 DEF Known, Concerned, MentionedBy
  <2> QED
    BY <2>2 DEF PurgeInv
<1> QED
  BY <1>1, <1>2, <1>3, SameTable

LEMMA LookStep ==
  ASSUME IInv, LookForCandidates
  PROVE  IInv'
<1>0. /\ UNCHANGED <<row, audits, insert, taken, months, edit, purges, sweep>>
      /\ purge' \in PurgeRow
  <2> USE DEF LookForCandidates, table
  <2>1. CASE Candidates = {}
    BY <2>1 DEF IInv, TypeInv, PurgeRow
  <2>2. CASE Candidates # {}
    BY <2>2 DEF IInv, TypeInv, PurgeRow, Candidates
  <2> QED
    BY <2>1, <2>2
<1>1. TypeInv' /\ GivenOut'
  BY <1>0 DEF IInv, TypeInv, GivenOut
<1> USE HistoryAssumption, NoneAssumption DEF IInv, LookForCandidates, table
<1>2. EditsInv' /\ LocksApart' /\ SweepInv'
  <2>1. EditsInv'
    BY <1>0 DEF EditsInv, EditInv, Open, Locked, Known, FactOf
  <2>2. SweepInv'
    BY <1>0 DEF SweepInv
  <2>3. LocksApart'
    BY <1>0 DEF TypeInv, PurgeRow, LocksApart, Locked
  <2> QED
    BY <2>1, <2>2, <2>3
<1>3. PurgeInv'
  <2>1. CASE Candidates = {}
    BY <2>1 DEF TypeInv, PurgeRow, PurgeInv, Candidates, Known
  <2>2. CASE Candidates # {}
    <3>1. /\ purge'.phase = "locking" /\ purge'.scope = purge.scope
          /\ purge'.owed = purge.owed /\ purge'.locked = purge.locked
          /\ purge'.seen \subseteq Candidates
      BY <2>2 DEF TypeInv, PurgeRow
    <3>2. ASSUME NEW e \in purge'.owed \cup purge'.seen
          PROVE  /\ e \in Event /\ Known(e)
                 /\ row[e] = None \/ Concerned(e, purge.scope, purges)
      BY <3>1, ConcernedIsKnown DEF Candidates, PurgeInv, TypeInv, PurgeRow
    <3>3. ASSUME NEW e \in purge'.owed \cup purge'.seen
          PROVE  Known(e)' /\ (row'[e] = None \/ Concerned(e, purge.scope, purges)')
      BY <3>1, <3>2 DEF Known, Concerned, MentionedBy
    <3> QED
      BY <3>1, <3>3 DEF PurgeInv
  <2> QED
    BY <2>1, <2>2
<1> QED
  BY <1>1, <1>2, <1>3, SameTable

LEMMA LockCandidateStep ==
  ASSUME IInv, NEW e \in Event, LockCandidate(e)
  PROVE  IInv'
<1> USE HistoryAssumption, NoneAssumption DEF IInv, LockCandidate, table
<1>1. TypeInv' /\ GivenOut'
  BY DEF TypeInv, GivenOut, PurgeRow
<1>2. EditsInv' /\ SweepInv'
  BY DEF EditsInv, EditInv, SweepInv, Open, Locked, Known, FactOf
<1>3. LocksApart'
  BY DEF TypeInv, PurgeRow, LocksApart, Locked, Unlocked, Waits, IsFree, EditLocks, PurgeLocks,
         SweepLocks
<1>4. PurgeInv'
  BY DEF TypeInv, PurgeRow, PurgeInv, Unlocked, Known, Concerned, MentionedBy
<1> QED
  BY <1>1, <1>2, <1>3, <1>4, SameTable

LEMMA PurgeFailsStep ==
  ASSUME IInv, PurgeFails
  PROVE  IInv'
<1> USE HistoryAssumption, NoneAssumption DEF IInv, PurgeFails, NoPurge, table
<1>1. TypeInv' /\ GivenOut'
  BY DEF TypeInv, GivenOut, PurgeRow
<1>2. EditsInv' /\ LocksApart' /\ SweepInv' /\ PurgeInv'
  BY DEF EditsInv, EditInv, LocksApart, SweepInv, PurgeInv, Open, Locked, Known, FactOf
<1> QED
  BY <1>1, <1>2, SameTable

LEMMA LockExpiredStep ==
  ASSUME IInv, LockExpired
  PROVE  IInv'
<1> USE HistoryAssumption, NoneAssumption DEF IInv, LockExpired, table
<1>0. /\ sweep'.locked \subseteq {e \in Expired : IsFree(e)}
      /\ sweep'.phase = "locked" /\ sweep' \in SweepRow
  BY DEF TypeInv, SweepRow, Expired
<1>1. TypeInv' /\ GivenOut'
  BY <1>0 DEF TypeInv, GivenOut
<1>2. EditsInv' /\ PurgeInv'
  BY DEF EditsInv, EditInv, PurgeInv, Open, Locked, Known, FactOf, Concerned, MentionedBy
<1>3. LocksApart'
  BY <1>0 DEF LocksApart, Locked, IsFree, EditLocks, PurgeLocks, SweepLocks
<1>4. SweepInv'
  BY <1>0 DEF SweepInv, Expired
<1> QED
  BY <1>1, <1>2, <1>3, <1>4, SameTable

LEMMA SweepFailsStep ==
  ASSUME IInv, SweepFails
  PROVE  IInv'
<1> USE HistoryAssumption, NoneAssumption DEF IInv, SweepFails, NoSweep, table
<1>1. TypeInv' /\ GivenOut'
  BY DEF TypeInv, GivenOut, SweepRow
<1>2. EditsInv' /\ LocksApart' /\ SweepInv' /\ PurgeInv'
  BY DEF EditsInv, EditInv, LocksApart, SweepInv, PurgeInv, Open, Locked, Known, FactOf,
         Concerned, MentionedBy
<1> QED
  BY <1>1, <1>2, SameTable

-----------------------------------------------------------------------------
(* Steps that write the tables.                                             *)

LEMMA EndInsertStep ==
  ASSUME IInv, NEW e \in Event, EndInsert(e)
  PROVE  IInv'
<1> USE HistoryAssumption, NoneAssumption DEF IInv
<1>0. /\ insert[e] \in StoredRow /\ insert[e].revision = 1 /\ row[e] = None /\ e \in taken
      /\ insert' = [insert EXCEPT ![e] = None]
      /\ UNCHANGED <<audits, months, edit, purge, purges, sweep>>
  BY DEF TypeInv, GivenOut, EndInsert
<1>1. CASE row' = [row EXCEPT ![e] = insert[e]] /\ UNCHANGED taken
  <2>1. TypeInv'
    BY <1>0, <1>1 DEF TypeInv
  <2>2. GivenOut'
    BY <1>0, <1>1 DEF TypeInv, GivenOut
  <2>3. EditsInv' /\ LocksApart'
    BY <1>0, <1>1 DEF TypeInv, EditsInv, EditInv, LocksApart, Open, Locked, Known, FactOf
  <2>4. SweepInv'
    BY <1>0, <1>1 DEF TypeInv, SweepInv
  <2>5. PurgeInv'
    BY <1>0, <1>1 DEF TypeInv, PurgeInv, PurgeRow, Known, Concerned, MentionedBy
  <2>6. ChainIsWhole'
    <3>1. \A d \in Event \ {e} : row'[d] = row[d]
      BY <1>1 DEF TypeInv
    <3>2. row'[e].revision = 1 /\ row'[e] # None /\ audits[e] = <<>>
      BY <1>0, <1>1 DEF TypeInv, ChainIsWhole
    <3>3. Len(audits[e]) = row'[e].revision - 1 /\ DOMAIN audits[e] = {}
      BY <3>2
    <3> QED
      BY <1>0, <3>1, <3>2, <3>3 DEF ChainIsWhole, FactOf
  <2> QED
    BY <2>1, <2>2, <2>3, <2>4, <2>5, <2>6
<1>2. CASE taken' = taken \ {e} /\ UNCHANGED row
  <2>1. TypeInv'
    BY <1>0, <1>2 DEF TypeInv
  <2>2. GivenOut'
    BY <1>0, <1>2 DEF TypeInv, GivenOut
  <2>3. EditsInv' /\ LocksApart'
    BY <1>0, <1>2 DEF TypeInv, EditsInv, EditInv, LocksApart, Open, Locked, Known, FactOf
  <2>4. SweepInv'
    BY <1>0, <1>2 DEF TypeInv, SweepInv
  <2>5. PurgeInv'
    BY <1>0, <1>2 DEF TypeInv, PurgeInv, PurgeRow, Known, Concerned, MentionedBy
  <2>6. ChainIsWhole'
    BY <1>0, <1>2, SameTable DEF table
  <2> QED
    BY <2>1, <2>2, <2>3, <2>4, <2>5, <2>6
<1> QED
  BY <1>1, <1>2 DEF EndInsert

\* What a correction does: the event it was reviewed for, the row it leaves and
\* the audit it adds.
AuditOf(c) == [revision |-> row[edit[c].event].revision + 1,
               previous |-> edit[c].before, snapshot |-> edit[c].after]

LEMMA RevisionIsAudited ==
  ASSUME IInv, NEW c \in Editor, ApplyRevision(c),
         NEW e, e = edit[c].event, NEW r, r = row'[e], NEW a, a = AuditOf(c)
  PROVE  /\ e \in Event /\ Locked(c) /\ Known(e)
         /\ row[e] # None /\ row[e] \in StoredRow /\ FactOf(e) = edit[c].before
         /\ r # None /\ r \in StoredRow
         /\ r.revision = row[e].revision + 1 /\ r.at = row[e].at
         /\ [actor |-> r.actor, month |-> r.month] = edit[c].after
         /\ row' = [row EXCEPT ![e] = r]
         /\ a \in Audit
         /\ audits' = [audits EXCEPT ![e] = Append(audits[e], a)]
<1> USE HistoryAssumption, NoneAssumption DEF IInv
<1> DEFINE s == [actor |-> edit[c].after.actor, month |-> edit[c].after.month,
                 revision |-> row[e].revision + 1, at |-> row[e].at]
<1>1. /\ e \in Event /\ Known(e) /\ row[e] # None /\ Locked(c)
      /\ FactOf(e) = edit[c].before /\ edit[c].before \in Fact /\ edit[c].after \in Fact
  BY DEF ApplyRevision, EditsInv, EditInv, Open, Locked
<1>2. row[e] \in StoredRow
  BY <1>1 DEF TypeInv
<1>3. s \in StoredRow /\ a \in Audit /\ s # None
  BY <1>1, <1>2 DEF StoredRow, Fact, Audit, AuditOf
<1>4. row' = [row EXCEPT ![e] = s]
  BY DEF ApplyRevision
<1>5. r = s
  BY <1>1, <1>4 DEF TypeInv
<1>6. [actor |-> s.actor, month |-> s.month] = edit[c].after
  BY <1>1 DEF Fact
<1>7. audits' = [audits EXCEPT ![e] = Append(audits[e], a)]
  BY <1>1 DEF ApplyRevision, AuditOf
<1> HIDE DEF s
<1>8. s.revision = row[e].revision + 1 /\ s.at = row[e].at
  BY DEF s
<1> QED
  BY <1>1, <1>2, <1>3, <1>4, <1>5, <1>6, <1>7, <1>8

LEMMA ApplyRevisionStep ==
  ASSUME IInv, NEW c \in Editor, ApplyRevision(c)
  PROVE  IInv'
<1> USE HistoryAssumption, NoneAssumption DEF IInv
<1>0. PICK e, r, a : e = edit[c].event /\ r = row'[e] /\ a = AuditOf(c)
  OBVIOUS
<1>1. /\ e \in Event /\ Locked(c) /\ Known(e)
      /\ row[e] # None /\ row[e] \in StoredRow /\ FactOf(e) = edit[c].before
      /\ r # None /\ r \in StoredRow
      /\ r.revision = row[e].revision + 1 /\ r.at = row[e].at
      /\ [actor |-> r.actor, month |-> r.month] = edit[c].after
      /\ row' = [row EXCEPT ![e] = r]
      /\ a \in Audit
      /\ audits' = [audits EXCEPT ![e] = Append(audits[e], a)]
  BY <1>0, RevisionIsAudited
<1>2. /\ edit' = [edit EXCEPT ![c] = Over]
      /\ UNCHANGED <<insert, taken, months, purge, purges, sweep>>
  BY DEF ApplyRevision
<1>3. TypeInv'
  <2>1. Over \in EditRow
    BY DEF Over, EditRow, Phase
  <2>2. Append(audits[e], a) \in Seq(Audit)
    BY <1>1 DEF TypeInv
  <2> QED
    BY <1>1, <1>2, <2>1, <2>2 DEF TypeInv
<1>4. GivenOut'
  BY <1>1, <1>2 DEF TypeInv, GivenOut, Known
<1>5. EditsInv'
  <2> SUFFICES ASSUME NEW d \in Editor, Open(d)' PROVE EditInv(d)'
    BY DEF EditsInv, EditInv
  <2>1. d # c /\ edit'[d] = edit[d] /\ Open(d)
    BY <1>2 DEF Open, Over, TypeInv
  <2>2. CASE edit[d].event = e
    BY <1>0, <1>1, <1>2, <2>1, <2>2
       DEF TypeInv, EditRow, StoredRow, EditsInv, EditInv, LocksApart, Open, Locked, Known, FactOf
  <2>3. CASE edit[d].event # e
    BY <1>1, <1>2, <2>1, <2>3 DEF TypeInv, EditsInv, EditInv, Open, Locked, Known, FactOf
  <2> QED
    BY <2>2, <2>3
<1>6. LocksApart'
  BY <1>2 DEF TypeInv, LocksApart, Locked, Over
<1>7. SweepInv'
  BY <1>0, <1>1, <1>2 DEF TypeInv, SweepRow, SweepInv, LocksApart
<1>8. ChainIsWhole'
  <2>1. ASSUME NEW d \in Event, d # e
        PROVE  row'[d] = row[d] /\ audits'[d] = audits[d]
    BY <1>1, <2>1 DEF TypeInv
  <2>2. row'[e] = r /\ audits'[e] = Append(audits[e], a)
    BY <1>1 DEF TypeInv
  <2>3. /\ audits[e] \in Seq(Audit) /\ Len(audits[e]) = row[e].revision - 1
        /\ \A i \in DOMAIN audits[e] :
             /\ audits[e][i].revision = i + 1
             /\ audits[e][i].snapshot =
                  IF i < Len(audits[e]) THEN audits[e][i + 1].previous ELSE FactOf(e)
    BY <1>1 DEF ChainIsWhole, TypeInv
  <2>4. /\ a.revision = row[e].revision + 1 /\ a.previous = FactOf(e)
        /\ a.snapshot = edit[c].after
    BY <1>0, <1>1 DEF AuditOf
  <2>5. Len(audits'[e]) = row'[e].revision - 1
    BY <1>1, <2>2, <2>3 DEF StoredRow
  <2>6. ASSUME NEW i \in DOMAIN audits'[e]
        PROVE  /\ audits'[e][i].revision = i + 1
               /\ audits'[e][i].snapshot =
                    IF i < Len(audits'[e]) THEN audits'[e][i + 1].previous
                    ELSE [actor |-> r.actor, month |-> r.month]
    <3> DEFINE q == audits[e]
    <3>1. i \in 1 .. Len(q) + 1
      BY <2>2, <2>3
    <3>2. CASE i \in 1 .. Len(q)
      <4>1. Append(q, a)[i] = q[i] /\ i \in DOMAIN q
        BY <1>1, <2>3, <3>2
      <4>2. Append(q, a)[i + 1] = IF i < Len(q) THEN q[i + 1] ELSE a
        BY <1>1, <2>3, <3>2
      <4>3. Len(Append(q, a)) = Len(q) + 1
        BY <1>1, <2>3
      <4> QED
        BY <2>2, <2>3, <2>4, <3>2, <4>1, <4>2, <4>3
    <3>3. CASE i = Len(q) + 1
      <4>1. Append(q, a)[i] = a /\ Len(Append(q, a)) = i
        BY <1>1, <2>3, <3>3
      <4> QED
        BY <1>1, <2>2, <2>3, <2>4, <3>3, <4>1 DEF StoredRow
    <3> QED
      BY <3>1, <3>2, <3>3
  <2> QED
    BY <1>1, <2>1, <2>2, <2>5, <2>6 DEF ChainIsWhole, FactOf
<1>9. PurgeInv'
  <2>1. ASSUME NEW d \in purge.owed \cup purge.seen, d # e
        PROVE  /\ d \in Event /\ Known(d)' /\ row'[d] = row[d] /\ audits'[d] = audits[d]
    BY <1>1, <1>2, <2>1 DEF TypeInv, PurgeRow, PurgeInv, Known
  <2>2. ASSUME purge.phase \in {"looking", "locking"}, Concerned(e, purge.scope, purges)
        PROVE  Concerned(e, purge.scope, purges)'
    <3>1. /\ row'[e] = r /\ audits'[e] = Append(audits[e], a) /\ audits[e] \in Seq(Audit)
          /\ audits'[e][Len(audits[e]) + 1] = a /\ Len(audits[e]) + 1 \in DOMAIN audits'[e]
          /\ \A i \in DOMAIN audits[e] : i \in DOMAIN audits'[e] /\ audits'[e][i] = audits[e][i]
      BY <1>1 DEF TypeInv
    <3>2. a.previous.actor = row[e].actor
      BY <1>0, <1>1 DEF AuditOf, FactOf
    <3>3. purge.scope # Everyone => MentionedBy(e, purge.scope)'
      BY <1>1, <1>2, <2>2, <3>1, <3>2 DEF Concerned, MentionedBy
    <3>4. row'[e].at < purges /\ audits'[e] # <<>>
      BY <1>1, <2>2, <3>1 DEF Concerned
    <3> QED
      BY <1>1, <1>2, <3>1, <3>3, <3>4 DEF Concerned
  <2> QED
    BY <1>1, <1>2, <2>1, <2>2 DEF PurgeInv, Known, Concerned, MentionedBy
<1> QED
  BY <1>3, <1>4, <1>5, <1>6, <1>7, <1>8, <1>9
LEMMA EraseCandidatesStep ==
  ASSUME IInv, EraseCandidates
  PROVE  IInv'
<1> USE HistoryAssumption, NoneAssumption DEF IInv, EraseCandidates
<1>0. purge' \in PurgeRow
  BY DEF TypeInv, PurgeRow
<1>1. TypeInv'
  BY <1>0 DEF TypeInv
<1>2. GivenOut'
  BY DEF TypeInv, GivenOut
<1>3. EditsInv'
  BY DEF TypeInv, EditsInv, EditInv, LocksApart, Open, Locked, Known, FactOf
<1>4. LocksApart'
  BY DEF TypeInv, PurgeRow, LocksApart, Locked
<1>5. SweepInv'
  BY DEF TypeInv, SweepRow, SweepInv, LocksApart
<1>6. PurgeInv'
  <2>1. /\ purge'.phase = "looking" /\ purge'.scope = purge.scope /\ purge'.owed = purge.owed
        /\ purge'.seen = {} /\ purge'.locked = {}
    BY DEF TypeInv, PurgeRow
  <2>2. ASSUME NEW e \in purge.owed
        PROVE  Known(e)' /\ (row'[e] = None \/ Concerned(e, purge.scope, purges)')
    <3>1. e \in Event /\ Known(e) /\ (row[e] = None \/ Concerned(e, purge.scope, purges))
      BY DEF PurgeInv, TypeInv, PurgeRow
    <3>2. CASE e \in purge.seen
      BY <2>1, <3>1, <3>2 DEF Unlocked, Known
    <3>3. CASE e \notin purge.seen
      <4>1. e \notin purge.locked
        BY <3>3 DEF PurgeInv
      <4>2. row'[e] = row[e] /\ audits'[e] = audits[e]
        BY <3>1, <3>3, <4>1
      <4> QED
        BY <2>1, <3>1, <4>2 DEF Known, Concerned, MentionedBy
    <3> QED
      BY <3>2, <3>3
  <2> QED
    BY <2>1, <2>2 DEF PurgeInv
<1>7. ChainIsWhole'
  <2> SUFFICES ASSUME NEW e \in Event
               PROVE  \/ row'[e] = None /\ audits'[e] = <<>>
                      \/ row'[e] = row[e] /\ audits'[e] = audits[e]
    BY DEF ChainIsWhole, FactOf
  <2> QED
    BY DEF TypeInv, PurgeRow, PurgeInv, ChainIsWhole, Unlocked
<1> QED
  BY <1>1, <1>2, <1>3, <1>4, <1>5, <1>6, <1>7

LEMMA EraseExpiredStep ==
  ASSUME IInv, EraseExpired
  PROVE  IInv'
<1> USE HistoryAssumption, NoneAssumption DEF IInv, EraseExpired, NoSweep
<1>0. ASSUME NEW e \in Event
      PROVE  \/ row'[e] = None /\ audits'[e] = <<>>
             \/ e \notin sweep.locked /\ row'[e] = row[e] /\ audits'[e] = audits[e]
  OBVIOUS
<1>1. TypeInv'
  BY DEF TypeInv, SweepRow
<1>2. GivenOut'
  BY <1>0 DEF TypeInv, GivenOut
<1>3. EditsInv'
  BY DEF TypeInv, EditsInv, EditInv, LocksApart, Open, Locked, Known, FactOf
<1>4. LocksApart' /\ SweepInv'
  BY DEF LocksApart, Locked, SweepInv
<1>5. PurgeInv'
  BY <1>0 DEF TypeInv, PurgeRow, PurgeInv, Known, Concerned, MentionedBy
<1>6. ChainIsWhole'
  BY <1>0 DEF ChainIsWhole, FactOf
<1> QED
  BY <1>1, <1>2, <1>3, <1>4, <1>5, <1>6

-----------------------------------------------------------------------------
(* The theorems.                                                            *)

LEMMA NextStep ==
  ASSUME IInv, [HistoryNext]_historyVars
  PROVE  IInv'
<1>1. CASE UNCHANGED historyVars
  BY <1>1 DEF historyVars, table, IInv, TypeInv, GivenOut, EditsInv, EditInv, LocksApart, SweepInv,
              PurgeInv, ChainIsWhole, Open, Locked, Known, FactOf, Concerned, MentionedBy
<1>2. CASE ChangePolicy
  BY <1>2, ChangePolicyStep
<1>3. CASE Purging
  BY <1>3, BeginPurgeStep, LookStep, LockCandidateStep, EraseCandidatesStep, PurgeFailsStep
     DEF Purging
<1>4. CASE Sweeping
  BY <1>4, LockExpiredStep, EraseExpiredStep, SweepFailsStep DEF Sweeping
<1>5. CASE \E e \in Event : BeginInsert(e) \/ EndInsert(e)
  BY <1>5, BeginInsertStep, EndInsertStep
<1>6. CASE \E c \in Editor : Correct(c)
  BY <1>6, PreviewStep, CommitRevisionStep, LockRevisionStep, ApplyRevisionStep, EditFailsStep
     DEF Correct
<1> QED
  BY <1>1, <1>2, <1>3, <1>4, <1>5, <1>6 DEF HistoryNext

\* Whatever corrections, purges, sweeps and ingests run at the same time, for any
\* number of them: the audits of every event (reviseEvent) account for its row
\* without a gap, and once a purge has reported success nothing is left, in rows or
\* audits, of the events that concerned its actor when it began.
THEOREM HistoryIsKept == HistorySpec => []HistoryIsSound
<1>1. IInv => HistoryIsSound
  BY DEF IInv, HistoryIsSound, PurgedIsGone, PurgeInv, TypeInv, PurgeRow, ChainIsWhole
<1> QED
  BY InitIInv, NextStep, <1>1, PTL DEF HistorySpec

\* What a step may do to an event that is stored.
Kept == \A e \in Event :
  row[e] # None /\ <<row[e], audits[e]>> # <<row[e], audits[e]>>' =>
    IsReviewed(e) \/ DeletionIsDue(e)

\* A stored event changes only by a correction, into exactly what its reviewer was
\* shown and audited as that, and is deleted only with its audits, when it is
\* outside the retention window of that moment or the running purge concerns it.
THEOREM EventsAreNotTouched == HistorySpec => StoredEventsAreKept
<1>1. IInv /\ HistoryNext => Kept
  <2> SUFFICES ASSUME IInv, HistoryNext PROVE Kept
    OBVIOUS
  <2> USE HistoryAssumption, NoneAssumption DEF IInv
  <2>1. CASE UNCHANGED table
    BY <2>1 DEF Kept, table
  <2>2. ASSUME NEW e \in Event, EndInsert(e) PROVE Kept
    BY <2>2 DEF EndInsert, TypeInv, GivenOut, Kept
  <2>3. ASSUME NEW c \in Editor, ApplyRevision(c) PROVE Kept
    <3>0. PICK e, r, a : e = edit[c].event /\ r = row'[e] /\ a = AuditOf(c)
      OBVIOUS
    <3>1. /\ e \in Event /\ row[e] # None /\ FactOf(e) = edit[c].before
          /\ r # None /\ [actor |-> r.actor, month |-> r.month] = edit[c].after
          /\ row' = [row EXCEPT ![e] = r]
          /\ audits' = [audits EXCEPT ![e] = Append(audits[e], a)]
      BY <2>3, <3>0, RevisionIsAudited
    <3>2. IsReviewed(e)
      BY <3>0, <3>1 DEF IsReviewed, FactOf, AuditOf, TypeInv
    <3> QED
      BY <3>1, <3>2 DEF Kept, TypeInv
  <2>4. CASE EraseCandidates
    <3> SUFFICES ASSUME NEW e \in Event, row[e] # None,
                        <<row[e], audits[e]>> # <<row[e], audits[e]>>'
                 PROVE  DeletionIsDue(e)
      BY DEF Kept
    <3>1. e \in purge.seen /\ e \in purge.locked
      BY <2>4 DEF EraseCandidates, PurgeInv, Unlocked
    <3> QED
      BY <2>4, <3>1 DEF EraseCandidates, DeletionIsDue, PurgeInv
  <2>5. CASE EraseExpired
    BY <2>5 DEF EraseExpired, SweepInv, Kept, DeletionIsDue
  <2> QED
    BY <2>1, <2>2, <2>3, <2>4, <2>5
       DEF HistoryNext, Purging, Sweeping, Correct, ChangePolicy, BeginPurge, LookForCandidates,
           LockCandidate, PurgeFails, LockExpired, SweepFails, BeginInsert, Preview,
           CommitRevision, LockRevision, EditFails
<1>2. IInv /\ [HistoryNext]_historyVars => [Kept]_historyVars
  BY <1>1
<1>3. HistorySpec => []IInv
  BY InitIInv, NextStep, PTL DEF HistorySpec
<1> QED
  BY <1>2, <1>3, PTL DEF HistorySpec, StoredEventsAreKept, Kept

-----------------------------------------------------------------------------
(* The queue of the client: sequences without repetition.                   *)

\* A sequence over S that repeats nothing.
Queue(s, S) == s \in Seq(S) /\ IsInjective(s)

\* What belonging to a queue gives: its length, its elements, no repetition.
LEMMA QueueFacts ==
  ASSUME NEW S, NEW s, Queue(s, S)
  PROVE  /\ Len(s) \in Nat /\ DOMAIN s = 1 .. Len(s) /\ ToSet(s) \subseteq S
         /\ \A j \in 1 .. Len(s) : s[j] \in S
         /\ \A j, k \in 1 .. Len(s) : s[j] = s[k] => j = k
<1>1. Len(s) \in Nat /\ DOMAIN s = 1 .. Len(s) /\ \A j \in 1 .. Len(s) : s[j] \in S
  BY LenProperties, ElementOfSeq DEF Queue
<1> QED
  BY <1>1 DEF Queue, IsInjective, ToSet

\* The empty queue has no element.
LEMMA EmptyQueue ==
  ASSUME NEW S
  PROVE  Queue(<<>>, S) /\ ToSet(<<>>) = {} /\ Len(<<>>) = 0
<1>1. <<>> \in Seq(S) /\ Len(<<>>) = 0
  BY EmptySeq
<1>2. DOMAIN <<>> = {}
  BY <1>1, LenProperties
<1> QED
  BY <1>1, <1>2 DEF Queue, IsInjective, ToSet

\* What is not in a queue yet is put at its end.
LEMMA QueueAppend ==
  ASSUME NEW S, NEW s, Queue(s, S), NEW b \in S, b \notin ToSet(s)
  PROVE  Queue(Append(s, b), S) /\ ToSet(Append(s, b)) = ToSet(s) \cup {b}
<1> DEFINE n == Len(s)
           t == Append(s, b)
<1>0. /\ n \in Nat /\ DOMAIN s = 1 .. n /\ \A j \in 1 .. n : s[j] \in S /\ s[j] # b
      /\ \A j, k \in 1 .. n : s[j] = s[k] => j = k
  BY QueueFacts DEF ToSet
<1>1. /\ t \in Seq(S) /\ Len(t) = n + 1 /\ t[n + 1] = b
      /\ \A j \in 1 .. n : t[j] = s[j]
  BY AppendProperties DEF Queue
<1>2. DOMAIN t = 1 .. n + 1
  BY <1>1, LenProperties
<1> HIDE DEF t
<1>3. IsInjective(t)
  BY <1>0, <1>1, <1>2 DEF IsInjective
<1>4. ToSet(t) = ToSet(s) \cup {b}
  <2>1. \A x \in ToSet(t) : x \in ToSet(s) \/ x = b
    BY <1>0, <1>1, <1>2 DEF ToSet
  <2>2. b \in ToSet(t)
    BY <1>0, <1>1, <1>2 DEF ToSet
  <2>3. \A x \in ToSet(s) : x \in ToSet(t)
    BY <1>0, <1>1, <1>2 DEF ToSet
  <2> QED
    BY <2>1, <2>2, <2>3
<1> QED
  BY <1>1, <1>3, <1>4 DEF Queue, t

\* A queue is cut in two: the items of the first part, and those left.
Cut(s, S, k, first, last) ==
  /\ Queue(first, S) /\ Len(first) = k
  /\ Queue(last, S) /\ Len(last) = Len(s) - k
  /\ ToSet(first) \cup ToSet(last) = ToSet(s) /\ ToSet(first) \cap ToSet(last) = {}

\* The two parts of a queue are queues that share nothing.
LEMMA QueueCut ==
  ASSUME NEW S, NEW s, Queue(s, S), NEW k \in 0 .. Len(s),
         NEW first, first = SubSeq(s, 1, k), NEW last, last = SubSeq(s, k + 1, Len(s))
  PROVE  Cut(s, S, k, first, last)
<1>. PICK n \in Nat : n = Len(s)
  BY QueueFacts
<1>0. /\ DOMAIN s = 1 .. n /\ \A j \in 1 .. n : s[j] \in S
      /\ \A i, j \in 1 .. n : s[i] = s[j] => i = j
  BY QueueFacts
<1>1. k \in Int /\ 0 <= k /\ k <= n
  OBVIOUS
<1>2. first \in Seq(S) /\ Len(first) = k /\ \A j \in 1 .. k : first[j] = s[j]
  <2>1. /\ first \in Seq(S) /\ Len(first) = IF 1 <= k THEN k - 1 + 1 ELSE 0
        /\ \A j \in 1 .. k - 1 + 1 : first[j] = s[1 + j - 1]
    BY <1>0, <1>1, SubSeqProperties
  <2> QED
    BY <1>1, <2>1
<1>3. last \in Seq(S) /\ Len(last) = n - k /\ \A j \in 1 .. n - k : last[j] = s[k + j]
  <2>1. /\ last \in Seq(S) /\ Len(last) = IF k + 1 <= n THEN n - (k + 1) + 1 ELSE 0
        /\ \A j \in 1 .. n - (k + 1) + 1 : last[j] = s[(k + 1) + j - 1]
    <3>1. k + 1 \in Int /\ n \in Int /\ \A j \in k + 1 .. n : s[j] \in S
      BY <1>0, <1>1
    <3> QED
      BY <3>1, SubSeqProperties
  <2>2. n - (k + 1) + 1 = n - k /\ \A j \in 1 .. n - k : (k + 1) + j - 1 = k + j
    BY <1>1
  <2>3. k + 1 <= n \/ k = n
    BY <1>1
  <2>4. Len(last) = n - k
    BY <1>1, <2>1, <2>2, <2>3
  <2> QED
    BY <2>1, <2>2, <2>4
<1>4. DOMAIN first = 1 .. k /\ DOMAIN last = 1 .. n - k
  BY <1>2, <1>3, LenProperties
<1>5. IsInjective(first)
  BY <1>0, <1>1, <1>2, <1>4 DEF IsInjective
<1>6. IsInjective(last)
  <2>1. \A j \in 1 .. n - k : k + j \in 1 .. n
    BY <1>1
  <2>2. ASSUME NEW i \in 1 .. n - k, NEW j \in 1 .. n - k, last[i] = last[j] PROVE i = j
    <3>1. s[k + i] = s[k + j]
      BY <1>3, <2>2
    <3>2. k + i = k + j
      BY <1>0, <2>1, <3>1
    <3> QED
      BY <1>1, <3>2
  <2> QED
    BY <1>4, <2>2 DEF IsInjective
<1>7. \A x : x \in ToSet(first) <=> \E j \in 1 .. k : s[j] = x
  BY <1>2, <1>4 DEF ToSet
<1>8. \A x : x \in ToSet(last) <=> \E j \in k + 1 .. n : s[j] = x
  <2>1. \A x : x \in ToSet(last) <=> \E i \in 1 .. n - k : s[k + i] = x
    BY <1>3, <1>4 DEF ToSet
  <2>2. \A i \in 1 .. n - k : k + i \in k + 1 .. n
    BY <1>1
  <2>3. \A j \in k + 1 .. n : j - k \in 1 .. n - k /\ k + (j - k) = j
    BY <1>1
  <2>4. ASSUME NEW x, NEW j \in k + 1 .. n, s[j] = x PROVE \E i \in 1 .. n - k : s[k + i] = x
    <3>1. s[k + (j - k)] = x
      BY <2>3, <2>4
    <3> QED
      BY <2>3, <3>1
  <2> QED
    BY <2>1, <2>2, <2>4
<1>9. \A x : x \in ToSet(s) <=> \E j \in 1 .. n : s[j] = x
  BY <1>0 DEF ToSet
<1>10. ToSet(first) \cup ToSet(last) = ToSet(s)
  BY <1>1, <1>7, <1>8, <1>9
<1>11. ToSet(first) \cap ToSet(last) = {}
  BY <1>0, <1>1, <1>7, <1>8
<1> QED
  BY <1>2, <1>3, <1>5, <1>6, <1>10, <1>11 DEF Queue, Cut

\* Cutting at n, or keeping the newest n, when the queue may be shorter.
LEMMA QueueSplit ==
  ASSUME NEW S, NEW s, Queue(s, S), NEW n \in Nat
  PROVE  /\ Queue(First(s, n), S) /\ Queue(Rest(s, n), S)
         /\ ToSet(First(s, n)) \cup ToSet(Rest(s, n)) = ToSet(s)
         /\ ToSet(First(s, n)) \cap ToSet(Rest(s, n)) = {}
         /\ Len(Rest(s, n)) <= Len(s)
<1> DEFINE k == IF Len(s) < n THEN Len(s) ELSE n
<1>1. Len(s) \in Nat /\ k \in 0 .. Len(s)
  BY QueueFacts
<1>2. First(s, n) = SubSeq(s, 1, k) /\ Rest(s, n) = SubSeq(s, k + 1, Len(s))
  BY DEF First, Rest
<1> HIDE DEF k
<1>3. Cut(s, S, k, First(s, n), Rest(s, n))
  BY <1>1, <1>2, QueueCut
<1> QED
  BY <1>1, <1>3 DEF Cut

\* A queue that is too long loses its oldest elements, and these only.
LEMMA QueueTrim ==
  ASSUME NEW S, NEW s, Queue(s, S), NEW n \in Nat
  PROVE  /\ Queue(Oldest(s, n), S) /\ Queue(Newest(s, n), S)
         /\ ToSet(Oldest(s, n)) \cup ToSet(Newest(s, n)) = ToSet(s)
         /\ ToSet(Oldest(s, n)) \cap ToSet(Newest(s, n)) = {}
         /\ Len(Newest(s, n)) <= n
<1> DEFINE m == IF Len(s) > n THEN Len(s) - n ELSE 0
           k == IF Len(s) < m THEN Len(s) ELSE m
<1>1. Len(s) \in Nat /\ k \in 0 .. Len(s) /\ Len(s) - k <= n
  BY QueueFacts
<1>2. Oldest(s, n) = SubSeq(s, 1, k) /\ Newest(s, n) = SubSeq(s, k + 1, Len(s))
  BY DEF First, Rest, Oldest, Newest
<1> HIDE DEF m, k
<1>3. Cut(s, S, k, Oldest(s, n), Newest(s, n))
  BY <1>1, <1>2, QueueCut
<1> QED
  BY <1>1, <1>3 DEF Cut

\* A queue is its first element and the rest.
LEMMA QueueHead ==
  ASSUME NEW S, NEW s, Queue(s, S), s # <<>>
  PROVE  /\ s[1] \in S /\ Queue(Tail(s), S)
         /\ ToSet(s) = ToSet(Tail(s)) \cup {s[1]} /\ s[1] \notin ToSet(Tail(s))
<1>. PICK n \in Nat : n = Len(s)
  BY QueueFacts
<1>1. s \in Seq(S) /\ n # 0
  BY EmptySeq DEF Queue
<1>2. Tail(s) = SubSeq(s, 1 + 1, Len(s))
  BY <1>1, TailIsSubSeq
<1>3. 1 \in 0 .. Len(s) /\ 1 \in 1 .. Len(s)
  BY <1>1
<1> DEFINE first == SubSeq(s, 1, 1)
<1>4. Cut(s, S, 1, first, Tail(s))
  BY <1>2, <1>3, QueueCut
<1>5. s[1] \in S
  BY <1>3, QueueFacts
<1>6. Len(first) = 1 /\ first[1] = s[1]
  <2>1. \A i \in 1 .. 1 : s[i] \in S
    BY <1>5
  <2> QED
    BY <2>1, SubSeqProperties
<1>7. ToSet(first) = {s[1]}
  <2>1. DOMAIN first = 1 .. 1
    BY <1>4, <1>6, QueueFacts DEF Cut
  <2> QED
    BY <1>6, <2>1 DEF ToSet
<1> HIDE DEF first
<1> QED
  BY <1>4, <1>5, <1>7 DEF Cut

-----------------------------------------------------------------------------
(* What is left of a sequence.                                             *)

\* There are n numbers from 1 to n.
LEMMA FirstNumbers ==
  ASSUME NEW n \in Nat
  PROVE  IsFiniteSet(1 .. n) /\ Cardinality(1 .. n) = n
<1>1. 1 \in Int /\ n \in Int /\ (IF 1 > n THEN 0 ELSE n - 1 + 1) = n
  OBVIOUS
<1> QED
  BY <1>1, FS_Interval

\* The rank of a number in a finite set of numbers.
Rank(L, i) == Cardinality({j \in L : j <= i})

\* Every rank is taken, and no two numbers share one.
LEMMA RanksAreTaken ==
  ASSUME NEW L \in SUBSET Nat, IsFiniteSet(L)
  PROVE  /\ Cardinality(L) \in Nat
         /\ \A n \in 1 .. Cardinality(L) : \E i \in L : Rank(L, i) = n
         /\ \A i \in L : Rank(L, i) \in 1 .. Cardinality(L)
         /\ \A i, j \in L : Rank(L, i) = Rank(L, j) => i = j
<1>. PICK c \in Nat : c = Cardinality(L)
  BY FS_CardinalityType
<1> DEFINE Upto(i) == {j \in L : j <= i}
<1>1. ASSUME NEW i \in L PROVE IsFiniteSet(Upto(i)) /\ Rank(L, i) \in 1 .. c
  <2>1. Upto(i) \in SUBSET L /\ i \in Upto(i)
    OBVIOUS
  <2>2. IsFiniteSet(Upto(i)) /\ Cardinality(Upto(i)) <= c
    BY <2>1, FS_Subset
  <2>3. Cardinality(Upto(i)) \in Nat /\ Cardinality(Upto(i)) # 0
    BY <2>1, <2>2, FS_CardinalityType, FS_EmptySet
  <2> HIDE DEF Upto
  <2>4. Cardinality(Upto(i)) \in 1 .. c
    BY <2>2, <2>3
  <2> QED
    BY <2>2, <2>4 DEF Rank, Upto
<1>2. ASSUME NEW i \in L, NEW j \in L, i < j PROVE Rank(L, i) # Rank(L, j)
  <2>0. j <= j /\ ~ (j <= i) /\ \A k \in L : k <= i => k <= j
    BY <1>2
  <2>1. Upto(i) \in SUBSET Upto(j) /\ j \in Upto(j) /\ j \notin Upto(i)
    BY <2>0
  <2>2. IsFiniteSet(Upto(j))
    BY <1>1
  <2> HIDE DEF Upto
  <2>3. Cardinality(Upto(j)) = Cardinality(Upto(i)) => Upto(j) = Upto(i)
    BY <2>1, <2>2, FS_Subset
  <2> QED
    BY <2>1, <2>3 DEF Rank, Upto
<1>3. \A i, j \in L : Rank(L, i) = Rank(L, j) => i = j
  <2>1. \A i, j \in L : i < j \/ j < i \/ i = j
    OBVIOUS
  <2> QED
    BY <1>2, <2>1
<1>4. \A n \in 1 .. c : \E i \in L : Rank(L, i) = n
  <2> DEFINE f == [i \in L |-> Rank(L, i)]
  <2>1. f \in Injection(L, 1 .. c)
    BY <1>1, <1>3 DEF Injection, IsInjective
  <2>2. IsFiniteSet(1 .. c) /\ Cardinality(1 .. c) = c
    BY FirstNumbers
  <2>3. f \in Surjection(L, 1 .. c)
    BY <2>1, <2>2, FS_Injection
  <2> QED
    BY <2>3 DEF Surjection
<1> QED
  BY <1>1, <1>3, <1>4

\* Without(s, gone) holds what s holds beside gone, and repeats nothing s does not.
LEMMA WhatIsLeft ==
  ASSUME NEW S, NEW s \in Seq(S), NEW gone
  PROVE  /\ Without(s, gone) \in Seq(S)
         /\ ToSet(Without(s, gone)) = ToSet(s) \ gone
         /\ Len(Without(s, gone)) <= Len(s)
         /\ IsInjective(s) => IsInjective(Without(s, gone))
<1>. PICK n \in Nat : n = Len(s)
  BY LenProperties
<1>0. DOMAIN s = 1 .. n /\ \A j \in 1 .. n : s[j] \in S
  BY LenProperties
<1> DEFINE L == {i \in DOMAIN s : s[i] \notin gone}
           At(k) == CHOOSE i \in L : Rank(L, i) = k
           w == Without(s, gone)
<1>1. L \in SUBSET (1 .. n)
  BY <1>0
<1>2. L \in SUBSET Nat /\ IsFiniteSet(L) /\ Cardinality(L) <= n
  <2>1. IsFiniteSet(1 .. n) /\ Cardinality(1 .. n) = n
    BY FirstNumbers
  <2> QED
    BY <1>1, <2>1, FS_Subset
<1>3. PICK c \in Nat : c = Cardinality(L)
  BY <1>2, FS_CardinalityType
<1>4. w = [k \in 1 .. c |-> s[At(k)]]
  BY <1>3 DEF Without, Rank
<1>5. \A i \in L : i \in 1 .. n /\ s[i] \notin gone
  BY <1>0
<1>6. \A i \in 1 .. n : s[i] \notin gone => i \in L
  BY <1>0
<1> HIDE DEF L, w
<1>7. \A k \in 1 .. c : At(k) \in L /\ Rank(L, At(k)) = k
  BY <1>2, <1>3, RanksAreTaken
<1>8. \A i \in L : \E k \in 1 .. c : At(k) = i
  BY <1>2, <1>3, <1>7, RanksAreTaken
<1>9. \A k, l \in 1 .. c : At(k) = At(l) => k = l
  BY <1>7
<1> HIDE DEF At
<1>10. w \in [1 .. c -> S]
  BY <1>0, <1>4, <1>5, <1>7
<1>11. w \in Seq(S) /\ Len(w) = c /\ DOMAIN w = 1 .. c
  BY <1>10
<1>12. ToSet(w) = ToSet(s) \ gone
  <2>1. \A x \in ToSet(w) : x \in ToSet(s) /\ x \notin gone
    BY <1>0, <1>4, <1>5, <1>7, <1>11 DEF ToSet
  <2>2. ASSUME NEW x \in ToSet(s), x \notin gone PROVE x \in ToSet(w)
    <3>1. PICK i \in 1 .. n : s[i] = x
      BY <1>0 DEF ToSet
    <3>2. PICK k \in 1 .. c : At(k) = i
      BY <1>6, <1>8, <2>2, <3>1
    <3> QED
      BY <1>4, <1>11, <3>1, <3>2 DEF ToSet
  <2> QED
    BY <2>1, <2>2
<1>13. IsInjective(s) => IsInjective(w)
  <2> SUFFICES ASSUME IsInjective(s), NEW k \in 1 .. c, NEW l \in 1 .. c, w[k] = w[l]
               PROVE  k = l
    BY <1>11 DEF IsInjective
  <2>1. s[At(k)] = s[At(l)] /\ At(k) \in 1 .. n /\ At(l) \in 1 .. n
    BY <1>4, <1>5, <1>7
  <2>2. At(k) = At(l)
    BY <1>0, <2>1 DEF IsInjective
  <2> QED
    BY <1>9, <2>2
<1> QED
  BY <1>2, <1>3, <1>11, <1>12, <1>13 DEF w
-----------------------------------------------------------------------------
(* The invariant of the client.  It speaks of sets: which items wait in    *)
(* the queues (Q), which batches are kept to be sent again (K), and which  *)
(* are in the hands of a drain (H[d]).                                     *)

Batches   == [id : Nat \ {0}, items : Seq(Item)]
Inside(B) == UNION {ToSet(b.items) : b \in B}
Hand(w)   == ToSet(w.pending) \cup ({w.batch} \ {NoBatch})
Hands(dr) == [d \in Drain |-> Hand(dr[d])]
All(K, H) == K \cup UNION {H[d] : d \in Drain}

\* A batch is in one place, has its identifier for itself, and shares no item.
Placed(K, H) ==
  /\ K \in SUBSET Batches /\ H \in [Drain -> SUBSET Batches]
  /\ \A d \in Drain : K \cap H[d] = {} /\ \A x \in Drain \ {d} : H[d] \cap H[x] = {}
Apart(B) == \A b, c \in B : b # c => b.id # c.id /\ ToSet(b.items) \cap ToSet(c.items) = {}

\* What the client has not heard of the end of, it has, in a queue or in a batch.
Owned(f, Q, B) ==
  /\ f \in [Item -> Fates] /\ Q \subseteq Item
  /\ Q \cap Inside(B) = {}
  /\ \A i \in Item : f[i] = "held" <=> i \in Q \cup Inside(B)

\* The server has stored an event once if it has seen the event's batch or the client
\* was told so, and not at all if it is not in a batch yet.
Delivered(f, Q, B, sn, st) ==
  /\ st \in [Captured -> {0, 1}]
  /\ \A e \in Captured : f[e] = "accepted" => st[e] = 1
  /\ \A e \in Captured : f[e] = "new" \/ e \in Q => st[e] = 0
  /\ \A b \in B : \A e \in Captured \cap ToSet(b.items) : st[e] = 1 <=> b.id \in sn

Core(f, Q, K, H, sn, st) ==
  /\ Placed(K, H) /\ Apart(All(K, H))
  /\ Owned(f, Q, All(K, H)) /\ Delivered(f, Q, All(K, H), sn, st)

\* The lists behind these sets; a drain that does nothing has nothing.
DrainOK(w, d) ==
  /\ w \in [phase : {"idle", "retries", "entities", "events", "ending"},
            pending : Seq(Batches), batch : Batches \cup {NoBatch}, attempts : 0 .. MaxTries - 1]
  /\ Queue(w.pending, Batches) /\ w.batch \notin ToSet(w.pending)
  /\ w.phase \in {"idle", "ending"} => w.pending = <<>> /\ w.batch = NoBatch
  /\ w.phase = "ending" => d = Timer

ListsOK(evs, ents, rets) ==
  /\ Queue(evs, Captured) /\ Len(evs) <= MaxQueue
  /\ Queue(ents, Entity)
  /\ Queue(rets, Batches) /\ Len(rets) <= MaxRetryBatches

DrainsOK(dr) == DOMAIN dr = Drain /\ \A d \in Drain : DrainOK(dr[d], d)

Stands(f, evs, ents, rets, dr, sn, st) ==
  /\ ListsOK(evs, ents, rets) /\ DrainsOK(dr)
  /\ sn \subseteq {b.id : b \in All(ToSet(rets), Hands(dr))}
  /\ Core(f, ToSet(evs) \cup ToSet(ents), ToSet(rets), Hands(dr), sn, st)

ClientInv ==
  /\ Stands(fate, events, entities, retries, drain, seen, stored)
  /\ client \in {"running", "closing", "closed"}

-----------------------------------------------------------------------------
(* What the sets obey, whatever the lists.                                 *)

\* The items of a set of batches are those of its members.
LEMMA InsideFacts ==
  \A B : \A i : i \in Inside(B) <=> \E b \in B : i \in ToSet(b.items)
BY DEF Inside

\* The batches there are: those kept and those in hand.
LEMMA AllFacts ==
  \A K, H : \A b : b \in All(K, H) <=> b \in K \/ \E d \in Drain : b \in H[d]
BY DEF All

\* The batch of an idle drain is no batch.
LEMMA NoBatchIsNone == NoBatch \notin Batches
BY DEF NoBatch, Batches

\* A batch has an identifier and items of the client.
LEMMA BatchItems ==
  ASSUME NEW b \in Batches
  PROVE  b.id \in Nat \ {0} /\ ToSet(b.items) \subseteq Item
<1>1. b.items \in Seq(Item) /\ b.id \in Nat \ {0}
  BY DEF Batches
<1> QED
  BY <1>1, LenProperties, ElementOfSeq DEF ToSet

\* Only the places of batches change.
LEMMA BatchesMove ==
  ASSUME NEW f, NEW Q, NEW K, NEW H, NEW sn, NEW st, Core(f, Q, K, H, sn, st),
         NEW K1, NEW H1, Placed(K1, H1), All(K1, H1) = All(K, H)
  PROVE  Core(f, Q, K1, H1, sn, st)
BY DEF Core

\* A drain forms a batch of waiting items, under a new identifier.
LEMMA BatchIsFormed ==
  ASSUME NEW f, NEW Q, NEW K, NEW H, NEW sn, NEW st, Core(f, Q, K, H, sn, st),
         NEW d \in Drain, NEW n \in Batches, n.id \notin sn, ToSet(n.items) \subseteq Q,
         \A b \in All(K, H) : b.id # n.id
  PROVE  Core(f, Q \ ToSet(n.items), K, [H EXCEPT ![d] = @ \cup {n}], sn, st)
<1> DEFINE Q1 == Q \ ToSet(n.items)
           H1 == [H EXCEPT ![d] = @ \cup {n}]
           A  == All(K, H)
           A1 == All(K, H1)
<1>1. Placed(K, H) /\ Apart(A) /\ Owned(f, Q, A) /\ Delivered(f, Q, A, sn, st)
  BY DEF Core
<1>2. /\ H \in [Drain -> SUBSET Batches] /\ H1[d] = H[d] \cup {n}
      /\ \A x \in Drain \ {d} : H1[x] = H[x]
  BY <1>1 DEF Placed
<1>3. \A b : b \in A1 <=> b \in A \/ b = n
  <2> HIDE DEF H1
  <2>1. \A b : (\E x \in Drain : b \in H1[x]) <=> (\E x \in Drain : b \in H[x]) \/ b = n
    BY <1>2
  <2> QED
    BY <2>1, AllFacts
<1>4. n \notin A
  OBVIOUS
<1>5. Placed(K, H1)
  <2>1. H1 \in [Drain -> SUBSET Batches]
    BY <1>2
  <2>2. \A x \in Drain : n \notin H[x]
    BY <1>4, AllFacts
  <2>3. n \notin K
    BY <1>4, AllFacts
  <2> HIDE DEF H1
  <2> QED
    BY <1>1, <1>2, <2>1, <2>2, <2>3 DEF Placed
<1>6. \A i : i \in Inside(A1) <=> i \in Inside(A) \/ i \in ToSet(n.items)
  BY <1>3, InsideFacts
<1> HIDE DEF A, A1, H1
<1>7. \A b \in A : ToSet(b.items) \cap ToSet(n.items) = {} /\ b.id # n.id
  BY <1>1, InsideFacts DEF Owned, A
<1>8. Apart(A1)
  BY <1>1, <1>3, <1>7 DEF Apart
<1>9. Owned(f, Q1, A1)
  BY <1>1, <1>6 DEF Owned
<1>10. Delivered(f, Q1, A1, sn, st)
  <2>1. \A e \in Captured \cap ToSet(n.items) : st[e] = 1 <=> n.id \in sn
    BY <1>1 DEF Delivered
  <2>2. \A b \in A1 : \A e \in Captured \cap ToSet(b.items) : st[e] = 1 <=> b.id \in sn
    BY <1>1, <1>3, <2>1 DEF Delivered
  <2> QED
    BY <1>1, <2>2 DEF Delivered
<1> QED
  BY <1>5, <1>8, <1>9, <1>10 DEF Core, A1, H1

\* The server forgets identifiers nobody uses any more.
LEMMA ServerForgets ==
  ASSUME NEW f, NEW Q, NEW K, NEW H, NEW sn, NEW st, Core(f, Q, K, H, sn, st),
         NEW sn1, \A b \in All(K, H) : b.id \in sn1 <=> b.id \in sn
  PROVE  Core(f, Q, K, H, sn1, st)
BY DEF Core, Delivered

\* The server stores a batch, unless it has seen it.
LEMMA ServerStores ==
  ASSUME NEW f, NEW Q, NEW K, NEW H, NEW sn, NEW st, Core(f, Q, K, H, sn, st),
         NEW b \in All(K, H), NEW st1,
         st1 = [e \in Captured |->
                  IF e \in ToSet(b.items) /\ b.id \notin sn THEN st[e] + 1 ELSE st[e]]
  PROVE  /\ Core(f, Q, K, H, sn \cup {b.id}, st1)
         /\ \A e \in Captured \cap ToSet(b.items) : st1[e] = 1
<1> DEFINE A == All(K, H)
<1>1. Placed(K, H) /\ Apart(A) /\ Owned(f, Q, A) /\ Delivered(f, Q, A, sn, st)
  BY DEF Core
<1> HIDE DEF A
<1>2. b \in A
  BY DEF A
<1>3. \A e \in Captured \cap ToSet(b.items) :
        e \notin Q /\ e \in Item /\ f[e] = "held" /\ (st[e] = 1 <=> b.id \in sn) /\ st[e] \in {0, 1}
  BY <1>1, <1>2, InsideFacts DEF Owned, Delivered, Item
<1>4. \A e \in Captured \cap ToSet(b.items) : st1[e] = 1
  <2> SUFFICES ASSUME NEW e \in Captured \cap ToSet(b.items) PROVE st1[e] = 1
    OBVIOUS
  <2>1. CASE b.id \in sn
    BY <1>3, <2>1
  <2>2. CASE b.id \notin sn
    <3>1. st[e] = 0
      BY <1>3, <2>2
    <3> QED
      BY <2>2, <3>1
  <2> QED
    BY <2>1, <2>2
<1>5. \A e \in Captured : e \notin ToSet(b.items) => st1[e] = st[e]
  OBVIOUS
<1>6. st1 \in [Captured -> {0, 1}]
  <2>1. \A e \in Captured : st1[e] \in {0, 1}
    BY <1>1, <1>4, <1>5 DEF Delivered
  <2> QED
    BY <2>1
<1>7. ASSUME NEW c \in A, NEW e \in Captured \cap ToSet(c.items)
      PROVE  st1[e] = 1 <=> c.id \in sn \cup {b.id}
  <2>1. CASE c = b
    BY <1>4, <1>7, <2>1
  <2>2. CASE c # b
    <3>1. c.id # b.id /\ e \notin ToSet(b.items)
      BY <1>1, <1>2, <1>7, <2>2 DEF Apart
    <3> QED
      BY <1>1, <1>5, <1>7, <3>1 DEF Delivered
  <2> QED
    BY <2>1, <2>2
<1>8. \A e \in Captured : f[e] = "accepted" => st1[e] = 1
  BY <1>1, <1>4, <1>5 DEF Delivered
<1>9. \A e \in Captured : f[e] = "new" \/ e \in Q => st1[e] = 0
  BY <1>1, <1>3, <1>5 DEF Delivered
<1>10. Delivered(f, Q, A, sn \cup {b.id}, st1)
  BY <1>6, <1>7, <1>8, <1>9 DEF Delivered
<1> QED
  BY <1>1, <1>4, <1>10 DEF Core, A

\* The batches of D disappear, and what becomes of their items is known.
Ending(K, H, K1, H1, D) ==
  Placed(K1, H1) /\ D \subseteq All(K, H) /\ All(K1, H1) = All(K, H) \ D
Fated(f, D, v) == [i \in Item |-> IF i \in Inside(D) THEN v ELSE f[i]]

\* The core is kept when batches end: accepted ones, stored by then, or given up.
LEMMA BatchesEnd ==
  ASSUME NEW f, NEW Q, NEW K, NEW H, NEW sn, NEW st, Core(f, Q, K, H, sn, st),
         NEW K1, NEW H1, NEW D, Ending(K, H, K1, H1, D),
         NEW v \in {"accepted", "given_up"},
         v = "accepted" => \A e \in Captured \cap Inside(D) : st[e] = 1
  PROVE  Core(Fated(f, D, v), Q, K1, H1, sn, st)
<1> DEFINE A  == All(K, H)
           A1 == All(K1, H1)
           f1 == Fated(f, D, v)
<1>0. Placed(K1, H1) /\ A1 = A \ D /\ D \subseteq A
  BY DEF Ending
<1>1. Apart(A) /\ Owned(f, Q, A) /\ Delivered(f, Q, A, sn, st)
  BY DEF Core
<1>2. \A b : b \in A1 <=> b \in A /\ b \notin D
  BY <1>0
<1>3. D \subseteq A /\ f1 = [i \in Item |-> IF i \in Inside(D) THEN v ELSE f[i]]
  BY <1>0 DEF Fated
<1> HIDE DEF A, A1, f1
<1>4. \A i : i \in Inside(A) <=> i \in Inside(A1) \/ i \in Inside(D)
  BY <1>2, <1>3, InsideFacts
<1>5. \A i \in Inside(D) : i \notin Inside(A1)
  <2> SUFFICES ASSUME NEW i, i \in Inside(D), i \in Inside(A1) PROVE FALSE
    OBVIOUS
  <2>1. PICK b \in D : i \in ToSet(b.items)
    BY InsideFacts
  <2>2. PICK c \in A1 : i \in ToSet(c.items)
    BY InsideFacts
  <2>3. b \in A /\ c \in A /\ b # c
    BY <1>2, <1>3
  <2> QED
    BY <1>1, <2>1, <2>2, <2>3 DEF Apart
<1>6. Apart(A1)
  BY <1>1, <1>2 DEF Apart
<1>7. f1 \in [Item -> Fates]
  <2>1. \A i \in Item : f1[i] \in Fates
    BY <1>1, <1>3 DEF Owned, Fates
  <2> QED
    BY <1>3, <2>1
<1>8. \A i \in Item : f1[i] = "held" <=> i \in Q \cup Inside(A1)
  <2> SUFFICES ASSUME NEW i \in Item PROVE f1[i] = "held" <=> i \in Q \cup Inside(A1)
    OBVIOUS
  <2>1. CASE i \in Inside(D)
    <3>1. i \notin Q
      BY <1>1, <1>4, <2>1 DEF Owned
    <3> QED
      BY <1>3, <1>5, <2>1, <3>1
  <2>2. CASE i \notin Inside(D)
    BY <1>1, <1>3, <1>4, <2>2 DEF Owned
  <2> QED
    BY <2>1, <2>2
<1>9. Owned(f1, Q, A1)
  BY <1>1, <1>4, <1>7, <1>8 DEF Owned
<1>10. Delivered(f1, Q, A1, sn, st)
  <2>1. \A e \in Captured : f1[e] = "accepted" => st[e] = 1
    BY <1>1, <1>3 DEF Delivered, Item
  <2>2. \A e \in Captured : f1[e] = "new" \/ e \in Q => st[e] = 0
    BY <1>1, <1>3 DEF Delivered, Item
  <2> QED
    BY <1>1, <1>2, <2>1, <2>2 DEF Delivered
<1> QED
  BY <1>0, <1>6, <1>9, <1>10 DEF Core, A1, f1

\* A new item is put into its queue, from which the oldest may have to give way.
LEMMA ItemEnters ==
  ASSUME NEW f, NEW Q, NEW K, NEW H, NEW sn, NEW st, Core(f, Q, K, H, sn, st),
         NEW i \in Item, f[i] = "new", NEW Q1, Q1 \subseteq Q \cup {i},
         NEW f1, f1 \in [Item -> Fates],
         \A j \in Item : f1[j] = IF j \in Q1 THEN "held"
                                 ELSE IF j \in Q \cup {i} THEN "given_up" ELSE f[j]
  PROVE  Core(f1, Q1, K, H, sn, st)
<1> DEFINE A == All(K, H)
<1>1. Placed(K, H) /\ Apart(A) /\ Owned(f, Q, A) /\ Delivered(f, Q, A, sn, st)
  BY DEF Core
<1> HIDE DEF A
<1>2. i \notin Q /\ i \notin Inside(A)
  BY <1>1 DEF Owned
<1>3. Owned(f1, Q1, A)
  BY <1>1, <1>2 DEF Owned
<1>4. Delivered(f1, Q1, A, sn, st)
  <2>1. i \in Captured => st[i] = 0
    BY <1>1 DEF Delivered
  <2>2. \A e \in Captured : f1[e] = "accepted" => st[e] = 1
    BY <1>1 DEF Delivered, Item
  <2>3. \A e \in Captured : f1[e] = "new" \/ e \in Q1 => st[e] = 0
    <3> SUFFICES ASSUME NEW e \in Captured, f1[e] = "new" \/ e \in Q1 PROVE st[e] = 0
      OBVIOUS
    <3>1. e \in Item
      BY DEF Item
    <3>2. e \in Q1 => e \in Q \/ e = i
      OBVIOUS
    <3>3. f1[e] = "new" => f[e] = "new" \/ e \in Q1
      BY <3>1
    <3> QED
      BY <1>1, <2>1, <3>2, <3>3 DEF Delivered
  <2> QED
    BY <1>1, <2>2, <2>3 DEF Delivered
<1> QED
  BY <1>1, <1>3, <1>4 DEF Core, A

\* Of each batch of K the items outside X are left in K1, under its identifier; a batch
\* of which nothing is left goes.
Thinned(K, K1, X) ==
  /\ K1 \in SUBSET Batches
  /\ \A c \in K1 : \E b \in K : c.id = b.id /\ ToSet(c.items) = ToSet(b.items) \ X
  /\ \A b \in K : \/ ToSet(b.items) \subseteq X
                  \/ \E c \in K1 : c.id = b.id /\ ToSet(c.items) = ToSet(b.items) \ X
  /\ \A c, b \in K1 : c.id = b.id => c = b

\* Items are discarded from the queues and from the batches that are kept.
LEMMA ItemsDiscarded ==
  ASSUME NEW f, NEW Q, NEW K, NEW H, NEW sn, NEW st, Core(f, Q, K, H, sn, st),
         NEW X, NEW K1, Thinned(K, K1, X),
         NEW f1, f1 = [i \in Item |-> IF i \in X \cap (Q \cup Inside(K)) THEN "given_up" ELSE f[i]]
  PROVE  Core(f1, Q \ X, K1, H, sn, st)
<1> DEFINE A  == All(K, H)
           A1 == All(K1, H)
           held == UNION {H[d] : d \in Drain}
<1>0. /\ K1 \in SUBSET Batches
      /\ \A c \in K1 : \E b \in K : c.id = b.id /\ ToSet(c.items) = ToSet(b.items) \ X
      /\ \A b \in K : \/ ToSet(b.items) \subseteq X
                      \/ \E c \in K1 : c.id = b.id /\ ToSet(c.items) = ToSet(b.items) \ X
      /\ \A c, b \in K1 : c.id = b.id => c = b
  BY DEF Thinned
<1>1. Placed(K, H) /\ Apart(A) /\ Owned(f, Q, A) /\ Delivered(f, Q, A, sn, st)
  BY DEF Core
<1>2. /\ \A b : b \in A <=> b \in K \/ b \in held
      /\ \A b : b \in A1 <=> b \in K1 \/ b \in held
  BY DEF All
<1>3. \A b \in K : b \notin held
  BY <1>1 DEF Placed
<1> HIDE DEF A, A1, held
\* Every batch comes from one that was there.
<1>4. \A c \in A1 : \E b \in A : /\ c.id = b.id /\ ToSet(c.items) \subseteq ToSet(b.items)
                                 /\ (c \in K1 => b \in K) /\ (c \notin K1 => b = c)
  <2> SUFFICES ASSUME NEW c \in A1
               PROVE  \E b \in A : /\ c.id = b.id /\ ToSet(c.items) \subseteq ToSet(b.items)
                                   /\ (c \in K1 => b \in K) /\ (c \notin K1 => b = c)
    OBVIOUS
  <2>1. CASE c \in K1
    <3>1. PICK b \in K : c.id = b.id /\ ToSet(c.items) = ToSet(b.items) \ X
      BY <1>0, <2>1
    <3> QED
      BY <1>2, <2>1, <3>1
  <2>2. CASE c \notin K1
    BY <1>2, <2>2
  <2> QED
    BY <2>1, <2>2
<1>5. \A c \in K1 : c \notin held
  <2> SUFFICES ASSUME NEW c \in K1, c \in held PROVE FALSE
    OBVIOUS
  <2>1. PICK b \in K : c.id = b.id
    BY <1>0
  <2>2. c \in A /\ b \in A /\ b # c
    BY <1>2, <1>3
  <2> QED
    BY <1>1, <2>1, <2>2 DEF Apart
<1>6. Placed(K1, H)
  <2>1. \A d \in Drain : K1 \cap H[d] = {}
    BY <1>5 DEF held
  <2> QED
    BY <1>0, <1>1, <2>1 DEF Placed
<1>7. Apart(A1)
  <2> SUFFICES ASSUME NEW b \in A1, NEW c \in A1, b # c
               PROVE  b.id # c.id /\ ToSet(b.items) \cap ToSet(c.items) = {}
    BY DEF Apart
  <2>1. PICK p \in A : /\ b.id = p.id /\ ToSet(b.items) \subseteq ToSet(p.items)
                       /\ (b \in K1 => p \in K) /\ (b \notin K1 => p = b)
    BY <1>4
  <2>2. PICK q \in A : /\ c.id = q.id /\ ToSet(c.items) \subseteq ToSet(q.items)
                       /\ (c \in K1 => q \in K) /\ (c \notin K1 => q = c)
    BY <1>4
  <2>3. p # q
    <3>1. CASE b \in K1 /\ c \in K1
      BY <1>0, <2>1, <2>2, <3>1
    <3>2. CASE b \notin K1 /\ c \notin K1
      BY <2>1, <2>2, <3>2
    <3>3. CASE b \in K1 /\ c \notin K1
      BY <1>2, <1>3, <2>1, <2>2, <3>3
    <3>4. CASE b \notin K1 /\ c \in K1
      BY <1>2, <1>3, <2>1, <2>2, <3>4
    <3> QED
      BY <3>1, <3>2, <3>3, <3>4
  <2> QED
    BY <1>1, <2>1, <2>2, <2>3 DEF Apart
<1>8. \A i : i \in Inside(K1) <=> i \in Inside(K) /\ i \notin X
  <2>1. \A i : i \in Inside(K1) => i \in Inside(K) /\ i \notin X
    BY <1>0, InsideFacts
  <2>2. ASSUME NEW i, i \in Inside(K), i \notin X PROVE i \in Inside(K1)
    <3>1. PICK b \in K : i \in ToSet(b.items)
      BY <2>2, InsideFacts
    <3>2. PICK c \in K1 : c.id = b.id /\ ToSet(c.items) = ToSet(b.items) \ X
      BY <1>0, <2>2, <3>1
    <3> QED
      BY <2>2, <3>1, <3>2, InsideFacts
  <2> QED
    BY <2>1, <2>2
<1>9. /\ \A i : i \in Inside(A) <=> i \in Inside(K) \/ i \in Inside(held)
      /\ \A i : i \in Inside(A1) <=> i \in Inside(K1) \/ i \in Inside(held)
  BY <1>2, InsideFacts
<1>10. \A i \in Inside(K) : i \notin Inside(held)
  <2> SUFFICES ASSUME NEW i, i \in Inside(K), i \in Inside(held) PROVE FALSE
    OBVIOUS
  <2>1. PICK b \in K : i \in ToSet(b.items)
    BY InsideFacts
  <2>2. PICK c \in held : i \in ToSet(c.items)
    BY InsideFacts
  <2>3. b \in A /\ c \in A /\ b # c
    BY <1>2, <1>3
  <2> QED
    BY <1>1, <2>1, <2>2, <2>3 DEF Apart
<1>11. Owned(f1, Q \ X, A1)
  <2>1. f1 \in [Item -> Fates]
    <3>1. \A i \in Item : f1[i] \in Fates
      BY <1>1 DEF Owned, Fates
    <3> QED
      BY <3>1
  <2>2. ASSUME NEW i \in Item PROVE f1[i] = "held" <=> i \in (Q \ X) \cup Inside(A1)
    <3>1. f[i] = "held" <=> i \in Q \/ i \in Inside(A)
      BY <1>1 DEF Owned
    <3>2. i \in Q => i \notin Inside(A)
      BY <1>1 DEF Owned
    <3>3. CASE i \in X \cap (Q \cup Inside(K))
      BY <1>8, <1>9, <1>10, <3>2, <3>3
    <3>4. CASE i \notin X \cap (Q \cup Inside(K))
      BY <1>8, <1>9, <3>1, <3>4
    <3> QED
      BY <3>3, <3>4
  <2>3. (Q \ X) \cap Inside(A1) = {} /\ Q \ X \subseteq Item
    BY <1>1, <1>8, <1>9 DEF Owned
  <2> QED
    BY <2>1, <2>2, <2>3 DEF Owned
<1>12. Delivered(f1, Q \ X, A1, sn, st)
  <2>1. \A e \in Captured : f1[e] = "accepted" => st[e] = 1
    BY <1>1 DEF Delivered, Item
  <2>2. \A e \in Captured : f1[e] = "new" \/ e \in Q \ X => st[e] = 0
    BY <1>1 DEF Delivered, Item
  <2>3. ASSUME NEW c \in A1, NEW e \in Captured \cap ToSet(c.items) PROVE st[e] = 1 <=> c.id \in sn
    <3>1. PICK b \in A : c.id = b.id /\ ToSet(c.items) \subseteq ToSet(b.items)
      BY <1>4
    <3>2. e \in Captured \cap ToSet(b.items)
      BY <3>1
    <3> QED
      BY <1>1, <3>1, <3>2 DEF Delivered
  <2> QED
    BY <1>1, <2>1, <2>2, <2>3 DEF Delivered
<1> QED
  BY <1>6, <1>7, <1>11, <1>12 DEF Core, A1

-----------------------------------------------------------------------------
(* Identifiers.                                                            *)

IdsOf(rets, dr) ==
  {b.id : b \in ToSet(rets)}
  \cup UNION {{b.id : b \in ToSet(dr[d].pending) \cup {dr[d].batch}} : d \in Drain}

\* Alive speaks of the lists and the drains only.
LEMMA AliveIds == Alive = IdsOf(retries, drain)
BY DEF Alive, IdsOf

\* They are those of the batches there are, and that of no batch.
LEMMA IdsFacts ==
  ASSUME NEW rets, NEW dr
  PROVE  /\ \A b \in All(ToSet(rets), Hands(dr)) : b.id \in IdsOf(rets, dr)
         /\ \A x \in IdsOf(rets, dr) :
              x = 0 \/ \E b \in All(ToSet(rets), Hands(dr)) : b.id = x
<1> DEFINE B == All(ToSet(rets), Hands(dr))
<1>1. \A b : b \in B <=> b \in ToSet(rets) \/ \E d \in Drain : b \in Hand(dr[d])
  BY AllFacts DEF Hands
<1>2. \A d \in Drain : \A b : b \in Hand(dr[d]) <=>
         b \in ToSet(dr[d].pending) \/ (b = dr[d].batch /\ b # NoBatch)
  BY DEF Hand
<1>3. \A x : x \in IdsOf(rets, dr) <=>
         \/ \E b \in ToSet(rets) : b.id = x
         \/ \E d \in Drain : \E b \in ToSet(dr[d].pending) \cup {dr[d].batch} : b.id = x
  BY DEF IdsOf
<1>4. NoBatch.id = 0
  BY DEF NoBatch
<1> HIDE DEF B
<1>5. \A b \in B : b.id \in IdsOf(rets, dr)
  BY <1>1, <1>2, <1>3
<1>6. ASSUME NEW x \in IdsOf(rets, dr), x # 0 PROVE \E b \in B : b.id = x
  <2>1. CASE \E b \in ToSet(rets) : b.id = x
    BY <1>1, <2>1
  <2>2. CASE \E d \in Drain : \E b \in ToSet(dr[d].pending) \cup {dr[d].batch} : b.id = x
    <3>. PICK d \in Drain : \E b \in ToSet(dr[d].pending) \cup {dr[d].batch} : b.id = x
      BY <2>2
    <3>1. PICK b \in ToSet(dr[d].pending) \cup {dr[d].batch} : b.id = x
      OBVIOUS
    <3>2. b # NoBatch
      BY <1>4, <1>6, <3>1
    <3> QED
      BY <1>1, <1>2, <3>1, <3>2
  <2> QED
    BY <1>3, <2>1, <2>2
<1> QED
  BY <1>5, <1>6 DEF B

\* A list of batches has finitely many identifiers,
LEMMA IdsOfList ==
  ASSUME NEW s \in Seq(Batches)
  PROVE  IsFiniteSet({b.id : b \in ToSet(s)})
<1>. PICK n \in Nat : n = Len(s)
  BY LenProperties
<1> DEFINE f == [k \in 1 .. n |-> s[k].id]
           T == {b.id : b \in ToSet(s)}
<1>1. DOMAIN s = 1 .. n
  BY LenProperties
<1>2. \A k \in 1 .. n : s[k].id \in T
  BY <1>1 DEF ToSet
<1>3. \A x \in T : \E k \in 1 .. n : s[k].id = x
  BY <1>1 DEF ToSet
<1> HIDE DEF T
<1>4. f \in Surjection(1 .. n, T)
  BY <1>2, <1>3 DEF Surjection
<1>5. IsFiniteSet(T)
  BY <1>4, FirstNumbers, FS_Surjection
<1> QED
  BY <1>5 DEF T

\* and so have all of them, whatever number of drains there is.
LEMMA IdsAreFinite ==
  ASSUME NEW rets, Queue(rets, Batches), NEW dr, DrainsOK(dr)
  PROVE  IsFiniteSet(IdsOf(rets, dr))
<1> DEFINE G(d) == {b.id : b \in ToSet(dr[d].pending) \cup {dr[d].batch}}
           T == {G(d) : d \in Drain}
           f == [d \in Drain |-> G(d)]
<1>1. ASSUME NEW d \in Drain PROVE IsFiniteSet(G(d))
  <2>1. IsFiniteSet({b.id : b \in ToSet(dr[d].pending)})
    BY IdsOfList DEF DrainsOK, DrainOK, Queue
  <2>2. G(d) = {b.id : b \in ToSet(dr[d].pending)} \cup {dr[d].batch.id}
    OBVIOUS
  <2> QED
    BY <2>1, <2>2, FS_AddElement
<1>2. f \in Surjection(Drain, T)
  <2> HIDE DEF G
  <2>1. \A d \in Drain : G(d) \in T
    OBVIOUS
  <2>2. \A x \in T : \E d \in Drain : G(d) = x
    OBVIOUS
  <2> HIDE DEF T
  <2> QED
    BY <2>1, <2>2 DEF Surjection
<1>3. IsFiniteSet(T)
  <2> HIDE DEF f, T
  <2> QED
    BY <1>2, SdkAssumption, FS_Surjection
<1>4. \A x \in T : IsFiniteSet(x)
  BY <1>1
<1>5. IsFiniteSet(UNION T)
  BY <1>3, <1>4, FS_UNION
<1>6. IsFiniteSet({b.id : b \in ToSet(rets)})
  BY IdsOfList DEF Queue
<1> QED
  BY <1>5, <1>6, FS_Union DEF IdsOf

\* There is an identifier for a new batch, and no batch that is still alive has it.
LEMMA FreshIsNew ==
  ASSUME ListsOK(events, entities, retries), DrainsOK(drain)
  PROVE  Fresh \in Nat \ {0} /\ Fresh \notin Alive
<1>1. IsFiniteSet(Alive)
  BY AliveIds, IdsAreFinite DEF ListsOK
<1>. PICK c \in Nat : c = Cardinality(Alive)
  BY <1>1, FS_CardinalityType
<1>2. \E id \in 1 .. c + 1 : id \notin Alive
  <2> SUFFICES ASSUME 1 .. c + 1 \in SUBSET Alive PROVE FALSE
    OBVIOUS
  <2>1. Cardinality(1 .. c + 1) = c + 1
    BY FirstNumbers
  <2>2. Cardinality(1 .. c + 1) <= c
    BY <1>1, FS_Subset
  <2> QED
    BY <2>1, <2>2
<1>3. Fresh \in 1 .. c + 1 /\ Fresh \notin Alive
  BY <1>2 DEF Fresh
<1> QED
  BY <1>3

-----------------------------------------------------------------------------
(* A drain goes on.                                                        *)

\* Events and entity updates are different items.
LEMMA ItemsOfQueues ==
  ASSUME NEW evs, NEW ents, NEW rets, ListsOK(evs, ents, rets)
  PROVE  /\ ToSet(evs) \subseteq Captured /\ ToSet(ents) \subseteq Entity
         /\ Captured \cap Entity = {} /\ Captured \subseteq Item /\ Entity \subseteq Item
<1>1. ToSet(evs) \subseteq Captured /\ ToSet(ents) \subseteq Entity
  BY QueueFacts DEF ListsOK
<1>2. Captured \cap Entity = {}
  BY SdkAssumption DEF Captured, Entity
<1> QED
  BY <1>1, <1>2 DEF Item

\* What a drain has in hand after a step is what the step leaves it.
LEMMA HandsAfter ==
  ASSUME DOMAIN drain = Drain, NEW d \in Drain, NEW w, drain' = [drain EXCEPT ![d] = w]
  PROVE  Hands(drain') = [Hands(drain) EXCEPT ![d] = Hand(w)]
BY DEF Hands

\* After a step of drain d: the lists are fine, what d has is fine, the core is kept.
LEMMA DrainGoesOn ==
  ASSUME DrainsOK(drain), NEW d \in Drain, NEW w, DrainOK(w, d),
         drain' = [drain EXCEPT ![d] = w], ListsOK(events', entities', retries'),
         NEW known, 0 \notin known, seen' = known \cap Alive', NEW f, NEW st,
         Core(f, ToSet(events') \cup ToSet(entities'), ToSet(retries'),
              [Hands(drain) EXCEPT ![d] = Hand(w)], known, st)
  PROVE  Stands(f, events', entities', retries', drain', seen', st)
<1>1. Hands(drain') = [Hands(drain) EXCEPT ![d] = Hand(w)]
  BY HandsAfter DEF DrainsOK
<1>2. DrainsOK(drain')
  BY DEF DrainsOK
<1>3. Alive' = IdsOf(retries', drain')
  BY DEF Alive, IdsOf
<1> DEFINE A == All(ToSet(retries'), Hands(drain'))
<1>4. /\ \A b \in A : b.id \in Alive'
      /\ \A x \in Alive' : x = 0 \/ \E b \in A : b.id = x
  <2>1. /\ \A b \in A : b.id \in IdsOf(retries', drain')
        /\ \A x \in IdsOf(retries', drain') : x = 0 \/ \E b \in A : b.id = x
    BY IdsFacts
  <2> HIDE DEF A
  <2> QED
    BY <1>3, <2>1
<1>5. seen' \subseteq {b.id : b \in A}
  <2> HIDE DEF A
  <2> SUFFICES ASSUME NEW x \in seen' PROVE \E b \in A : b.id = x
    OBVIOUS
  <2> QED
    BY <1>4
<1>6. \A b \in A : b.id \in seen' <=> b.id \in known
  BY <1>4
<1>7. Core(f, ToSet(events') \cup ToSet(entities'), ToSet(retries'), Hands(drain'), known, st)
  BY <1>1
<1>8. Core(f, ToSet(events') \cup ToSet(entities'), ToSet(retries'), Hands(drain'), seen', st)
  BY <1>6, <1>7, ServerForgets
<1> QED
  BY <1>2, <1>5, <1>8 DEF Stands

\* The first items of a queue, under a new identifier.
LEMMA BatchOf ==
  ASSUME NEW S \in SUBSET Item, NEW s, Queue(s, S), NEW c \in Nat \ {0}, NEW id \in Nat \ {0}
  PROVE  /\ [id |-> id, items |-> First(s, c)] \in Batches
         /\ Queue(Rest(s, c), S) /\ Len(Rest(s, c)) <= Len(s)
         /\ ToSet(First(s, c)) \subseteq ToSet(s)
         /\ ToSet(Rest(s, c)) = ToSet(s) \ ToSet(First(s, c))
<1>1. /\ Queue(First(s, c), S) /\ Queue(Rest(s, c), S)
      /\ ToSet(First(s, c)) \cup ToSet(Rest(s, c)) = ToSet(s)
      /\ ToSet(First(s, c)) \cap ToSet(Rest(s, c)) = {}
      /\ Len(Rest(s, c)) <= Len(s)
  BY QueueSplit
<1>2. First(s, c) \in Seq(Item)
  BY <1>1, SeqMonotonic DEF Queue
<1> QED
  BY <1>1, <1>2 DEF Batches

\* A request takes one item at least.
LEMMA CapIsPositive == ASSUME NEW d \in Drain PROVE Cap(d) \in Nat \ {0}
BY SdkAssumption DEF Cap

\* What a drain works on after a step: nothing, or a batch and those it still has.
LEMMA WorkIsOK ==
  ASSUME NEW d \in Drain, NEW phase \in {"retries", "entities", "events"},
         NEW pending, Queue(pending, Batches), NEW b \in Batches, b \notin ToSet(pending),
         NEW w, w = [phase |-> phase, pending |-> pending, batch |-> b, attempts |-> 0]
  PROVE  DrainOK(w, d) /\ Hand(w) = ToSet(pending) \cup {b}
<1>1. b # NoBatch
  BY NoBatchIsNone
<1>2. 0 \in 0 .. MaxTries - 1
  BY SdkAssumption
<1>3. pending \in Seq(Batches)
  BY DEF Queue
<1> QED
  BY <1>1, <1>2, <1>3 DEF DrainOK, Hand

\* A drain that is idle or ending has nothing in hand.
LEMMA RestIsOK ==
  ASSUME NEW d \in Drain, NEW phase \in {"idle", "ending"}, phase = "ending" => d = Timer,
         NEW w, w = [phase |-> phase, pending |-> <<>>, batch |-> NoBatch, attempts |-> 0]
  PROVE  DrainOK(w, d) /\ Hand(w) = {}
<1>1. 0 \in 0 .. MaxTries - 1
  BY SdkAssumption
<1>2. Queue(<<>>, Batches) /\ ToSet(<<>>) = {} /\ <<>> \in Seq(Batches)
  BY EmptyQueue DEF Queue
<1> QED
  BY <1>1, <1>2 DEF DrainOK, Hand

\* Taking the next batch, from the retries, the entities or the events, keeps the core.
LEMMA ProceedKeeps ==
  ASSUME ListsOK(events, entities, retries), DrainsOK(drain),
         NEW d \in Drain, NEW phase \in {"retries", "entities", "events"},
         NEW pending, Queue(pending, Batches),
         NEW evs, NEW ents, NEW rets, ListsOK(evs, ents, rets),
         NEW known, 0 \notin known, known \subseteq Alive, NEW f, NEW st,
         NEW H, H = [Hands(drain) EXCEPT ![d] = ToSet(pending)],
         \A b \in All(ToSet(rets), H) : b.id \in Alive,
         Core(f, ToSet(evs) \cup ToSet(ents), ToSet(rets), H, known, st),
         Proceed(d, phase, pending, evs, ents, rets, known)
  PROVE  Stands(f, events', entities', retries', drain', seen', st)
<1>1. retries' = rets /\ seen' = known \cap Alive'
  BY DEF Proceed
<1>2. /\ ToSet(evs) \subseteq Captured /\ ToSet(ents) \subseteq Entity
      /\ Captured \cap Entity = {} /\ Captured \subseteq Item /\ Entity \subseteq Item
  BY ItemsOfQueues
<1>3. /\ Queue(evs, Captured) /\ Len(evs) <= MaxQueue /\ Queue(ents, Entity)
      /\ Queue(rets, Batches) /\ Len(rets) <= MaxRetryBatches
  BY DEF ListsOK
<1>4. Fresh \in Nat \ {0} /\ Fresh \notin Alive
  BY FreshIsNew
<1>5. ToSet(<<>>) = {} /\ Queue(<<>>, Batches)
  BY EmptyQueue
<1>6. Hands(drain) \in [Drain -> {Hands(drain)[x] : x \in Drain}]
  BY DEF Hands
<1>7. CASE pending # <<>>
  <2> DEFINE w == [phase |-> "retries", pending |-> Tail(pending), batch |-> pending[1],
                   attempts |-> 0]
  <2>1. drain' = [drain EXCEPT ![d] = w] /\ events' = evs /\ entities' = ents
    BY <1>7 DEF Proceed
  <2>2. /\ pending[1] \in Batches /\ Queue(Tail(pending), Batches)
        /\ ToSet(pending) = ToSet(Tail(pending)) \cup {pending[1]}
        /\ pending[1] \notin ToSet(Tail(pending))
    BY <1>7, QueueHead
  <2> HIDE DEF w
  <2>3. DrainOK(w, d) /\ Hand(w) = ToSet(Tail(pending)) \cup {pending[1]}
    <3> DEFINE rest == Tail(pending)
               b == pending[1]
    <3>1. Queue(rest, Batches) /\ b \in Batches /\ b \notin ToSet(rest)
      BY <2>2
    <3>2. w = [phase |-> "retries", pending |-> rest, batch |-> b, attempts |-> 0]
      BY DEF w
    <3> HIDE DEF rest, b
    <3>3. DrainOK(w, d) /\ Hand(w) = ToSet(rest) \cup {b}
      BY <3>1, <3>2, WorkIsOK
    <3> QED
      BY <3>3 DEF rest, b
  <2> QED
    BY <1>1, <2>1, <2>2, <2>3, DrainGoesOn
<1>8. ASSUME pending = <<>>, NEW n \in Batches, n.id = Fresh, NEW p \in {"entities", "events"},
             drain' = [drain EXCEPT ![d] =
                         [phase |-> p, pending |-> <<>>, batch |-> n, attempts |-> 0]],
             ToSet(n.items) \subseteq ToSet(evs) \cup ToSet(ents),
             ToSet(events') \cup ToSet(entities') = (ToSet(evs) \cup ToSet(ents)) \ ToSet(n.items),
             ListsOK(events', entities', retries')
      PROVE  Stands(f, events', entities', retries', drain', seen', st)
  <2> DEFINE w == [phase |-> p, pending |-> <<>>, batch |-> n, attempts |-> 0]
  <2>1. n \notin ToSet(<<>>)
    BY <1>5
  <2>2. DrainOK(w, d) /\ Hand(w) = {n}
    <3>1. DrainOK(w, d) /\ Hand(w) = ToSet(<<>>) \cup {n}
      BY <1>5, <2>1, WorkIsOK
    <3> QED
      BY <1>5, <3>1
  <2> HIDE DEF w
  <2>3. /\ n.id \notin known /\ \A b \in All(ToSet(rets), H) : b.id # n.id
    BY <1>4, <1>8
  <2>4. Core(f, (ToSet(evs) \cup ToSet(ents)) \ ToSet(n.items), ToSet(rets),
             [H EXCEPT ![d] = @ \cup {n}], known, st)
    BY <1>8, <2>3, BatchIsFormed
  <2>5. [H EXCEPT ![d] = @ \cup {n}] = [Hands(drain) EXCEPT ![d] = {n}]
    <3>1. H[d] = {}
      BY <1>5, <1>6, <1>8
    <3> QED
      BY <1>6, <3>1
  <2>6. Core(f, ToSet(events') \cup ToSet(entities'), ToSet(retries'),
             [Hands(drain) EXCEPT ![d] = Hand(w)], known, st)
    BY <1>1, <1>8, <2>2, <2>4, <2>5
  <2> QED
    BY <1>1, <1>8, <2>2, <2>6, DrainGoesOn DEF w
<1>9. CASE pending = <<>> /\ phase # "events" /\ ents # <<>>
  <2> DEFINE n == [id |-> Fresh, items |-> First(ents, Cap(d))]
  <2>1. /\ drain' = [drain EXCEPT ![d] =
                       [phase |-> "entities", pending |-> <<>>, batch |-> n, attempts |-> 0]]
        /\ entities' = Rest(ents, Cap(d)) /\ events' = evs
    BY <1>9 DEF Proceed
  <2>2. Cap(d) \in Nat \ {0}
    BY CapIsPositive
  <2>3. /\ n \in Batches
        /\ Queue(Rest(ents, Cap(d)), Entity) /\ Len(Rest(ents, Cap(d))) <= Len(ents)
        /\ ToSet(n.items) \subseteq ToSet(ents)
        /\ ToSet(Rest(ents, Cap(d))) = ToSet(ents) \ ToSet(n.items)
    BY <1>2, <1>3, <1>4, <2>2, BatchOf
  <2>4. n.id = Fresh
    OBVIOUS
  <2> HIDE DEF n
  <2>5. ListsOK(events', entities', retries')
    BY <1>1, <1>3, <2>1, <2>3 DEF ListsOK
  <2>6. /\ ToSet(n.items) \subseteq ToSet(evs) \cup ToSet(ents)
        /\ ToSet(events') \cup ToSet(entities') = (ToSet(evs) \cup ToSet(ents)) \ ToSet(n.items)
    BY <1>2, <2>1, <2>3
  <2> QED
    BY <1>8, <1>9, <2>1, <2>3, <2>4, <2>5, <2>6
<1>10. CASE pending = <<>> /\ ~ (phase # "events" /\ ents # <<>>) /\ evs # <<>>
  <2> DEFINE n == [id |-> Fresh, items |-> First(evs, Cap(d))]
  <2>1. /\ drain' = [drain EXCEPT ![d] =
                       [phase |-> "events", pending |-> <<>>, batch |-> n, attempts |-> 0]]
        /\ events' = Rest(evs, Cap(d)) /\ entities' = ents
    BY <1>10 DEF Proceed
  <2>2. Cap(d) \in Nat \ {0}
    BY CapIsPositive
  <2>3. /\ n \in Batches
        /\ Queue(Rest(evs, Cap(d)), Captured) /\ Len(Rest(evs, Cap(d))) <= Len(evs)
        /\ ToSet(n.items) \subseteq ToSet(evs)
        /\ ToSet(Rest(evs, Cap(d))) = ToSet(evs) \ ToSet(n.items)
    BY <1>2, <1>3, <1>4, <2>2, BatchOf
  <2>4. n.id = Fresh
    OBVIOUS
  <2> HIDE DEF n
  <2>5. ListsOK(events', entities', retries')
    <3>1. Len(evs) \in Nat /\ Len(Rest(evs, Cap(d))) \in Nat /\ MaxQueue \in Nat
      BY <1>3, <2>3, QueueFacts, SdkAssumption
    <3>2. Len(Rest(evs, Cap(d))) <= MaxQueue
      BY <1>3, <2>3, <3>1
    <3> QED
      BY <1>1, <1>3, <2>1, <2>3, <3>2 DEF ListsOK
  <2>6. /\ ToSet(n.items) \subseteq ToSet(evs) \cup ToSet(ents)
        /\ ToSet(events') \cup ToSet(entities') = (ToSet(evs) \cup ToSet(ents)) \ ToSet(n.items)
    BY <1>2, <2>1, <2>3
  <2> QED
    BY <1>8, <1>10, <2>1, <2>3, <2>4, <2>5, <2>6
<1>11. CASE pending = <<>> /\ ~ (phase # "events" /\ ents # <<>>) /\ evs = <<>>
  <2> DEFINE p == IF d = Timer THEN "ending" ELSE "idle"
             w == [phase |-> p, pending |-> <<>>, batch |-> NoBatch, attempts |-> 0]
  <2>1. drain' = [drain EXCEPT ![d] = w] /\ events' = evs /\ entities' = ents
    BY <1>11 DEF Proceed, IdleDrain
  <2>2. p \in {"idle", "ending"} /\ (p = "ending" => d = Timer)
    OBVIOUS
  <2> HIDE DEF p
  <2>3. DrainOK(w, d) /\ Hand(w) = {}
    BY <2>2, RestIsOK
  <2> HIDE DEF w
  <2>4. H = [Hands(drain) EXCEPT ![d] = Hand(w)]
    BY <1>5, <1>11, <2>3
  <2>5. ListsOK(events', entities', retries')
    BY <1>1, <2>1
  <2>6. Core(f, ToSet(events') \cup ToSet(entities'), ToSet(retries'),
             [Hands(drain) EXCEPT ![d] = Hand(w)], known, st)
    BY <1>1, <2>1, <2>4
  <2> QED
    BY <1>1, <2>1, <2>3, <2>5, <2>6, DrainGoesOn
<1> QED
  BY <1>7, <1>9, <1>10, <1>11

-----------------------------------------------------------------------------
(* The steps.                                                              *)

\* The invariant holds initially.
LEMMA ClientStart == ClientInit => ClientInv
<1> SUFFICES ASSUME ClientInit PROVE ClientInv
  OBVIOUS
<1>1. ToSet(<<>>) = {} /\ Len(<<>>) = 0 /\ \A S : Queue(<<>>, S)
  BY EmptyQueue
<1>2. ListsOK(events, entities, retries)
  BY <1>1, SdkAssumption DEF ClientInit, ListsOK
<1>3. \A d \in Drain : DrainOK(drain[d], d) /\ Hand(drain[d]) = {}
  BY RestIsOK DEF ClientInit, IdleDrain
<1>4. DrainsOK(drain)
  BY <1>3 DEF ClientInit, DrainsOK
<1>5. Hands(drain) = [d \in Drain |-> {}]
  BY <1>3 DEF Hands
<1>6. All({}, Hands(drain)) = {}
  BY <1>5 DEF All
<1>7. Inside({}) = {}
  BY DEF Inside
<1>8. Placed({}, Hands(drain)) /\ Apart({})
  BY <1>5 DEF Placed, Apart
<1>9. Owned(fate, {}, {})
  BY <1>7 DEF Owned, ClientInit, Fates
<1>10. Delivered(fate, {}, {}, seen, stored)
  BY DEF Delivered, ClientInit, Item
<1>11. Core(fate, ToSet(events) \cup ToSet(entities), ToSet(retries), Hands(drain), seen, stored)
  BY <1>1, <1>6, <1>8, <1>9, <1>10 DEF Core, ClientInit
<1> QED
  BY <1>2, <1>4, <1>11 DEF ClientInv, Stands, ClientInit

\* What follows from the invariant about the lists and the identifiers.
LEMMA ClientFacts ==
  ASSUME ClientInv
  PROVE  /\ ListsOK(events, entities, retries) /\ DrainsOK(drain)
         /\ Core(fate, ToSet(events) \cup ToSet(entities), ToSet(retries), Hands(drain), seen, stored)
         /\ 0 \notin seen /\ seen \subseteq Alive
         /\ \A b \in All(ToSet(retries), Hands(drain)) : b \in Batches /\ b.id \in Alive
<1>1. /\ ListsOK(events, entities, retries) /\ DrainsOK(drain)
      /\ seen \subseteq {b.id : b \in All(ToSet(retries), Hands(drain))}
      /\ Core(fate, ToSet(events) \cup ToSet(entities), ToSet(retries), Hands(drain), seen, stored)
  BY DEF ClientInv, Stands
<1>2. \A b \in All(ToSet(retries), Hands(drain)) : b \in Batches
  BY <1>1, AllFacts DEF Core, Placed
<1>3. \A b \in All(ToSet(retries), Hands(drain)) : b.id \in Alive
  BY AliveIds, IdsFacts
<1>4. \A x \in seen : \E b \in All(ToSet(retries), Hands(drain)) : x = b.id
  BY <1>1
<1>5. \A x \in seen : x # 0 /\ x \in Alive
  BY <1>2, <1>3, <1>4, BatchItems
<1> QED
  BY <1>1, <1>2, <1>3, <1>5

\* A drain that is idle or ending has no batch.
LEMMA IdleHasNothing ==
  ASSUME DrainsOK(drain), NEW d \in Drain, drain[d].phase \in {"idle", "ending"}
  PROVE  Hands(drain)[d] = {}
<1>1. drain[d].pending = <<>> /\ drain[d].batch = NoBatch
  BY DEF DrainsOK, DrainOK
<1> QED
  BY <1>1, EmptyQueue DEF Hands, Hand

\* A flush, of queues the caller may have changed.
LEMMA FlushKeeps ==
  ASSUME ClientInv, NEW d \in Drain, NEW evs, NEW ents, ListsOK(evs, ents, retries), NEW f,
         Core(f, ToSet(evs) \cup ToSet(ents), ToSet(retries), Hands(drain), seen, stored),
         Flush(d, evs, ents)
  PROVE  Stands(f, events', entities', retries', drain', seen', stored)
<1>1. /\ ListsOK(events, entities, retries) /\ DrainsOK(drain) /\ 0 \notin seen /\ seen \subseteq Alive
      /\ \A b \in All(ToSet(retries), Hands(drain)) : b.id \in Alive
  BY ClientFacts
<1>2. CASE drain[d].phase # "idle"
  <2>1. /\ events' = evs /\ entities' = ents
        /\ retries' = retries /\ drain' = drain /\ seen' = seen
    BY <1>2 DEF Flush
  <2>2. Stands(f, evs, ents, retries, drain, seen, stored)
    BY <1>1 DEF ClientInv, Stands
  <2> QED
    BY <2>1, <2>2
<1>3. CASE drain[d].phase = "idle"
  <2> DEFINE H1 == [Hands(drain) EXCEPT ![d] = ToSet(retries)]
             H0 == Hands(drain)
  <2>1. Proceed(d, "retries", retries, evs, ents, <<>>, seen)
    BY <1>3 DEF Flush, RetriesTaken
  <2>2. H0[d] = {} /\ Placed(ToSet(retries), H0)
    BY <1>1, <1>3, IdleHasNothing DEF Core
  <2> HIDE DEF H0
  <2>3. /\ H0 \in [Drain -> SUBSET Batches] /\ ToSet(retries) \in SUBSET Batches
        /\ H1 = [H0 EXCEPT ![d] = ToSet(retries)]
    BY <2>2 DEF Placed, H0
  <2>4. /\ H1 \in [Drain -> SUBSET Batches] /\ H1[d] = ToSet(retries)
        /\ \A x \in Drain \ {d} : H1[x] = H0[x]
    BY <2>3
  <2> HIDE DEF H1
  <2>5. Placed({}, H1)
    BY <2>2, <2>4 DEF Placed
  <2>6. All({}, H1) = All(ToSet(retries), H0)
    <3>1. \A b : (\E x \in Drain : b \in H1[x])
                   <=> b \in ToSet(retries) \/ \E x \in Drain : b \in H0[x]
      BY <2>2, <2>4
    <3>2. \A b : b \in All({}, H1) <=> b \in All(ToSet(retries), H0)
      BY <3>1, AllFacts
    <3> QED
      BY <3>2
  <2>7. Core(f, ToSet(evs) \cup ToSet(ents), {}, H1, seen, stored)
    BY <2>5, <2>6, BatchesMove DEF H0
  <2>8. ToSet(<<>>) = {} /\ ListsOK(evs, ents, <<>>)
    BY EmptyQueue, SdkAssumption DEF ListsOK
  <2>9. \A b \in All(ToSet(<<>>), H1) : b.id \in Alive
    BY <1>1, <2>6, <2>8 DEF H0
  <2>10. Core(f, ToSet(evs) \cup ToSet(ents), ToSet(<<>>), H1, seen, stored)
    BY <2>7, <2>8
  <2>11. H1 = [Hands(drain) EXCEPT ![d] = ToSet(retries)] /\ Queue(retries, Batches)
    BY <1>1 DEF H1, ListsOK
  <2> QED
    BY <1>1, <2>1, <2>8, <2>9, <2>10, <2>11, ProceedKeeps
<1> QED
  BY <1>2, <1>3

\* A captured event enters the queue; what is too much is given up.
LEMMA CaptureKeeps ==
  ASSUME ClientInv, NEW e \in Captured, Capture(e)
  PROVE  ClientInv'
<1> DEFINE all  == Append(events, e)
           kept == Newest(all, MaxQueue)
           gone == Oldest(all, MaxQueue)
           Q    == ToSet(events) \cup ToSet(entities)
           Q1   == ToSet(kept) \cup ToSet(entities)
<1>1. /\ ListsOK(events, entities, retries) /\ DrainsOK(drain)
      /\ Core(fate, Q, ToSet(retries), Hands(drain), seen, stored)
  BY ClientFacts
<1>2. /\ ToSet(events) \subseteq Captured /\ ToSet(entities) \subseteq Entity
      /\ Captured \cap Entity = {} /\ Captured \subseteq Item /\ Entity \subseteq Item
  BY <1>1, ItemsOfQueues
<1>3. /\ fate[e] = "new" /\ stored' = stored /\ client' = client
      /\ fate' = [Decided(ToSet(gone), "given_up") EXCEPT
                    ![e] = IF e \in ToSet(kept) THEN "held" ELSE "given_up"]
      /\ \/ Flush(Timer, kept, entities)
         \/ events' = kept /\ UNCHANGED <<entities, retries, drain, seen>>
  BY DEF Capture
<1>4. Owned(fate, Q, All(ToSet(retries), Hands(drain)))
  BY <1>1 DEF Core
<1>5. e \notin ToSet(events)
  BY <1>2, <1>3, <1>4 DEF Owned
<1>6. Queue(all, Captured) /\ ToSet(all) = ToSet(events) \cup {e}
  BY <1>1, <1>5, QueueAppend DEF ListsOK
<1> HIDE DEF all
<1>7. /\ Queue(kept, Captured) /\ Len(kept) <= MaxQueue
      /\ ToSet(gone) \cup ToSet(kept) = ToSet(events) \cup {e}
      /\ ToSet(gone) \cap ToSet(kept) = {}
  BY <1>6, QueueTrim, SdkAssumption
<1> HIDE DEF kept, gone
<1>8. ListsOK(kept, entities, retries)
  BY <1>1, <1>7 DEF ListsOK
<1>9. \A j \in Item : fate[j] \in Fates /\ (j \in Q => fate[j] = "held")
  BY <1>4 DEF Owned
<1>10. /\ \A j \in Item \ {e} : fate'[j] = IF j \in ToSet(gone) THEN "given_up" ELSE fate[j]
       /\ fate'[e] = IF e \in ToSet(kept) THEN "held" ELSE "given_up"
       /\ DOMAIN fate' = Item
  BY <1>2, <1>3 DEF Decided
<1>11. fate' \in [Item -> Fates]
  <2>1. fate' = [j \in Item |-> fate'[j]]
    BY <1>3 DEF Decided
  <2>2. \A j \in Item : fate'[j] \in Fates
    BY <1>9, <1>10 DEF Fates
  <2> QED
    BY <2>1, <2>2
<1>12. \A j \in Item : fate'[j] = IF j \in Q1 THEN "held"
                                  ELSE IF j \in Q \cup {e} THEN "given_up" ELSE fate[j]
  <2> SUFFICES ASSUME NEW j \in Item
               PROVE  fate'[j] = IF j \in Q1 THEN "held"
                                 ELSE IF j \in Q \cup {e} THEN "given_up" ELSE fate[j]
    OBVIOUS
  <2>1. CASE j = e
    BY <1>2, <1>10, <2>1
  <2>2. CASE j # e /\ j \in ToSet(gone)
    BY <1>2, <1>7, <1>10, <2>2
  <2>3. CASE j # e /\ j \notin ToSet(gone)
    BY <1>7, <1>9, <1>10, <2>3
  <2> QED
    BY <2>1, <2>2, <2>3
<1>13. e \in Item /\ Q1 \subseteq Q \cup {e}
  BY <1>2, <1>7
<1>14. Core(fate', Q1, ToSet(retries), Hands(drain), seen, stored)
  <2> HIDE DEF Q, Q1
  <2> QED
    BY <1>1, <1>3, <1>11, <1>12, <1>13, ItemEnters
<1>15. Stands(fate', events', entities', retries', drain', seen', stored')
  <2>1. CASE Flush(Timer, kept, entities)
    <3>1. Stands(fate', events', entities', retries', drain', seen', stored)
      BY <1>8, <1>14, <2>1, FlushKeeps, SdkAssumption
    <3> QED
      BY <1>3, <3>1
  <2>2. CASE events' = kept /\ UNCHANGED <<entities, retries, drain, seen>>
    <3>1. Stands(fate', kept, entities, retries, drain, seen, stored)
      BY <1>8, <1>14 DEF ClientInv, Stands
    <3> QED
      BY <1>3, <2>2, <3>1
  <2> QED
    BY <1>3, <2>1, <2>2
<1> QED
  BY <1>3, <1>15 DEF ClientInv

\* An entity update enters its queue, which has no limit.
LEMMA IdentifyKeeps ==
  ASSUME ClientInv, NEW u \in Entity, Identify(u)
  PROVE  ClientInv'
<1> DEFINE all == Append(entities, u)
           Q   == ToSet(events) \cup ToSet(entities)
           Q1  == ToSet(events) \cup ToSet(all)
<1>1. /\ ListsOK(events, entities, retries) /\ DrainsOK(drain)
      /\ Core(fate, Q, ToSet(retries), Hands(drain), seen, stored)
  BY ClientFacts
<1>2. /\ ToSet(events) \subseteq Captured /\ ToSet(entities) \subseteq Entity /\ Entity \subseteq Item
  BY <1>1, ItemsOfQueues
<1>3. /\ fate[u] = "new" /\ stored' = stored /\ client' = client
      /\ fate' = [fate EXCEPT ![u] = "held"]
      /\ \/ Flush(Timer, events, all)
         \/ entities' = all /\ UNCHANGED <<events, retries, drain, seen>>
  BY DEF Identify
<1>4. Owned(fate, Q, All(ToSet(retries), Hands(drain)))
  BY <1>1 DEF Core
<1>5. u \notin ToSet(entities)
  BY <1>2, <1>3, <1>4 DEF Owned
<1>6. Queue(all, Entity) /\ ToSet(all) = ToSet(entities) \cup {u}
  BY <1>1, <1>5, QueueAppend DEF ListsOK
<1> HIDE DEF all
<1>7. ListsOK(events, all, retries)
  BY <1>1, <1>6 DEF ListsOK
<1>8. fate \in [Item -> Fates] /\ \A j \in Item : j \in Q => fate[j] = "held"
  BY <1>4 DEF Owned
<1>9. fate' \in [Item -> Fates]
  BY <1>3, <1>8 DEF Fates
<1>10. \A j \in Item : fate'[j] = IF j \in Q1 THEN "held"
                                  ELSE IF j \in Q \cup {u} THEN "given_up" ELSE fate[j]
  BY <1>2, <1>3, <1>6, <1>8
<1>11. u \in Item /\ Q1 \subseteq Q \cup {u}
  BY <1>2, <1>6
<1>12. Core(fate', Q1, ToSet(retries), Hands(drain), seen, stored)
  <2> HIDE DEF Q, Q1
  <2> QED
    BY <1>1, <1>3, <1>9, <1>10, <1>11, ItemEnters
<1>13. Stands(fate', events', entities', retries', drain', seen', stored')
  <2>1. CASE Flush(Timer, events, all)
    <3>1. Stands(fate', events', entities', retries', drain', seen', stored)
      BY <1>7, <1>12, <2>1, FlushKeeps, SdkAssumption
    <3> QED
      BY <1>3, <3>1
  <2>2. CASE entities' = all /\ UNCHANGED <<events, retries, drain, seen>>
    <3>1. Stands(fate', events, all, retries, drain, seen, stored)
      BY <1>7, <1>12 DEF ClientInv, Stands
    <3> QED
      BY <1>3, <2>2, <3>1
  <2> QED
    BY <1>3, <2>1, <2>2
<1> QED
  BY <1>3, <1>13 DEF ClientInv

\* The flushes of the timer, of a hidden page and of a shutdown.
LEMMA FlushesKeep ==
  ASSUME ClientInv, NEW d \in Drain, Flush(d, events, entities), UNCHANGED <<fate, stored>>,
         client' \in {"running", "closing", "closed"}
  PROVE  ClientInv'
<1>1. /\ ListsOK(events, entities, retries)
      /\ Core(fate, ToSet(events) \cup ToSet(entities), ToSet(retries), Hands(drain), seen, stored)
  BY ClientFacts
<1>2. Stands(fate, events', entities', retries', drain', seen', stored)
  BY <1>1, FlushKeeps
<1>3. Stands(fate', events', entities', retries', drain', seen', stored')
  BY <1>2
<1> QED
  BY <1>3 DEF ClientInv

\* The flush of the timer ends with nothing in hand.
LEMMA FlushEndsKeeps ==
  ASSUME ClientInv, FlushEnds
  PROVE  ClientInv'
<1>1. /\ ListsOK(events, entities, retries) /\ DrainsOK(drain) /\ Timer \in Drain
  BY ClientFacts, SdkAssumption
<1>2. /\ drain[Timer].phase = "ending" /\ drain' = [drain EXCEPT ![Timer] = IdleDrain]
      /\ UNCHANGED <<fate, events, entities, retries, seen, stored>>
      /\ client' \in {"running", "closing", "closed"}
  BY DEF FlushEnds, ClientInv
<1>3. DrainOK(IdleDrain, Timer) /\ Hand(IdleDrain) = {}
  BY <1>1, RestIsOK DEF IdleDrain
<1>4. DrainsOK(drain')
  BY <1>1, <1>2, <1>3 DEF DrainsOK
<1>5. Hands(drain)[Timer] = {}
  BY <1>1, <1>2, IdleHasNothing
<1>6. Hands(drain') = [Hands(drain) EXCEPT ![Timer] = {}]
  <2>1. Hands(drain') = [Hands(drain) EXCEPT ![Timer] = Hand(IdleDrain)]
    BY <1>1, <1>2, HandsAfter DEF DrainsOK
  <2> QED
    BY <1>3, <2>1
<1>7. Hands(drain') = Hands(drain)
  BY <1>5, <1>6 DEF Hands
<1>8. Stands(fate, events, entities, retries, drain', seen, stored)
  BY <1>4, <1>7 DEF ClientInv, Stands
<1>9. Stands(fate', events', entities', retries', drain', seen', stored')
  BY <1>2, <1>8
<1> QED
  BY <1>2, <1>9 DEF ClientInv

\* Discarding thins the queue and the batches that are kept, not those in hand.
LEMMA DiscardKeeps ==
  ASSUME ClientInv, NEW selected \in SUBSET Captured, DiscardQueued(selected)
  PROVE  ClientInv'
<1> DEFINE filtered == [n \in DOMAIN retries |->
                          [retries[n] EXCEPT !.items = Without(@, selected)]]
           spent == {b \in ToSet(filtered) : b.items = <<>>}
           K  == ToSet(retries)
           K1 == ToSet(Without(filtered, spent))
           Q  == ToSet(events) \cup ToSet(entities)
           left == Without(events, selected)
<1>1. /\ ListsOK(events, entities, retries) /\ DrainsOK(drain) /\ seen \subseteq Alive
      /\ Core(fate, Q, K, Hands(drain), seen, stored) /\ 0 \notin seen
  BY ClientFacts
<1>2. /\ events' = left /\ retries' = Without(filtered, spent)
      /\ fate' = Decided(selected \cap (ToSet(events) \cup Held(retries)), "given_up")
      /\ UNCHANGED <<entities, drain, client, stored>> /\ seen' = seen \cap Alive'
  BY DEF DiscardQueued
<1>3. /\ ToSet(events) \subseteq Captured /\ ToSet(entities) \subseteq Entity
      /\ Captured \cap Entity = {}
  BY <1>1, ItemsOfQueues
<1>4. PICK n \in Nat : n = Len(retries)
  BY <1>1, QueueFacts DEF ListsOK
<1>5. /\ DOMAIN retries = 1 .. n /\ \A j \in 1 .. n : retries[j] \in Batches
      /\ \A i, j \in 1 .. n : retries[i] = retries[j] => i = j
  BY <1>1, <1>4, QueueFacts DEF ListsOK
<1>6. \A j \in 1 .. n : retries[j] \in K
  BY <1>5 DEF ToSet
<1>7. \A b \in K : \E j \in 1 .. n : retries[j] = b
  BY <1>5 DEF ToSet
<1>8. Apart(All(K, Hands(drain))) /\ \A b \in K : b \in All(K, Hands(drain))
  BY <1>1, AllFacts DEF Core
\* What is left of a batch.
<1>9. DOMAIN filtered = 1 .. n /\ filtered \in [1 .. n -> Batches]
      /\ \A j \in 1 .. n : /\ filtered[j].id = retries[j].id
                           /\ ToSet(filtered[j].items) = ToSet(retries[j].items) \ selected
  <2>1. \A j \in 1 .. n :
          filtered[j] = [id |-> retries[j].id, items |-> Without(retries[j].items, selected)]
    BY <1>5 DEF Batches
  <2>2. \A j \in 1 .. n : retries[j].items \in Seq(Item) /\ retries[j].id \in Nat \ {0}
    BY <1>5 DEF Batches
  <2>3. \A j \in 1 .. n : /\ Without(retries[j].items, selected) \in Seq(Item)
                          /\ ToSet(Without(retries[j].items, selected))
                               = ToSet(retries[j].items) \ selected
    BY <2>2, WhatIsLeft
  <2>4. filtered = [j \in 1 .. n |-> filtered[j]]
    BY <1>5
  <2> HIDE DEF filtered
  <2>5. ASSUME NEW j \in 1 .. n
        PROVE  /\ filtered[j] \in Batches /\ filtered[j].id = retries[j].id
               /\ ToSet(filtered[j].items) = ToSet(retries[j].items) \ selected
    <3>. PICK t : t = Without(retries[j].items, selected)
      OBVIOUS
    <3>1. /\ filtered[j] = [id |-> retries[j].id, items |-> t] /\ t \in Seq(Item)
          /\ ToSet(t) = ToSet(retries[j].items) \ selected /\ retries[j].id \in Nat \ {0}
      BY <2>1, <2>2, <2>3
    <3> QED
      BY <3>1 DEF Batches
  <2>6. filtered \in [1 .. n -> Batches] /\ DOMAIN filtered = 1 .. n
    BY <2>4, <2>5
  <2> QED
    BY <2>5, <2>6
<1> HIDE DEF filtered
<1>10. filtered \in Seq(Batches) /\ Len(filtered) = n
  BY <1>9
<1>11. \A i, j \in 1 .. n : filtered[i].id = filtered[j].id => i = j
  <2> SUFFICES ASSUME NEW i \in 1 .. n, NEW j \in 1 .. n, filtered[i].id = filtered[j].id
               PROVE  i = j
    OBVIOUS
  <2>1. retries[i].id = retries[j].id
    BY <1>9
  <2>2. retries[i] = retries[j]
    BY <1>6, <1>8, <2>1 DEF Apart
  <2> QED
    BY <1>5, <2>2
<1>12. \A b \in ToSet(filtered) : \E j \in 1 .. n : filtered[j] = b
  BY <1>9 DEF ToSet
<1>13. \A j \in 1 .. n : filtered[j] \in ToSet(filtered)
  BY <1>9 DEF ToSet
<1>14. IsInjective(filtered)
  BY <1>9, <1>11 DEF IsInjective
<1>15. /\ Queue(retries', Batches) /\ Len(retries') <= n /\ ToSet(retries') = K1
       /\ K1 = ToSet(filtered) \ spent
  BY <1>2, <1>10, <1>14, WhatIsLeft DEF Queue
<1>16. /\ Queue(left, Captured) /\ Len(left) <= Len(events) /\ ToSet(left) = ToSet(events) \ selected
  BY <1>1, WhatIsLeft DEF ListsOK, Queue
<1>17. ListsOK(events', entities', retries')
  <2>1. /\ Len(left) \in Nat /\ Len(events) \in Nat /\ Len(retries') \in Nat
        /\ MaxQueue \in Nat /\ MaxRetryBatches \in Nat
    BY <1>1, <1>15, <1>16, QueueFacts, SdkAssumption DEF ListsOK
  <2>2. Len(events) <= MaxQueue /\ n <= MaxRetryBatches /\ Queue(entities, Entity)
    BY <1>1, <1>4 DEF ListsOK
  <2> HIDE DEF left
  <2>3. Len(left) <= MaxQueue /\ Len(retries') <= MaxRetryBatches
    BY <1>15, <1>16, <2>1, <2>2
  <2> QED
    BY <1>2, <1>15, <1>16, <2>2, <2>3 DEF ListsOK
<1>18. /\ K1 \in SUBSET Batches
       /\ \A c \in K1 : \E b \in K : c.id = b.id /\ ToSet(c.items) = ToSet(b.items) \ selected
       /\ \A c, b \in K1 : c.id = b.id => c = b
  <2>1. \A c \in K1 : \E j \in 1 .. n : filtered[j] = c
    BY <1>12, <1>15
  <2> HIDE DEF K1
  <2>2. \A c \in K1 : c \in Batches
    BY <1>9, <2>1
  <2>3. \A c, b \in K1 : c.id = b.id => c = b
    BY <1>11, <2>1
  <2>4. \A c \in K1 : \E b \in K : c.id = b.id /\ ToSet(c.items) = ToSet(b.items) \ selected
    <3> SUFFICES ASSUME NEW c \in K1
                 PROVE  \E b \in K : c.id = b.id /\ ToSet(c.items) = ToSet(b.items) \ selected
      OBVIOUS
    <3>. PICK j \in 1 .. n : filtered[j] = c
      BY <2>1
    <3>1. c.id = retries[j].id /\ ToSet(c.items) = ToSet(retries[j].items) \ selected
      BY <1>9
    <3>2. retries[j] \in K
      BY <1>6
    <3> HIDE DEF K
    <3> QED
      BY <3>1, <3>2
  <2> QED
    BY <2>2, <2>3, <2>4
<1>19. \A b \in K : \/ ToSet(b.items) \subseteq selected
                    \/ \E c \in K1 : c.id = b.id /\ ToSet(c.items) = ToSet(b.items) \ selected
  <2> SUFFICES ASSUME NEW b \in K, ~ (ToSet(b.items) \subseteq selected)
               PROVE  \E c \in K1 : c.id = b.id /\ ToSet(c.items) = ToSet(b.items) \ selected
    OBVIOUS
  <2>1. PICK j \in 1 .. n : retries[j] = b
    BY <1>7
  <2>2. filtered[j].id = b.id /\ ToSet(filtered[j].items) = ToSet(b.items) \ selected
    BY <1>9, <2>1
  <2>3. ToSet(filtered[j].items) # {}
    BY <2>2
  <2>4. filtered[j].items # <<>>
    BY <2>3, EmptyQueue
  <2>5. filtered[j] \in K1
    BY <1>13, <1>15, <2>4
  <2> HIDE DEF K, K1
  <2> QED
    BY <2>2, <2>5
<1>20. fate' = [i \in Item |-> IF i \in selected \cap (Q \cup Inside(K)) THEN "given_up" ELSE fate[i]]
  <2>1. Held(retries) = Inside(K)
    BY DEF Held, Inside
  <2>2. selected \cap (ToSet(events) \cup Held(retries)) = selected \cap (Q \cup Inside(K))
    BY <1>3, <2>1
  <2> QED
    BY <1>2, <2>2 DEF Decided
<1>21. Core(fate', Q \ selected, K1, Hands(drain), seen, stored)
  <2> DEFINE H == Hands(drain)
  <2>1. Core(fate, Q, K, H, seen, stored)
    BY <1>1
  <2> HIDE DEF K, K1, Q, H
  <2>2. Thinned(K, K1, selected)
    BY <1>18, <1>19 DEF Thinned
  <2>3. Core(fate', Q \ selected, K1, H, seen, stored)
    BY <1>20, <2>1, <2>2, ItemsDiscarded
  <2> QED
    BY <2>3 DEF H
<1>22. Q \ selected = ToSet(events') \cup ToSet(entities')
  BY <1>2, <1>3, <1>16
<1>23. Core(fate', ToSet(events') \cup ToSet(entities'), ToSet(retries'), Hands(drain'), seen, stored')
  BY <1>2, <1>15, <1>21, <1>22
<1> DEFINE A == All(ToSet(retries'), Hands(drain'))
<1>24. /\ \A b \in A : b.id \in Alive'
       /\ \A x \in Alive' : x = 0 \/ \E b \in A : b.id = x
  <2>1. Alive' = IdsOf(retries', drain')
    BY DEF Alive, IdsOf
  <2>2. /\ \A b \in A : b.id \in IdsOf(retries', drain')
        /\ \A x \in IdsOf(retries', drain') : x = 0 \/ \E b \in A : b.id = x
    BY IdsFacts
  <2> HIDE DEF A
  <2> QED
    BY <2>1, <2>2
<1>25. seen' \subseteq {b.id : b \in A}
  <2> HIDE DEF A
  <2>1. \A x \in seen' : x \in Alive' /\ x # 0
    BY <1>1, <1>2
  <2>2. \A x \in seen' : \E b \in A : b.id = x
    BY <1>24, <2>1
  <2> QED
    BY <2>2
<1>26. \A b \in A : b.id \in seen' <=> b.id \in seen
  BY <1>2, <1>24
<1>27. Core(fate', ToSet(events') \cup ToSet(entities'), ToSet(retries'), Hands(drain'), seen', stored')
  BY <1>23, <1>26, ServerForgets
<1> QED
  BY <1>1, <1>2, <1>17, <1>25, <1>27 DEF ClientInv, Stands

\* What the drains have in hand once d's batch, whose answer comes, is out of it.
HandsWithout(d) == [Hands(drain) EXCEPT ![d] = ToSet(drain[d].pending)]

\* The batch that is on its way is of one drain, and in no list.
LEMMA BatchTaken ==
  ASSUME ClientInv, NEW d \in Drain, drain[d].batch # NoBatch
  PROVE  /\ drain[d].phase \in {"retries", "entities", "events"}
         /\ Queue(drain[d].pending, Batches)
         /\ drain[d].batch \in Batches /\ drain[d].batch \in All(ToSet(retries), Hands(drain))
         /\ drain[d].batch \notin ToSet(retries)
         /\ \A x \in Drain : drain[d].batch \notin HandsWithout(d)[x]
         /\ Ending(ToSet(retries), Hands(drain), ToSet(retries), HandsWithout(d), {drain[d].batch})
<1> DEFINE H0 == Hands(drain)
           K  == ToSet(retries)
           H  == HandsWithout(d)
           b  == drain[d].batch
           pending == drain[d].pending
<1>1. DrainsOK(drain) /\ Placed(K, H0)
  BY ClientFacts DEF Core
<1>2. DrainOK(drain[d], d)
  BY <1>1 DEF DrainsOK
<1>3. /\ drain[d].phase \in {"retries", "entities", "events"} /\ Queue(pending, Batches)
      /\ b \in Batches /\ b \notin ToSet(pending)
  BY <1>2 DEF DrainOK
<1>4. H0[d] = ToSet(pending) \cup {b}
  BY <1>3, NoBatchIsNone DEF Hands, Hand
<1>5. H = [H0 EXCEPT ![d] = ToSet(pending)]
  BY DEF HandsWithout
<1> HIDE DEF H0, K, H, b, pending
<1>6. /\ K \in SUBSET Batches /\ H0 \in [Drain -> SUBSET Batches]
      /\ \A x \in Drain : K \cap H0[x] = {} /\ \A y \in Drain \ {x} : H0[x] \cap H0[y] = {}
  BY <1>1 DEF Placed
<1>7. ToSet(pending) \in SUBSET Batches
  BY <1>4, <1>6
<1>8. /\ H \in [Drain -> SUBSET Batches] /\ H[d] = ToSet(pending)
      /\ \A x \in Drain \ {d} : H[x] = H0[x]
  BY <1>5, <1>6, <1>7
<1>9. \A x \in Drain : H[x] \subseteq H0[x]
  BY <1>4, <1>8
<1>10. Placed(K, H)
  <2>1. \A x \in Drain : K \cap H[x] = {} /\ \A y \in Drain \ {x} : H[x] \cap H[y] = {}
    BY <1>6, <1>9
  <2> QED
    BY <1>6, <1>8, <2>1 DEF Placed
<1>11. b \notin K /\ \A x \in Drain : b \notin H[x]
  BY <1>3, <1>4, <1>6, <1>8
<1>12. All(K, H) = All(K, H0) \ {b}
  <2>1. \A c : (\E x \in Drain : c \in H0[x]) <=> (\E x \in Drain : c \in H[x]) \/ c = b
    BY <1>4, <1>8
  <2>2. ASSUME NEW c PROVE c \in All(K, H) <=> c \in All(K, H0) /\ c # b
    <3>1. c \in All(K, H) <=> c \in K \/ \E x \in Drain : c \in H[x]
      BY AllFacts
    <3>2. c \in All(K, H0) <=> c \in K \/ \E x \in Drain : c \in H0[x]
      BY AllFacts
    <3> QED
      BY <1>11, <2>1, <3>1, <3>2
  <2> QED
    BY <2>2
<1>13. b \in All(K, H0)
  BY <1>4, AllFacts
<1>14. Ending(K, H0, K, H, {b})
  BY <1>10, <1>12, <1>13 DEF Ending
<1> QED
  BY <1>3, <1>11, <1>13, <1>14 DEF H0, K, H, b, pending

\* The items of one batch.
LEMMA InsideOne ==
  ASSUME NEW b
  PROVE  Inside({b}) = ToSet(b.items)
BY DEF Inside

\* The batch was accepted: the server has stored it, now or before.
LEMMA AcceptedKeeps ==
  ASSUME ClientInv, NEW d \in Drain, Accepted(d)
  PROVE  ClientInv'
<1> DEFINE b == drain[d].batch
           pending == drain[d].pending
           Q  == ToSet(events) \cup ToSet(entities)
           K  == ToSet(retries)
           H0 == Hands(drain)
           H  == HandsWithout(d)
           known == seen \cup {b.id}
<1>1. /\ ListsOK(events, entities, retries) /\ DrainsOK(drain)
      /\ Core(fate, Q, K, H0, seen, stored) /\ 0 \notin seen /\ seen \subseteq Alive
      /\ \A c \in All(K, H0) : c \in Batches /\ c.id \in Alive
  BY ClientFacts
<1>2. /\ b # NoBatch /\ stored' = StoredWith(b) /\ fate' = Decided(ToSet(b.items), "accepted")
      /\ Proceed(d, drain[d].phase, pending, events, entities, retries, known)
      /\ client' = client
  BY DEF Accepted
<1>3. /\ drain[d].phase \in {"retries", "entities", "events"} /\ Queue(pending, Batches)
      /\ b \in Batches /\ b \in All(K, H0) /\ Ending(K, H0, K, H, {b})
  BY <1>2, BatchTaken
<1> HIDE DEF Q, K, H0, H, b
<1>4. Core(fate, Q, K, H0, known, stored') /\ \A e \in Captured \cap ToSet(b.items) : stored'[e] = 1
  <2>1. stored' = [e \in Captured |-> IF e \in ToSet(b.items) /\ b.id \notin seen
                                      THEN stored[e] + 1 ELSE stored[e]]
    BY <1>2 DEF StoredWith
  <2> QED
    BY <1>1, <1>3, <2>1, ServerStores
<1>5. fate' = Fated(fate, {b}, "accepted")
  BY <1>2, InsideOne DEF Decided, Fated
<1>6. \A e \in Captured \cap Inside({b}) : stored'[e] = 1
  BY <1>4, InsideOne
<1>7. Core(fate', Q, K, H, known, stored')
  <2> HIDE DEF known
  <2> QED
    BY <1>3, <1>4, <1>5, <1>6, BatchesEnd
<1>8. 0 \notin known /\ known \subseteq Alive
  BY <1>1, <1>3, BatchItems
<1>9. \A c \in All(K, H) : c.id \in Alive
  BY <1>1, <1>3 DEF Ending
<1>10. Stands(fate', events', entities', retries', drain', seen', stored')
  <2> HIDE DEF known
  <2> QED
    BY <1>1, <1>2, <1>3, <1>7, <1>8, <1>9, ProceedKeeps DEF Q, K, H, HandsWithout
<1> QED
  BY <1>2, <1>10 DEF ClientInv

\* The batch was rejected for good: what it holds is given up.
LEMMA RejectedKeeps ==
  ASSUME ClientInv, NEW d \in Drain, Rejected(d)
  PROVE  ClientInv'
<1> DEFINE b == drain[d].batch
           pending == drain[d].pending
           Q  == ToSet(events) \cup ToSet(entities)
           K  == ToSet(retries)
           H0 == Hands(drain)
           H  == HandsWithout(d)
<1>1. /\ ListsOK(events, entities, retries) /\ DrainsOK(drain)
      /\ Core(fate, Q, K, H0, seen, stored) /\ 0 \notin seen /\ seen \subseteq Alive
      /\ \A c \in All(K, H0) : c \in Batches /\ c.id \in Alive
  BY ClientFacts
<1>2. /\ b # NoBatch /\ stored' = stored /\ fate' = Decided(ToSet(b.items), "given_up")
      /\ Proceed(d, drain[d].phase, pending, events, entities, retries, seen)
      /\ client' = client
  BY DEF Rejected
<1>3. /\ drain[d].phase \in {"retries", "entities", "events"} /\ Queue(pending, Batches)
      /\ b \in Batches /\ b \in All(K, H0) /\ Ending(K, H0, K, H, {b})
  BY <1>2, BatchTaken
<1> HIDE DEF Q, K, H0, H, b
<1>4. fate' = Fated(fate, {b}, "given_up")
  BY <1>2, InsideOne DEF Decided, Fated
<1>5. Core(fate', Q, K, H, seen, stored)
  BY <1>1, <1>3, <1>4, BatchesEnd
<1>6. \A c \in All(K, H) : c.id \in Alive
  BY <1>1, <1>3 DEF Ending
<1>7. Stands(fate', events', entities', retries', drain', seen', stored)
  <2> QED
    BY <1>1, <1>2, <1>3, <1>5, <1>6, ProceedKeeps DEF Q, K, H, HandsWithout
<1> QED
  BY <1>2, <1>7 DEF ClientInv

\* A batch that failed for good is kept, and the oldest give way to it.
LEMMA BatchIsKept ==
  ASSUME ClientInv, NEW d \in Drain, drain[d].batch # NoBatch, NEW known, NEW st, NEW Q,
         Core(fate, Q, ToSet(retries), Hands(drain), known, st),
         NEW kept, kept = Requeued(drain[d].batch),
         NEW lost, lost = Oldest(Append(retries, drain[d].batch), MaxRetryBatches)
  PROVE  /\ Queue(kept, Batches) /\ Len(kept) <= MaxRetryBatches
         /\ Core(Fated(fate, ToSet(lost), "given_up"), Q, ToSet(kept), HandsWithout(d), known, st)
         /\ All(ToSet(kept), HandsWithout(d)) \subseteq All(ToSet(retries), Hands(drain))
<1> DEFINE b  == drain[d].batch
           K  == ToSet(retries)
           H0 == Hands(drain)
           H  == HandsWithout(d)
           all == Append(retries, b)
           K2 == ToSet(all)
           D  == ToSet(lost)
           K1 == ToSet(kept)
<1>1. /\ b \in Batches /\ b \in All(K, H0) /\ b \notin K
      /\ \A x \in Drain : b \notin H[x]
      /\ Placed(K, H) /\ All(K, H) = All(K, H0) \ {b}
  BY BatchTaken DEF Ending
<1>2. Queue(all, Batches) /\ K2 = K \cup {b}
  <2>1. Queue(retries, Batches)
    BY ClientFacts DEF ListsOK
  <2> QED
    BY <1>1, <2>1, QueueAppend
<1> HIDE DEF all
<1>3. /\ Queue(kept, Batches) /\ Len(kept) <= MaxRetryBatches
      /\ D \cup K1 = K2 /\ D \cap K1 = {}
  BY <1>2, QueueTrim, SdkAssumption DEF Requeued, all
<1> HIDE DEF K2
<1> HIDE DEF b, K, H0, H, D, K1
<1>5. /\ K \in SUBSET Batches /\ H \in [Drain -> SUBSET Batches]
      /\ \A x \in Drain : K \cap H[x] = {} /\ \A y \in Drain \ {x} : H[x] \cap H[y] = {}
  BY <1>1 DEF Placed
<1>6. \A x \in Drain : K2 \cap H[x] = {}
  BY <1>1, <1>2, <1>5
<1>7. Placed(K2, H)
  BY <1>1, <1>2, <1>5, <1>6 DEF Placed
<1>8. Placed(K1, H)
  BY <1>3, <1>5, <1>6, <1>7 DEF Placed
<1>9. All(K2, H) = All(K, H0)
  <2>1. ASSUME NEW c PROVE c \in All(K2, H) <=> c \in All(K, H0)
    <3>1. c \in All(K2, H) <=> c \in K2 \/ \E x \in Drain : c \in H[x]
      BY AllFacts
    <3>2. c \in All(K, H) <=> c \in K \/ \E x \in Drain : c \in H[x]
      BY AllFacts
    <3> QED
      BY <1>1, <1>2, <3>1, <3>2
  <2> QED
    BY <2>1
<1>10. All(K1, H) = All(K2, H) \ D /\ D \subseteq All(K2, H)
  <2>1. ASSUME NEW c PROVE c \in All(K1, H) <=> c \in All(K2, H) /\ c \notin D
    <3>1. c \in All(K2, H) <=> c \in K2 \/ \E x \in Drain : c \in H[x]
      BY AllFacts
    <3>2. c \in All(K1, H) <=> c \in K1 \/ \E x \in Drain : c \in H[x]
      BY AllFacts
    <3>3. c \in D => ~ \E x \in Drain : c \in H[x]
      BY <1>3, <1>6
    <3> QED
      BY <1>3, <3>1, <3>2, <3>3
  <2>2. D \subseteq All(K2, H)
    BY <1>3, AllFacts
  <2> QED
    BY <2>1, <2>2
<1>11. Core(fate, Q, K2, H, known, st)
  <2>1. Core(fate, Q, K, H0, known, st)
    BY DEF K, H0
  <2> QED
    BY <1>7, <1>9, <2>1, BatchesMove
<1>12. Core(Fated(fate, D, "given_up"), Q, K1, H, known, st)
  <2>1. Ending(K2, H, K1, H, D)
    BY <1>8, <1>10 DEF Ending
  <2> QED
    BY <1>11, <2>1, BatchesEnd
<1>13. All(K1, H) \subseteq All(K, H0)
  BY <1>9, <1>10
<1> QED
  BY <1>3, <1>12, <1>13 DEF K, H0, H, D, K1

\* The batch failed: it is tried again, kept for the next flush, or the oldest that
\* is kept is given up.
LEMMA FailedKeeps ==
  ASSUME ClientInv, NEW d \in Drain, NEW arrived \in BOOLEAN, Failed(d, arrived)
  PROVE  ClientInv'
<1> DEFINE b == drain[d].batch
           pending == drain[d].pending
           kept == Requeued(b)
           lost == Oldest(Append(retries, b), MaxRetryBatches)
           Q  == ToSet(events) \cup ToSet(entities)
           K  == ToSet(retries)
           H0 == Hands(drain)
           H  == HandsWithout(d)
           known == IF arrived THEN seen \cup {b.id} ELSE seen
<1>1. /\ ListsOK(events, entities, retries) /\ DrainsOK(drain)
      /\ Core(fate, Q, K, H0, seen, stored) /\ 0 \notin seen /\ seen \subseteq Alive
      /\ \A c \in All(K, H0) : c \in Batches /\ c.id \in Alive
      /\ seen \subseteq {c.id : c \in All(K, H0)}
  BY ClientFacts DEF ClientInv, Stands
<1>2. /\ b # NoBatch /\ stored' = (IF arrived THEN StoredWith(b) ELSE stored) /\ client' = client
      /\ \/ /\ drain[d].attempts + 1 < Attempts(d)
            /\ drain' = [drain EXCEPT ![d].attempts = @ + 1] /\ seen' = known
            /\ UNCHANGED <<fate, events, entities, retries>>
         \/ /\ fate' = Decided(Held(lost), "given_up")
            /\ Proceed(d, drain[d].phase, pending, events, entities, kept, known)
  BY DEF Failed
<1>3. /\ drain[d].phase \in {"retries", "entities", "events"} /\ Queue(pending, Batches)
      /\ b \in Batches /\ b \in All(K, H0)
  BY <1>2, BatchTaken
<1> HIDE DEF b
<1>4. Core(fate, Q, K, H0, known, stored')
  <2> HIDE DEF Q, K, H0
  <2>1. CASE arrived
    <3>1. stored' = [e \in Captured |-> IF e \in ToSet(b.items) /\ b.id \notin seen
                                        THEN stored[e] + 1 ELSE stored[e]]
      BY <1>2, <2>1 DEF StoredWith
    <3>2. Core(fate, Q, K, H0, seen \cup {b.id}, stored')
      BY <1>1, <1>3, <3>1, ServerStores
    <3> QED
      BY <2>1, <3>2
  <2>2. CASE ~ arrived
    BY <1>1, <1>2, <2>2
  <2> QED
    BY <2>1, <2>2
<1>5. 0 \notin known /\ known \subseteq Alive /\ known \subseteq {c.id : c \in All(K, H0)}
  BY <1>1, <1>3, BatchItems
<1> HIDE DEF known
<1>6. CASE /\ drain[d].attempts + 1 < Attempts(d)
           /\ drain' = [drain EXCEPT ![d].attempts = @ + 1] /\ seen' = known
           /\ UNCHANGED <<fate, events, entities, retries>>
  <2> DEFINE w == [drain[d] EXCEPT !.attempts = @ + 1]
  <2>1. DrainOK(drain[d], d)
    BY <1>1 DEF DrainsOK
  <2>2. drain[d].attempts + 1 \in 0 .. MaxTries - 1
    <3>1. Attempts(d) \in Nat /\ Attempts(d) <= MaxTries /\ MaxTries \in Nat
      BY SdkAssumption DEF Attempts
    <3>2. drain[d].attempts \in Nat
      BY <2>1, <3>1 DEF DrainOK
    <3> QED
      BY <1>6, <3>1, <3>2
  <2>3. w = [phase |-> drain[d].phase, pending |-> drain[d].pending, batch |-> drain[d].batch,
             attempts |-> drain[d].attempts + 1]
    BY <2>1 DEF DrainOK
  <2> HIDE DEF w
  <2>4. DrainOK(w, d) /\ Hand(w) = Hand(drain[d])
    BY <2>1, <2>2, <2>3 DEF DrainOK, Hand
  <2>5. drain' = [drain EXCEPT ![d] = w]
    BY <1>6 DEF w
  <2>6. DrainsOK(drain')
    BY <1>1, <2>4, <2>5 DEF DrainsOK
  <2>7. Hands(drain') = [Hands(drain) EXCEPT ![d] = Hand(w)]
    BY <1>1, <2>5, HandsAfter DEF DrainsOK
  <2>8. Hands(drain') = H0
    BY <2>4, <2>7 DEF Hands
  <2>9. Stands(fate, events, entities, retries, drain', known, stored')
    BY <1>1, <1>4, <1>5, <2>6, <2>8 DEF Stands
  <2>10. Stands(fate', events', entities', retries', drain', seen', stored')
    BY <1>6, <2>9
  <2> QED
    BY <1>2, <2>10 DEF ClientInv
<1>7. CASE /\ fate' = Decided(Held(lost), "given_up")
           /\ Proceed(d, drain[d].phase, pending, events, entities, kept, known)
  <2>1. /\ Queue(kept, Batches) /\ Len(kept) <= MaxRetryBatches
        /\ Core(fate', Q, ToSet(kept), H, known, stored')
        /\ All(ToSet(kept), H) \subseteq All(K, H0)
    <3>1. fate' = Fated(fate, ToSet(lost), "given_up")
      <4>1. Held(lost) = Inside(ToSet(lost))
        BY DEF Held, Inside
      <4> QED
        BY <1>7, <4>1 DEF Decided, Fated
    <3>2. /\ kept = Requeued(drain[d].batch)
          /\ lost = Oldest(Append(retries, drain[d].batch), MaxRetryBatches)
          /\ Core(fate, Q, ToSet(retries), Hands(drain), known, stored') /\ drain[d].batch # NoBatch
      BY <1>2, <1>4 DEF b
    <3> HIDE DEF kept, lost, Q
    <3> QED
      BY <3>1, <3>2, BatchIsKept
  <2> HIDE DEF kept, H, H0, K
  <2>2. ListsOK(events, entities, kept)
    BY <1>1, <2>1 DEF ListsOK
  <2>3. \A c \in All(ToSet(kept), H) : c.id \in Alive
    BY <1>1, <2>1
  <2>4. H = [Hands(drain) EXCEPT ![d] = ToSet(pending)]
    BY DEF H, HandsWithout
  <2> HIDE DEF pending
  <2>5. Core(fate', ToSet(events) \cup ToSet(entities), ToSet(kept), H, known, stored')
    BY <2>1
  <2>6. Stands(fate', events', entities', retries', drain', seen', stored')
    BY <1>1, <1>3, <1>5, <1>7, <2>2, <2>3, <2>4, <2>5, ProceedKeeps
  <2> QED
    BY <1>2, <2>6 DEF ClientInv
<1> QED
  BY <1>2, <1>6, <1>7

\* Each action keeps the invariant.
LEMMA ClientStep == ClientInv /\ [ClientNext]_clientVars => ClientInv'
<1> SUFFICES ASSUME ClientInv, [ClientNext]_clientVars PROVE ClientInv'
  OBVIOUS
<1>1. ASSUME NEW e \in Captured, Capture(e) PROVE ClientInv'
  BY <1>1, CaptureKeeps
<1>2. ASSUME NEW u \in Entity, Identify(u) PROVE ClientInv'
  BY <1>2, IdentifyKeeps
<1>3. ASSUME NEW selected \in SUBSET Captured, DiscardQueued(selected) PROVE ClientInv'
  BY <1>3, DiscardKeeps
<1>4. CASE TimerFires
  BY <1>4, FlushesKeep, SdkAssumption DEF TimerFires, ClientInv
<1>5. CASE FlushEnds
  BY <1>5, FlushEndsKeeps
<1>6. CASE Shutdown
  BY <1>6, FlushesKeep, SdkAssumption DEF Shutdown, ClientInv
<1>7. ASSUME NEW d \in Drain, PageHidden(d) PROVE ClientInv'
  BY <1>7, FlushesKeep DEF PageHidden, ClientInv
<1>8. ASSUME NEW d \in Drain, Answered(d) PROVE ClientInv'
  BY <1>8, AcceptedKeeps, RejectedKeeps, FailedKeeps DEF Answered
<1>9. CASE UNCHANGED clientVars
  <2>1. Stands(fate', events', entities', retries', drain', seen', stored')
    BY <1>9 DEF clientVars, ClientInv, Stands
  <2> QED
    BY <1>9, <2>1 DEF clientVars, ClientInv
<1> QED
  BY <1>1, <1>2, <1>3, <1>4, <1>5, <1>6, <1>7, <1>8, <1>9 DEF ClientNext

\* So it holds for ever.
LEMMA ClientInvariant == ClientSpec => []ClientInv
<1> QED
  BY ClientStart, ClientStep, PTL DEF ClientSpec

-----------------------------------------------------------------------------
(* What the client promises.                                               *)

\* An item is where one of the sets says it is, and nowhere else.
LEMMA OnePlace ==
  ASSUME ClientInv, NEW i \in Item
  PROVE  Cardinality(Places(i)) = IF fate[i] = "held" THEN 1 ELSE 0
<1> DEFINE Q == ToSet(events) \cup ToSet(entities)
           K == ToSet(retries)
           H == Hands(drain)
           A == All(K, H)
<1>1. ListsOK(events, entities, retries) /\ Placed(K, H) /\ Apart(A) /\ Owned(fate, Q, A)
  BY ClientFacts DEF Core
<1>2. /\ DOMAIN retries = 1 .. Len(retries)
      /\ \A j, k \in DOMAIN retries : retries[j] = retries[k] => j = k
      /\ \A j \in DOMAIN retries : retries[j] \in K
      /\ \A b \in K : \E j \in DOMAIN retries : retries[j] = b
  BY <1>1, QueueFacts DEF ListsOK, ToSet
<1>3. \A b : b \in A <=> b \in K \/ \E d \in Drain : b \in H[d]
  BY AllFacts
<1>4. \A d \in Drain : i \in ToSet(drain[d].batch.items) \cup Held(drain[d].pending)
                         <=> \E b \in H[d] : i \in ToSet(b.items)
  <2> SUFFICES ASSUME NEW d \in Drain
               PROVE  i \in ToSet(drain[d].batch.items) \cup Held(drain[d].pending)
                        <=> \E b \in H[d] : i \in ToSet(b.items)
    OBVIOUS
  <2>1. \A b : b \in H[d] <=> b \in ToSet(drain[d].pending) \/ (b = drain[d].batch /\ b # NoBatch)
    BY DEF Hands, Hand
  <2>2. i \in Held(drain[d].pending) <=> \E b \in ToSet(drain[d].pending) : i \in ToSet(b.items)
    BY DEF Held
  <2>3. ToSet(NoBatch.items) = {}
    BY EmptyQueue DEF NoBatch
  <2> HIDE DEF H
  <2> QED
    BY <2>1, <2>2, <2>3
<1> HIDE DEF Q, K, H, A
<1>5. \A p : p \in Places(i) <=>
        \/ p = <<"queue", 1>> /\ i \in Q
        \/ \E k \in DOMAIN retries : p = <<"retry", k>> /\ i \in ToSet(retries[k].items)
        \/ \E d \in Drain : p = <<"drain", d>> /\ \E b \in H[d] : i \in ToSet(b.items)
  <2>1. \A p : p \in Places(i) <=>
          \/ \E k \in {n \in 1 .. 1 : i \in Q} : p = <<"queue", k>>
          \/ \E k \in {n \in DOMAIN retries : i \in ToSet(retries[n].items)} : p = <<"retry", k>>
          \/ \E d \in {x \in Drain : i \in ToSet(drain[x].batch.items) \cup Held(drain[x].pending)} :
               p = <<"drain", d>>
    BY DEF Places, Q
  <2> QED
    BY <1>4, <2>1
<1>6. \A b, c \in A : i \in ToSet(b.items) /\ i \in ToSet(c.items) => b = c
  BY <1>1 DEF Apart
<1>7. fate[i] = "held" <=> i \in Q \/ \E b \in A : i \in ToSet(b.items)
  BY <1>1, InsideFacts DEF Owned
<1>8. i \in Q => \A b \in A : i \notin ToSet(b.items)
  BY <1>1, InsideFacts DEF Owned
<1>9. \A d \in Drain : K \cap H[d] = {} /\ \A x \in Drain \ {d} : H[d] \cap H[x] = {}
  BY <1>1 DEF Placed
<1>10. fate[i] = "held" => \E p : Places(i) = {p}
  <2>1. ASSUME NEW p, p \in Places(i), \A q \in Places(i) : q = p PROVE \E x : Places(i) = {x}
    <3>1. Places(i) = {p}
      BY <2>1
    <3> QED
      BY <3>1
  <2>2. CASE i \in Q
    <3>1. <<"queue", 1>> \in Places(i)
      BY <1>5, <2>2
    <3>2. \A q \in Places(i) : q = <<"queue", 1>>
      BY <1>2, <1>3, <1>5, <1>8, <2>2
    <3> QED
      BY <2>1, <3>1, <3>2
  <2>3. ASSUME NEW b \in K, i \in ToSet(b.items) PROVE \E p : Places(i) = {p}
    <3>1. PICK k \in DOMAIN retries : retries[k] = b
      BY <1>2
    <3>2. <<"retry", k>> \in Places(i)
      BY <1>5, <2>3, <3>1
    <3>3. i \notin Q
      BY <1>3, <1>8, <2>3
    <3>4. \A j \in DOMAIN retries : i \in ToSet(retries[j].items) => j = k
      BY <1>2, <1>3, <1>6, <2>3, <3>1
    <3>5. \A d \in Drain : \A c \in H[d] : i \notin ToSet(c.items)
      BY <1>3, <1>6, <1>9, <2>3
    <3>6. \A q \in Places(i) : q = <<"retry", k>>
      BY <1>5, <3>3, <3>4, <3>5
    <3> QED
      BY <2>1, <3>2, <3>6
  <2>4. ASSUME NEW d \in Drain, NEW b \in H[d], i \in ToSet(b.items) PROVE \E p : Places(i) = {p}
    <3>1. <<"drain", d>> \in Places(i)
      BY <1>5, <2>4
    <3>2. i \notin Q
      BY <1>3, <1>8, <2>4
    <3>3. \A j \in DOMAIN retries : i \notin ToSet(retries[j].items)
      BY <1>2, <1>3, <1>6, <1>9, <2>4
    <3>4. \A x \in Drain : \A c \in H[x] : i \in ToSet(c.items) => x = d
      BY <1>3, <1>6, <1>9, <2>4
    <3>5. \A q \in Places(i) : q = <<"drain", d>>
      BY <1>5, <3>2, <3>3, <3>4
    <3> QED
      BY <2>1, <3>1, <3>5
  <2> QED
    BY <1>3, <1>7, <2>2, <2>3, <2>4
<1>11. fate[i] # "held" => Places(i) = {}
  BY <1>2, <1>3, <1>5, <1>7
<1> QED
  BY <1>10, <1>11, FS_Singleton, FS_EmptySet

\* For any number of events, drains and attempts and any sizes of queues and batches,
\* whatever is answered and whatever is lost: an item the client was given is in one
\* place until its fate is known, the queues stay bounded, and an event is stored once
\* if the client was told so, and never twice.
THEOREM ClientKeepsEvents == ClientSpec => []EventsAreKept
<1>1. ClientInv => EventsAreKept
  <2> SUFFICES ASSUME ClientInv PROVE NothingVanishes /\ DeliveredOnce
    BY DEF EventsAreKept
  <2>1. /\ ListsOK(events, entities, retries)
        /\ Core(fate, ToSet(events) \cup ToSet(entities), ToSet(retries), Hands(drain), seen, stored)
    BY ClientFacts
  <2>2. NothingVanishes
    BY <2>1, OnePlace DEF NothingVanishes, ListsOK
  <2>3. DeliveredOnce
    BY <2>1 DEF Core, Delivered, DeliveredOnce
  <2> QED
    BY <2>2, <2>3
<1> QED
  BY <1>1, ClientInvariant, PTL

\* The variables of the client have their types: a drain that does nothing has nothing,
\* and the server remembers no identifier that nobody uses.
THEOREM ClientTypes == ClientSpec => []ClientTypeOK
<1>1. ClientInv => ClientTypeOK
  <2> SUFFICES ASSUME ClientInv PROVE ClientTypeOK
    OBVIOUS
  <2>1. /\ ListsOK(events, entities, retries) /\ DrainsOK(drain) /\ seen \subseteq Alive
        /\ Core(fate, ToSet(events) \cup ToSet(entities), ToSet(retries), Hands(drain), seen, stored)
        /\ \A b \in All(ToSet(retries), Hands(drain)) : b \in Batches
    BY ClientFacts
  <2>2. fate \in [Item -> Fates] /\ stored \in [Captured -> Nat]
    BY <2>1 DEF Core, Owned, Delivered
  <2>3. events \in Seq(Captured) /\ entities \in Seq(Entity)
    BY <2>1 DEF ListsOK, Queue
  <2>4. \A s : ToSet(s) \subseteq Batches => Held(s) \subseteq Item
    <3> SUFFICES ASSUME NEW s, ToSet(s) \subseteq Batches, NEW i \in Held(s) PROVE i \in Item
      OBVIOUS
    <3>1. PICK b \in ToSet(s) : i \in ToSet(b.items)
      BY DEF Held
    <3> QED
      BY <3>1, BatchItems
  <2>5. Held(retries) \subseteq Item
    <3>1. ToSet(retries) \subseteq Batches
      BY <2>1, QueueFacts DEF ListsOK
    <3> QED
      BY <2>4, <3>1
  <2>6. ASSUME NEW d \in Drain
        PROVE  /\ drain[d].phase \in {"idle", "retries", "entities", "events"}
                                       \cup IF d = Timer THEN {"ending"} ELSE {}
               /\ Held(drain[d].pending) \cup ToSet(drain[d].batch.items) \subseteq Item
               /\ drain[d].attempts \in 0 .. MaxTries - 1
    <3>1. DrainOK(drain[d], d)
      BY <2>1 DEF DrainsOK
    <3>2. ToSet(drain[d].pending) \subseteq Batches
      BY <3>1, QueueFacts DEF DrainOK
    <3>3. ToSet(drain[d].batch.items) \subseteq Item
      <4>1. CASE drain[d].batch = NoBatch
        BY <4>1, EmptyQueue DEF NoBatch
      <4>2. CASE drain[d].batch \in Batches
        BY <4>2, BatchItems
      <4> QED
        BY <3>1, <4>1, <4>2 DEF DrainOK
    <3>4. Held(drain[d].pending) \subseteq Item
      BY <2>4, <3>2
    <3> QED
      BY <3>1, <3>3, <3>4 DEF DrainOK
  <2> QED
    BY <2>1, <2>2, <2>3, <2>5, <2>6 DEF ClientTypeOK, ClientInv
<1> QED
  BY <1>1, ClientInvariant, PTL

=============================================================================
