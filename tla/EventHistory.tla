---------------------------- MODULE EventHistory ----------------------------
(***************************************************************************)
(* Rows of the event table after they were stored: their audited           *)
(* corrections (services/eventManagement.ts, reviseEvent of                *)
(* stores/postgresEventStore.ts), the purge of an actor or of a whole      *)
(* environment (purge of the same store), and the deletion of expired rows *)
(* by the retention worker (deleteEventPolicyBatch of                      *)
(* services/retention.ts).  All three lock the row of an event first, by   *)
(* SELECT ... FOR UPDATE, and write under that lock at READ COMMITTED.     *)
(*                                                                         *)
(* Of an event the model keeps the actor and the month it is dated, which  *)
(* decide about its purge, its expiry and its partition; the timestamps of *)
(* the database server are counted in purges: `at' is the number of purges *)
(* that had begun.  A transaction writes nothing that others see before it *)
(* commits, so its last statement and its COMMIT are one step.             *)
(***************************************************************************)
EXTENDS Naturals, Sequences, FiniteSets

CONSTANTS
  Event,         \* identifiers of event rows
  Actor,         \* values of events.distinct_id
  Everyone,      \* the scope of a purge that names no distinct_id
  EventMonth,    \* months events are dated, each with a partition of its own
  Policy,        \* values of projects.retention_months
  Now,           \* the current month
  Editor,        \* corrections: each is previewed once and applied once
  PurgeBatch,    \* PURGE_BATCH_SIZE
  SweepBatch,    \* RETENTION_BATCH_SIZE
  MaxPurges,     \* bound: purges begun
  None

ASSUME HistoryAssumption ==
  /\ Everyone \notin Actor
  /\ EventMonth \subseteq Nat /\ Policy \subseteq Nat \ {0}
  /\ Now \in Nat
  /\ PurgeBatch \in Nat \ {0} /\ SweepBatch \in Nat \ {0}
  /\ MaxPurges \in Nat

Fact      == [actor : Actor, month : EventMonth]
StoredRow == [actor : Actor, month : EventMonth, revision : Nat \ {0}, at : 0 .. MaxPurges]
Audit     == [revision : Nat, previous : Fact, snapshot : Fact]

ASSUME NoneAssumption == None \notin StoredRow /\ None \notin Event

VARIABLES
  row,           \* events: the fact, its revision, and ingested_at
  audits,        \* event_revisions of an event, in order
  insert,        \* the row an ingest transaction has yet to commit
  taken,         \* identifiers that were given out
  months,        \* projects.retention_months
  edit,          \* where a correction stands
  purge,         \* where the purge request stands
  purges,        \* purges begun so far
  sweep          \* where the retention worker stands

table       == <<row, audits>>
historyVars == <<table, insert, taken, months, edit, purge, purges, sweep>>

NoEdit  == [phase |-> "idle", event |-> None, expected |-> 0, before |-> None, after |-> None]
NoPurge == [phase |-> "idle", scope |-> None, seen |-> {}, locked |-> {}, owed |-> {}]
NoSweep == [phase |-> "idle", locked |-> {}]

FactOf(e) == [actor |-> row[e].actor, month |-> row[e].month]

\* A timestamp before the retention window, as subtractUtcCalendarMonths and
\* make_interval compute it.  The clock stands still: a month that passes moves
\* the same rows out of the window as a policy that becomes a month shorter.
Outside(month, policy) == month + policy < Now

\* Rows are there already when the model begins, as they were ingested.
HistoryInit ==
  /\ row \in [Event -> [actor : Actor, month : EventMonth, revision : {1}, at : {0}] \cup {None}]
  /\ audits = [e \in Event |-> <<>>]
  /\ insert = [e \in Event |-> None]
  /\ taken = {e \in Event : row[e] # None}
  /\ months \in Policy
  /\ edit = [c \in Editor |-> NoEdit]
  /\ purge = NoPurge /\ purges = 0
  /\ sweep = NoSweep

-----------------------------------------------------------------------------
(* The retention policy and new events.                                     *)

\* FOR SHARE of a sweep keeps changes of the policy row out.
PolicyIsFree == sweep.phase # "locked"

\* An operator changes retention_months.
ChangePolicy ==
  /\ PolicyIsFree
  /\ months' \in Policy \ {months}
  /\ UNCHANGED <<table, insert, taken, edit, purge, purges, sweep>>

\* A transaction that stores an event begins: ingested_at is its start.
BeginInsert(e) ==
  /\ e \notin taken
  /\ taken' = taken \cup {e}
  /\ \E f \in Fact :
       /\ ~Outside(f.month, months)
       /\ insert' = [insert EXCEPT ![e] =
            [actor |-> f.actor, month |-> f.month, revision |-> 1, at |-> purges]]
  /\ UNCHANGED <<table, months, edit, purge, purges, sweep>>

\* It commits, or is rolled back, which leaves no trace of the identifier.
EndInsert(e) ==
  /\ insert[e] # None
  /\ \/ row' = [row EXCEPT ![e] = insert[e]] /\ UNCHANGED taken
     \/ taken' = taken \ {e} /\ UNCHANGED row
  /\ insert' = [insert EXCEPT ![e] = None]
  /\ UNCHANGED <<audits, months, edit, purge, purges, sweep>>

-----------------------------------------------------------------------------
(* Corrections.                                                             *)

EditLocks(e)  == \E c \in Editor : edit[c].phase = "locked" /\ edit[c].event = e
PurgeLocks(e) == e \in purge.locked
SweepLocks(e) == e \in sweep.locked

\* FOR UPDATE waits for the lock of another transaction.
IsFree(e) == ~EditLocks(e) /\ ~PurgeLocks(e) /\ ~SweepLocks(e)

\* applyAndValidatePatch accepts the corrected fact: it differs, and it is not
\* dated outside the retention window.
Correctable(e, f) == f # FactOf(e) /\ ~Outside(f.month, months)

\* previewRevision: what the reviewer is shown.
Preview(c, e, f) ==
  /\ edit[c].phase = "idle"
  /\ row[e] # None /\ Correctable(e, f)
  /\ edit' = [edit EXCEPT ![c] = [phase |-> "reviewed", event |-> e,
       expected |-> row[e].revision, before |-> FactOf(e), after |-> f]]
  /\ UNCHANGED <<table, insert, taken, months, purge, purges, sweep>>

Over == [phase |-> "over", event |-> None, expected |-> 0, before |-> None, after |-> None]

\* A correction goes on when the guard holds, and is refused otherwise.
StepIf(guard, c, phase) ==
  IF guard THEN edit' = [edit EXCEPT ![c].phase = phase] ELSE edit' = [edit EXCEPT ![c] = Over]

AsReviewed(c) ==
  /\ row[edit[c].event].revision = edit[c].expected
  /\ FactOf(edit[c].event) = edit[c].before

\* commitRevision previews again and compares the revision and the hash.
CommitRevision(c) ==
  /\ edit[c].phase = "reviewed"
  /\ StepIf(/\ row[edit[c].event] # None
            /\ Correctable(edit[c].event, edit[c].after)
            /\ AsReviewed(c), c, "checked")
  /\ UNCHANGED <<table, insert, taken, months, purge, purges, sweep>>

\* Mutant: the revision is not compared again under the lock.
RevisionDisregarded(c) == TRUE
SameRevision(c) == row[edit[c].event].revision = edit[c].expected

\* reviseEvent takes the lock of the row: 404 without one, 409 at another
\* revision.
LockRevision(c) ==
  /\ edit[c].phase = "checked"
  /\ IsFree(edit[c].event)
  /\ StepIf(row[edit[c].event] # None /\ SameRevision(c), c, "locked")
  /\ UNCHANGED <<table, insert, taken, months, purge, purges, sweep>>

\* It updates the row and inserts the audit in the same transaction.
ApplyRevision(c) ==
  LET e == edit[c].event
      n == row[e].revision + 1
  IN
  /\ edit[c].phase = "locked"
  /\ row' = [row EXCEPT ![e] = [actor |-> edit[c].after.actor, month |-> edit[c].after.month,
                                revision |-> n, at |-> row[e].at]]
  /\ audits' = [audits EXCEPT ![e] = Append(@,
       [revision |-> n, previous |-> FactOf(e), snapshot |-> edit[c].after])]
  /\ edit' = [edit EXCEPT ![c] = Over]
  /\ UNCHANGED <<insert, taken, months, purge, purges, sweep>>

\* The request crashes or is rolled back.
EditFails(c) ==
  /\ edit[c].phase \in {"checked", "locked"}
  /\ edit' = [edit EXCEPT ![c] = Over]
  /\ UNCHANGED <<table, insert, taken, months, purge, purges, sweep>>

-----------------------------------------------------------------------------
(* The purge of an actor or of everyone.                                    *)

MentionedBy(e, s) ==
  \E i \in DOMAIN audits[e] : s \in {audits[e][i].previous.actor, audits[e][i].snapshot.actor}

\* Mutant: the audits are not searched.
CurrentRows(e, s, k) == row[e] # None /\ row[e].at < k /\ s \in {Everyone, row[e].actor}

\* The candidates: rows and audits of the scope, of rows ingested before the
\* purge began.  (An audit without its row would be one as well.)
Concerned(e, s, k) ==
  /\ row[e] # None => row[e].at < k
  /\ \/ row[e] # None /\ s \in {Everyone, row[e].actor}
     \/ audits[e] # <<>> /\ (s = Everyone \/ MentionedBy(e, s))

\* purge sets its fence to the clock of the database.
BeginPurge(s) ==
  /\ purge.phase \in {"idle", "done"} /\ purges < MaxPurges
  /\ purges' = purges + 1
  /\ purge' = [purge EXCEPT !.phase = "looking", !.scope = s,
                            !.owed = {e \in Event : Concerned(e, s, purges + 1)}]
  /\ UNCHANGED <<table, insert, taken, months, edit, sweep>>

Candidates == {e \in Event : Concerned(e, purge.scope, purges)}

\* The candidates of one batch; without any the purge is over.
LookForCandidates ==
  /\ purge.phase = "looking"
  /\ IF Candidates = {} THEN purge' = [purge EXCEPT !.phase = "done", !.scope = None]
     ELSE \E S \in SUBSET Candidates :
       /\ Cardinality(S) = IF Cardinality(Candidates) < PurgeBatch
                           THEN Cardinality(Candidates) ELSE PurgeBatch
       /\ purge' = [purge EXCEPT !.phase = "locking", !.seen = S]
  /\ UNCHANGED <<table, insert, taken, months, edit, purges, sweep>>

\* Mutant: the rows are not locked.
NeverWaits(e) == FALSE
Waits(e) == row[e] # None /\ ~IsFree(e)

Unlocked == {e \in purge.seen : row[e] # None} \ purge.locked

\* FOR UPDATE goes from row to row and waits for the lock of each.
LockCandidate(e) ==
  /\ purge.phase = "locking"
  /\ e \in Unlocked /\ ~Waits(e)
  /\ purge' = [purge EXCEPT !.locked = @ \cup {e}]
  /\ UNCHANGED <<table, insert, taken, months, edit, purges, sweep>>

\* The audits and then the rows are deleted.  Both statements begin after the
\* locks were granted, so they see what the transactions waited for wrote.
EraseCandidates ==
  /\ purge.phase = "locking" /\ Unlocked = {}
  /\ audits' = [e \in Event |-> IF e \in purge.seen THEN <<>> ELSE audits[e]]
  /\ row'   = [e \in Event |-> IF e \in purge.locked THEN None ELSE row[e]]
  /\ purge' = [purge EXCEPT !.phase = "looking", !.seen = {}, !.locked = {}]
  /\ UNCHANGED <<insert, taken, months, edit, purges, sweep>>

\* The batch is rolled back: a row it waits for was corrected into another
\* partition (SQLSTATE 40001), the connection breaks or the process crashes.
PurgeFails ==
  /\ purge.phase \in {"looking", "locking"}
  /\ purge' = NoPurge
  /\ UNCHANGED <<table, insert, taken, months, edit, purges, sweep>>

-----------------------------------------------------------------------------
(* The retention worker on one project.                                     *)

Expired == {e \in Event : row[e] # None /\ Outside(row[e].month, months)}

\* The policy is read and locked, and expired rows are locked up to the limit;
\* SKIP LOCKED passes over the rows of other transactions.
LockExpired ==
  LET free == {e \in Expired : IsFree(e)} IN
  /\ sweep.phase = "idle" /\ free # {}
  /\ \E S \in SUBSET free :
       /\ Cardinality(S) = IF Cardinality(free) < SweepBatch
                           THEN Cardinality(free) ELSE SweepBatch
       /\ sweep' = [sweep EXCEPT !.phase = "locked", !.locked = S]
  /\ UNCHANGED <<table, insert, taken, months, edit, purge, purges>>

\* The audits and the rows are deleted in one transaction.
EraseExpired ==
  /\ sweep.phase = "locked"
  /\ audits' = [e \in Event |-> IF e \in sweep.locked THEN <<>> ELSE audits[e]]
  /\ row'   = [e \in Event |-> IF e \in sweep.locked THEN None ELSE row[e]]
  /\ sweep' = NoSweep
  /\ UNCHANGED <<insert, taken, months, edit, purge, purges>>

\* A timeout, a row that moved to another partition, or a crash.
SweepFails ==
  /\ sweep.phase = "locked"
  /\ sweep' = NoSweep
  /\ UNCHANGED <<table, insert, taken, months, edit, purge, purges>>

-----------------------------------------------------------------------------
Correct(c) ==
  \/ \E e \in Event, f \in Fact : Preview(c, e, f)
  \/ CommitRevision(c) \/ LockRevision(c) \/ ApplyRevision(c) \/ EditFails(c)

Purging ==
  \/ \E s \in Actor \cup {Everyone} : BeginPurge(s)
  \/ LookForCandidates \/ EraseCandidates \/ PurgeFails
  \/ \E e \in Event : LockCandidate(e)

Sweeping == LockExpired \/ EraseExpired \/ SweepFails

HistoryNext ==
  \/ ChangePolicy \/ Purging \/ Sweeping
  \/ \E e \in Event : BeginInsert(e) \/ EndInsert(e)
  \/ \E c \in Editor : Correct(c)

HistorySpec == HistoryInit /\ [][HistoryNext]_historyVars

-----------------------------------------------------------------------------
\* Every row, request and worker has its type.
HistoryTypeOK ==
  /\ row \in [Event -> StoredRow \cup {None}]
  /\ audits \in [Event -> Seq(Audit)]
  /\ \A e \in Event : insert[e] # None => row[e] = None /\ e \in taken
  /\ \A e \in Event : row[e] # None => e \in taken
  /\ months \in Policy
  /\ \A c \in Editor :
       /\ edit[c].phase \in {"idle", "reviewed", "checked", "locked", "over"}
       /\ edit[c].phase \notin {"idle", "over"} =>
            edit[c].event \in Event /\ edit[c].before \in Fact /\ edit[c].after \in Fact
       /\ edit[c].phase = "locked" => row[edit[c].event] # None
  /\ purge.phase \in {"idle", "looking", "locking", "done"}
  /\ purge.locked \subseteq purge.seen
  /\ purges \in 0 .. MaxPurges
  /\ sweep.phase \in {"idle", "locked"}

\* The history of an event accounts for all of it: the audits of a row number
\* its revisions without a gap, each begins at the fact the one before left and
\* the last one leaves the current fact; an event that is gone has none, so no
\* before or after snapshot of an actor outlives the row.
ChainIsWhole ==
  \A e \in Event :
    IF row[e] = None THEN audits[e] = <<>>
    ELSE /\ Len(audits[e]) = row[e].revision - 1
         /\ \A i \in DOMAIN audits[e] :
              /\ audits[e][i].revision = i + 1
              /\ audits[e][i].snapshot =
                   IF i < Len(audits[e]) THEN audits[e][i + 1].previous ELSE FactOf(e)

\* When a purge reports success, nothing is left of the events that concerned
\* its actor when it began, in the current rows or in the audits, whatever
\* corrections, other deletions and ingests went on meanwhile.
PurgedIsGone ==
  purge.phase = "done" => \A e \in purge.owed : row[e] = None /\ audits[e] = <<>>

\* What is left in the two tables bears out what was promised about it.
HistoryIsSound == ChainIsWhole /\ PurgedIsGone

\* A correction changes exactly what its reviewer saw into what he was shown,
\* and is audited as that.
IsReviewed(e) ==
  \E c \in Editor :
    /\ row'[e] # None /\ edit[c].event = e
    /\ FactOf(e) = edit[c].before /\ FactOf(e)' = edit[c].after
    /\ audits'[e] = Append(audits[e], [revision |-> row[e].revision + 1,
         previous |-> edit[c].before, snapshot |-> edit[c].after])

\* An event is deleted with its audits, and only when it is outside the
\* retention window of this very moment or the running purge concerns it.
DeletionIsDue(e) ==
  /\ row'[e] = None /\ audits'[e] = <<>>
  /\ \/ Outside(row[e].month, months)
     \/ purge.phase = "locking" /\ Concerned(e, purge.scope, purges)

\* Nothing else ever happens to an event that was stored, whichever of the
\* corrections, purges and sweeps are under way between each other's reads,
\* locks and writes.
StoredEventsAreKept ==
  [][\A e \in Event :
       row[e] # None /\ <<row[e], audits[e]>> # <<row[e], audits[e]>>' =>
         IsReviewed(e) \/ DeletionIsDue(e)]_historyVars
=============================================================================
