--------------------------- MODULE RetentionSweep ---------------------------
(***************************************************************************)
(* Whose turn it is when the retention worker runs (services/retention.ts, *)
(* runRetentionOnce): projects are visited in the order of                 *)
(* retention_checked_at, each run visits a few of them and deletes a few   *)
(* rows, and a project whose statements fail is left alone for 15 minutes. *)
(*                                                                         *)
(* A run that does not get the advisory lock returns at once and changes   *)
(* nothing, so there is one run at a time, whichever API process it is of. *)
(* The delay until the next run is left out, and so are the continuations  *)
(* that shorten it.  What a batch may delete is module EventHistory's.     *)
(***************************************************************************)
EXTENDS Naturals, Sequences, FiniteSets, SequencesExt

CONSTANTS
  Project,
  Unruly,        \* projects that time out at will and never run out of rows
  LastTable,     \* the tables of a pass are numbered 1 .. LastTable
  Backlog,       \* bound: expired rows of a project in one table
  MaxProjects,   \* maxBatchesPerRun / QUERIES_PER_PROJECT
  BatchSize,     \* options.batchSize
  MaxRows,       \* options.maxRowsPerRun
  MaxFaults      \* bound: runs out of time, aborted, or marks that get lost

SweepAssumption ==
  /\ Unruly \subseteq Project
  /\ {LastTable, MaxProjects, BatchSize, MaxRows} \subseteq Nat \ {0}
  /\ Backlog \in Nat /\ MaxFaults \in Nat

VARIABLES
  due,           \* expired rows, by project and table
  order,         \* the projects by retention_checked_at
  waiting,       \* projects whose retention_retry_at is still to come
  run,           \* projects a run has yet to visit, table it is at, rows it may delete
  faults

vars == <<due, order, waiting, run, faults>>

Table == 1 .. LastTable
Row   == [Table -> 0 .. Backlog]
Clean == [t \in Table |-> 0]
Full  == [t \in Table |-> Backlog]
NoRun == [todo |-> <<>>, table |-> 1, rows |-> 0]

Init ==
  /\ due = [p \in Project |-> IF p \in Unruly THEN Full ELSE Clean]
  /\ order \in SetToSeqs(Project)
  /\ waiting = {} /\ run = NoRun /\ faults = 0

-----------------------------------------------------------------------------
\* Rows of a project leave the retention window.
RowsExpire(p) ==
  /\ IF p \in Unruly THEN due' = [due EXCEPT ![p] = Full]
     ELSE due[p] = Clean /\ \E rows \in Row : due' = [due EXCEPT ![p] = rows]
  /\ UNCHANGED <<order, waiting, run, faults>>

\* 15 minutes later.
RetryComes(p) ==
  /\ waiting' = waiting \ {p}
  /\ UNCHANGED <<due, order, run, faults>>

Ready == SelectSeq(order, LAMBDA p : p \notin waiting)

BeginRun ==
  /\ run.todo = <<>> /\ Ready # <<>>
  /\ run' = [todo |-> SubSeq(Ready, 1, IF Len(Ready) < MaxProjects THEN Len(Ready)
                                       ELSE MaxProjects),
             table |-> 1, rows |-> MaxRows]
  /\ UNCHANGED <<due, order, waiting, faults>>

Current == Head(run.todo)
Running == run.todo # <<>>

\* retention_checked_at = clock_timestamp().
Checked(p) == Append(Remove(order, p), p)

GoesOn == run' = [run EXCEPT !.todo = Tail(@), !.table = 1]

\* One bounded DELETE; after the last table the project is marked.
DeleteBatch ==
  LET n == CHOOSE k \in {BatchSize, run.rows, due[Current][run.table]} :
             \A m \in {BatchSize, run.rows, due[Current][run.table]} : k <= m
  IN
  /\ Running /\ run.rows > 0
  /\ due' = [due EXCEPT ![Current][run.table] = @ - n]
  /\ IF run.table < LastTable
     THEN /\ run' = [run EXCEPT !.table = @ + 1, !.rows = @ - n]
          /\ UNCHANGED order
     ELSE /\ run' = [run EXCEPT !.todo = Tail(@), !.table = 1, !.rows = @ - n]
          /\ order' = Checked(Current)
  /\ UNCHANGED <<waiting, faults>>

\* Mutant: a pass that was cut short does not count as a visit.
CursorUnmarked == order

\* The cursor of a project moves on although its pass was cut short; a project
\* whose pass had not begun keeps its place.
CursorMarked == IF run.table = 1 THEN order ELSE Checked(Current)

\* The row budget is used up.
CutShort ==
  /\ Running /\ run.rows = 0
  /\ order' = CursorMarked /\ run' = NoRun
  /\ UNCHANGED <<due, waiting, faults>>

Fault == faults < MaxFaults /\ faults' = faults + 1

\* So is the time budget.
TimeIsUp ==
  /\ Running /\ Fault
  /\ order' = CursorMarked /\ run' = NoRun
  /\ UNCHANGED <<due, waiting>>

\* A statement or lock timeout, a deadlock or a serialization failure: the
\* project is marked as failed and the run goes on with the next.
ProjectFails ==
  /\ Running
  /\ \/ Current \in Unruly /\ UNCHANGED faults
     \/ Fault
  /\ order' = Checked(Current) /\ waiting' = waiting \cup {Current}
  /\ GoesOn /\ UNCHANGED due

\* The mark itself fails, or the deadline has passed.
MarkIsLost ==
  /\ Running /\ Fault
  /\ GoesOn /\ UNCHANGED <<due, order, waiting>>

\* Any other error ends the run, as a crash does, and nothing is marked.
Abort ==
  /\ Running /\ Fault
  /\ run' = NoRun
  /\ UNCHANGED <<due, order, waiting>>

Work == DeleteBatch \/ CutShort \/ ProjectFails

Next ==
  \/ \E p \in Project : RowsExpire(p) \/ RetryComes(p)
  \/ BeginRun \/ Work \/ TimeIsUp \/ MarkIsLost \/ Abort

\* The timer fires again after each run, statements return or time out, and 15
\* minutes pass.
Spec ==
  /\ Init /\ [][Next]_vars
  /\ WF_vars(BeginRun) /\ WF_vars(Work)
  /\ \A p \in Project : WF_vars(RetryComes(p))

-----------------------------------------------------------------------------
\* The order is one of all projects, and a run stays within its budgets.
TypeOK ==
  /\ due \in [Project -> Row]
  /\ order \in Seq(Project) /\ ToSet(order) = Project /\ Len(order) = Cardinality(Project)
  /\ waiting \subseteq Project
  /\ run.todo \in Seq(Project) /\ Len(run.todo) <= MaxProjects
  /\ run.table \in Table /\ run.rows \in 0 .. MaxRows
  /\ faults \in 0 .. MaxFaults

\* "Fair round-robin": the expired rows of every project are deleted again and
\* again, however many rows another project has and however often it fails.
EveryProjectIsSwept == \A p \in Project \ Unruly : []<>(due[p] = Clean)
=============================================================================
