----------------------------- MODULE Experiments -----------------------------
(***************************************************************************)
(* Feature flags and the experiments that measure them (services/flags.ts, *)
(* services/experiments.ts).  Starting an experiment freezes the variants  *)
(* of its flag and its metric; until it is concluded the flag must not     *)
(* change under it.  Nothing but row locks enforces that: a transaction on *)
(* an experiment locks its row and then that of the flag, one on a flag    *)
(* locks the flag and then looks for running experiments.                  *)
(*                                                                         *)
(* Percentages are counted in halves.  A transaction writes nothing that   *)
(* others see before it commits, so its writes and COMMIT are one step.    *)
(***************************************************************************)
EXTENDS Naturals, FiniteSets, FiniteSetsExt

CONSTANTS
  Flag, Experiment, Variant, Metric,
  FlagOf,        \* the flag of an experiment
  Request,       \* API requests being served
  None

ExperimentsAssumption ==
  FlagOf \in [Experiment -> Flag] /\ None \notin Flag \cup Experiment \cup Metric \cup Variant

Total(split) == MapThenSumSet(LAMBDA v : split[v], Variant)

\* feature_flags.variants: never more than 100 %.
Split  == {split \in [Variant -> 0 .. 2] : Total(split) <= 2}
Only(v) == [w \in Variant |-> IF w = v THEN 2 ELSE 0]

VARIABLES
  flag,          \* feature_flags: status and variants
  exp,           \* experiments
  tx             \* the transaction of a request: what it does and has locked

vars == <<flag, exp, tx>>

NoFlag == [status |-> "absent", variants |-> None]
NoExp  == [status |-> "absent", scoped |-> FALSE, control |-> None, metric |-> None,
           frozen |-> None, measured |-> None, ships |-> None]
NoTx   == [op |-> "none", exp |-> None, flag |-> None, checked |-> FALSE]

Init ==
  /\ flag = [f \in Flag |-> NoFlag]
  /\ exp = [x \in Experiment |-> NoExp]
  /\ tx = [r \in Request |-> NoTx]

-----------------------------------------------------------------------------
(* Requests of a single statement or transaction.                           *)

CreateFlag(f) ==
  /\ flag[f] = NoFlag
  /\ \E status \in {"draft", "active"}, split \in Split :
       flag' = [flag EXCEPT ![f] = [status |-> status, variants |-> split]]
  /\ UNCHANGED <<exp, tx>>

\* Of the drafts, those that name an env (that of the flag) and a control variant
\* are tried, and legacy ones that name neither.
Draft(x, control) ==
  \E metric \in Metric :
    exp' = [exp EXCEPT ![x] =
      [status |-> "draft", scoped |-> control # None, control |-> control, metric |-> metric,
       frozen |-> None, measured |-> None, ships |-> None]]

CreateExperiment(x) ==
  /\ exp[x] = NoExp /\ flag[FlagOf[x]] # NoFlag
  /\ \E control \in Variant \cup {None} : Draft(x, control)
  /\ UNCHANGED <<flag, tx>>

\* prepareExperiment inserts both in one transaction.
PrepareExperiment(x) ==
  /\ exp[x] = NoExp /\ flag[FlagOf[x]] = NoFlag
  /\ \E split \in Split :
       flag' = [flag EXCEPT ![FlagOf[x]] = [status |-> "draft", variants |-> split]]
  /\ \E control \in Variant : Draft(x, control)
  /\ UNCHANGED tx

-----------------------------------------------------------------------------
(* Locks.                                                                   *)

RunningOn(f) == {x \in Experiment : FlagOf[x] = f /\ exp[x].status = "running"}

\* Mutant: a running experiment may be edited.
NeededLoosely == [edit |-> {"draft", "running"}, start |-> {"draft"}, launch |-> {"draft"},
                  conclude |-> {"running"}, apply |-> {"running"}]
Needed == [edit |-> {"draft"}, start |-> {"draft"}, launch |-> {"draft"},
           conclude |-> {"running"}, apply |-> {"running"}]

\* getExperiment with FOR UPDATE, and the test of its status.
LockExperiment(r, op, x) ==
  /\ tx[r] = NoTx /\ \A q \in Request : tx[q].exp # x
  /\ exp[x].status \in Needed[op]
  /\ op = "apply" => exp[x].scoped
  /\ tx' = [tx EXCEPT ![r] = [op |-> op, exp |-> x, flag |-> None, checked |-> FALSE]]
  /\ UNCHANGED <<flag, exp>>

\* Mutant: the flag is read without FOR UPDATE.
FlagIsRead(f) == TRUE
FlagIsFree(f) == \A q \in Request : tx[q].flag # f

\* validateExperimentFlag.
Startable(f) == flag[f].status = "active" /\ Total(flag[f].variants) = 2

\* buildExperimentReadiness.
Launchable(x, f) ==
  /\ flag[f].status = "draft" /\ exp[x].scoped
  /\ Cardinality({v \in Variant : flag[f].variants[v] > 0}) >= 2
  /\ Total(flag[f].variants) = 2
  /\ exp[x].control # None /\ flag[f].variants[exp[x].control] > 0
  /\ RunningOn(f) \ {x} = {}

\* getFeatureFlag with FOR UPDATE, and what is tested and read under both locks.
LockFlag(r) ==
  LET x == tx[r].exp
      f == FlagOf[x]
  IN
  /\ tx[r].op \in {"start", "launch", "apply"} /\ tx[r].flag = None
  /\ FlagIsFree(f)
  /\ tx[r].op = "start" => Startable(f)
  /\ tx[r].op = "launch" => Launchable(x, f)
  /\ tx' = [tx EXCEPT ![r].flag = f]
  /\ UNCHANGED <<flag, exp>>

\* Requests on a flag lock it alone.
LockFlagOnly(r, op, f) ==
  /\ tx[r] = NoTx /\ FlagIsFree(f)
  /\ flag[f] # NoFlag /\ (op = "change" => flag[f].status # "archived")
  /\ tx' = [tx EXCEPT ![r] = [op |-> op, exp |-> None, flag |-> f, checked |-> FALSE]]
  /\ UNCHANGED <<flag, exp>>

\* ensureNoRunningExperiment.
CheckRunning(r) ==
  /\ tx[r].op \in {"change", "archive"} /\ ~tx[r].checked
  /\ RunningOn(tx[r].flag) = {}
  /\ tx' = [tx EXCEPT ![r].checked = TRUE]
  /\ UNCHANGED <<flag, exp>>

-----------------------------------------------------------------------------
(* Writes, with the COMMIT.                                                 *)

\* The UPDATE of an experiment repeats the test of its status.
Ends(r, op) ==
  /\ tx[r].op = op
  /\ op \in DOMAIN Needed => exp[tx[r].exp].status \in Needed[op]
  /\ tx' = [tx EXCEPT ![r] = NoTx]

EditExperiment(r) ==
  /\ Ends(r, "edit")
  /\ \E m \in Metric : exp' = [exp EXCEPT ![tx[r].exp].metric = m]
  /\ UNCHANGED flag

\* The definitions are frozen as they were read.
Started(x, control) ==
  exp' = [exp EXCEPT ![x] = [exp[x] EXCEPT !.status = "running", !.control = control,
            !.frozen = flag[FlagOf[x]].variants, !.measured = exp[x].metric]]

\* Without a control variant the first one is taken, whether it gets traffic or not.
StartExperiment(r) ==
  LET x == tx[r].exp IN
  /\ Ends(r, "start") /\ tx[r].flag # None
  /\ \E first \in Variant : Started(x, IF exp[x].control = None THEN first ELSE exp[x].control)
  /\ UNCHANGED flag

LaunchExperiment(r) ==
  LET x == tx[r].exp IN
  /\ Ends(r, "launch") /\ tx[r].flag # None /\ flag[tx[r].flag].status = "draft"
  /\ Started(x, exp[x].control)
  /\ flag' = [flag EXCEPT ![tx[r].flag].status = "active"]

ConcludeExperiment(r) ==
  /\ Ends(r, "conclude")
  /\ exp' = [exp EXCEPT ![tx[r].exp].status = "concluded"]
  /\ UNCHANGED flag

\* The decision may roll one variant out.
ApplyDecision(r) ==
  /\ Ends(r, "apply") /\ tx[r].flag # None
  /\ \/ /\ exp' = [exp EXCEPT ![tx[r].exp].status = "concluded"]
        /\ UNCHANGED flag
     \/ \E v \in Variant :
          /\ exp' = [exp EXCEPT ![tx[r].exp].status = "concluded", ![tx[r].exp].ships = v]
          /\ flag' = [flag EXCEPT ![tx[r].flag] = [status |-> "active", variants |-> Only(v)]]

ChangeFlag(r) ==
  /\ Ends(r, "change") /\ tx[r].checked
  /\ \E status \in {"draft", "active"}, split \in Split :
       flag' = [flag EXCEPT ![tx[r].flag] = [status |-> status, variants |-> split]]
  /\ UNCHANGED exp

ArchiveFlag(r) ==
  /\ Ends(r, "archive") /\ tx[r].checked
  /\ flag' = [flag EXCEPT ![tx[r].flag].status = "archived"]
  /\ UNCHANGED exp

\* A refused request or a failed statement rolls back.  So does a start or a
\* launch when the metric is not active: its row is not locked, so it may become
\* inactive at any moment.
Rollback(r) ==
  /\ tx[r] # NoTx
  /\ tx' = [tx EXCEPT ![r] = NoTx]
  /\ UNCHANGED <<flag, exp>>

Serve(r) ==
  \/ \E x \in Experiment, op \in DOMAIN Needed : LockExperiment(r, op, x)
  \/ \E f \in Flag, op \in {"change", "archive"} : LockFlagOnly(r, op, f)
  \/ LockFlag(r) \/ CheckRunning(r) \/ Rollback(r)
  \/ EditExperiment(r) \/ StartExperiment(r) \/ LaunchExperiment(r)
  \/ ConcludeExperiment(r) \/ ApplyDecision(r) \/ ChangeFlag(r) \/ ArchiveFlag(r)

Next ==
  \/ \E f \in Flag : CreateFlag(f)
  \/ \E x \in Experiment : CreateExperiment(x) \/ PrepareExperiment(x)
  \/ \E r \in Request : Serve(r)

Spec == Init /\ [][Next]_vars

-----------------------------------------------------------------------------
\* Every flag, experiment and transaction has its type, and a started experiment
\* has its snapshots.
TypeOK ==
  /\ \A f \in Flag : flag[f] # NoFlag =>
       flag[f].status \in {"draft", "active", "archived"} /\ flag[f].variants \in Split
  /\ \A x \in Experiment :
       /\ exp[x].status \in {"absent", "draft", "running", "concluded"}
       /\ exp[x] # NoExp => exp[x].metric \in Metric /\ flag[FlagOf[x]] # NoFlag
       /\ exp[x].status \in {"running", "concluded"} =>
            exp[x].frozen \in Split /\ exp[x].control \in Variant
  /\ \A r \in Request : tx[r].exp \in Experiment \cup {None} /\ tx[r].flag \in Flag \cup {None}

\* While an experiment runs, its flag is on, with the variants that were
\* frozen: its results can be read against the allocation that visitors got.
\* One thing changes it under a running experiment, the decision of another one
\* on the same flag: launch refuses a second experiment, the legacy start does not.
RunningFlagIsFrozen ==
  \A x \in Experiment : exp[x].status = "running" =>
    LET now == flag[FlagOf[x]] IN
    /\ now.status = "active" /\ exp[x].measured = exp[x].metric
    /\ \/ now.variants = exp[x].frozen
       \/ \E y \in Experiment \ {x} :
            FlagOf[y] = FlagOf[x] /\ exp[y].ships # None /\ now.variants = Only(exp[y].ships)

\* What an experiment measures is settled when it starts, and it is concluded
\* once: no draft edit, start, launch or decision that was under way then
\* changes the row.
StartedIsSettled ==
  [][\A x \in Experiment :
       /\ exp[x].status = "concluded" => exp'[x] = exp[x]
       /\ exp[x].status = "running" /\ exp'[x] # exp[x] =>
            \E v \in Variant \cup {None} :
              exp'[x] = [exp[x] EXCEPT !.status = "concluded", !.ships = v]]_vars
=============================================================================
