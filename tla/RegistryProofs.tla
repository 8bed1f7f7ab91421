--------------------------- MODULE RegistryProofs ---------------------------
(***************************************************************************)
(* Theorems about what is defined and reviewed in a project, for any       *)
(* number of definitions and requests.                                     *)
(*                                                                         *)
(* Experiments: a running experiment keeps the flag and the definitions it *)
(* started with (RunningFlagIsFrozen), and a started one is settled        *)
(* (StartedIsSettled).                                                     *)
(*                                                                         *)
(* MetricRegistry: whatever registers, changes, deletes and registers a    *)
(* metric again, its revisions account for its definition, and a reviewed  *)
(* change is applied to nothing but what was reviewed (RegistryIsKept).    *)
(***************************************************************************)
EXTENDS Experiments, MetricRegistry, TLAPS

-----------------------------------------------------------------------------
(* The inductive invariant.                                                 *)

Halves  == [Variant -> 0 .. 2]
Status  == {"absent", "draft", "running", "concluded"}
OnExp   == {"edit", "start", "launch", "conclude", "apply"}
OnFlag  == {"change", "archive"}
FlagRow == [status : {"absent", "draft", "active", "archived"}, variants : Halves \cup {None}]
ExpRow  == [status : Status, scoped : BOOLEAN, control : Variant \cup {None},
            metric : Metric \cup {None}, frozen : Halves \cup {None},
            measured : Metric \cup {None}, ships : Variant \cup {None}]
TxRow   == [op : OnExp \cup OnFlag \cup {"none"}, exp : Experiment \cup {None},
            flag : Flag \cup {None}, checked : BOOLEAN]

TypeInv ==
  /\ flag \in [Flag -> FlagRow]
  /\ exp \in [Experiment -> ExpRow]
  /\ tx \in [Request -> TxRow]

\* A row is locked by one transaction at a time.
LocksApart ==
  \A r, q \in Request : r # q =>
    /\ tx[r].exp # None => tx[r].exp # tx[q].exp
    /\ tx[r].flag # None => tx[r].flag # tx[q].flag

\* A transaction on an experiment holds its row, in the status the request needs,
\* and perhaps that of its flag.
ExpTxInv(r) ==
  tx[r].op \in OnExp =>
    LET x == tx[r].exp IN
    /\ x \in Experiment
    /\ exp[x].status = IF tx[r].op \in {"conclude", "apply"} THEN "running" ELSE "draft"
    /\ tx[r].flag # None =>
         /\ tx[r].flag = FlagOf[x]
         /\ tx[r].op = "start" => flag[FlagOf[x]].status = "active"
         /\ tx[r].op = "launch" => RunningOn(FlagOf[x]) = {}

\* A transaction on a flag holds its row, and what it has checked holds on.
FlagTxInv(r) ==
  tx[r].op \in OnFlag =>
    /\ tx[r].flag \in Flag
    /\ tx[r].checked => RunningOn(tx[r].flag) = {}

TxInv == \A r \in Request : ExpTxInv(r) /\ FlagTxInv(r)

\* Only a decision ships a variant.
ShipsInv == \A x \in Experiment : exp[x].status \in {"absent", "draft"} => exp[x].ships = None

ExperimentsInv == TypeInv /\ LocksApart /\ TxInv /\ ShipsInv /\ RunningFlagIsFrozen

-----------------------------------------------------------------------------
(* Records, written out.                                                    *)

LEMMA EmptyRows ==
  /\ NoFlag \in FlagRow /\ NoFlag.status = "absent"
  /\ NoExp \in ExpRow /\ NoExp.status = "absent" /\ NoExp.ships = None
  /\ NoTx \in TxRow /\ NoTx.op = "none" /\ NoTx.exp = None /\ NoTx.flag = None
BY DEF NoFlag, FlagRow, NoExp, ExpRow, Status, NoTx, TxRow

LEMMA NeededIs ==
  /\ DOMAIN Needed = OnExp
  /\ \A op \in OnExp : \A s :
       s \in Needed[op] <=> s = IF op \in {"conclude", "apply"} THEN "running" ELSE "draft"
BY DEF Needed, OnExp

LEMMA DraftIs ==
  ASSUME NEW x \in Experiment, NEW control \in Variant \cup {None}, Draft(x, control)
  PROVE  \E d \in ExpRow :
           d.status = "draft" /\ d.ships = None /\ exp' = [exp EXCEPT ![x] = d]
<1>1. PICK m \in Metric :
        exp' = [exp EXCEPT ![x] =
          [status |-> "draft", scoped |-> control # None, control |-> control, metric |-> m,
           frozen |-> None, measured |-> None, ships |-> None]]
  BY DEF Draft
<1> DEFINE scoped == control # None
           d == [status |-> "draft", scoped |-> scoped, control |-> control, metric |-> m,
                 frozen |-> None, measured |-> None, ships |-> None]
<1>2. scoped \in BOOLEAN
  OBVIOUS
<1> HIDE DEF scoped
<1>3. d \in ExpRow /\ d.status = "draft" /\ d.ships = None
  BY <1>2 DEF ExpRow, Status
<1>4. exp' = [exp EXCEPT ![x] = d]
  BY <1>1 DEF scoped
<1> QED
  BY <1>3, <1>4

\* A transaction that ends lets go of its rows.
LEMMA EndTx ==
  ASSUME TypeInv, LocksApart, NEW r \in Request, tx' = [tx EXCEPT ![r] = NoTx]
  PROVE  /\ tx' \in [Request -> TxRow] /\ LocksApart'
         /\ ~ (tx'[r].op \in OnExp \cup OnFlag)
         /\ \A q \in Request : q # r => tx'[q] = tx[q]
BY EmptyRows DEF TypeInv, LocksApart, OnExp, OnFlag
-----------------------------------------------------------------------------
(* New rows.                                                                *)

\* A flag that is not there is neither locked nor measured.
LEMMA NewFlag ==
  ASSUME ExperimentsAssumption, ExperimentsInv, NEW f \in Flag, flag[f] = NoFlag,
         NEW n \in FlagRow, flag' = [flag EXCEPT ![f] = n], UNCHANGED <<exp, tx>>
  PROVE  ExperimentsInv'
<1> USE EmptyRows DEF ExperimentsInv, TypeInv
<1>1. TypeInv' /\ LocksApart' /\ ShipsInv'
  BY DEF LocksApart, ShipsInv
<1>2. TxInv'
  BY DEF TxInv, ExpTxInv, FlagTxInv, RunningOn
<1>3. RunningFlagIsFrozen'
  BY DEF RunningFlagIsFrozen, ExperimentsAssumption
<1> QED
  BY <1>1, <1>2, <1>3

LEMMA NewExperiment ==
  ASSUME ExperimentsAssumption, ExperimentsInv, NEW x \in Experiment, exp[x] = NoExp,
         NEW control \in Variant \cup {None}, Draft(x, control), UNCHANGED <<flag, tx>>
  PROVE  ExperimentsInv'
<1> USE EmptyRows DEF ExperimentsInv, TypeInv
<1>1. PICK d \in ExpRow :
        d.status = "draft" /\ d.ships = None /\ exp' = [exp EXCEPT ![x] = d]
  BY DraftIs
<1>2. TypeInv' /\ LocksApart' /\ ShipsInv'
  BY <1>1 DEF LocksApart, ShipsInv
<1>3. \A f : RunningOn(f)' = RunningOn(f)
  BY <1>1 DEF RunningOn
<1>4. TxInv'
  BY <1>1, <1>3 DEF TxInv, ExpTxInv, FlagTxInv
<1>5. RunningFlagIsFrozen'
  BY <1>1 DEF RunningFlagIsFrozen
<1> QED
  BY <1>2, <1>4, <1>5

LEMMA CreateFlagStep ==
  ASSUME ExperimentsAssumption, ExperimentsInv, NEW f \in Flag, CreateFlag(f)
  PROVE  ExperimentsInv'
<1>1. PICK status \in {"draft", "active"}, split \in Split :
        flag' = [flag EXCEPT ![f] = [status |-> status, variants |-> split]]
  BY DEF CreateFlag
<1>2. [status |-> status, variants |-> split] \in FlagRow
  BY DEF FlagRow, Split, Halves
<1> QED
  BY <1>1, <1>2, NewFlag DEF CreateFlag

LEMMA CreateExperimentStep ==
  ASSUME ExperimentsAssumption, ExperimentsInv, NEW x \in Experiment, CreateExperiment(x)
  PROVE  ExperimentsInv'
BY NewExperiment DEF CreateExperiment

LEMMA PrepareExperimentStep ==
  ASSUME ExperimentsAssumption, ExperimentsInv, NEW x \in Experiment, PrepareExperiment(x)
  PROVE  ExperimentsInv'
<1> USE EmptyRows DEF ExperimentsInv, TypeInv, ExperimentsAssumption
<1>1. PICK split \in Split :
        flag' = [flag EXCEPT ![FlagOf[x]] = [status |-> "draft", variants |-> split]]
  BY DEF PrepareExperiment
<1> DEFINE n == [status |-> "draft", variants |-> split]
<1>2. n \in FlagRow /\ flag' = [flag EXCEPT ![FlagOf[x]] = n]
  BY <1>1 DEF FlagRow, Split, Halves
<1> HIDE DEF n
<1>3. PICK d \in ExpRow :
        d.status = "draft" /\ d.ships = None /\ exp' = [exp EXCEPT ![x] = d]
  BY DraftIs DEF PrepareExperiment
<1>4. exp[x] = NoExp /\ flag[FlagOf[x]] = NoFlag /\ UNCHANGED tx
  BY DEF PrepareExperiment
<1>5. TypeInv' /\ LocksApart' /\ ShipsInv'
  BY <1>2, <1>3, <1>4 DEF LocksApart, ShipsInv
<1>6. \A f : RunningOn(f)' = RunningOn(f)
  BY <1>3, <1>4 DEF RunningOn
<1>7. TxInv'
  BY <1>2, <1>3, <1>4, <1>6 DEF TxInv, ExpTxInv, FlagTxInv
<1>8. RunningFlagIsFrozen'
  BY <1>2, <1>3, <1>4 DEF RunningFlagIsFrozen
<1> QED
  BY <1>5, <1>7, <1>8

-----------------------------------------------------------------------------
(* Locks.                                                                   *)

LEMMA LockExperimentStep ==
  ASSUME ExperimentsAssumption, ExperimentsInv, NEW r \in Request, NEW op \in OnExp,
         NEW x \in Experiment, LockExperiment(r, op, x)
  PROVE  ExperimentsInv'
<1> USE EmptyRows DEF ExperimentsInv, TypeInv, ExperimentsAssumption
<1> DEFINE t == [op |-> op, exp |-> x, flag |-> None, checked |-> FALSE]
<1>1. t \in TxRow /\ t.op = op /\ t.exp = x /\ t.flag = None
  BY DEF TxRow
<1>2. /\ tx' = [tx EXCEPT ![r] = t] /\ UNCHANGED <<flag, exp>>
      /\ \A q \in Request : tx[q].exp # x
  BY DEF LockExperiment
<1>3. exp[x].status = IF op \in {"conclude", "apply"} THEN "running" ELSE "draft"
  BY NeededIs DEF LockExperiment
<1> HIDE DEF t
<1>4. TypeInv' /\ LocksApart' /\ ShipsInv' /\ RunningFlagIsFrozen'
  BY <1>1, <1>2 DEF LocksApart, ShipsInv, RunningFlagIsFrozen
<1>5. TxInv'
  BY <1>1, <1>2, <1>3 DEF TxInv, ExpTxInv, FlagTxInv, RunningOn, OnExp, OnFlag
<1> QED
  BY <1>4, <1>5

LEMMA LockFlagStep ==
  ASSUME ExperimentsAssumption, ExperimentsInv, NEW r \in Request, LockFlag(r)
  PROVE  ExperimentsInv'
<1> USE EmptyRows DEF ExperimentsInv, TypeInv, ExperimentsAssumption
<1>1. PICK x, f : x = tx[r].exp /\ f = FlagOf[x]
  OBVIOUS
<1>2. /\ tx[r].op \in {"start", "launch", "apply"} /\ tx[r].flag = None
      /\ FlagIsFree(f)
      /\ tx[r].op = "start" => flag[f].status = "active"
      /\ tx[r].op = "launch" => RunningOn(f) \ {x} = {}
      /\ tx' = [tx EXCEPT ![r].flag = f] /\ UNCHANGED <<flag, exp>>
  BY <1>1 DEF LockFlag, Startable, Launchable
<1>3. x \in Experiment /\ f \in Flag
  BY <1>1, <1>2 DEF TxInv, ExpTxInv, OnExp
<1>4. tx[r].op = "launch" => RunningOn(f) = {}
  BY <1>1, <1>2, <1>3 DEF TxInv, ExpTxInv, OnExp, RunningOn
<1>5. /\ tx'[r].op = tx[r].op /\ tx'[r].exp = x /\ tx'[r].flag = f
      /\ \A q \in Request : q # r => tx'[q] = tx[q]
      /\ tx' \in [Request -> TxRow]
  BY <1>1, <1>2, <1>3 DEF TxRow
<1>6. TypeInv' /\ ShipsInv' /\ RunningFlagIsFrozen'
  BY <1>2, <1>5 DEF ShipsInv, RunningFlagIsFrozen
<1>7. LocksApart'
  BY <1>1, <1>2, <1>5 DEF LocksApart, FlagIsFree
<1>8. TxInv'
  BY <1>1, <1>2, <1>4, <1>5 DEF TxInv, ExpTxInv, FlagTxInv, RunningOn, OnExp, OnFlag
<1> QED
  BY <1>6, <1>7, <1>8

LEMMA LockFlagOnlyStep ==
  ASSUME ExperimentsAssumption, ExperimentsInv, NEW r \in Request, NEW op \in OnFlag,
         NEW f \in Flag, LockFlagOnly(r, op, f)
  PROVE  ExperimentsInv'
<1> USE EmptyRows DEF ExperimentsInv, TypeInv, ExperimentsAssumption
<1> DEFINE t == [op |-> op, exp |-> None, flag |-> f, checked |-> FALSE]
<1>1. t \in TxRow /\ t.op = op /\ t.exp = None /\ t.flag = f /\ ~t.checked
  BY DEF TxRow
<1>2. tx' = [tx EXCEPT ![r] = t] /\ UNCHANGED <<flag, exp>> /\ FlagIsFree(f)
  BY DEF LockFlagOnly
<1> HIDE DEF t
<1>3. TypeInv' /\ ShipsInv' /\ RunningFlagIsFrozen'
  BY <1>1, <1>2 DEF ShipsInv, RunningFlagIsFrozen
<1>4. LocksApart'
  BY <1>1, <1>2 DEF LocksApart, FlagIsFree
<1>5. TxInv'
  BY <1>1, <1>2 DEF TxInv, ExpTxInv, FlagTxInv, RunningOn, OnExp, OnFlag
<1> QED
  BY <1>3, <1>4, <1>5

LEMMA CheckRunningStep ==
  ASSUME ExperimentsAssumption, ExperimentsInv, NEW r \in Request, CheckRunning(r)
  PROVE  ExperimentsInv'
<1> USE DEF ExperimentsInv, TypeInv
<1>1. /\ tx[r].op \in OnFlag /\ RunningOn(tx[r].flag) = {} /\ UNCHANGED <<flag, exp>>
      /\ tx' = [tx EXCEPT ![r].checked = TRUE]
  BY DEF CheckRunning, OnFlag
<1>2. /\ tx'[r].op = tx[r].op /\ tx'[r].exp = tx[r].exp /\ tx'[r].flag = tx[r].flag
      /\ \A q \in Request : q # r => tx'[q] = tx[q]
      /\ tx' \in [Request -> TxRow]
  BY <1>1 DEF TxRow
<1>3. TypeInv' /\ ShipsInv' /\ RunningFlagIsFrozen' /\ LocksApart'
  BY <1>1, <1>2 DEF ShipsInv, RunningFlagIsFrozen, LocksApart
<1>4. TxInv'
  BY <1>1, <1>2 DEF TxInv, ExpTxInv, FlagTxInv, RunningOn, OnExp, OnFlag
<1> QED
  BY <1>3, <1>4
-----------------------------------------------------------------------------
(* Writes.                                                                  *)

\* What a request that ends holds, and that it holds it alone.
LEMMA Ending ==
  ASSUME ExperimentsInv, NEW r \in Request, NEW op \in OnExp \cup OnFlag, Ends(r, op)
  PROVE  /\ tx[r].op = op /\ tx' = [tx EXCEPT ![r] = NoTx]
         /\ tx' \in [Request -> TxRow] /\ LocksApart'
         /\ ~ (tx'[r].op \in OnExp \cup OnFlag)
         /\ \A q \in Request : q # r => tx'[q] = tx[q]
BY EndTx DEF ExperimentsInv, Ends

\* A write of an experiment that neither starts it nor touches its flag.
LEMMA WriteExperiment ==
  ASSUME ExperimentsAssumption, ExperimentsInv, NEW r \in Request, NEW op \in OnExp, Ends(r, op),
         NEW d \in ExpRow, exp' = [exp EXCEPT ![tx[r].exp] = d], UNCHANGED flag,
         d.status \in {"draft", "concluded"}, d.status = "draft" => d.ships = None,
         exp[tx[r].exp].ships # None => d.ships = exp[tx[r].exp].ships,
         exp[tx[r].exp].status = "running" => d.status = "concluded"
  PROVE  ExperimentsInv'
<1> USE DEF ExperimentsInv, TypeInv, ExperimentsAssumption
<1>1. PICK x : x = tx[r].exp
  OBVIOUS
<1>2. /\ x \in Experiment /\ exp' = [exp EXCEPT ![x] = d]
      /\ tx[r].op = op /\ tx'[r].op \notin OnExp \cup OnFlag
      /\ tx' \in [Request -> TxRow] /\ LocksApart'
      /\ \A q \in Request : q # r => tx'[q] = tx[q] /\ tx[q].exp # x
  <2>1. /\ tx[r].op = op /\ tx'[r].op \notin OnExp \cup OnFlag
        /\ tx' \in [Request -> TxRow] /\ LocksApart'
        /\ \A q \in Request : q # r => tx'[q] = tx[q]
    BY Ending
  <2>2. x \in Experiment
    BY <1>1, <2>1 DEF TxInv, ExpTxInv
  <2>3. \A q \in Request : q # r => tx[q].exp # x
    BY <1>1, <2>2 DEF LocksApart
  <2> QED
    BY <1>1, <2>1, <2>2, <2>3
<1>3. TypeInv' /\ ShipsInv'
  BY <1>2 DEF ShipsInv
<1>4. TxInv'
  BY <1>2 DEF TxInv, ExpTxInv, FlagTxInv, RunningOn
<1>5. RunningFlagIsFrozen'
  BY <1>1, <1>2 DEF RunningFlagIsFrozen
<1> QED
  BY <1>2, <1>3, <1>4, <1>5

LEMMA EditExperimentStep ==
  ASSUME ExperimentsAssumption, ExperimentsInv, NEW r \in Request, EditExperiment(r)
  PROVE  ExperimentsInv'
<1>1. PICK m \in Metric : exp' = [exp EXCEPT ![tx[r].exp].metric = m]
  BY DEF EditExperiment
<1>2. Ends(r, "edit") /\ UNCHANGED flag /\ "edit" \in OnExp
  BY DEF EditExperiment, OnExp
<1>3. tx[r].exp \in Experiment /\ exp[tx[r].exp].status = "draft"
  BY <1>2, Ending DEF ExperimentsInv, TxInv, ExpTxInv
<1>4. PICK d : d = [exp[tx[r].exp] EXCEPT !.metric = m]
  OBVIOUS
<1>5. /\ d \in ExpRow /\ d.status = "draft" /\ d.ships = None
      /\ exp[tx[r].exp].ships = None
  BY <1>3, <1>4 DEF ExperimentsInv, TypeInv, ExpRow, ShipsInv
<1>6. exp' = [exp EXCEPT ![tx[r].exp] = d]
  BY <1>1, <1>4
<1> QED
  BY <1>2, <1>3, <1>5, <1>6, WriteExperiment

LEMMA ConcludeExperimentStep ==
  ASSUME ExperimentsAssumption, ExperimentsInv, NEW r \in Request, ConcludeExperiment(r)
  PROVE  ExperimentsInv'
<1>1. /\ Ends(r, "conclude") /\ UNCHANGED flag /\ "conclude" \in OnExp
      /\ exp' = [exp EXCEPT ![tx[r].exp].status = "concluded"]
  BY DEF ConcludeExperiment, OnExp
<1>2. tx[r].exp \in Experiment
  BY <1>1, Ending DEF ExperimentsInv, TxInv, ExpTxInv
<1>3. PICK d : d = [exp[tx[r].exp] EXCEPT !.status = "concluded"]
  OBVIOUS
<1>4. d \in ExpRow /\ d.status = "concluded" /\ d.ships = exp[tx[r].exp].ships
  BY <1>2, <1>3 DEF ExperimentsInv, TypeInv, ExpRow, Status
<1>5. exp' = [exp EXCEPT ![tx[r].exp] = d]
  BY <1>1, <1>3
<1> QED
  BY <1>1, <1>4, <1>5, WriteExperiment

\* A decision that rolls a variant out leaves the flag to it alone.
LEMMA ApplyDecisionStep ==
  ASSUME ExperimentsAssumption, ExperimentsInv, NEW r \in Request, ApplyDecision(r)
  PROVE  ExperimentsInv'
<1> USE DEF ExperimentsInv, TypeInv, ExperimentsAssumption
<1>1. PICK x : x = tx[r].exp
  OBVIOUS
<1>2. /\ Ends(r, "apply") /\ "apply" \in OnExp /\ tx[r].flag # None
  BY DEF ApplyDecision, OnExp
<1>3. x \in Experiment /\ exp[x].status = "running" /\ tx[r].flag = FlagOf[x]
  BY <1>1, <1>2, Ending DEF TxInv, ExpTxInv
<1>4. CASE exp' = [exp EXCEPT ![x].status = "concluded"] /\ UNCHANGED flag
  <2>1. PICK d : d = [exp[x] EXCEPT !.status = "concluded"]
    OBVIOUS
  <2>2. d \in ExpRow /\ d.status = "concluded" /\ d.ships = exp[x].ships
    BY <1>3, <2>1 DEF ExpRow, Status
  <2>3. exp' = [exp EXCEPT ![x] = d]
    BY <1>4, <2>1
  <2> QED
    BY <1>1, <1>2, <1>4, <2>2, <2>3, WriteExperiment
<1>5. ASSUME NEW v \in Variant,
             exp' = [exp EXCEPT ![x].status = "concluded", ![x].ships = v],
             flag' = [flag EXCEPT ![tx[r].flag] = [status |-> "active", variants |-> Only(v)]]
      PROVE  ExperimentsInv'
  <2>1. PICK d : d = [exp[x] EXCEPT !.status = "concluded", !.ships = v]
    OBVIOUS
  <2>2. d \in ExpRow /\ d.status = "concluded" /\ d.ships = v
    BY <1>3, <2>1 DEF ExpRow, Status
  <2>3. exp' = [exp EXCEPT ![x] = d]
    BY <1>3, <1>5, <2>1
  <2>4. PICK n : n = [status |-> "active", variants |-> Only(v)]
    OBVIOUS
  <2>5. n \in FlagRow /\ n.status = "active" /\ n.variants = Only(v)
    BY <2>4 DEF FlagRow, Only, Halves
  <2>6. flag' = [flag EXCEPT ![FlagOf[x]] = n]
    BY <1>3, <1>5, <2>4
  <2>7. /\ tx[r].op = "apply" /\ tx'[r].op \notin OnExp \cup OnFlag
        /\ tx' \in [Request -> TxRow] /\ LocksApart'
        /\ \A q \in Request : q # r => /\ tx'[q] = tx[q] /\ tx[q].exp # x
                                       /\ tx[q].flag # FlagOf[x]
    BY <1>1, <1>2, <1>3, Ending DEF LocksApart
  <2>8. TypeInv' /\ ShipsInv'
    BY <1>3, <2>2, <2>3, <2>5, <2>6, <2>7 DEF ShipsInv
  <2>9. TxInv'
    BY <1>3, <2>2, <2>3, <2>6, <2>7 DEF TxInv, ExpTxInv, FlagTxInv, RunningOn
  <2>10. RunningFlagIsFrozen'
    BY <1>3, <2>2, <2>3, <2>5, <2>6 DEF RunningFlagIsFrozen
  <2> QED
    BY <2>7, <2>8, <2>9, <2>10
<1> QED
  BY <1>1, <1>4, <1>5 DEF ApplyDecision

\* Starting: the flag is on, and says what is frozen.
LEMMA StartedIs ==
  ASSUME ExperimentsAssumption, ExperimentsInv, NEW x \in Experiment,
         NEW control \in Variant \cup {None},
         exp[x].status = "draft", flag[FlagOf[x]].status # "absent", Started(x, control)
  PROVE  \E d \in ExpRow :
           /\ exp' = [exp EXCEPT ![x] = d]
           /\ d.status = "running" /\ d.ships = None /\ d.measured = d.metric
           /\ d.frozen = flag[FlagOf[x]].variants
<1> USE DEF ExperimentsInv, TypeInv, ExperimentsAssumption
<1>1. PICK d : d = [exp[x] EXCEPT !.status = "running", !.control = control,
                      !.frozen = flag[FlagOf[x]].variants, !.measured = exp[x].metric]
  OBVIOUS
<1>2. exp' = [exp EXCEPT ![x] = d]
  BY <1>1 DEF Started
<1>3. flag[FlagOf[x]].variants \in Halves \cup {None} /\ exp[x] \in ExpRow
  BY DEF FlagRow
<1>4. d \in ExpRow
  BY <1>1, <1>3 DEF ExpRow, Status
<1>5. /\ d.status = "running" /\ d.ships = exp[x].ships
      /\ d.measured = exp[x].metric /\ d.metric = exp[x].metric
      /\ d.frozen = flag[FlagOf[x]].variants
  BY <1>1, <1>3 DEF ExpRow
<1> QED
  BY <1>2, <1>4, <1>5 DEF ShipsInv
\* A start, with or without the launch of the flag.
LEMMA StartStep ==
  ASSUME ExperimentsAssumption, ExperimentsInv, NEW r \in Request, NEW op \in {"start", "launch"},
         Ends(r, op), tx[r].flag # None, NEW control \in Variant \cup {None},
         Started(tx[r].exp, control), flag[FlagOf[tx[r].exp]].status # "absent",
         NEW n \in FlagRow, flag' = [flag EXCEPT ![FlagOf[tx[r].exp]] = n],
         n.status = "active", n.variants = flag[FlagOf[tx[r].exp]].variants,
         op = "start" => n = flag[FlagOf[tx[r].exp]]
  PROVE  ExperimentsInv'
<1> USE DEF ExperimentsInv, TypeInv, ExperimentsAssumption
<1>1. PICK x : x = tx[r].exp
  OBVIOUS
<1>2. /\ tx[r].op = op /\ tx'[r].op \notin OnExp \cup OnFlag
      /\ tx' \in [Request -> TxRow] /\ LocksApart'
      /\ \A q \in Request : q # r => tx'[q] = tx[q]
  BY Ending DEF OnExp
<1>3. /\ x \in Experiment /\ exp[x].status = "draft" /\ tx[r].flag = FlagOf[x]
      /\ op = "launch" => RunningOn(FlagOf[x]) = {}
  BY <1>1, <1>2 DEF TxInv, ExpTxInv, OnExp
<1>4. \A q \in Request : q # r => tx[q].exp # x /\ tx[q].flag # FlagOf[x]
  BY <1>1, <1>3 DEF LocksApart
<1>5. PICK d \in ExpRow :
        /\ exp' = [exp EXCEPT ![x] = d]
        /\ d.status = "running" /\ d.ships = None /\ d.measured = d.metric
        /\ d.frozen = flag[FlagOf[x]].variants
  BY <1>1, <1>3, StartedIs
<1>6. TypeInv' /\ ShipsInv'
  BY <1>1, <1>2, <1>3, <1>5 DEF ShipsInv
<1>7. TxInv'
  BY <1>1, <1>2, <1>3, <1>4, <1>5 DEF TxInv, ExpTxInv, FlagTxInv, RunningOn
<1>8. RunningFlagIsFrozen'
  <2> SUFFICES ASSUME NEW y \in Experiment, exp'[y].status = "running"
               PROVE  LET now == flag'[FlagOf[y]] IN
                      /\ now.status = "active" /\ exp'[y].measured = exp'[y].metric
                      /\ \/ now.variants = exp'[y].frozen
                         \/ \E z \in Experiment \ {y} :
                              FlagOf[z] = FlagOf[y] /\ exp'[z].ships # None
                                /\ now.variants = Only(exp'[z].ships)
    BY DEF RunningFlagIsFrozen
  <2>1. CASE y = x
    BY <1>1, <1>3, <1>5, <2>1
  <2>2. CASE y # x
    <3>1. exp'[y] = exp[y] /\ exp[y].status = "running" /\ exp[x].ships = None
      BY <1>3, <1>5, <2>2 DEF ShipsInv
    <3>2. flag'[FlagOf[y]] = flag[FlagOf[y]]
      BY <1>1, <1>3, <3>1 DEF RunningOn
    <3>3. \A z \in Experiment \ {y} : exp[z].ships # None => exp'[z] = exp[z]
      BY <1>5, <3>1
    <3> QED
      BY <3>1, <3>2, <3>3 DEF RunningFlagIsFrozen
  <2> QED
    BY <2>1, <2>2
<1> QED
  BY <1>2, <1>6, <1>7, <1>8

LEMMA StartExperimentStep ==
  ASSUME ExperimentsAssumption, ExperimentsInv, NEW r \in Request, StartExperiment(r)
  PROVE  ExperimentsInv'
<1>1. PICK x : x = tx[r].exp
  OBVIOUS
<1>2. /\ Ends(r, "start") /\ "start" \in OnExp /\ tx[r].flag # None /\ UNCHANGED flag
      /\ \E control \in Variant \cup {None} : Started(x, control)
  <2>1. /\ Ends(r, "start") /\ tx[r].flag # None /\ UNCHANGED flag
        /\ \E first \in Variant :
             Started(x, IF exp[x].control = None THEN first ELSE exp[x].control)
    BY <1>1 DEF StartExperiment
  <2>2. x \in Experiment
    BY <1>1, <2>1, Ending DEF ExperimentsInv, TxInv, ExpTxInv, OnExp
  <2>3. exp[x].control \in Variant \cup {None}
    BY <2>2 DEF ExperimentsInv, TypeInv, ExpRow
  <2>4. PICK first \in Variant :
          Started(x, IF exp[x].control = None THEN first ELSE exp[x].control)
    BY <2>1
  <2>5. (IF exp[x].control = None THEN first ELSE exp[x].control) \in Variant \cup {None}
    BY <2>3
  <2> QED
    BY <2>1, <2>4, <2>5 DEF OnExp
<1>3. /\ x \in Experiment /\ FlagOf[x] \in Flag /\ flag[FlagOf[x]].status = "active"
      /\ flag[FlagOf[x]] \in FlagRow
  <2>1. tx[r].op = "start"
    BY <1>2, Ending
  <2>2. x \in Experiment /\ flag[FlagOf[x]].status = "active"
    BY <1>1, <1>2, <2>1 DEF ExperimentsInv, TxInv, ExpTxInv
  <2> QED
    BY <2>2 DEF ExperimentsInv, TypeInv, ExperimentsAssumption
<1>4. flag' = [flag EXCEPT ![FlagOf[x]] = flag[FlagOf[x]]]
  BY <1>2, <1>3 DEF ExperimentsInv, TypeInv
<1> QED
  BY <1>1, <1>2, <1>3, <1>4, StartStep

LEMMA LaunchExperimentStep ==
  ASSUME ExperimentsAssumption, ExperimentsInv, NEW r \in Request, LaunchExperiment(r)
  PROVE  ExperimentsInv'
<1>1. PICK x : x = tx[r].exp
  OBVIOUS
<1>2. /\ Ends(r, "launch") /\ "launch" \in OnExp /\ tx[r].flag # None
      /\ flag[tx[r].flag].status = "draft"
      /\ flag' = [flag EXCEPT ![tx[r].flag].status = "active"]
      /\ Started(x, exp[x].control)
  BY <1>1 DEF LaunchExperiment, OnExp
<1>3. /\ x \in Experiment /\ tx[r].flag = FlagOf[x] /\ FlagOf[x] \in Flag
      /\ exp[x].control \in Variant \cup {None} /\ flag[FlagOf[x]] \in FlagRow
  <2>1. tx[r].op = "launch"
    BY <1>2, Ending
  <2>2. x \in Experiment /\ tx[r].flag = FlagOf[x]
    BY <1>1, <1>2, <2>1 DEF ExperimentsInv, TxInv, ExpTxInv
  <2>3. exp[x] \in ExpRow
    BY <2>2 DEF ExperimentsInv, TypeInv
  <2> QED
    BY <2>2, <2>3 DEF ExperimentsInv, TypeInv, ExperimentsAssumption, ExpRow
<1>4. PICK n : n = [flag[FlagOf[x]] EXCEPT !.status = "active"]
  OBVIOUS
<1>5. /\ n \in FlagRow /\ n.status = "active" /\ n.variants = flag[FlagOf[x]].variants
      /\ flag' = [flag EXCEPT ![FlagOf[x]] = n]
  BY <1>2, <1>3, <1>4 DEF FlagRow
<1> QED
  BY <1>1, <1>2, <1>3, <1>5, StartStep

\* A flag that no running experiment measures may be changed by who holds it.
LEMMA WriteFlag ==
  ASSUME ExperimentsAssumption, ExperimentsInv, NEW r \in Request, NEW op \in OnFlag, Ends(r, op),
         tx[r].checked, NEW n \in FlagRow, flag' = [flag EXCEPT ![tx[r].flag] = n],
         UNCHANGED exp
  PROVE  ExperimentsInv'
<1> USE DEF ExperimentsInv, TypeInv, ExperimentsAssumption
<1>1. PICK f : f = tx[r].flag
  OBVIOUS
<1>2. /\ tx[r].op = op /\ tx'[r].op \notin OnExp \cup OnFlag
      /\ tx' \in [Request -> TxRow] /\ LocksApart'
      /\ \A q \in Request : q # r => tx'[q] = tx[q]
  BY Ending
<1>3. f \in Flag /\ RunningOn(f) = {}
  BY <1>1, <1>2 DEF TxInv, FlagTxInv
<1>4. \A q \in Request : q # r => tx[q].flag # f
  BY <1>1, <1>3 DEF LocksApart
<1>5. TypeInv' /\ ShipsInv'
  BY <1>1, <1>2 DEF ShipsInv
<1>6. TxInv'
  BY <1>1, <1>2, <1>3, <1>4 DEF TxInv, ExpTxInv, FlagTxInv, RunningOn
<1>7. RunningFlagIsFrozen'
  BY <1>1, <1>3 DEF RunningFlagIsFrozen, RunningOn
<1> QED
  BY <1>2, <1>5, <1>6, <1>7

LEMMA ChangeFlagStep ==
  ASSUME ExperimentsAssumption, ExperimentsInv, NEW r \in Request, ChangeFlag(r)
  PROVE  ExperimentsInv'
<1>1. PICK status \in {"draft", "active"}, split \in Split :
        flag' = [flag EXCEPT ![tx[r].flag] = [status |-> status, variants |-> split]]
  BY DEF ChangeFlag
<1>2. [status |-> status, variants |-> split] \in FlagRow
  BY DEF FlagRow, Split, Halves
<1>3. Ends(r, "change") /\ "change" \in OnFlag /\ tx[r].checked /\ UNCHANGED exp
  BY DEF ChangeFlag, OnFlag
<1> QED
  BY <1>1, <1>2, <1>3, WriteFlag

LEMMA ArchiveFlagStep ==
  ASSUME ExperimentsAssumption, ExperimentsInv, NEW r \in Request, ArchiveFlag(r)
  PROVE  ExperimentsInv'
<1>1. /\ Ends(r, "archive") /\ "archive" \in OnFlag /\ tx[r].checked /\ UNCHANGED exp
      /\ flag' = [flag EXCEPT ![tx[r].flag].status = "archived"]
  BY DEF ArchiveFlag, OnFlag
<1>2. tx[r].flag \in Flag
  BY <1>1, Ending DEF ExperimentsInv, TxInv, FlagTxInv
<1>3. PICK n : n = [flag[tx[r].flag] EXCEPT !.status = "archived"]
  OBVIOUS
<1>4. n \in FlagRow
  BY <1>2, <1>3 DEF ExperimentsInv, TypeInv, FlagRow
<1>5. flag' = [flag EXCEPT ![tx[r].flag] = n]
  BY <1>1, <1>3
<1> QED
  BY <1>1, <1>4, <1>5, WriteFlag

LEMMA RollbackStep ==
  ASSUME ExperimentsAssumption, ExperimentsInv, NEW r \in Request, Rollback(r)
  PROVE  ExperimentsInv'
<1> USE DEF ExperimentsInv
<1>1. tx' = [tx EXCEPT ![r] = NoTx] /\ UNCHANGED <<flag, exp>>
  BY DEF Rollback
<1>2. /\ tx' \in [Request -> TxRow] /\ LocksApart'
      /\ tx'[r].op \notin OnExp \cup OnFlag
      /\ \A q \in Request : q # r => tx'[q] = tx[q]
  BY <1>1, EndTx
<1>3. TxInv'
  BY <1>1, <1>2 DEF TxInv, ExpTxInv, FlagTxInv, RunningOn
<1> QED
  BY <1>1, <1>2, <1>3 DEF TypeInv, ShipsInv, RunningFlagIsFrozen

-----------------------------------------------------------------------------
(* The theorems.                                                            *)

LEMMA ExperimentsInitInv ==
  ASSUME Init
  PROVE  ExperimentsInv
BY EmptyRows DEF Init, ExperimentsInv, TypeInv, LocksApart, TxInv, ExpTxInv, FlagTxInv, ShipsInv,
                 RunningFlagIsFrozen, OnExp, OnFlag

LEMMA ServeStep ==
  ASSUME ExperimentsAssumption, ExperimentsInv, NEW r \in Request, Serve(r)
  PROVE  ExperimentsInv'
<1>1. CASE \E x \in Experiment, op \in DOMAIN Needed : LockExperiment(r, op, x)
  BY <1>1, NeededIs, LockExperimentStep
<1>2. CASE \E f \in Flag, op \in {"change", "archive"} : LockFlagOnly(r, op, f)
  BY <1>2, LockFlagOnlyStep DEF OnFlag
<1>3. CASE LockFlag(r) \/ CheckRunning(r) \/ Rollback(r)
  BY <1>3, LockFlagStep, CheckRunningStep, RollbackStep
<1>4. CASE EditExperiment(r) \/ StartExperiment(r) \/ LaunchExperiment(r)
  BY <1>4, EditExperimentStep, StartExperimentStep, LaunchExperimentStep
<1>5. CASE ConcludeExperiment(r) \/ ApplyDecision(r) \/ ChangeFlag(r) \/ ArchiveFlag(r)
  BY <1>5, ConcludeExperimentStep, ApplyDecisionStep, ChangeFlagStep, ArchiveFlagStep
<1> QED
  BY <1>1, <1>2, <1>3, <1>4, <1>5 DEF Serve

LEMMA NextStep ==
  ASSUME ExperimentsAssumption, ExperimentsInv, [Next]_vars
  PROVE  ExperimentsInv'
<1>1. CASE UNCHANGED vars
  BY <1>1 DEF vars, ExperimentsInv, TypeInv, LocksApart, TxInv, ExpTxInv, FlagTxInv, ShipsInv,
              RunningFlagIsFrozen, RunningOn
<1>2. CASE Next
  BY <1>2, CreateFlagStep, CreateExperimentStep, PrepareExperimentStep, ServeStep DEF Next
<1> QED
  BY <1>1, <1>2

\* However many requests are served at the same time: while an experiment runs its
\* flag is active with the variants startExperiment or launchExperiment froze, but
\* for the decision of another experiment on the same flag, and it measures the
\* metric it started with.  Row locks alone bring that about.
THEOREM FlagsAreFrozen ==
  ASSUME ExperimentsAssumption
  PROVE  Spec => []RunningFlagIsFrozen
<1>1. Init => ExperimentsInv
  BY ExperimentsInitInv
<1>2. ExperimentsInv /\ [Next]_vars => ExperimentsInv'
  BY NextStep
<1>3. ExperimentsInv => RunningFlagIsFrozen
  BY DEF ExperimentsInv
<1> QED
  BY <1>1, <1>2, <1>3, PTL DEF Spec

\* What a step may do to an experiment that has started.
Settled == \A x \in Experiment :
  /\ exp[x].status = "concluded" => exp'[x] = exp[x]
  /\ exp[x].status = "running" /\ exp'[x] # exp[x] =>
       \E v \in Variant \cup {None} :
         exp'[x] = [exp[x] EXCEPT !.status = "concluded", !.ships = v]

\* An experiment that has started changes once more, when it is concluded, and then
\* never: whatever edits, starts and decisions were under way.
THEOREM StartsAreSettled ==
  ASSUME ExperimentsAssumption
  PROVE  Spec => StartedIsSettled
<1>1. ExperimentsInv /\ Next => Settled
  <2> SUFFICES ASSUME ExperimentsInv, Next PROVE Settled
    OBVIOUS
  <2> USE DEF ExperimentsInv, TypeInv
  <2>1. CASE UNCHANGED exp
    BY <2>1 DEF Settled
  <2>2. ASSUME NEW x \in Experiment, NEW control \in Variant \cup {None},
               exp[x] = NoExp, Draft(x, control)
        PROVE  Settled
    BY <2>2, DraftIs, EmptyRows DEF Settled
  <2>3. ASSUME NEW r \in Request, NEW op \in {"edit", "start", "launch"}, Ends(r, op),
               NEW d, exp' = [exp EXCEPT ![tx[r].exp] = d]
        PROVE  Settled
    <3>1. tx[r].exp \in Experiment /\ exp[tx[r].exp].status = "draft"
      BY <2>3, Ending DEF TxInv, ExpTxInv, OnExp
    <3> QED
      BY <2>3, <3>1 DEF Settled
  <2>4. ASSUME NEW r \in Request, NEW op \in {"conclude", "apply"}, Ends(r, op),
               NEW v \in Variant \cup {None},
               exp' = [exp EXCEPT ![tx[r].exp] =
                 [exp[tx[r].exp] EXCEPT !.status = "concluded", !.ships = v]]
        PROVE  Settled
    <3>1. tx[r].exp \in Experiment /\ exp[tx[r].exp].status = "running"
      BY <2>4, Ending DEF TxInv, ExpTxInv, OnExp
    <3> QED
      BY <2>4, <3>1 DEF Settled
  <2>5. ASSUME NEW r \in Request, EditExperiment(r) PROVE Settled
    BY <2>3, <2>5 DEF EditExperiment
  <2>6. ASSUME NEW r \in Request, StartExperiment(r) \/ LaunchExperiment(r) PROVE Settled
    BY <2>3, <2>6 DEF StartExperiment, LaunchExperiment, Started
  <2>7. ASSUME NEW r \in Request, ConcludeExperiment(r) PROVE Settled
    <3>1. Ends(r, "conclude") /\ exp' = [exp EXCEPT ![tx[r].exp].status = "concluded"]
      BY <2>7 DEF ConcludeExperiment
    <3>2. tx[r].exp \in Experiment
      BY <3>1, Ending DEF TxInv, ExpTxInv, OnExp
    <3>3. exp[tx[r].exp] \in ExpRow
      BY <3>2
    <3>4. /\ exp[tx[r].exp].ships \in Variant \cup {None}
          /\ [exp[tx[r].exp] EXCEPT !.status = "concluded"] =
               [exp[tx[r].exp] EXCEPT !.status = "concluded", !.ships = exp[tx[r].exp].ships]
      BY <3>3 DEF ExpRow
    <3> QED
      BY <2>4, <3>1, <3>4
  <2>8. ASSUME NEW r \in Request, ApplyDecision(r) PROVE Settled
    <3>1. /\ Ends(r, "apply")
          /\ \/ exp' = [exp EXCEPT ![tx[r].exp].status = "concluded"]
             \/ \E v \in Variant :
                  exp' = [exp EXCEPT ![tx[r].exp].status = "concluded", ![tx[r].exp].ships = v]
      BY <2>8 DEF ApplyDecision
    <3>2. tx[r].exp \in Experiment
      BY <3>1, Ending DEF TxInv, ExpTxInv, OnExp
    <3>3. exp[tx[r].exp] \in ExpRow
      BY <3>2
    <3>4. /\ exp[tx[r].exp].ships \in Variant \cup {None}
          /\ [exp[tx[r].exp] EXCEPT !.status = "concluded"] =
               [exp[tx[r].exp] EXCEPT !.status = "concluded", !.ships = exp[tx[r].exp].ships]
      BY <3>3 DEF ExpRow
    <3>5. ASSUME NEW v
          PROVE  [exp EXCEPT ![tx[r].exp].status = "concluded", ![tx[r].exp].ships = v] =
                 [exp EXCEPT ![tx[r].exp] =
                    [exp[tx[r].exp] EXCEPT !.status = "concluded", !.ships = v]]
      BY <3>2
    <3> QED
      BY <2>4, <3>1, <3>4, <3>5
  <2>9. ASSUME NEW r \in Request, Serve(r) PROVE Settled
    BY <2>1, <2>5, <2>6, <2>7, <2>8, <2>9
       DEF Serve, LockExperiment, LockFlagOnly, LockFlag, CheckRunning, Rollback, ChangeFlag,
           ArchiveFlag
  <2> QED
    BY <2>1, <2>2, <2>9 DEF Next, CreateFlag, CreateExperiment, PrepareExperiment
<1>2. Init => ExperimentsInv
  BY ExperimentsInitInv
<1>3. ExperimentsInv /\ [Next]_vars => ExperimentsInv' /\ [Settled]_vars
  BY <1>1, NextStep
<1> QED
  BY <1>2, <1>3, PTL DEF Spec, StartedIsSettled, Settled

-----------------------------------------------------------------------------
(* The metric registry.                                                     *)

MetricRow   == [id : Nat, definition : Definition]
RevisionRow == [number : Nat \ {0}, metric : Nat, definition : Definition]

\* The revisions of one key: typed, numbered once each without a gap, each a change,
\* and one of them the last.
Numbered(rows) ==
  /\ rows \subseteq RevisionRow
  /\ \A row \in rows : row.number = 1 \/ \E before \in rows : row.number = before.number + 1
  /\ \A row, other \in rows : row.number = other.number => row = other
  /\ \A row, next \in rows : next.number = row.number + 1 =>
       /\ row.metric <= next.metric
       /\ row.metric = next.metric => row.definition # next.definition
  /\ rows # {} => \E top \in rows : \A row \in rows : row.number <= top.number

\* The revisions of a key beside its metric m and the b registrations it had.
KeyInv(rows, m, b) ==
  /\ Numbered(rows)
  /\ m \in MetricRow \cup {Nothing} /\ b \in Nat
  /\ \A row \in rows : row.metric <= b
  /\ m # Nothing => /\ m.id <= b
                 /\ \/ Describes(Latest(rows), m)
                    \/ m.id = 0 /\ rows = {}

FunnelRow   == [id : Nat, steps : SUBSET MetricKey]

Places == {"idle", "reviewed", "found", "unused", "resolving", "retained by nothing",
           "reproduced"}

RequestRow ==
  [at : Places, key : MetricKey \cup Funnel \cup {Nothing}, steps : SUBSET MetricKey, left : SUBSET MetricKey,
   number : Nat, shown : MetricRow \cup {Nothing}, wanted : Definition \cup {Nothing}]

\* A review stands on a revision: it is there, and says what the reviewer was shown.
ReviewInv(r) ==
  req[r].at = "reviewed" =>
    /\ req[r].key \in MetricKey /\ req[r].wanted \in Definition
    /\ req[r].shown \in MetricRow
    /\ \E row \in revisions[req[r].key] :
         row.number = req[r].number /\ Describes(row, req[r].shown)

RegistryInv ==
  /\ metric \in [MetricKey -> MetricRow \cup {Nothing}]
  /\ born \in [MetricKey -> Nat]
  /\ revisions \in [MetricKey -> SUBSET RevisionRow]
  /\ \A k \in MetricKey : KeyInv(revisions[k], metric[k], born[k])
  /\ req \in [Call -> RequestRow]
  /\ \A r \in Call : ReviewInv(r)

\* No revision is lost in a step.
Grows == \A k \in MetricKey : revisions[k] \subseteq revisions'[k]

-----------------------------------------------------------------------------
(* What the operators on revisions return.                                  *)

\* A row is not Nothing.
LEMMA Rows ==
  ASSUME RegistryAssumption
  PROVE  Nothing \notin Definition /\ Nothing \notin MetricKey
BY DEF RegistryAssumption

\* Latest returns the row with the largest number.
LEMMA LatestIs ==
  ASSUME NEW rows, Numbered(rows), rows # {}
  PROVE  /\ Latest(rows) \in rows
         /\ \A row \in rows : row.number <= Latest(rows).number
<1>1. PICK top \in rows : \A row \in rows : row.number <= top.number
  BY DEF Numbered
<1>2. Latest(rows) = CHOOSE row \in rows : \A other \in rows : other.number <= row.number
  BY DEF Latest
<1> QED
  BY <1>1, <1>2

\* An appended revision comes last, and leaves the revisions numbered if it is a
\* change of no earlier metric.
LEMMA AppendedIs ==
  ASSUME NEW rows, Numbered(rows), NEW m \in MetricRow,
         rows # {} => Latest(rows).metric <= m.id /\ ~Describes(Latest(rows), m)
  PROVE  /\ Numbered(Appended(rows, m))
         /\ Appended(rows, m) # {} /\ rows \subseteq Appended(rows, m)
         /\ Describes(Latest(Appended(rows, m)), m)
         /\ \A row \in Appended(rows, m) : row \in rows \/ Describes(row, m)
         /\ \A row \in rows : row.number < Latest(Appended(rows, m)).number
<1> DEFINE n   == Latest(rows).number + 1
           new == [number |-> n, metric |-> m.id, definition |-> m.definition]
<1>1. Appended(rows, m) = rows \cup {new}
  BY DEF Appended
<1>2. n \in Nat \ {0} /\ \A row \in rows : row.number < n
  <2>1. CASE rows = {}
    BY <2>1 DEF Latest
  <2>2. CASE rows # {}
    BY <2>2, LatestIs DEF Numbered, RevisionRow
  <2> QED
    BY <2>1, <2>2
<1>3. new \in RevisionRow /\ Describes(new, m)
  BY <1>2 DEF RevisionRow, MetricRow, Describes
<1>4. n = 1 \/ \E before \in rows : n = before.number + 1
  <2>1. CASE rows = {}
    BY <2>1 DEF Latest
  <2>2. CASE rows # {}
    BY <2>2, LatestIs
  <2> QED
    BY <2>1, <2>2
<1>5. \A row \in rows : n = row.number + 1 =>
        row.metric <= m.id /\ (row.metric = m.id => row.definition # m.definition)
  <2> SUFFICES ASSUME NEW row \in rows, n = row.number + 1
               PROVE  row = Latest(rows)
    BY DEF Describes
  <2> QED
    BY LatestIs DEF Numbered, RevisionRow
<1> HIDE DEF n
<1>6. Numbered(rows \cup {new})
  <2>1. rows \cup {new} \subseteq RevisionRow
    BY <1>3 DEF Numbered
  <2>2. \A row \in rows \cup {new} :
          row.number = 1 \/ \E before \in rows \cup {new} : row.number = before.number + 1
    BY <1>4 DEF Numbered
  <2>3. \A row, other \in rows \cup {new} : row.number = other.number => row = other
    BY <1>2 DEF Numbered, RevisionRow
  <2>4. ASSUME NEW row \in rows \cup {new}, NEW next \in rows \cup {new},
               next.number = row.number + 1
        PROVE  /\ row.metric <= next.metric
               /\ row.metric = next.metric => row.definition # next.definition
    <3>1. row \in rows
      BY <1>2, <2>4 DEF Numbered, RevisionRow
    <3> QED
      BY <1>5, <2>4, <3>1 DEF Numbered
  <2>5. \A row \in rows \cup {new} : row.number <= new.number
    BY <1>2 DEF Numbered, RevisionRow
  <2> QED
    BY <2>1, <2>2, <2>3, <2>4, <2>5 DEF Numbered
<1>7. Latest(rows \cup {new}) = new
  <2>1. /\ Latest(rows \cup {new}) \in rows \cup {new}
        /\ new.number <= Latest(rows \cup {new}).number
    BY <1>6, LatestIs
  <2> QED
    BY <1>2, <2>1 DEF Numbered, RevisionRow
<1>8. Numbered(Appended(rows, m)) /\ Latest(Appended(rows, m)) = new
  BY <1>1, <1>6, <1>7
<1>9. \A row \in rows : row.number < new.number
  BY <1>2
<1> HIDE DEF new
<1> QED
  BY <1>1, <1>3, <1>8, <1>9

\* A metric whose definition was looked at has a revision that says what it is, and
\* the revisions it had before.
LEMMA EnsuredIs ==
  ASSUME RegistryAssumption, NEW k \in MetricKey, KeyInv(revisions[k], metric[k], born[k]),
         metric[k] # Nothing
  PROVE  /\ KeyInv(Ensured(k), metric[k], born[k])
         /\ revisions[k] \subseteq Ensured(k) /\ Ensured(k) # {}
         /\ Describes(Latest(Ensured(k)), metric[k])
         /\ revisions[k] # {} => Ensured(k) = revisions[k]
<1>1. CASE revisions[k] # {}
  BY <1>1 DEF Ensured, KeyInv
<1>2. CASE revisions[k] = {}
  <2>1. ~Describes(Latest(revisions[k]), metric[k])
    BY <1>2, Rows DEF Latest, Describes, KeyInv, MetricRow
  <2>2. Ensured(k) = Appended(revisions[k], metric[k])
    BY <2>1 DEF Ensured
  <2>3. metric[k] \in MetricRow /\ Numbered(revisions[k])
    BY DEF KeyInv
  <2>4. /\ Numbered(Ensured(k)) /\ Ensured(k) # {}
        /\ Describes(Latest(Ensured(k)), metric[k])
        /\ \A row \in Ensured(k) : Describes(row, metric[k])
    BY <1>2, <2>2, <2>3, AppendedIs
  <2> QED
    BY <1>2, <2>3, <2>4 DEF KeyInv, Describes, MetricRow
<1> QED
  BY <1>1, <1>2

\* A metric may be changed, or come, with a revision that says so.
LEMMA AppendedKeeps ==
  ASSUME NEW rows, NEW old, NEW b, KeyInv(rows, old, b),
         NEW m \in MetricRow, NEW c \in Nat, b <= c, m.id <= c,
         rows # {} => Latest(rows).metric <= m.id /\ ~Describes(Latest(rows), m)
  PROVE  KeyInv(Appended(rows, m), m, c) /\ rows \subseteq Appended(rows, m)
<1>1. /\ Numbered(Appended(rows, m)) /\ rows \subseteq Appended(rows, m)
      /\ Describes(Latest(Appended(rows, m)), m)
      /\ \A row \in Appended(rows, m) : row \in rows \/ Describes(row, m)
  BY AppendedIs DEF KeyInv
<1>2. \A row \in Appended(rows, m) : row.metric <= c
  <2>1. \A row \in rows : row.metric \in Nat /\ row.metric <= b
    BY DEF KeyInv, Numbered, RevisionRow
  <2> QED
    BY <1>1, <2>1 DEF KeyInv, Describes, MetricRow
<1> QED
  BY <1>1, <1>2 DEF KeyInv

\* A step that changes one key, and what it changes soundly, keeps the invariant: what
\* was reviewed is still on record.
LEMMA OneKey ==
  ASSUME RegistryInv, NEW k \in MetricKey, NEW rows, NEW m, NEW b, KeyInv(rows, m, b),
         revisions[k] \subseteq rows,
         metric' = [metric EXCEPT ![k] = m], born' = [born EXCEPT ![k] = b],
         revisions' = [revisions EXCEPT ![k] = rows],
         req' \in [Call -> RequestRow],
         \A r \in Call : req'[r] = req[r] \/ ReviewInv(r)'
  PROVE  RegistryInv' /\ Grows
<1>1. metric' \in [MetricKey -> MetricRow \cup {Nothing}] /\ born' \in [MetricKey -> Nat]
  BY DEF RegistryInv, KeyInv
<1>2. /\ revisions' \in [MetricKey -> SUBSET RevisionRow]
      /\ \A l \in MetricKey : revisions[l] \subseteq revisions'[l]
  BY DEF RegistryInv, KeyInv, Numbered
<1>3. ASSUME NEW l \in MetricKey
      PROVE  KeyInv(revisions[l], metric[l], born[l])'
  <2>1. CASE l = k
    BY <2>1 DEF RegistryInv
  <2>2. CASE l # k
    <3>1. revisions'[l] = revisions[l] /\ metric'[l] = metric[l] /\ born'[l] = born[l]
      BY <2>2 DEF RegistryInv
    <3> QED
      BY <3>1 DEF RegistryInv
  <2> QED
    BY <2>1, <2>2
<1>4. ASSUME NEW r \in Call
      PROVE  ReviewInv(r)'
  <2>1. CASE req'[r] = req[r]
    BY <1>2, <2>1 DEF RegistryInv, ReviewInv
  <2> QED
    BY <2>1
<1> QED
  BY <1>1, <1>2, <1>3, <1>4 DEF RegistryInv, Grows

\* So does a step that changes no metric and no revision.
LEMMA NoKey ==
  ASSUME RegistryInv, UNCHANGED registry, req' \in [Call -> RequestRow],
         \A r \in Call : req'[r] = req[r] \/ req'[r].at # "reviewed"
  PROVE  RegistryInv' /\ Grows
<1>1. metric' = metric /\ born' = born /\ revisions' = revisions
  BY DEF registry
<1>2. \A k \in MetricKey : KeyInv(revisions[k], metric[k], born[k])'
  BY <1>1 DEF RegistryInv
<1>3. \A r \in Call : ReviewInv(r)'
  BY <1>1 DEF RegistryInv, ReviewInv
<1> QED
  BY <1>1, <1>2, <1>3 DEF RegistryInv, Grows

-----------------------------------------------------------------------------
(* Steps.                                                                   *)

\* A metric that is redefined keeps its id, and its revisions end with what it is.
LEMMA RedefineIs ==
  ASSUME RegistryAssumption, RegistryInv, NEW k \in MetricKey, NEW d \in Definition,
         metric[k] # Nothing,
         NEW m, m = [metric[k] EXCEPT !.definition = d],
         NEW rows, rows = IF Describes(Latest(Ensured(k)), m) THEN Ensured(k)
                          ELSE Appended(Ensured(k), m)
  PROVE  KeyInv(rows, m, born[k]) /\ revisions[k] \subseteq rows
<1>1. KeyInv(revisions[k], metric[k], born[k])
  BY DEF RegistryInv
<1>2. /\ KeyInv(Ensured(k), metric[k], born[k]) /\ Ensured(k) # {}
      /\ revisions[k] \subseteq Ensured(k) /\ Describes(Latest(Ensured(k)), metric[k])
  BY <1>1, EnsuredIs
<1>3. /\ m \in MetricRow /\ m.id = metric[k].id
      /\ born[k] \in Nat /\ m.id \in Nat /\ m.id <= born[k]
  BY <1>1 DEF KeyInv, MetricRow
<1>4. CASE Describes(Latest(Ensured(k)), m)
  BY <1>2, <1>3, <1>4 DEF KeyInv
<1>5. CASE ~Describes(Latest(Ensured(k)), m)
  <2>1. Latest(Ensured(k)).metric <= m.id
    BY <1>2, <1>3 DEF Describes
  <2>2. born[k] <= born[k]
    BY <1>3
  <2> QED
    BY <1>2, <1>3, <1>5, <2>1, <2>2, AppendedKeeps
<1> QED
  BY <1>4, <1>5

LEMMA RegistryInitInv ==
  ASSUME RegistryAssumption, RegistryInit
  PROVE  RegistryInv
<1>1. \A k \in MetricKey : KeyInv(revisions[k], metric[k], born[k])
  BY DEF RegistryInit, KeyInv, Numbered, MetricRow
<1>2. Idle \in RequestRow
  BY DEF Idle, RequestRow, Places
<1> QED
  BY <1>1, <1>2 DEF RegistryInit, Idle, RegistryInv, ReviewInv, MetricRow

LEMMA RegisterStep ==
  ASSUME RegistryAssumption, RegistryInv, NEW k \in MetricKey, NEW d \in Definition, Register(k, d)
  PROVE  RegistryInv' /\ Grows
<1> DEFINE m == [id |-> born[k] + 1, definition |-> d]
<1>1. KeyInv(revisions[k], metric[k], born[k])
  BY DEF RegistryInv
<1>2. born[k] \in Nat /\ m \in MetricRow /\ m.id \in Nat /\ born[k] <= m.id /\ m.id <= m.id
  BY <1>1 DEF KeyInv, MetricRow
<1>3. ASSUME revisions[k] # {}
      PROVE  Latest(revisions[k]).metric <= m.id /\ ~Describes(Latest(revisions[k]), m)
  <2>1. Latest(revisions[k]) \in revisions[k]
    BY <1>1, <1>3, LatestIs DEF KeyInv
  <2> QED
    BY <1>1, <1>2, <2>1 DEF KeyInv, Numbered, RevisionRow, Describes
<1> HIDE DEF m
<1>4. /\ KeyInv(Appended(revisions[k], m), m, m.id)
      /\ revisions[k] \subseteq Appended(revisions[k], m)
  BY <1>1, <1>2, <1>3, AppendedKeeps
<1>5. /\ metric' = [metric EXCEPT ![k] = m] /\ born' = [born EXCEPT ![k] = m.id]
      /\ revisions' = [revisions EXCEPT ![k] = Appended(revisions[k], m)] /\ req' = req
  BY DEF Register, m
<1>6. req' \in [Call -> RequestRow] /\ \A r \in Call : req'[r] = req[r]
  BY <1>5 DEF RegistryInv
<1> QED
  BY <1>4, <1>5, <1>6, OneKey

\* The steps that leave the registrations alone.
LEMMA BornStays ==
  ASSUME RegistryInv, NEW k \in MetricKey, born' = born
  PROVE  born' = [born EXCEPT ![k] = born[k]]
BY DEF RegistryInv

LEMMA UpdateMetricStep ==
  ASSUME RegistryAssumption, RegistryInv, NEW k \in MetricKey, NEW d \in Definition,
         UpdateMetric(k, d)
  PROVE  RegistryInv' /\ Grows
<1> DEFINE m    == [metric[k] EXCEPT !.definition = d]
           rows == IF Describes(Latest(Ensured(k)), m) THEN Ensured(k) ELSE Appended(Ensured(k), m)
<1>1. KeyInv(rows, m, born[k]) /\ revisions[k] \subseteq rows
  BY RedefineIs DEF UpdateMetric
<1>2. /\ metric' = [metric EXCEPT ![k] = m] /\ born' = [born EXCEPT ![k] = born[k]]
      /\ revisions' = [revisions EXCEPT ![k] = rows]
  BY BornStays DEF UpdateMetric, Redefine
<1>3. req' \in [Call -> RequestRow] /\ \A r \in Call : req'[r] = req[r]
  BY DEF UpdateMetric, RegistryInv
<1> HIDE DEF m, rows
<1> QED
  BY <1>1, <1>2, <1>3, OneKey

LEMMA GetDefinitionStep ==
  ASSUME RegistryAssumption, RegistryInv, NEW k \in MetricKey, GetDefinition(k)
  PROVE  RegistryInv' /\ Grows
<1>1. KeyInv(Ensured(k), metric[k], born[k]) /\ revisions[k] \subseteq Ensured(k)
  BY EnsuredIs DEF GetDefinition, RegistryInv
<1>2. /\ metric' = [metric EXCEPT ![k] = metric[k]] /\ born' = [born EXCEPT ![k] = born[k]]
      /\ revisions' = [revisions EXCEPT ![k] = Ensured(k)]
  BY BornStays DEF GetDefinition, RegistryInv
<1>3. req' \in [Call -> RequestRow] /\ \A r \in Call : req'[r] = req[r]
  BY DEF GetDefinition, RegistryInv
<1> QED
  BY <1>1, <1>2, <1>3, OneKey

LEMMA PreviewStep ==
  ASSUME RegistryAssumption, RegistryInv, NEW r \in Call, NEW k \in MetricKey, NEW d \in Definition,
         Preview(r, k, d)
  PROVE  RegistryInv' /\ Grows
<1>1. /\ KeyInv(Ensured(k), metric[k], born[k]) /\ revisions[k] \subseteq Ensured(k)
      /\ Ensured(k) # {} /\ Describes(Latest(Ensured(k)), metric[k])
  BY EnsuredIs DEF Preview, RegistryInv
<1>2. Latest(Ensured(k)) \in Ensured(k) /\ Latest(Ensured(k)).number \in Nat
  BY <1>1, LatestIs DEF KeyInv, Numbered, RevisionRow
<1>3. metric[k] \in MetricRow
  BY DEF RegistryInv, KeyInv, Preview
<1>4. /\ metric' = [metric EXCEPT ![k] = metric[k]] /\ born' = [born EXCEPT ![k] = born[k]]
      /\ revisions' = [revisions EXCEPT ![k] = Ensured(k)]
  BY BornStays DEF Preview, RegistryInv
<1> DEFINE review == [Idle EXCEPT !.at = "reviewed", !.key = k,
                                  !.number = Latest(Ensured(k)).number,
                                  !.shown = metric[k], !.wanted = d]
<1>5. req' = [req EXCEPT ![r] = review]
  BY DEF Preview
<1>6. /\ review \in RequestRow /\ review.key = k /\ review.number = Latest(Ensured(k)).number
      /\ review.shown = metric[k] /\ review.wanted = d
  BY <1>2, <1>3 DEF Idle, RequestRow, Places
<1> HIDE DEF review
<1>7. req' \in [Call -> RequestRow] /\ req'[r] = review
  BY <1>5, <1>6 DEF RegistryInv
<1>8. Ensured(k) = revisions'[k]
  BY <1>4 DEF RegistryInv
<1>9. ReviewInv(r)'
  BY <1>1, <1>2, <1>3, <1>6, <1>7, <1>8 DEF ReviewInv
<1>10. \A q \in Call : req'[q] = req[q] \/ ReviewInv(q)'
  BY <1>5, <1>9 DEF RegistryInv
<1> QED
  BY <1>1, <1>4, <1>7, <1>10, OneKey

\* A request that ends is reviewed by nobody.
LEMMA RequestEnds ==
  ASSUME RegistryInv, NEW r \in Call, End(r)
  PROVE  /\ req' \in [Call -> RequestRow]
         /\ \A q \in Call : req'[q] = req[q] \/ req'[q].at # "reviewed"
<1>1. Idle \in RequestRow /\ Idle.at # "reviewed"
  BY DEF Idle, RequestRow, Places
<1>2. req \in [Call -> RequestRow] /\ req' = [req EXCEPT ![r] = Idle]
  BY DEF RegistryInv, End
<1> HIDE DEF Idle
<1> QED
  BY <1>1, <1>2

LEMMA ApplyStep ==
  ASSUME RegistryAssumption, RegistryInv, NEW r \in Call, Apply(r)
  PROVE  RegistryInv' /\ Grows
<1> DEFINE k    == req[r].key
           d    == req[r].wanted
           m    == [metric[k] EXCEPT !.definition = d]
           rows == IF Describes(Latest(Ensured(k)), m) THEN Ensured(k) ELSE Appended(Ensured(k), m)
<1>1. k \in MetricKey /\ d \in Definition
  BY DEF Apply, RegistryInv, ReviewInv
<1>2. /\ req' \in [Call -> RequestRow]
      /\ \A q \in Call : req'[q] = req[q] \/ req'[q].at # "reviewed"
  BY RequestEnds DEF Apply
<1>3. \A q \in Call : req'[q] = req[q] \/ ReviewInv(q)'
  BY <1>2 DEF ReviewInv
<1>4. CASE metric[k] # Nothing /\ Redefine(k, d)
  <2>1. KeyInv(rows, m, born[k]) /\ revisions[k] \subseteq rows
    BY <1>1, <1>4, RedefineIs
  <2>2. /\ metric' = [metric EXCEPT ![k] = m] /\ born' = [born EXCEPT ![k] = born[k]]
        /\ revisions' = [revisions EXCEPT ![k] = rows]
    BY <1>1, <1>4, BornStays DEF Apply, Redefine
  <2> HIDE DEF k, m, rows
  <2> QED
    BY <1>1, <1>2, <1>3, <2>1, <2>2, OneKey
<1>5. CASE UNCHANGED <<metric, revisions>>
  BY <1>2, <1>5, NoKey DEF Apply, registry
<1> QED
  BY <1>4, <1>5 DEF Apply

LEMMA DeleteMetricStep ==
  ASSUME RegistryAssumption, RegistryInv, NEW r \in Call, DeleteMetric(r)
  PROVE  RegistryInv' /\ Grows
<1> DEFINE k == req[r].key
<1>1. /\ req' \in [Call -> RequestRow]
      /\ \A q \in Call : req'[q] = req[q] \/ req'[q].at # "reviewed"
  BY RequestEnds DEF DeleteMetric
<1>2. \A q \in Call : req'[q] = req[q] \/ ReviewInv(q)'
  BY <1>1 DEF ReviewInv
<1>3. metric' = [metric EXCEPT ![k] = Nothing] /\ revisions' = revisions /\ born' = born
  BY DEF DeleteMetric
<1> HIDE DEF k
<1>4. CASE k \in MetricKey
  <2>1. KeyInv(revisions[k], Nothing, born[k])
    BY <1>4 DEF RegistryInv, KeyInv
  <2>2. /\ born' = [born EXCEPT ![k] = born[k]]
        /\ revisions' = [revisions EXCEPT ![k] = revisions[k]]
    BY <1>3, <1>4 DEF RegistryInv
  <2> QED
    BY <1>1, <1>2, <1>3, <1>4, <2>1, <2>2, OneKey
<1>5. CASE k \notin MetricKey
  <2>1. metric' = metric
    BY <1>3, <1>5 DEF RegistryInv
  <2> QED
    BY <1>1, <1>3, <2>1, NoKey DEF registry
<1> QED
  BY <1>4, <1>5

\* A request that goes on or is refused.
LEMMA StepsOn ==
  ASSUME RegistryInv, NEW r \in Call, NEW guard, NEW at \in Places \ {"reviewed"},
         StepIf(guard, r, at)
  PROVE  /\ req' \in [Call -> RequestRow]
         /\ \A q \in Call : req'[q] = req[q] \/ req'[q].at # "reviewed"
<1>1. CASE guard
  <2>1. req' = [req EXCEPT ![r].at = at]
    BY <1>1 DEF StepIf
  <2>2. req[r] \in RequestRow
    BY DEF RegistryInv
  <2>3. /\ [req[r] EXCEPT !.at = at] \in RequestRow
        /\ [req[r] EXCEPT !.at = at].at # "reviewed"
    BY <2>2 DEF RequestRow
  <2> QED
    BY <2>1, <2>3 DEF RegistryInv
<1>2. CASE ~guard
  BY <1>2, RequestEnds DEF StepIf
<1> QED
  BY <1>1, <1>2

\* The steps of a request that touch neither a metric nor its revisions.
LEMMA QuietStep ==
  ASSUME RegistryInv, funnel \in [Funnel -> FunnelRow \cup {Nothing}], NEW r \in Call,
         \/ \E k \in MetricKey : BeginDelete(r, k) \/ ResolveStep(r, k)
         \/ \E f \in Funnel : LookForInvestigations(r, f) \/ Reproduce(r, f)
         \/ \E f \in Funnel, steps \in SUBSET MetricKey \ {{}} : BeginDefine(r, f, steps)
         \/ LookForFunnels(r) \/ InsertFunnel(r) \/ DeleteFunnel(r) \/ PersistInvestigation(r)
  PROVE  RegistryInv' /\ Grows
<1>1. /\ req \in [Call -> RequestRow] /\ req[r] \in RequestRow
      /\ Idle \in RequestRow /\ Idle.at = "idle"
  BY DEF RegistryInv, Idle, RequestRow, Places
<1>2. UNCHANGED registry
  BY DEF BeginDelete, ResolveStep, LookForInvestigations, Reproduce, BeginDefine,
         LookForFunnels, InsertFunnel, DeleteFunnel, PersistInvestigation
<1> DEFINE Quiet == /\ req' \in [Call -> RequestRow]
                    /\ \A q \in Call : req'[q] = req[q] \/ req'[q].at # "reviewed"
<1>3. ASSUME NEW row \in RequestRow, row.at # "reviewed", req' = [req EXCEPT ![r] = row]
      PROVE  Quiet
  BY <1>1, <1>3
<1>4. ASSUME NEW k \in MetricKey, BeginDelete(r, k)
      PROVE  Quiet
  <2> DEFINE row == [Idle EXCEPT !.at = "found", !.key = k]
  <2>1. row \in RequestRow /\ row.at # "reviewed"
    BY DEF Idle, RequestRow, Places
  <2>2. req' = [req EXCEPT ![r] = row]
    BY <1>4 DEF BeginDelete
  <2> HIDE DEF row
  <2> QED
    BY <1>3, <2>1, <2>2
<1>5. ASSUME NEW k \in MetricKey, ResolveStep(r, k)
      PROVE  Quiet
  <2>1. CASE req' = [req EXCEPT ![r].left = @ \ {k}]
    <3> DEFINE row == [req[r] EXCEPT !.left = @ \ {k}]
    <3>1. row \in RequestRow /\ row.at # "reviewed"
      BY <1>1, <1>5 DEF ResolveStep, RequestRow
    <3>2. req' = [req EXCEPT ![r] = row]
      BY <1>1, <2>1
    <3> HIDE DEF row
    <3> QED
      BY <1>3, <3>1, <3>2
  <2>2. CASE End(r)
    BY <2>2, RequestEnds
  <2> QED
    BY <1>5, <2>1, <2>2 DEF ResolveStep
<1>6. ASSUME NEW f \in Funnel, LookForInvestigations(r, f)
      PROVE  Quiet
  <2> DEFINE row == [Idle EXCEPT !.at = "retained by nothing", !.key = f]
  <2>1. row \in RequestRow /\ row.at # "reviewed"
    BY DEF Idle, RequestRow, Places
  <2>2. req' = [req EXCEPT ![r] = row]
    BY <1>6 DEF LookForInvestigations
  <2> HIDE DEF row
  <2> QED
    BY <1>3, <2>1, <2>2
<1>7. ASSUME NEW f \in Funnel, Reproduce(r, f)
      PROVE  Quiet
  <2> DEFINE row == [Idle EXCEPT !.at = "reproduced", !.key = f, !.number = funnel[f].id,
                                 !.steps = funnel[f].steps]
  <2>1. funnel[f] \in FunnelRow
    BY <1>7 DEF Reproduce
  <2>2. row \in RequestRow /\ row.at # "reviewed"
    BY <2>1 DEF Idle, RequestRow, Places, FunnelRow
  <2>3. req' = [req EXCEPT ![r] = row]
    BY <1>7 DEF Reproduce
  <2> HIDE DEF row
  <2> QED
    BY <1>3, <2>2, <2>3
<1>8. ASSUME NEW f \in Funnel, NEW steps \in SUBSET MetricKey, BeginDefine(r, f, steps)
      PROVE  Quiet
  <2> DEFINE row == [Idle EXCEPT !.at = "resolving", !.key = f, !.steps = steps, !.left = steps]
  <2>1. row \in RequestRow /\ row.at # "reviewed"
    BY DEF Idle, RequestRow, Places
  <2>2. req' = [req EXCEPT ![r] = row]
    BY <1>8 DEF BeginDefine
  <2> HIDE DEF row
  <2> QED
    BY <1>3, <2>1, <2>2
<1>9. ASSUME LookForFunnels(r)
      PROVE  Quiet
  <2>1. "unused" \in Places \ {"reviewed"}
    BY DEF Places
  <2> QED
    BY <1>9, <2>1, StepsOn DEF LookForFunnels
<1>10. ASSUME InsertFunnel(r) \/ DeleteFunnel(r) \/ PersistInvestigation(r)
       PROVE  Quiet
  BY <1>10, RequestEnds DEF InsertFunnel, DeleteFunnel, PersistInvestigation
<1> HIDE DEF Quiet
<1>11. Quiet
  BY <1>4, <1>5, <1>6, <1>7, <1>8, <1>9, <1>10
<1> QED
  BY <1>2, <1>11, NoKey DEF Quiet

\* Every step keeps the invariant and the revisions.
LEMMA NextKeeps ==
  ASSUME RegistryAssumption, RegistryInv, funnel \in [Funnel -> FunnelRow \cup {Nothing}],
         [RegistryNext]_registryVars
  PROVE  RegistryInv' /\ Grows
<1>1. ASSUME NEW k \in MetricKey, GetDefinition(k)
      PROVE  RegistryInv' /\ Grows
  BY <1>1, GetDefinitionStep
<1>2. ASSUME NEW k \in MetricKey, NEW d \in Definition, Register(k, d) \/ UpdateMetric(k, d)
      PROVE  RegistryInv' /\ Grows
  BY <1>2, RegisterStep, UpdateMetricStep
<1>3. ASSUME NEW r \in Call, ServeCall(r)
      PROVE  RegistryInv' /\ Grows
  <2>1. ASSUME NEW k \in MetricKey, NEW d \in Definition, Preview(r, k, d)
        PROVE  RegistryInv' /\ Grows
    BY <2>1, PreviewStep
  <2>2. ASSUME Apply(r)
        PROVE  RegistryInv' /\ Grows
    BY <2>2, ApplyStep
  <2>3. ASSUME DeleteMetric(r)
        PROVE  RegistryInv' /\ Grows
    BY <2>3, DeleteMetricStep
  <2> QED
    BY <1>3, <2>1, <2>2, <2>3, QuietStep DEF ServeCall
<1>4. CASE UNCHANGED registryVars
  <2>1. UNCHANGED registry /\ req' = req
    BY <1>4 DEF registryVars
  <2> QED
    BY <2>1, NoKey DEF RegistryInv
<1> QED
  BY <1>1, <1>2, <1>3, <1>4 DEF RegistryNext

-----------------------------------------------------------------------------
(* Funnels and their investigations.                                        *)

\* A request about a funnel names one; what it reproduced is of the funnel that has
\* the id it read, or of one that is gone for good.
PlaceInv(r) ==
  req[r].at \in {"resolving", "retained by nothing", "reproduced"} =>
    /\ req[r].key \in Funnel
    /\ req[r].at = "reproduced" =>
         /\ req[r].number <= defined[req[r].key]
         /\ funnel[req[r].key] # Nothing /\ funnel[req[r].key].id = req[r].number =>
              funnel[req[r].key].steps = req[r].steps

\* Ids are not given twice.
FInv ==
  /\ funnel \in [Funnel -> FunnelRow \cup {Nothing}]
  /\ defined \in [Funnel -> Nat]
  /\ investigations \subseteq [key : Funnel, id : Nat, steps : SUBSET MetricKey]
  /\ \A f \in Funnel : funnel[f] # Nothing => funnel[f].id <= defined[f]
  /\ \A r \in Call : PlaceInv(r)
  /\ EvidenceIsKept

\* A step that leaves the funnels alone.
LEMMA FunnelsStay ==
  ASSUME FInv, UNCHANGED funnels, \A q \in Call : req'[q] = req[q] \/ PlaceInv(q)'
  PROVE  FInv'
<1>1. funnel' = funnel /\ defined' = defined /\ investigations' = investigations
  BY DEF funnels
<1>2. \A q \in Call : PlaceInv(q)'
  BY <1>1 DEF FInv, PlaceInv
<1> QED
  BY <1>1, <1>2 DEF FInv, EvidenceIsKept

\* A request that ends.
LEMMA EndsAnywhere ==
  ASSUME req \in [Call -> RequestRow], NEW r \in Call, End(r)
  PROVE  \A q \in Call : req'[q] = req[q] \/ req'[q].at = "idle"
BY DEF End, Idle

LEMMA InsertFunnelStep ==
  ASSUME RegistryAssumption, RegistryInv, FInv, NEW r \in Call, InsertFunnel(r)
  PROVE  FInv'
<1> DEFINE f   == req[r].key
           row == [id |-> defined[f] + 1, steps |-> req[r].steps]
<1>1. req \in [Call -> RequestRow] /\ f \in Funnel
  BY DEF RegistryInv, FInv, PlaceInv, InsertFunnel
<1>2. \A q \in Call : req'[q] = req[q] \/ req'[q].at = "idle"
  BY <1>1, EndsAnywhere DEF InsertFunnel
<1>3. CASE funnel[f] = Nothing
  <2>1. /\ funnel' = [funnel EXCEPT ![f] = row] /\ defined' = [defined EXCEPT ![f] = @ + 1]
        /\ investigations' = investigations
    BY <1>3 DEF InsertFunnel
  <2>2. row \in FunnelRow /\ row.id = defined[f] + 1 /\ defined[f] \in Nat
    BY <1>1 DEF FInv, RequestRow, FunnelRow
  <2> HIDE DEF row
  <2>3. \A q \in Call : PlaceInv(q)'
    <3> SUFFICES ASSUME NEW q \in Call, req'[q].at # "idle"
                 PROVE  PlaceInv(q)'
      BY DEF PlaceInv
    <3>1. req'[q] = req[q] /\ req[q].number \in Nat
      BY <1>1, <1>2 DEF RequestRow
    <3>2. funnel'[f] = row /\ defined'[f] = defined[f] + 1 /\ PlaceInv(q)
      BY <1>1, <2>1 DEF FInv
    <3>3. CASE req[q].key = f
      <4>1. req[q].at = "reproduced" => funnel'[f].id # req[q].number
        BY <2>2, <3>1, <3>2, <3>3 DEF PlaceInv
      <4>2. req[q].at = "reproduced" => req[q].number <= defined'[f]
        BY <2>2, <3>1, <3>2, <3>3 DEF PlaceInv
      <4> QED
        BY <1>1, <3>1, <3>3, <4>1, <4>2 DEF PlaceInv
    <3>4. CASE req[q].key # f
      <4>1. req[q].key \in Funnel => /\ funnel'[req[q].key] = funnel[req[q].key]
                                     /\ defined'[req[q].key] = defined[req[q].key]
        BY <1>1, <2>1, <3>4 DEF FInv
      <4> QED
        BY <3>1, <3>2, <4>1 DEF PlaceInv
    <3> QED
      BY <3>3, <3>4
  <2>4. ASSUME NEW inv \in investigations
        PROVE  inv.key # f
    <3>1. [id |-> inv.id, steps |-> inv.steps] \in [id : Nat, steps : SUBSET MetricKey]
      BY DEF FInv
    <3>2. funnel[inv.key] # Nothing
      BY <3>1 DEF FInv, EvidenceIsKept, RegistryAssumption
    <3> QED
      BY <1>3, <3>2
  <2>5. EvidenceIsKept'
    BY <2>1, <2>4 DEF FInv, EvidenceIsKept
  <2>6. /\ funnel' \in [Funnel -> FunnelRow \cup {Nothing}] /\ defined' \in [Funnel -> Nat]
        /\ \A g \in Funnel : funnel'[g] # Nothing => funnel'[g].id <= defined'[g]
    BY <1>1, <2>1, <2>2 DEF FInv
  <2> QED
    BY <2>1, <2>3, <2>5, <2>6 DEF FInv
<1>4. CASE funnel[f] # Nothing
  BY <1>2, <1>4, FunnelsStay DEF InsertFunnel, PlaceInv, funnels
<1> QED
  BY <1>3, <1>4

LEMMA DeleteFunnelStep ==
  ASSUME RegistryAssumption, RegistryInv, FInv, NEW r \in Call, DeleteFunnel(r)
  PROVE  FInv'
<1> DEFINE f == req[r].key
<1>1. req \in [Call -> RequestRow] /\ f \in Funnel
  BY DEF RegistryInv, FInv, PlaceInv, DeleteFunnel
<1>2. \A q \in Call : req'[q] = req[q] \/ req'[q].at = "idle"
  BY <1>1, EndsAnywhere DEF DeleteFunnel
<1>3. CASE Deletable(f)
  <2>1. /\ funnel' = [funnel EXCEPT ![f] = Nothing] /\ defined' = defined
        /\ investigations' = investigations
    BY <1>3 DEF DeleteFunnel
  <2>2. \A q \in Call : PlaceInv(q)'
    BY <1>1, <1>2, <2>1 DEF FInv, PlaceInv
  <2>3. EvidenceIsKept'
    BY <1>3, <2>1 DEF FInv, EvidenceIsKept, Deletable, Retained
  <2> QED
    BY <2>1, <2>2, <2>3 DEF FInv
<1>4. CASE ~Deletable(f)
  BY <1>2, <1>4, FunnelsStay DEF DeleteFunnel, PlaceInv, funnels
<1> QED
  BY <1>3, <1>4

LEMMA PersistStep ==
  ASSUME RegistryAssumption, RegistryInv, FInv, NEW r \in Call, PersistInvestigation(r)
  PROVE  FInv'
<1> DEFINE f   == req[r].key
           row == [key |-> f, id |-> req[r].number, steps |-> req[r].steps]
<1>1. /\ req \in [Call -> RequestRow] /\ f \in Funnel
      /\ req[r].number \in Nat /\ req[r].steps \in SUBSET MetricKey
  BY DEF RegistryInv, FInv, PlaceInv, PersistInvestigation, RequestRow
<1>2. \A q \in Call : req'[q] = req[q] \/ req'[q].at = "idle"
  BY <1>1, EndsAnywhere DEF PersistInvestigation
<1>3. funnel' = funnel /\ defined' = defined
  BY DEF PersistInvestigation
<1>4. \A q \in Call : PlaceInv(q)'
  BY <1>2, <1>3 DEF FInv, PlaceInv
<1>5. CASE Referenced(r)
  <2>1. investigations' = investigations \cup {row}
    BY <1>5 DEF PersistInvestigation
  <2>2. funnel[f] \in FunnelRow /\ funnel[f].id = req[r].number /\ funnel[f].steps = req[r].steps
    BY <1>1, <1>5 DEF FInv, PlaceInv, Referenced, PersistInvestigation
  <2>3. funnel[f] = [id |-> row.id, steps |-> row.steps]
    BY <2>2 DEF FunnelRow
  <2>4. row \in [key : Funnel, id : Nat, steps : SUBSET MetricKey] /\ row.key = f
    BY <1>1
  <2> HIDE DEF row
  <2> QED
    BY <1>3, <1>4, <2>1, <2>3, <2>4 DEF FInv, EvidenceIsKept
<1>6. CASE ~Referenced(r)
  BY <1>2, <1>6, FunnelsStay DEF PersistInvestigation, PlaceInv, funnels
<1> QED
  BY <1>5, <1>6

\* The steps of a request that begins something with a funnel.
LEMMA BeginStep ==
  ASSUME RegistryAssumption, RegistryInv, FInv, NEW r \in Call, NEW f \in Funnel,
         \/ LookForInvestigations(r, f) \/ Reproduce(r, f)
         \/ \E steps \in SUBSET MetricKey : BeginDefine(r, f, steps)
  PROVE  FInv'
<1>1. UNCHANGED funnels /\ req \in [Call -> RequestRow]
  BY DEF LookForInvestigations, Reproduce, BeginDefine, RegistryInv
<1>2. \A q \in Call \ {r} : req'[q] = req[q]
  BY <1>1 DEF LookForInvestigations, Reproduce, BeginDefine
<1>3. /\ req'[r].key = f
      /\ req'[r].at = "reproduced" =>
           funnel[f] # Nothing /\ req'[r].number = funnel[f].id /\ req'[r].steps = funnel[f].steps
  BY <1>1 DEF LookForInvestigations, Reproduce, BeginDefine, Idle
<1>4. PlaceInv(r)'
  BY <1>1, <1>3 DEF PlaceInv, FInv, funnels
<1> QED
  BY <1>1, <1>2, <1>4, FunnelsStay

\* The steps about metrics.
LEMMA MetricStep ==
  ASSUME RegistryAssumption, RegistryInv, FInv, NEW r \in Call,
         \/ \E k \in MetricKey : BeginDelete(r, k) \/ ResolveStep(r, k)
         \/ \E k \in MetricKey, d \in Definition : Preview(r, k, d)
         \/ Apply(r) \/ LookForFunnels(r) \/ DeleteMetric(r)
  PROVE  FInv'
<1>1. UNCHANGED funnels /\ req \in [Call -> RequestRow]
  BY DEF BeginDelete, ResolveStep, Preview, Apply, LookForFunnels, DeleteMetric, RegistryInv
<1>2. \A q \in Call \ {r} : req'[q] = req[q]
  BY <1>1 DEF BeginDelete, ResolveStep, Preview, Apply, LookForFunnels, DeleteMetric, StepIf, End
<1>3. \/ req'[r].at \in {"found", "reviewed", "idle", "unused"}
      \/ req[r].at = "resolving" /\ req'[r].at = "resolving" /\ req'[r].key = req[r].key
  <2>1. CASE Apply(r) \/ LookForFunnels(r) \/ DeleteMetric(r)
    BY <1>1, <2>1 DEF Apply, LookForFunnels, DeleteMetric, StepIf, End, Idle, RequestRow
  <2>2. ASSUME NEW k \in MetricKey, ResolveStep(r, k)
        PROVE  \/ req'[r].at = "idle"
               \/ /\ req[r].at = "resolving" /\ req'[r].at = "resolving"
                  /\ req'[r].key = req[r].key
    BY <1>1, <2>2 DEF ResolveStep, End, Idle, RequestRow
  <2>3. ASSUME NEW k \in MetricKey,
               BeginDelete(r, k) \/ \E d \in Definition : Preview(r, k, d)
        PROVE  req'[r].at \in {"found", "reviewed"}
    BY <1>1, <2>3 DEF BeginDelete, Preview, Idle
  <2> QED
    BY <2>1, <2>2, <2>3
<1>4. PlaceInv(r)'
  BY <1>1, <1>3 DEF PlaceInv, FInv, RequestRow, funnels
<1> QED
  BY <1>1, <1>2, <1>4, FunnelsStay

LEMMA FunnelsKeep ==
  ASSUME RegistryAssumption, RegistryInv, FInv, [RegistryNext]_registryVars
  PROVE  FInv'
<1>1. ASSUME NEW r \in Call, ServeCall(r)
      PROVE  FInv'
  BY <1>1, InsertFunnelStep, DeleteFunnelStep, PersistStep, BeginStep, MetricStep DEF ServeCall
<1>2. CASE UNCHANGED <<funnels, req>>
  BY <1>2, FunnelsStay
<1> QED
  BY <1>1, <1>2 DEF RegistryNext, GetDefinition, Register, UpdateMetric, registryVars

-----------------------------------------------------------------------------
(* The theorem.                                                             *)

\* What a request applies is what was reviewed: the revision it was shown is on
\* record, the last revision has its number, and numbers are given once.
LEMMA ApplyIsReviewed ==
  ASSUME RegistryAssumption, RegistryInv, NEW r \in Call, Apply(r),
         NEW k \in MetricKey, k = req[r].key, metric'[k] # metric[k]
  PROVE  /\ metric[k] = req[r].shown
         /\ \A row \in revisions[k] : row.number <= req[r].number
         /\ metric'[k] = [req[r].shown EXCEPT !.definition = req[r].wanted]
<1>1. /\ metric[k] # Nothing /\ RevisionExpected(r) /\ Redefine(k, req[r].wanted)
      /\ ReviewInv(r) /\ req[r].at = "reviewed"
  BY DEF Apply, RegistryInv
<1>2. KeyInv(revisions[k], metric[k], born[k])
  BY DEF RegistryInv
<1>3. PICK row \in revisions[k] : row.number = req[r].number /\ Describes(row, req[r].shown)
  BY <1>1 DEF ReviewInv
<1>4. Ensured(k) = revisions[k] /\ Describes(Latest(revisions[k]), metric[k])
  BY <1>1, <1>2, <1>3, EnsuredIs
<1>5. /\ Latest(revisions[k]) \in revisions[k]
      /\ \A other \in revisions[k] : other.number <= Latest(revisions[k]).number
  BY <1>2, <1>3, LatestIs DEF KeyInv
<1>6. Latest(revisions[k]).number = req[r].number
  BY <1>1, <1>4 DEF RevisionExpected
<1>7. Latest(revisions[k]) = row
  BY <1>2, <1>3, <1>5, <1>6 DEF KeyInv, Numbered
<1>8. metric[k] = req[r].shown
  <2>1. metric[k] \in MetricRow /\ req[r].shown \in MetricRow
    BY <1>1, <1>2 DEF KeyInv, ReviewInv
  <2>2. metric[k].id = req[r].shown.id /\ metric[k].definition = req[r].shown.definition
    BY <1>3, <1>4, <1>7 DEF Describes
  <2> QED
    BY <2>1, <2>2 DEF MetricRow
<1>9. metric'[k] = [metric[k] EXCEPT !.definition = req[r].wanted]
  BY <1>1 DEF Redefine, RegistryInv
<1> QED
  BY <1>5, <1>6, <1>8, <1>9

\* Only a request that applies its change ends with a metric changed.
LEMMA OnlyApply ==
  ASSUME RegistryInv, [RegistryNext]_registryVars, NEW r \in Call, NEW k \in MetricKey,
         req[r].at = "reviewed", metric'[k] # metric[k], req'[r] # req[r]
  PROVE  Apply(r)
<1>1. ASSUME NEW q \in Call, ServeCall(q)
      PROVE  Apply(r)
  <2>1. Apply(q) \/ DeleteMetric(q)
    BY <1>1 DEF ServeCall, BeginDelete, ResolveStep, Preview, LookForInvestigations, Reproduce,
                BeginDefine, LookForFunnels, InsertFunnel, DeleteFunnel, PersistInvestigation,
                registry
  <2>2. q = r
    BY <2>1 DEF Apply, DeleteMetric, End, RegistryInv
  <2> QED
    BY <2>1, <2>2 DEF DeleteMetric
<1> QED
  BY <1>1 DEF RegistryNext, registryVars, GetDefinition, Register, UpdateMetric

\* Revisions are numbered once each and without a gap through every metric a key had,
\* the last one says what the metric is, none is changed or lost, and a reviewed change
\* is applied to what its reviewer was shown (registry.ts, metricSemantics.ts,
\* metricDefinitions.ts); and no deletion takes the funnel from under an investigation
\* (funnelInvestigations.ts).  For every number of keys, definitions and requests.
THEOREM KeptByTheRegistry ==
  ASSUME RegistryAssumption
  PROVE  RegistrySpec => RegistryIsKept
<1>1. RegistryInit => RegistryInv /\ FInv
  <2> SUFFICES ASSUME RegistryInit
               PROVE  RegistryInv /\ FInv
    OBVIOUS
  <2>1. \A r \in Call : req[r].at = "idle"
    BY DEF RegistryInit, Idle
  <2>2. FInv
    BY <2>1 DEF RegistryInit, FInv, PlaceInv, EvidenceIsKept
  <2> QED
    BY <2>2, RegistryInitInv
<1>2. RegistryInv /\ FInv /\ [RegistryNext]_registryVars => RegistryInv' /\ FInv'
  BY NextKeeps, FunnelsKeep DEF FInv
<1>3. RegistryInv => RevisionsAreSound
  BY DEF RegistryInv, KeyInv, Numbered, RevisionsAreSound
<1>4. RegistryInv /\ FInv /\ [RegistryNext]_registryVars => [AppliedAsReviewed]_registryVars
  <2> SUFFICES ASSUME RegistryInv, FInv, [RegistryNext]_registryVars
               PROVE  AppliedAsReviewed
    OBVIOUS
  <2>1. Grows
    BY NextKeeps DEF FInv
  <2>2. ASSUME NEW k \in MetricKey, NEW r \in Call, req[r].at = "reviewed", req[r].key = k,
               metric'[k] # metric[k], req'[r] # req[r]
        PROVE  /\ metric[k] = req[r].shown
               /\ \A row \in revisions[k] : row.number <= req[r].number
               /\ metric'[k] = [req[r].shown EXCEPT !.definition = req[r].wanted]
    BY <2>2, OnlyApply, ApplyIsReviewed
  <2> QED
    BY <2>1, <2>2 DEF AppliedAsReviewed, Grows
<1>5. FInv => EvidenceIsKept
  BY DEF FInv
<1> QED
  BY <1>1, <1>2, <1>3, <1>4, <1>5, PTL DEF RegistrySpec, RegistryIsKept
=============================================================================
