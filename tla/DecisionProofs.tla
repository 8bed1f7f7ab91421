--------------------------- MODULE DecisionProofs ---------------------------
(***************************************************************************)
(* Proofs about DecisionLoop, for every number of releases, monitors,      *)
(* callers and evidence keys, and about DecisionActions, for every number  *)
(* of actions, clients, variants, calls and faults.                        *)
(*                                                                         *)
(* What a verdict rests on is inductive only together with what an         *)
(* evaluation under way has established: ready evidence is found only when *)
(* the window of the release is over (FoundInv), a monitor that has come   *)
(* to "ready" has persisted the decision of what it found (ReadyInv), and  *)
(* a ready decision exists only for a complete release (EvidenceInv).      *)
(*                                                                         *)
(* What approval, effect, status and audit of an action say of each other  *)
(* is inductive only together with what a client in the middle of          *)
(* executeApproved may rely on: the action it executes was approved, and   *)
(* nobody can take that back (ClientInv), and past the effect the effect   *)
(* is there, whichever client had it (also ClientInv).                     *)
(***************************************************************************)
EXTENDS DecisionLoop, DecisionActions, TLAPS

-----------------------------------------------------------------------------
(* The decision loop.                                                       *)

\* The type invariant, by what its conjuncts are about.
ReleasesOK ==
  /\ status \in [Release -> Status]
  /\ complete \in [Release -> BOOLEAN]
  /\ due \in [Release -> {"due", "later", "leased", "window"}]
  /\ mirror \in [Release -> Nat]
  /\ retry \in [Release -> {"none", "scheduled_by_action"} \cup Verdicts]

AttemptRow == [status : {"absent", "running"} \cup Verdicts,
               count : Nat, evidence : Evidence \cup {NoEvidence}]

AttemptsOK == attempt \in [Release -> AttemptRow]

DecisionsOK ==
  /\ decision \in [Release -> [Evidence -> {"absent", "proposed", "approved", "rejected"}]]
  /\ accepted \in [Release -> [Evidence -> {"none", "inconclusive", "directional"}]]

ProcessOK ==
  /\ phase \in [Process -> Phase]
  /\ job \in [Process -> Release \cup {NoRelease}]
  /\ todo \in [Worker -> SUBSET Release]
  /\ closed \in [Worker -> SUBSET Release]
  /\ number \in [Worker -> Nat]
  /\ found \in [Process -> Evidence \cup {NoEvidence}]
  /\ result \in [Worker -> Result]

BoundsOK == faults \in 0 .. MaxFaults /\ schedules \in 0 .. MaxSchedules

PlacesOK ==
  /\ \A p \in Process : phase[p] \in {"evaluating", "observing", "persisting"} => job[p] \in Release
  /\ \A p \in Process : phase[p] \in {"observing", "persisting"} => found[p] \in Evidence
  /\ \A w \in Worker :
       phase[w] = "finishing" => job[w] \in Release /\ result[w] # "none" /\ number[w] > 0

\* A monitor that has begun an attempt knows its number until it finishes.
NumberInv ==
  \A w \in Worker : phase[w] \in {"evaluating", "observing", "persisting"} => number[w] > 0

\* The windows a run takes for closed are over, and an evaluation in flight found
\* ready evidence only because its window is.
FoundInv ==
  /\ \A w \in Worker, r \in Release : r \in closed[w] => complete[r]
  /\ \A p \in Process :
       phase[p] \in {"observing", "persisting"} /\ found[p] \in Ready => complete[job[p]]

\* A monitor that will report success has persisted the decision it rests on.
ReadyInv ==
  \A w \in Worker :
    phase[w] = "finishing" /\ result[w] = "ready" =>
      found[w] \in Ready /\ decision[job[w]][found[w]] # "absent"

\* Ready evidence leads to a decision only when the window is over, and a directional
\* outcome is one of an approved decision on ready evidence.
EvidenceInv ==
  /\ \A r \in Release, e \in Ready : decision[r][e] # "absent" => complete[r]
  /\ \A r \in Release, e \in Evidence :
       accepted[r][e] = "directional" => decision[r][e] = "approved" /\ e \in Ready

Types == ReleasesOK /\ AttemptsOK /\ DecisionsOK /\ ProcessOK /\ BoundsOK /\ PlacesOK
Facts == NumberInv /\ FoundInv /\ ReadyInv /\ EvidenceInv /\ SucceededOnReadyEvidence
LoopInv  == Types /\ Facts

LEMMA TypesAre ==
  LoopTypeOK <=> Types
BY DEF LoopTypeOK, Types, ReleasesOK, AttemptsOK, AttemptRow, DecisionsOK, ProcessOK, BoundsOK, PlacesOK

LEMMA InitLoopInv ==
  ASSUME LoopAssumption, LoopInit
  PROVE  LoopInv
<1> USE DEF LoopInit, LoopAssumption
<1>1. ReleasesOK /\ DecisionsOK /\ BoundsOK
  BY DEF ReleasesOK, DecisionsOK, BoundsOK, Status
<1>2. AttemptsOK
  BY DEF AttemptsOK, AttemptRow, NoAttempt
<1>3. ProcessOK /\ PlacesOK
  BY DEF ProcessOK, PlacesOK, Phase, Result, Process
<1>4. Facts
  BY DEF Facts, NumberInv, FoundInv, ReadyInv, EvidenceInv, SucceededOnReadyEvidence, NoAttempt, Process
<1> QED
  BY <1>1, <1>2, <1>3, <1>4 DEF LoopInv, Types

\* What a begun and what a finished attempt write is a row.
LEMMA RowsStay ==
  ASSUME NEW row \in AttemptRow, NEW st \in {"running"} \cup Verdicts
  PROVE  /\ \A n \in Nat : [row EXCEPT !.status = st, !.count = n] \in AttemptRow
         /\ \A e \in Evidence \cup {NoEvidence} :
              [row EXCEPT !.status = st, !.evidence = e] \in AttemptRow
BY DEF AttemptRow

-----------------------------------------------------------------------------
(* One lemma per action.                                                    *)

LEMMA RegisterReleaseKeeps ==
  ASSUME LoopAssumption, LoopInv, NEW r \in Release, NEW s \in Status, RegisterRelease(r, s)
  PROVE  LoopInv'
<1> USE DEF LoopInv, Types, Process, RegisterRelease,
      releases, decisions, process, bounds
<1>1. ReleasesOK' /\ AttemptsOK' /\ DecisionsOK'
  BY DEF LoopAssumption, ReleasesOK, AttemptsOK, AttemptRow, DecisionsOK, ProcessOK, PlacesOK, Status, Verdicts
<1>2. ProcessOK' /\ BoundsOK' /\ PlacesOK'
  BY DEF LoopAssumption, Facts, ProcessOK, BoundsOK, PlacesOK, NumberInv, Phase, Result, AttemptsOK, AttemptRow
<1>3. NumberInv' /\ FoundInv'
  BY DEF LoopAssumption, Facts, NumberInv, FoundInv, ProcessOK, PlacesOK, ReleasesOK, AttemptsOK, AttemptRow
<1>4. ReadyInv' /\ EvidenceInv'
  BY DEF LoopAssumption, Facts, ReadyInv, EvidenceInv, FoundInv, ProcessOK, PlacesOK, ReleasesOK, DecisionsOK
<1>5. SucceededOnReadyEvidence'
  BY DEF LoopAssumption, Facts, SucceededOnReadyEvidence, ReadyInv, ProcessOK, PlacesOK, AttemptsOK, AttemptRow, DecisionsOK
<1> QED
  BY <1>1, <1>2, <1>3, <1>4, <1>5 DEF Facts

LEMMA TransitionReleaseKeeps ==
  ASSUME LoopAssumption, LoopInv, NEW r \in Release, NEW s \in Status, TransitionRelease(r, s)
  PROVE  LoopInv'
<1> USE DEF LoopInv, Types, Process, TransitionRelease,
      releases, decisions, process, bounds
<1>1. ReleasesOK' /\ AttemptsOK' /\ DecisionsOK'
  BY DEF LoopAssumption, ReleasesOK, AttemptsOK, AttemptRow, DecisionsOK, ProcessOK, PlacesOK, Status, Verdicts
<1>2. ProcessOK' /\ BoundsOK' /\ PlacesOK'
  BY DEF LoopAssumption, Facts, ProcessOK, BoundsOK, PlacesOK, NumberInv, Phase, Result, AttemptsOK, AttemptRow
<1>3. NumberInv' /\ FoundInv'
  BY DEF LoopAssumption, Facts, NumberInv, FoundInv, ProcessOK, PlacesOK, ReleasesOK, AttemptsOK, AttemptRow
<1>4. ReadyInv' /\ EvidenceInv'
  BY DEF LoopAssumption, Facts, ReadyInv, EvidenceInv, FoundInv, ProcessOK, PlacesOK, ReleasesOK, DecisionsOK
<1>5. SucceededOnReadyEvidence'
  BY DEF LoopAssumption, Facts, SucceededOnReadyEvidence, ReadyInv, ProcessOK, PlacesOK, AttemptsOK, AttemptRow, DecisionsOK
<1> QED
  BY <1>1, <1>2, <1>3, <1>4, <1>5 DEF Facts

LEMMA WindowClosesKeeps ==
  ASSUME LoopAssumption, LoopInv, NEW r \in Release, WindowCloses(r)
  PROVE  LoopInv'
<1> USE DEF LoopInv, Types, Process, WindowCloses,
      releases, decisions, process, bounds
<1>1. ReleasesOK' /\ AttemptsOK' /\ DecisionsOK'
  BY DEF LoopAssumption, ReleasesOK, AttemptsOK, AttemptRow, DecisionsOK, ProcessOK, PlacesOK, Status, Verdicts
<1>2. ProcessOK' /\ BoundsOK' /\ PlacesOK'
  BY DEF LoopAssumption, Facts, ProcessOK, BoundsOK, PlacesOK, NumberInv, Phase, Result, AttemptsOK, AttemptRow
<1>3. NumberInv' /\ FoundInv'
  BY DEF LoopAssumption, Facts, NumberInv, FoundInv, ProcessOK, PlacesOK, ReleasesOK, AttemptsOK, AttemptRow
<1>4. ReadyInv' /\ EvidenceInv'
  BY DEF LoopAssumption, Facts, ReadyInv, EvidenceInv, FoundInv, ProcessOK, PlacesOK, ReleasesOK, DecisionsOK
<1>5. SucceededOnReadyEvidence'
  BY DEF LoopAssumption, Facts, SucceededOnReadyEvidence, ReadyInv, ProcessOK, PlacesOK, AttemptsOK, AttemptRow, DecisionsOK
<1> QED
  BY <1>1, <1>2, <1>3, <1>4, <1>5 DEF Facts

LEMMA TimePassesKeeps ==
  ASSUME LoopAssumption, LoopInv, NEW r \in Release, TimePasses(r)
  PROVE  LoopInv'
<1> USE DEF LoopInv, Types, Process, TimePasses,
      releases, decisions, process, bounds
<1>1. ReleasesOK' /\ AttemptsOK' /\ DecisionsOK'
  BY DEF LoopAssumption, ReleasesOK, AttemptsOK, AttemptRow, DecisionsOK, ProcessOK, PlacesOK, Status, Verdicts
<1>2. ProcessOK' /\ BoundsOK' /\ PlacesOK'
  BY DEF LoopAssumption, Facts, ProcessOK, BoundsOK, PlacesOK, NumberInv, Phase, Result, AttemptsOK, AttemptRow
<1>3. NumberInv' /\ FoundInv'
  BY DEF LoopAssumption, Facts, NumberInv, FoundInv, ProcessOK, PlacesOK, ReleasesOK, AttemptsOK, AttemptRow
<1>4. ReadyInv' /\ EvidenceInv'
  BY DEF LoopAssumption, Facts, ReadyInv, EvidenceInv, FoundInv, ProcessOK, PlacesOK, ReleasesOK, DecisionsOK
<1>5. SucceededOnReadyEvidence'
  BY DEF LoopAssumption, Facts, SucceededOnReadyEvidence, ReadyInv, ProcessOK, PlacesOK, AttemptsOK, AttemptRow, DecisionsOK
<1> QED
  BY <1>1, <1>2, <1>3, <1>4, <1>5 DEF Facts

LEMMA ClaimDueKeeps ==
  ASSUME LoopAssumption, LoopInv, NEW w \in Worker, ClaimDue(w)
  PROVE  LoopInv'
<1> USE DEF LoopInv, Types, Process, ClaimDue,
      releases, decisions, process, bounds
<1>1. ReleasesOK' /\ AttemptsOK' /\ DecisionsOK'
  BY DEF LoopAssumption, ReleasesOK, AttemptsOK, AttemptRow, DecisionsOK, ProcessOK, PlacesOK, Status, Verdicts
<1>2. ProcessOK' /\ BoundsOK' /\ PlacesOK'
  BY DEF LoopAssumption, Facts, ProcessOK, BoundsOK, PlacesOK, NumberInv, Phase, Result, AttemptsOK, AttemptRow
<1>3. NumberInv' /\ FoundInv'
  BY DEF LoopAssumption, Facts, NumberInv, FoundInv, ProcessOK, PlacesOK, ReleasesOK, AttemptsOK, AttemptRow
<1>4. ReadyInv' /\ EvidenceInv'
  BY DEF LoopAssumption, Facts, ReadyInv, EvidenceInv, FoundInv, ProcessOK, PlacesOK, ReleasesOK, DecisionsOK
<1>5. SucceededOnReadyEvidence'
  BY DEF LoopAssumption, Facts, SucceededOnReadyEvidence, ReadyInv, ProcessOK, PlacesOK, AttemptsOK, AttemptRow, DecisionsOK
<1> QED
  BY <1>1, <1>2, <1>3, <1>4, <1>5 DEF Facts

LEMMA BeginAttemptKeeps ==
  ASSUME LoopAssumption, LoopInv, NEW w \in Worker, NEW r \in Release, BeginAttempt(w, r)
  PROVE  LoopInv'
<1> USE DEF LoopInv, Types, Process, BeginAttempt,
      releases, decisions, process, bounds
<1>1. ReleasesOK' /\ AttemptsOK' /\ DecisionsOK'
  <2>1. attempt[r] \in AttemptRow
    BY DEF AttemptsOK
  <2>2. attempt[r].count + 1 \in Nat
    BY <2>1 DEF AttemptRow
  <2>3. [attempt[r] EXCEPT !.status = "running", !.count = attempt[r].count + 1] \in AttemptRow
    BY <2>1, <2>2, RowsStay
  <2> QED
    BY <2>3 DEF ReleasesOK, AttemptsOK, DecisionsOK
<1>2. ProcessOK' /\ BoundsOK' /\ PlacesOK'
  BY DEF LoopAssumption, Facts, ProcessOK, BoundsOK, PlacesOK, NumberInv, Phase, Result, AttemptsOK, AttemptRow
<1>3. NumberInv' /\ FoundInv'
  BY DEF LoopAssumption, Facts, NumberInv, FoundInv, ProcessOK, PlacesOK, ReleasesOK, AttemptsOK, AttemptRow
<1>4. ReadyInv' /\ EvidenceInv'
  BY DEF LoopAssumption, Facts, ReadyInv, EvidenceInv, FoundInv, ProcessOK, PlacesOK, ReleasesOK, DecisionsOK
<1>5. SucceededOnReadyEvidence'
  BY DEF LoopAssumption, Facts, SucceededOnReadyEvidence, ReadyInv, ProcessOK, PlacesOK, AttemptsOK, AttemptRow, DecisionsOK
<1> QED
  BY <1>1, <1>2, <1>3, <1>4, <1>5 DEF Facts

LEMMA CallEvaluationKeeps ==
  ASSUME LoopAssumption, LoopInv, NEW c \in Caller, NEW r \in Release, CallEvaluation(c, r)
  PROVE  LoopInv'
<1> USE DEF LoopInv, Types, Process, CallEvaluation,
      releases, decisions, process, bounds
<1>1. ReleasesOK' /\ AttemptsOK' /\ DecisionsOK'
  BY DEF LoopAssumption, ReleasesOK, AttemptsOK, AttemptRow, DecisionsOK, ProcessOK, PlacesOK, Status, Verdicts
<1>2. ProcessOK' /\ BoundsOK' /\ PlacesOK'
  BY DEF LoopAssumption, Facts, ProcessOK, BoundsOK, PlacesOK, NumberInv, Phase, Result, AttemptsOK, AttemptRow
<1>3. NumberInv' /\ FoundInv'
  BY DEF LoopAssumption, Facts, NumberInv, FoundInv, ProcessOK, PlacesOK, ReleasesOK, AttemptsOK, AttemptRow
<1>4. ReadyInv' /\ EvidenceInv'
  BY DEF LoopAssumption, Facts, ReadyInv, EvidenceInv, FoundInv, ProcessOK, PlacesOK, ReleasesOK, DecisionsOK
<1>5. SucceededOnReadyEvidence'
  BY DEF LoopAssumption, Facts, SucceededOnReadyEvidence, ReadyInv, ProcessOK, PlacesOK, AttemptsOK, AttemptRow, DecisionsOK
<1> QED
  BY <1>1, <1>2, <1>3, <1>4, <1>5 DEF Facts

LEMMA ReadReleaseKeeps ==
  ASSUME LoopAssumption, LoopInv, NEW p \in Process, ReadRelease(p)
  PROVE  LoopInv'
<1> USE DEF LoopInv, Types, Process, ReadRelease, Readable,
      releases, decisions, process, bounds
<1>1. ReleasesOK' /\ AttemptsOK' /\ DecisionsOK'
  BY DEF LoopAssumption, ReleasesOK, AttemptsOK, AttemptRow, DecisionsOK, ProcessOK, PlacesOK, Status, Verdicts
<1>2. ProcessOK' /\ BoundsOK' /\ PlacesOK'
  BY DEF LoopAssumption, Facts, ProcessOK, BoundsOK, PlacesOK, NumberInv, Phase, Result, AttemptsOK, AttemptRow
<1>3. NumberInv' /\ FoundInv'
  BY DEF LoopAssumption, Facts, NumberInv, FoundInv, ProcessOK, PlacesOK, ReleasesOK, AttemptsOK, AttemptRow
<1>4. ReadyInv' /\ EvidenceInv'
  BY DEF LoopAssumption, Facts, ReadyInv, EvidenceInv, FoundInv, ProcessOK, PlacesOK, ReleasesOK, DecisionsOK
<1>5. SucceededOnReadyEvidence'
  BY DEF LoopAssumption, Facts, SucceededOnReadyEvidence, ReadyInv, ProcessOK, PlacesOK, AttemptsOK, AttemptRow, DecisionsOK
<1> QED
  BY <1>1, <1>2, <1>3, <1>4, <1>5 DEF Facts

LEMMA MarkObservingKeeps ==
  ASSUME LoopAssumption, LoopInv, NEW p \in Process, MarkObserving(p)
  PROVE  LoopInv'
<1> USE DEF LoopInv, Types, Process, MarkObserving,
      releases, decisions, process, bounds
<1>1. ReleasesOK' /\ AttemptsOK' /\ DecisionsOK'
  BY DEF ReleasesOK, AttemptsOK, DecisionsOK, PlacesOK, Status, Live
<1>2. ProcessOK' /\ BoundsOK' /\ PlacesOK'
  BY DEF LoopAssumption, Facts, ProcessOK, BoundsOK, PlacesOK, NumberInv, Phase, Result, AttemptsOK, AttemptRow
<1>3. NumberInv' /\ FoundInv'
  BY DEF LoopAssumption, Facts, NumberInv, FoundInv, ProcessOK, PlacesOK, ReleasesOK, AttemptsOK, AttemptRow
<1>4. ReadyInv' /\ EvidenceInv'
  BY DEF LoopAssumption, Facts, ReadyInv, EvidenceInv, FoundInv, ProcessOK, PlacesOK, ReleasesOK, DecisionsOK
<1>5. SucceededOnReadyEvidence'
  BY DEF LoopAssumption, Facts, SucceededOnReadyEvidence, ReadyInv, ProcessOK, PlacesOK, AttemptsOK, AttemptRow, DecisionsOK
<1> QED
  BY <1>1, <1>2, <1>3, <1>4, <1>5 DEF Facts

LEMMA PersistEvaluationKeeps ==
  ASSUME LoopAssumption, LoopInv, NEW p \in Process, PersistEvaluation(p)
  PROVE  LoopInv'
<1> USE DEF LoopInv, Types, Process, PersistEvaluation, EndEvaluation,
      releases, decisions, process, bounds
<1>1. ReleasesOK' /\ AttemptsOK' /\ DecisionsOK'
  BY DEF LoopAssumption, ReleasesOK, AttemptsOK, AttemptRow, DecisionsOK, ProcessOK, PlacesOK, Status, Verdicts
<1>2. ProcessOK' /\ BoundsOK' /\ PlacesOK'
  BY DEF LoopAssumption, Facts, ProcessOK, BoundsOK, PlacesOK, NumberInv, Phase, Result, AttemptsOK, AttemptRow
<1>3. NumberInv' /\ FoundInv'
  BY DEF LoopAssumption, Facts, NumberInv, FoundInv, ProcessOK, PlacesOK, ReleasesOK, AttemptsOK, AttemptRow
<1>4. ReadyInv' /\ EvidenceInv'
  <2>1. PICK r \in Release, e \in Evidence : r = job[p] /\ e = found[p]
    BY DEF PlacesOK
  <2>2. \A q \in Release, f \in Evidence :
          decision'[q][f] = IF q = r /\ f = e /\ decision[q][f] = "absent"
                            THEN "proposed" ELSE decision[q][f]
    BY <2>1 DEF DecisionsOK
  <2>3. \A q \in Release, f \in Evidence : decision[q][f] # "absent" => decision'[q][f] # "absent"
    BY <2>2
  <2>4. EvidenceInv'
    BY <2>1, <2>2 DEF LoopAssumption, Facts, EvidenceInv, FoundInv
  <2>5. ReadyInv'
    <3> SUFFICES ASSUME NEW w \in Worker, phase'[w] = "finishing", result'[w] = "ready"
                 PROVE  found'[w] \in Ready /\ decision'[job'[w]][found'[w]] # "absent"
      BY DEF ReadyInv
    <3>1. CASE w = p
      BY <2>1, <2>2, <3>1 DEF ProcessOK
    <3>2. CASE w # p
      <4>1. /\ phase[w] = "finishing" /\ result[w] = "ready"
            /\ job'[w] = job[w] /\ found'[w] = found[w]
        BY <3>2 DEF ProcessOK
      <4>2. job[w] \in Release /\ found[w] \in Ready /\ decision[job[w]][found[w]] # "absent"
        BY <4>1 DEF Facts, ReadyInv, PlacesOK
      <4> QED
        BY <2>3, <4>1, <4>2 DEF LoopAssumption
    <3> QED
      BY <3>1, <3>2
  <2> QED
    BY <2>4, <2>5
<1>5. SucceededOnReadyEvidence'
  BY DEF LoopAssumption, Facts, SucceededOnReadyEvidence, ReadyInv, ProcessOK, PlacesOK, AttemptsOK, AttemptRow, DecisionsOK
<1> QED
  BY <1>1, <1>2, <1>3, <1>4, <1>5 DEF Facts

LEMMA EvaluationFailsKeeps ==
  ASSUME LoopAssumption, LoopInv, NEW p \in Process, EvaluationFails(p)
  PROVE  LoopInv'
<1> USE DEF LoopInv, Types, Process, EvaluationFails, EndEvaluation,
      releases, decisions, process, bounds
<1>1. ReleasesOK' /\ AttemptsOK' /\ DecisionsOK'
  BY DEF LoopAssumption, ReleasesOK, AttemptsOK, AttemptRow, DecisionsOK, ProcessOK, PlacesOK, Status, Verdicts
<1>2. ProcessOK' /\ BoundsOK' /\ PlacesOK'
  BY DEF LoopAssumption, Facts, ProcessOK, BoundsOK, PlacesOK, NumberInv, Phase, Result, AttemptsOK, AttemptRow
<1>3. NumberInv' /\ FoundInv'
  BY DEF LoopAssumption, Facts, NumberInv, FoundInv, ProcessOK, PlacesOK, ReleasesOK, AttemptsOK, AttemptRow
<1>4. ReadyInv' /\ EvidenceInv'
  BY DEF LoopAssumption, Facts, ReadyInv, EvidenceInv, FoundInv, ProcessOK, PlacesOK, ReleasesOK, DecisionsOK
<1>5. SucceededOnReadyEvidence'
  BY DEF LoopAssumption, Facts, SucceededOnReadyEvidence, ReadyInv, ProcessOK, PlacesOK, AttemptsOK, AttemptRow, DecisionsOK
<1> QED
  BY <1>1, <1>2, <1>3, <1>4, <1>5 DEF Facts

LEMMA FinishAttemptKeeps ==
  ASSUME LoopAssumption, LoopInv, NEW w \in Worker, FinishAttempt(w)
  PROVE  LoopInv'
<1> USE DEF LoopInv, Types, Process, FinishAttempt, Outcome, NextDue, Advance,
      releases, decisions, process, bounds
<1> DEFINE st  == Outcome(result[w], number[w])
           new == IF result[w] \in {"ready", "blocked"} THEN found[w] ELSE attempt[job[w]].evidence
           row == [attempt[job[w]] EXCEPT !.status = st, !.evidence = new]
<1>a. job[w] \in Release /\ attempt[job[w]] \in AttemptRow /\ found[w] \in Evidence \cup {NoEvidence}
  BY DEF PlacesOK, AttemptsOK, ProcessOK
<1>b. /\ st \in Verdicts /\ NextDue(w) \in {"due", "later", "window"}
      /\ st = "succeeded" => result[w] = "ready"
  BY DEF PlacesOK, ProcessOK, Result, Verdicts
<1>c. attempt' = [attempt EXCEPT ![job[w]] = row]
  BY <1>a
<1>d. row \in AttemptRow
  <2>1. new \in Evidence \cup {NoEvidence}
    BY <1>a DEF AttemptRow
  <2> QED
    BY <1>a, <1>b, <2>1, RowsStay
<1>1. ReleasesOK' /\ AttemptsOK' /\ DecisionsOK'
  <2>1. AttemptsOK'
    BY <1>a, <1>c, <1>d DEF AttemptsOK
  <2>2. ReleasesOK'
    BY <1>a, <1>b DEF ReleasesOK, ProcessOK
  <2> QED
    BY <2>1, <2>2 DEF DecisionsOK
<1>2. ProcessOK' /\ BoundsOK' /\ PlacesOK'
  BY DEF LoopAssumption, Facts, ProcessOK, BoundsOK, PlacesOK, NumberInv, Phase, Result, AttemptsOK, AttemptRow
<1>3. NumberInv' /\ FoundInv'
  BY DEF LoopAssumption, Facts, NumberInv, FoundInv, ProcessOK, PlacesOK, ReleasesOK, AttemptsOK, AttemptRow
<1>4. ReadyInv' /\ EvidenceInv'
  BY DEF LoopAssumption, Facts, ReadyInv, EvidenceInv, FoundInv, ProcessOK, PlacesOK, ReleasesOK, DecisionsOK
<1>5. SucceededOnReadyEvidence'
  <2> SUFFICES ASSUME NEW r \in Release, attempt'[r].status = "succeeded"
               PROVE  attempt'[r].evidence \in Ready /\ decision[r][attempt'[r].evidence] # "absent"
    BY DEF SucceededOnReadyEvidence
  <2>1. CASE r = job[w]
    <3>1. attempt'[r] = row
      BY <1>a, <1>c, <2>1 DEF AttemptsOK
    <3>2. row.status = st /\ (result[w] = "ready" => row.evidence = found[w])
      BY <1>a DEF AttemptRow
    <3> QED
      BY <1>b, <2>1, <3>1, <3>2 DEF Facts, ReadyInv
  <2>2. CASE r # job[w]
    BY <1>a, <1>c, <2>2 DEF AttemptsOK, Facts, SucceededOnReadyEvidence
  <2> QED
    BY <2>1, <2>2
<1> QED
  BY <1>1, <1>2, <1>3, <1>4, <1>5 DEF Facts

LEMMA FinishRollsBackKeeps ==
  ASSUME LoopAssumption, LoopInv, NEW w \in Worker, FinishRollsBack(w)
  PROVE  LoopInv'
<1> USE DEF LoopInv, Types, Process, FinishRollsBack,
      releases, decisions, process, bounds
<1>1. ReleasesOK' /\ AttemptsOK' /\ DecisionsOK'
  BY DEF LoopAssumption, ReleasesOK, AttemptsOK, AttemptRow, DecisionsOK, ProcessOK, PlacesOK, Status, Verdicts
<1>2. ProcessOK' /\ BoundsOK' /\ PlacesOK'
  BY DEF LoopAssumption, Facts, ProcessOK, BoundsOK, PlacesOK, NumberInv, Phase, Result, AttemptsOK, AttemptRow
<1>3. NumberInv' /\ FoundInv'
  BY DEF LoopAssumption, Facts, NumberInv, FoundInv, ProcessOK, PlacesOK, ReleasesOK, AttemptsOK, AttemptRow
<1>4. ReadyInv' /\ EvidenceInv'
  BY DEF LoopAssumption, Facts, ReadyInv, EvidenceInv, FoundInv, ProcessOK, PlacesOK, ReleasesOK, DecisionsOK
<1>5. SucceededOnReadyEvidence'
  BY DEF LoopAssumption, Facts, SucceededOnReadyEvidence, ReadyInv, ProcessOK, PlacesOK, AttemptsOK, AttemptRow, DecisionsOK
<1> QED
  BY <1>1, <1>2, <1>3, <1>4, <1>5 DEF Facts

LEMMA AbandonKeeps ==
  ASSUME LoopAssumption, LoopInv, NEW w \in Worker, Abandon(w)
  PROVE  LoopInv'
<1> USE DEF LoopInv, Types, Process, Abandon,
      releases, decisions, process, bounds
<1>1. ReleasesOK' /\ AttemptsOK' /\ DecisionsOK'
  BY DEF LoopAssumption, ReleasesOK, AttemptsOK, AttemptRow, DecisionsOK, ProcessOK, PlacesOK, Status, Verdicts
<1>2. ProcessOK' /\ BoundsOK' /\ PlacesOK'
  BY DEF LoopAssumption, Facts, ProcessOK, BoundsOK, PlacesOK, NumberInv, Phase, Result, AttemptsOK, AttemptRow
<1>3. NumberInv' /\ FoundInv'
  BY DEF LoopAssumption, Facts, NumberInv, FoundInv, ProcessOK, PlacesOK, ReleasesOK, AttemptsOK, AttemptRow
<1>4. ReadyInv' /\ EvidenceInv'
  BY DEF LoopAssumption, Facts, ReadyInv, EvidenceInv, FoundInv, ProcessOK, PlacesOK, ReleasesOK, DecisionsOK
<1>5. SucceededOnReadyEvidence'
  BY DEF LoopAssumption, Facts, SucceededOnReadyEvidence, ReadyInv, ProcessOK, PlacesOK, AttemptsOK, AttemptRow, DecisionsOK
<1> QED
  BY <1>1, <1>2, <1>3, <1>4, <1>5 DEF Facts

LEMMA ApproveDecisionKeeps ==
  ASSUME LoopAssumption, LoopInv, NEW r \in Release, NEW e \in Evidence, ApproveDecision(r, e)
  PROVE  LoopInv'
<1> USE DEF LoopInv, Types, Process, ApproveDecision, Proposal, Accept, Acceptable, FinalizeObservedRelease,
      releases, decisions, process, bounds
<1>1. ReleasesOK' /\ AttemptsOK' /\ DecisionsOK'
  <2>1. ReleasesOK'
    BY DEF ReleasesOK, Status, Final
  <2>2. decision' \in [Release -> [Evidence -> {"absent", "proposed", "approved", "rejected"}]]
    BY DEF DecisionsOK
  <2>3. accepted' \in [Release -> [Evidence -> {"none", "inconclusive", "directional"}]]
    BY DEF DecisionsOK
  <2> QED
    BY <2>1, <2>2, <2>3 DEF AttemptsOK, DecisionsOK
<1>2. ProcessOK' /\ BoundsOK' /\ PlacesOK'
  BY DEF LoopAssumption, Facts, ProcessOK, BoundsOK, PlacesOK, NumberInv, Phase, Result, AttemptsOK, AttemptRow
<1>3. NumberInv' /\ FoundInv'
  BY DEF LoopAssumption, Facts, NumberInv, FoundInv, ProcessOK, PlacesOK, ReleasesOK, AttemptsOK, AttemptRow
<1>4. ReadyInv' /\ EvidenceInv'
  BY DEF LoopAssumption, Facts, ReadyInv, EvidenceInv, FoundInv, ProcessOK, PlacesOK, ReleasesOK, DecisionsOK
<1>5. SucceededOnReadyEvidence'
  BY DEF LoopAssumption, Facts, SucceededOnReadyEvidence, ReadyInv, ProcessOK, PlacesOK, AttemptsOK, AttemptRow, DecisionsOK
<1> QED
  BY <1>1, <1>2, <1>3, <1>4, <1>5 DEF Facts

LEMMA EditDecisionKeeps ==
  ASSUME LoopAssumption, LoopInv, NEW r \in Release, NEW e \in Evidence, EditDecision(r, e)
  PROVE  LoopInv'
<1> USE DEF LoopInv, Types, Process, EditDecision, Accept, Acceptable, FinalizeObservedRelease,
      releases, decisions, process, bounds
<1>1. ReleasesOK' /\ AttemptsOK' /\ DecisionsOK'
  <2>1. ReleasesOK'
    BY DEF ReleasesOK, Status, Final
  <2>2. decision' \in [Release -> [Evidence -> {"absent", "proposed", "approved", "rejected"}]]
    BY DEF DecisionsOK
  <2>3. accepted' \in [Release -> [Evidence -> {"none", "inconclusive", "directional"}]]
    BY DEF DecisionsOK
  <2> QED
    BY <2>1, <2>2, <2>3 DEF AttemptsOK, DecisionsOK
<1>2. ProcessOK' /\ BoundsOK' /\ PlacesOK'
  BY DEF LoopAssumption, Facts, ProcessOK, BoundsOK, PlacesOK, NumberInv, Phase, Result, AttemptsOK, AttemptRow
<1>3. NumberInv' /\ FoundInv'
  BY DEF LoopAssumption, Facts, NumberInv, FoundInv, ProcessOK, PlacesOK, ReleasesOK, AttemptsOK, AttemptRow
<1>4. ReadyInv' /\ EvidenceInv'
  BY DEF LoopAssumption, Facts, ReadyInv, EvidenceInv, FoundInv, ProcessOK, PlacesOK, ReleasesOK, DecisionsOK
<1>5. SucceededOnReadyEvidence'
  BY DEF LoopAssumption, Facts, SucceededOnReadyEvidence, ReadyInv, ProcessOK, PlacesOK, AttemptsOK, AttemptRow, DecisionsOK
<1> QED
  BY <1>1, <1>2, <1>3, <1>4, <1>5 DEF Facts

LEMMA RejectDecisionKeeps ==
  ASSUME LoopAssumption, LoopInv, NEW r \in Release, NEW e \in Evidence, RejectDecision(r, e)
  PROVE  LoopInv'
<1> USE DEF LoopInv, Types, Process, RejectDecision,
      releases, decisions, process, bounds
<1>1. ReleasesOK' /\ AttemptsOK' /\ DecisionsOK'
  BY DEF LoopAssumption, ReleasesOK, AttemptsOK, AttemptRow, DecisionsOK, ProcessOK, PlacesOK, Status, Verdicts
<1>2. ProcessOK' /\ BoundsOK' /\ PlacesOK'
  BY DEF LoopAssumption, Facts, ProcessOK, BoundsOK, PlacesOK, NumberInv, Phase, Result, AttemptsOK, AttemptRow
<1>3. NumberInv' /\ FoundInv'
  BY DEF LoopAssumption, Facts, NumberInv, FoundInv, ProcessOK, PlacesOK, ReleasesOK, AttemptsOK, AttemptRow
<1>4. ReadyInv' /\ EvidenceInv'
  BY DEF LoopAssumption, Facts, ReadyInv, EvidenceInv, FoundInv, ProcessOK, PlacesOK, ReleasesOK, DecisionsOK
<1>5. SucceededOnReadyEvidence'
  BY DEF LoopAssumption, Facts, SucceededOnReadyEvidence, ReadyInv, ProcessOK, PlacesOK, AttemptsOK, AttemptRow, DecisionsOK
<1> QED
  BY <1>1, <1>2, <1>3, <1>4, <1>5 DEF Facts

LEMMA ScheduleObservationKeeps ==
  ASSUME LoopAssumption, LoopInv, NEW r \in Release, ScheduleObservation(r)
  PROVE  LoopInv'
<1> USE DEF LoopInv, Types, Process, ScheduleObservation,
      releases, decisions, process, bounds
<1>1. ReleasesOK' /\ AttemptsOK' /\ DecisionsOK'
  BY DEF LoopAssumption, ReleasesOK, AttemptsOK, AttemptRow, DecisionsOK, ProcessOK, PlacesOK, Status, Verdicts
<1>2. ProcessOK' /\ BoundsOK' /\ PlacesOK'
  BY DEF LoopAssumption, Facts, ProcessOK, BoundsOK, PlacesOK, NumberInv, Phase, Result, AttemptsOK, AttemptRow
<1>3. NumberInv' /\ FoundInv'
  BY DEF LoopAssumption, Facts, NumberInv, FoundInv, ProcessOK, PlacesOK, ReleasesOK, AttemptsOK, AttemptRow
<1>4. ReadyInv' /\ EvidenceInv'
  BY DEF LoopAssumption, Facts, ReadyInv, EvidenceInv, FoundInv, ProcessOK, PlacesOK, ReleasesOK, DecisionsOK
<1>5. SucceededOnReadyEvidence'
  BY DEF LoopAssumption, Facts, SucceededOnReadyEvidence, ReadyInv, ProcessOK, PlacesOK, AttemptsOK, AttemptRow, DecisionsOK
<1> QED
  BY <1>1, <1>2, <1>3, <1>4, <1>5 DEF Facts

-----------------------------------------------------------------------------
(* The invariant, and what follows from it.                                 *)

LEMMA LoopNextKeeps ==
  ASSUME LoopAssumption, LoopInv, [LoopNext]_loopVars
  PROVE  LoopInv'
<1>1. ASSUME NEW r \in Release, Operate(r)
      PROVE  LoopInv'
  BY <1>1, RegisterReleaseKeeps, TransitionReleaseKeeps, ApproveDecisionKeeps, EditDecisionKeeps,
     RejectDecisionKeeps, ScheduleObservationKeeps DEF Operate
<1>2. ASSUME NEW r \in Release, WindowCloses(r) \/ TimePasses(r)
      PROVE  LoopInv'
  BY <1>2, WindowClosesKeeps, TimePassesKeeps
<1>3. ASSUME NEW p \in Process, Evaluate(p)
      PROVE  LoopInv'
  BY <1>3, ReadReleaseKeeps, MarkObservingKeeps, PersistEvaluationKeeps, EvaluationFailsKeeps
     DEF Evaluate
<1>4. ASSUME NEW w \in Worker, ClaimDue(w) \/ Work(w) \/ FinishRollsBack(w) \/ Abandon(w)
      PROVE  LoopInv'
  BY <1>3, <1>4, ClaimDueKeeps, BeginAttemptKeeps, FinishAttemptKeeps, FinishRollsBackKeeps,
     AbandonKeeps DEF Work, Process
<1>5. ASSUME NEW c \in Caller, NEW r \in Release, CallEvaluation(c, r)
      PROVE  LoopInv'
  BY <1>5, CallEvaluationKeeps
<1>6. CASE UNCHANGED loopVars
  <2> USE DEF loopVars, releases, decisions, process, bounds
  <2>1. Types'
    BY <1>6 DEF LoopInv, Types, ReleasesOK, AttemptsOK, DecisionsOK, ProcessOK, BoundsOK, PlacesOK
  <2>2. Facts'
    BY <1>6 DEF LoopInv, Facts, NumberInv, FoundInv, ReadyInv, EvidenceInv, SucceededOnReadyEvidence
  <2> QED
    BY <2>1, <2>2 DEF LoopInv
<1> QED
  BY <1>1, <1>2, <1>3, <1>4, <1>5, <1>6 DEF LoopNext, Process

LEMMA LoopInvariance ==
  ASSUME LoopAssumption
  PROVE  LoopSpec => []LoopInv
<1>1. LoopInit => LoopInv
  BY InitLoopInv
<1>2. LoopInv /\ [LoopNext]_loopVars => LoopInv'
  BY LoopNextKeeps
<1> QED
  BY <1>1, <1>2, PTL DEF LoopSpec

\* The types of the columns and of the workers (releaseMonitor.ts, evaluation.ts,
\* decisions.ts): a worker that evaluates has a release, one that persists has found
\* evidence, one that finishes has an attempt and a result.
THEOREM LoopTypes ==
  ASSUME LoopAssumption
  PROVE  LoopSpec => []LoopTypeOK
<1>1. LoopInv => LoopTypeOK
  BY TypesAre DEF LoopInv
<1> QED
  BY <1>1, LoopInvariance, PTL

\* Success is reported over ready evidence with a decision alone, and a keep, fix or
\* rollback verdict rests on ready evidence of a complete window (releaseMonitor.ts,
\* evaluation.ts, decisions.ts): for any number of monitors whose leases run out
\* under them, of requests, reviews, crashes and schedule_observation actions.
THEOREM GroundedVerdicts ==
  ASSUME LoopAssumption
  PROVE  LoopSpec => []VerdictsAreGrounded
<1>1. ASSUME LoopInv
      PROVE  DirectionalIsGrounded
  BY <1>1 DEF LoopInv, Facts, EvidenceInv, DirectionalIsGrounded
<1>2. LoopInv => VerdictsAreGrounded
  BY <1>1 DEF LoopInv, Facts, VerdictsAreGrounded
<1> QED
  BY <1>2, LoopInvariance, PTL

\* A release that is decided or cancelled stays so, whatever operators, evaluations
\* in flight and late approvals do (releases.ts, evaluation.ts, decisions.ts).
THEOREM FinalIsImmutable ==
  ASSUME LoopAssumption
  PROVE  LoopSpec => FinalStaysFinal
<1> DEFINE Stays == \A r \in Release : status[r] \in Final => status'[r] = status[r]
<1>1. ASSUME LoopInv, [LoopNext]_loopVars
      PROVE  Stays
  <2> USE <1>1 DEF LoopInv, Types, ReleasesOK, Final, Live
  <2>1. ASSUME NEW r \in Release, Operate(r)
        PROVE  Stays
    <3>1. ASSUME NEW s \in Status, RegisterRelease(r, s) \/ TransitionRelease(r, s)
          PROVE  Stays
      BY <3>1 DEF RegisterRelease, TransitionRelease, AllowedTransition
    <3>2. ASSUME NEW e \in Evidence, ApproveDecision(r, e) \/ EditDecision(r, e)
          PROVE  Stays
      BY <3>2 DEF ApproveDecision, EditDecision, Accept, FinalizeObservedRelease
    <3>3. ASSUME NEW e \in Evidence, RejectDecision(r, e)
          PROVE  Stays
      BY <3>3 DEF RejectDecision, releases
    <3>4. ASSUME ScheduleObservation(r)
          PROVE  Stays
      BY <3>4 DEF ScheduleObservation
    <3> QED
      BY <2>1, <3>1, <3>2, <3>3, <3>4 DEF Operate
  <2>2. ASSUME NEW p \in Process, Evaluate(p)
        PROVE  Stays
    BY <2>2 DEF Evaluate, ReadRelease, MarkObserving, PersistEvaluation, EvaluationFails,
                AllowedTransition, PlacesOK, releases
  <2>3. ASSUME NEW w \in Worker, ClaimDue(w) \/ FinishRollsBack(w) \/ Abandon(w)
        PROVE  UNCHANGED status
    BY <2>3 DEF ClaimDue, FinishRollsBack, Abandon, releases
  <2>4. ASSUME NEW w \in Worker, Work(w)
        PROVE  Stays
    BY <2>2, <2>4 DEF Work, Process, BeginAttempt, FinishAttempt, releases
  <2>5. ASSUME NEW r \in Release, WindowCloses(r) \/ TimePasses(r)
        PROVE  UNCHANGED status
    BY <2>5 DEF WindowCloses, TimePasses
  <2>6. ASSUME NEW c \in Caller, NEW r \in Release, CallEvaluation(c, r)
        PROVE  UNCHANGED status
    BY <2>6 DEF CallEvaluation, releases
  <2>7. CASE UNCHANGED loopVars
    BY <2>7 DEF loopVars, releases
  <2> QED
    BY <2>1, <2>2, <2>3, <2>4, <2>5, <2>6, <2>7 DEF LoopNext, Process
<1>2. LoopInv /\ [LoopNext]_loopVars => [Stays]_loopVars
  BY <1>1
<1> QED
  BY <1>2, LoopInvariance, PTL DEF LoopSpec, FinalStaysFinal

-----------------------------------------------------------------------------
(* While leases hold.                                                       *)

\* What a monitor holds is leased and not judged, and no other one holds it; it
\* holds the release of its attempt once, and nothing between its runs.
HeldInv ==
  /\ \A w \in Worker, r \in Release : Holds(w, r) => due[r] = "leased" /\ ~Judged(r)
  /\ OneMonitor
  /\ \A w \in Worker :
       /\ job[w] \notin todo[w]
       /\ phase[w] = "working" => job[w] = NoRelease
       /\ phase[w] = "idle" => job[w] = NoRelease /\ todo[w] = {}

\* Steps that neither move a release between the hands of monitors nor touch what
\* its lease and its attempt say.
Aside ==
  /\ UNCHANGED <<due, attempt, todo>>
  /\ \A w \in Worker :
       /\ job'[w] = job[w]
       /\ phase'[w] \in {"working", "idle"} => phase'[w] = phase[w]

LEMMA AsideKeeps ==
  ASSUME LoopAssumption, HeldInv, Aside
  PROVE  HeldInv'
BY DEF LoopAssumption, HeldInv, Aside, Holds, Judged, OneMonitor

LEMMA EvaluatingIsAside ==
  ASSUME LoopAssumption, LoopInv, NEW p \in Process, Evaluate(p)
  PROVE  Aside
<1> USE DEF LoopInv, Types, ProcessOK, Process, LoopAssumption, Aside, releases, decisions
<1>1. CASE ReadRelease(p)
  BY <1>1 DEF ReadRelease
<1>2. CASE MarkObserving(p)
  BY <1>2 DEF MarkObserving
<1>3. CASE PersistEvaluation(p)
  BY <1>3 DEF PersistEvaluation, EndEvaluation
<1>4. CASE EvaluationFails(p)
  BY <1>4 DEF EvaluationFails, EndEvaluation
<1> QED
  BY <1>1, <1>2, <1>3, <1>4 DEF Evaluate

LEMMA HeldKeeps ==
  ASSUME LoopAssumption, LeaseHolds, MaxSchedules = 0, LoopInv, HeldInv, [LoopNext]_loopVars
  PROVE  HeldInv'
<1> USE DEF LoopAssumption, LoopInv, Types, ProcessOK, Process, releases, decisions, process, bounds
<1>1. ASSUME NEW r \in Release, Operate(r)
      PROVE  Aside
  <2>1. ~ScheduleObservation(r)
    BY DEF ScheduleObservation, BoundsOK
  <2>2. ASSUME NEW s \in Status, RegisterRelease(r, s) \/ TransitionRelease(r, s)
        PROVE  Aside
    BY <2>2 DEF RegisterRelease, TransitionRelease, Aside
  <2>3. ASSUME NEW e \in Evidence, ApproveDecision(r, e) \/ EditDecision(r, e) \/ RejectDecision(r, e)
        PROVE  Aside
    BY <2>3 DEF ApproveDecision, EditDecision, RejectDecision, Accept, Aside
  <2> QED
    BY <1>1, <2>1, <2>2, <2>3 DEF Operate
<1>2. ASSUME NEW r \in Release, WindowCloses(r)
      PROVE  Aside
  BY <1>2 DEF WindowCloses, Aside
<1>3. ASSUME NEW r \in Release, TimePasses(r)
      PROVE  HeldInv'
  <2>1. \A q \in Release : due[q] = "leased" /\ (\E w \in Worker : Holds(w, q)) => due'[q] = "leased"
    BY <1>3 DEF TimePasses, ReleasesOK
  <2>2. UNCHANGED <<attempt, todo, job, phase>>
    BY <1>3 DEF TimePasses
  <2> QED
    BY <2>1, <2>2 DEF HeldInv, Holds, Judged, OneMonitor
<1>4. ASSUME NEW w \in Worker, ClaimDue(w)
      PROVE  HeldInv'
  <2>1. PICK S \in SUBSET {r \in Release : Claimable(r)} :
          /\ due'  = [r \in Release |-> IF r \in S THEN "leased" ELSE due[r]]
          /\ todo' = [todo EXCEPT ![w] = S]
    BY <1>4 DEF ClaimDue
  <2>2. /\ phase[w] = "idle" /\ phase' = [phase EXCEPT ![w] = "working"]
        /\ UNCHANGED <<attempt, job>>
    BY <1>4 DEF ClaimDue
  <2>3. \A r \in S, v \in Worker : ~Judged(r) /\ ~Holds(v, r)
    BY DEF Claimable, HeldInv
  <2>4. \A v \in Worker, r \in Release :
          Holds(v, r)' <=> Holds(v, r) \/ (v = w /\ r \in S)
    <3>1. todo[w] = {} /\ todo'[w] = S /\ \A v \in Worker \ {w} : todo'[v] = todo[v]
      BY <2>1, <2>2 DEF HeldInv
    <3> QED
      BY <2>2, <3>1 DEF Holds
  <2>5. \A v \in Worker, r \in Release : Holds(v, r)' => due'[r] = "leased" /\ ~Judged(r)'
    BY <2>1, <2>2, <2>3, <2>4 DEF HeldInv, Judged
  <2>6. OneMonitor'
    <3>1. OneMonitor
      BY DEF HeldInv
    <3> QED
      BY <2>3, <2>4, <3>1 DEF OneMonitor
  <2>7. \A v \in Worker :
          /\ job'[v] \notin todo'[v]
          /\ phase'[v] = "working" => job'[v] = NoRelease
          /\ phase'[v] = "idle" => job'[v] = NoRelease /\ todo'[v] = {}
    BY <2>1, <2>2 DEF HeldInv
  <2> QED
    BY <2>5, <2>6, <2>7 DEF HeldInv
<1>5. ASSUME NEW w \in Worker, NEW r \in Release, BeginAttempt(w, r)
      PROVE  HeldInv'
  <2>1. /\ phase[w] = "working" /\ r \in todo[w] /\ job[w] = NoRelease
        /\ todo' = [todo EXCEPT ![w] = @ \ {r}] /\ job' = [job EXCEPT ![w] = r]
        /\ phase'[w] \notin {"working", "idle"} /\ UNCHANGED due
        /\ \A v \in Worker \ {w} : phase'[v] = phase[v]
    BY <1>5 DEF BeginAttempt, HeldInv
  <2>2. \A v \in Worker, q \in Release : Holds(v, q)' <=> Holds(v, q)
    BY <2>1 DEF Holds
  <2>3. attempt'[r].status = "running" /\ \A q \in Release \ {r} : attempt'[q] = attempt[q]
    BY <1>5 DEF BeginAttempt, AttemptsOK, AttemptRow
  <2>4. \A q \in Release : ~Judged(q) => ~Judged(q)'
    BY <2>3 DEF Judged
  <2>5. \A v \in Worker, q \in Release : Holds(v, q)' => due'[q] = "leased" /\ ~Judged(q)'
    BY <2>1, <2>2, <2>4 DEF HeldInv
  <2>6. OneMonitor'
    BY <2>2 DEF HeldInv, OneMonitor
  <2>7. \A v \in Worker :
          /\ job'[v] \notin todo'[v]
          /\ phase'[v] = "working" => job'[v] = NoRelease
          /\ phase'[v] = "idle" => job'[v] = NoRelease /\ todo'[v] = {}
    BY <2>1 DEF HeldInv
  <2> QED
    BY <2>5, <2>6, <2>7 DEF HeldInv
<1>6. ASSUME NEW w \in Worker, FinishAttempt(w)
      PROVE  HeldInv'
  <2>1. PICK r \in Release : r = job[w]
    BY <1>6 DEF FinishAttempt, PlacesOK
  <2>2. /\ job' = [job EXCEPT ![w] = NoRelease] /\ UNCHANGED todo
        /\ phase' = [phase EXCEPT ![w] = IF todo[w] = {} THEN "idle" ELSE "working"]
        /\ \A q \in Release \ {r} : due'[q] = due[q] /\ attempt'[q] = attempt[q]
    BY <1>6, <2>1 DEF FinishAttempt, Advance, AttemptsOK, ReleasesOK
  <2>3. \A v \in Worker, q \in Release : Holds(v, q)' => Holds(v, q) /\ q # r
    <3>1. \A v \in Worker : Holds(v, r) => v = w
      BY <2>1 DEF HeldInv, OneMonitor, Holds
    <3>2. ~Holds(w, r)'
      BY <2>1, <2>2 DEF HeldInv, Holds
    <3> QED
      BY <2>2, <3>1, <3>2 DEF Holds
  <2>4. \A v \in Worker, q \in Release : Holds(v, q)' => due'[q] = "leased" /\ ~Judged(q)'
    BY <2>2, <2>3 DEF HeldInv, Judged
  <2>5. OneMonitor'
    BY <2>3 DEF HeldInv, OneMonitor
  <2>6. \A v \in Worker :
          /\ job'[v] \notin todo'[v]
          /\ phase'[v] = "working" => job'[v] = NoRelease
          /\ phase'[v] = "idle" => job'[v] = NoRelease /\ todo'[v] = {}
    BY <2>2 DEF HeldInv
  <2> QED
    BY <2>4, <2>5, <2>6 DEF HeldInv
<1>7. ASSUME NEW w \in Worker, FinishRollsBack(w)
      PROVE  Aside
  BY <1>7 DEF FinishRollsBack, Aside
<1>8. ASSUME NEW w \in Worker, Abandon(w)
      PROVE  HeldInv'
  <2>1. /\ UNCHANGED <<due, attempt>> /\ phase' = [phase EXCEPT ![w] = "idle"]
        /\ job' = [job EXCEPT ![w] = NoRelease] /\ todo' = [todo EXCEPT ![w] = {}]
    BY <1>8 DEF Abandon
  <2>2. \A v \in Worker, q \in Release : Holds(v, q)' => Holds(v, q)
    BY <2>1 DEF Holds
  <2> QED
    BY <2>1, <2>2 DEF HeldInv, OneMonitor, Judged
<1>9. ASSUME NEW c \in Caller, NEW r \in Release, CallEvaluation(c, r)
      PROVE  Aside
  BY <1>9 DEF CallEvaluation, Aside
<1>10. CASE UNCHANGED loopVars
  BY <1>10, AsideKeeps DEF loopVars, Aside
<1> QED
  BY <1>1, <1>2, <1>3, <1>4, <1>5, <1>6, <1>7, <1>8, <1>9, <1>10, AsideKeeps, EvaluatingIsAside
  DEF LoopNext, Work

\* A step that changes the attempt of a judged release would have to hold it.
LEMMA JudgedStays ==
  ASSUME LoopAssumption, LoopInv, HeldInv, [LoopNext]_loopVars, NEW r \in Release, Judged(r)
  PROVE  attempt'[r] = attempt[r]
<1> USE DEF releases, decisions, process
<1>1. ASSUME NEW w \in Worker, NEW q \in Release, BeginAttempt(w, q)
      PROVE  attempt'[r] = attempt[r]
  BY <1>1 DEF BeginAttempt, HeldInv, Holds, LoopInv, Types, AttemptsOK
<1>2. ASSUME NEW w \in Worker, FinishAttempt(w)
      PROVE  attempt'[r] = attempt[r]
  BY <1>2 DEF FinishAttempt, HeldInv, Holds, LoopInv, Types, AttemptsOK
<1>3. ASSUME NEW w \in Worker, ClaimDue(w) \/ FinishRollsBack(w) \/ Abandon(w)
      PROVE  UNCHANGED attempt
  BY <1>3 DEF ClaimDue, FinishRollsBack, Abandon
<1>4. ASSUME NEW p \in Process, Evaluate(p)
      PROVE  UNCHANGED attempt
  BY <1>4, EvaluatingIsAside DEF Aside
<1>5. ASSUME NEW q \in Release, Operate(q)
      PROVE  UNCHANGED attempt
  BY <1>5 DEF Operate, RegisterRelease, TransitionRelease, ApproveDecision, EditDecision, Accept,
              RejectDecision, ScheduleObservation
<1>6. ASSUME NEW q \in Release, WindowCloses(q) \/ TimePasses(q)
      PROVE  UNCHANGED attempt
  BY <1>6 DEF WindowCloses, TimePasses
<1>7. ASSUME NEW c \in Caller, NEW q \in Release, CallEvaluation(c, q)
      PROVE  UNCHANGED attempt
  BY <1>7 DEF CallEvaluation
<1>8. CASE UNCHANGED loopVars
  BY <1>8 DEF loopVars
<1> QED
  BY <1>1, <1>2, <1>3, <1>4, <1>5, <1>6, <1>7, <1>8 DEF LoopNext, Work, Process

\* When no run outlives the lease of a release it claimed, and no schedule_observation
\* overwrites one, a release is in the hands of one monitor at a time, and none
\* touches its attempt once it is judged (releaseMonitor.ts): for any number of
\* monitors, batches, crashes and rolled back transactions.
THEOREM JudgedByOneMonitor ==
  ASSUME LoopAssumption, LeaseHolds, MaxSchedules = 0
  PROVE  LoopSpec => []OneMonitor /\ JudgedIsFinal
<1> DEFINE Stays == \A r \in Release : Judged(r) => attempt'[r] = attempt[r]
<1>1. LoopInit => HeldInv
  BY DEF LoopAssumption, LoopInit, HeldInv, Holds, OneMonitor, Process
<1>2. LoopInv /\ HeldInv /\ [LoopNext]_loopVars => HeldInv'
  BY HeldKeeps
<1>3. HeldInv => OneMonitor
  BY DEF HeldInv
<1>4. LoopInv /\ HeldInv /\ [LoopNext]_loopVars => [Stays]_loopVars
  BY JudgedStays
<1> QED
  BY <1>1, <1>2, <1>3, <1>4, LoopInvariance, PTL DEF LoopSpec, JudgedIsFinal

-----------------------------------------------------------------------------
(* The actions of a decision.                                               *)

\* The statuses an action has once it was approved: there is no way back.
Opened == {"approved", "executed", "failed"}

\* What a client knows of the action it works on.
ClientInv ==
  \A p \in Client :
    /\ pc[p] # "idle" => target[p] \in Action
    /\ pc[p] \notin {"idle", "preparing"} => rowStatus[target[p]] \in Opened
    /\ pc[p] \in {"recording", "auditing"} => HasEffect(target[p])

\* What the row of an action says of its approval and of its effect.
RowInv ==
  \A a \in Action :
    /\ rowStatus[a] \in Opened => approved /\ "approved" \in audit[a]
    /\ HasEffect(a) => rowStatus[a] \in Opened
    /\ rowStatus[a] = "executed" \/ "executed" \in audit[a] => HasEffect(a)

ActionsInv == ActionsTypeOK /\ ClientInv /\ RowInv /\ StatusIsAudited

\* The first conjuncts of the type invariant: the columns.
ColumnsOK ==
  /\ rowStatus \in [Action -> ActionStatus]
  /\ undo \in [Action -> Variants]
  /\ audit \in [Action -> SUBSET Event]
  /\ approved \in BOOLEAN /\ frozen \in BOOLEAN /\ verified \in BOOLEAN
  /\ variants \in Variants
  /\ outcome \in [Action -> {"absent", "owed", "delivered", "dead"}]
  /\ tries \in [Action -> 0 .. OutboxAttempts]
  /\ delivered \in [Action -> BOOLEAN]
  /\ writes \in [Action -> Nat]
  /\ calls \in 0 .. MaxCalls /\ stops \in 0 .. MaxStops

ClientsOK ==
  /\ pc \in [Client -> Step]
  /\ target \in [Client -> Action \cup {NoAction}]
  /\ seen \in [Client -> Variants]

LEMMA TypesTogether ==
  /\ ColumnsOK /\ ClientsOK /\ ClientInv => ActionsTypeOK
  /\ ColumnsOK' /\ ClientsOK' /\ ClientInv' => ActionsTypeOK'
<1>1. ColumnsOK /\ ClientsOK /\ ClientInv => ActionsTypeOK
  BY DEF ColumnsOK, ClientsOK, ClientInv, ActionsTypeOK, Opened
<1>2. ColumnsOK' /\ ClientsOK' /\ ClientInv' => ActionsTypeOK'
  BY DEF ColumnsOK, ClientsOK, ClientInv, ActionsTypeOK, Opened
<1> QED
  BY <1>1, <1>2

LEMMA TypesApart ==
  ASSUME ActionsTypeOK
  PROVE  ColumnsOK /\ ClientsOK
BY DEF ActionsTypeOK, ColumnsOK, ClientsOK

LEMMA InitActionsInv ==
  ASSUME ActionsAssumption, ActionsInit
  PROVE  ActionsInv
<1>1. ColumnsOK /\ ClientsOK
  <2> USE DEF ActionsInit, Outbox!Init
  <2>1. approved \in BOOLEAN /\ frozen \in BOOLEAN /\ verified \in BOOLEAN
    OBVIOUS
  <2>2. delivered \in [Action -> BOOLEAN]
    OBVIOUS
  <2>3. /\ tries \in [Action -> 0 .. OutboxAttempts] /\ writes \in [Action -> Nat]
        /\ calls \in 0 .. MaxCalls /\ stops \in 0 .. MaxStops
    BY DEF ActionsAssumption
  <2> QED
    BY <2>1, <2>2, <2>3 DEF ActionsAssumption, ColumnsOK, ClientsOK, ActionStatus, Event, Step
<1>2. \A a \in Action : ~HasEffect(a)
  BY DEF ActionsInit, Outbox!Init, HasEffect
<1>3. ClientInv /\ RowInv /\ StatusIsAudited
  BY <1>2 DEF ActionsInit, ClientInv, RowInv, StatusIsAudited, Opened
<1> QED
  BY <1>1, <1>3, TypesTogether DEF ActionsInv

-----------------------------------------------------------------------------
(* Steps of a client.                                                       *)

LEMMA ReadForPrepareKeeps ==
  ASSUME ActionsAssumption, ActionsInv, NEW p \in Client, NEW a \in Action, ReadForPrepare(p, a)
  PROVE  ActionsInv'
<1> USE TypesApart DEF ActionsInv, ReadForPrepare, Enter, table, setting, outbox, request, counters
<1>1. ColumnsOK' /\ ClientsOK'
  BY DEF ActionsAssumption, ColumnsOK, ClientsOK, ClientInv, Step, ActionStatus, Event
<1>2. ClientInv'
  BY DEF ClientInv, ColumnsOK, ClientsOK, HasEffect, Opened
<1>3. RowInv'
  BY DEF RowInv, ClientInv, ColumnsOK, ClientsOK, HasEffect, Opened
<1>4. StatusIsAudited'
  BY DEF StatusIsAudited, ColumnsOK, ClientsOK, ClientInv
<1> QED
  BY <1>1, <1>2, <1>3, <1>4, TypesTogether

LEMMA InsertPreparedKeeps ==
  ASSUME ActionsAssumption, ActionsInv, NEW p \in Client, InsertPrepared(p)
  PROVE  ActionsInv'
<1> USE TypesApart DEF ActionsInv, InsertPrepared, IsNew, Leave, Log,
      table, setting, outbox, request, counters
<1>1. ColumnsOK' /\ ClientsOK'
  BY DEF ActionsAssumption, ColumnsOK, ClientsOK, ClientInv, Step, ActionStatus, Event
<1>2. ClientInv'
  BY DEF ClientInv, ColumnsOK, ClientsOK, HasEffect, Opened
<1>3. RowInv'
  BY DEF RowInv, ClientInv, ColumnsOK, ClientsOK, HasEffect, Opened
<1>4. StatusIsAudited'
  BY DEF StatusIsAudited, ColumnsOK, ClientsOK, ClientInv
<1> QED
  BY <1>1, <1>2, <1>3, <1>4, TypesTogether

LEMMA ApproveActionKeeps ==
  ASSUME ActionsAssumption, ActionsInv, NEW p \in Client, NEW a \in Action, ApproveAction(p, a)
  PROVE  ActionsInv'
<1> USE TypesApart DEF ActionsInv, ApproveAction, Approvable, Enter, Log,
      table, setting, outbox, request, counters
<1>1. ColumnsOK' /\ ClientsOK'
  BY DEF ActionsAssumption, ColumnsOK, ClientsOK, ClientInv, Step, ActionStatus, Event
<1>2. ClientInv'
  BY DEF ClientInv, ColumnsOK, ClientsOK, HasEffect, Opened
<1>3. RowInv'
  BY DEF RowInv, ClientInv, ColumnsOK, ClientsOK, HasEffect, Opened
<1>4. StatusIsAudited'
  BY DEF StatusIsAudited, ColumnsOK, ClientsOK, ClientInv
<1> QED
  BY <1>1, <1>2, <1>3, <1>4, TypesTogether

LEMMA RetryActionKeeps ==
  ASSUME ActionsAssumption, ActionsInv, NEW p \in Client, NEW a \in Action, RetryAction(p, a)
  PROVE  ActionsInv'
<1> USE TypesApart DEF ActionsInv, RetryAction, Enter, Log, table, setting, outbox, request, counters
<1>1. ColumnsOK' /\ ClientsOK'
  BY DEF ActionsAssumption, ColumnsOK, ClientsOK, ClientInv, Step, ActionStatus, Event
<1>2. ClientInv'
  BY DEF ClientInv, ColumnsOK, ClientsOK, HasEffect, Opened
<1>3. RowInv'
  BY DEF RowInv, ClientInv, ColumnsOK, ClientsOK, HasEffect, Opened
<1>4. StatusIsAudited'
  BY DEF StatusIsAudited, ColumnsOK, ClientsOK, ClientInv
<1> QED
  BY <1>1, <1>2, <1>3, <1>4, TypesTogether

LEMMA ExecuteFlagChangeKeeps ==
  ASSUME ActionsAssumption, ActionsInv, NEW p \in Client, ExecuteFlagChange(p)
  PROVE  ActionsInv'
<1> USE TypesApart DEF ActionsInv, ExecuteFlagChange, Goto, table, setting, outbox, request, counters
<1>1. ColumnsOK' /\ ClientsOK'
  BY DEF ActionsAssumption, ColumnsOK, ClientsOK, ClientInv, Step, ActionStatus, Event
<1>2. ClientInv'
  BY DEF ClientInv, ColumnsOK, ClientsOK, HasEffect, Opened
<1>3. RowInv'
  BY DEF RowInv, ClientInv, ColumnsOK, ClientsOK, HasEffect, Opened
<1>4. StatusIsAudited'
  BY DEF StatusIsAudited, ColumnsOK, ClientsOK, ClientInv
<1> QED
  BY <1>1, <1>2, <1>3, <1>4, TypesTogether

LEMMA EnqueueWebhookKeeps ==
  ASSUME ActionsAssumption, ActionsInv, NEW p \in Client, EnqueueWebhook(p)
  PROVE  ActionsInv'
<1> USE TypesApart DEF ActionsInv, EnqueueWebhook, Goto, OweOnce, Outbox!Owe,
      table, setting, outbox, request, counters
<1>1. ColumnsOK' /\ ClientsOK'
  BY DEF ActionsAssumption, ColumnsOK, ClientsOK, ClientInv, Step, ActionStatus, Event
<1>2. ClientInv'
  BY DEF ClientInv, ColumnsOK, ClientsOK, HasEffect, Opened
<1>3. RowInv'
  BY DEF RowInv, ClientInv, ColumnsOK, ClientsOK, HasEffect, Opened
<1>4. StatusIsAudited'
  BY DEF StatusIsAudited, ColumnsOK, ClientsOK, ClientInv
<1> QED
  BY <1>1, <1>2, <1>3, <1>4, TypesTogether

LEMMA EffectRefusedKeeps ==
  ASSUME ActionsAssumption, ActionsInv, NEW p \in Client, EffectRefused(p)
  PROVE  ActionsInv'
<1> USE TypesApart DEF ActionsInv, EffectRefused, Goto, table, setting, outbox, request, counters
<1>1. ColumnsOK' /\ ClientsOK'
  BY DEF ActionsAssumption, ColumnsOK, ClientsOK, ClientInv, Step, ActionStatus, Event
<1>2. ClientInv'
  BY DEF ClientInv, ColumnsOK, ClientsOK, HasEffect, Opened
<1>3. RowInv'
  BY DEF RowInv, ClientInv, ColumnsOK, ClientsOK, HasEffect, Opened
<1>4. StatusIsAudited'
  BY DEF StatusIsAudited, ColumnsOK, ClientsOK, ClientInv
<1> QED
  BY <1>1, <1>2, <1>3, <1>4, TypesTogether

LEMMA RecordExecutedKeeps ==
  ASSUME ActionsAssumption, ActionsInv, NEW p \in Client, RecordExecuted(p)
  PROVE  ActionsInv'
<1> USE TypesApart DEF ActionsInv, RecordExecuted, Goto, table, setting, outbox, request, counters
<1>1. ColumnsOK' /\ ClientsOK'
  BY DEF ActionsAssumption, ColumnsOK, ClientsOK, ClientInv, Step, ActionStatus, Event
<1>2. ClientInv'
  BY DEF ClientInv, ColumnsOK, ClientsOK, HasEffect, Opened
<1>3. RowInv'
  BY DEF RowInv, ClientInv, ColumnsOK, ClientsOK, HasEffect, Opened
<1>4. StatusIsAudited'
  BY DEF StatusIsAudited, ColumnsOK, ClientsOK, ClientInv
<1> QED
  BY <1>1, <1>2, <1>3, <1>4, TypesTogether

LEMMA AuditExecutedKeeps ==
  ASSUME ActionsAssumption, ActionsInv, NEW p \in Client, AuditExecuted(p)
  PROVE  ActionsInv'
<1> USE TypesApart DEF ActionsInv, AuditExecuted, Leave, Log,
      table, setting, outbox, request, counters
<1>1. ColumnsOK' /\ ClientsOK'
  BY DEF ActionsAssumption, ColumnsOK, ClientsOK, ClientInv, Step, ActionStatus, Event
<1>2. ClientInv'
  BY DEF ClientInv, ColumnsOK, ClientsOK, HasEffect, Opened
<1>3. RowInv'
  BY DEF RowInv, ClientInv, ColumnsOK, ClientsOK, HasEffect, Opened
<1>4. StatusIsAudited'
  BY DEF StatusIsAudited, ColumnsOK, ClientsOK, ClientInv
<1> QED
  BY <1>1, <1>2, <1>3, <1>4, TypesTogether

LEMMA StatementFailsKeeps ==
  ASSUME ActionsAssumption, ActionsInv, NEW p \in Client, StatementFails(p)
  PROVE  ActionsInv'
<1> USE TypesApart DEF ActionsInv, StatementFails, Goto, table, setting, outbox, request, counters
<1>1. ColumnsOK' /\ ClientsOK'
  BY DEF ActionsAssumption, ColumnsOK, ClientsOK, ClientInv, Step, ActionStatus, Event
<1>2. ClientInv'
  BY DEF ClientInv, ColumnsOK, ClientsOK, HasEffect, Opened
<1>3. RowInv'
  BY DEF RowInv, ClientInv, ColumnsOK, ClientsOK, HasEffect, Opened
<1>4. StatusIsAudited'
  BY DEF StatusIsAudited, ColumnsOK, ClientsOK, ClientInv
<1> QED
  BY <1>1, <1>2, <1>3, <1>4, TypesTogether

LEMMA RecordFailedKeeps ==
  ASSUME ActionsAssumption, ActionsInv, NEW p \in Client, RecordFailed(p)
  PROVE  ActionsInv'
<1> USE TypesApart DEF ActionsInv, RecordFailed, VerdictOfCatch, Goto,
      table, setting, outbox, request, counters
<1>1. ColumnsOK' /\ ClientsOK'
  BY DEF ActionsAssumption, ColumnsOK, ClientsOK, ClientInv, Step, ActionStatus, Event
<1>2. ClientInv'
  BY DEF ClientInv, ColumnsOK, ClientsOK, HasEffect, Opened
<1>3. RowInv'
  BY DEF RowInv, ClientInv, ColumnsOK, ClientsOK, HasEffect, Opened
<1>4. StatusIsAudited'
  BY DEF StatusIsAudited, ColumnsOK, ClientsOK, ClientInv
<1> QED
  BY <1>1, <1>2, <1>3, <1>4, TypesTogether

LEMMA AuditFailedKeeps ==
  ASSUME ActionsAssumption, ActionsInv, NEW p \in Client, AuditFailed(p)
  PROVE  ActionsInv'
<1> USE TypesApart DEF ActionsInv, AuditFailed, Leave, Log, table, setting, outbox, request, counters
<1>1. ColumnsOK' /\ ClientsOK'
  BY DEF ActionsAssumption, ColumnsOK, ClientsOK, ClientInv, Step, ActionStatus, Event
<1>2. ClientInv'
  BY DEF ClientInv, ColumnsOK, ClientsOK, HasEffect, Opened
<1>3. RowInv'
  BY DEF RowInv, ClientInv, ColumnsOK, ClientsOK, HasEffect, Opened
<1>4. StatusIsAudited'
  BY DEF StatusIsAudited, ColumnsOK, ClientsOK, ClientInv
<1> QED
  BY <1>1, <1>2, <1>3, <1>4, TypesTogether

LEMMA CrashKeeps ==
  ASSUME ActionsAssumption, ActionsInv, NEW p \in Client, Crash(p)
  PROVE  ActionsInv'
<1> USE TypesApart DEF ActionsInv, Crash, Leave, table, setting, outbox, request, counters
<1>1. ColumnsOK' /\ ClientsOK'
  BY DEF ActionsAssumption, ColumnsOK, ClientsOK, ClientInv, Step, ActionStatus, Event
<1>2. ClientInv'
  BY DEF ClientInv, ColumnsOK, ClientsOK, HasEffect, Opened
<1>3. RowInv'
  BY DEF RowInv, ClientInv, ColumnsOK, ClientsOK, HasEffect, Opened
<1>4. StatusIsAudited'
  BY DEF StatusIsAudited, ColumnsOK, ClientsOK, ClientInv
<1> QED
  BY <1>1, <1>2, <1>3, <1>4, TypesTogether

LEMMA RejectActionKeeps ==
  ASSUME ActionsAssumption, ActionsInv, NEW a \in Action, RejectAction(a)
  PROVE  ActionsInv'
<1> USE TypesApart DEF ActionsInv, RejectAction, Log, table, setting, outbox, request, counters
<1>1. ColumnsOK' /\ ClientsOK'
  BY DEF ActionsAssumption, ColumnsOK, ClientsOK, ClientInv, Step, ActionStatus, Event
<1>2. ClientInv'
  BY DEF ClientInv, ColumnsOK, ClientsOK, HasEffect, Opened
<1>3. RowInv'
  BY DEF RowInv, ClientInv, ColumnsOK, ClientsOK, HasEffect, Opened
<1>4. StatusIsAudited'
  BY DEF StatusIsAudited, ColumnsOK, ClientsOK, ClientInv
<1> QED
  BY <1>1, <1>2, <1>3, <1>4, TypesTogether

LEMMA DecisionApprovedKeeps ==
  ASSUME ActionsAssumption, ActionsInv, DecisionApproved
  PROVE  ActionsInv'
<1> USE TypesApart DEF ActionsInv, DecisionApproved, table, setting, outbox, request, counters
<1>1. ColumnsOK' /\ ClientsOK'
  BY DEF ActionsAssumption, ColumnsOK, ClientsOK, ClientInv, Step, ActionStatus, Event
<1>2. ClientInv'
  BY DEF ClientInv, ColumnsOK, ClientsOK, HasEffect, Opened
<1>3. RowInv'
  BY DEF RowInv, ClientInv, ColumnsOK, ClientsOK, HasEffect, Opened
<1>4. StatusIsAudited'
  BY DEF StatusIsAudited, ColumnsOK, ClientsOK, ClientInv
<1> QED
  BY <1>1, <1>2, <1>3, <1>4, TypesTogether

LEMMA OperatorChangesFlagKeeps ==
  ASSUME ActionsAssumption, ActionsInv, OperatorChangesFlag
  PROVE  ActionsInv'
<1> USE TypesApart DEF ActionsInv, OperatorChangesFlag, table, setting, outbox, request, counters
<1>1. ColumnsOK' /\ ClientsOK'
  BY DEF ActionsAssumption, ColumnsOK, ClientsOK, ClientInv, Step, ActionStatus, Event
<1>2. ClientInv'
  BY DEF ClientInv, ColumnsOK, ClientsOK, HasEffect, Opened
<1>3. RowInv'
  BY DEF RowInv, ClientInv, ColumnsOK, ClientsOK, HasEffect, Opened
<1>4. StatusIsAudited'
  BY DEF StatusIsAudited, ColumnsOK, ClientsOK, ClientInv
<1> QED
  BY <1>1, <1>2, <1>3, <1>4, TypesTogether

LEMMA OperatorFreezesFlagKeeps ==
  ASSUME ActionsAssumption, ActionsInv, OperatorFreezesFlag
  PROVE  ActionsInv'
<1> USE TypesApart DEF ActionsInv, OperatorFreezesFlag, table, setting, outbox, request, counters
<1>1. ColumnsOK' /\ ClientsOK'
  BY DEF ActionsAssumption, ColumnsOK, ClientsOK, ClientInv, Step, ActionStatus, Event
<1>2. ClientInv'
  BY DEF ClientInv, ColumnsOK, ClientsOK, HasEffect, Opened
<1>3. RowInv'
  BY DEF RowInv, ClientInv, ColumnsOK, ClientsOK, HasEffect, Opened
<1>4. StatusIsAudited'
  BY DEF StatusIsAudited, ColumnsOK, ClientsOK, ClientInv
<1> QED
  BY <1>1, <1>2, <1>3, <1>4, TypesTogether

LEMMA DestinationTestedKeeps ==
  ASSUME ActionsAssumption, ActionsInv, DestinationTested
  PROVE  ActionsInv'
<1> USE TypesApart DEF ActionsInv, DestinationTested, table, setting, outbox, request, counters
<1>1. ColumnsOK' /\ ClientsOK'
  BY DEF ActionsAssumption, ColumnsOK, ClientsOK, ClientInv, Step, ActionStatus, Event
<1>2. ClientInv'
  BY DEF ClientInv, ColumnsOK, ClientsOK, HasEffect, Opened
<1>3. RowInv'
  BY DEF RowInv, ClientInv, ColumnsOK, ClientsOK, HasEffect, Opened
<1>4. StatusIsAudited'
  BY DEF StatusIsAudited, ColumnsOK, ClientsOK, ClientInv
<1> QED
  BY <1>1, <1>2, <1>3, <1>4, TypesTogether

LEMMA OutboxWorksKeeps ==
  ASSUME ActionsAssumption, ActionsInv, OutboxWorks
  PROVE  ActionsInv'
<1> USE TypesApart DEF ActionsInv, OutboxWorks, Outbox!Try, Outbox!Accept, Outbox!Deliver,
      Outbox!GiveUp, table, setting, outbox, request, counters
<1>1. ColumnsOK' /\ ClientsOK'
  <2>1. UNCHANGED <<table, setting, request, writes, counters>>
    OBVIOUS
  <2>2. /\ outcome' \in [Action -> {"absent", "owed", "delivered", "dead"}]
        /\ tries' \in [Action -> 0 .. OutboxAttempts]
        /\ delivered' \in [Action -> BOOLEAN]
    <3>1. ASSUME NEW S \in SUBSET Action, Outbox!Try(S)
          PROVE  tries' \in [Action -> 0 .. OutboxAttempts]
      BY <3>1 DEF ActionsAssumption, ColumnsOK
    <3> QED
      BY <3>1 DEF ColumnsOK
  <2> QED
    BY <2>1, <2>2 DEF ColumnsOK, ClientsOK
<1>2. ClientInv'
  BY DEF ClientInv, ColumnsOK, ClientsOK, HasEffect, Opened
<1>3. RowInv'
  BY DEF RowInv, ClientInv, ColumnsOK, ClientsOK, HasEffect, Opened
<1>4. StatusIsAudited'
  BY DEF StatusIsAudited, ColumnsOK, ClientsOK, ClientInv
<1> QED
  BY <1>1, <1>2, <1>3, <1>4, TypesTogether

-----------------------------------------------------------------------------
(* Steps of the system.                                                     *)

LEMMA ActionsNextKeeps ==
  ASSUME ActionsAssumption, ActionsInv, [ActionsNext]_actionVars
  PROVE  ActionsInv'
<1>1. ASSUME NEW p \in Client, NEW a \in Action,
             ReadForPrepare(p, a) \/ ApproveAction(p, a) \/ RetryAction(p, a)
      PROVE  ActionsInv'
  BY <1>1, ReadForPrepareKeeps, ApproveActionKeeps, RetryActionKeeps
<1>2. ASSUME NEW p \in Client, Execute(p)
      PROVE  ActionsInv'
  BY <1>2, ExecuteFlagChangeKeeps, EnqueueWebhookKeeps, EffectRefusedKeeps, RecordExecutedKeeps,
     AuditExecutedKeeps, RecordFailedKeeps, AuditFailedKeeps DEF Execute
<1>3. ASSUME NEW p \in Client, InsertPrepared(p) \/ StatementFails(p) \/ Crash(p)
      PROVE  ActionsInv'
  BY <1>3, InsertPreparedKeeps, StatementFailsKeeps, CrashKeeps
<1>4. ASSUME NEW a \in Action, RejectAction(a)
      PROVE  ActionsInv'
  BY <1>4, RejectActionKeeps
<1>5. ASSUME DecisionApproved \/ OperatorChangesFlag \/ OperatorFreezesFlag
               \/ DestinationTested \/ OutboxWorks
      PROVE  ActionsInv'
  BY <1>5, DecisionApprovedKeeps, OperatorChangesFlagKeeps, OperatorFreezesFlagKeeps,
     DestinationTestedKeeps, OutboxWorksKeeps
<1>6. CASE UNCHANGED actionVars
  <2> USE DEF actionVars, table, setting, outbox, request, counters
  <2>1. ActionsTypeOK'
    BY <1>6 DEF ActionsInv, ActionsTypeOK
  <2>2. ClientInv' /\ RowInv' /\ StatusIsAudited'
    BY <1>6 DEF ActionsInv, ClientInv, RowInv, StatusIsAudited, HasEffect
  <2> QED
    BY <2>1, <2>2 DEF ActionsInv
<1> QED
  BY <1>1, <1>2, <1>3, <1>4, <1>5, <1>6 DEF ActionsNext

\* Enqueueing, again or for the first time, is a step of the contract of the outbox
\* or leaves it alone; nothing else here touches it but the outbox itself.
LEMMA OutboxIsLeftAlone ==
  ASSUME ActionsAssumption, ActionsInv, [ActionsNext]_actionVars
  PROVE  [Outbox!Next]_(Outbox!vars)
<1> USE DEF Outbox!vars, outbox
<1>1. ASSUME NEW p \in Client, NEW a \in Action,
             ReadForPrepare(p, a) \/ ApproveAction(p, a) \/ RetryAction(p, a)
      PROVE  UNCHANGED outbox
  BY <1>1 DEF ReadForPrepare, ApproveAction, RetryAction
<1>2. ASSUME NEW p \in Client, EnqueueWebhook(p)
      PROVE  [Outbox!Next]_(Outbox!vars)
  BY <1>2 DEF EnqueueWebhook, OweOnce, Outbox!Next
<1>3. ASSUME NEW p \in Client, Execute(p), ~EnqueueWebhook(p)
      PROVE  UNCHANGED outbox
  BY <1>3 DEF Execute, ExecuteFlagChange, EffectRefused, RecordExecuted, AuditExecuted,
              RecordFailed, AuditFailed
<1>4. ASSUME NEW p \in Client, InsertPrepared(p) \/ StatementFails(p) \/ Crash(p)
      PROVE  UNCHANGED outbox
  BY <1>4 DEF InsertPrepared, StatementFails, Crash
<1>5. ASSUME NEW a \in Action, RejectAction(a)
      PROVE  UNCHANGED outbox
  BY <1>5 DEF RejectAction
<1>6. ASSUME DecisionApproved \/ OperatorChangesFlag \/ OperatorFreezesFlag \/ DestinationTested
      PROVE  UNCHANGED outbox
  BY <1>6 DEF DecisionApproved, OperatorChangesFlag, OperatorFreezesFlag, DestinationTested
<1>7. ASSUME OutboxWorks
      PROVE  [Outbox!Next]_(Outbox!vars)
  BY <1>7 DEF OutboxWorks, Outbox!Next
<1>8. CASE UNCHANGED actionVars
  BY <1>8 DEF actionVars
<1> QED
  BY <1>1, <1>2, <1>3, <1>4, <1>5, <1>6, <1>7, <1>8 DEF ActionsNext

-----------------------------------------------------------------------------
(* Theorems.                                                                *)

LEMMA ActionsInvariance ==
  ASSUME ActionsAssumption
  PROVE  ActionsSpec => []ActionsInv
<1>1. ActionsInit => ActionsInv
  BY InitActionsInv
<1>2. ActionsInv /\ [ActionsNext]_actionVars => ActionsInv'
  BY ActionsNextKeeps
<1> QED
  BY <1>1, <1>2, PTL DEF ActionsSpec

\* Every column and client keeps its type, and a client that executes an action
\* executes one that was prepared and approved (actions.ts).
THEOREM ActionTypes ==
  ASSUME ActionsAssumption
  PROVE  ActionsSpec => []ActionsTypeOK
<1>1. ActionsInv => ActionsTypeOK
  BY DEF ActionsInv
<1> QED
  BY <1>1, ActionsInvariance, PTL

\* No effect without approval, none reported that was not had, no status without
\* its audit row unless something failed (actions.ts): for every number of clients
\* that prepare, approve, retry and execute the same actions at once, and of crashes
\* and failed statements.
THEOREM EffectsAgree ==
  ASSUME ActionsAssumption
  PROVE  ActionsSpec => []EffectsMatchStatus
<1>1. ActionsInv => EffectsMatchStatus
  BY DEF ActionsInv, RowInv, Opened, EffectsMatchStatus, NoEffectWithoutApproval, ExecutedHasEffect
<1> QED
  BY <1>1, ActionsInvariance, PTL

\* Executing actions implements the contract of the webhook outbox (actions.ts,
\* webhooks.ts): at most one delivery of an action, and never one touched again.
THEOREM ActionsKeepTheContract ==
  ASSUME ActionsAssumption
  PROVE  ActionsSpec => DeliverySpec
<1>1. ActionsInit => Outbox!Init
  BY DEF ActionsInit
<1>2. ActionsInv /\ [ActionsNext]_actionVars => [Outbox!Next]_(Outbox!vars)
  BY OutboxIsLeftAlone
<1> QED
  BY <1>1, <1>2, ActionsInvariance, PTL DEF ActionsSpec, DeliverySpec, Outbox!Spec
=============================================================================
