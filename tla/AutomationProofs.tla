-------------------------- MODULE AutomationProofs --------------------------
(***************************************************************************)
(* Proofs about MonitorRuns and Notifications, for every number of         *)
(* processes, windows, revisions, deliveries and upsets.                   *)
(*                                                                         *)
(* That a window has one result is inductive only for the runs, not for    *)
(* the results: the key of a run is checked when it is seeded, and whoever *)
(* records a result holds a run that was seeded (SeedInv).  The cooldown   *)
(* of a process rests on the `now' of its pass: having recorded a finding, *)
(* it has seen one for the rest of the pass, and begins no other pass      *)
(* without seeing it (CoolInv).                                            *)
(*                                                                         *)
(* An attempt at a delivery has one owner because a claim gives a number   *)
(* larger than any that is held or logged (NumberInv).                     *)
(***************************************************************************)
EXTENDS MonitorRuns, Notifications, TLAPS

-----------------------------------------------------------------------------
(* The evaluation workers.                                                  *)

\* A worker that records has a run in hand that it claimed, and one of a feed records
\* a snapshot in any case.
InHand ==
  \A w \in Worker :
    pc[w] = "recording" =>
      cur[w] \in Run /\ held[w][cur[w]] > 0 /\ (kind = "feed" => finds[w])

\* Runs that are told apart by the unique key of their table; a run that is claimed
\* or has a result was seeded.
SeedInv ==
  /\ \A r, s \in Run :
       /\ run[r].status # "absent" /\ run[s].status # "absent"
       /\ r[2] = s[2] /\ (kind = "monitor" => r[1] = s[1])
       => r = s
  /\ \A r \in results : run[r].status # "absent"
  /\ \A w \in Worker, r \in Run : held[w][r] > 0 => run[r].status # "absent"

\* A process that recorded a finding within the cooldown will not record the one it is
\* evaluating, and knows of a recent finding until its pass is over.
CoolInv ==
  \A w \in Worker :
    /\ burst[w] <= 1
    /\ burst[w] > 0 => /\ kind = "monitor" /\ cooling /\ ~finds[w]
                       /\ pc[w] # "idle" => recent[w]

RunsInv == TypeOK /\ InHand /\ SeedInv /\ ResultsAreWhole /\ CoolInv

LEMMA LesserOfTwo ==
  ASSUME NEW a \in Int, NEW b \in Int
  PROVE  Min({a, b}) = IF a <= b THEN a ELSE b
BY DEF Min

\* What a finished attempt leaves is a row in the status it is given.
LEMMA RowLeft ==
  ASSUME NEW row \in RunRow, NEW s \in RunStatus
  PROVE  Left(row, s) \in RunRow /\ Left(row, s).status = s
BY DEF Left, RunRow

\* The policy or schedule, a record.
HeadRow == [version : Version, status : HeadStatus, next : 1 .. MaxWindow + 1]

LEMMA HeadFields ==
  ASSUME TypeOK
  PROVE  /\ head \in HeadRow /\ clock \in 1 .. MaxWindow
         /\ head.version \in 1 .. MaxVersion /\ head.next \in 1 .. MaxWindow + 1
         /\ head.status \in HeadStatus /\ kind \in {"monitor", "feed"}
<1>1. head \in HeadRow /\ clock \in 1 .. MaxWindow /\ kind \in {"monitor", "feed"}
  BY DEF TypeOK, HeadRow, Window
<1> QED
  BY <1>1 DEF HeadRow, Version

LEMMA HeadIs ==
  ASSUME NEW h \in HeadRow, NEW v \in 1 .. MaxVersion, NEW s \in HeadStatus,
         NEW n \in 1 .. MaxWindow + 1
  PROVE  /\ [h EXCEPT !.version = v, !.next = n] \in HeadRow
         /\ [h EXCEPT !.status = s, !.next = n] \in HeadRow
         /\ [h EXCEPT !.next = n] \in HeadRow
BY DEF HeadRow, Version

LEMMA InitRunsInv ==
  ASSUME Init
  PROVE  RunsInv
<1> USE MonitorAssumption DEF Init, Nothing, NoFindings
<1>1. TypeOK
  <2>1. head \in HeadRow
    <3>1. PICK s \in {"active", "paused"} : head = [version |-> 1, status |-> s, next |-> 1]
      OBVIOUS
    <3>2. 1 \in Version /\ 1 \in 1 .. MaxWindow + 1 /\ s \in HeadStatus
      BY DEF Version, HeadStatus
    <3> QED
      BY <3>1, <3>2 DEF HeadRow
  <2>2. run \in [Run -> RunRow]
    BY DEF RunRow, RunStatus, AttemptCap
  <2>3. held \in [Worker -> [Run -> 0 .. AttemptCap]]
    BY DEF AttemptCap
  <2>4. clock \in Window /\ upsets \in 0 .. MaxUpsets /\ burst \in [Worker -> Nat]
    BY DEF Window
  <2>5. /\ kind \in {"monitor", "feed"} /\ cooling \in BOOLEAN
        /\ results \subseteq Run /\ routed \subseteq Run /\ frozen \subseteq Run
    OBVIOUS
  <2>6. /\ pc \in [Worker -> Phase] /\ cur \in [Worker -> Run \cup {NoRun}]
        /\ finds \in [Worker -> BOOLEAN] /\ recent \in [Worker -> BOOLEAN]
    BY DEF Phase
  <2> QED
    BY <2>1, <2>2, <2>3, <2>4, <2>5, <2>6 DEF TypeOK, HeadRow
<1>2. InHand /\ SeedInv
  BY DEF InHand, SeedInv
<1>3. ResultsAreWhole
  BY DEF ResultsAreWhole
<1>4. CoolInv
  BY DEF CoolInv
<1> QED
  BY <1>1, <1>2, <1>3, <1>4 DEF RunsInv

\* What changes neither the rows of the runs and results nor the hands of a worker.
LEMMA HeadKeeps ==
  ASSUME RunsInv, Revise \/ \E s \in HeadStatus : Transition(s)
  PROVE  RunsInv'
<1> USE MonitorAssumption DEF RunsInv, hands, spell
<1>1. UNCHANGED <<kind, clock, run, results, routed, frozen, spell, hands>>
  BY DEF Revise, Transition
<1>2. head' \in HeadRow
  <2>1. CASE Revise
    <3>1. PICK n \in {clock, clock + 1} :
            head' = [head EXCEPT !.version = head.version + 1, !.next = n]
      BY <2>1 DEF Revise
    <3>2. head.version + 1 \in 1 .. MaxVersion /\ n \in 1 .. MaxWindow + 1
      BY <2>1, HeadFields DEF Revise
    <3> QED
      BY <3>1, <3>2, HeadFields, HeadIs
  <2>2. ASSUME NEW s \in HeadStatus, Transition(s)
        PROVE  head' \in HeadRow
    <3>1. PICK n \in {head.next, clock, clock + 1} : head' = [head EXCEPT !.status = s, !.next = n]
      BY <2>2 DEF Transition
    <3>2. n \in 1 .. MaxWindow + 1
      BY HeadFields
    <3> QED
      BY <3>1, <3>2, HeadFields, HeadIs
  <2> QED
    BY <2>1, <2>2
<1>3. upsets' \in 0 .. MaxUpsets
  <2>1. upsets \in 0 .. MaxUpsets
    BY DEF TypeOK
  <2>2. upsets' = upsets \/ (upsets < MaxUpsets /\ upsets' = upsets + 1)
    BY DEF Revise, Transition
  <2> QED
    BY <2>1, <2>2
<1>4. TypeOK'
  BY <1>1, <1>2, <1>3 DEF TypeOK, HeadRow
<1>5. InHand' /\ SeedInv' /\ ResultsAreWhole' /\ CoolInv'
  BY <1>1 DEF InHand, SeedInv, ResultsAreWhole, CoolInv
<1> QED
  BY <1>4, <1>5

LEMMA TimeKeeps ==
  ASSUME RunsInv, WindowPasses \/ CooldownEnds \/ \E r \in Run : LeaseEnds(r)
  PROVE  RunsInv'
<1> USE MonitorAssumption DEF RunsInv, rows, hands, spell, NoFindings
<1>1. CASE WindowPasses
  <2>1. TypeOK'
    BY <1>1 DEF WindowPasses, TypeOK, Window
  <2> QED
    BY <1>1, <2>1 DEF WindowPasses, InHand, SeedInv, ResultsAreWhole, CoolInv
<1>2. CASE CooldownEnds
  <2>1. TypeOK'
    BY <1>2 DEF CooldownEnds, TypeOK
  <2> QED
    BY <1>2, <2>1 DEF CooldownEnds, InHand, SeedInv, ResultsAreWhole, CoolInv
<1>3. ASSUME NEW r \in Run, LeaseEnds(r)
      PROVE  RunsInv'
  <2>1. /\ run' \in [Run -> RunRow]
        /\ \A s \in Run : run'[s].status = run[s].status
    <3>1. run \in [Run -> RunRow]
      BY DEF TypeOK
    <3>2. [run[r] EXCEPT !.leased = FALSE] \in RunRow
      BY <3>1 DEF RunRow
    <3>3. [run[r] EXCEPT !.leased = FALSE].status = run[r].status
      BY <3>1 DEF RunRow
    <3>4. run' = [run EXCEPT ![r] = [run[r] EXCEPT !.leased = FALSE]]
      BY <1>3, <3>1 DEF LeaseEnds
    <3> QED
      BY <3>1, <3>2, <3>3, <3>4
  <2>2. UNCHANGED <<kind, head, clock, results, routed, frozen, spell, hands, upsets>>
    BY <1>3 DEF LeaseEnds
  <2>3. TypeOK' /\ InHand' /\ CoolInv'
    BY <2>1, <2>2 DEF TypeOK, InHand, CoolInv
  <2>4. SeedInv'
    BY <2>1, <2>2 DEF SeedInv, TypeOK
  <2>5. ResultsAreWhole'
    BY <2>1, <2>2 DEF ResultsAreWhole
  <2> QED
    BY <2>3, <2>4, <2>5
<1> QED
  BY <1>1, <1>2, <1>3

LEMMA BeginRunKeeps ==
  ASSUME RunsInv, NEW w \in Worker, BeginRun(w)
  PROVE  RunsInv'
<1> USE MonitorAssumption DEF RunsInv, spell
<1> DEFINE seeded == <<head.version, SeedWindow>>
           isDue  == head.status = "active" /\ head.next <= clock
           seeds  == isDue /\ ~SeedConflict(seeded)
           filled  == IF seeds THEN [run EXCEPT ![seeded] = [@ EXCEPT !.status = "pending"]] ELSE run
           free   == {r \in Run : Claimable(filled[r])}
<1>1. PICK S \in SUBSET free :
        /\ run' = [r \in Run |-> IF r \in S THEN Claimed(filled[r]) ELSE filled[r]]
        /\ held' = [held EXCEPT ![w] = [r \in Run |-> IF r \in S THEN run'[r].attempts ELSE 0]]
        /\ pc' = [pc EXCEPT ![w] = IF S = {} THEN "idle" ELSE "working"]
        /\ recent' = [recent EXCEPT ![w] = S # {} /\ cooling]
  BY DEF BeginRun, kSubset
<1>2. /\ head' = IF isDue THEN MovedOn(head) ELSE head
      /\ UNCHANGED <<kind, clock, results, routed, frozen, spell, cur, finds, upsets>>
      /\ pc[w] = "idle"
  BY DEF BeginRun
<1>3. isDue => SeedWindow \in Window /\ seeded \in Run
  BY DEF SeedWindow, TypeOK, Run, Window, Version
<1>4. /\ filled \in [Run -> RunRow]
      /\ \A r \in Run : filled[r].status # "absent" <=> run[r].status # "absent" \/ (seeds /\ r = seeded)
      /\ \A r \in Run : filled[r].status = "succeeded" => run[r].status = "succeeded"
  <2>1. CASE seeds
    <3>1. seeded \in Run /\ run \in [Run -> RunRow]
      BY <1>3, <2>1 DEF TypeOK
    <3>2. run[seeded].status = "absent"
      BY <2>1, <3>1 DEF SeedConflict
    <3>3. filled = [run EXCEPT ![seeded] = [@ EXCEPT !.status = "pending"]]
      BY <2>1
    <3> HIDE DEF seeds, filled, seeded
    <3> QED
      BY <2>1, <3>1, <3>2, <3>3 DEF RunRow, RunStatus
  <2>2. CASE ~seeds
    BY <2>2 DEF TypeOK
  <2> QED
    BY <2>1, <2>2
<1>5. \A r \in Run : Claimable(filled[r]) => Claimed(filled[r]) \in RunRow /\ Claimed(filled[r]).status = "running"
  <2> SUFFICES ASSUME NEW r \in Run
               PROVE  Claimed(filled[r]) \in RunRow /\ Claimed(filled[r]).status = "running"
    OBVIOUS
  <2> HIDE DEF filled
  <2>1. filled[r] \in RunRow
    BY <1>4
  <2>2. Min({filled[r].attempts + 1, AttemptCap}) \in 0 .. AttemptCap
    BY <2>1, LesserOfTwo DEF RunRow, AttemptCap
  <2> QED
    BY <2>1, <2>2 DEF Claimed, RunRow, RunStatus
<1>6. /\ run' \in [Run -> RunRow]
      /\ \A r \in Run : run'[r].status # "absent" <=> filled[r].status # "absent"
      /\ \A r \in Run : run'[r].status = "succeeded" => run[r].status = "succeeded"
      /\ \A r \in S : run'[r].status = "running"
  <2> HIDE DEF filled
  <2>1. \A r \in S : r \in Run /\ Claimable(filled[r]) /\ filled[r].status # "absent"
    BY DEF Claimable
  <2> HIDE DEF free
  <2> QED
    BY <1>1, <1>4, <1>5, <2>1
<1>7. SeedInv'
  <2> HIDE DEF filled, seeds, seeded
  <2>1. \A r \in Run : run'[r].status # "absent" <=> run[r].status # "absent" \/ (seeds /\ r = seeded)
    BY <1>4, <1>6
  <2>2. ASSUME NEW r \in Run, NEW s \in Run, run'[r].status # "absent", run'[s].status # "absent",
               r[2] = s[2], kind = "monitor" => r[1] = s[1]
        PROVE  r = s
    <3>1. seeds => ~SeedConflict(seeded)
      BY DEF seeds
    <3> QED
      BY <2>1, <2>2, <3>1 DEF SeedInv, SeedConflict
  <2>3. \A r \in results' : run'[r].status # "absent"
    BY <1>2, <2>1 DEF SeedInv, TypeOK
  <2>4. \A v \in Worker, r \in Run : held'[v][r] > 0 => run'[r].status # "absent"
    <3>1. ASSUME NEW v \in Worker, NEW r \in Run, held'[v][r] > 0
          PROVE  run'[r].status # "absent"
      <4>1. CASE v = w
        <5>1. held'[w] = [s \in Run |-> IF s \in S THEN run'[s].attempts ELSE 0]
          BY <1>1 DEF TypeOK
        <5>2. r \in S
          BY <3>1, <4>1, <5>1
        <5> QED
          BY <1>6, <5>2
      <4>2. CASE v # w
        BY <1>1, <2>1, <3>1, <4>2 DEF TypeOK, SeedInv
      <4> QED
        BY <4>1, <4>2
    <3> QED
      BY <3>1
  <2> QED
    BY <1>2, <2>2, <2>3, <2>4 DEF SeedInv
<1>8. TypeOK'
  <2>1. head' \in HeadRow
    <3>1. isDue => SeedWindow + 1 \in 1 .. MaxWindow + 1
      BY <1>3 DEF Window
    <3> HIDE DEF isDue
    <3> QED
      BY <1>2, <3>1, HeadFields, HeadIs DEF MovedOn
  <2>2. held' \in [Worker -> [Run -> 0 .. AttemptCap]]
    <3>1. [r \in Run |-> IF r \in S THEN run'[r].attempts ELSE 0] \in [Run -> 0 .. AttemptCap]
      BY <1>6 DEF RunRow, AttemptCap
    <3> QED
      BY <1>1, <3>1 DEF TypeOK
  <2>3. pc' \in [Worker -> Phase] /\ recent' \in [Worker -> BOOLEAN]
    BY <1>1 DEF TypeOK, Phase
  <2> QED
    BY <1>2, <1>6, <2>1, <2>2, <2>3 DEF TypeOK, HeadRow
<1>9. InHand' /\ ResultsAreWhole' /\ CoolInv'
  <2>1. \A v \in Worker : v # w => pc'[v] = pc[v] /\ recent'[v] = recent[v] /\ held'[v] = held[v]
    BY <1>1 DEF TypeOK
  <2>2. pc'[w] # "recording" /\ (pc'[w] # "idle" /\ cooling => recent'[w])
    BY <1>1 DEF TypeOK
  <2>3. InHand'
    BY <1>2, <2>1, <2>2 DEF InHand
  <2>4. ResultsAreWhole'
    BY <1>2, <1>6 DEF ResultsAreWhole
  <2>5. CoolInv'
    BY <1>2, <2>1, <2>2 DEF CoolInv
  <2> QED
    BY <2>3, <2>4, <2>5
<1> QED
  BY <1>7, <1>8, <1>9

LEMMA EvaluateKeeps ==
  ASSUME RunsInv, NEW w \in Worker, NEW r \in Run, Evaluate(w, r)
  PROVE  RunsInv'
<1> USE MonitorAssumption DEF RunsInv, rows, spell
<1>1. PICK breach \in BOOLEAN : /\ kind = "feed" => breach
                                /\ finds' = [finds EXCEPT ![w] = breach /\ ~InCooldown(w)]
  BY DEF Evaluate
<1>2. /\ pc[w] = "working" /\ held[w][r] > 0
      /\ cur' = [cur EXCEPT ![w] = r]
      /\ pc' = [pc EXCEPT ![w] = "recording"]
      /\ UNCHANGED <<kind, rows, clock, spell, held, recent, upsets>>
  BY DEF Evaluate
<1>3. TypeOK'
  BY <1>1, <1>2 DEF TypeOK, Phase
<1>4. InHand'
  BY <1>1, <1>2 DEF InHand, InCooldown, TypeOK
<1>5. SeedInv' /\ ResultsAreWhole'
  BY <1>2 DEF SeedInv, ResultsAreWhole
<1>6. CoolInv'
  <2>1. \A v \in Worker : v # w => pc'[v] = pc[v] /\ finds'[v] = finds[v]
    BY <1>1, <1>2 DEF TypeOK
  <2>2. burst[w] > 0 => ~finds'[w] /\ recent[w]
    BY <1>1, <1>2 DEF CoolInv, InCooldown, TypeOK
  <2> QED
    BY <1>2, <2>1, <2>2 DEF CoolInv
<1> QED
  BY <1>3, <1>4, <1>5, <1>6

\* What is left of a worker's pass when it has dealt with a run.
LEMMA DoneKeeps ==
  ASSUME RunsInv, NEW w \in Worker, NEW r \in Run, Done(w, r)
  PROVE  /\ pc' \in [Worker -> Phase] /\ held' \in [Worker -> [Run -> 0 .. AttemptCap]]
         /\ cur' \in [Worker -> Run \cup {NoRun}] /\ finds' \in [Worker -> BOOLEAN]
         /\ pc'[w] # "recording" /\ ~finds'[w]
         /\ \A v \in Worker : v # w => /\ pc'[v] = pc[v] /\ held'[v] = held[v]
                                       /\ cur'[v] = cur[v] /\ finds'[v] = finds[v]
         /\ \A v \in Worker, s \in Run : held'[v][s] > 0 => held[v][s] > 0
<1> USE MonitorAssumption DEF RunsInv, TypeOK, Done
<1>1. held' \in [Worker -> [Run -> 0 .. AttemptCap]]
  BY DEF AttemptCap
<1>2. pc' \in [Worker -> Phase] /\ pc'[w] # "recording"
  BY DEF Phase
<1>3. \A v \in Worker, s \in Run : held'[v][s] > 0 => held[v][s] > 0
  <2>1. \A s \in Run : held'[w][s] > 0 => held[w][s] > 0
    BY DEF AttemptCap
  <2>2. \A v \in Worker : v # w => held'[v] = held[v]
    OBVIOUS
  <2> QED
    BY <2>1, <2>2
<1> QED
  BY <1>1, <1>2, <1>3

LEMMA RecordKeeps ==
  ASSUME RunsInv, NEW w \in Worker, Record(w)
  PROVE  RunsInv'
<1> USE MonitorAssumption DEF RunsInv
<1> DEFINE r == cur[w]
<1>1. /\ r \in Run /\ held[w][r] > 0 /\ run[r].status # "absent"
      /\ kind = "feed" => finds[w]
  BY DEF Record, InHand, SeedInv
<1>2. /\ Done(w, r)
      /\ run' = [run EXCEPT ![r] = Left(@, "succeeded")]
      /\ UNCHANGED <<kind, head, clock, upsets>>
  BY DEF Record
<1>3. /\ run' \in [Run -> RunRow] /\ run'[r].status = "succeeded"
      /\ \A s \in Run : s # r => run'[s] = run[s]
  <2>1. run \in [Run -> RunRow]
    BY DEF TypeOK
  <2>2. Left(run[r], "succeeded") \in RunRow /\ Left(run[r], "succeeded").status = "succeeded"
    BY <1>1, <2>1, RowLeft DEF RunStatus
  <2> QED
    BY <1>1, <1>2, <2>1, <2>2
<1>4. /\ results' \subseteq results \cup {r} /\ results \subseteq results'
      /\ finds[w] => r \in results'
      /\ results' = routed' /\ frozen' = (IF kind = "monitor" THEN results' ELSE {})
      /\ results' \subseteq Run
  BY <1>1 DEF Record, Routed, Frozen, ResultsAreWhole, TypeOK
<1>5. SeedInv'
  <2>1. \A s \in Run : run'[s].status # "absent" <=> run[s].status # "absent"
    BY <1>1, <1>3
  <2> QED
    BY <1>1, <1>2, <1>4, <2>1, DoneKeeps DEF SeedInv, TypeOK
<1>6. ResultsAreWhole'
  BY <1>1, <1>2, <1>3, <1>4 DEF ResultsAreWhole, TypeOK
<1>7. InHand'
  BY <1>1, <1>2, DoneKeeps DEF InHand
<1>8. /\ burst' \in [Worker -> Nat] /\ cooling' \in BOOLEAN
      /\ recent' \in [Worker -> BOOLEAN]
      /\ CoolInv'
  <2> HIDE DEF r
  <2>1. CASE finds[w] /\ kind = "monitor"
    <3>1. /\ cooling' = TRUE
          /\ burst' = [burst EXCEPT ![w] = @ + 1]
          /\ recent' = [v \in Worker |-> pc'[v] # "idle"]
      BY <2>1 DEF Record
    <3>2. burst[w] = 0
      BY <2>1 DEF CoolInv, TypeOK
    <3>3. burst' \in [Worker -> Nat] /\ burst'[w] = 1 /\ \A v \in Worker : v # w => burst'[v] = burst[v]
      BY <3>1, <3>2 DEF TypeOK
    <3>4. \A v \in Worker : recent'[v] = (pc'[v] # "idle")
      BY <3>1
    <3>5. CoolInv'
      <4>1. ASSUME NEW v \in Worker, v # w
            PROVE  burst'[v] <= 1 /\ (burst'[v] > 0 => ~finds'[v])
        BY <1>1, <1>2, <3>3, <4>1, DoneKeeps DEF CoolInv
      <4>2. burst'[w] <= 1 /\ ~finds'[w]
        BY <1>1, <1>2, <3>3, DoneKeeps
      <4>3. kind' = "monitor" /\ cooling'
        BY <1>2, <2>1, <3>1
      <4> QED
        BY <3>4, <4>1, <4>2, <4>3 DEF CoolInv
    <3> QED
      BY <3>1, <3>3, <3>5
  <2>2. CASE ~(finds[w] /\ kind = "monitor")
    <3>1. UNCHANGED <<cooling, burst>>
      BY <2>2 DEF Record
    <3>2. /\ recent' \in [Worker -> BOOLEAN]
          /\ \A v \in Worker : v # w => recent'[v] = recent[v]
          /\ recent[w] /\ pc'[w] # "idle" => recent'[w]
      BY <2>2 DEF Record, TypeOK
    <3>3. pc[w] # "idle"
      BY DEF Record
    <3>4. CoolInv'
      BY <1>1, <1>2, <3>1, <3>2, <3>3, DoneKeeps DEF CoolInv
    <3> QED
      BY <3>1, <3>2, <3>4 DEF TypeOK
  <2> QED
    BY <2>1, <2>2
<1>9. TypeOK'
  <2>1. routed' \subseteq Run /\ frozen' \subseteq Run
    BY <1>4
  <2> QED
    BY <1>1, <1>2, <1>3, <1>4, <1>8, <2>1, DoneKeeps DEF TypeOK
<1> QED
  BY <1>5, <1>6, <1>7, <1>8, <1>9

LEMMA FailKeeps ==
  ASSUME RunsInv, NEW w \in Worker, NEW r \in Run, Fail(w, r)
  PROVE  RunsInv'
<1> USE MonitorAssumption DEF RunsInv, spell
<1>1. held[w][r] > 0 /\ pc[w] # "idle" /\ run[r].status # "absent"
  BY DEF Fail, InHand, SeedInv
<1>2. /\ Done(w, r)
      /\ run' = [run EXCEPT ![r] = Left(@, IF IsTerminal(held[w][r]) THEN "dead" ELSE "failed")]
      /\ recent' = [recent EXCEPT ![w] = @ /\ pc'[w] # "idle"]
      /\ UNCHANGED <<kind, head, clock, results, routed, frozen, spell, upsets>>
  BY DEF Fail
<1>3. /\ run' \in [Run -> RunRow] /\ run'[r].status \in {"dead", "failed"}
      /\ \A s \in Run : s # r => run'[s] = run[s]
  <2> DEFINE st == IF IsTerminal(held[w][r]) THEN "dead" ELSE "failed"
  <2>1. run \in [Run -> RunRow]
    BY DEF TypeOK
  <2>2. st \in {"dead", "failed"} /\ run' = [run EXCEPT ![r] = Left(run[r], st)]
    BY <1>2, <2>1
  <2> HIDE DEF st
  <2>3. Left(run[r], st) \in RunRow /\ Left(run[r], st).status = st
    BY <2>1, <2>2, RowLeft DEF RunStatus
  <2> QED
    BY <2>1, <2>2, <2>3
<1>4. SeedInv'
  <2>1. \A s \in Run : run'[s].status # "absent" <=> run[s].status # "absent"
    BY <1>1, <1>3
  <2> QED
    BY <1>2, <2>1, DoneKeeps DEF SeedInv, TypeOK
<1>5. ResultsAreWhole'
  BY <1>2, <1>3 DEF ResultsAreWhole
<1>6. InHand'
  BY <1>2, DoneKeeps DEF InHand
<1>7. /\ recent' \in [Worker -> BOOLEAN]
      /\ \A v \in Worker : v # w => recent'[v] = recent[v]
      /\ recent[w] /\ pc'[w] # "idle" => recent'[w]
  BY <1>2 DEF TypeOK
<1>8. CoolInv'
  <2>1. UNCHANGED <<kind, cooling, burst>>
    BY <1>2
  <2>2. ASSUME NEW v \in Worker, burst[v] > 0
        PROVE  ~finds'[v] /\ (pc'[v] # "idle" => recent'[v])
    <3>1. ~finds[v] /\ (pc[v] # "idle" => recent[v])
      BY <2>2 DEF CoolInv
    <3>2. CASE v = w
      BY <1>1, <1>2, <1>7, <3>1, <3>2, DoneKeeps
    <3>3. CASE v # w
      BY <1>2, <1>7, <3>1, <3>3, DoneKeeps
    <3> QED
      BY <3>2, <3>3
  <2> QED
    BY <2>1, <2>2 DEF CoolInv
<1>9. TypeOK'
  BY <1>2, <1>3, <1>7, DoneKeeps DEF TypeOK
<1> QED
  BY <1>4, <1>5, <1>6, <1>8, <1>9

LEMMA CrashKeeps ==
  ASSUME RunsInv, NEW w \in Worker, Crash(w)
  PROVE  RunsInv'
<1> USE MonitorAssumption DEF RunsInv, Crash, rows, spell, Nothing
<1>1. TypeOK'
  BY DEF TypeOK, Phase, AttemptCap
<1>2. \A v \in Worker : v # w => /\ pc'[v] = pc[v] /\ held'[v] = held[v] /\ cur'[v] = cur[v]
                                 /\ finds'[v] = finds[v] /\ recent'[v] = recent[v]
  BY DEF TypeOK
<1>3. pc'[w] = "idle" /\ ~finds'[w] /\ \A r \in Run : held'[w][r] = 0
  BY DEF TypeOK
<1>4. InHand' /\ ResultsAreWhole' /\ CoolInv'
  BY <1>2, <1>3 DEF InHand, ResultsAreWhole, CoolInv
<1>5. SeedInv'
  BY <1>2, <1>3 DEF SeedInv
<1> QED
  BY <1>1, <1>4, <1>5

LEMMA RunsNextKeeps ==
  ASSUME RunsInv, [Next]_vars
  PROVE  RunsInv'
<1>1. ASSUME NEW w \in Worker, Work(w) \/ Crash(w)
      PROVE  RunsInv'
  BY <1>1, BeginRunKeeps, EvaluateKeeps, RecordKeeps, FailKeeps, CrashKeeps DEF Work
<1>2. CASE UNCHANGED vars
  BY <1>2 DEF vars, rows, spell, hands, RunsInv, TypeOK, InHand, SeedInv, ResultsAreWhole, CoolInv
<1> QED
  BY <1>1, <1>2, HeadKeeps, TimeKeeps DEF Next

LEMMA RunsInvariance == Spec => []RunsInv
BY InitRunsInv, RunsNextKeeps, PTL DEF Spec

\* Every row and every worker keeps its type (monitorWorker.ts, insightFeedWorker.ts).
THEOREM RunTypes == Spec => []TypeOK
<1>1. RunsInv => TypeOK
  BY DEF RunsInv
<1> QED
  BY <1>1, RunsInvariance, PTL

\* A window has one result, and a result has its proposal and its notifications
\* (monitorWorker.ts, insightFeedWorker.ts): whatever leases are outlived, processes
\* stopped, schedules revised and failures recorded late.
THEOREM ResultsAreOnceAndWhole == Spec => []ResultsAreSound
<1>1. RunsInv => OneResultPerWindow
  BY DEF RunsInv, SeedInv, TypeOK, OneResultPerWindow
<1>2. RunsInv => ResultsAreSound
  BY <1>1 DEF RunsInv, ResultsAreSound
<1> QED
  BY <1>2, RunsInvariance, PTL

\* No process records two findings within one cooldown (monitorWorker.ts), over however
\* many runs, revisions, passes and restarts.
THEOREM OneFindingPerCooldown == Spec => []CooldownHoldsPerProcess
<1>1. RunsInv => CooldownHoldsPerProcess
  BY DEF RunsInv, CoolInv, CooldownHoldsPerProcess
<1> QED
  BY <1>1, RunsInvariance, PTL

-----------------------------------------------------------------------------
(* The notification queue.                                                  *)

\* The types of what the attempts of a delivery leave behind.
AttemptTypes ==
  /\ status \in [Delivery -> RowStatus]
  /\ attempts \in [Delivery -> Nat]
  /\ log \in [Delivery -> SUBSET Nat]
  /\ inbox \in [Delivery -> Nat]
  /\ holds \in [Notifier -> [Delivery -> Nat]]

\* Whatever number is held or logged was given by a claim.
NumberInv ==
  /\ \A w \in Notifier, d \in Delivery : holds[w][d] <= attempts[d]
  /\ \A d \in Delivery : \A n \in log[d] : n <= attempts[d]

DeliveryInv == AttemptTypes /\ NumberInv /\ AttemptHasOneOwner /\ InboxTellsTheTruth

LEMMA InitDeliveryInv ==
  ASSUME NotifyInit
  PROVE  DeliveryInv
BY DEF NotifyInit, NoAttempt, DeliveryInv, AttemptTypes, NumberInv, AttemptHasOneOwner,
       InboxTellsTheTruth, RowStatus

\* Rows may take any status but "delivered" while no attempt is under way or ends.
LEMMA QueueKeeps ==
  ASSUME DeliveryInv, UNCHANGED <<attempts, log, inbox, holds>>,
         status' \in [Delivery -> RowStatus],
         \A d \in Delivery : status'[d] = "delivered" => status[d] = "delivered"
  PROVE  DeliveryInv'
BY DEF DeliveryInv, AttemptTypes, NumberInv, AttemptHasOneOwner, InboxTellsTheTruth

LEMMA ReadActiveKeeps ==
  ASSUME DeliveryInv, NEW d \in Delivery, ReadActive(d)
  PROVE  DeliveryInv'
<1>1. /\ status' \in [Delivery -> RowStatus]
      /\ \A e \in Delivery : status'[e] = "delivered" => status[e] = "delivered"
  BY DEF ReadActive, DeliveryInv, AttemptTypes, RowStatus
<1> QED
  BY <1>1, QueueKeeps DEF ReadActive

LEMMA EnqueueKeeps ==
  ASSUME DeliveryInv, NEW d \in Delivery, Enqueue(d)
  PROVE  DeliveryInv'
<1>1. /\ status' \in [Delivery -> RowStatus]
      /\ \A e \in Delivery : status'[e] = "delivered" => status[e] = "delivered"
  BY DEF Enqueue, DeliveryInv, AttemptTypes, RowStatus
<1> QED
  BY <1>1, QueueKeeps DEF Enqueue

LEMMA TransitionDestinationKeeps ==
  ASSUME DeliveryInv, NEW x \in Destination, NEW active \in BOOLEAN,
         TransitionDestination(x, active)
  PROVE  DeliveryInv'
<1>1. /\ status' \in [Delivery -> RowStatus]
      /\ \A e \in Delivery : status'[e] = "delivered" => status[e] = "delivered"
  BY DEF TransitionDestination, DeliveryInv, AttemptTypes, RowStatus
<1> QED
  BY <1>1, QueueKeeps DEF TransitionDestination

LEMMA WaitingKeeps ==
  ASSUME DeliveryInv, NEW d \in Delivery, DeliveryLeaseEnds(d) \/ RetryComesDue(d)
  PROVE  DeliveryInv'
BY QueueKeeps DEF DeliveryLeaseEnds, RetryComesDue, DeliveryInv, AttemptTypes

LEMMA ClaimKeeps ==
  ASSUME DeliveryInv, NEW w \in Notifier, Claim(w)
  PROVE  DeliveryInv'
<1> USE DEF DeliveryInv
<1>1. PICK taken :
        /\ status' = [d \in Delivery |-> IF d \in taken THEN "delivering" ELSE status[d]]
        /\ attempts' = [d \in Delivery |-> IF d \in taken THEN NextAttempt(d) ELSE attempts[d]]
        /\ holds' = [holds EXCEPT ![w] =
                       [d \in Delivery |-> IF d \in taken THEN attempts'[d] ELSE 0]]
  BY DEF Claim
<1>2. UNCHANGED <<log, inbox>>
  BY DEF Claim
<1>3. \A d \in Delivery : /\ attempts'[d] \in Nat /\ attempts[d] <= attempts'[d]
                          /\ d \in taken => attempts[d] < attempts'[d]
  BY <1>1 DEF AttemptTypes, NextAttempt
<1>4. /\ \A v \in Notifier : v # w => holds'[v] = holds[v]
      /\ \A d \in Delivery : /\ holds'[w][d] \in {0, attempts'[d]}
                             /\ holds'[w][d] > 0 => d \in taken /\ holds'[w][d] = attempts'[d]
  BY <1>1, <1>3 DEF AttemptTypes
<1>5. AttemptTypes'
  <2>1. status' \in [Delivery -> RowStatus] /\ attempts' \in [Delivery -> Nat]
    BY <1>1, <1>3 DEF AttemptTypes, RowStatus
  <2>2. [d \in Delivery |-> IF d \in taken THEN attempts'[d] ELSE 0] \in [Delivery -> Nat]
    BY <1>3
  <2>3. holds' \in [Notifier -> [Delivery -> Nat]]
    BY <1>1, <2>2 DEF AttemptTypes
  <2> QED
    BY <1>2, <2>1, <2>3 DEF AttemptTypes
<1>6. NumberInv'
  <2>1. ASSUME NEW v \in Notifier, NEW d \in Delivery
        PROVE  holds'[v][d] <= attempts'[d]
    <3>1. CASE v = w
      BY <1>3, <1>4, <3>1
    <3>2. CASE v # w
      BY <1>3, <1>4, <3>2 DEF NumberInv, AttemptTypes
    <3> QED
      BY <3>1, <3>2
  <2>2. ASSUME NEW d \in Delivery, NEW n \in log'[d]
        PROVE  n <= attempts'[d]
    BY <1>2, <1>3, <2>2 DEF NumberInv, AttemptTypes
  <2> QED
    BY <2>1, <2>2 DEF NumberInv
<1>7. AttemptHasOneOwner'
  <2> SUFFICES ASSUME NEW v \in Notifier, NEW d \in Delivery, holds'[v][d] > 0
               PROVE  /\ holds'[v][d] \notin log'[d]
                      /\ \A u \in Notifier \ {v} : holds'[u][d] # holds'[v][d]
    BY DEF AttemptHasOneOwner
  <2>1. \A n \in log[d] : n <= attempts[d] /\ n \in Nat
    BY DEF NumberInv, AttemptTypes
  <2>2. \A u \in Notifier : holds[u][d] <= attempts[d] /\ holds[u][d] \in Nat
    BY DEF NumberInv, AttemptTypes
  <2>3. CASE v = w
    <3>1. holds'[v][d] = attempts'[d] /\ attempts[d] < attempts'[d] /\ attempts[d] \in Nat
      BY <1>3, <1>4, <2>3 DEF AttemptTypes
    <3>2. \A u \in Notifier \ {v} : holds'[u][d] = holds[u][d]
      BY <1>4, <2>3
    <3> QED
      BY <1>2, <1>3, <2>1, <2>2, <3>1, <3>2
  <2>4. CASE v # w
    <3>1. holds'[v][d] = holds[v][d]
      BY <1>4, <2>4
    <3>2. holds[v][d] \notin log[d] /\ \A u \in Notifier \ {v} : holds[u][d] # holds[v][d]
      BY <3>1 DEF AttemptHasOneOwner
    <3>3. holds'[w][d] # holds[v][d]
      <4>1. CASE holds'[w][d] > 0
        BY <1>3, <1>4, <2>2, <4>1 DEF AttemptTypes
      <4>2. CASE ~(holds'[w][d] > 0)
        BY <3>1, <4>2
      <4> QED
        BY <4>1, <4>2
    <3> QED
      BY <1>2, <1>4, <3>1, <3>2, <3>3
  <2> QED
    BY <2>3, <2>4
<1>8. InboxTellsTheTruth'
  BY <1>1, <1>2 DEF InboxTellsTheTruth, AttemptTypes
<1> QED
  BY <1>5, <1>6, <1>7, <1>8

\* An attempt that ends is logged under its number and is in nobody's hands.
Ends(w, d) ==
  /\ holds[w][d] > 0
  /\ log' = [log EXCEPT ![d] = @ \cup {holds[w][d]}]
  /\ Release(w, d)
  /\ UNCHANGED attempts

LEMMA EndsKeeps ==
  ASSUME DeliveryInv, NEW w \in Notifier, NEW d \in Delivery, Ends(w, d)
  PROVE  /\ log' \in [Delivery -> SUBSET Nat]
         /\ holds' \in [Notifier -> [Delivery -> Nat]]
         /\ NumberInv' /\ AttemptHasOneOwner'
         /\ log'[d] # {} /\ \A e \in Delivery : e # d => log'[e] = log[e]
<1> USE DEF DeliveryInv
<1>1. /\ log' \in [Delivery -> SUBSET Nat]
      /\ log'[d] = log[d] \cup {holds[w][d]}
      /\ \A e \in Delivery : e # d => log'[e] = log[e]
  BY DEF Ends, AttemptTypes
<1>2. /\ holds' \in [Notifier -> [Delivery -> Nat]]
      /\ holds'[w][d] = 0
      /\ \A v \in Notifier, e \in Delivery : v # w \/ e # d => holds'[v][e] = holds[v][e]
  <2>1. holds' = [holds EXCEPT ![w] = [holds[w] EXCEPT ![d] = 0]]
    BY DEF Ends, Release, AttemptTypes
  <2>2. [holds[w] EXCEPT ![d] = 0] \in [Delivery -> Nat]
    BY DEF AttemptTypes
  <2> QED
    BY <2>1, <2>2 DEF AttemptTypes
<1>3. NumberInv'
  <2>1. attempts' = attempts /\ \A e \in Delivery : attempts[e] \in Nat
    BY DEF Ends, AttemptTypes
  <2>2. ASSUME NEW v \in Notifier, NEW e \in Delivery
        PROVE  holds'[v][e] <= attempts'[e]
    <3>1. CASE v = w /\ e = d
      BY <1>2, <2>1, <3>1
    <3>2. CASE v # w \/ e # d
      BY <1>2, <2>1, <3>2 DEF NumberInv
    <3> QED
      BY <3>1, <3>2
  <2>3. ASSUME NEW e \in Delivery, NEW n \in log'[e]
        PROVE  n <= attempts'[e]
    BY <1>1, <2>1, <2>3 DEF NumberInv
  <2> QED
    BY <2>2, <2>3 DEF NumberInv
<1>4. AttemptHasOneOwner'
  <2> SUFFICES ASSUME NEW v \in Notifier, NEW e \in Delivery, holds'[v][e] > 0
               PROVE  /\ holds'[v][e] \notin log'[e]
                      /\ \A u \in Notifier \ {v} : holds'[u][e] # holds'[v][e]
    BY DEF AttemptHasOneOwner
  <2>1. v # w \/ e # d
    BY <1>2
  <2>2. holds'[v][e] = holds[v][e] /\ holds[v][e] > 0
    BY <1>2, <2>1
  <2>3. holds[v][e] \notin log[e] /\ \A u \in Notifier \ {v} : holds[u][e] # holds[v][e]
    BY <2>2 DEF AttemptHasOneOwner
  <2>4. holds'[v][e] \notin log'[e]
    BY <1>1, <2>1, <2>2, <2>3
  <2>5. \A u \in Notifier \ {v} : holds'[u][e] # holds'[v][e]
    <3>1. \A u \in Notifier : holds'[u][e] = holds[u][e] \/ holds'[u][e] = 0
      BY <1>2
    <3>2. holds'[v][e] # 0
      BY <1>2
    <3> QED
      BY <2>2, <2>3, <3>1, <3>2
  <2> QED
    BY <2>4, <2>5
<1> QED
  BY <1>1, <1>2, <1>3, <1>4

LEMMA DeliverKeeps ==
  ASSUME DeliveryInv, NEW w \in Notifier, NEW d \in Delivery, Deliver(w, d)
  PROVE  DeliveryInv'
<1> USE DEF DeliveryInv
<1>1. Ends(w, d)
  BY DEF Deliver, Ends
<1>2. /\ status' \in [Delivery -> RowStatus]
      /\ status'[d] = IF DestinationOf[d] \in Extension THEN "ready_for_extension" ELSE "delivered"
      /\ \A e \in Delivery : e # d => status'[e] = status[e]
  BY DEF Deliver, AttemptTypes, RowStatus
<1>3. /\ inbox' \in [Delivery -> Nat]
      /\ inbox'[d] = IF DestinationOf[d] \in Extension THEN inbox[d] ELSE 1
      /\ \A e \in Delivery : e # d => inbox'[e] = inbox[e]
  BY DEF Deliver, InboxAfter, AttemptTypes
<1>4. AttemptTypes'
  BY <1>1, <1>2, <1>3, EndsKeeps DEF AttemptTypes, Ends
<1>5. InboxTellsTheTruth'
  BY <1>1, <1>2, <1>3, EndsKeeps DEF InboxTellsTheTruth
<1> QED
  BY <1>1, <1>4, <1>5, EndsKeeps

LEMMA DeliveryFailsKeeps ==
  ASSUME DeliveryInv, NEW w \in Notifier, NEW d \in Delivery, DeliveryFails(w, d)
  PROVE  DeliveryInv'
<1> USE DEF DeliveryInv
<1>1. Ends(w, d)
  BY DEF DeliveryFails, Ends
<1>2. /\ status' \in [Delivery -> RowStatus] /\ inbox' = inbox
      /\ status'[d] # "delivered"
      /\ \A e \in Delivery : e # d => status'[e] = status[e]
  BY DEF DeliveryFails, AttemptTypes, RowStatus
<1>3. AttemptTypes'
  BY <1>1, <1>2, EndsKeeps DEF AttemptTypes, Ends
<1>4. InboxTellsTheTruth'
  BY <1>1, <1>2, EndsKeeps DEF InboxTellsTheTruth
<1> QED
  BY <1>1, <1>3, <1>4, EndsKeeps

LEMMA NotifierStopsKeeps ==
  ASSUME DeliveryInv, NEW w \in Notifier, NotifierStops(w)
  PROVE  DeliveryInv'
<1> USE DEF DeliveryInv, AttemptTypes
<1>1. /\ UNCHANGED <<status, attempts, log, inbox>>
      /\ holds' \in [Notifier -> [Delivery -> Nat]]
      /\ \A v \in Notifier, d \in Delivery : holds'[v][d] = (IF v = w THEN 0 ELSE holds[v][d])
  BY DEF NotifierStops, NoAttempt, table
<1>2. NumberInv'
  BY <1>1 DEF NumberInv
<1>3. AttemptHasOneOwner'
  BY <1>1 DEF AttemptHasOneOwner
<1> QED
  BY <1>1, <1>2, <1>3 DEF InboxTellsTheTruth

LEMMA NotifyNextKeeps ==
  ASSUME DeliveryInv, [NotifyNext]_notifyVars
  PROVE  DeliveryInv'
<1>1. ASSUME NEW w \in Notifier, Notify(w) \/ NotifierStops(w)
      PROVE  DeliveryInv'
  BY <1>1, ClaimKeeps, DeliverKeeps, DeliveryFailsKeeps, NotifierStopsKeeps DEF Notify
<1>2. CASE UNCHANGED notifyVars
  BY <1>2, QueueKeeps DEF notifyVars, table, DeliveryInv, AttemptTypes
<1> QED
  BY <1>1, <1>2, ReadActiveKeeps, EnqueueKeeps, TransitionDestinationKeeps, WaitingKeeps
  DEF NotifyNext

\* No attempt at a delivery has two owners, and an inbox tells the truth
\* (notificationWorker.ts, notifications.ts): whatever leases are outlived, destinations
\* disabled and processes stopped, for every number of them.
THEOREM DeliveriesAreOwned == NotifySpec => []DeliveriesAreSound
<1>1. NotifyInit => DeliveryInv
  BY InitDeliveryInv
<1>2. DeliveryInv /\ [NotifyNext]_notifyVars => DeliveryInv'
  BY NotifyNextKeeps
<1>3. DeliveryInv => DeliveriesAreSound
  BY DEF DeliveryInv, DeliveriesAreSound
<1> QED
  BY <1>1, <1>2, <1>3, PTL DEF NotifySpec
=============================================================================
