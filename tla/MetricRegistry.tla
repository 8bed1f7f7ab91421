--------------------------- MODULE MetricRegistry ---------------------------
(***************************************************************************)
(* The registry of one project: metrics (services/registry.ts), the        *)
(* numbered revisions of their semantic definitions                        *)
(* (services/metricSemantics.ts), their reviewed changes                   *)
(* (services/metricDefinitions.ts), and the funnels whose steps name them. *)
(* What changes a definition locks the row of the metric from its first    *)
(* statement to its COMMIT, and is one step.  The deletion of a metric,    *)
(* the definition and the deletion of a funnel are statements without a    *)
(* transaction around them, and each is a step.                            *)
(*                                                                         *)
(* A definition is purpose, source and type, equal when its fingerprint    *)
(* is.  Name, tags, category and status of a metric are left out: nothing  *)
(* here depends on them.                                                   *)
(***************************************************************************)
EXTENDS Naturals, FiniteSets

CONSTANTS
  MetricKey,         \* keys of metrics
  Definition,        \* semantic definitions
  EventBased,        \* those a funnel step may have: neither conversion nor state
  Funnel,            \* keys of funnels
  Call,              \* API requests being served
  MaxRegistrations,  \* bound: registrations of the key of a metric, or of a funnel
  MaxRevisions,      \* bound: revisions of a key
  Nothing

RegistryAssumption ==
  /\ EventBased \subseteq Definition
  /\ MaxRegistrations \in Nat /\ MaxRevisions \in Nat
  /\ Nothing \notin MetricKey \cup Funnel \cup Definition \cup [id : Nat, steps : SUBSET MetricKey]

\* The row of a metric.  One that is older than the revisions has the id 0.
Row == [id : 0 .. MaxRegistrations, definition : Definition]

VARIABLES
  metric,            \* metrics
  born,              \* registrations of a key so far
  revisions,         \* metric_definition_revisions of a key
  funnel,            \* funnels: their id and the metrics their steps name
  defined,           \* definitions of the key of a funnel so far
  investigations,    \* funnel_investigations: key, id and steps of their funnel
  req                \* where a request stands

registry == <<metric, born, revisions>>
funnels  == <<funnel, defined, investigations>>
registryVars     == <<registry, funnels, req>>

Idle == [at |-> "idle", key |-> Nothing, steps |-> {}, left |-> {},
         number |-> 0, shown |-> Nothing, wanted |-> Nothing]

RegistryInit ==
  /\ metric \in [MetricKey -> [id : {0}, definition : Definition] \cup {Nothing}]
  /\ born = [k \in MetricKey |-> 0]
  /\ revisions = [k \in MetricKey |-> {}]
  /\ funnel = [f \in Funnel |-> Nothing]
  /\ defined = [f \in Funnel |-> 0]
  /\ investigations = {}
  /\ req = [r \in Call |-> Idle]

-----------------------------------------------------------------------------
(* Revisions of a definition.                                               *)

\* ORDER BY revision DESC LIMIT 1; revision 0 stands for none.
Latest(rows) ==
  IF rows = {} THEN [number |-> 0, metric |-> Nothing, definition |-> Nothing]
  ELSE CHOOSE row \in rows : \A other \in rows : other.number <= row.number

\* Mutant: the revisions of a key are not numbered on when it is registered again.
AppendedByMetric(rows, m) ==
  rows \cup {[number |-> Latest({row \in rows : row.metric = m.id}).number + 1,
              metric |-> m.id, definition |-> m.definition]}

Appended(rows, m) ==
  rows \cup {[number |-> Latest(rows).number + 1, metric |-> m.id, definition |-> m.definition]}

Describes(revision, m) == revision.metric = m.id /\ revision.definition = m.definition

\* ensureMetricDefinitionRevision: a metric without a current revision gets one.
Ensured(k) ==
  IF Describes(Latest(revisions[k]), metric[k]) THEN revisions[k]
  ELSE Appended(revisions[k], metric[k])

SameType(d, e) == d \in EventBased <=> e \in EventBased

Register(k, d) ==
  /\ metric[k] = Nothing /\ born[k] < MaxRegistrations
  /\ LET m == [id |-> born[k] + 1, definition |-> d] IN
     /\ metric' = [metric EXCEPT ![k] = m]
     /\ born' = [born EXCEPT ![k] = m.id]
     /\ revisions' = [revisions EXCEPT ![k] = Appended(@, m)]
  /\ UNCHANGED <<funnels, req>>

\* The old definition gets its revision before it is overwritten; a new revision
\* follows if that changed it.
Redefine(k, d) ==
  LET m == [metric[k] EXCEPT !.definition = d] IN
  /\ metric' = [metric EXCEPT ![k] = m]
  /\ revisions' = [revisions EXCEPT ![k] =
       IF Describes(Latest(Ensured(k)), m) THEN Ensured(k) ELSE Appended(Ensured(k), m)]

UpdateMetric(k, d) ==
  /\ metric[k] # Nothing /\ SameType(d, metric[k].definition)
  /\ Redefine(k, d)
  /\ UNCHANGED <<born, funnels, req>>

\* Who reads the definition of a metric sees to it that it has a revision.
GetDefinition(k) ==
  /\ metric[k] # Nothing
  /\ revisions' = [revisions EXCEPT ![k] = Ensured(k)]
  /\ UNCHANGED <<metric, born, funnels, req>>

Preview(r, k, d) ==
  /\ req[r] = Idle /\ metric[k] # Nothing /\ SameType(d, metric[k].definition)
  /\ revisions' = [revisions EXCEPT ![k] = Ensured(k)]
  /\ req' = [req EXCEPT ![r] = [Idle EXCEPT
       !.at = "reviewed", !.key = k, !.number = Latest(Ensured(k)).number,
       !.shown = metric[k], !.wanted = d]]
  /\ UNCHANGED <<metric, born, funnels>>

End(r) == req' = [req EXCEPT ![r] = Idle]

\* Mutant: only the fingerprint is compared with that of the preview.
DefinitionExpected(r) == metric[req[r].key].definition = req[r].shown.definition

\* Revision and fingerprint are those of the preview.
RevisionExpected(r) ==
  /\ DefinitionExpected(r)
  /\ Latest(Ensured(req[r].key)).number = req[r].number

Apply(r) ==
  LET k == req[r].key IN
  /\ req[r].at = "reviewed"
  /\ IF metric[k] # Nothing /\ RevisionExpected(r) /\ req[r].wanted # metric[k].definition
     THEN Redefine(k, req[r].wanted)
     ELSE UNCHANGED <<metric, revisions>>
  /\ End(r)
  /\ UNCHANGED <<born, funnels>>

-----------------------------------------------------------------------------
(* Deletion of a metric; funnels.  One statement after the other.           *)

\* Whether a request goes on or is refused.
StepIf(guard, r, at) ==
  IF guard THEN req' = [req EXCEPT ![r].at = at] ELSE End(r)

BeginDelete(r, k) ==
  /\ req[r] = Idle /\ metric[k] # Nothing
  /\ req' = [req EXCEPT ![r] = [Idle EXCEPT !.at = "found", !.key = k]]
  /\ UNCHANGED <<registry, funnels>>

Names(f, k) == funnel[f] # Nothing /\ k \in funnel[f].steps

LookForFunnels(r) ==
  /\ req[r].at = "found"
  /\ StepIf(\A f \in Funnel : ~Names(f, req[r].key), r, "unused")
  /\ UNCHANGED <<registry, funnels>>

DeleteMetric(r) ==
  /\ req[r].at = "unused"
  /\ metric' = [metric EXCEPT ![req[r].key] = Nothing]
  /\ End(r)
  /\ UNCHANGED <<born, revisions, funnels>>

BeginDefine(r, f, steps) ==
  /\ req[r] = Idle
  /\ req' = [req EXCEPT ![r] = [Idle EXCEPT
       !.at = "resolving", !.key = f, !.steps = steps, !.left = steps]]
  /\ UNCHANGED <<registry, funnels>>

ResolveStep(r, k) ==
  /\ req[r].at = "resolving" /\ k \in req[r].left
  /\ IF metric[k] # Nothing /\ metric[k].definition \in EventBased
     THEN req' = [req EXCEPT ![r].left = @ \ {k}]
     ELSE End(r)
  /\ UNCHANGED <<registry, funnels>>

\* 409 if the key is taken.
InsertFunnel(r) ==
  LET f == req[r].key IN
  /\ req[r].at = "resolving" /\ req[r].left = {}
  /\ IF funnel[f] = Nothing
     THEN /\ funnel' = [funnel EXCEPT ![f] = [id |-> defined[f] + 1, steps |-> req[r].steps]]
          /\ defined' = [defined EXCEPT ![f] = @ + 1]
     ELSE UNCHANGED <<funnel, defined>>
  /\ End(r)
  /\ UNCHANGED <<registry, investigations>>

Retained(f) == \E row \in investigations : row.key = f

LookForInvestigations(r, f) ==
  /\ req[r] = Idle /\ ~Retained(f)
  /\ req' = [req EXCEPT ![r] = [Idle EXCEPT !.at = "retained by nothing", !.key = f]]
  /\ UNCHANGED <<registry, funnels>>

\* Mutant: only the look before the deletion protects investigations.
DeletableAlways(f) == TRUE

\* An investigation may come after the look for one.  The trigger that keeps them
\* then stops the cascade, and with it the deletion.
Deletable(f) == ~Retained(f)

DeleteFunnel(r) ==
  /\ req[r].at = "retained by nothing"
  /\ funnel' = IF Deletable(req[r].key) THEN [funnel EXCEPT ![req[r].key] = Nothing] ELSE funnel
  /\ End(r)
  /\ UNCHANGED <<registry, defined, investigations>>

\* An investigation reads the funnel and reproduces its evidence, which needs all
\* of its metrics.
Reproduce(r, f) ==
  /\ req[r] = Idle
  /\ funnel[f] # Nothing /\ \A k \in funnel[f].steps : metric[k] # Nothing
  /\ req' = [req EXCEPT ![r] = [Idle EXCEPT
       !.at = "reproduced", !.key = f, !.number = funnel[f].id, !.steps = funnel[f].steps]]
  /\ UNCHANGED <<registry, funnels>>

\* Mutant: the funnel is referenced by its key.
ReferencedByKey(r) == funnel[req[r].key] # Nothing

\* The foreign key: the very funnel that was read is there.
Referenced(r) == funnel[req[r].key] # Nothing /\ funnel[req[r].key].id = req[r].number

PersistInvestigation(r) ==
  /\ req[r].at = "reproduced"
  /\ investigations' = IF Referenced(r)
       THEN investigations \cup {[key |-> req[r].key, id |-> req[r].number, steps |-> req[r].steps]}
       ELSE investigations
  /\ End(r)
  /\ UNCHANGED <<registry, funnel, defined>>

-----------------------------------------------------------------------------
\* Bound: a revision may be appended twice in a step.
HasRoom == \A k \in MetricKey : Cardinality(revisions[k]) + 2 <= MaxRevisions

\* Bound: what is defined by every request.
MayDefine(f) ==
  defined[f] + Cardinality({r \in Call : req[r].at = "resolving"}) < MaxRegistrations

ServeCall(r) ==
  \/ \E k \in MetricKey : BeginDelete(r, k) \/ ResolveStep(r, k)
  \/ \E k \in MetricKey, d \in Definition : HasRoom /\ Preview(r, k, d)
  \/ \E f \in Funnel : LookForInvestigations(r, f) \/ Reproduce(r, f)
  \/ \E f \in Funnel, steps \in SUBSET MetricKey \ {{}} : MayDefine(f) /\ BeginDefine(r, f, steps)
  \/ HasRoom /\ Apply(r)
  \/ LookForFunnels(r) \/ DeleteMetric(r)
  \/ InsertFunnel(r) \/ DeleteFunnel(r) \/ PersistInvestigation(r)

RegistryNext ==
  \/ \E k \in MetricKey : HasRoom /\ GetDefinition(k)
  \/ \E k \in MetricKey, d \in Definition : HasRoom /\ (Register(k, d) \/ UpdateMetric(k, d))
  \/ \E r \in Call : ServeCall(r)

RegistrySpec == RegistryInit /\ [][RegistryNext]_registryVars

-----------------------------------------------------------------------------
\* Every variable has its type.
RegistryTypeOK ==
  /\ metric \in [MetricKey -> Row \cup {Nothing}]
  /\ born \in [MetricKey -> 0 .. MaxRegistrations]
  /\ \A k \in MetricKey : revisions[k] \subseteq
       [number : 1 .. MaxRevisions, metric : 0 .. MaxRegistrations, definition : Definition]
  /\ funnel \in [Funnel -> [id : 1 .. MaxRegistrations, steps : SUBSET MetricKey] \cup {Nothing}]
  /\ defined \in [Funnel -> 0 .. MaxRegistrations]
  /\ investigations \subseteq [key : Funnel, id : 1 .. MaxRegistrations, steps : SUBSET MetricKey]
  /\ \A r \in Call : req[r].key \in MetricKey \cup Funnel \cup {Nothing}

\* The revisions of a key are numbered once each and without a gap through all the
\* metrics that had it, one after the other; each revision is a change; and the last
\* one says what the metric is now (a metric from before the revisions may have none).
RevisionsAreSound ==
  \A k \in MetricKey :
    /\ \A row \in revisions[k] :
         row.number = 1 \/ \E before \in revisions[k] : row.number = before.number + 1
    /\ \A row, other \in revisions[k] : row.number = other.number => row = other
    /\ \A row, next \in revisions[k] : next.number = row.number + 1 =>
         /\ row.metric <= next.metric
         /\ row.metric = next.metric => row.definition # next.definition
    /\ metric[k] # Nothing =>
         \/ Describes(Latest(revisions[k]), metric[k])
         \/ metric[k].id = 0 /\ revisions[k] = {}

\* Revisions are never changed or taken back, and a reviewed change goes from the
\* very definition, of the very metric, its reviewer was shown, to the one he saw
\* proposed, with no other in force in between: not even if the metric was deleted
\* and registered again as it was.
AppliedAsReviewed ==
  \A k \in MetricKey :
    /\ revisions[k] \subseteq revisions'[k]
    /\ \A r \in Call : req[r].at = "reviewed" /\ req[r].key = k /\ metric'[k] # metric[k]
                         /\ req'[r] # req[r] =>
         /\ metric[k] = req[r].shown
         /\ \A row \in revisions[k] : row.number <= req[r].number
         /\ metric'[k] = [req[r].shown EXCEPT !.definition = req[r].wanted]

\* What an investigation was made of stays: its funnel is there, the very one, with
\* the steps its evidence was reproduced with, whatever deletes funnels and defines
\* them again beside it.
EvidenceIsKept ==
  \A row \in investigations : funnel[row.key] = [id |-> row.id, steps |-> row.steps]

\* The three together: what decisions rest on is neither lost nor swapped.
RegistryIsKept ==
  /\ [](RevisionsAreSound /\ EvidenceIsKept)
  /\ [][AppliedAsReviewed]_registryVars

\* What the deletion of a metric promises: it never leaves a funnel with a step
\* that names no metric.
StepsResolve == \A f \in Funnel, k \in MetricKey : Names(f, k) => metric[k] # Nothing
=============================================================================
