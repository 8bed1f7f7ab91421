---------------------------- MODULE MCDecisions ----------------------------
(* What is decided and what decisions rest on: the decision loop of a       *)
(* release, the actions of one decision, the experiments on one flag, or    *)
(* the definitions of the metrics.  A behaviour is one of one of the four,  *)
(* chosen at its start.                                                     *)
EXTENDS Experiments, DecisionLoop, DecisionActions, MetricRegistry, TLC

CONSTANTS w1, w2, blocked, ready,                               \* loop
          rollback, webhook, rolledBack, rolledOut, p1, p2,     \* actions
          copy, x1, x2, control, test, signups, orders, q1, q2, \* experiments
          visits, buys, rate                                    \* registry

VARIABLE part

\* One release, two monitors and one API request; an evaluation may arrive at
\* blocked evidence or at ready evidence with a directional proposal.
MCWorker   == {w1, w2}
MCEvidence == {blocked, ready}
MCReady    == {ready}

\* A flag rollback and a webhook action, two clients, one fault.
MCAction     == {rollback, webhook}
MCFlagAction == {rollback}
MCVariants   == {rolledBack, rolledOut}
MCWanted     == [a \in MCFlagAction |-> rolledBack]

\* Two experiments on one flag with two variants, two metrics, two requests.
MCFlagOf == [x \in {x1, x2} |-> copy]

\* A metric that only two of its definitions make fit for a funnel, one funnel,
\* two calls.
MCKey        == {signups}
MCDefinition == {visits, buys, rate}
MCEventBased == {visits, buys}

ASSUME ExperimentsAssumption /\ LoopAssumption /\ ActionsAssumption /\ RegistryAssumption

\* The initial choices of the registry matter only when it moves.
SuiteInit ==
  /\ Init /\ LoopInit /\ ActionsInit /\ RegistryInit
  /\ \/ part \in {"loop", "actions", "experiments"} /\ metric[signups] = Nothing
     \/ part = "registry"

Looping ==
  part = "loop" /\ LoopNext /\ UNCHANGED <<part, actionVars, vars, registryVars>>
Acting ==
  part = "actions" /\ ActionsNext /\ UNCHANGED <<part, loopVars, vars, registryVars>>
Experimenting ==
  part = "experiments" /\ Next /\ UNCHANGED <<part, loopVars, actionVars, registryVars>>
Defining ==
  part = "registry" /\ RegistryNext /\ UNCHANGED <<part, loopVars, actionVars, vars>>

SuiteNext == Looping \/ Acting \/ Experimenting \/ Defining
SuiteSpec == SuiteInit /\ [][SuiteNext]_<<part, vars, loopVars, actionVars, registryVars>>

\* Workers of the loop; clients of the actions; experiments, requests and variants;
\* calls and event counts of the registry: each can be exchanged with the other
\* of its kind.
Swap(a, b) == (a :> b) @@ (b :> a)
Symmetry ==
  {f @@ g : f \in {Swap(w1, w2) @@ Swap(p1, p2) @@ Swap(x1, x2) @@ Swap(visits, buys), <<>>},
            g \in {Swap(control, test) @@ Swap(q1, q2), <<>>}}

-----------------------------------------------------------------------------
\* Every variable of the four has its type.
TypesOK == TypeOK /\ LoopTypeOK /\ ActionsTypeOK /\ RegistryTypeOK
=============================================================================
