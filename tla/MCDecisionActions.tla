------------------------- MODULE MCDecisionActions --------------------------
(* One flag rollback and one webhook action of a decision, two requests.    *)
EXTENDS DecisionActions, TLC

CONSTANTS rollback, webhook, rolledBack, rolledOut

MCAction     == {rollback, webhook}
MCFlagAction == {rollback}
MCVariants   == {rolledBack, rolledOut}
MCWanted     == [a \in MCFlagAction |-> rolledBack]
Symmetry     == Permutations(Client)
=============================================================================
