--------------------------- MODULE MCDecisionLoop ---------------------------
(* One release, two monitors and one API request; an evaluation may arrive  *)
(* at blocked evidence or at ready evidence with a directional proposal.    *)
EXTENDS DecisionLoop, TLC

CONSTANTS blocked, ready

MCEvidence    == {blocked, ready}
MCReady       == {ready}
Symmetry      == Permutations(Worker)
=============================================================================
