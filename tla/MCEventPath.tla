---------------------------- MODULE MCEventPath ----------------------------
(* An event in the database: the transaction that meters and stores it, or  *)
(* its row under corrections, purges and retention.  A behaviour is one of  *)
(* one of them, chosen at its start.                                        *)
EXTENDS MeteredIngest, EventHistory, TLC

CONSTANTS ingest, invalid, backfill, r1, r2, c1, c2,     \* server
          e1, e2, ann, bob, v1, v2                       \* rows

\* An ingest batch, one whose events were all invalid and a backfill, sent by two
\* calls, and two changes of an entitlement.
MCBatch     == {ingest, invalid, backfill}
MCBackfills == {backfill}
MCSize      == [b \in MCBatch |-> CASE b = ingest  -> 2
                                    [] b = invalid -> 0
                                    [] OTHER       -> 1]
MCSettings  == {[limit |-> 2, thresholds |-> {1, 2}], [limit |-> 3, thresholds |-> {3}]}

VARIABLE part

\* The initial choices of a part matter only when it moves.
PathInit ==
  /\ Init /\ HistoryInit
  /\ \/ part = "server" /\ months = 1 /\ \A e \in Event : row[e] = None
     \/ part = "rows" /\ \A b \in Batch : claim[b] = NoClaim

Metering == part = "server" /\ Next /\ UNCHANGED <<part, historyVars>>
Changing == part = "rows" /\ HistoryNext /\ UNCHANGED <<part, vars>>

\* Nothing more is asked of the rows.
AtRest == part = "rows" /\ UNCHANGED <<part, vars, historyVars>>

PathNext == Metering \/ Changing \/ AtRest
PathSpec == PathInit /\ [][PathNext]_<<part, vars, historyVars>>

\* Calls, and changes, of the server; events, actors and corrections of the rows:
\* each can be exchanged with the other of its kind.
Swap(a, b) == (a :> b) @@ (b :> a)
Symmetry ==
  {f @@ g @@ h : f \in {Swap(r1, r2) @@ Swap(e1, e2), <<>>},
                 g \in {Swap(c1, c2) @@ Swap(ann, bob), <<>>}, h \in {Swap(v1, v2), <<>>}}

-----------------------------------------------------------------------------
\* Every variable has its type.
TypesOK == TypeOK /\ HistoryTypeOK
=============================================================================
