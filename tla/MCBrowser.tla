----------------------------- MODULE MCBrowser -----------------------------
(* What a browser sends: its events, queued by the client, or a recording,  *)
(* which the server keeps until it is withdrawn.  A behaviour is one of one *)
(* of the two, chosen at its start.                                         *)
EXTENDS ReplayLifecycle, SdkQueue, TLC

CONSTANTS p1, p2,              \* recording
          interval, hidden     \* client: its timer, a page that is being hidden

\* One recording of two chunks; its uploads disagree about the first one, and only
\* p1 begins with a full snapshot.
MCPayload  == {p1, p2}
MCAnchored == {p1}
MCOffered  == {<<0, p1>>, <<0, p2>>, <<1, p2>>}
MCInOrder  == {<<p1, p2>>}

VARIABLE part

browserVars == <<part, vars, clientVars>>

BrowserInit == Init /\ ClientInit /\ part \in {"recording", "client"}

Recording(A) == part = "recording" /\ A /\ UNCHANGED <<part, clientVars>>
Capturing(A) == part = "client" /\ A /\ UNCHANGED <<part, vars>>

BrowserNext == Recording(Next) \/ Capturing(ClientNext)

\* The fairness of the recording's part; nothing is assumed of the client.
BrowserSpec ==
  /\ BrowserInit /\ [][BrowserNext]_browserVars
  /\ \A u \in Uploader : WF_browserVars(Recording(UploadStep(u)))
  /\ \A v \in Viewer : WF_browserVars(Recording(ViewStep(v)))
  /\ \A d \in Remover :
       /\ SF_browserVars(Recording(Tombstone(d)))
       /\ WF_browserVars(Recording(DeleteStep(d) \/ JobStep(d)))
  /\ \A d \in Sweeper :
       /\ SF_browserVars(Recording(SweepJob(d)))
       /\ \A r \in Replay : SF_browserVars(Recording(SweepSession(d, r)))
  /\ \A r \in Replay : WF_browserVars(Recording(ClaimEnds(r) \/ BackoffEnds(r)))
  /\ WF_browserVars(Recording(JobTimer))
=============================================================================
