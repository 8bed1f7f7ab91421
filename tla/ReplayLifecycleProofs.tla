------------------------ MODULE ReplayLifecycleProofs ------------------------
(***************************************************************************)
(* Theorems about session replays, for any number of recordings, uploads,  *)
(* playbacks, deletions, retention workers and faults.                     *)
(***************************************************************************)
EXTENDS ReplayLifecycle, TLAPS

Deleting(d) == del[d] # Idle /\ del[d].pc \in {"claim", "erase", "finalize", "failed"}

\* Who is in deleteSession knows which session it deletes.
InHand == \A d \in Remover : Deleting(d) => del[d].replay \in Replay

TypeInv == TypeOK /\ InHand

\* The parts of the type invariant that the three groups of processes change.
UpType   == up \in [Uploader -> Upload \cup {Idle}]
ViewType == view \in [Viewer -> View \cup {Idle}]
DelType  == /\ del \in [Remover -> Removal \cup {Idle}]
            /\ \A d \in Remover : Deleting(d) => del[d].replay \in Replay
RowType  ==
  /\ project \in {"live", "deleting", "gone"}
  /\ status \in [Replay -> {"absent", "recording", "playable", "incomplete", "deleting", "deleted"}]
  /\ chunk  \in [Replay -> [Sequence -> Chunk \cup {None}]]
  /\ expired \in [Replay -> BOOLEAN] /\ held \in [Replay -> BOOLEAN]
  /\ backoff \in [Replay -> BOOLEAN]
  /\ audit \in [Replay -> SUBSET {"delete_requested", "delete_completed"}]
  /\ job \in Phase \cup {None} /\ jobHeld \in BOOLEAN /\ jobBackoff \in BOOLEAN
StoreType ==
  /\ object \in [Replay -> [Sequence -> Payload \cup {None}]]
  /\ stray \subseteq Replay \X Sequence /\ faults \in 0 .. MaxFaults

LEMMA TypeParts == TypeInv <=> UpType /\ ViewType /\ DelType /\ RowType /\ StoreType
BY DEF TypeInv, TypeOK, InHand, UpType, ViewType, DelType, RowType, StoreType

LEMMA NextParts == TypeInv' <=> UpType' /\ ViewType' /\ DelType' /\ RowType' /\ StoreType'
BY DEF TypeInv, TypeOK, InHand, UpType, ViewType, DelType, RowType, StoreType

LEMMA TypeInit == Init => TypeInv
<1> SUFFICES ASSUME Init PROVE UpType /\ ViewType /\ DelType /\ RowType /\ StoreType
  BY TypeParts
<1>1. UpType /\ ViewType /\ DelType
  BY DEF Init, UpType, ViewType, DelType, Deleting
<1>2. RowType
  BY DEF Init, RowType, NoChunks
<1>3. StoreType
  BY ReplayAssumption DEF Init, StoreType, NoChunks
<1> QED
  BY <1>1, <1>2, <1>3

LEMMA FaultType == StoreType /\ Fault => faults' \in 0 .. MaxFaults
BY ReplayAssumption DEF StoreType, Fault

\* What an upload does keeps the types.
LEMMA UploadTypes ==
  ASSUME TypeInv, NEW u \in Uploader,
         \/ UploadStep(u) \/ LoseUploadConnection(u) \/ AbandonUpload(u)
         \/ \E r \in Replay, s \in Sequence, p \in Payload : PutChunk(u, r, s, p)
  PROVE  TypeInv'
<1> USE DEF manifest, timers, jobs
<1>0. UpType /\ ViewType /\ DelType /\ RowType /\ StoreType
  BY TypeParts
<1>1. up[u] # Idle => up[u] \in Upload
  BY <1>0 DEF UpType
<1>2. CASE \E r \in Replay, s \in Sequence, p \in Payload : PutChunk(u, r, s, p)
  <2>1. PICK r \in Replay, s \in Sequence, p \in Payload : PutChunk(u, r, s, p)
    BY <1>2
  <2>2. UpType'
    BY <1>0, <2>1 DEF PutChunk, UpType, Upload
  <2> QED
    BY <1>0, <2>1, <2>2, NextParts
    DEF PutChunk, ViewType, DelType, Deleting, RowType, StoreType
<1>3. CASE StoreObject(u)
  <2>1. UpType'
    BY <1>0, <1>1, <1>3 DEF StoreObject, UpType, Upload
  <2>2. StoreType'
    BY <1>0, <1>1, <1>3 DEF StoreObject, StoreType, Upload
  <2> QED
    BY <1>0, <1>3, <2>1, <2>2, NextParts DEF StoreObject, ViewType, DelType, Deleting, RowType
<1>4. CASE CommitChunk(u)
  <2>1. RowType'
    BY <1>0, <1>1, <1>4 DEF CommitChunk, RowType, Upload, Chunk
  <2> QED
    BY <1>0, <1>4, <2>1, NextParts DEF CommitChunk, UpType, ViewType, DelType, Deleting, StoreType
<1>5. CASE LoseUploadConnection(u)
  <2>1. UpType'
    BY <1>0, <1>1, <1>5 DEF LoseUploadConnection, UpType, Upload
  <2> QED
    BY <1>0, <1>5, <2>1, FaultType, NextParts
    DEF LoseUploadConnection, ViewType, DelType, Deleting, RowType, StoreType
<1>6. CASE RollBackUpload(u)
  <2>1. UpType'
    BY <1>0, <1>1, <1>6 DEF RollBackUpload, UpType, Upload
  <2> QED
    BY <1>0, <1>6, <2>1, FaultType, NextParts
    DEF RollBackUpload, ViewType, DelType, Deleting, RowType, StoreType
<1>7. CASE UndoUpload(u)
  <2>1. StoreType'
    BY <1>0, <1>1, <1>7 DEF UndoUpload, StoreType, Upload
  <2> QED
    BY <1>0, <1>7, <2>1, NextParts DEF UndoUpload, UpType, ViewType, DelType, Deleting, RowType
<1>8. CASE AbandonUpload(u)
  <2>1. LeftBehind(u) \subseteq Replay \X Sequence
    BY <1>0, <1>1, <1>8 DEF LeftBehind, StoreType, Upload, AbandonUpload
  <2> QED
    BY <1>0, <1>8, <2>1, FaultType, NextParts
    DEF AbandonUpload, UpType, ViewType, DelType, Deleting, RowType, StoreType
<1> QED
  BY <1>2, <1>3, <1>4, <1>5, <1>6, <1>7, <1>8 DEF UploadStep

\* So does what a playback does.
LEMMA ViewTypes ==
  ASSUME TypeInv, NEW v \in Viewer,
         \/ ViewStep(v) \/ AbortRead(v) \/ LoseReadConnection(v)
         \/ \E r \in Replay : OpenRead(v, r)
  PROVE  TypeInv'
<1> USE DEF manifest, timers, jobs
<1>0. UpType /\ ViewType /\ DelType /\ RowType /\ StoreType
  BY TypeParts
<1>1. view[v] # Idle => view[v] \in View
  BY <1>0 DEF ViewType
<1>2. ViewType'
  <2>1. CASE \E r \in Replay : OpenRead(v, r)
    BY <1>0, <2>1, ReplayAssumption DEF OpenRead, ViewType, View
  <2>2. CASE LoadChunk(v)
    <3>1. view[v].next \in Sequence
      BY <1>1, <2>2 DEF LoadChunk, Rows
    <3>2. view[v].next + 1 \in 0 .. MaxSequence + 1
      BY <3>1, ReplayAssumption DEF Sequence
    <3> QED
      BY <1>0, <1>1, <2>2, <3>2 DEF LoadChunk, ViewType, View
  <2>3. CASE ServeRead(v)
    BY <1>0, <1>1, <2>3 DEF ServeRead, ViewType, View
  <2>4. CASE LoseReadConnection(v)
    BY <1>0, <1>1, <2>4 DEF LoseReadConnection, ViewType, View
  <2>5. CASE CloseRead(v) \/ AbortRead(v)
    BY <1>0, <2>5 DEF CloseRead, AbortRead, ViewType
  <2> QED
    BY <2>1, <2>2, <2>3, <2>4, <2>5 DEF ViewStep
<1>3. faults' \in 0 .. MaxFaults
  BY <1>0, FaultType
  DEF ViewStep, LoadChunk, ServeRead, CloseRead, AbortRead, LoseReadConnection, OpenRead, StoreType
<1> QED
  BY <1>0, <1>2, <1>3, NextParts
  DEF ViewStep, LoadChunk, ServeRead, CloseRead, AbortRead, LoseReadConnection, OpenRead,
      UpType, DelType, Deleting, RowType, StoreType

\* A deletion or a job goes on, ends, or begins.
LEMMA GotoType ==
  ASSUME DelType, NEW d \in Remover, NEW pc, del[d] # Idle, Goto(d, pc),
         pc \in {"finalize", "failed", "erase"} => del[d].replay \in Replay,
         pc \in Phase \cup {"erase", "finalize", "failed", "swept", "row gone",
                            "closing", "job failed"}
  PROVE  DelType'
<1>1. del[d] \in Removal
  BY DEF DelType
<1>2. del' \in [Remover -> Removal \cup {Idle}]
  BY <1>1 DEF DelType, Goto, Removal
<1>3. ASSUME NEW e \in Remover, Deleting(e)' PROVE del'[e].replay \in Replay
  BY <1>1, <1>3 DEF DelType, Goto, Deleting, Removal, Phase
<1> QED
  BY <1>2, <1>3 DEF DelType

LEMMA ReturnType ==
  ASSUME DelType, NEW d \in Remover, del[d] # Idle, Return(d)
  PROVE  DelType'
<1>1. del' \in [Remover -> Removal \cup {Idle}]
  BY DEF DelType, Return, Removal, Phase
<1>2. ASSUME NEW e \in Remover, Deleting(e)' PROVE del'[e].replay \in Replay
  BY <1>2 DEF DelType, Return, Deleting
<1> QED
  BY <1>1, <1>2 DEF DelType

LEMMA StartType ==
  ASSUME DelType, NEW d \in Remover,
         \/ Start(d)
         \/ del' = [del EXCEPT ![d] = Idle]
         \/ \E r \in Replay, j \in BOOLEAN :
              del' = [del EXCEPT ![d] = [pc |-> "claim", replay |-> r, job |-> j]]
  PROVE  DelType'
<1>1. del' \in [Remover -> Removal \cup {Idle}]
  <2>1. [pc |-> "job", replay |-> None, job |-> TRUE] \in Removal
    BY DEF Removal
  <2>2. \A r \in Replay, j \in BOOLEAN : [pc |-> "claim", replay |-> r, job |-> j] \in Removal
    BY DEF Removal
  <2>3. CASE Start(d)
    BY <2>1, <2>3 DEF DelType, Start
  <2>4. CASE del' = [del EXCEPT ![d] = Idle]
    BY <2>4 DEF DelType
  <2>5. CASE \E r \in Replay, j \in BOOLEAN :
               del' = [del EXCEPT ![d] = [pc |-> "claim", replay |-> r, job |-> j]]
    BY <2>2, <2>5 DEF DelType
  <2> QED
    BY <2>3, <2>4, <2>5
<1>2. ASSUME NEW e \in Remover, Deleting(e)' PROVE del'[e].replay \in Replay
  BY <1>2 DEF DelType, Start, Deleting
<1> QED
  BY <1>1, <1>2 DEF DelType

\* So does a deletion.
LEMMA DeleteTypes ==
  ASSUME TypeInv, NEW d \in Remover,
         \/ DeleteStep(d) \/ EraseFails(d) \/ FinalizeFails(d)
         \/ \E r \in Replay : RequestDelete(d, r) \/ SweepSession(d, r)
  PROVE  TypeInv'
<1> USE DEF manifest, timers, jobs
<1>0. UpType /\ ViewType /\ DelType /\ RowType /\ StoreType
  BY TypeParts
<1>1. del[d] # Idle /\ del[d].pc \in {"claim", "erase", "finalize", "failed"} =>
        del[d].replay \in Replay
  BY <1>0 DEF DelType, Deleting
<1>2. CASE \E r \in Replay : RequestDelete(d, r) \/ SweepSession(d, r)
  <2>1. PICK r \in Replay : RequestDelete(d, r) \/ SweepSession(d, r)
    BY <1>2
  <2>2. DelType'
    BY <1>0, <2>1, StartType DEF RequestDelete, SweepSession
  <2>3. RowType'
    <3>1. CASE RequestDelete(d, r)
      BY <1>0, <3>1 DEF RequestDelete, RowType
    <3>2. CASE SweepSession(d, r)
      BY <1>0, <3>2 DEF SweepSession, RowType
    <3> QED
      BY <2>1, <3>1, <3>2
  <2> QED
    BY <1>0, <2>1, <2>2, <2>3, NextParts DEF RequestDelete, SweepSession, UpType, ViewType, StoreType
<1>3. CASE Tombstone(d)
  <2>1. del[d] # Idle /\ del[d].replay \in Replay
    BY <1>1, <1>3 DEF Tombstone, At
  <2>2. DelType'
    BY <1>0, <1>3, <2>1, GotoType, ReturnType DEF Tombstone
  <2>3. RowType'
    <3> DEFINE r == del[d].replay
    <3>1. CASE UNCHANGED <<manifest, timers>>
      BY <1>0, <1>3, <3>1 DEF Tombstone, RowType
    <3>2. CASE /\ status'  = [status EXCEPT ![r] = "deleting"]
               /\ expired' = [expired EXCEPT ![r] = TRUE]
               /\ held'    = [held EXCEPT ![r] = TRUE]
               /\ audit'   = [audit EXCEPT ![r] = @ \cup {"delete_requested"}]
               /\ UNCHANGED <<chunk, backoff>>
      <4>1. audit' \in [Replay -> SUBSET {"delete_requested", "delete_completed"}]
        BY <1>0, <2>1, <3>2 DEF RowType
      <4> QED
        BY <1>0, <1>3, <2>1, <3>2, <4>1 DEF Tombstone, RowType
    <3> QED
      BY <1>3, <3>1, <3>2 DEF Tombstone
  <2> QED
    BY <1>0, <1>3, <2>2, <2>3, NextParts DEF Tombstone, UpType, ViewType, StoreType
<1>4. CASE EraseObjects(d)
  <2>1. del[d] # Idle /\ del[d].replay \in Replay
    BY <1>1, <1>4 DEF EraseObjects, At
  <2>2. DelType'
    BY <1>0, <1>4, <2>1, GotoType DEF EraseObjects
  <2>3. StoreType'
    BY <1>0, <1>4, <2>1 DEF EraseObjects, StoreType, Erased, NoChunks
  <2> QED
    BY <1>0, <1>4, <2>2, <2>3, NextParts DEF EraseObjects, UpType, ViewType, RowType
<1>5. CASE EraseFails(d)
  <2>1. del[d] # Idle /\ del[d].replay \in Replay
    BY <1>1, <1>5 DEF EraseFails, At
  <2>2. DelType'
    BY <1>0, <1>5, <2>1, GotoType DEF EraseFails
  <2>3. object' \in [Replay -> [Sequence -> Payload \cup {None}]]
    BY <1>0, <1>5, <2>1 DEF EraseFails, StoreType
  <2> QED
    BY <1>0, <1>5, <2>2, <2>3, FaultType, NextParts
    DEF EraseFails, UpType, ViewType, RowType, StoreType
<1>6. CASE Finalize(d)
  <2>1. del[d] # Idle /\ del[d].replay \in Replay
    BY <1>1, <1>6 DEF Finalize, At
  <2>2. DelType'
    BY <1>0, <1>6, <2>1, ReturnType DEF Finalize
  <2>3. RowType'
    BY <1>0, <1>6, <2>1 DEF Finalize, RowType, NoChunks
  <2> QED
    BY <1>0, <1>6, <2>2, <2>3, NextParts DEF Finalize, UpType, ViewType, StoreType
<1>7. CASE FinalizeFails(d)
  <2>1. del[d] # Idle /\ del[d].replay \in Replay
    BY <1>1, <1>7 DEF FinalizeFails, At
  <2>2. DelType'
    BY <1>0, <1>7, <2>1, GotoType DEF FinalizeFails
  <2> QED
    BY <1>0, <1>7, <2>2, FaultType, NextParts DEF FinalizeFails, UpType, ViewType, RowType, StoreType
<1>8. CASE RecordFailure(d)
  <2>1. del[d] # Idle /\ del[d].replay \in Replay
    BY <1>1, <1>8 DEF RecordFailure, At
  <2>2. DelType'
    BY <1>0, <1>8, <2>1, GotoType, ReturnType DEF RecordFailure
  <2>3. RowType'
    BY <1>0, <1>8, <2>1 DEF RecordFailure, RowType
  <2> QED
    BY <1>0, <1>8, <2>2, <2>3, NextParts DEF RecordFailure, UpType, ViewType, StoreType
<1> QED
  BY <1>2, <1>3, <1>4, <1>5, <1>6, <1>7, <1>8 DEF DeleteStep

\* And so does the deletion of a project.
LEMMA JobTypes ==
  ASSUME TypeInv, NEW d \in Remover,
         \/ JobStep(d) \/ JobStepFails(d) \/ CrashRemover(d)
         \/ BeginProjectDeletion(d) \/ SweepJob(d)
  PROVE  TypeInv'
<1> USE DEF manifest, timers, jobs
<1>0. UpType /\ ViewType /\ DelType /\ RowType /\ StoreType
  BY TypeParts
<1>1. CASE BeginProjectDeletion(d) \/ SweepJob(d)
  <2>1. DelType'
    BY <1>0, <1>1, StartType DEF BeginProjectDeletion, SweepJob
  <2>2. RowType'
    BY <1>0, <1>1 DEF BeginProjectDeletion, SweepJob, RowType, Phase
  <2> QED
    BY <1>0, <1>1, <2>1, <2>2, NextParts DEF BeginProjectDeletion, SweepJob, UpType, ViewType, StoreType
<1>2. CASE ReadJob(d) \/ JobStepFails(d)
  <2>1. DelType'
    BY <1>0, <1>2, GotoType DEF ReadJob, JobStepFails, At, RowType, Phase
  <2> QED
    BY <1>0, <1>2, <2>1, FaultType, NextParts
    DEF ReadJob, JobStepFails, UpType, ViewType, RowType, StoreType
<1>3. ASSUME NEW phase \in Phase \ {"objects"}, del[d] # Idle, Checkpoint(d, phase)
      PROVE  TypeInv'
  <2>1. job' \in Phase \cup {None}
    <3>1. phase \in {"artifacts", "events", "replays", "metadata"}
      BY DEF Phase
    <3>2. Following[phase] \in Phase
      BY <3>1 DEF Following, Phase
    <3> QED
      BY <1>0, <1>3, <3>2 DEF Checkpoint, RowType
  <2>2. DelType'
    <3>1. CASE job' = None
      BY <1>0, <1>3, <3>1, GotoType DEF Checkpoint
    <3>2. CASE job' # None
      BY <1>0, <1>3, <2>1, <3>2, GotoType DEF Checkpoint, Phase
    <3> QED
      BY <3>1, <3>2
  <2> QED
    BY <1>0, <1>3, <2>1, <2>2, NextParts DEF Checkpoint, UpType, ViewType, RowType, StoreType
<1>4. CASE PurgeElsewhere(d) \/ PurgeDone(d) \/ RowDeleted(d)
  BY <1>3, <1>4 DEF PurgeElsewhere, PurgeDone, RowDeleted, At, Phase
<1>5. CASE PurgeNext(d)
  <2>1. DelType'
    BY <1>0, <1>5, StartType DEF PurgeNext, Recorded
  <2> QED
    BY <1>0, <1>5, <2>1, NextParts DEF PurgeNext, UpType, ViewType, RowType, StoreType
<1>6. CASE SweepObjects(d)
  <2>1. DelType'
    BY <1>0, <1>6, GotoType DEF SweepObjects, At
  <2>2. StoreType'
    BY <1>0, <1>6 DEF SweepObjects, StoreType, NoChunks
  <2> QED
    BY <1>0, <1>6, <2>1, <2>2, NextParts DEF SweepObjects, UpType, ViewType, RowType
<1>7. CASE DeleteProjectRow(d)
  <2>1. DelType'
    BY <1>0, <1>7, GotoType DEF DeleteProjectRow, At
  <2>2. RowType'
    BY <1>0, <1>7 DEF DeleteProjectRow, RowType, NoChunks
  <2> QED
    BY <1>0, <1>7, <2>1, <2>2, NextParts DEF DeleteProjectRow, UpType, ViewType, StoreType
<1>8. CASE CloseJob(d) \/ FailJob(d) \/ CrashRemover(d)
  <2>1. DelType'
    BY <1>0, <1>8, StartType DEF CloseJob, FailJob, CrashRemover
  <2>2. RowType' /\ StoreType'
    BY <1>0, <1>8, FaultType DEF CloseJob, FailJob, CrashRemover, RowType, StoreType
  <2> QED
    BY <1>0, <1>8, <2>1, <2>2, NextParts DEF CloseJob, FailJob, CrashRemover, UpType, ViewType
<1> QED
  BY <1>1, <1>2, <1>4, <1>5, <1>6, <1>7, <1>8 DEF JobStep

\* What is left: creations, completions and time.
OtherStep ==
  \/ \E r \in Replay :
       \/ CreateSession(r) \/ Expire(r) \/ ClaimEnds(r) \/ BackoffEnds(r)
       \/ \E last \in Sequence : Complete(r, last)
  \/ JobTimer

LEMMA OtherTypes == ASSUME TypeInv, OtherStep PROVE TypeInv'
<1> USE DEF manifest, timers, jobs
<1>0. UpType /\ ViewType /\ DelType /\ RowType /\ StoreType
  BY TypeParts
<1>1. RowType'
  <2>1. ASSUME NEW r \in Replay, CreateSession(r) \/ \E last \in Sequence : Complete(r, last)
        PROVE  RowType'
    BY <1>0, <2>1 DEF CreateSession, Complete, RowType
  <2>2. ASSUME NEW r \in Replay, Expire(r) \/ ClaimEnds(r) \/ BackoffEnds(r) PROVE RowType'
    BY <1>0, <2>2 DEF Expire, ClaimEnds, BackoffEnds, RowType
  <2>3. CASE JobTimer
    BY <1>0, <2>3 DEF JobTimer, RowType
  <2> QED
    BY <2>1, <2>2, <2>3 DEF OtherStep
<1>2. UNCHANGED <<object, up, view, del, stray, faults>>
  BY DEF OtherStep, CreateSession, Complete, Expire, ClaimEnds, BackoffEnds, JobTimer
<1> QED
  BY <1>0, <1>1, <1>2, NextParts DEF UpType, ViewType, DelType, Deleting, StoreType

LEMMA TypeKept == TypeInv /\ [Next]_vars => TypeInv'
<1> SUFFICES ASSUME TypeInv, [Next]_vars PROVE TypeInv'
  OBVIOUS
<1>1. CASE UNCHANGED vars
  BY <1>1 DEF vars, manifest, timers, jobs, TypeInv, TypeOK, InHand, Deleting
<1>2. CASE Next
  BY <1>2, UploadTypes, ViewTypes, DeleteTypes, JobTypes, OtherTypes
  DEF Next, OtherStep, Remover
<1> QED
  BY <1>1, <1>2

\* Every variable keeps its type, in every state a session, its uploads, its
\* playbacks and its deletions can come to.
THEOREM ReplayTypeCorrect == Spec => []TypeOK
BY TypeInit, TypeKept, PTL DEF Spec, TypeInv

-----------------------------------------------------------------------------
(* Row locks, and what readers see.                                        *)

Locked(u)  == up[u] # Idle /\ up[u].locked
Reading(v) == view[v] # Idle /\ ~view[v].lost

\* An upload that holds its session holds it alone: nobody else writes it or
\* reads it, its project stays, its session stays open, its row stays free.
LockInv ==
  /\ \A u \in Uploader : Locked(u) =>
       /\ project = "live" /\ up[u].pc \in {"storing", "stored"}
       /\ status[up[u].replay] \in {"recording", "incomplete"}
       /\ chunk[up[u].replay][up[u].seq] = None
  /\ \A t, u \in Uploader : Locked(t) /\ Locked(u) /\ up[t].replay = up[u].replay => t = u
  /\ \A u \in Uploader, v \in Viewer :
       Locked(u) /\ Reading(v) => up[u].replay # view[v].replay
  /\ \A u \in Uploader : up[u] # Idle /\ up[u].pc = "storing" => ~up[u].created

LocksInv == LockInv /\ NoPlaybackAfterTombstone

\* Locks may be given up at any time.
LEMMA LocksReleased ==
  ASSUME LocksInv, UNCHANGED <<project, status, chunk>>,
         \A u \in Uploader : Locked(u)' =>
           /\ Locked(u) /\ up'[u].pc \in {"storing", "stored"}
           /\ up'[u].replay = up[u].replay /\ up'[u].seq = up[u].seq,
         \A u \in Uploader : up'[u] # Idle /\ up'[u].pc = "storing" => ~up'[u].created,
         \A v \in Viewer : Reading(v)' => Reading(v) /\ view'[v].replay = view[v].replay
  PROVE  LocksInv'
<1>1. ASSUME NEW u \in Uploader, Locked(u)'
      PROVE  /\ project' = "live" /\ up'[u].pc \in {"storing", "stored"}
             /\ status'[up'[u].replay] \in {"recording", "incomplete"}
             /\ chunk'[up'[u].replay][up'[u].seq] = None
  BY <1>1 DEF LocksInv, LockInv
<1>2. ASSUME NEW t \in Uploader, NEW u \in Uploader, Locked(t)', Locked(u)',
             up'[t].replay = up'[u].replay
      PROVE  t = u
  BY <1>2 DEF LocksInv, LockInv
<1>3. ASSUME NEW u \in Uploader, NEW v \in Viewer, Locked(u)', Reading(v)'
      PROVE  up'[u].replay # view'[v].replay
  BY <1>3 DEF LocksInv, LockInv
<1>4. ASSUME NEW v \in Viewer, Reading(v)' PROVE status'[view'[v].replay] = "playable"
  BY <1>4 DEF LocksInv, NoPlaybackAfterTombstone, Reading
<1> QED
  BY <1>1, <1>2, <1>3, <1>4 DEF LocksInv, LockInv, NoPlaybackAfterTombstone, Reading

\* Rows nobody has locked may change in any way.
LEMMA RowsUnlocked ==
  ASSUME TypeInv, LocksInv, UNCHANGED <<up, view>>,
         project' = project \/ ProjectUnshared,
         \A r \in Replay : \/ Unlocked(r) \/ status[r] = "absent"
                           \/ status'[r] = status[r] /\ chunk'[r] = chunk[r]
  PROVE  LocksInv'
<1>1. ASSUME NEW u \in Uploader, Locked(u)
      PROVE  /\ up[u].replay \in Replay /\ ~Unlocked(up[u].replay) /\ ~ProjectUnshared
             /\ status[up[u].replay] # "absent"
  BY <1>1 DEF TypeInv, TypeOK, Upload, Locked, Unlocked, BeingWritten, ProjectUnshared,
              LocksInv, LockInv
<1>2. ASSUME NEW v \in Viewer, Reading(v)
      PROVE  /\ view[v].replay \in Replay /\ ~Unlocked(view[v].replay)
             /\ status[view[v].replay] # "absent"
  BY <1>2 DEF TypeInv, TypeOK, View, Reading, Unlocked, BeingRead,
              LocksInv, NoPlaybackAfterTombstone
<1>3. \A u \in Uploader : Locked(u) =>
        /\ project' = project /\ status'[up[u].replay] = status[up[u].replay]
        /\ chunk'[up[u].replay] = chunk[up[u].replay]
  BY <1>1
<1>4. \A v \in Viewer : Reading(v) => status'[view[v].replay] = status[view[v].replay]
  BY <1>2
<1>5. LockInv'
  BY <1>3 DEF LocksInv, LockInv, Locked, Reading
<1>6. NoPlaybackAfterTombstone'
  BY <1>4 DEF LocksInv, NoPlaybackAfterTombstone, Reading
<1> QED
  BY <1>5, <1>6 DEF LocksInv

LEMMA UploadLocks ==
  ASSUME TypeInv, LocksInv, NEW u \in Uploader,
         \/ UploadStep(u) \/ LoseUploadConnection(u) \/ AbandonUpload(u)
         \/ \E r \in Replay, s \in Sequence, p \in Payload : PutChunk(u, r, s, p)
  PROVE  LocksInv'
<1> USE DEF manifest, timers, jobs
<1>0. up \in [Uploader -> Upload \cup {Idle}]
  BY DEF TypeInv, TypeOK
<1>1. CASE \E r \in Replay, s \in Sequence, p \in Payload : PutChunk(u, r, s, p)
  <2>1. PICK r \in Replay, s \in Sequence, p \in Payload : PutChunk(u, r, s, p)
    BY <1>1
  <2>2. \A t \in Uploader : t # u => up'[t] = up[t]
    BY <1>0, <2>1 DEF PutChunk
  <2>3. /\ up'[u].replay = r /\ up'[u].seq = s /\ up'[u].pc = "storing" /\ ~up'[u].created
        /\ UNCHANGED <<project, status, chunk, view>>
    BY <1>0, <2>1 DEF PutChunk
  <2>4. /\ project = "live" /\ status[r] \in {"recording", "incomplete"} /\ chunk[r][s] = None
        /\ \A t \in Uploader : Locked(t) => up[t].replay # r
        /\ \A v \in Viewer : Reading(v) => view[v].replay # r
    BY <2>1 DEF PutChunk, Writable, UploadAllowed, Unlocked, BeingWritten, BeingRead,
                Locked, Reading
  <2>5. \A t \in Uploader : Locked(t)' /\ t # u => Locked(t)
    BY <2>2 DEF Locked
  <2>6. ASSUME NEW t \in Uploader, Locked(t)'
        PROVE  /\ project' = "live" /\ up'[t].pc \in {"storing", "stored"}
               /\ status'[up'[t].replay] \in {"recording", "incomplete"}
               /\ chunk'[up'[t].replay][up'[t].seq] = None
    BY <2>2, <2>3, <2>4, <2>5, <2>6 DEF LocksInv, LockInv
  <2>7. ASSUME NEW q \in Uploader, NEW t \in Uploader, Locked(q)', Locked(t)',
               up'[q].replay = up'[t].replay
        PROVE  q = t
    BY <2>2, <2>3, <2>4, <2>5, <2>7 DEF LocksInv, LockInv
  <2>8. ASSUME NEW t \in Uploader, NEW v \in Viewer, Locked(t)', Reading(v)'
        PROVE  up'[t].replay # view'[v].replay
    BY <2>2, <2>3, <2>4, <2>5, <2>8 DEF LocksInv, LockInv, Reading
  <2>9. \A t \in Uploader : up'[t] # Idle /\ up'[t].pc = "storing" => ~up'[t].created
    BY <2>2, <2>3 DEF LocksInv, LockInv
  <2> QED
    BY <2>3, <2>6, <2>7, <2>8, <2>9 DEF LocksInv, LockInv, NoPlaybackAfterTombstone
<1>2. CASE CommitChunk(u)
  <2>1. up[u] \in Upload /\ Locked(u)
    BY <1>0, <1>2 DEF CommitChunk, Locked
  <2>2. /\ \A t \in Uploader : t # u => up'[t] = up[t]
        /\ up'[u] = Idle /\ UNCHANGED <<project, view>>
    BY <1>0, <1>2 DEF CommitChunk
  <2>3. \A r \in Replay : r # up[u].replay => status'[r] = status[r] /\ chunk'[r] = chunk[r]
    BY <1>2 DEF CommitChunk, TypeInv, TypeOK
  <2>4. \A t \in Uploader : Locked(t)' =>
          t # u /\ Locked(t) /\ up'[t] = up[t] /\ up[t].replay # up[u].replay /\ up[t].replay \in Replay
    BY <1>0, <2>1, <2>2 DEF Locked, LocksInv, LockInv, Upload
  <2>5. \A v \in Viewer : Reading(v) =>
          view[v].replay \in Replay /\ view[v].replay # up[u].replay
    BY <2>1 DEF TypeInv, TypeOK, View, Reading, LocksInv, LockInv
  <2>6. LockInv'
    BY <2>2, <2>3, <2>4 DEF LocksInv, LockInv, Reading
  <2>7. NoPlaybackAfterTombstone'
    BY <2>2, <2>3, <2>5 DEF LocksInv, NoPlaybackAfterTombstone, Reading
  <2> QED
    BY <2>6, <2>7 DEF LocksInv
<1>3. CASE StoreObject(u)
  BY <1>0, <1>3, LocksReleased DEF StoreObject, Locked, Reading, Upload, LocksInv, LockInv
<1>4. CASE LoseUploadConnection(u)
  BY <1>0, <1>4, LocksReleased
  DEF LoseUploadConnection, Locked, Reading, Upload, LocksInv, LockInv
<1>5. CASE RollBackUpload(u)
  BY <1>0, <1>5, LocksReleased DEF RollBackUpload, Locked, Reading, Upload, LocksInv, LockInv
<1>6. CASE UndoUpload(u) \/ AbandonUpload(u)
  BY <1>0, <1>6, LocksReleased
  DEF UndoUpload, AbandonUpload, Locked, Reading, LocksInv, LockInv
<1> QED
  BY <1>1, <1>2, <1>3, <1>4, <1>5, <1>6 DEF UploadStep

LEMMA ViewLocks ==
  ASSUME TypeInv, LocksInv, NEW v \in Viewer,
         \/ ViewStep(v) \/ AbortRead(v) \/ LoseReadConnection(v)
         \/ \E r \in Replay : OpenRead(v, r)
  PROVE  LocksInv'
<1> USE DEF manifest, timers, jobs
<1>0. view \in [Viewer -> View \cup {Idle}]
  BY DEF TypeInv, TypeOK
<1>1. CASE \E r \in Replay : OpenRead(v, r)
  <2>1. PICK r \in Replay : OpenRead(v, r)
    BY <1>1
  <2>2. /\ \A w \in Viewer : w # v => view'[w] = view[w]
        /\ view'[v].replay = r /\ UNCHANGED <<project, status, chunk, up>>
    BY <1>0, <2>1 DEF OpenRead
  <2>3. /\ status[r] = "playable"
        /\ \A u \in Uploader : Locked(u) => up[u].replay # r
    BY <2>1 DEF OpenRead, WriterOnly, BeingWritten, Locked
  <2>4. LockInv'
    BY <2>2, <2>3 DEF LocksInv, LockInv, Locked, Reading
  <2>5. NoPlaybackAfterTombstone'
    BY <2>2, <2>3 DEF LocksInv, NoPlaybackAfterTombstone
  <2> QED
    BY <2>4, <2>5 DEF LocksInv
<1>2. CASE LoadChunk(v)
  BY <1>0, <1>2, LocksReleased DEF LoadChunk, Locked, Reading, View, LocksInv, LockInv
<1>3. CASE ServeRead(v)
  BY <1>0, <1>3, LocksReleased DEF ServeRead, Locked, Reading, View, LocksInv, LockInv
<1>4. CASE CloseRead(v) \/ AbortRead(v)
  BY <1>0, <1>4, LocksReleased DEF CloseRead, AbortRead, Locked, Reading, LocksInv, LockInv
<1>5. CASE LoseReadConnection(v)
  BY <1>0, <1>5, LocksReleased DEF LoseReadConnection, Locked, Reading, View, LocksInv, LockInv
<1> QED
  BY <1>1, <1>2, <1>3, <1>4, <1>5 DEF ViewStep

\* Deletions, jobs, creations and completions wait for the locks in their way.
LEMMA RowLocks ==
  ASSUME TypeInv, LocksInv,
         \/ OtherStep
         \/ \E d \in Remover :
              \/ \E r \in Replay : RequestDelete(d, r) \/ SweepSession(d, r)
              \/ DeleteStep(d) \/ EraseFails(d) \/ FinalizeFails(d)
              \/ JobStep(d) \/ JobStepFails(d) \/ CrashRemover(d)
              \/ BeginProjectDeletion(d) \/ SweepJob(d)
  PROVE  LocksInv'
<1> USE DEF manifest, timers, jobs
<1>0. status \in [Replay -> {"absent", "recording", "playable", "incomplete", "deleting", "deleted"}]
      /\ chunk \in [Replay -> [Sequence -> Chunk \cup {None}]]
  BY DEF TypeInv, TypeOK
<1>1. UNCHANGED <<up, view>>
  BY DEF OtherStep, CreateSession, Complete, Expire, ClaimEnds, BackoffEnds, JobTimer,
         RequestDelete, SweepSession, DeleteStep, Tombstone, EraseObjects, Finalize,
         RecordFailure, EraseFails, FinalizeFails, JobStep, ReadJob, PurgeElsewhere,
         PurgeNext, SweepObjects, PurgeDone, DeleteProjectRow, RowDeleted, CloseJob,
         FailJob, Checkpoint, JobStepFails, CrashRemover, BeginProjectDeletion, SweepJob
<1> DEFINE Frame == UNCHANGED <<project, status, chunk>>
<1>2. CASE Frame
  BY <1>1, <1>2, RowsUnlocked
<1>3. CASE OtherStep
  <2>1. CASE \E r \in Replay : CreateSession(r) \/ \E last \in Sequence : Complete(r, last)
    BY <1>0, <1>1, <2>1, RowsUnlocked DEF CreateSession, Complete
  <2>2. CASE JobTimer \/ \E r \in Replay : Expire(r) \/ ClaimEnds(r) \/ BackoffEnds(r)
    BY <1>2, <2>2 DEF Expire, ClaimEnds, BackoffEnds, JobTimer
  <2> QED
    BY <1>3, <2>1, <2>2 DEF OtherStep
<1>4. ASSUME NEW d \in Remover,
             \/ \E r \in Replay : RequestDelete(d, r) \/ SweepSession(d, r)
             \/ DeleteStep(d) \/ EraseFails(d) \/ FinalizeFails(d)
      PROVE  LocksInv'
  <2>1. CASE Tombstone(d)
    BY <1>0, <1>1, <2>1, RowsUnlocked DEF Tombstone
  <2>2. CASE Finalize(d)
    <3>1. project' = project
      BY <2>2 DEF Finalize
    <3>2. \A r \in Replay : \/ Unlocked(r) \/ status[r] = "absent"
                            \/ status'[r] = status[r] /\ chunk'[r] = chunk[r]
      BY <1>0, <2>2 DEF Finalize
    <3> HIDE DEF manifest, timers, jobs
    <3> QED
      BY <1>1, <3>1, <3>2, RowsUnlocked
  <2>3. CASE \/ \E r \in Replay : RequestDelete(d, r) \/ SweepSession(d, r)
             \/ EraseObjects(d) \/ RecordFailure(d) \/ EraseFails(d) \/ FinalizeFails(d)
    BY <1>2, <2>3 DEF RequestDelete, SweepSession, EraseObjects, RecordFailure, EraseFails,
                      FinalizeFails
  <2> QED
    BY <1>4, <2>1, <2>2, <2>3 DEF DeleteStep
<1>5. ASSUME NEW d \in Remover,
             \/ JobStep(d) \/ JobStepFails(d) \/ CrashRemover(d)
             \/ BeginProjectDeletion(d) \/ SweepJob(d)
      PROVE  LocksInv'
  <2>1. CASE DeleteProjectRow(d)
    BY <1>1, <2>1, RowsUnlocked DEF DeleteProjectRow
  <2>2. CASE BeginProjectDeletion(d)
    BY <1>1, <2>2, RowsUnlocked DEF BeginProjectDeletion
  <2>3. CASE Frame
    BY <1>2, <2>3
  <2> QED
    BY <1>5, <2>1, <2>2, <2>3
    DEF JobStep, ReadJob, PurgeElsewhere, PurgeNext, SweepObjects, PurgeDone, RowDeleted,
        CloseJob, FailJob, Checkpoint, JobStepFails, CrashRemover, SweepJob
<1> QED
  BY <1>3, <1>4, <1>5

LEMMA LocksKept == TypeInv /\ LocksInv /\ [Next]_vars => LocksInv'
<1> SUFFICES ASSUME TypeInv, LocksInv, [Next]_vars PROVE LocksInv'
  OBVIOUS
<1>1. CASE UNCHANGED vars
  BY <1>1, RowsUnlocked DEF vars, manifest, jobs
<1>2. CASE Next
  BY <1>2, UploadLocks, ViewLocks, RowLocks DEF Next, OtherStep, Remover
<1> QED
  BY <1>1, <1>2

LEMMA LocksInit == Init => LocksInv
BY DEF Init, LocksInv, LockInv, NoPlaybackAfterTombstone, Locked, Reading

\* No playback is under way once the tombstone of its session is committed,
\* unless its connection broke: what a withdrawal promises to the person who
\* withdrew (deleteSession, openReplay).
THEOREM ReadersAreFencedOff == Spec => []NoPlaybackAfterTombstone
<1>1. Spec => []TypeInv
  BY TypeInit, TypeKept, PTL DEF Spec
<1> QED
  BY <1>1, LocksInit, LocksKept, PTL DEF Spec, LocksInv

-----------------------------------------------------------------------------
(* What deletions and jobs have done, and what they leave.                 *)

Live == {"recording", "incomplete", "playable"}

\* The rows of a project that is gone, and of a session that is deleted, are
\* gone, and the audit log says that a deletion is complete of no other session.
RowsRule ==
  /\ project = "gone" => \A r \in Replay : status[r] = "absent"
  /\ \A r \in Replay : status[r] \in {"absent", "deleted"} => chunk[r] = NoChunks
  /\ \A r \in Replay :
       "delete_completed" \in audit[r] => status[r] = "deleted" \/ project = "gone"

\* The job of a project deletion lives from its beginning to its end, and comes
\* to the objects once the project's row is gone.
JobRule ==
  /\ job # None => project # "live"
  /\ job = "objects" => project = "gone"
  /\ project = "deleting" => job # None

\* A deletion beyond its claim works on a session that is no longer open, and a
\* job beyond the project's row on a project that is gone.
DelOK(d) == del[d] # Idle =>
  /\ Deleting(d) => /\ status[del[d].replay] # "absent" \/ project = "gone"
                    /\ del[d].pc # "claim" => status[del[d].replay] \notin Live
  /\ ~Deleting(d) => del[d].job
  /\ del[d].job => project # "live"
  /\ del[d].pc \in {"row gone", "objects", "closing"} => project = "gone"
DelRule == \A d \in Remover : DelOK(d)

RemoverInv == RowsRule /\ JobRule /\ DelRule

\* A project is deleted once, and a session is opened once while it lives.
Onward ==
  /\ project' = "live" => project = "live"
  /\ project = "gone" => project' = "gone"
  /\ \A r \in Replay :
       /\ status'[r] = "absent" => status[r] = "absent" \/ project' = "gone"
       /\ status'[r] \in Live =>
            status[r] \in Live \/ (status[r] = "absent" /\ project # "gone")

\* The steps that change rows.
LEMMA RowChanges ==
  ASSUME Next
  PROVE  \/ UNCHANGED <<project, status, chunk, audit>>
         \/ \E u \in Uploader : CommitChunk(u)
         \/ \E r \in Replay : CreateSession(r) \/ \E last \in Sequence : Complete(r, last)
         \/ \E d \in Remover : \/ Tombstone(d) \/ Finalize(d)
                               \/ BeginProjectDeletion(d) \/ DeleteProjectRow(d)
<1> USE DEF manifest, timers, jobs
<1> DEFINE Same == UNCHANGED <<project, status, chunk, audit>>
<1>1. ASSUME NEW u \in Uploader,
             \/ UploadStep(u) \/ LoseUploadConnection(u) \/ AbandonUpload(u)
             \/ \E r \in Replay, s \in Sequence, p \in Payload : PutChunk(u, r, s, p)
      PROVE  Same \/ CommitChunk(u)
  BY <1>1 DEF UploadStep, StoreObject, RollBackUpload, UndoUpload, LoseUploadConnection,
              AbandonUpload, PutChunk
<1>2. ASSUME NEW v \in Viewer,
             \/ ViewStep(v) \/ AbortRead(v) \/ LoseReadConnection(v)
             \/ \E r \in Replay : OpenRead(v, r)
      PROVE  Same
  BY <1>2 DEF ViewStep, LoadChunk, ServeRead, CloseRead, AbortRead, LoseReadConnection, OpenRead
<1>3. ASSUME NEW d \in Remover,
             \/ DeleteStep(d) \/ JobStep(d) \/ EraseFails(d) \/ FinalizeFails(d)
             \/ JobStepFails(d) \/ CrashRemover(d) \/ SweepJob(d)
             \/ \E r \in Replay : RequestDelete(d, r) \/ SweepSession(d, r)
      PROVE  Same \/ Tombstone(d) \/ Finalize(d) \/ DeleteProjectRow(d)
  BY <1>3 DEF DeleteStep, EraseObjects, RecordFailure, JobStep, ReadJob, PurgeElsewhere,
              PurgeNext, SweepObjects, PurgeDone, RowDeleted, CloseJob, FailJob, Checkpoint,
              EraseFails, FinalizeFails, JobStepFails, CrashRemover, SweepJob,
              RequestDelete, SweepSession
<1>4. ASSUME OtherStep
      PROVE  Same \/ \E r \in Replay : CreateSession(r) \/ \E last \in Sequence : Complete(r, last)
  BY <1>4 DEF OtherStep, Expire, ClaimEnds, BackoffEnds, JobTimer
<1> QED
  BY <1>1, <1>2, <1>3, <1>4 DEF Next, OtherStep, Remover

LEMMA OnwardHolds ==
  ASSUME TypeInv, LocksInv, RowsRule, Next
  PROVE  Onward
<1> USE DEF manifest, timers, jobs
<1>0. status \in [Replay -> {"absent", "recording", "playable", "incomplete", "deleting", "deleted"}]
  BY DEF TypeInv, TypeOK
<1>1. CASE UNCHANGED <<project, status, chunk, audit>>
  BY <1>1 DEF Onward
<1>2. ASSUME NEW u \in Uploader, CommitChunk(u) PROVE Onward
  <2>1. up[u] # Idle => up[u] \in Upload
    BY DEF TypeInv, TypeOK
  <2>2. status[up[u].replay] \in {"recording", "incomplete"}
    BY <1>2 DEF CommitChunk, LocksInv, LockInv, Locked
  <2> QED
    BY <1>0, <1>2, <2>1, <2>2 DEF CommitChunk, Onward, Live, Upload
<1>3. ASSUME NEW r \in Replay, CreateSession(r) \/ \E last \in Sequence : Complete(r, last)
      PROVE  Onward
  BY <1>0, <1>3 DEF CreateSession, Complete, Writable, Onward, Live
<1>4. ASSUME NEW d \in Remover, Tombstone(d) \/ Finalize(d) PROVE Onward
  <2>1. del[d].replay \in Replay
    BY <1>4 DEF Tombstone, Finalize, At, TypeInv, InHand, Deleting
  <2> QED
    BY <1>0, <1>4, <2>1 DEF Tombstone, Finalize, Onward, Live
<1>5. ASSUME NEW d \in Remover, BeginProjectDeletion(d) \/ DeleteProjectRow(d) PROVE Onward
  BY <1>5 DEF BeginProjectDeletion, DeleteProjectRow, Onward, Live
<1> QED
  BY <1>1, <1>2, <1>3, <1>4, <1>5, RowChanges

LEMMA RowsRuleKept ==
  ASSUME TypeInv, LocksInv, RowsRule, DelRule, Next
  PROVE  RowsRule'
<1> USE DEF manifest, timers, jobs
<1>0. /\ status \in [Replay -> {"absent", "recording", "playable", "incomplete", "deleting", "deleted"}]
      /\ chunk \in [Replay -> [Sequence -> Chunk \cup {None}]]
      /\ audit \in [Replay -> SUBSET {"delete_requested", "delete_completed"}]
  BY DEF TypeInv, TypeOK
<1>1. CASE UNCHANGED <<project, status, chunk, audit>>
  BY <1>1 DEF RowsRule, NoChunks
<1>2. ASSUME NEW u \in Uploader, CommitChunk(u) PROVE RowsRule'
  <2>1. up[u] # Idle /\ up[u] \in Upload
    BY <1>2 DEF CommitChunk, TypeInv, TypeOK
  <2>2. /\ project = "live" /\ status[up[u].replay] \in {"recording", "incomplete"}
        /\ up[u].replay \in Replay
    BY <1>2, <2>1 DEF CommitChunk, LocksInv, LockInv, Locked, Upload
  <2>3. \A r \in Replay :
          \/ status'[r] = status[r] /\ chunk'[r] = chunk[r] /\ audit'[r] = audit[r]
          \/ /\ status'[r] = "recording" /\ audit'[r] = audit[r]
             /\ status[r] \in {"recording", "incomplete"}
    BY <1>0, <1>2, <2>2 DEF CommitChunk
  <2>4. project' = "live"
    BY <1>2, <2>2 DEF CommitChunk
  <2> QED
    BY <2>2, <2>3, <2>4 DEF RowsRule, NoChunks
<1>3. ASSUME NEW r \in Replay, CreateSession(r) \/ \E last \in Sequence : Complete(r, last)
      PROVE  RowsRule'
  BY <1>0, <1>3 DEF CreateSession, Complete, Writable, RowsRule, NoChunks
<1>4. ASSUME NEW d \in Remover, Tombstone(d) PROVE RowsRule'
  <2>1. del[d].replay \in Replay
    BY <1>4 DEF Tombstone, At, TypeInv, InHand, Deleting
  <2>2. \A r \in Replay :
          \/ status'[r] = status[r] /\ audit'[r] = audit[r]
          \/ /\ status'[r] = "deleting" /\ status[r] \notin {"absent", "deleted"}
             /\ audit'[r] = audit[r] \cup {"delete_requested"}
    BY <1>0, <1>4, <2>1 DEF Tombstone
  <2>3. project' = project /\ chunk' = chunk
    BY <1>4 DEF Tombstone
  <2> QED
    BY <2>2, <2>3 DEF RowsRule, NoChunks
<1>5. ASSUME NEW d \in Remover, Finalize(d) PROVE RowsRule'
  <2> DEFINE q == del[d].replay
  <2>1. /\ q \in Replay /\ status[q] \notin Live
        /\ status[q] # "absent" \/ project = "gone"
    BY <1>5 DEF Finalize, At, TypeInv, InHand, Deleting, DelRule, DelOK
  <2>2. chunk'[q] = NoChunks /\ project' = project
    BY <1>0, <1>5, <2>1 DEF Finalize
  <2>3. status'[q] = IF status[q] = "deleting" THEN "deleted" ELSE status[q]
    BY <1>0, <1>5, <2>1 DEF Finalize
  <2>4. \A r \in Replay : r # q =>
          status'[r] = status[r] /\ chunk'[r] = chunk[r] /\ audit'[r] = audit[r]
    BY <1>0, <1>5 DEF Finalize
  <2>5. status'[q] = "deleted" \/ project' = "gone"
    BY <1>0, <2>1, <2>2, <2>3 DEF Live
  <2>6. project = "gone" => status'[q] = "absent"
    BY <2>1, <2>3 DEF RowsRule
  <2> QED
    BY <2>2, <2>4, <2>5, <2>6 DEF RowsRule, NoChunks
<1>6. ASSUME NEW d \in Remover, BeginProjectDeletion(d) \/ DeleteProjectRow(d) PROVE RowsRule'
  BY <1>6 DEF BeginProjectDeletion, DeleteProjectRow, RowsRule, NoChunks
<1> QED
  BY <1>1, <1>2, <1>3, <1>4, <1>5, <1>6, RowChanges

\* The steps that change the job.
LEMMA JobChanges ==
  ASSUME Next
  PROVE  \/ UNCHANGED <<project, job>>
         \/ \E d \in Remover :
              \/ BeginProjectDeletion(d) \/ DeleteProjectRow(d) \/ CloseJob(d)
              \/ PurgeElsewhere(d) \/ PurgeDone(d) \/ RowDeleted(d)
<1> USE DEF manifest, timers, jobs
<1>1. ASSUME NEW u \in Uploader,
             \/ UploadStep(u) \/ LoseUploadConnection(u) \/ AbandonUpload(u)
             \/ \E r \in Replay, s \in Sequence, p \in Payload : PutChunk(u, r, s, p)
      PROVE  UNCHANGED <<project, job>>
  BY <1>1 DEF UploadStep, StoreObject, CommitChunk, RollBackUpload, UndoUpload,
              LoseUploadConnection, AbandonUpload, PutChunk
<1>2. ASSUME NEW v \in Viewer,
             \/ ViewStep(v) \/ AbortRead(v) \/ LoseReadConnection(v)
             \/ \E r \in Replay : OpenRead(v, r)
      PROVE  UNCHANGED <<project, job>>
  BY <1>2 DEF ViewStep, LoadChunk, ServeRead, CloseRead, AbortRead, LoseReadConnection, OpenRead
<1>3. ASSUME NEW d \in Remover,
             \/ DeleteStep(d) \/ EraseFails(d) \/ FinalizeFails(d)
             \/ JobStepFails(d) \/ CrashRemover(d) \/ SweepJob(d)
             \/ ReadJob(d) \/ PurgeNext(d) \/ SweepObjects(d) \/ FailJob(d)
             \/ \E r \in Replay : RequestDelete(d, r) \/ SweepSession(d, r)
      PROVE  UNCHANGED <<project, job>>
  BY <1>3 DEF DeleteStep, Tombstone, EraseObjects, Finalize, RecordFailure, ReadJob,
              PurgeNext, SweepObjects, FailJob, EraseFails, FinalizeFails, JobStepFails,
              CrashRemover, SweepJob, RequestDelete, SweepSession
<1>4. OtherStep => UNCHANGED <<project, job>>
  BY DEF OtherStep, CreateSession, Complete, Expire, ClaimEnds, BackoffEnds, JobTimer
<1> QED
  BY <1>1, <1>2, <1>3, <1>4 DEF Next, OtherStep, JobStep, Remover

LEMMA JobRuleKept ==
  ASSUME TypeInv, JobRule, DelRule, Next
  PROVE  JobRule'
<1> USE DEF manifest, timers, jobs
<1>0. project \in {"live", "deleting", "gone"} /\ None \notin Phase
  BY ReplayAssumption DEF TypeInv, TypeOK
<1>1. CASE UNCHANGED <<project, job>>
  BY <1>1 DEF JobRule
<1>2. ASSUME NEW d \in Remover, BeginProjectDeletion(d) PROVE JobRule'
  BY <1>0, <1>2 DEF BeginProjectDeletion, JobRule, Phase
<1>3. ASSUME NEW d \in Remover, DeleteProjectRow(d) PROVE JobRule'
  BY <1>3 DEF DeleteProjectRow, JobRule
<1>4. ASSUME NEW d \in Remover, CloseJob(d) PROVE JobRule'
  <2>1. project = "gone"
    BY <1>4 DEF CloseJob, At, DelRule, DelOK
  <2> QED
    BY <1>0, <1>4, <2>1 DEF CloseJob, JobRule, Phase
<1>5. ASSUME NEW d \in Remover, PurgeElsewhere(d) \/ PurgeDone(d) \/ RowDeleted(d)
      PROVE  JobRule'
  <2>1. PICK phase \in {"artifacts", "events", "replays", "metadata"} :
          Checkpoint(d, phase) /\ (phase = "metadata" => At(d, "row gone"))
    BY <1>5 DEF PurgeElsewhere, PurgeDone, RowDeleted
  <2>2. phase = "metadata" => project = "gone"
    BY <2>1 DEF At, DelRule, DelOK
  <2>3. /\ Following[phase] \in Phase
        /\ Following[phase] = "objects" => phase = "metadata"
    BY DEF Following, Phase
  <2>4. project' = project /\ job' = IF job = phase THEN Following[phase] ELSE job
    BY <2>1 DEF Checkpoint
  <2>5. phase # None
    BY <1>0 DEF Phase
  <2> QED
    BY <1>0, <2>2, <2>3, <2>4, <2>5 DEF JobRule
<1> QED
  BY <1>1, <1>2, <1>3, <1>4, <1>5, JobChanges

\* The step of one deletion or job.
RemoverStep(d) ==
  \/ \E r \in Replay : RequestDelete(d, r) \/ SweepSession(d, r)
  \/ DeleteStep(d) \/ EraseFails(d) \/ FinalizeFails(d)
  \/ JobStep(d) \/ JobStepFails(d) \/ CrashRemover(d)
  \/ BeginProjectDeletion(d) \/ SweepJob(d)

LEMMA NextGroups ==
  Next => \/ \E u \in Uploader :
               \/ UploadStep(u) \/ LoseUploadConnection(u) \/ AbandonUpload(u)
               \/ \E r \in Replay, s \in Sequence, p \in Payload : PutChunk(u, r, s, p)
          \/ \E v \in Viewer :
               \/ ViewStep(v) \/ AbortRead(v) \/ LoseReadConnection(v)
               \/ \E r \in Replay : OpenRead(v, r)
          \/ \E d \in Remover : RemoverStep(d)
          \/ OtherStep
BY DEF Next, OtherStep, Remover, RemoverStep

\* What no step of its own disturbs of a deletion.
LEMMA DelStays ==
  ASSUME TypeInv, DelRule, Onward, NEW e \in Remover, del'[e] = del[e]
  PROVE  DelOK(e)'
<1>1. project \in {"live", "deleting", "gone"} /\ (project' = "live" => project = "live")
  BY DEF TypeInv, TypeOK, Onward
<1>2. Deleting(e)' <=> Deleting(e)
  BY DEF Deleting
<1>3. DelOK(e) /\ (Deleting(e) => del[e].replay \in Replay)
  BY DEF DelRule, TypeInv, InHand
<1>4. CASE Deleting(e)
  <2>1. status'[del[e].replay] # "absent" \/ project' = "gone"
    BY <1>3, <1>4 DEF DelOK, Deleting, Onward
  <2>2. del[e].pc # "claim" => status'[del[e].replay] \notin Live
    BY <1>3, <1>4 DEF DelOK, Deleting, Onward
  <2> QED
    BY <1>1, <1>2, <1>3, <1>4, <2>1, <2>2 DEF DelOK, Deleting, Onward
<1>5. CASE ~Deleting(e)
  BY <1>1, <1>2, <1>3, <1>5 DEF DelOK, Onward
<1> QED
  BY <1>4, <1>5

LEMMA DelRuleKept ==
  ASSUME TypeInv, LocksInv, RemoverInv, Onward, Next
  PROVE  DelRule'
<1> USE DEF manifest, timers, jobs
<1>1. CASE UNCHANGED del
  BY <1>1, DelStays DEF RemoverInv, DelRule
<1>2. ASSUME NEW d \in Remover, RemoverStep(d) PROVE DelRule'
  <2>0. /\ del \in [Remover -> Removal \cup {Idle}]
        /\ status \in [Replay -> {"absent", "recording", "playable", "incomplete", "deleting", "deleted"}]
        /\ job \in Phase \cup {None} /\ None \notin Phase
        /\ Deleting(d) => del[d].replay \in Replay
    BY ReplayAssumption DEF TypeInv, TypeOK, InHand
  <2>1. RowsRule /\ JobRule /\ DelRule /\ DelOK(d)
    BY DEF RemoverInv, DelRule
  <2>2. \A e \in Remover : e # d => del'[e] = del[e]
    BY <1>2, <2>0
    DEF RemoverStep, RequestDelete, SweepSession, DeleteStep, Tombstone, EraseObjects,
        Finalize, RecordFailure, EraseFails, FinalizeFails, JobStep, ReadJob,
        PurgeElsewhere, PurgeNext, SweepObjects, PurgeDone, DeleteProjectRow, RowDeleted,
        CloseJob, FailJob, Checkpoint, JobStepFails, CrashRemover, BeginProjectDeletion,
        SweepJob, Goto, Return, Start
  <2>3. SUFFICES DelOK(d)'
    BY <2>1, <2>2, DelStays DEF DelRule
  <2>4. CASE \E r \in Replay : RequestDelete(d, r) \/ SweepSession(d, r)
    <3>1. PICK r \in Replay : RequestDelete(d, r) \/ SweepSession(d, r)
      BY <2>4
    <3>2. /\ del'[d] = [pc |-> "claim", replay |-> r, job |-> FALSE]
          /\ status[r] # "absent" /\ UNCHANGED <<status, project>>
      BY <2>0, <3>1 DEF RequestDelete, SweepSession
    <3> QED
      BY <3>2 DEF DelOK, Deleting
  <2>5. ASSUME del[d] # Idle, Return(d), del[d].job => project' # "live" PROVE DelOK(d)'
    <3>1. CASE del[d].job
      <4>1. del'[d] = [pc |-> "replays", replay |-> None, job |-> TRUE]
        BY <2>0, <2>5, <3>1 DEF Return
      <4>2. del'[d].pc = "replays" /\ del'[d].job
        BY <4>1
      <4> QED
        BY <2>5, <3>1, <4>2 DEF DelOK, Deleting
    <3>2. CASE ~del[d].job
      <4>1. del'[d] = Idle
        BY <2>0, <2>5, <3>2 DEF Return
      <4> QED
        BY <4>1 DEF DelOK
    <3> QED
      BY <3>1, <3>2
  <2>6. del[d] # Idle => del[d] \in Removal
    BY <2>0
  <2>7. ASSUME NEW pc, Goto(d, pc), del[d] # Idle
        PROVE  /\ del'[d].pc = pc /\ del'[d].replay = del[d].replay
               /\ del'[d].job = del[d].job
    BY <2>0, <2>6, <2>7 DEF Goto, Removal
  <2>7a. ASSUME NEW pc, Goto(d, pc), del[d] # Idle,
                pc \in {"claim", "erase", "finalize", "failed"},
                status'[del[d].replay] # "absent" \/ project' = "gone",
                status'[del[d].replay] \notin Live,
                del[d].job => project' # "live"
         PROVE  DelOK(d)'
    <3>1. /\ del'[d].pc = pc /\ del'[d].replay = del[d].replay
          /\ del'[d].job = del[d].job
      BY <2>7, <2>7a
    <3>2. del'[d].job => project' # "live"
      BY <2>7a, <3>1
    <3> QED
      BY <2>7a, <3>1, <3>2 DEF DelOK, Deleting
  <2>7b. ASSUME NEW pc, Goto(d, pc), del[d] # Idle,
                pc \notin {"claim", "erase", "finalize", "failed"},
                del[d].job, project' # "live",
                pc \in {"row gone", "objects", "closing"} => project' = "gone"
         PROVE  DelOK(d)'
    <3>1. del'[d].pc = pc /\ del'[d].job = del[d].job
      BY <2>7, <2>7b
    <3> QED
      BY <2>7b, <3>1 DEF DelOK, Deleting
  <2>8. CASE Tombstone(d)
    <3>0. del[d] # Idle /\ Deleting(d) /\ project' = project
      BY <2>8 DEF Tombstone, At, Deleting
    <3>1. CASE Return(d)
      BY <2>1, <2>5, <3>0, <3>1 DEF DelOK
    <3>2. CASE Goto(d, "erase") /\ status' = [status EXCEPT ![del[d].replay] = "deleting"]
      <4>1. status'[del[d].replay] = "deleting"
        BY <2>0, <3>0, <3>2
      <4> QED
        BY <2>1, <2>7a, <3>0, <3>2, <4>1 DEF DelOK, Live
    <3>3. CASE Goto(d, "job failed") /\ del[d].job
      BY <2>1, <2>7b, <3>0, <3>3 DEF DelOK
    <3> QED
      BY <2>8, <3>1, <3>2, <3>3 DEF Tombstone
  <2>9. CASE EraseObjects(d) \/ EraseFails(d) \/ FinalizeFails(d)
    <3>1. /\ del[d] # Idle /\ Deleting(d) /\ del[d].pc # "claim"
          /\ UNCHANGED <<project, status>>
          /\ Goto(d, "finalize") \/ Goto(d, "failed")
      BY <2>9 DEF EraseObjects, EraseFails, FinalizeFails, At, Deleting
    <3> QED
      BY <2>1, <2>7a, <3>1 DEF DelOK
  <2>10. CASE Finalize(d)
    BY <2>1, <2>5, <2>10 DEF Finalize, At, DelOK
  <2>11. CASE RecordFailure(d)
    <3>1. /\ del[d] # Idle /\ UNCHANGED <<project, status>>
          /\ Return(d) \/ (del[d].job /\ Goto(d, "job failed"))
      BY <2>11 DEF RecordFailure, At
    <3> QED
      BY <2>1, <2>5, <2>7b, <3>1 DEF DelOK
  <2>12. ASSUME NEW pc, Goto(d, pc), del[d] # Idle, del[d].job, project' = project,
                pc \notin {"claim", "erase", "finalize", "failed"},
                pc \in {"row gone", "objects", "closing"} => project = "gone"
         PROVE  DelOK(d)'
    BY <2>1, <2>12, <2>7b DEF DelOK
  <2>13. CASE ReadJob(d)
    <3>1. del[d] # Idle /\ del[d].job /\ project' = project
      BY <2>1, <2>13 DEF ReadJob, At, DelOK, Deleting
    <3> QED
      BY <2>0, <2>1, <2>12, <2>13, <3>1 DEF ReadJob, JobRule, Phase
  <2>14. CASE PurgeElsewhere(d) \/ PurgeDone(d) \/ RowDeleted(d)
    <3>1. PICK phase \in {"artifacts", "events", "replays", "metadata"} :
            Checkpoint(d, phase) /\ At(d, IF phase = "replays" THEN "swept" ELSE
                                           IF phase = "metadata" THEN "row gone" ELSE phase)
      BY <2>14 DEF PurgeElsewhere, PurgeDone, RowDeleted
    <3>2. /\ del[d] # Idle /\ del[d].job
          /\ phase = "metadata" => project = "gone"
      BY <2>1, <3>1 DEF At, DelOK, Deleting
    <3>3. project' = project /\ job' \in Phase \cup {None} /\ (job' = "objects" => project = "gone")
      <4>1. Following[phase] \in Phase /\ (Following[phase] = "objects" => phase = "metadata")
        BY DEF Following, Phase
      <4> QED
        BY <2>0, <2>1, <3>1, <3>2, <4>1 DEF Checkpoint, JobRule
    <3>4. Goto(d, IF job' = None THEN "job failed" ELSE job')
      BY <3>1 DEF Checkpoint
    <3> QED
      BY <2>0, <2>12, <3>2, <3>3, <3>4 DEF Phase
  <2>15. CASE PurgeNext(d)
    <3>1. PICK r \in Replay : /\ status[r] # "absent"
                              /\ del' = [del EXCEPT ![d] = [pc |-> "claim", replay |-> r, job |-> TRUE]]
      BY <2>15 DEF PurgeNext, Recorded
    <3>2. project' = project /\ status' = status /\ project # "live"
      BY <2>1, <2>15 DEF PurgeNext, At, DelOK, Deleting
    <3>3. del'[d].pc = "claim" /\ del'[d].replay = r
      BY <2>0, <3>1
    <3> QED
      BY <3>1, <3>2, <3>3 DEF DelOK, Deleting
  <2>16. CASE SweepObjects(d)
    <3>1. /\ del[d] # Idle /\ del[d].job /\ project' = project
          /\ Goto(d, "swept") \/ (Goto(d, "closing") /\ project = "gone")
      BY <2>1, <2>16 DEF SweepObjects, At, DelOK, Deleting
    <3> QED
      BY <2>12, <3>1
  <2>17. CASE DeleteProjectRow(d)
    <3>1. /\ del[d] # Idle /\ del[d].job /\ project' = "gone" /\ Goto(d, "row gone")
      BY <2>1, <2>17 DEF DeleteProjectRow, At, DelOK, Deleting
    <3> QED
      BY <2>7b, <3>1
  <2>18. CASE JobStepFails(d)
    <3>1. del[d] # Idle /\ del[d].job /\ project' = project /\ Goto(d, "job failed")
      BY <2>18 DEF JobStepFails
    <3> QED
      BY <2>12, <3>1
  <2>19. CASE CloseJob(d) \/ FailJob(d) \/ CrashRemover(d)
    <3>1. del'[d] = Idle
      BY <2>0, <2>19 DEF CloseJob, FailJob, CrashRemover
    <3> QED
      BY <3>1 DEF DelOK
  <2>20. CASE BeginProjectDeletion(d) \/ SweepJob(d)
    <3>1. del'[d].pc = "job" /\ del'[d].job
      BY <2>0, <2>20 DEF BeginProjectDeletion, SweepJob, Start
    <3>2. project' # "live"
      BY <2>1, <2>20 DEF BeginProjectDeletion, SweepJob, JobRule
    <3> QED
      BY <3>1, <3>2 DEF DelOK, Deleting
  <2> QED
    BY <1>2, <2>4, <2>8, <2>9, <2>10, <2>11, <2>13, <2>14, <2>15, <2>16, <2>17, <2>18,
       <2>19, <2>20
    DEF RemoverStep, DeleteStep, JobStep
<1>3. ASSUME NEW u \in Uploader,
             \/ UploadStep(u) \/ LoseUploadConnection(u) \/ AbandonUpload(u)
             \/ \E r \in Replay, s \in Sequence, p \in Payload : PutChunk(u, r, s, p)
      PROVE  UNCHANGED del
  BY <1>3 DEF UploadStep, StoreObject, CommitChunk, RollBackUpload, UndoUpload,
              LoseUploadConnection, AbandonUpload, PutChunk
<1>4. ASSUME NEW v \in Viewer,
             \/ ViewStep(v) \/ AbortRead(v) \/ LoseReadConnection(v)
             \/ \E r \in Replay : OpenRead(v, r)
      PROVE  UNCHANGED del
  BY <1>4 DEF ViewStep, LoadChunk, ServeRead, CloseRead, AbortRead, LoseReadConnection, OpenRead
<1>5. OtherStep => UNCHANGED del
  BY DEF OtherStep, CreateSession, Complete, Expire, ClaimEnds, BackoffEnds, JobTimer
<1> QED
  BY <1>1, <1>2, <1>3, <1>4, <1>5, NextGroups

LEMMA RemoverKept == TypeInv /\ LocksInv /\ RemoverInv /\ [Next]_vars => RemoverInv'
<1> SUFFICES ASSUME TypeInv, LocksInv, RemoverInv, [Next]_vars PROVE RemoverInv'
  OBVIOUS
<1>1. CASE UNCHANGED vars
  <2>1. RowsRule' /\ JobRule'
    BY <1>1 DEF vars, manifest, jobs, RemoverInv, RowsRule, JobRule, NoChunks
  <2>2. DelRule'
    BY <1>1 DEF vars, manifest, jobs, RemoverInv, DelRule, DelOK, Deleting
  <2> QED
    BY <2>1, <2>2 DEF RemoverInv
<1>2. CASE Next
  BY <1>2, OnwardHolds, RowsRuleKept, JobRuleKept, DelRuleKept DEF RemoverInv
<1> QED
  BY <1>1, <1>2

LEMMA RemoverInit == Init => RemoverInv
<1> SUFFICES ASSUME Init PROVE RowsRule /\ JobRule /\ DelRule
  BY DEF RemoverInv
<1>1. RowsRule
  BY DEF Init, RowsRule, NoChunks
<1>2. JobRule
  BY ReplayAssumption DEF Init, JobRule, Phase
<1>3. DelRule
  BY DEF Init, DelRule, DelOK
<1> QED
  BY <1>1, <1>2, <1>3

-----------------------------------------------------------------------------
(* What is left in the object store.                                       *)

\* Nothing is stored for r but what an upload without its lock has put.
Clean(r) == \A s \in Sequence :
  object[r][s] = None \/ CleanedUpLater(r, s) \/ <<r, s>> \in stray

\* The objects of r have been erased.
Settled(r) ==
  \/ "delete_completed" \in audit[r] \/ status[r] = "deleted"
  \/ project = "gone" /\ job = None
  \/ \E d \in Remover : At(d, "finalize") /\ del[d].replay = r
  \/ \E d \in Remover : At(d, "closing")

CleanInv == \A r \in Replay : Settled(r) => Clean(r)

LEMMA SettledIsClosed ==
  ASSUME TypeInv, RemoverInv, NEW r \in Replay, Settled(r)
  PROVE  status[r] \notin Live
<1>1. CASE \/ "delete_completed" \in audit[r] \/ status[r] = "deleted"
           \/ project = "gone"
  BY <1>1 DEF RemoverInv, RowsRule, Live
<1>2. CASE \E d \in Remover : At(d, "finalize") /\ del[d].replay = r
  BY <1>2 DEF RemoverInv, DelRule, DelOK, Deleting, At
<1>3. CASE \E d \in Remover : At(d, "closing")
  BY <1>1, <1>3 DEF RemoverInv, DelRule, DelOK, At
<1> QED
  BY <1>1, <1>2, <1>3 DEF Settled

\* Whatever an upload does to a session that is closed, it does without a lock.
LEMMA UploadClean ==
  ASSUME TypeInv, LocksInv, RemoverInv, CleanInv, NEW u \in Uploader,
         \/ UploadStep(u) \/ LoseUploadConnection(u) \/ AbandonUpload(u)
         \/ \E r \in Replay, s \in Sequence, p \in Payload : PutChunk(u, r, s, p)
  PROVE  CleanInv'
<1> USE DEF manifest, timers, jobs
<1>0. /\ up \in [Uploader -> Upload \cup {Idle}]
      /\ object \in [Replay -> [Sequence -> Payload \cup {None}]]
      /\ status \in [Replay -> {"absent", "recording", "playable", "incomplete", "deleting", "deleted"}]
  BY DEF TypeInv, TypeOK
<1>a. up[u] # Idle => up[u] \in Upload
  BY <1>0
<1> SUFFICES ASSUME NEW r \in Replay, Settled(r)', NEW s \in Sequence
             PROVE  object'[r][s] = None \/ CleanedUpLater(r, s)' \/ <<r, s>> \in stray'
  BY DEF CleanInv, Clean
<1>1. Settled(r)
  <2>1. UNCHANGED <<audit, project, job, del>>
    BY DEF UploadStep, StoreObject, CommitChunk, RollBackUpload, UndoUpload,
           LoseUploadConnection, AbandonUpload, PutChunk
  <2>2. status'[r] = "deleted" => status[r] = "deleted"
    BY <1>0 DEF UploadStep, StoreObject, CommitChunk, RollBackUpload, UndoUpload,
                LoseUploadConnection, AbandonUpload, PutChunk
  <2> QED
    BY <2>1, <2>2 DEF Settled, At
<1>2. object[r][s] = None \/ CleanedUpLater(r, s) \/ <<r, s>> \in stray
  BY <1>1 DEF CleanInv, Clean
<1>3. up[u] # Idle /\ up[u].locked => up[u].replay # r
  BY <1>1, SettledIsClosed DEF LocksInv, LockInv, Locked, Live
<1>4. \A t \in Uploader : t # u => up'[t] = up[t]
  BY <1>0 DEF UploadStep, StoreObject, CommitChunk, RollBackUpload, UndoUpload,
              LoseUploadConnection, AbandonUpload, PutChunk
<1>5. ASSUME CleanedUpLater(r, s),
             ~(up[u] # Idle /\ up[u].replay = r /\ up[u].seq = s /\ up[u].created /\ ~up[u].locked)
      PROVE  CleanedUpLater(r, s)'
  <2>1. PICK t \in Uploader :
          up[t] # Idle /\ up[t].replay = r /\ up[t].seq = s /\ up[t].created /\ ~up[t].locked
    BY <1>5 DEF CleanedUpLater
  <2> QED
    BY <1>4, <1>5, <2>1 DEF CleanedUpLater
<1>6. CASE \E q \in Replay, m \in Sequence, p \in Payload : PutChunk(u, q, m, p)
  BY <1>2, <1>5, <1>6 DEF PutChunk
<1>7. CASE StoreObject(u)
  <2>1. up[u] \in Upload /\ up[u].pc = "storing" /\ ~up[u].created /\ stray' = stray
    BY <1>a, <1>7 DEF StoreObject, LocksInv, LockInv
  <2>2. CASE object' = object
    BY <1>2, <1>5, <2>1, <2>2
  <2>3. CASE /\ object' = [object EXCEPT ![up[u].replay][up[u].seq] = up[u].payload]
             /\ up' = [up EXCEPT ![u].pc = "stored", ![u].created = TRUE]
    <3>1. CASE up[u].replay = r /\ up[u].seq = s
      <4>1. ~up[u].locked
        BY <1>3, <1>7, <3>1 DEF StoreObject
      <4>2. /\ up'[u] # Idle /\ up'[u].replay = r /\ up'[u].seq = s /\ up'[u].created
            /\ ~up'[u].locked
        <5>1. up'[u] = [up[u] EXCEPT !.pc = "stored", !.created = TRUE]
          BY <1>0, <2>3
        <5>2. up'[u] \in Upload
          BY <2>1, <5>1 DEF Upload
        <5> QED
          BY <2>1, <3>1, <4>1, <5>1, <5>2, ReplayAssumption DEF Upload
      <4> QED
        BY <4>2 DEF CleanedUpLater
    <3>2. CASE ~(up[u].replay = r /\ up[u].seq = s)
      <4>1. object'[r][s] = object[r][s]
        BY <1>0, <2>1, <2>3, <3>2 DEF Upload
      <4> QED
        BY <1>2, <1>5, <2>1, <4>1
    <3> QED
      BY <3>1, <3>2
  <2> QED
    BY <1>7, <2>2, <2>3 DEF StoreObject
<1>8. CASE CommitChunk(u)
  BY <1>2, <1>5, <1>8 DEF CommitChunk
<1>9. CASE LoseUploadConnection(u) \/ RollBackUpload(u)
  <2>1. /\ up'[u].replay = up[u].replay /\ up'[u].seq = up[u].seq
        /\ up'[u].created = up[u].created /\ ~up'[u].locked /\ up'[u] # Idle
        /\ object' = object /\ stray' = stray
    <3>1. \/ up' = [up EXCEPT ![u].locked = FALSE]
          \/ up' = [up EXCEPT ![u].pc = "undoing", ![u].locked = FALSE]
      BY <1>9 DEF LoseUploadConnection, RollBackUpload
    <3>2. up[u] \in Upload /\ object' = object /\ stray' = stray
      BY <1>a, <1>9 DEF LoseUploadConnection, RollBackUpload
    <3>3. \/ up'[u] = [up[u] EXCEPT !.locked = FALSE]
          \/ up'[u] = [up[u] EXCEPT !.pc = "undoing", !.locked = FALSE]
      BY <1>0, <3>1
    <3>4. up'[u] \in Upload
      BY <3>2, <3>3 DEF Upload
    <3>5. up'[u] # Idle
      BY <3>4, ReplayAssumption
    <3>6. /\ up'[u].replay = up[u].replay /\ up'[u].seq = up[u].seq
          /\ up'[u].created = up[u].created /\ ~up'[u].locked
      BY <3>2, <3>3 DEF Upload
    <3> QED
      BY <3>2, <3>5, <3>6
  <2>2. CASE up[u].replay = r /\ up[u].seq = s /\ up[u].created
    BY <2>1, <2>2 DEF CleanedUpLater
  <2>3. CASE ~(up[u].replay = r /\ up[u].seq = s /\ up[u].created)
    BY <1>2, <1>5, <2>1, <2>3
  <2> QED
    BY <2>2, <2>3
<1>10. CASE UndoUpload(u)
  <2>1. up[u] \in Upload /\ up'[u] = Idle /\ stray' = stray
    BY <1>0, <1>a, <1>10 DEF UndoUpload
  <2>2. CASE up[u].created /\ up[u].replay = r /\ up[u].seq = s
    BY <1>0, <1>10, <2>2 DEF UndoUpload, RemovesObject
  <2>3. CASE ~(up[u].created /\ up[u].replay = r /\ up[u].seq = s)
    <3>1. object'[r][s] = object[r][s]
      BY <1>0, <1>10, <2>1, <2>3 DEF UndoUpload, RemovesObject, Upload
    <3> QED
      BY <1>2, <1>5, <2>1, <2>3, <3>1
  <2> QED
    BY <2>2, <2>3
<1>11. CASE AbandonUpload(u)
  <2>1. CASE up[u].created /\ ~up[u].locked /\ up[u].replay = r /\ up[u].seq = s
    BY <1>11, <2>1 DEF AbandonUpload, LeftBehind
  <2>2. CASE ~(up[u].created /\ ~up[u].locked /\ up[u].replay = r /\ up[u].seq = s)
    BY <1>2, <1>5, <1>11, <2>2 DEF AbandonUpload, LeftBehind
  <2> QED
    BY <2>1, <2>2
<1> QED
  BY <1>6, <1>7, <1>8, <1>9, <1>10, <1>11 DEF UploadStep

\* A deletion settles a session only behind an erasure.
LEMMA RemoverClean ==
  ASSUME TypeInv, LocksInv, RemoverInv, CleanInv, NEW d \in Remover, RemoverStep(d)
  PROVE  CleanInv'
<1> USE DEF manifest, timers, jobs
<1>0. /\ del \in [Remover -> Removal \cup {Idle}]
      /\ object \in [Replay -> [Sequence -> Payload \cup {None}]]
      /\ status \in [Replay -> {"absent", "recording", "playable", "incomplete", "deleting", "deleted"}]
      /\ audit \in [Replay -> SUBSET {"delete_requested", "delete_completed"}]
      /\ job \in Phase \cup {None} /\ None \notin Phase
      /\ Deleting(d) => del[d].replay \in Replay
      /\ del[d] # Idle => del[d] \in Removal
      /\ project \in {"live", "deleting", "gone"}
  BY ReplayAssumption DEF TypeInv, TypeOK, InHand
<1>1. JobRule /\ RowsRule /\ DelOK(d)
  BY DEF RemoverInv, DelRule
<1>2. UNCHANGED up
  BY DEF RemoverStep, RequestDelete, SweepSession, DeleteStep, Tombstone, EraseObjects,
         Finalize, RecordFailure, EraseFails, FinalizeFails, JobStep, ReadJob,
         PurgeElsewhere, PurgeNext, SweepObjects, PurgeDone, DeleteProjectRow, RowDeleted,
         CloseJob, FailJob, Checkpoint, JobStepFails, CrashRemover, BeginProjectDeletion,
         SweepJob
<1>3. \A e \in Remover : e # d => del'[e] = del[e]
  BY <1>0 DEF RemoverStep, RequestDelete, SweepSession, DeleteStep, Tombstone, EraseObjects,
         Finalize, RecordFailure, EraseFails, FinalizeFails, JobStep, ReadJob,
         PurgeElsewhere, PurgeNext, SweepObjects, PurgeDone, DeleteProjectRow, RowDeleted,
         CloseJob, FailJob, Checkpoint, JobStepFails, CrashRemover, BeginProjectDeletion,
         SweepJob, Goto, Return, Start
\* Objects only go, and what keeps strays of r has not erased r.
<1> DEFINE Kept(r) == \A s \in Sequence :
             /\ object'[r][s] \in {object[r][s], None}
             /\ <<r, s>> \in stray => <<r, s>> \in stray' \/ object'[r][s] = None
<1>4. ASSUME NEW r \in Replay, Clean(r), Kept(r) PROVE Clean(r)'
  <2>1. ASSUME NEW s \in Sequence
        PROVE  object'[r][s] = None \/ CleanedUpLater(r, s)' \/ <<r, s>> \in stray'
    <3>1. CleanedUpLater(r, s)' <=> CleanedUpLater(r, s)
      BY <1>2 DEF CleanedUpLater
    <3> QED
      BY <1>4, <3>1 DEF Clean
  <2> QED
    BY <2>1 DEF Clean
<1>5. ASSUME NEW r \in Replay, Kept(r) PROVE Settled(r) => Clean(r)'
  BY <1>4, <1>5 DEF CleanInv
<1>6. ASSUME NEW r \in Replay, UNCHANGED <<object, stray>> PROVE Kept(r)
  BY <1>6
<1> HIDE DEF Kept
\* No step of its own, so no settling by another deletion.
<1>7. ASSUME NEW r \in Replay,
             "delete_completed" \in audit'[r] => Settled(r),
             status'[r] = "deleted" => Settled(r),
             project' = "gone" /\ job' = None => Settled(r),
             ~At(d, "finalize")' \/ Settled(r), ~At(d, "closing")' \/ Settled(r)
      PROVE  Settled(r)' => Settled(r)
  BY <1>3, <1>7 DEF Settled, At
<1>8. ASSUME NEW pc, Goto(d, pc), del[d] # Idle
      PROVE  del'[d].pc = pc /\ del'[d].replay = del[d].replay
  BY <1>0, <1>8 DEF Goto, Removal
<1>8a. ASSUME NEW pc, Goto(d, pc), del[d] # Idle, pc # "finalize", pc # "closing"
       PROVE  ~At(d, "finalize")' /\ ~At(d, "closing")'
  BY <1>8, <1>8a DEF At
<1>9. ASSUME Return(d), del[d] # Idle PROVE ~At(d, "finalize")' /\ ~At(d, "closing")'
  BY <1>0, <1>9 DEF Return, At
<1> SUFFICES ASSUME NEW r \in Replay, Settled(r)' PROVE Clean(r)'
  BY DEF CleanInv
<1>10. CASE /\ UNCHANGED <<object, stray, audit, status, project, job>>
            /\ ~At(d, "finalize")' /\ ~At(d, "closing")'
  <2>1. Settled(r)
    BY <1>7, <1>10 DEF Settled
  <2> QED
    BY <1>5, <1>6, <1>10, <2>1
<1>11. CASE \/ \E q \in Replay : RequestDelete(d, q) \/ SweepSession(d, q)
            \/ EraseFails(d) \/ FinalizeFails(d) \/ RecordFailure(d)
            \/ JobStepFails(d) \/ CrashRemover(d) \/ SweepJob(d) \/ PurgeNext(d) \/ FailJob(d)
  <2>1. CASE EraseFails(d)
    <3>1. /\ UNCHANGED <<stray, audit, status, project, job>> /\ Goto(d, "failed") /\ del[d] # Idle
          /\ del[d].replay \in Replay
      BY <1>0, <2>1 DEF EraseFails, At, Deleting
    <3>2. ~At(d, "finalize")' /\ ~At(d, "closing")'
      BY <1>8, <3>1 DEF At
    <3>3. Settled(r)
      BY <1>7, <3>1, <3>2 DEF Settled
    <3>4. Kept(r)
      BY <1>0, <2>1, <3>1 DEF EraseFails, Kept
    <3> QED
      BY <1>5, <3>3, <3>4
  <2>2. CASE ~EraseFails(d)
    <3>1. UNCHANGED <<object, stray, audit, status, project, job>>
      BY <1>11, <2>2 DEF RequestDelete, SweepSession, FinalizeFails, RecordFailure, JobStepFails,
                         CrashRemover, SweepJob, PurgeNext, FailJob
    <3>2. ASSUME \/ \E q \in Replay : RequestDelete(d, q) \/ SweepSession(d, q)
                 \/ CrashRemover(d) \/ SweepJob(d) \/ PurgeNext(d) \/ FailJob(d)
          PROVE  ~At(d, "finalize")' /\ ~At(d, "closing")'
      <4>1. CASE CrashRemover(d) \/ FailJob(d)
        BY <1>0, <4>1 DEF CrashRemover, FailJob, At
      <4>2. CASE SweepJob(d)
        BY <1>0, <4>2 DEF SweepJob, Start, At
      <4>3. CASE PurgeNext(d) \/ \E q \in Replay : RequestDelete(d, q) \/ SweepSession(d, q)
        <5>1. PICK q \in Replay, j \in BOOLEAN :
                del' = [del EXCEPT ![d] = [pc |-> "claim", replay |-> q, job |-> j]]
          BY <4>3 DEF RequestDelete, SweepSession, PurgeNext, Recorded
        <5>2. del'[d].pc = "claim"
          BY <1>0, <5>1
        <5> QED
          BY <5>2 DEF At
      <4> QED
        BY <3>2, <4>1, <4>2, <4>3
    <3>4. ASSUME FinalizeFails(d) \/ JobStepFails(d) \/ RecordFailure(d)
          PROVE  ~At(d, "finalize")' /\ ~At(d, "closing")'
      <4>1. /\ del[d] # Idle
            /\ Goto(d, "failed") \/ Goto(d, "job failed") \/ Return(d)
        BY <3>4 DEF FinalizeFails, JobStepFails, RecordFailure, At
      <4> QED
        BY <1>9, <1>8a, <4>1
    <3>5. ~At(d, "finalize")' /\ ~At(d, "closing")'
      BY <1>11, <2>2, <3>2, <3>4
    <3> QED
      BY <1>10, <3>1, <3>5
  <2> QED
    BY <2>1, <2>2
<1>12. CASE Tombstone(d)
  <2>1. /\ UNCHANGED <<object, stray, project, job>> /\ del[d] # Idle /\ del[d].replay \in Replay
        /\ Goto(d, "erase") \/ Goto(d, "job failed") \/ Return(d)
    BY <1>0, <1>12 DEF Tombstone, At, Deleting
  <2>2. ~At(d, "finalize")' /\ ~At(d, "closing")'
    BY <1>9, <1>8a, <2>1
  <2>3. \/ status'[r] = status[r] /\ audit'[r] = audit[r]
        \/ status'[r] = "deleting" /\ audit'[r] = audit[r] \cup {"delete_requested"}
    <3>1. CASE status' = status /\ audit' = audit
      BY <3>1
    <3>2. CASE /\ status' = [status EXCEPT ![del[d].replay] = "deleting"]
               /\ audit' = [audit EXCEPT ![del[d].replay] = @ \cup {"delete_requested"}]
      BY <1>0, <2>1, <3>2
    <3> QED
      BY <1>12, <3>1, <3>2 DEF Tombstone
  <2>4. Settled(r)
    BY <1>7, <2>1, <2>2, <2>3 DEF Settled
  <2> QED
    BY <1>5, <1>6, <2>1, <2>4
<1>13. CASE EraseObjects(d)
  <2>1. /\ UNCHANGED <<audit, status, project, job>> /\ Goto(d, "finalize") /\ del[d] # Idle
        /\ del[d].replay \in Replay
        /\ object' = [object EXCEPT ![del[d].replay] = NoChunks]
        /\ stray' = {k \in stray : k[1] # del[d].replay}
    BY <1>0, <1>13 DEF EraseObjects, Erased, At, Deleting
  <2>2. CASE r = del[d].replay
    BY <1>0, <2>1, <2>2 DEF Clean, NoChunks
  <2>3. CASE r # del[d].replay
    <3>1. Kept(r)
      BY <1>0, <2>1, <2>3 DEF Kept
    <3>2. Settled(r)
      <4>1. ~At(d, "closing")' /\ del'[d].replay # r
        BY <1>8, <2>1, <2>3 DEF At
      <4> QED
        BY <1>3, <2>1, <4>1 DEF Settled, At
    <3> QED
      BY <1>5, <3>1, <3>2
  <2> QED
    BY <2>2, <2>3
<1>14. CASE Finalize(d)
  <2>1. /\ UNCHANGED <<object, stray, project, job>> /\ Return(d)
        /\ del[d].replay \in Replay /\ At(d, "finalize") /\ del[d] # Idle
    BY <1>0, <1>14 DEF Finalize, At, Deleting
  <2>2. ~At(d, "finalize")' /\ ~At(d, "closing")'
    BY <1>9, <2>1
  <2>3. CASE r = del[d].replay
    BY <1>5, <1>6, <2>1, <2>3 DEF Settled
  <2>4. CASE r # del[d].replay
    <3>1. audit'[r] = audit[r] /\ status'[r] = status[r]
      BY <1>0, <1>14, <2>1, <2>4 DEF Finalize
    <3>2. Settled(r)
      BY <1>7, <2>1, <2>2, <3>1 DEF Settled
    <3> QED
      BY <1>5, <1>6, <2>1, <3>2
  <2> QED
    BY <2>3, <2>4
<1>15. CASE ReadJob(d)
  <2>1. /\ UNCHANGED <<object, stray, audit, status, project, job>> /\ del[d] # Idle
        /\ Goto(d, IF job = None THEN "job failed" ELSE job)
    BY <1>15 DEF ReadJob, At
  <2>2. ~At(d, "finalize")' /\ ~At(d, "closing")'
    BY <1>0, <1>8a, <2>1 DEF Phase
  <2> QED
    BY <1>10, <2>1, <2>2
<1>16. CASE PurgeElsewhere(d) \/ PurgeDone(d) \/ RowDeleted(d)
  <2>1. PICK phase \in {"artifacts", "events", "replays", "metadata"} :
          Checkpoint(d, phase) /\ del[d] # Idle
    BY <1>16 DEF PurgeElsewhere, PurgeDone, RowDeleted, At
  <2>2. Following[phase] \in Phase
    BY DEF Following, Phase
  <2>3. /\ UNCHANGED <<object, stray, audit, status, project>> /\ job' \in Phase \cup {None}
        /\ job' = None => job = None
        /\ Goto(d, IF job' = None THEN "job failed" ELSE job')
    BY <1>0, <2>1, <2>2 DEF Checkpoint
  <2>4. ~At(d, "finalize")' /\ ~At(d, "closing")'
    BY <1>0, <1>8a, <2>1, <2>3 DEF Phase
  <2>5. Settled(r)
    BY <1>7, <2>3, <2>4 DEF Settled
  <2> QED
    BY <1>5, <1>6, <2>3, <2>5
<1>17. CASE SweepObjects(d)
  BY <1>0, <1>17 DEF SweepObjects, Clean, NoChunks
<1>18. CASE DeleteProjectRow(d)
  <2>1. /\ UNCHANGED <<object, stray, audit, job>> /\ Goto(d, "row gone") /\ del[d] # Idle
        /\ status'[r] = "absent" /\ project # "live"
    BY <1>1, <1>18 DEF DeleteProjectRow, At, DelOK, Deleting
  <2>2. job = None => project = "gone"
    BY <1>0, <1>1, <2>1 DEF JobRule
  <2>3. ~At(d, "finalize")' /\ ~At(d, "closing")'
    BY <1>8a, <2>1
  <2>4. Settled(r)
    BY <1>7, <2>1, <2>2, <2>3 DEF Settled
  <2> QED
    BY <1>5, <1>6, <2>1, <2>4
<1>19. CASE CloseJob(d)
  <2>1. Settled(r) /\ UNCHANGED <<object, stray>>
    BY <1>19 DEF CloseJob, Settled
  <2> QED
    BY <1>5, <1>6, <2>1
<1>20. CASE BeginProjectDeletion(d)
  <2>1. /\ UNCHANGED <<object, stray, audit, status>> /\ project' = "deleting"
        /\ del'[d].pc = "job"
    BY <1>0, <1>20 DEF BeginProjectDeletion, Start
  <2>2. Settled(r)
    BY <1>7, <2>1 DEF Settled, At
  <2> QED
    BY <1>5, <1>6, <2>1, <2>2
<1> QED
  BY <1>11, <1>12, <1>13, <1>14, <1>15, <1>16, <1>17, <1>18, <1>19, <1>20
  DEF RemoverStep, DeleteStep, JobStep

LEMMA CleanKept ==
  ASSUME TypeInv, LocksInv, RemoverInv, CleanInv, [Next]_vars
  PROVE  CleanInv'
<1> USE DEF manifest, timers, jobs
<1>1. ASSUME UNCHANGED <<object, stray, up, audit, project, job, del>>,
             \A r \in Replay : status'[r] = "deleted" => status[r] = "deleted"
      PROVE  CleanInv'
  <2>1. ASSUME NEW r \in Replay, Settled(r)' PROVE Settled(r)
    BY <1>1, <2>1 DEF Settled, At
  <2>2. ASSUME NEW r \in Replay, Clean(r) PROVE Clean(r)'
    BY <1>1, <2>2 DEF Clean, CleanedUpLater
  <2> QED
    BY <2>1, <2>2 DEF CleanInv
<1>2. CASE UNCHANGED vars
  BY <1>1, <1>2 DEF vars
<1>3. ASSUME NEW v \in Viewer,
             \/ ViewStep(v) \/ AbortRead(v) \/ LoseReadConnection(v)
             \/ \E r \in Replay : OpenRead(v, r)
      PROVE  CleanInv'
  <2>1. UNCHANGED <<object, stray, up, audit, project, job, del, status>>
    BY <1>3 DEF ViewStep, LoadChunk, ServeRead, CloseRead, AbortRead, LoseReadConnection, OpenRead
  <2> QED
    BY <1>1, <2>1
<1>4. CASE OtherStep
  <2>1. UNCHANGED <<object, stray, up, audit, project, job, del>>
    BY <1>4 DEF OtherStep, CreateSession, Complete, Expire, ClaimEnds, BackoffEnds, JobTimer
  <2>2. status \in [Replay -> {"absent", "recording", "playable", "incomplete", "deleting", "deleted"}]
    BY DEF TypeInv, TypeOK
  <2>3. \A r \in Replay : status'[r] = "deleted" => status[r] = "deleted"
    BY <1>4, <2>2 DEF OtherStep, CreateSession, Complete, Expire, ClaimEnds, BackoffEnds, JobTimer
  <2> QED
    BY <1>1, <2>1, <2>3
<1> QED
  BY <1>2, <1>3, <1>4, NextGroups, UploadClean, RemoverClean

LEMMA CleanInit == Init => CleanInv
BY DEF Init, CleanInv, Clean, NoChunks

LEMMA CleanIsDeleted == TypeInv /\ RemoverInv /\ CleanInv => DeletedLeavesNothing
<1> SUFFICES ASSUME TypeInv, RemoverInv, CleanInv, NEW r \in Replay, NEW s \in Sequence,
                    \/ "delete_completed" \in audit[r] \/ status[r] = "deleted"
                    \/ project = "gone" /\ job = None
             PROVE  /\ chunk[r][s] = None
                    /\ object[r][s] = None \/ CleanedUpLater(r, s) \/ <<r, s>> \in stray
  BY DEF DeletedLeavesNothing
<1>1. status[r] \in {"deleted", "absent"}
  BY DEF RemoverInv, RowsRule
<1>2. chunk[r] = NoChunks
  BY <1>1 DEF RemoverInv, RowsRule
<1>3. Clean(r)
  BY DEF CleanInv, Settled
<1> QED
  BY <1>2, <1>3 DEF Clean, NoChunks

\* What the audit log calls a completed deletion, and a project whose deletion
\* is done, have left neither rows nor bytes, whatever crashed or failed on the
\* way; the exception is an upload that put its object after it had lost its
\* lock (deleteSession, runProjectDeletionJob, putChunk).
THEOREM DeletionLeavesNothing == Spec => []DeletedLeavesNothing
<1>1. Spec => []TypeInv
  BY TypeInit, TypeKept, PTL DEF Spec
<1>2. Spec => []LocksInv
  BY <1>1, LocksInit, LocksKept, PTL DEF Spec
<1>3. Spec => []RemoverInv
  BY <1>1, <1>2, RemoverInit, RemoverKept, PTL DEF Spec
<1>4. TypeInv /\ LocksInv /\ RemoverInv /\ CleanInv /\ [Next]_vars => CleanInv'
  BY CleanKept
<1>5. Spec => []CleanInv
  BY <1>1, <1>2, <1>3, <1>4, CleanInit, PTL DEF Spec
<1> QED
  BY <1>1, <1>3, <1>5, CleanIsDeleted, PTL

-----------------------------------------------------------------------------
(* Chunks and the uploads that created their objects.                      *)

Creator(u, r, s) == up[u] # Idle /\ up[u].created /\ up[u].replay = r /\ up[u].seq = s

\* An object has one creator, which is an upload or, once committed, the chunk.
Owned(r, s) ==
  /\ \A u \in Uploader : Creator(u, r, s) => object[r][s] = up[u].payload
  /\ \A t, u \in Uploader : Creator(t, r, s) /\ Creator(u, r, s) => t = u
  /\ chunk[r][s] # None /\ ~chunk[r][s].adopted =>
       /\ object[r][s] = chunk[r][s].payload
       /\ \A u \in Uploader : ~Creator(u, r, s)

\* A session that does not exist yet has no uploads.
Known == \A u \in Uploader :
  up[u] # Idle => status[up[u].replay] # "absent" \/ project = "gone"

CreatorInv ==
  /\ \A r \in Replay, s \in Sequence : status[r] \in Live => Owned(r, s)
  /\ Known

LEMMA KnownKept ==
  ASSUME TypeInv, LocksInv, RemoverInv, CreatorInv, Next
  PROVE  Known'
<1> USE DEF manifest, timers, jobs
<1>0. /\ up \in [Uploader -> Upload \cup {Idle}]
      /\ project \in {"live", "deleting", "gone"}
  BY DEF TypeInv, TypeOK
<1>1. Onward
  BY OnwardHolds DEF RemoverInv
<1>2. ASSUME NEW u \in Uploader, up'[u] # Idle, up[u] # Idle, up'[u].replay = up[u].replay
      PROVE  status'[up'[u].replay] # "absent" \/ project' = "gone"
  <2>1. up[u].replay \in Replay
    BY <1>0, <1>2 DEF Upload
  <2> QED
    BY <1>1, <1>2, <2>1 DEF CreatorInv, Known, Onward
<1>3. CASE UNCHANGED up
  BY <1>2, <1>3 DEF Known
<1>4. ASSUME NEW u \in Uploader,
             \/ UploadStep(u) \/ LoseUploadConnection(u) \/ AbandonUpload(u)
             \/ \E r \in Replay, s \in Sequence, p \in Payload : PutChunk(u, r, s, p)
      PROVE  Known'
  <2>1. \A t \in Uploader : t # u => up'[t] = up[t]
    BY <1>0, <1>4 DEF UploadStep, StoreObject, CommitChunk, RollBackUpload, UndoUpload,
                      LoseUploadConnection, AbandonUpload, PutChunk
  <2>2. up'[u] # Idle => status'[up'[u].replay] # "absent" \/ project' = "gone"
    <3>1. CASE \E r \in Replay, s \in Sequence, p \in Payload : PutChunk(u, r, s, p)
      <4>1. PICK r \in Replay, s \in Sequence, p \in Payload : PutChunk(u, r, s, p)
        BY <3>1
      <4>2. up'[u].replay = r /\ status'[r] # "absent"
        BY <1>0, <4>1 DEF PutChunk, UploadAllowed
      <4> QED
        BY <4>2
    <3>2. CASE StoreObject(u) \/ RollBackUpload(u) \/ LoseUploadConnection(u)
      <4>1. up[u] # Idle /\ up[u] \in Upload
        BY <1>0, <3>2 DEF StoreObject, RollBackUpload, LoseUploadConnection
      <4>2. up'[u] = Idle \/ up'[u].replay = up[u].replay
        BY <1>0, <3>2, <4>1 DEF StoreObject, RollBackUpload, LoseUploadConnection, Upload
      <4> QED
        BY <1>2, <4>1, <4>2
    <3>3. CASE CommitChunk(u) \/ UndoUpload(u) \/ AbandonUpload(u)
      <4>1. up'[u] = Idle
        BY <1>0, <3>3 DEF CommitChunk, UndoUpload, AbandonUpload
      <4> QED
        BY <4>1
    <3> QED
      BY <1>4, <3>1, <3>2, <3>3 DEF UploadStep
  <2> QED
    BY <1>2, <2>1, <2>2 DEF Known
<1>5. ASSUME NEW v \in Viewer,
             \/ ViewStep(v) \/ AbortRead(v) \/ LoseReadConnection(v)
             \/ \E r \in Replay : OpenRead(v, r)
      PROVE  UNCHANGED up
  BY <1>5 DEF ViewStep, LoadChunk, ServeRead, CloseRead, AbortRead, LoseReadConnection, OpenRead
<1>6. ASSUME NEW d \in Remover, RemoverStep(d) PROVE UNCHANGED up
  BY <1>6
  DEF RemoverStep, RequestDelete, SweepSession, DeleteStep, Tombstone, EraseObjects,
      Finalize, RecordFailure, EraseFails, FinalizeFails, JobStep, ReadJob,
      PurgeElsewhere, PurgeNext, SweepObjects, PurgeDone, DeleteProjectRow, RowDeleted,
      CloseJob, FailJob, Checkpoint, JobStepFails, CrashRemover, BeginProjectDeletion,
      SweepJob
<1>7. OtherStep => UNCHANGED up
  BY DEF OtherStep, CreateSession, Complete, Expire, ClaimEnds, BackoffEnds, JobTimer
<1> QED
  BY <1>3, <1>4, <1>5, <1>6, <1>7, NextGroups

\* What an upload does to the object of a session that stays open.
LEMMA UploadOwned ==
  ASSUME TypeInv, LocksInv, RemoverInv, CreatorInv, NEW u \in Uploader,
         \/ UploadStep(u) \/ LoseUploadConnection(u) \/ AbandonUpload(u)
         \/ \E r \in Replay, s \in Sequence, p \in Payload : PutChunk(u, r, s, p),
         NEW r \in Replay, NEW s \in Sequence, status'[r] \in Live
  PROVE  Owned(r, s)'
<1> USE DEF manifest, timers, jobs
<1>0. /\ up \in [Uploader -> Upload \cup {Idle}]
      /\ object \in [Replay -> [Sequence -> Payload \cup {None}]]
      /\ chunk  \in [Replay -> [Sequence -> Chunk \cup {None}]]
      /\ status \in [Replay -> {"absent", "recording", "playable", "incomplete", "deleting", "deleted"}]
      /\ None \notin Payload
      /\ up[u] # Idle => up[u] \in Upload
  BY ReplayAssumption DEF TypeInv, TypeOK
<1>1. \A t \in Uploader : t # u => up'[t] = up[t]
  BY <1>0 DEF UploadStep, StoreObject, CommitChunk, RollBackUpload, UndoUpload,
              LoseUploadConnection, AbandonUpload, PutChunk
<1>2. Owned(r, s)
  <2>1. CASE status'[r] = status[r]
    BY <2>1 DEF CreatorInv
  <2>2. CASE CommitChunk(u)
    <3>1. status[up[u].replay] \in {"recording", "incomplete"}
      BY <2>2 DEF CommitChunk, LocksInv, LockInv, Locked
    <3>2. status[r] \in Live
      BY <1>0, <2>2, <3>1 DEF CommitChunk, Live
    <3> QED
      BY <3>2 DEF CreatorInv
  <2>3. CASE ~CommitChunk(u)
    BY <2>1, <2>3
    DEF UploadStep, StoreObject, RollBackUpload, UndoUpload, LoseUploadConnection,
        AbandonUpload, PutChunk
  <2> QED
    BY <2>2, <2>3
<1>3. \A t \in Uploader : t # u => (Creator(t, r, s)' <=> Creator(t, r, s))
  BY <1>1 DEF Creator
\* Nothing happens to the object and the row, and nobody becomes their creator.
<1>4. ASSUME object'[r][s] = object[r][s], chunk'[r][s] = chunk[r][s],
             Creator(u, r, s)' => Creator(u, r, s) /\ up'[u].payload = up[u].payload
      PROVE  Owned(r, s)'
  <2>1. \A t \in Uploader : Creator(t, r, s)' => Creator(t, r, s) /\ up'[t].payload = up[t].payload
    BY <1>1, <1>3, <1>4
  <2>2. /\ \A t \in Uploader : Creator(t, r, s)' => object'[r][s] = up'[t].payload
        /\ \A q, t \in Uploader : Creator(q, r, s)' /\ Creator(t, r, s)' => q = t
        /\ chunk'[r][s] # None /\ ~chunk'[r][s].adopted =>
             /\ object'[r][s] = chunk'[r][s].payload
             /\ \A t \in Uploader : ~Creator(t, r, s)'
    BY <1>2, <1>4, <2>1 DEF Owned
  <2> QED
    BY <2>2 DEF Owned
<1>5. CASE \E q \in Replay, m \in Sequence, p \in Payload : PutChunk(u, q, m, p)
  <2>1. PICK q \in Replay, m \in Sequence, p \in Payload : PutChunk(u, q, m, p)
    BY <1>5
  <2>2. ~up'[u].created /\ object' = object /\ chunk' = chunk
    BY <1>0, <2>1 DEF PutChunk
  <2> QED
    BY <1>4, <2>2 DEF Creator
<1>6. CASE StoreObject(u)
  <2>1. up[u] \in Upload /\ up[u].pc = "storing" /\ ~up[u].created /\ chunk' = chunk
    BY <1>0, <1>6 DEF StoreObject, LocksInv, LockInv
  <2>2. CASE up' = [up EXCEPT ![u] = Idle] /\ object' = object
    BY <1>0, <1>4, <2>1, <2>2 DEF Creator
  <2>3. CASE up' = [up EXCEPT ![u].pc = "stored"] /\ object' = object
    <3>1. up'[u].created = up[u].created
      BY <1>0, <2>1, <2>3 DEF Upload
    <3> QED
      BY <1>4, <2>1, <2>3, <3>1 DEF Creator
  <2>4. CASE /\ object[up[u].replay][up[u].seq] = None
             /\ object' = [object EXCEPT ![up[u].replay][up[u].seq] = up[u].payload]
             /\ up' = [up EXCEPT ![u].pc = "stored", ![u].created = TRUE]
    <3>1. /\ up'[u].replay = up[u].replay /\ up'[u].seq = up[u].seq
          /\ up'[u].payload = up[u].payload
      BY <1>0, <2>1, <2>4 DEF Upload
    <3>2. CASE up[u].replay = r /\ up[u].seq = s
      <4>1. object[r][s] = None /\ object'[r][s] = up[u].payload
        BY <1>0, <2>4, <3>2
      <4>2. \A t \in Uploader : t # u => ~Creator(t, r, s)'
        <5>1. ASSUME NEW t \in Uploader, Creator(t, r, s) PROVE FALSE
          <6>1. up[t].payload \in Payload
            BY <1>0, <5>1 DEF Creator, Upload
          <6> QED
            BY <1>0, <1>2, <4>1, <5>1, <6>1 DEF Owned
        <5> QED
          BY <1>3, <5>1
      <4>3. chunk[r][s] = None \/ chunk[r][s].adopted
        <5>1. chunk[r][s] # None => chunk[r][s].payload \in Payload
          BY <1>0 DEF Chunk
        <5> QED
          BY <1>0, <1>2, <4>1, <5>1 DEF Owned
      <4>4. /\ \A t \in Uploader : Creator(t, r, s)' => object'[r][s] = up'[t].payload
            /\ \A q, t \in Uploader : Creator(q, r, s)' /\ Creator(t, r, s)' => q = t
        BY <3>1, <4>1, <4>2
      <4>5. chunk'[r][s] = None \/ chunk'[r][s].adopted
        BY <2>1, <4>3
      <4> QED
        BY <4>4, <4>5 DEF Owned
    <3>3. CASE ~(up[u].replay = r /\ up[u].seq = s)
      <4>1. object'[r][s] = object[r][s]
        BY <1>0, <2>1, <2>4, <3>3 DEF Upload
      <4> QED
        BY <1>4, <2>1, <3>1, <3>3, <4>1 DEF Creator
    <3> QED
      BY <3>2, <3>3
  <2> QED
    BY <1>6, <2>2, <2>3, <2>4 DEF StoreObject
<1>7. CASE CommitChunk(u)
  <2>1. /\ up[u] \in Upload /\ up[u] # Idle /\ up'[u] = Idle /\ object' = object
        /\ chunk' = [chunk EXCEPT ![up[u].replay][up[u].seq] =
                       [payload |-> up[u].payload, adopted |-> ~up[u].created]]
    BY <1>0, <1>7 DEF CommitChunk
  <2>2. CASE up[u].replay = r /\ up[u].seq = s
    <3>1. chunk'[r][s] = [payload |-> up[u].payload, adopted |-> ~up[u].created]
      BY <1>0, <2>1, <2>2
    <3>2. \A t \in Uploader : Creator(t, r, s)' => t # u /\ Creator(t, r, s) /\ up'[t] = up[t]
      BY <1>1, <2>1 DEF Creator
    <3>3. CASE up[u].created
      <4>1. Creator(u, r, s)
        BY <2>1, <2>2, <3>3 DEF Creator
      <4>2. \A t \in Uploader : ~Creator(t, r, s)'
        BY <1>2, <3>2, <4>1 DEF Owned
      <4>3. object'[r][s] = chunk'[r][s].payload
        BY <1>2, <2>1, <3>1, <4>1 DEF Owned
      <4> QED
        BY <4>2, <4>3 DEF Owned
    <3>4. CASE ~up[u].created
      <4>1. chunk'[r][s].adopted
        <5>1. up[u].created = FALSE
          BY <2>1, <3>4 DEF Upload
        <5>2. chunk'[r][s] = [payload |-> up[u].payload, adopted |-> TRUE]
          BY <3>1, <5>1
        <5> QED
          BY <5>2
      <4>2. /\ \A t \in Uploader : Creator(t, r, s)' => object'[r][s] = up'[t].payload
            /\ \A q, t \in Uploader : Creator(q, r, s)' /\ Creator(t, r, s)' => q = t
        BY <1>2, <2>1, <3>2 DEF Owned
      <4> QED
        BY <4>1, <4>2 DEF Owned
    <3> QED
      BY <3>3, <3>4
  <2>3. CASE ~(up[u].replay = r /\ up[u].seq = s)
    <3>1. chunk'[r][s] = chunk[r][s]
      BY <1>0, <2>1, <2>3 DEF Upload
    <3> QED
      BY <1>4, <2>1, <3>1 DEF Creator
  <2> QED
    BY <2>2, <2>3
<1>8. CASE LoseUploadConnection(u) \/ RollBackUpload(u)
  <2>1. up[u] \in Upload /\ up[u] # Idle /\ object' = object /\ chunk' = chunk
    BY <1>0, <1>8 DEF LoseUploadConnection, RollBackUpload
  <2>2. \/ up' = [up EXCEPT ![u].locked = FALSE]
        \/ up' = [up EXCEPT ![u].pc = "undoing", ![u].locked = FALSE]
    BY <1>8 DEF LoseUploadConnection, RollBackUpload
  <2>3. /\ up'[u].replay = up[u].replay /\ up'[u].seq = up[u].seq
        /\ up'[u].payload = up[u].payload /\ up'[u].created = up[u].created
    BY <1>0, <2>1, <2>2 DEF Upload
  <2> QED
    BY <1>4, <2>1, <2>3 DEF Creator
<1>9. CASE UndoUpload(u)
  <2>1. up[u] \in Upload /\ up[u] # Idle /\ up'[u] = Idle /\ chunk' = chunk
    BY <1>0, <1>9 DEF UndoUpload
  <2>2. CASE Creator(u, r, s)
    <3>1. \A t \in Uploader : ~Creator(t, r, s)'
      BY <1>2, <1>3, <2>1, <2>2 DEF Owned, Creator
    <3>2. chunk'[r][s] = None \/ chunk'[r][s].adopted
      BY <1>2, <2>1, <2>2 DEF Owned
    <3> QED
      BY <3>1, <3>2 DEF Owned
  <2>3. CASE ~Creator(u, r, s)
    <3>1. object'[r][s] = object[r][s]
      BY <1>0, <1>9, <2>1, <2>3 DEF UndoUpload, RemovesObject, Creator, Upload
    <3> QED
      BY <1>4, <2>1, <3>1 DEF Creator
  <2> QED
    BY <2>2, <2>3
<1>10. CASE AbandonUpload(u)
  BY <1>0, <1>4, <1>10 DEF AbandonUpload, Creator
<1> QED
  BY <1>5, <1>6, <1>7, <1>8, <1>9, <1>10 DEF UploadStep

\* A deletion changes rows and objects of sessions that are closed.
LEMMA RemoverOwned ==
  ASSUME TypeInv, RemoverInv, CreatorInv, Onward, NEW d \in Remover, RemoverStep(d),
         NEW r \in Replay, NEW s \in Sequence, status'[r] \in Live
  PROVE  status[r] \in Live /\ object'[r] = object[r] /\ chunk'[r] = chunk[r]
<1> USE DEF manifest, timers, jobs
<1>0. /\ object \in [Replay -> [Sequence -> Payload \cup {None}]]
      /\ chunk  \in [Replay -> [Sequence -> Chunk \cup {None}]]
      /\ status \in [Replay -> {"absent", "recording", "playable", "incomplete", "deleting", "deleted"}]
      /\ Deleting(d) => del[d].replay \in Replay
  BY DEF TypeInv, TypeOK, InHand
<1>1. DelOK(d) /\ RowsRule
  BY DEF RemoverInv, DelRule
<1>2. CASE Tombstone(d)
  <2>1. del[d].replay \in Replay /\ UNCHANGED <<object, chunk>>
    BY <1>0, <1>2 DEF Tombstone, At, Deleting
  <2> QED
    BY <1>0, <1>2, <2>1 DEF Tombstone, Live
<1>3. CASE EraseObjects(d) \/ EraseFails(d)
  <2>1. del[d].replay \in Replay /\ status[del[d].replay] \notin Live /\ UNCHANGED <<status, chunk>>
    BY <1>0, <1>1, <1>3 DEF EraseObjects, EraseFails, At, Deleting, DelOK
  <2> QED
    BY <1>0, <1>3, <2>1 DEF EraseObjects, EraseFails
<1>4. CASE Finalize(d)
  <2>1. del[d].replay \in Replay /\ status[del[d].replay] \notin Live /\ object' = object
    BY <1>0, <1>1, <1>4 DEF Finalize, At, Deleting, DelOK
  <2>2. r # del[d].replay
    BY <1>0, <1>4, <2>1 DEF Finalize, Live
  <2> QED
    BY <1>0, <1>4, <2>1, <2>2 DEF Finalize
<1>5. CASE SweepObjects(d)
  <2>1. status' = status /\ chunk' = chunk
    BY <1>5 DEF SweepObjects
  <2>2. Recorded = {} \/ project = "gone"
    BY <1>1, <1>5 DEF SweepObjects, At, DelOK
  <2>3. status[r] \notin Live
    BY <1>1, <2>2 DEF Recorded, RowsRule, Live
  <2> QED
    BY <2>1, <2>3
<1>6. CASE DeleteProjectRow(d)
  BY <1>6 DEF DeleteProjectRow, Live
<1>7. CASE UNCHANGED <<object, chunk, status>>
  BY <1>7
<1> QED
  BY <1>2, <1>3, <1>4, <1>5, <1>6, <1>7
  DEF RemoverStep, RequestDelete, SweepSession, DeleteStep, RecordFailure, FinalizeFails,
      JobStep, ReadJob, PurgeElsewhere, PurgeNext, PurgeDone, RowDeleted, CloseJob, FailJob,
      Checkpoint, JobStepFails, CrashRemover, BeginProjectDeletion, SweepJob

LEMMA CreatorKept ==
  ASSUME TypeInv, LocksInv, RemoverInv, CreatorInv, [Next]_vars
  PROVE  CreatorInv'
<1> USE DEF manifest, timers, jobs
<1>1. ASSUME NEW r \in Replay, NEW s \in Sequence, UNCHANGED up,
             Owned(r, s), object'[r] = object[r], chunk'[r] = chunk[r]
      PROVE  Owned(r, s)'
  BY <1>1 DEF Owned, Creator
<1>2. CASE UNCHANGED vars
  <2>1. UNCHANGED <<up, object, chunk, status, project>>
    BY <1>2 DEF vars
  <2>2. Known'
    BY <2>1 DEF CreatorInv, Known
  <2>3. ASSUME NEW r \in Replay, NEW s \in Sequence, status'[r] \in Live PROVE Owned(r, s)'
    BY <1>1, <2>1, <2>3 DEF CreatorInv
  <2> QED
    BY <2>2, <2>3 DEF CreatorInv
<1>3. CASE Next
  <2>1. SUFFICES ASSUME NEW r \in Replay, NEW s \in Sequence, status'[r] \in Live
                 PROVE  Owned(r, s)'
    BY <1>3, KnownKept DEF CreatorInv
  <2>2. Onward
    BY <1>3, OnwardHolds DEF RemoverInv
  <2>3. ASSUME NEW u \in Uploader,
               \/ UploadStep(u) \/ LoseUploadConnection(u) \/ AbandonUpload(u)
               \/ \E q \in Replay, m \in Sequence, p \in Payload : PutChunk(u, q, m, p)
        PROVE  Owned(r, s)'
    BY <2>1, <2>3, UploadOwned
  <2>4. ASSUME NEW v \in Viewer,
               \/ ViewStep(v) \/ AbortRead(v) \/ LoseReadConnection(v)
               \/ \E q \in Replay : OpenRead(v, q)
        PROVE  Owned(r, s)'
    <3>1. UNCHANGED <<up, object, chunk, status>>
      BY <2>4 DEF ViewStep, LoadChunk, ServeRead, CloseRead, AbortRead, LoseReadConnection,
                  OpenRead
    <3> QED
      BY <1>1, <2>1, <3>1 DEF CreatorInv
  <2>5. ASSUME NEW d \in Remover, RemoverStep(d) PROVE Owned(r, s)'
    <3>1. UNCHANGED up
      BY <2>5
      DEF RemoverStep, RequestDelete, SweepSession, DeleteStep, Tombstone, EraseObjects,
          Finalize, RecordFailure, EraseFails, FinalizeFails, JobStep, ReadJob,
          PurgeElsewhere, PurgeNext, SweepObjects, PurgeDone, DeleteProjectRow, RowDeleted,
          CloseJob, FailJob, Checkpoint, JobStepFails, CrashRemover, BeginProjectDeletion,
          SweepJob
    <3>2. status[r] \in Live /\ object'[r] = object[r] /\ chunk'[r] = chunk[r]
      BY <2>1, <2>2, <2>5, RemoverOwned
    <3> QED
      BY <1>1, <3>1, <3>2 DEF CreatorInv
  <2>6. ASSUME OtherStep PROVE Owned(r, s)'
    <3>1. UNCHANGED <<up, object, chunk, project>>
      BY <2>6 DEF OtherStep, CreateSession, Complete, Expire, ClaimEnds, BackoffEnds, JobTimer
    <3>2. CASE status[r] \in Live
      BY <1>1, <3>1, <3>2 DEF CreatorInv
    <3>3. CASE status[r] = "absent" /\ project # "gone"
      <4>1. chunk[r][s] = None
        BY <3>3 DEF RemoverInv, RowsRule, NoChunks
      <4>2. \A u \in Uploader : ~Creator(u, r, s)
        BY <3>3 DEF CreatorInv, Known, Creator
      <4>3. Owned(r, s)
        BY <4>1, <4>2 DEF Owned
      <4> QED
        BY <1>1, <3>1, <4>3
    <3> QED
      BY <2>1, <2>2, <3>2, <3>3 DEF Onward
  <2> QED
    BY <1>3, <2>3, <2>4, <2>5, <2>6, NextGroups
<1> QED
  BY <1>2, <1>3

LEMMA CreatorInit == Init => CreatorInv
BY DEF Init, CreatorInv, Known, Live

\* A chunk whose own request created its object keeps it, with the bytes it was
\* committed with, until its session is deleted: no cleanup of a failed upload
\* and no late put takes them away (putChunk, objectStore.put).
THEOREM ChunksKeepTheirObjects == Spec => []ChunkKeepsItsObject
<1>1. Spec => []TypeInv
  BY TypeInit, TypeKept, PTL DEF Spec
<1>2. Spec => []LocksInv
  BY <1>1, LocksInit, LocksKept, PTL DEF Spec
<1>3. Spec => []RemoverInv
  BY <1>1, <1>2, RemoverInit, RemoverKept, PTL DEF Spec
<1>4. TypeInv /\ LocksInv /\ RemoverInv /\ CreatorInv /\ [Next]_vars => CreatorInv'
  BY CreatorKept
<1>5. CreatorInv => ChunkKeepsItsObject
  BY DEF CreatorInv, Owned, ChunkKeepsItsObject, Live
<1> QED
  BY <1>1, <1>2, <1>3, <1>4, <1>5, CreatorInit, PTL DEF Spec
=============================================================================
