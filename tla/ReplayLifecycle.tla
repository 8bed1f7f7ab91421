--------------------------- MODULE ReplayLifecycle --------------------------
(***************************************************************************)
(* Session replays of one project (services/replay.ts): a manifest in      *)
(* PostgreSQL (replay_sessions, replay_chunks), the recorded bytes in an   *)
(* object store no transaction covers, readers that hold a shared lock     *)
(* while they serve, and a deletion in three steps (tombstone, physical    *)
(* erasure, finalization) that requests, the retention worker and the      *)
(* deletion of the whole project run, and run again after failures.        *)
(*                                                                         *)
(* A transaction that awaits the object store is several actions, its row  *)
(* lock held from one to the next; any other transaction is one action     *)
(* that waits for the locks in its way.                                    *)
(***************************************************************************)
EXTENDS Naturals, FiniteSets

CONSTANTS
  Replay,       \* recordings the project may come to have
  MaxSequence,  \* the last sequence a chunk may have
  Payload,      \* sanitized contents of a chunk
  Anchored,     \* those that begin with a full snapshot
  InOrder,      \* <<p, q>>: q does not start before p has ended
  Offered,      \* <<s, p>>: clients send p as chunk s
  Uploader,     \* PUT chunk requests being served
  Viewer,       \* playback requests being served
  Caller,       \* deletion requests being served
  Sweeper,      \* retention workers
  Idle, None,
  MaxFaults     \* bound: crashes, lost connections, failed operations

Sequence == 0 .. MaxSequence
Remover  == Caller \cup Sweeper
Phase    == {"artifacts", "events", "replays", "metadata", "objects"}

VARIABLES
  project,  \* "live", "deleting" (replay_deletion_pending) or "gone"
  status,   \* replay_sessions.status, "absent" without a row
  chunk,    \* chunk[r][s]: the replay_chunks row
  object,   \* object[r][s]: the bytes in the object store
  expired,  \* delete_after has passed
  held,     \* deletion_claimed_until is in the future
  backoff,  \* delete_retry_after is in the future
  audit,    \* audit[r]: deletions in replay_audit_log; views are left out
  job,      \* phase of the project deletion job, None without a row
  jobHeld, jobBackoff,  \* its claimed_until, its retry_after
  up, view, del,        \* what each request or worker is doing
  stray,    \* objects a request left behind after it lost its lock
  faults

manifest == <<status, chunk, audit>>
timers   == <<expired, held, backoff>>
jobs     == <<project, job, jobHeld, jobBackoff>>
vars     == <<manifest, object, timers, jobs, up, view, del, stray, faults>>

Upload  == [pc : {"storing", "stored", "undoing"}, replay : Replay,
            seq : Sequence, payload : Payload, locked : BOOLEAN, created : BOOLEAN]
View    == [pc : {"loading", "serving"}, replay : Replay,
            next : 0 .. MaxSequence + 1, lost : BOOLEAN]
Removal == [pc : Phase \cup {"claim", "erase", "finalize", "failed", "job", "swept",
                             "row gone", "closing", "job failed"},
            replay : Replay \cup {None}, job : BOOLEAN]
Chunk   == [payload : Payload, adopted : BOOLEAN]

ASSUME ReplayAssumption ==
  /\ MaxSequence \in Nat /\ MaxFaults \in Nat
  /\ Anchored \subseteq Payload /\ InOrder \subseteq Payload \X Payload
  /\ Offered \subseteq Sequence \X Payload
  /\ Caller \cap Sweeper = {}
  /\ None \notin Payload \cup Replay \cup Chunk \cup Phase
  /\ Idle \notin Upload \cup View \cup Removal

NoChunks == [s \in Sequence |-> None]

Init ==
  /\ project = "live"
  /\ status  = [r \in Replay |-> "absent"]
  /\ chunk   = [r \in Replay |-> NoChunks]
  /\ object  = [r \in Replay |-> NoChunks]
  /\ expired = [r \in Replay |-> FALSE]
  /\ held    = [r \in Replay |-> FALSE]
  /\ backoff = [r \in Replay |-> FALSE]
  /\ audit   = [r \in Replay |-> {}]
  /\ job = None /\ jobHeld = FALSE /\ jobBackoff = FALSE
  /\ up   = [u \in Uploader |-> Idle]
  /\ view = [v \in Viewer |-> Idle]
  /\ del  = [d \in Remover |-> Idle]
  /\ stray = {} /\ faults = 0

Fault == faults < MaxFaults /\ faults' = faults + 1

-----------------------------------------------------------------------------
(* Row locks: an upload holds its session for update and its project for   *)
(* share, a playback holds its session for share, until the transaction or *)
(* the connection ends.                                                    *)

BeingWritten(r) == \E u \in Uploader : up[u] # Idle /\ up[u].locked /\ up[u].replay = r
BeingRead(r)    == \E v \in Viewer : view[v] # Idle /\ ~view[v].lost /\ view[v].replay = r
WriterOnly(r)   == ~BeingWritten(r)
Unlocked(r)     == ~BeingWritten(r) /\ ~BeingRead(r)

ProjectUnshared == ~\E u \in Uploader : up[u] # Idle /\ up[u].locked

Writable == project = "live"

-----------------------------------------------------------------------------
(* Recording.                                                              *)

CreateSession(r) ==
  /\ Writable /\ status[r] = "absent"
  /\ status' = [status EXCEPT ![r] = "recording"]
  /\ UNCHANGED <<chunk, audit, object, timers, jobs, up, view, del, stray, faults>>

AnyStatus(r) == status[r] # "absent"
UploadAllowed(r) == status[r] \in {"recording", "incomplete"}

\* A sequence that has a row is answered as a duplicate or a conflict.
PutChunk(u, r, s, p) ==
  /\ up[u] = Idle
  /\ Writable /\ Unlocked(r) /\ UploadAllowed(r)
  /\ <<s, p>> \in Offered /\ chunk[r][s] = None
  /\ up' = [up EXCEPT ![u] = [pc |-> "storing", replay |-> r, seq |-> s,
                              payload |-> p, locked |-> TRUE, created |-> FALSE]]
  /\ UNCHANGED <<manifest, object, timers, jobs, view, del, stray, faults>>

\* put links the object unless it exists; equal bytes are adopted, others are a
\* conflict that ends the request.
StoreObject(u) ==
  /\ up[u] # Idle /\ up[u].pc = "storing"
  /\ LET r == up[u].replay
         s == up[u].seq
         p == up[u].payload
     IN \/ /\ object[r][s] = None
           /\ object' = [object EXCEPT ![r][s] = p]
           /\ up' = [up EXCEPT ![u].pc = "stored", ![u].created = TRUE]
        \/ /\ object[r][s] = p
           /\ up' = [up EXCEPT ![u].pc = "stored"]
           /\ UNCHANGED object
        \/ /\ object[r][s] \notin {None, p}
           /\ up' = [up EXCEPT ![u] = Idle]
           /\ UNCHANGED object
  /\ UNCHANGED <<manifest, timers, jobs, view, del, stray, faults>>

CommitChunk(u) ==
  /\ up[u] # Idle /\ up[u].pc = "stored" /\ up[u].locked
  /\ LET r == up[u].replay IN
     /\ chunk'  = [chunk EXCEPT ![r][up[u].seq] =
                     [payload |-> up[u].payload, adopted |-> ~up[u].created]]
     /\ status' = [status EXCEPT ![r] = "recording"]
  /\ up' = [up EXCEPT ![u] = Idle]
  /\ UNCHANGED <<audit, object, timers, jobs, view, del, stray, faults>>

\* What the process leaves in the store when it no longer holds the lock.
LeftBehind(u) ==
  IF up[u].created /\ ~up[u].locked THEN stray \cup {<<up[u].replay, up[u].seq>>} ELSE stray

\* The connection is gone while the object is being put: the server ends the
\* transaction, the request notices at its next statement.
LoseUploadConnection(u) ==
  /\ up[u] # Idle /\ up[u].pc = "storing" /\ up[u].locked
  /\ up' = [up EXCEPT ![u].locked = FALSE]
  /\ Fault
  /\ UNCHANGED <<manifest, object, timers, jobs, view, del, stray>>

\* The statement after the put fails, and the transaction is rolled back.
RollBackUpload(u) ==
  /\ up[u] # Idle /\ up[u].pc = "stored"
  /\ up' = [up EXCEPT ![u].pc = "undoing", ![u].locked = FALSE]
  /\ IF up[u].locked THEN Fault ELSE UNCHANGED faults
  /\ UNCHANGED <<manifest, object, timers, jobs, view, del, stray>>

AlwaysRemoves(u) == TRUE
RemovesObject(u) == up[u].created

\* The catch block removes the object, its row lock already released.
UndoUpload(u) ==
  /\ up[u] # Idle /\ up[u].pc = "undoing"
  /\ object' = IF RemovesObject(u)
               THEN [object EXCEPT ![up[u].replay][up[u].seq] = None] ELSE object
  /\ up' = [up EXCEPT ![u] = Idle]
  /\ UNCHANGED <<manifest, timers, jobs, view, del, stray, faults>>

\* The process stops, a put reports an error, COMMIT itself is rolled back, or
\* the removal fails: the object stays as it is.
AbandonUpload(u) ==
  /\ up[u] # Idle
  /\ up' = [up EXCEPT ![u] = Idle]
  /\ stray' = LeftBehind(u)
  /\ Fault
  /\ UNCHANGED <<manifest, object, timers, jobs, view, del>>

Rows(r) == {s \in Sequence : chunk[r][s] # None}

Playable(r, last) ==
  /\ Rows(r) = 0 .. last
  /\ chunk[r][0].payload \in Anchored
  /\ \A s \in 1 .. last : <<chunk[r][s - 1].payload, chunk[r][s].payload>> \in InOrder

Complete(r, last) ==
  /\ Writable /\ Unlocked(r)
  /\ status[r] \in {"recording", "incomplete", "playable"}
  /\ status' = [status EXCEPT ![r] = IF Playable(r, last) THEN "playable" ELSE "incomplete"]
  /\ UNCHANGED <<chunk, audit, object, timers, jobs, up, view, del, stray, faults>>

-----------------------------------------------------------------------------
(* Playback.                                                               *)

OpenRead(v, r) ==
  /\ view[v] = Idle
  /\ WriterOnly(r) /\ status[r] = "playable" /\ ~expired[r]
  /\ view' = [view EXCEPT ![v] = [pc |-> "loading", replay |-> r, next |-> 0, lost |-> FALSE]]
  /\ UNCHANGED <<manifest, object, timers, jobs, up, del, stray, faults>>

\* An object that is missing or not what the manifest says ends the request.
LoadChunk(v) ==
  /\ view[v] # Idle /\ view[v].pc = "loading"
  /\ LET r == view[v].replay
         s == view[v].next
     IN /\ s \in Rows(r)
        /\ view' = [view EXCEPT ![v] =
                      IF object[r][s] = chunk[r][s].payload THEN [@ EXCEPT !.next = s + 1]
                      ELSE Idle]
  /\ UNCHANGED <<manifest, object, timers, jobs, up, del, stray, faults>>

\* The view is audited in this transaction; without a connection that fails.
ServeRead(v) ==
  /\ view[v] # Idle /\ view[v].pc = "loading"
  /\ view[v].next \notin Rows(view[v].replay)
  /\ view' = [view EXCEPT ![v] = IF @.lost THEN Idle ELSE [@ EXCEPT !.pc = "serving"]]
  /\ UNCHANGED <<manifest, object, timers, jobs, up, del, stray, faults>>

\* The response is out and the lease is closed.
CloseRead(v) ==
  /\ view[v] # Idle /\ view[v].pc = "serving"
  /\ view' = [view EXCEPT ![v] = Idle]
  /\ UNCHANGED <<manifest, object, timers, jobs, up, del, stray, faults>>

\* The deadline, an aborted response, a storage error.
AbortRead(v) ==
  /\ view[v] # Idle
  /\ view' = [view EXCEPT ![v] = Idle]
  /\ UNCHANGED <<manifest, object, timers, jobs, up, del, stray, faults>>

LoseReadConnection(v) ==
  /\ view[v] # Idle /\ ~view[v].lost
  /\ view' = [view EXCEPT ![v].lost = TRUE]
  /\ Fault
  /\ UNCHANGED <<manifest, object, timers, jobs, up, del, stray>>

-----------------------------------------------------------------------------
(* deleteSession.                                                          *)

At(d, pc) == del[d] # Idle /\ del[d].pc = pc

Goto(d, pc) == del' = [del EXCEPT ![d] = [@ EXCEPT !.pc = pc]]

\* deleteSession returns to its caller.
Return(d) ==
  del' = [del EXCEPT ![d] = IF @.job THEN [pc |-> "replays", replay |-> None, job |-> TRUE]
                            ELSE Idle]

\* A withdrawal, a DELETE, a purge of an environment or of a person.
RequestDelete(d, r) ==
  /\ del[d] = Idle
  /\ status[r] # "absent"
  /\ del' = [del EXCEPT ![d] = [pc |-> "claim", replay |-> r, job |-> FALSE]]
  /\ UNCHANGED <<manifest, object, timers, jobs, up, view, stray, faults>>

Tombstone(d) ==
  /\ At(d, "claim")
  /\ LET r == del[d].replay IN
     \/ /\ status[r] \notin {"absent", "deleted"} /\ Unlocked(r)
        /\ status'  = [status EXCEPT ![r] = "deleting"]
        /\ expired' = [expired EXCEPT ![r] = TRUE]
        /\ held'    = [held EXCEPT ![r] = TRUE]
        /\ audit'   = [audit EXCEPT ![r] = @ \cup {"delete_requested"}]
        /\ Goto(d, "erase")
        /\ UNCHANGED <<chunk, backoff>>
     \/ /\ status[r] = "deleted" /\ Return(d)
        /\ UNCHANGED <<manifest, timers>>
     \/ /\ status[r] = "absent"     \* notFound, which a project deletion reports
        /\ IF del[d].job THEN Goto(d, "job failed") ELSE Return(d)
        /\ UNCHANGED <<manifest, timers>>
  /\ UNCHANGED <<object, jobs, up, view, stray, faults>>

ListedOnly(r) == [s \in Sequence |-> IF chunk[r][s] # None THEN None ELSE object[r][s]]
Erased(r) == NoChunks

EraseObjects(d) ==
  /\ At(d, "erase")
  /\ LET r == del[d].replay IN
     /\ object' = [object EXCEPT ![r] = Erased(r)]
     /\ stray'  = {k \in stray : k[1] # r}
  /\ Goto(d, "finalize")
  /\ UNCHANGED <<manifest, timers, jobs, up, view, faults>>

\* rm -r fails on its way.
EraseFails(d) ==
  /\ At(d, "erase")
  /\ \E kept \in SUBSET Sequence :
       object' = [object EXCEPT ![del[d].replay] =
                    [s \in Sequence |-> IF s \in kept THEN @[s] ELSE None]]
  /\ Goto(d, "failed") /\ Fault
  /\ UNCHANGED <<manifest, timers, jobs, up, view, stray>>

\* The row of a project that is gone is not there to be updated.
Finalize(d) ==
  /\ At(d, "finalize")
  /\ LET r == del[d].replay IN
     /\ Unlocked(r)
     /\ chunk'   = [chunk EXCEPT ![r] = NoChunks]
     /\ audit'   = [audit EXCEPT ![r] = @ \cup {"delete_completed"}]
     /\ IF status[r] = "deleting"
        THEN /\ status'  = [status EXCEPT ![r] = "deleted"]
             /\ held'    = [held EXCEPT ![r] = FALSE]
             /\ backoff' = [backoff EXCEPT ![r] = TRUE]
        ELSE UNCHANGED <<status, held, backoff>>
  /\ Return(d)
  /\ UNCHANGED <<object, expired, jobs, up, view, stray, faults>>

FinalizeFails(d) ==
  /\ At(d, "finalize")
  /\ Goto(d, "failed") /\ Fault
  /\ UNCHANGED <<manifest, object, timers, jobs, up, view, stray>>

\* The update does not look at the status.
RecordFailure(d) ==
  /\ At(d, "failed")
  /\ LET r == del[d].replay IN
     IF status[r] = "absent" THEN UNCHANGED timers
     ELSE /\ backoff' = [backoff EXCEPT ![r] = TRUE]
          /\ held'    = [held EXCEPT ![r] = FALSE]
          /\ UNCHANGED expired
  /\ IF del[d].job THEN Goto(d, "job failed") ELSE Return(d)
  /\ UNCHANGED <<manifest, object, jobs, up, view, stray, faults>>

ExpiredOnly(r) == status[r] # "deleting" /\ expired[r]
NeedsErasure(r) == status[r] = "deleting" \/ expired[r]

\* purgeExpiredReplays: rows that are locked are skipped.
SweepSession(d, r) ==
  /\ del[d] = Idle
  /\ status[r] \notin {"absent", "deleted"}
  /\ NeedsErasure(r) /\ ~backoff[r] /\ ~held[r] /\ Unlocked(r)
  /\ held' = [held EXCEPT ![r] = TRUE]
  /\ del'  = [del EXCEPT ![d] = [pc |-> "claim", replay |-> r, job |-> FALSE]]
  /\ UNCHANGED <<manifest, object, expired, backoff, jobs, up, view, stray, faults>>

-----------------------------------------------------------------------------
(* Deletion of the project.  What the phases "artifacts" and "events"      *)
(* remove is not part of this module.                                      *)

FollowingCompleted == [artifacts |-> "events", events |-> "replays",
                       replays |-> "metadata", metadata |-> "completed"]
Following == [artifacts |-> "events", events |-> "replays", replays |-> "metadata",
              metadata |-> "objects"]

Start(d) == del' = [del EXCEPT ![d] = [pc |-> "job", replay |-> None, job |-> TRUE]]

\* A second request for a project being deleted resumes the job at once.
BeginProjectDeletion(d) ==
  /\ del[d] = Idle
  /\ project # "gone" /\ ProjectUnshared
  /\ project' = "deleting"
  /\ job' = IF job = None THEN "artifacts" ELSE job
  /\ jobHeld' = TRUE /\ jobBackoff' = FALSE
  /\ Start(d)
  /\ UNCHANGED <<manifest, object, timers, up, view, stray, faults>>

SweepJob(d) ==
  /\ del[d] = Idle
  /\ job # None /\ ~jobHeld /\ ~jobBackoff
  /\ jobHeld' = TRUE
  /\ Start(d)
  /\ UNCHANGED <<manifest, object, timers, project, job, jobBackoff, up, view, stray, faults>>

ReadJob(d) ==
  /\ At(d, "job")
  /\ Goto(d, IF job = None THEN "job failed" ELSE job)
  /\ UNCHANGED <<manifest, object, timers, jobs, up, view, stray, faults>>

\* The phase is advanced unless another run has done so, and read again.
Checkpoint(d, phase) ==
  /\ job' = IF job = phase THEN Following[phase] ELSE job
  /\ Goto(d, IF job' = None THEN "job failed" ELSE job')
  /\ UNCHANGED <<manifest, object, timers, project, jobHeld, jobBackoff, up, view, stray, faults>>

PurgeElsewhere(d) ==
  \E phase \in {"artifacts", "events"} : At(d, phase) /\ Checkpoint(d, phase)

Recorded == {r \in Replay : status[r] \notin {"absent", "deleted"}}

PurgeNext(d) ==
  /\ At(d, "replays")
  /\ \E r \in Recorded :
       del' = [del EXCEPT ![d] = [pc |-> "claim", replay |-> r, job |-> TRUE]]
  /\ UNCHANGED <<manifest, object, timers, jobs, up, view, stray, faults>>

\* deleteProject removes everything below the prefix of the project.
SweepObjects(d) ==
  /\ \/ At(d, "replays") /\ Recorded = {} /\ Goto(d, "swept")
     \/ At(d, "objects") /\ Goto(d, "closing")
  /\ object' = [r \in Replay |-> NoChunks]
  /\ stray' = {}
  /\ UNCHANGED <<manifest, timers, jobs, up, view, faults>>

PurgeDone(d) == At(d, "swept") /\ Checkpoint(d, "replays")

\* The cascade takes sessions and chunks along.  A row that is gone already was
\* deleted by a run that did not reach its checkpoint, and is no error.
DeleteProjectRow(d) ==
  /\ At(d, "metadata")
  /\ ProjectUnshared /\ \A r \in Replay : Unlocked(r)
  /\ project' = "gone"
  /\ status' = [r \in Replay |-> "absent"]
  /\ chunk'  = [r \in Replay |-> NoChunks]
  /\ expired' = [r \in Replay |-> FALSE]
  /\ held'    = [r \in Replay |-> FALSE]
  /\ backoff' = [r \in Replay |-> FALSE]
  /\ Goto(d, "row gone")
  /\ UNCHANGED <<audit, object, job, jobHeld, jobBackoff, up, view, stray, faults>>

RowDeleted(d) == At(d, "row gone") /\ Checkpoint(d, "metadata")

CloseJob(d) ==
  /\ At(d, "closing")
  /\ job' = None /\ jobHeld' = FALSE /\ jobBackoff' = FALSE
  /\ del' = [del EXCEPT ![d] = Idle]
  /\ UNCHANGED <<manifest, object, timers, project, up, view, stray, faults>>

\* Any statement or removal of a phase fails; deleteSession reports its own.
JobStepFails(d) ==
  /\ del[d] # Idle /\ del[d].job
  /\ del[d].pc \notin {"erase", "finalize", "failed", "job failed"}
  /\ Goto(d, "job failed") /\ Fault
  /\ UNCHANGED <<manifest, object, timers, jobs, up, view, stray>>

FailJob(d) ==
  /\ At(d, "job failed")
  /\ IF job = None THEN UNCHANGED <<jobHeld, jobBackoff>>
     ELSE jobHeld' = FALSE /\ jobBackoff' = TRUE
  /\ del' = [del EXCEPT ![d] = Idle]
  /\ UNCHANGED <<manifest, object, timers, project, job, up, view, stray, faults>>

CrashRemover(d) ==
  /\ del[d] # Idle
  /\ del' = [del EXCEPT ![d] = Idle]
  /\ Fault
  /\ UNCHANGED <<manifest, object, timers, jobs, up, view, stray>>

-----------------------------------------------------------------------------
(* Time.                                                                   *)

Expire(r) ==
  /\ status[r] # "absent" /\ ~expired[r]
  /\ expired' = [expired EXCEPT ![r] = TRUE]
  /\ UNCHANGED <<manifest, object, held, backoff, jobs, up, view, del, stray, faults>>

ClaimEnds(r) ==
  /\ held[r]
  /\ held' = [held EXCEPT ![r] = FALSE]
  /\ UNCHANGED <<manifest, object, expired, backoff, jobs, up, view, del, stray, faults>>

\* Finalization sets the retry of a deleted session to infinity.
BackoffEnds(r) ==
  /\ backoff[r] /\ status[r] # "deleted"
  /\ backoff' = [backoff EXCEPT ![r] = FALSE]
  /\ UNCHANGED <<manifest, object, expired, held, jobs, up, view, del, stray, faults>>

\* A mutant: the claim of a run that died is never given up.
JobClaimStays ==
  /\ jobBackoff /\ jobBackoff' = FALSE
  /\ UNCHANGED <<manifest, object, timers, project, job, jobHeld, up, view, del, stray, faults>>

JobTimer ==
  /\ \/ jobHeld /\ jobHeld' = FALSE /\ UNCHANGED jobBackoff
     \/ jobBackoff /\ jobBackoff' = FALSE /\ UNCHANGED jobHeld
  /\ UNCHANGED <<manifest, object, timers, project, job, up, view, del, stray, faults>>

-----------------------------------------------------------------------------
UploadStep(u) == StoreObject(u) \/ CommitChunk(u) \/ RollBackUpload(u) \/ UndoUpload(u)
ViewStep(v)   == LoadChunk(v) \/ ServeRead(v) \/ CloseRead(v)
DeleteStep(d) == Tombstone(d) \/ EraseObjects(d) \/ Finalize(d) \/ RecordFailure(d)
JobStep(d) ==
  \/ ReadJob(d) \/ PurgeElsewhere(d) \/ PurgeNext(d) \/ SweepObjects(d) \/ PurgeDone(d)
  \/ DeleteProjectRow(d) \/ RowDeleted(d) \/ CloseJob(d) \/ FailJob(d)

Next ==
  \/ \E r \in Replay :
       \/ CreateSession(r) \/ Expire(r) \/ ClaimEnds(r) \/ BackoffEnds(r)
       \/ \E last \in Sequence : Complete(r, last)
       \/ \E u \in Uploader, s \in Sequence, p \in Payload : PutChunk(u, r, s, p)
       \/ \E v \in Viewer : OpenRead(v, r)
       \/ \E d \in Caller : RequestDelete(d, r)
       \/ \E d \in Sweeper : SweepSession(d, r)
  \/ \E u \in Uploader : UploadStep(u) \/ LoseUploadConnection(u) \/ AbandonUpload(u)
  \/ \E v \in Viewer : ViewStep(v) \/ AbortRead(v) \/ LoseReadConnection(v)
  \/ \E d \in Remover :
       \/ DeleteStep(d) \/ JobStep(d)
       \/ EraseFails(d) \/ FinalizeFails(d) \/ JobStepFails(d) \/ CrashRemover(d)
  \/ \E d \in Caller : BeginProjectDeletion(d)
  \/ \E d \in Sweeper : SweepJob(d)
  \/ JobTimer

Spec == Init /\ [][Next]_vars

\* Requests and workers go on, timers run out, and the retention worker comes
\* round. PostgreSQL queues who waits for a row lock, so a waiting deletion gets
\* it although playbacks come and go.
Fairness ==
  /\ \A u \in Uploader : WF_vars(UploadStep(u))
  /\ \A v \in Viewer : WF_vars(ViewStep(v))
  /\ \A d \in Remover : SF_vars(Tombstone(d)) /\ WF_vars(DeleteStep(d) \/ JobStep(d))
  /\ \A d \in Sweeper, r \in Replay : SF_vars(SweepSession(d, r))
  /\ \A d \in Sweeper : SF_vars(SweepJob(d))
  /\ \A r \in Replay : WF_vars(ClaimEnds(r) \/ BackoffEnds(r))
  /\ WF_vars(JobTimer)

FairSpec == Spec /\ Fairness

-----------------------------------------------------------------------------
\* Every variable keeps its type.
TypeOK ==
  /\ project \in {"live", "deleting", "gone"}
  /\ status \in [Replay -> {"absent", "recording", "playable", "incomplete", "deleting", "deleted"}]
  /\ chunk  \in [Replay -> [Sequence -> Chunk \cup {None}]]
  /\ object \in [Replay -> [Sequence -> Payload \cup {None}]]
  /\ expired \in [Replay -> BOOLEAN] /\ held \in [Replay -> BOOLEAN]
  /\ backoff \in [Replay -> BOOLEAN]
  /\ audit \in [Replay -> SUBSET {"delete_requested", "delete_completed"}]
  /\ job \in Phase \cup {None} /\ jobHeld \in BOOLEAN /\ jobBackoff \in BOOLEAN
  /\ up   \in [Uploader -> Upload \cup {Idle}]
  /\ view \in [Viewer -> View \cup {Idle}]
  /\ del  \in [Remover -> Removal \cup {Idle}]
  /\ stray \subseteq Replay \X Sequence /\ faults \in 0 .. MaxFaults

\* A request that lost its lock and has still to remove what it put.
CleanedUpLater(r, s) ==
  \E u \in Uploader :
    up[u] # Idle /\ up[u].replay = r /\ up[u].seq = s /\ up[u].created /\ ~up[u].locked

\* No playback is under way once the tombstone of its session is committed, so
\* a withdrawal that has returned is a barrier for readers; only a playback whose
\* connection broke while its response was being sent may end later.
NoPlaybackAfterTombstone ==
  \A v \in Viewer : view[v] # Idle /\ ~view[v].lost => status[view[v].replay] = "playable"

\* Once the audit log says that the deletion of a session is complete, or its
\* project's job is done, none of its rows and none of its bytes are left, those
\* of uploads that crashed included; the exception is an upload that put its
\* object after it had lost its lock.
DeletedLeavesNothing ==
  \A r \in Replay, s \in Sequence :
    \/ "delete_completed" \in audit[r] \/ status[r] = "deleted"
    \/ project = "gone" /\ job = None
    =>
      /\ chunk[r][s] = None
      /\ object[r][s] = None \/ CleanedUpLater(r, s) \/ <<r, s>> \in stray

\* A chunk whose own request created its object keeps it, with the bytes it was
\* committed with, until the session is deleted, whatever failed uploads of the
\* same sequence clean up or put late. (A chunk that adopted the object of a
\* failed upload may lose it to the late cleanup of that upload.)
ChunkKeepsItsObject ==
  \A r \in Replay, s \in Sequence :
    /\ status[r] \in {"recording", "incomplete", "playable"}
    /\ chunk[r][s] # None /\ ~chunk[r][s].adopted
    => object[r][s] = chunk[r][s].payload

\* Whatever crashes and fails, a tombstoned session is erased in the end.
TombstonesAreErased == \A r \in Replay : []<>(status[r] # "deleting")

\* A project whose deletion has begun is gone in the end, with its job and its
\* objects.
ProjectsAreErased == []<>(project = "live" \/ (project = "gone" /\ job = None))

\* Every deletion that was asked for comes to its end.
EveryDeletionEnds == TombstonesAreErased /\ ProjectsAreErased
=============================================================================
