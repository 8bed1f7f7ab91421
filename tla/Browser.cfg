\* Two uploads, a playback, a deletion request and a retention worker; or a client
\* whose requests fail or are lost.
SPECIFICATION BrowserSpec
CONSTANTS
  p1 = p1
  p2 = p2
  interval = interval
  hidden = hidden
  Replay = {r1}
  MaxSequence = 1
  Payload <- MCPayload
  Anchored <- MCAnchored
  InOrder <- MCInOrder
  Offered <- MCOffered
  Uploader = {u1, u2}
  Viewer = {v1}
  Caller = {c1}
  Sweeper = {w1}
  Idle = Idle
  None = None
  MaxFaults = 1
  Events = 3
  Entities = 1
  Drain = {interval, hidden}
  Timer = interval
  MaxBatch = 2
  KeepaliveBatch = 1
  MaxQueue = 2
  MaxRetryBatches = 1
  MaxTries = 2
CHECK_DEADLOCK FALSE
INVARIANTS
  TypeOK
  NoPlaybackAfterTombstone
  DeletedLeavesNothing
  ChunkKeepsItsObject
  
PROPERTIES
  EveryDeletionEnds
