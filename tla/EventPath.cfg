\* Two calls and two changes of the entitlement across a month boundary; or two events
\* of two actors, two corrections, a purge and the retention worker.
SPECIFICATION PathSpec
CONSTANTS
  ingest = ingest
  invalid = invalid
  backfill = backfill
  r1 = r1
  r2 = r2
  c1 = c1
  c2 = c2
  e1 = e1
  e2 = e2
  ann = ann
  bob = bob
  v1 = v1
  v2 = v2
  Call = {r1, r2}
  Change = {c1, c2}
  Batch <- MCBatch
  Backfills <- MCBackfills
  Legacy = {ingest}
  Size <- MCSize
  Payload = {p1, p2}
  Settings <- MCSettings
  NoLimit = NoLimit
  NoClaim = NoClaim
  MaxQuantity = 4
  MaxMonth = 2
  MaxFaults = 2
  Event = {e1, e2}
  Actor = {ann, bob}
  Everyone = Everyone
  EventMonth = {1, 2}
  Policy = {1, 2}
  Now = 3
  Editor = {v1, v2}
  PurgeBatch = 1
  SweepBatch = 1
  MaxPurges = 1
  None = None
SYMMETRY Symmetry
INVARIANTS
  TypesOK
  UsageMatchesLedger
  LimitHolds
  BatchesAreStored
  ConfigurationHolds
  HistoryIsSound
PROPERTY
  StoredEventsAreKept
