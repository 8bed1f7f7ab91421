\* No fault, one monitor; one schedule_observation action is executed.
SPECIFICATION FairSpec
CONSTANTS
  blocked = blocked
  ready = ready
  Release = {r1}
  Worker = {w1}
  Caller = {c1}
  NoRelease = NoRelease
  NoEvidence = NoEvidence
  Evidence <- MCEvidence
  Ready <- MCReady
  Directional <- MCReady
  MaxAttempts = 2
  BatchSize = 1
  LeaseHolds = TRUE
  MaxCount = 5
  MaxFaults = 0
  MaxSchedules = 1
CHECK_DEADLOCK FALSE
PROPERTY
  ScheduledObservationIsAttempted
