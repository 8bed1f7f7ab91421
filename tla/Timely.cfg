\* Every run ends within its lease; crashes and rollbacks may happen.
SPECIFICATION TimelySpec
CONSTANTS
  test = test
  action = action
  site = site
  Worker = {w1, w2}
  NoDelivery = NoDelivery
  Delivery <- MCDelivery
  Test <- MCTest
  Destination <- MCDestination
  DestinationOf <- MCDestinationOf
  MaxAttempts = 3
  BatchSize = 2
  Lease = 2
  BaseRetry = 1
  MaxRetry = 2
  MaxLag = 1
  Faults = {"crash", "rollback"}
  r1 = r1
  c1 = c1
  blocked = blocked
  ready = ready
  NoRelease = NoRelease
  NoEvidence = NoEvidence
CHECK_DEADLOCK FALSE
INVARIANTS
  OneHolder
PROPERTIES
  ContractSpec
  SettledOrLastAttemptLost
  JudgedOnce
  JudgedForGood
