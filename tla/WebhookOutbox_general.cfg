\* Runs may outlive their lease, every fault may happen.
SPECIFICATION Spec
CONSTANTS
  test = test
  action = action
  site = site
  Worker = {w1, w2}
  NoDelivery = NoDelivery
  Delivery <- MCDelivery
  Test <- MCTest
  Destination <- MCDestination
  DestinationOf <- MCDestinationOf
  MaxAttempts = 3
  BatchSize = 1
  Lease = 1
  BaseRetry = 1
  MaxRetry = 1
  MaxLag = 1
  Faults = {"crash", "rollback", "lost_ack"}
SYMMETRY Symmetry
INVARIANTS
  TypeOK
  AttemptHasOneOwner
  RowTellsTheTruth
