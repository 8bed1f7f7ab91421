\* Timely runs, and a process may crash between an attempt and its record.
SPECIFICATION FairSpec
CONSTANTS
  test = test
  action = action
  site = site
  Worker = {w1, w2}
  NoDelivery = NoDelivery
  Delivery <- MCDelivery
  Test <- MCTest
  Destination <- MCDestination
  DestinationOf <- MCDestinationOf
  MaxAttempts = 2
  BatchSize = 2
  Lease = 2
  BaseRetry = 1
  MaxRetry = 2
  MaxLag = 1
  Faults = {"crash"}
PROPERTY
  EverySettled
