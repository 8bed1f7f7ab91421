\* Two processes that evaluate, or deliver notifications.
SPECIFICATION EitherSpec
CONSTANTS
  Worker = {w1, w2}
  NoRun = NoRun
  MaxAttempts = 2
  BatchSize = 1
  MaxVersion = 2
  MaxWindow = 2
  MaxSpan = 3
  MaxUpsets = 1
  Notifier = {w1, w2}
  MaxDeliveryAttempts = 2
  DeliveryBatch = 2
  MaxTroubles = 1
  Delivery = {old, fresh}
  Destination = {team, partner}
  Extension = {partner}
  DestinationOf <- MCDestinationOf
  old = old
  fresh = fresh
  team = team
  partner = partner
CHECK_DEADLOCK FALSE
INVARIANTS
  TypesOK
  ResultsAreSound
  CooldownHoldsPerProcess
  DeliveriesAreSound
PROPERTY
  QueuesAreWorkedOff
