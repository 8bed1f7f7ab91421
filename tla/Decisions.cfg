\* The loop with leases that are outlived and overwritten, and one
\* schedule_observation; two overlapping action requests with one fault; two
\* requests on two experiments with one flag; or two requests on a metric and a
\* funnel.
SPECIFICATION SuiteSpec
CONSTANTS
  w1 = w1
  w2 = w2
  blocked = blocked
  ready = ready
  NoRelease = NoRelease
  NoEvidence = NoEvidence
  rollback = rollback
  webhook = webhook
  rolledBack = rolledBack
  rolledOut = rolledOut
  p1 = p1
  p2 = p2
  NoAction = NoAction
  copy = copy
  x1 = x1
  x2 = x2
  control = control
  test = test
  signups = signups
  orders = orders
  q1 = q1
  q2 = q2
  visits = visits
  buys = buys
  rate = rate
  Release = {r1}
  Worker <- MCWorker
  Caller = {c1}
  Evidence <- MCEvidence
  Ready <- MCReady
  Directional <- MCReady
  MaxAttempts = 2
  BatchSize = 1
  LeaseHolds = FALSE
  MaxCount = 2
  MaxFaults = 0
  MaxSchedules = 1
  Action <- MCAction
  FlagAction <- MCFlagAction
  Variants <- MCVariants
  Wanted <- MCWanted
  Current = rolledOut
  Client = {p1, p2}
  OutboxAttempts = 1
  MaxCalls = 2
  MaxStops = 1
  Flag = {copy}
  Experiment = {x1, x2}
  FlagOf <- MCFlagOf
  Variant = {control, test}
  Metric = {signups, orders}
  Request = {q1, q2}
  None = None
  MetricKey <- MCKey
  Definition <- MCDefinition
  EventBased <- MCEventBased
  Funnel = {activation}
  Call = {q1, q2}
  MaxRegistrations = 2
  MaxRevisions = 5
  Nothing = Nothing
CHECK_DEADLOCK FALSE
SYMMETRY Symmetry
INVARIANTS
  TypesOK
  VerdictsAreGrounded
  EffectsMatchStatus
  RunningFlagIsFrozen
PROPERTIES
  FinalStaysFinal
  DeliverySpec
  StartedIsSettled
  RegistryIsKept
