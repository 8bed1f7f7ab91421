\* A funnel is defined while its metric is deleted.
SPECIFICATION RegistrySpec
CONSTANTS
  signups = signups
  visits = visits
  orders = orders
  rate = rate
  activation = activation
  MetricKey <- MCMetric
  Definition <- MCDefinition
  EventBased <- MCEventBased
  Funnel = {activation}
  Call = {q1, q2}
  MaxRegistrations = 1
  MaxRevisions = 4
  Nothing = Nothing
CHECK_DEADLOCK FALSE
INVARIANT
  StepsResolve
