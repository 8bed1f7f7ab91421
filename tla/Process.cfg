\* One API process: rate limiter, query cache, event buffer or retention worker.
SPECIFICATION ProcessSpec
CONSTANTS
  k1 = k1
  k2 = k2
  k3 = k3
  p1 = p1
  p2 = p2
  acme = acme
  zen = zen
  trend = trend
  funnel = funnel
  shop = shop
  c1 = c1
  c2 = c2
  a1 = a1
  a2 = a2
  a3 = a3
  i1 = i1
  empty = empty
  large = large
  busy = busy
  calm = calm
  quiet = quiet
  KeyId = {k1, k2, k3}
  ProjectId = {p1, p2}
  Tenant = {acme, zen}
  TenantOf <- MCTenantOf
  Pair <- MCPair
  Cost = {1, 2}
  Burst <- MCBurst
  Rate <- MCRate
  MaxEntries = 2
  MaxEntriesPerTenant = 2
  IdleTtl = 1
  Key = {trend, funnel}
  Project = {shop}
  ProjectOf <- MCProjectOf
  Reader = {c1, c2}
  MaxCached = 1
  MaxLoads = 3
  MaxWrites = 1
  Plain = {a1, a2, a3}
  Idempotent = {i1, empty, large}
  EventsOf <- MCEventsOf
  MaxEvents = 3
  MaxPendingEvents = 6
  MaxConcurrent = 1
CHECK_DEADLOCK FALSE
INVARIANTS
  TypesOK
  MemoryIsBounded
  CacheIsSound
  BufferIsSound
PROPERTIES
  LimitsAsPromised
  NobodyStarves
