SPECIFICATION ScheduledSpec
CONSTANTS
  c1 = c1
  c2 = c2
  q1 = q1
  Tenants = {t1, t2}
  PlatformTenant = t1
  Writers = {w1}
  Hash <- Digest
  NoHash = NoHash
  NoWriter = NoWriter
  MaxTransactions = 2
  MaxAppends = 2
  MaxClock = 1
  MaxStepsBack = 0
  Passes = {p1, p2}
  AnchorHash <- AnchorDigest
  NoPass = NoPass
  RecordsPerAnchor = 2
  TicksPerAnchor = 1
  MaxPasses = 2
  Connections = {c1, c2}
  Processes = {q1}
  ProcessOf <- Pools
  NoConnection = NoConnection
  NoProcess = NoProcess
SYMMETRY Symmetry
CHECK_DEADLOCK FALSE
INVARIANTS
  AnchorChainIntact
  AnchorsMatchChain
  AnchorCadence
