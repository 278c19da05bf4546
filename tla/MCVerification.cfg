SPECIFICATION VerifySpec
CONSTANTS
  Tenants = {t1}
  PlatformTenant = t1
  Writers = {w1}
  Hash <- Digest
  NoHash = NoHash
  NoWriter = NoWriter
  MaxTransactions = 3
  MaxAppends = 2
  MaxClock = 0
  MaxStepsBack = 0
  Passes = {p1}
  AnchorHash <- AnchorDigest
  NoPass = NoPass
  RecordsPerAnchor = 1
  TicksPerAnchor = 1
  MaxPasses = 2
  Verifiers = {v1}
  MaxLosses = 1
CHECK_DEADLOCK FALSE
INVARIANT NoFalseAnchorAlarm
PROPERTY AlarmMeansChange
