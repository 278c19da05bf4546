SPECIFICATION AuditSpec
CONSTANTS
  Tenants = {t1, t2}
  PlatformTenant = t1
  Writers = {w1, w2}
  Hash <- Digest
  NoHash = NoHash
  NoWriter = NoWriter
  MaxTransactions = 4
  MaxAppends = 2
  MaxClock = 2
  MaxStepsBack = 1
SYMMETRY WriterSymmetry
CHECK_DEADLOCK FALSE
INVARIANTS
  AuditTypeOK
  ChainsIntact
  LockedAppendNeverCollides
  AnomalyIffBackwards
PROPERTY
  ChainsOnlyGrow
