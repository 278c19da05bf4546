SPECIFICATION Spec
CONSTANTS
  j1 = j1
  j2 = j2
  j3 = j3
  t1 = t1
  t2 = t2
  Tenants = {t1, t2}
  Jobs = {j1, j2, j3}
  TenantOf <- OneTenant3
  Handled = {j1, j3}
  Workers = {w1, w2}
  BatchLimit = 2
  TenantConcurrency = 1
  NoWorker = NoWorker
  NoJob = NoJob
  MaxCrashes = 1
  MaxRequeues = 1
  MaxRequeued = 1
SYMMETRY WorkerSymmetry
INVARIANTS
  TypeOK
  EffectMatchesLedger
  DoneOnlyIfRun
  OverrunBounded
PROPERTY EachEffectAtMostOnce
