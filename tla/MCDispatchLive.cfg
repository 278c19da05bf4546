SPECIFICATION FairSpec
CONSTANTS
  j1 = j1
  j2 = j2
  j3 = j3
  t1 = t1
  t2 = t2
  Tenants = {t1, t2}
  Jobs = {j1, j2, j3}
  TenantOf <- TenantOf3
  Handled = {j1, j3}
  Workers = {w1, w2}
  BatchLimit = 2
  TenantConcurrency = 2
  NoWorker = NoWorker
  NoJob = NoJob
  MaxCrashes = 1
  MaxRequeues = 0
  MaxRequeued = 0
INVARIANTS
  ExclusiveClaim
  FailedLeftNoEffect
PROPERTIES
  SettledIsFinal
  EnqueuedIsSettled
