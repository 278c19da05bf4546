SPECIFICATION FairSpec
CONSTANTS
  j1 = j1
  j2 = j2
  j3 = j3
  t1 = t1
  t2 = t2
  Tenants = {t1, t2}
  Jobs = {j1, j2}
  TenantOf <- TenantOf2
  Handled = {j1, j2}
  Workers = {w1}
  BatchLimit = 2
  TenantConcurrency = 2
  NoWorker = NoWorker
  NoJob = NoJob
  MaxCrashes = 0
  MaxRequeues = 0
  MaxRequeued = 0
PROPERTY ClaimedIsSettled
