SPECIFICATION Spec
CONSTANTS
  a1 = a1
  a2 = a2
  t1 = t1
  t2 = t2
  Processes = {p1, p2}
  Tenants = {t1, t2}
  NoTenant = NoTenant
  MaxKeys = 3
  Artifact = {a1, a2}
  TenantOf <- OneEach
  Contents = {c1}
  NoArtifact = NoArtifact
  NoProcess = NoProcess
  MaxAppends = 3
  MaxErasures = 1
  MaxCrashes = 1
SYMMETRY ProcessSymmetry
CHECK_DEADLOCK FALSE
INVARIANTS
  ArtifactTypeOK
  VersionsStand
  KeysTellErasure
