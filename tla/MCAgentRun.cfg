SPECIFICATION FairSpec
CONSTANTS
  Runs = {r1, r2}
  Deciders = {d1, d2}
  NoSession = NoSession
  Tasks = {t1, t2}
  NoTask = NoTask
  Usages = {1}
  Raises = {2}
  FirstCeilings = {0, 2}
  WarnAtPercent = 50
  MaxTurns = 2
  MaxRuns = 3
  MaxDecisions = 2
  MaxAborts = 1
CHECK_DEADLOCK FALSE
INVARIANTS
  AgentTypeOK
  OneCallPastCeiling
  CeilingIsTold
PROPERTIES
  AskedIsOnRecord
  ActionsOnlyGrow
  RunsEnd
