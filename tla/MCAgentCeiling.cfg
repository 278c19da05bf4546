SPECIFICATION Spec
CONSTANTS
  Runs = {r1, r2}
  Deciders = {d1, d2}
  NoSession = NoSession
  Tasks = {t1, t2}
  NoTask = NoTask
  Usages = {1}
  Raises = {1, 2}
  FirstCeilings = {0}
  WarnAtPercent = 50
  MaxTurns = 2
  MaxRuns = 1
  MaxDecisions = 3
  MaxAborts = 1
CHECK_DEADLOCK FALSE
PROPERTY CeilingNeverFalls
