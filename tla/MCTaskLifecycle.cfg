SPECIFICATION FairSpec
CONSTANTS
  Sessions = {s1, s2}
  NoSession = NoSession
  MaxReworkAttempts = 2
  MaxDecisions = 2
  MaxSetbacks = 1
INVARIANTS
  TaskTypeOK
  BudgetCounted
  ReworksAnswerFailures
PROPERTY
  TaskSettles
