SPECIFICATION Spec
CONSTANTS
  agent = agent
  tool1 = tool1
  Definition = {agent, tool1}
  Tools = {tool1}
  Authors = {w1, w2}
  Someone = Someone
  FirstRows <- Published
  MaxAuthored = 3
  MaxAborts = 1
  Tasks = {k1}
  Sessions = {s1, s2}
  NoTask = NoTask
  NoSession = NoSession
  NoTool = NoTool
  Lifetime = 1
  MaxClock = 1
  MaxTasks = 2
  MaxRevocations = 2
SYMMETRY Symmetry
CHECK_DEADLOCK FALSE
INVARIANTS
  GrantTypeOK
  DefinitionsComplete
  TasksStand
  RevocationTold
