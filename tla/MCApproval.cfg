SPECIFICATION FairSpec
CONSTANTS
  producer = producer
  requester = requester
  reviewer = reviewer
  deputy = deputy
  Items = {i1}
  People = {producer, requester, reviewer, deputy}
  Producer <- MadeByProducer
  Requester <- AskedByRequester
  Persons = {a, b}
  Passes = {x}
  NoSession = NoSession
  Nobody = Nobody
  Sla = 1
  MaxClock = 2
  MaxSessions = 2
  MaxAborts = 1
INVARIANTS
  ApprovalTypeOK
  VerdictIsBacked
  TrailTellsState
PROPERTY LateItemIsResolved
