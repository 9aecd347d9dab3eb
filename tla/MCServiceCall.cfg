SPECIFICATION FairSpec
CONSTANTS
  MaxRequests = 3
  MaxCancels = 1
  MaxConnections = 2
CHECK_DEADLOCK FALSE
INVARIANTS OneCallAtATime RepliesMatch
PROPERTIES AcceptedCompleted CloseReported
