SPECIFICATION FairSpec
CONSTANTS
  MaxRequests = 2
  MaxCancels = 1
  MaxConnections = 2
CHECK_DEADLOCK FALSE
PROPERTY RequestAnswered
