SPECIFICATION FairSpec
CONSTANTS
  Sizes <- MCSizes
  MAX_WRITE_BUFFER_SIZE = 2
  Window = 3
CHECK_DEADLOCK FALSE
INVARIANTS FramesIntact DeliveredInOrder
PROPERTIES ImplementsChannel CacheDelivered
