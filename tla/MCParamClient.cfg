SPECIFICATION FairSpec
CONSTANTS
  a1 = a1
  a2 = a2
  c1 = c1
  c2 = c2
  Peers = {a1, a2}
  Names <- MCNames
  NameOf <- MCNameOf
  NoPeer = NoPeer
  Callbacks = {c1, c2}
  NoCallback = NoCallback
  MaxStores = 2
CONSTRAINT Bound
CHECK_DEADLOCK FALSE
INVARIANTS LastCallbackInstalled
PROPERTIES AnswersNeverGoBack WrittenReachesCallback DeadClientJoined
