SPECIFICATION FairSpec
CONSTANTS
  a1 = a1
  a2 = a2
  Peers = {a1, a2}
  Names <- MCNames
  NameOf <- MCNameOf
  NoPeer = NoPeer
  MaxSubscribes = 2
CONSTRAINT Bound
CHECK_DEADLOCK FALSE
INVARIANTS EveryPeerAsked ClubMatchesRegistrar
PROPERTIES AdvertiseConnects DeadPeerJoined
