SPECIFICATION Spec
CONSTANTS
  a1 = a1
  a2 = a2
  b1 = b1
  Calls = {a1, a2, b1}
  NoCall = NoCall
  Names <- MCNames
  NameOf <- MCNameOf
  Growth = 2
CHECK_DEADLOCK FALSE
INVARIANT EveryNodeDiscovered
