SPECIFICATION ServerSpec
CONSTANTS
  PoolSize = 1
  MaxClients = 3
  MaxMessages = 2
  Servers = {s1, s2}
  Client = Client
  Unset = Unset
CHECK_DEADLOCK FALSE
INVARIANTS PoolKept CallbackOnOwnStream OnlyIdleClientsBreak ConflictSeen
PROPERTIES DialledServed ConflictResolved WaitingClientServed
