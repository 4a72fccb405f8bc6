CONSTANTS
  p = p
  q = q
  n = n
  Nil = Nil
  Uids = {1, 2}
  DefaultVT = 1
  DefaultMaxSize = 1
  Clients <- Alone
  Menu <- AloneMenu
  Peer = n
  HelloWorld = 1
  Lengths = {1}
  ReceiveVTs <- OwnVT
  HideVTs = {0}
  NewAttrs <- SomeChanges
  TicksPerMs = 1
  MsPerSecond = 1
  MaxDuration = 100
  MaxTime = 1
  MaxCalls = 0
  MaxFaults = 0
SPECIFICATION NSpec
INVARIANT SendErrorMeansQueueExists
CHECK_DEADLOCK FALSE
