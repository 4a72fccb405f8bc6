CONSTANTS
  p = p
  q = q
  n = n
  Nil = Nil
  Uids = {1, 2}
  DefaultVT = 1
  DefaultMaxSize = 1
  Clients <- Beside
  Menu <- BesideMenu
  Peer = n
  HelloWorld = 1
  Lengths = {1}
  ReceiveVTs <- OwnVT
  HideVTs = {0}
  NewAttrs <- SomeChanges
  TicksPerMs = 1
  MsPerSecond = 1
  MaxDuration = 100
  MaxTime = 1
  MaxCalls = 2
  MaxFaults = 0
SPECIFICATION NSpec
INVARIANTS NInv OrderInv FoundInv CallsInOrder ReadsInOrder QueueStays
PROPERTIES KeepsPromise EachAnsweredOnce
CHECK_DEADLOCK FALSE
