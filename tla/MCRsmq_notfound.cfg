CONSTANTS
  p = p
  q = q
  r = r
  Nil = Nil
  Uids = {1}
  DefaultVT = 1
  DefaultMaxSize = 1
  Clients <- Callers
  Menu <- AdminMenu
  Lengths = {1}
  ReceiveVTs <- OwnVT
  HideVTs = {0}
  NewAttrs <- SomeChanges
  TicksPerMs = 1
  MsPerSecond = 1
  MaxDuration = 100
  MaxTime = 1
  MaxCalls = 4
  MaxFaults = 0
SPECIFICATION Spec
PROPERTY UnlistedQueueIsNotFound
CHECK_DEADLOCK FALSE
