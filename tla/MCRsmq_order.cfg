CONSTANTS
  p = p
  q = q
  r = r
  Nil = Nil
  Uids = {1, 2}
  DefaultVT = 1
  DefaultMaxSize = 1
  Clients <- Callers
  Menu <- OrderMenu
  Lengths = {1}
  ReceiveVTs <- OwnVT
  HideVTs = {0}
  NewAttrs <- NoChanges
  TicksPerMs = 1
  MsPerSecond = 1
  MaxDuration = 100
  MaxTime = 2
  MaxCalls = 6
  MaxFaults = 0
SPECIFICATION Spec
INVARIANTS QueueStays SentNotLost
PROPERTY FirstInFirstOut
CHECK_DEADLOCK FALSE
