CONSTANTS
  p = p
  q = q
  r = r
  Nil = Nil
  Uids = {1}
  DefaultVT = 1
  DefaultMaxSize = 1
  Clients <- Callers
  Menu <- ReceiveMenu
  Lengths = {1}
  ReceiveVTs <- OwnVT
  HideVTs = {0}
  NewAttrs <- NoChanges
  TicksPerMs = 2
  MsPerSecond = 1
  MaxDuration = 100
  MaxTime = 3
  MaxCalls = 5
  MaxFaults = 0
SPECIFICATION Spec
INVARIANT ExclusiveLease
CHECK_DEADLOCK FALSE
