CONSTANTS
  p = p
  q = q
  r = r
  Nil = Nil
  Uids = {1}
  DefaultVT = 1
  DefaultMaxSize = 1
  Clients <- Callers
  Menu <- LeaseMenu
  Lengths = {1}
  ReceiveVTs <- OwnOrLongVT
  HideVTs = {0, 1}
  NewAttrs <- NoTimeout
  TicksPerMs = 2
  MsPerSecond = 1
  MaxDuration = 4
  MaxTime = 3
  MaxCalls = 5
  MaxFaults = 0
SPECIFICATION Spec
INVARIANT BriefOverlap
CHECK_DEADLOCK FALSE
