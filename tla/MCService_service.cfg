CONSTANTS
  p = p
  q = q
  o = o
  Nil = Nil
  Uids = {1}
  DefaultVT = 1
  DefaultMaxSize = 1
  Clients <- Callers
  Menu <- ServiceMenu
  Readers = {o}
  Lengths = {1}
  ReceiveVTs <- OwnVT
  HideVTs = {0}
  NewAttrs <- SomeChanges
  TicksPerMs = 1
  MsPerSecond = 1
  MaxDuration = 100
  MaxTime = 1
  MaxCalls = 2
  MaxFaults = 1
  MaxReports = 2
SPECIFICATION SSpec
INVARIANTS ScriptsStay TotalsCounted
PROPERTIES TotalsNeverGoBack NoHiddenMissed
CHECK_DEADLOCK FALSE
