CONSTANTS
  p = p
  q = q
  r = r
  Nil = Nil
  Uids = {1}
  DefaultVT = 1
  DefaultMaxSize = 1
  Clients <- Callers
  Menu <- FaultMenu
  Lengths = {1}
  ReceiveVTs <- OwnVT
  HideVTs = {0}
  NewAttrs <- NoChanges
  TicksPerMs = 1
  MsPerSecond = 1
  MaxDuration = 100
  MaxTime = 2
  MaxCalls = 4
  MaxFaults = 2
SPECIFICATION Spec
INVARIANTS IInv SentNotLost ReceiptsCounted
PROPERTIES GoneStaysGone KeepsPromise
CHECK_DEADLOCK FALSE
