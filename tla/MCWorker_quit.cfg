CONSTANTS
  g = g
  h = h
  a = a
  b = b
  NoMsg = NoMsg
  Uids = {1}
  Goroutines <- Handlers
  Quitters <- Callers
  MaxFaults = 0
SPECIFICATION WSpec
PROPERTY QuitStopsStart
CHECK_DEADLOCK FALSE
