CONSTANTS
  g = g
  h = h
  a = a
  b = b
  NoMsg = NoMsg
  Uids = {1}
  Goroutines <- Handlers
  Quitters <- Callers
  MaxFaults = 3
SPECIFICATION WSpec
INVARIANTS WTypeOK OnlyHandledIsGone
PROPERTIES Handled OfferIsTaken
CHECK_DEADLOCK FALSE
