SPECIFICATION FairSpec
CONSTANTS
  m1 = m1  m2 = m2  p1 = p1  p2 = p2
  Messages = {m1, m2}
  Packets = {p1, p2}
  NoPayload = NoPayload
  Length <- MCLength
  Dest <- MCDest
  TxSize = 3
  RxSize = 20
  PtrSize = 60
  MaxCalls = 5
  MaxArrivals = 3
  MaxFaults = 1
  BufferSize = 2
  Discipline <- MCRules
INVARIANTS RightHost SentWhole OkMeansSent ReceivedIntact MemoryHoldsWaiting
PROPERTY CallReturns
CHECK_DEADLOCK FALSE
