SPECIFICATION Spec
CONSTANTS
  Points = {p1}
  Data = Data
  NoLink = NoLink
  Callbacks = {}
  SignalOffset = 1
  MaxNest = 1
  MaxData = 2
  MaxReturn = 1
  MaxUnder = 0
INVARIANTS
  DataPointersInStep
CHECK_DEADLOCK FALSE
