SPECIFICATION Spec
CONSTANTS
  Points = {p1}
  Data = Data
  NoLink = NoLink
  Callbacks = {"signal", "traverse"}
  SignalOffset = 1
  MaxNest = 2
  MaxData = 2
  MaxReturn = 4
  MaxUnder = 0
CONSTRAINT Honest
INVARIANTS
  LinksKept
  LeavesWhenDone
  NoWildRun
  HandlerKeepsStack
CHECK_DEADLOCK FALSE
