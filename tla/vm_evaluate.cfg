SPECIFICATION FairSpec
CONSTANTS
  Points = {p1}
  Data = Data
  NoLink = NoLink
  Callbacks = {}
  SignalOffset = 1
  MaxNest = 2
  MaxData = 1
  MaxReturn = 3
  MaxUnder = 1
INVARIANTS
  TypeOK
  PromptIsClean
  ReturnPointersInStep
PROPERTIES
  ErrorsReachMain
  DriftOnlyOnDivision
  ErrorReachesPrompt
CHECK_DEADLOCK FALSE
