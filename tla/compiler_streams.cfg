SPECIFICATION Spec
CONSTANTS
  WSIZE = 2
  Hole = Hole
  Words <- StreamWords
  Misuses = {}
  MaxWords = 4
  MaxCode = 3
  MaxOpen = 2
  MaxFrames = 3
INVARIANTS
  TypeOK
  OpsInStep
  StateFollowsSource
PROPERTIES
  NothingLost
CONSTRAINT LiteralsAlone
CHECK_DEADLOCK FALSE
