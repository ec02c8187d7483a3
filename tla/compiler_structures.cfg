SPECIFICATION Spec
CONSTANTS
  WSIZE = 2
  Hole = Hole
  Words <- StructureWords
  Misuses = {"['] finds its name"}
  MaxWords = 6
  MaxCode = 30
  MaxOpen = 7
  MaxFrames = 1
INVARIANTS
  JumpsLand
  RightfulErrors
  NoLeftovers
PROPERTIES
  LoopsBalanced
CONSTRAINT MostlyNested
CHECK_DEADLOCK FALSE
