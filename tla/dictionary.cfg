SPECIFICATION Spec
CONSTANTS
  a = a
  b = b
  Names = {a, b}
  Commands = {"ALSO", "ONLY", "PREVIOUS", "FORTH", "ASSEMBLER", "DEFINITIONS", "SET-ORDER", "SET-CURRENT", "WORDLIST", ":", "VARIABLE", "VOCABULARY", "ALIAS", "IMMEDIATE", "NONDEFERRED", "DOES>", "POSTPONE", "FORGET", "COLD"}
  Misuses = {}
  MaxWords = 3
  MaxWids = 4
  MaxOrder = 4
  MaxCode = 2
  MaxLine = 1
INVARIANTS
  RootStays
  OwnListRefsLive
  LineChangesNothing
  MarksHit
  OnePlace
CONSTRAINT Small
SYMMETRY NameSymmetry
CHECK_DEADLOCK FALSE
