SPECIFICATION Spec
CONSTANTS
  MaxText = 6
  MaxNeedle = 2
  MaxToken = 5
INVARIANTS StringWordsExact FieldsSplit FloatsRead
CHECK_DEADLOCK FALSE
