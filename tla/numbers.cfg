SPECIFICATION Spec
CONSTANTS
  W = 4
  Bases = {3, 10}
  MaxDigits = 6
INVARIANTS DivisionsExact ProductsExact LoopEndsAtLimit ConversionExact PrintedIsRead
CHECK_DEADLOCK FALSE
