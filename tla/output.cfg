SPECIFICATION Spec
CONSTANTS
  Names = {f, g}
  Console = Console
  MaxItems = 5
  MaxOpens = 4
INVARIANTS OutputKept
CHECK_DEADLOCK FALSE
