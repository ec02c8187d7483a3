SPECIFICATION Spec
CONSTANTS
  Signals = {sigalrm}
  Words = {w}
  NoXt = NoXt
  MaxKeys = 2
  MaxSignals = 2
  MaxOps = 2
  MaxRoom = 1
INVARIANTS TerminalRestored KeysInOrder AcceptedIsEdited TableMatchesSignals
PROPERTIES KeyQueryReturns
CHECK_DEADLOCK FALSE
