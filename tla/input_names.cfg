SPECIFICATION Spec
CONSTANTS
  Kinds = {"word", "create"}
  Rules = {"last"}
  Blanks = {0, 1, 2, 3}
  LongLines = FALSE
  MaxWords = 4
  MaxLines = 2
  ConsoleLines = 2
  StringLines = 1
  MaxDepth = 1
  MaxCode = 1
PROPERTIES StaysInLine
CHECK_DEADLOCK FALSE
