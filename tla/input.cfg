SPECIFICATION Spec
CONSTANTS
  Kinds <- HonestKinds
  Rules = {"last", "named"}
  Blanks = {1}
  LongLines = FALSE
  MaxWords = 2
  MaxLines = 2
  ConsoleLines = 1
  StringLines = 2
  MaxDepth = 3
  MaxCode = 1
INVARIANTS ErrorIsLocated
PROPERTIES ReadsInOrder PromptComesBack
