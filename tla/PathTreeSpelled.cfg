CONSTANTS
  Path <- SpelledPaths
  Key = {}
  Value = {}
  Reuse = FALSE
  MaxTokens = 2
  MaxNodes = 5
  MaxLeaves = 0
  MaxLines = 5
SPECIFICATION Spec
INVARIANTS OneNodePerPath IndexSound
PROPERTIES StoreSpec CommandsAgree
