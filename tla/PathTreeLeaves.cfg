CONSTANTS
  Path <- TwoPaths
  Key = {"k", "l"}
  Value = {1, 2}
  Reuse = FALSE
  MaxTokens = 2
  MaxNodes = 3
  MaxLeaves = 3
  MaxLines = 5
SPECIFICATION Spec
INVARIANT NoLeafReturns
PROPERTY StoreSpec
