CONSTANTS
  Path <- TwoPaths
  Key = {"k"}
  Value = {1, 2}
  Reuse = FALSE
  MaxTokens = 2
  MaxNodes = 4
  MaxLeaves = 3
  MaxLines = 5
SPECIFICATION FairSpec
PROPERTY ReplayOnlyReads
