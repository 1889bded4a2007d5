CONSTANTS
  Path <- NodePaths
  Key = {}
  Value = {}
  Reuse = TRUE
  MaxTokens = 2
  MaxNodes = 4
  MaxLeaves = 0
  MaxLines = 5
SPECIFICATION Spec
INVARIANT LinksLive
