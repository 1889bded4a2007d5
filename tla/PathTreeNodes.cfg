CONSTANTS
  Path <- NodePaths
  Key = {}
  Value = {}
  Reuse = FALSE
  MaxTokens = 2
  MaxNodes = 5
  MaxLeaves = 0
  MaxLines = 5
SPECIFICATION FairSpec
INVARIANTS TypeOK TreeShape UplinkNotMisled OneNodePerPath IndexSound
PROPERTIES StoreSpec CommandsAgree LoadEnds
