CONSTANTS
  Session = {"s", "t"}
  Key = {"n", "l"}
  NodeKey = {"n"}
  Value = {1, 2}
SPECIFICATION FairSpec
INVARIANTS TypeOK AckedLeavesKept
PROPERTIES LineStoreSpec FileReturns
