CONSTANTS
  Client = {"talks", "looks", "idles"}
  Script <- MCScript
  MaxRead = 4
  MaxFd = 3
  MaxChild = 2
SPECIFICATION FairSpec
INVARIANTS TypeOK CommandsAsSent
PROPERTIES AllServed ChildEnds
CHECK_DEADLOCK FALSE
