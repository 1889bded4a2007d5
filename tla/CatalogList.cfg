CONSTANTS
  User = {ann, bob}
  Db = {d, e}
  Session = {s, t}
  MaxFd = 3
  None = None
SPECIFICATION Spec
INVARIANT ListedIsThere
