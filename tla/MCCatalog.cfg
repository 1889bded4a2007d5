CONSTANTS
  User = {ann, bob}
  Db = {d, e}
  Session = {s, t}
  MaxFd = 4
  None = None
SYMMETRY Symmetry
SPECIFICATION Spec
INVARIANTS TypeOK FileHasOwner OneOwner EmptyTreeIsHarmless
