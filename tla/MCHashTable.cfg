CONSTANTS
  k1 = k1  k2 = k2  k3 = k3  k4 = k4  v1 = v1  v2 = v2
  Key <- MCKey
  Value <- MCValue
  NULL = NULL
  Sum <- MCSum
  InitialCapacity = 2
  MaxCapacity = 4
SPECIFICATION Spec
INVARIANTS TypeOK Placed KeysUnique LookupAnswers
PROPERTIES DictSpec OperationsAgree
