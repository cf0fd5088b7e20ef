CONSTANTS
  c1 = c1
  c2 = c2
  NaN = NaN
  Client = {c1, c2}
  Lines <- MCLines
  Exit <- MCExit
  Verb <- MCVerb
  Double <- MCDouble
  Integer <- MCInteger
  DblBytes <- MCDblBytes
  Stores <- MCStores
  k_max_args = 12
  ClientMax = 46
  ServerMax = 60
  MaxTyped = 3
SYMMETRY Alike
SPECIFICATION Spec
INVARIANTS TypeOK InStep RepliesReadBack RequestsReadBack NoWaitInVain
CHECK_DEADLOCK FALSE
