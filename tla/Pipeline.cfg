CONSTANTS
  Queries = 6
  End <- MCEnd
  k_max_msg = 16
  ReadMax = 8
  CapIn = 10
  CapOut = 15
SPECIFICATION FairSpec
INVARIANTS TypeOK NeverStuck
PROPERTIES Finishes
CHECK_DEADLOCK FALSE
