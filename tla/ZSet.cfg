CONSTANTS
  Node <- MCAllNodes
  NULL = NULL
  Score = {1, 2}
  Queried <- MCFewNames
  Offsets <- MCOffsets
  Limits = {0, 1, 2, 5}
SPECIFICATION MCSpec
INVARIANTS TypeOK Linked Indexed Balanced PositionsExact QueryExact
PROPERTIES SortedSetSpec
VIEW Structure
