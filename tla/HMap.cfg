CONSTANTS
  Key <- MCKey
  Hash <- MCHash
  k_rehashing_work = 1
  InitSlots = 2
SPECIFICATION FairSpec
INVARIANTS TypeOK IInv CursorInBounds LoadFactor MissIsTrue KeysExact
PROPERTIES DictSpec CallsReturn
