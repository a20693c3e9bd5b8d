CONSTANTS
  N = 3
  MaxBlocks = 6
  Slots <- ShortSlots
  BitSets <- QuorumOrOne
SPECIFICATION Spec
INVARIANTS CacheInSync
CHECK_DEADLOCK FALSE
