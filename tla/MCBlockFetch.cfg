SPECIFICATION FairSpec
CONSTANTS
  Roots <- Eight
  Parent <- TreeParents
  Slot <- TreeSlots
  Finalizes <- TreeFinalizes
  Mentions <- TreeMentions
  Own = {4}
  Invalid = {6}
  MaxSlot = 4
  MaxPeers = 1
  MaxRequests = 2
  MAX_CACHED_BLOCKS = 3
  MAX_BLOCK_FETCH_DEPTH = 1
  MAX_FUTURE_SLOT_TOLERANCE = 1
INVARIANTS
  LimitsRespected
  ChildIndexMatches
  PendingIsRequested
  CacheAfterFinalized
PROPERTIES
  FinalizedBranchKept
  ReadyBlocksLeave
