CONSTANTS
  N = 3
  MaxBlocks = 5
  Slots <- GapSlots
  BitSets <- QuorumOrOne
SPECIFICATION DbSpec
INVARIANTS CheckpointsOnChain PendingVotesInv FinalityExtendsAncestors ServedStateIsFinal InternalErrorsUnreachable CodecRoundTrip RecordedFinalityLoads IndexIsFinalizedChain
PROPERTIES RestartKeepsFinality
CHECK_DEADLOCK FALSE
