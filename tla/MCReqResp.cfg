SPECIFICATION FairSpec
CONSTANTS
  Requests = {r1}
  NoRequest = none
  MaxBlocks = 2
  MaxLosses = 1
INVARIANTS CompletedMeansAll NoChannelOutlivesHandler
PROPERTIES Implements RequestsEnd StreamsGetClose
CHECK_DEADLOCK FALSE
