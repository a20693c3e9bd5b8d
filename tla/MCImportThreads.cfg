CONSTANTS
  v1 = v1
  v2 = v2
  Validators <- OneValidator
  Importers <- BothThreads
  Blocks <- FourInLine
  VoteSlots = {}
  VoteHeads = {3}
  Times = {21}
  FORKCHOICE_PRUNING_INTERVAL_SLOTS = 1
SPECIFICATION Spec
INVARIANTS RemovedAreIndexed PruningKeepsSubtree
PROPERTIES SubtreePreserved
CHECK_DEADLOCK FALSE
