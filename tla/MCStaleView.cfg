CONSTANTS
  v1 = v1
  v2 = v2
  Validators <- OneValidator
  Importers <- BothThreads
  Blocks <- ChainAndFork
  VoteSlots = {}
  VoteHeads = {3}
  Times = {15}
  FORKCHOICE_PRUNING_INTERVAL_SLOTS = 7200
SPECIFICATION Spec
INVARIANTS RebaseNeverCrashes
CHECK_DEADLOCK FALSE
