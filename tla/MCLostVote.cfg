CONSTANTS
  v1 = v1
  v2 = v2
  Validators <- OneValidator
  Importers <- Bridge
  Blocks <- ChainAndFork
  VoteSlots = {2}
  VoteHeads = {1, 3}
  Times = {15}
  FORKCHOICE_PRUNING_INTERVAL_SLOTS = 7200
SPECIFICATION Spec
INVARIANTS NewAheadOfKnown
CHECK_DEADLOCK FALSE
