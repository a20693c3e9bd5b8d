CONSTANTS
  v1 = v1
  v2 = v2
  Validators <- TwoValidators
  Importers <- Bridge
  Blocks <- FourBlocks
  VoteSlots = {2}
  VoteHeads = {3, 4}
  Times = {13, 15}
  FORKCHOICE_PRUNING_INTERVAL_SLOTS = 7200
SYMMETRY ValidatorSymmetry
SPECIFICATION Spec
INVARIANTS HeadMatchesGhost WeightsMatchVotes TargetOnHeadBranch
