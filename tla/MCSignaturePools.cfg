CONSTANTS
  Validators = {0, 1, 2}
  Data = {1, 2}
  SlotOf <- MCSlotOf
  TargetSlot <- MCTargetSlot
  Source <- MCSource
  Slots = {0, 1}
  MaxArrivals = 2
SPECIFICATION Spec
INVARIANTS PoolsHaveData VotesBacked
PROPERTIES BlockCoversChosen
