SPECIFICATION Spec
CONSTANTS
  Validators = {v1, v2}
  Unknown = unknown
  MaxAssignments = 3
INVARIANT HandlesOwnedOnce
CHECK_DEADLOCK FALSE
