SPECIFICATION Spec
CONSTANTS
  Payloads <- MCPayloads
  MaxMessages = 2
INVARIANTS EndsAgree NoCompleteMessageWaits
CHECK_DEADLOCK FALSE
