CONSTANTS
  Kinds <- HttpKinds
  Refusals <- Codes
  MaxAttempts = 3
SPECIFICATION Spec
INVARIANTS NoFalseSuccess RepeatJustified
CHECK_DEADLOCK FALSE
