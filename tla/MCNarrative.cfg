CONSTANTS
  Top = 2147483647
  Query = {"amounts", "averages"}
  MaxAttempts = 2
  Wording <- MCWording
  Result <- MCResult
SPECIFICATION Spec
CHECK_DEADLOCK FALSE
INVARIANTS
  NoInventedNumber
  NoFalseAlarm
  VerifiedTellsTheText
