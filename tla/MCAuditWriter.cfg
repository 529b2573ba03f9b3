CONSTANTS
  Query = {q1}
  Outcome = {ok, failed}
  Rejected = rejected
  RowCount = {someRows}
  Null = null
  MaxAttempts = 2
  MaxTries = 3
SPECIFICATION Spec
CHECK_DEADLOCK FALSE
INVARIANTS
  OneRowPerQuery
  RecordIsWhole
  WrittenIsDurable
PROPERTIES
  ImplementsAuditLog
