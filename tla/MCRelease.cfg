CONSTANTS
  Version = {v0, v1, v2}
  First = v0
  Torn = torn
  Null = null
  MaxRuns = 4
SPECIFICATION Spec
CHECK_DEADLOCK FALSE
INVARIANTS
  DeployedIsWhole
  FailureChangesNothing
  RollbackUndoesTheDeployment
