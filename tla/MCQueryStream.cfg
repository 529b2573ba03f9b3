CONSTANTS
  Query = {q1}
  SqlMaxAttempts = 2
  NarrativeMaxAttempts = 1
  Period = {}
  NoPeriod = noPeriod
  Number = {invented}
  Backed = {}
  DailyLimit = 1
  MonthlyLimit = 2
  DaysPerMonth = 2
  LastDay = 1
  Spent = {0, 1}
  Null = null
SPECIFICATION StreamSpec
CHECK_DEADLOCK FALSE
INVARIANTS
  EventsInOrder
  DoneAfterAudit
  LogTellsTheRun
  LoggedAttemptsArePaid
  AnswersArePaid
  OverBudgetNothingRuns
  StreamTypeOK
  StreamEndsWithDone
PROPERTIES
  SlowClientsHoldNothing
  PatientClientsAreServed
  AuditOutlivesTheClient
