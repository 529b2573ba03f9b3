CONSTANTS
  Country = {gt, ni}
  Date <- MCDate
  Column = {title, description}
  Term = {directa}
  Null = Null
  Asked <- MCAsked
  MaxLoads = 1
SPECIFICATION DiagnosisSpec
CHECK_DEADLOCK FALSE
INVARIANTS
  ReasonsWereTrue
  SilenceMeansLoaded
