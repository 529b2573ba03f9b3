CONSTANTS
  Query = {q1, q2}
  Cost = {0, 2}
  Charges = 2
  DailyLimit = 2
  MonthlyLimit = 4
  DaysPerMonth = 2
  LastDay = 2
  Spent = {0}
SYMMETRY QuerySymmetry
SPECIFICATION Spec
INVARIANTS
  NoAdmissionAfterExhaustion
  OvershootBounded
  MonthFollowsDay
  CountersAddUp
