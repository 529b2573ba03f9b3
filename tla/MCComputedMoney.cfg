CONSTANTS
  Country = {cr, gt}
  Currency = {crc, usd}
  MaxRows = 3
  MaxHistory = 1
  MaxAttempts = 2
  NoLimit = noLimit
  NoPeriod = noPeriod
  NoRequest = noRequest
  Date <- MCDate
  Question <- MCQuestion
  SqlWritten <- RenamingSql
SPECIFICATION Spec
INVARIANT AmountsAreStored
