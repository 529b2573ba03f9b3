CONSTANTS
  Country = {cr, gt}
  Currency = {crc, usd}
  MaxRows = 3
  MaxHistory = 2
  MaxAttempts = 2
  NoLimit = noLimit
  NoPeriod = noPeriod
  NoRequest = noRequest
  Date <- MCDate
  Question <- MCQuestion
  SqlWritten <- MCSql
SPECIFICATION Spec
INVARIANTS
  AnswersOnlyTheAsked
  
  AmountsAreStored
  OneWinnerPerCurrency
  ExitTellsTheAttempts
