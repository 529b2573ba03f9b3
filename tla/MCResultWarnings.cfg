CONSTANTS
  Country = {cr, gt, ni}
  Currency = {crc, gtq}
  MaxRows = 3
  MaxHidden = 1
  Null = Null
SYMMETRY Symmetry
SPECIFICATION Spec
CHECK_DEADLOCK FALSE
INVARIANTS
  HiddenRowsAreSaid
  PartialTableIsSaid
  AbsenceIsNotOverstated
