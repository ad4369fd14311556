\* One process: two rows of one stored value, read by two pulls.
SPECIFICATION Spec
CONSTANTS
  Worker = {w1}
  Row = {r1, r2}
  Cell = {c1}
  Unmapped = Unmapped
  MaxStamp = 2
  RunId = {1}
  MaxEvents = 0
  MaxRacingEvents = 0
PROPERTIES
  LoadsKeepUnchangedRows
