\* One process or two: rows of one stored value, with failures, crashes and
\* what administrators do.
SPECIFICATION Spec
CONSTANTS
  Worker = {w1, w2}
  Row = {r1, r2}
  Cell = {c1}
  Unmapped = Unmapped
  MaxStamp = 2
  RunId = {1, 2, 3, 4, 5}   \* one for each worker, one for each crash that leaves its own behind
  MaxEvents = 3
  MaxRacingEvents = 1
INVARIANTS
  NothingPassedOver
  RunsTakeTurns
PROPERTIES
  CatchesUp
\* A disabled source is at rest.
CHECK_DEADLOCK FALSE
