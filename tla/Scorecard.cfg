\* One worker or two: serial requests, and requests that race.
SPECIFICATION Spec
SYMMETRY Symmetry
CONSTRAINT Bounds
CONSTANTS
  ann = ann
  ben = ben
  w1 = w1
  w2 = w2
  Nobody = Nobody
  Jumble = "jumble"
  User = {ann, ben}
  Manager = {ann, ben}
  Reviewer = {ann, ben}
  Approver = {ann, ben}
  Worker = {w1, w2}
  Period <- MonthAndQuarter
  ScorePeriod <- Month
  Bands = {"steep", "holed"}
  SoundBands = {"steep"}
  Data = {"full", "thin"}
  Covered = {"full"}
  MaxSchemes = 1
  MaxSnapshots = 3
INVARIANTS
  FourEyes
  ProvisionalIsNotApproved
  OneScoreInForce
PROPERTIES
  ImplementsSealing
  LockFreezesApprovals
