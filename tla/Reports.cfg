\* One worker or two: serial requests, and requests that race.
SPECIFICATION Spec
CONSTRAINT Bounds
CONSTANTS
  Nobody = Nobody
  Nothing = Nothing
  User = {"ann", "ben", "cee"}
  Manager = {"ben"}
  Reviewer = {"ann", "cee"}
  Approver = {"cee"}
  Worker = {"w1", "w2"}
  Report = {"pack"}
  NeedsScore = {"pack"}
  Data = {"live", "scored", "rescored"}
  ScoreApproved = {"scored", "rescored"}
  Text = {"why"}
  MaxVersion = 3
INVARIANTS
  InForceIsServable
  ApprovalIsSound
PROPERTIES
  ImplementsSealing
