SPECIFICATION Spec
CONSTANTS
  Worker = {w1, w2}
  Nobody = nobody
  User = {mia, rita, abe}
  Reviewer = {mia, rita}
  Approver = {rita}
  Auditor = {abe}
  Secretary = {rita}
  RiskManager = {rita}
  Criteria <- MCCriteria
  MaxAction = 2
  MaxDecision = 6
  MaxResolution = 2
  MaxMatrix = 2
  MaxAssessment = 2
CONSTRAINT Bounds
SYMMETRY Symmetry
INVARIANTS
  OffersMatchTheGuards
  FollowUpIsKept
  WorkIsVerifiedByOthers
  RatingsAreTraced
\* Rows at their bounds take no further step.
CHECK_DEADLOCK FALSE
