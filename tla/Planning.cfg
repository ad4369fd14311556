SPECIFICATION PlanningSpec
CONSTANTS
  mia = mia
  rita = rita
  hal = hal
  Worker = {w1, w2}
  Nobody = nobody
  None = none
  User = {mia, rita, hal}
  Reviewer = {}
  Approver = {rita}
  Hr = {rita, hal}
  Manager = {rita}
  Lead = {hal}
  SchemeOf <- MCSchemeOf
  ItemWeights <- MCItemWeights
  Published <- MCPublished
  ObjectiveWeight <- MCObjectiveWeight
  Marks = {100, 300}
  NodeType = {"pillar", "objective", "programme"}
  Unit = {"org", "north"}
  Code = {1, 2, 3}
  MaxTrail = 6
  MaxNode = 3
  MaxVersion = 2
  MaxResponse = 2
  MaxAction = 2
CONSTRAINT PlanningBounds
SYMMETRY PlanningSymmetry
INVARIANTS
  AssessmentsAreTraced
  PeopleOffersMatchTheGuards
  NodesFormTrees
  EvaluationsAreAnswered
\* Records at their bounds take no further step.
CHECK_DEADLOCK FALSE
