\* One worker or two: serial requests, and requests that race.
SPECIFICATION CycleSpec
SYMMETRY Workers
CONSTRAINT Bounds
CONSTANTS
  Nobody = Nobody
  ben = ben
  cee = cee
  a1 = a1
  a2 = a2
  w1 = w1
  w2 = w2
  User = {ben, cee}
  Assignment = {a1}
  Worker = {w1, w2}
  RoleOn <- MCRoleOn
  ReadOnly = {}
  Manager = {ben}
  Period <- MCPeriod
  Named = {ben}
  CyclePeriod <- Month
  Value = {"low"}
  MaxRevision = 2
  MaxEvents = 7
INVARIANTS
  TypeOK
  FourEyes
  PublishedWasApproved
  DecisionsStandOnTheTrail
PROPERTIES
  ImplementsMakerChecker
  LockFreezesDecisions
