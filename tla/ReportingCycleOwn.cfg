\* Two workers: requests race between their reads and their commits.
SPECIFICATION CycleSpec
SYMMETRY Workers
CONSTANTS
  Nobody = Nobody
  ben = ben
  cee = cee
  a1 = a1
  a2 = a2
  w1 = w1
  w2 = w2
  User = {ben, cee}
  Assignment = {a1}
  Worker = {w1, w2}
  RoleOn <- MCRoleOn
  ReadOnly = {}
  Manager = {ben}
  Period <- MonthOnly
  Named = {}
  CyclePeriod <- Month
  Value = {}
  MaxRevision = 2
  MaxEvents = 4
INVARIANTS
  NobodyDecidesTheirOwn
