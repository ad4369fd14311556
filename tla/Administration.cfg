SPECIFICATION AdministrationSpec
CONSTANTS
  ann = ann
  bob = bob
  org = org
  north = north
  plant = plant
  finding = finding
  paper = paper
  jan = jan
  feb = feb
  staff = staff
  share = share
  Worker = {w1, w2}
  User = {ann, bob}
  DefaultAdmin = ann
  Unit = {org, north, plant}
  NoUnit = none
  Root = org
  Zone = {north}
  Scheme = {plant}
  Duty = {auditor, hr_officer}
  PrivateDuty = {hr_officer}
  Entered <- MCEntered
  Entity = {finding, paper}
  UnitOf <- MCUnitOf
  VersionNo = {1}
  Unpinned = unpinned
  Evidence <- MCEvidence
  MaxLink = 2
  Item = {review}
  MaxDay = 2
  Soon = 1
  SchemeMonth = {jan, feb}
  Token = {t1, t2}
  NoFigures = nofigures
  ByHand = byhand
  Year = {2025, 2026}
  Category = {salaries, staff, share}
  BudgetLine = {salaries, staff}
  Monetary = {salaries}
  NoLine = noline
  Amount <- MCAmount
  Rate <- MCRate
  MaxAmount = 120
CONSTRAINT Bounds
SYMMETRY Symmetry
INVARIANTS
  AccountsStayUsable
  AccessFollowsTheTree
  NothingIsMadeTwice
  FiguresAreAccountedFor
PROPERTY
  KeptRowsKeepTheirFigures
\* Records at their bounds take no further step.
CHECK_DEADLOCK FALSE
