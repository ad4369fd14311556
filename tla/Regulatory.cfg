\* One worker or two: packs, returns and league tables.
SPECIFICATION Spec
CONSTANTS
  Nobody = Nobody
  Nothing = Nothing
  o1 = o1
  o2 = o2
  o3 = o3
  bare = bare
  checked = checked
  revised = revised
  i1 = i1
  i2 = i2
  User = {o1, o2, o3}
  Worker = {w1, w2}
  Return = {r1}
  Content = {bare, checked, revised}
  Usable = {checked, revised}
  Indicator = {i1, i2}
  InScore <- TwoScored
  Value = {v1}
  MaxVersion = 2
  MaxRun = 1
SYMMETRY Symmetry
CONSTRAINT Bounds
INVARIANTS
  ComparisonsAreVouchedFor
  LeagueIsReproducible
PROPERTIES
  ImplementsSealing
\* Once every bound is reached, all records are final.
CHECK_DEADLOCK FALSE
