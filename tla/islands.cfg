\* Three islands with room for two elites, an invalid program, two rounds of migration, samples.
CONSTANTS
  p1 = p1
  p2 = p2
  p3 = p3
  p4 = p4
  p5 = p5
  m1 = m1
  m2 = m2
  c1 = c1
  c2 = c2
  Programs = {p1, p2, p3, p4, p5}
  NoProgram = NoProgram
  Valid = {p1, p2, p3, p4}
  Measured = {p1, p2, p3, p4}
  Key <- RingKeys
  Vector <- RingVectors
  Root <- RingRoots
  Metrics = {m1, m2}
  Cells = {c1}
  EliteSize = 2
  Scale = 6
  NIslands = 3
  RatioNum = 2
  RatioDen = 2
  MaxMigrations = 2
  MaxSamples = 2
SPECIFICATION Spec
CHECK_DEADLOCK FALSE
INVARIANTS
  CellsHoldBest
  ExtremesKept
  SnapshotsRestore
  TurnsAreFair
  RotationIsFair
PROPERTIES
  RejectionChangesNothing
  KeepsPromise
  OneHopARound
