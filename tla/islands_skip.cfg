\* A target island that holds a migrant in its frontier alone.
CONSTANTS
  p1 = p1
  p2 = p2
  p3 = p3
  p4 = p4
  p5 = p5
  m1 = m1
  m2 = m2
  c1 = c1
  c2 = c2
  Programs = {p1, p2, p3, p4}
  NoProgram = NoProgram
  Valid = {p1, p2, p3, p4}
  Measured = {p1, p2, p3}
  Key <- PoorKeys
  Vector <- PoorVectors
  Root <- PoorRoots
  Metrics = {m1, m2}
  Cells = {c1}
  EliteSize = 3
  Scale = 6
  NIslands = 2
  RatioNum = 2
  RatioDen = 2
  MaxMigrations = 2
  MaxSamples = 0
SPECIFICATION Spec
CHECK_DEADLOCK FALSE
PROPERTIES
  ContainedIsSkipped
