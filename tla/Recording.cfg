SPECIFICATION ChartSpec
CONSTANTS
  Node = {n1, n2, n3, n4, n5, n6, n7}
  NULL = NULL
  Junk = Junk
  MaxTime = 2
  NewPoints = 2
  Readings <- MCReadings
SYMMETRY NodeSymmetry
INVARIANTS WalksEnd DeletedInStep PointsInArray LimitsAreExtremes
PROPERTY RecordProtocol
