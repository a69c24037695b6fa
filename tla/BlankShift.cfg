SPECIFICATION SeamSpec
CONSTANTS
  MaxGrid = 24
  Sheets <- WideSheets
  MaxEmpty = 1
  Marks <- SparseMarks
  Printings <- PlainPrinting
  Unit = 12
  Tolerance = 2
  Crops = {0}
  Shortlist = 1
  MaxBlank = 1
  SmallBeam = 16
  LargeBeam = 64
INVARIANT CompetitorsAreSeen
CHECK_DEADLOCK FALSE
