SPECIFICATION LanesSpec
CONSTANTS
  Posts = {p1, p2, p3}
  NoPost = nopost
  Users = {u1}
  Requests = {r1, r2}
  NoRequest = norequest
  Conversions = {c1, c2}
  Previews = {d1}
  UserMaxActive = 2
  QueueMaxPending = 1
  Workers = 1
  MaxFaults = 1
  Makers = {m1, m2}
  Readers = {b1}
  NoMaker = nomaker
  Views = {v1, v2}
  Slots = 2
  MaxBundle = 2
  OwnerBytes = 3
  MaxLayouts = 1
  MaxCrashes = 1
  Pens = {0, 1, 2}
  Steps <- MCSteps
  Widths = {w}
  LineTypes = {t}
  Default = default
  MaxPoints = 3
  MaxShapes = 2
  MaxCommands = 4
  MaxGrid = 24
  Sheets <- MCSheets
  MaxEmpty = 1
  Marks <- MCMarks
  Printings <- MCPrintings
  Unit = 12
  Tolerance = 2
  Crops = {0, 1}
  Shortlist = 1
  MaxBlank = 1
  SmallBeam = 16
  LargeBeam = 64
SYMMETRY Symmetry
INVARIANTS
  LanesTypeOK
  OneAttemptPerRequest
  WithinCapacity
  AnsweredIsCarriedOut
  AnswersAgree
  BundlesAreAccounted
  ShapesAreTheInk
  ReliableIsRight
  SheetsAreSound
CHECK_DEADLOCK FALSE
