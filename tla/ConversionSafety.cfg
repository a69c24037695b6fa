\* A repage job backed by an ad: the request is posted twice, two clients
\* poll and cancel, one process is killed, one billing call goes wrong.
SPECIFICATION Spec
CONSTANTS
  Posts = {p1, p2}
  Clients = {c1, c2}
  Sweep = sweep
  Free = free
  JobType = "pdf_to_pdf"
  Access = "ad"
  MaxCrashes = 1
  MaxFaults = 1
SYMMETRY Symmetry
INVARIANTS
  TypeOK
  DoneIsCounted
  ReleasedIsReleased
  OneAttemptConverts
PROPERTIES
  EndsAreFinal
  CancelIsHonoured
  CountedIsGivenBackOnlyIfLost
  Implements
\* The job ends and every request is answered.
CHECK_DEADLOCK FALSE
