\* One request, nothing goes wrong: only the confirmation and the worker's
\* deadline race.
SPECIFICATION Spec
CONSTANTS
  Posts = {p1}
  Clients = {}
  Sweep = sweep
  Free = free
  JobType = "pdf_to_pdf"
  Access = "free"
  MaxCrashes = 0
  MaxFaults = 0
INVARIANT QueuedHasAttempt
\* The job ends and every request is answered.
CHECK_DEADLOCK FALSE
