\* The request is posted twice; the commit of the duplicate is refused or
\* lost while the worker finalizes the job.
SPECIFICATION Spec
CONSTANTS
  Posts = {p1, p2}
  Clients = {}
  Sweep = sweep
  Free = free
  JobType = "pdf_to_pdf"
  Access = "ad"
  MaxCrashes = 0
  MaxFaults = 2
PROPERTY RollbackSparesReady
\* The job ends and every request is answered.
CHECK_DEADLOCK FALSE
