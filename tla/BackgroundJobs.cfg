SPECIFICATION JobsSpec
CONSTANTS
  Posts = {p1}
  Clients = {c1}
  Sweep = sweep
  Free = free
  JobType = "plt_to_pdf"
  Access = "free"
  MaxCrashes = 1
  MaxFaults = 1
  Selections = {s1, s2}
  NoSelection = nosel
  MaxAttempts = 5
  MaxDeaths = 2
  Askers = {a1, a2}
  NoPost = nopost
  Polls = {g1}
  Layouts = {l1}
  Questions = {q1, q2}
  NoQuestion = noq
  MaxMishaps = 1
INVARIANTS
  AnalysesTypeOK
  StatusIsTrue
  OneAnalysisWorks
PROPERTIES
  FinalizingSettles
  ConfirmationSettles
  RefundArrives
  AnswersAreFresh
  AnalysisSettles
  PolledAnalysisEnds
CHECK_DEADLOCK FALSE
