\* Two uploads, one DELETE at a time, one restart; tasks may hang.
SPECIFICATION FairSpec
CONSTANTS
  Jobs = {j1, j2}
  NoJob = nojob
  Contents = {c1}
  Exported = {}
  Browser = {}
  Keys = {k1}
  Deleters = {d1}
  SourceBytes = 1
  ResultBytes = 0
  SlackBytes = 0
  Budget = 2
  MaxCrashes = 1
INVARIANTS
  QueuedIsDispatched
PROPERTIES
  SupervisedTasksEnd
  DiscardIsHonoured
\* Every folder name may be used up.
CHECK_DEADLOCK FALSE
