\* Two uploads; the first is discarded when its task ends.
SPECIFICATION FairSpec
CONSTANTS
  Jobs = {j1, j2}
  NoJob = nojob
  Contents = {c1}
  Exported = {}
  Browser = {}
  Keys = {k1}
  Deleters = {d1}
  SourceBytes = 1
  ResultBytes = 0
  SlackBytes = 0
  Budget = 2
  MaxCrashes = 0
PROPERTIES
  TasksEnd
CHECK_DEADLOCK FALSE
