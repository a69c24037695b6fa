\* Three uploads of a pattern a browser has recognised, or of an export, under
\* one key or their content; two waiting at most, the third only when the
\* others have shrunk; one restart.
SPECIFICATION Spec
CONSTANTS
  Jobs = {j1, j2, j3}
  NoJob = nojob
  Contents = {c1, c2}
  Exported = {c2}
  Browser = {c1}
  Keys = {k1}
  Deleters = {}
  SourceBytes = 1
  ResultBytes = 1
  SlackBytes = 1
  Budget = 6
  MaxCrashes = 1
SYMMETRY Symmetry
INVARIANTS
  TypeOK
  DiskWithinBudget
PROPERTIES
  SettledIsFinal
  KeepsOrder
\* Every folder name may be used up.
CHECK_DEADLOCK FALSE
