\* One account uploads four times, another one once; DELETE at any moment.
SPECIFICATION Spec
CONSTANTS
  Uploads = {u1, u2, u3, u4, v}
  Tiles = {}
  Closers = {c}
  Account = account
  Visitor = visitor
  Visitors = {v}
  Owners <- MCOwners
  Owner <- MCOwner
  NoDoc = nodoc
  OwnerMaxDocuments = 2
  GlobalParsers = 1
  GlobalRenderers = 1
  OwnerRenderers = 1
  MaxCrashes = 0
SYMMETRY Symmetry
INVARIANTS
  UnwindingBounded
  ChildrenWithinPools
PROPERTIES
  LastUploadWins
\* Every request is answered.
CHECK_DEADLOCK FALSE
