\* Two uploads of one account, two tiles for one renderer; documents are
\* closed or expire at any moment and the worker is killed once.
SPECIFICATION FairSpec
CONSTANTS
  Uploads = {u1, u2}
  Tiles = {t1, t2}
  Closers = {c}
  Account = account
  Visitor = visitor
  Visitors = {}
  Owners <- MCOwners
  Owner <- MCOwner
  NoDoc = nodoc
  OwnerMaxDocuments = 2
  GlobalParsers = 1
  GlobalRenderers = 1
  OwnerRenderers = 2
  MaxCrashes = 1
INVARIANTS
  TypeOK
  ChildrenAreLeased
PROPERTIES
  SlotsReturn
  DeletedIsErased
\* Every request is answered.
CHECK_DEADLOCK FALSE
