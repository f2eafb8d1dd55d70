\* Two threads; handlers throw, and the delegate is destroyed.
SPECIFICATION FairSpec
CONSTANTS
  Threads = {t1, t2}
  Handlers = {h1, h2}
  None = none
  MayThrow = TRUE
  MayDestroy = TRUE
  MaxHandlers = 2
  MaxDepth = 2
  MaxChanges = 2
INVARIANTS
  TypeOK
  CopyExcludesDispatch
  EndedAfterDispatch
  NothingElseIsLost
PROPERTIES
  ListIsStable
  LocksAreObtained
\* A delegate that was destroyed does nothing.
CHECK_DEADLOCK FALSE
