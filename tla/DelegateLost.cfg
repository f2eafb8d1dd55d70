\* Two threads, a change and a dispatch that begins.
SPECIFICATION Spec
CONSTANTS
  Threads = {t1, t2}
  Handlers = {h1, h2}
  None = none
  MayThrow = FALSE
  MayDestroy = FALSE
  MaxHandlers = 2
  MaxDepth = 1
  MaxChanges = 2
SYMMETRY Symmetry
INVARIANTS
  ChangesAreDispatched
