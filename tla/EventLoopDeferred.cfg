\* User code removes, closes and clears in the main script and in microtasks.
SPECIFICATION Spec
CONSTANTS
  Fds <- ThreeFds
  MaxEvents = 3
  MaxOps = 6
  DropContexts <- NotInCallbacks
INVARIANTS
  DeferredDropsAreSafe
CHECK_DEADLOCK FALSE
