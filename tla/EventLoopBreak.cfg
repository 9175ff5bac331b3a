\* loop.js:77 against what the break does.
SPECIFICATION Spec
CONSTANTS
  Fds <- TwoFds
  MaxEvents = 2
  MaxOps = 6
  DropContexts <- Anywhere
INVARIANT
  BreaksOnlyWhenLoopEmpty
CHECK_DEADLOCK FALSE
