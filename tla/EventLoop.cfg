\* Every call of user code everywhere, two descriptors, a thread that keeps
\* going.
SPECIFICATION FairSpec
CONSTANTS
  Fds <- TwoFds
  MaxEvents = 2
  MaxOps = 6
  DropContexts <- Anywhere
INVARIANTS
  TypeOK
  CountAccounts
  HandlerMatchesFile
  StaleOnlyAfterDrop
  TasksDrained
PROPERTIES
  KeepsTimerPromise
  EmptyLoopEnds
  StopEnds
\* The thread ends, and a loop whose handles all leaked blocks in epoll_wait.
CHECK_DEADLOCK FALSE
