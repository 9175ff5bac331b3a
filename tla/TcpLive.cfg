\* A client and an accepted connection: a listener and both, or both and a
\* descriptor to spare.
SPECIFICATION FairSpec
CONSTANTS
  Fds <- ThreeFds
  MaxEvents = 2
  MaxClients = 1
  MaxAccepted = 1
PROPERTIES
  ConnectAnswered
  EndedIsReleased
\* The thread waits for events that need not come, or has died.
CHECK_DEADLOCK FALSE
