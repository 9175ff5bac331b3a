\* Two clients and an accepted connection, everything user code may do.
SPECIFICATION Spec
CONSTANTS
  Fds <- ThreeFds
  MaxEvents = 2
  MaxClients = 2
  MaxAccepted = 1
INVARIANTS
  ConversationMakesSense
  TableIsExact
  KeepsItsFile
  LeakIsTheServers
  CrashIsEarlyDataOrStale
PROPERTIES
  OwnEventsOnly
\* The thread waits for events that need not come, or has died.
CHECK_DEADLOCK FALSE
