\* Three lookups, useless answers included.
SPECIFICATION FairSpec
CONSTANTS
  Fds <- SixFds
  MaxEvents = 3
  MaxLookups = 3
  MaxUseless = 1
INVARIANTS
  OneAnswer
  OwnFilesOnly
  NothingHeld
  CrashIsLateEvent
PROPERTIES
  EveryLookupReports
\* The thread waits for events that need not come, or has died.
CHECK_DEADLOCK FALSE
