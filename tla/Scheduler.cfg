\* Three tasks over a millisecond of two ticks and the first of the next.
SPECIFICATION FairSpec
CONSTANTS
  NumTasks = 3
  Grain = 2
  Delays <- SomeDelays
  Periods <- SomePeriods
  MaxNow = 2
INVARIANTS
  TimelineInOrder
  TimerCovers
PROPERTIES
  KeepsTaskPool
  EveryTaskRuns
\* Tasks run out, and time does.
CHECK_DEADLOCK FALSE
