\* writable.js:137 and 145 against the names the requests are stored under.
SPECIFICATION Spec
CONSTANTS
  MaxWrites = 4
  MaxWriters = 3
  HighWaterMark = 2
  Mended = FALSE
INVARIANT
  InFlightIsAtSink
CHECK_DEADLOCK FALSE
