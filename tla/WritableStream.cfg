\* Four writes through three writers, over a queue of two.
SPECIFICATION Spec
CONSTANTS
  MaxWrites = 4
  MaxWriters = 3
  HighWaterMark = 2
  Mended = FALSE
INVARIANTS
  SinkHearsOneCall
  AssertsHold
  ReadyTellsBackpressure
  ErroringWaitsForSink
\* A stream that is closed or errored stays so.
CHECK_DEADLOCK FALSE
