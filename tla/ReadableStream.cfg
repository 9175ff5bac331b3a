\* Four chunks and five reads through three readers, over a queue of two.
SPECIFICATION Spec
CONSTANTS
  MaxChunks = 4
  MaxReads = 5
  MaxReaders = 3
  HighWaterMark = 2
INVARIANTS
  ChunksInOrder
  WaitingReadsPull
  PullsOneAtATime
  EndIsTold
\* A stream that is closed or errored stays so.
CHECK_DEADLOCK FALSE
