\* A queue of two lines, batches of two: the producer blocks, batches fill up,
\* STOP arrives alone and behind lines; every call on the file may fail.
\* CHECK_DEADLOCK is off: the scoring loop really can stop for ever, blocked on
\* a full queue whose thread has died (run async_sink_error_hangs).
CONSTANTS
  MaxLines = 2
  BatchMax = 2
  MaxWrites = 4
  Faults = {"write", "flush", "sync"}
  STOP = STOP
SPECIFICATION FairSpec
INVARIANTS TypeOK SealedHoldsEveryLine
PROPERTIES ImplementsSegmentLog LinesReachTheFile CallsReturn
CHECK_DEADLOCK FALSE
