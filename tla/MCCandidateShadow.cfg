\* Half a second, and nine tenths: two windows, or none, fit a history; three
\* rows, so that one can be lost between two; one history at a time.
CONSTANTS
  Containers = {a, b}
  HistorySize = 1
  MaxIdentities = 1
  MinGap = 4
  MaxWindowGap = 8
  Gaps = {5, 9}
  MaxRows = 3
  MaxSegments = 2
  MaxBuffered = 1
SPECIFICATION ShadowFairSpec
INVARIANT ContextsAreContiguous
PROPERTIES LinesAreTaken SealedSegmentsAreLeft
\* The rows end.
CHECK_DEADLOCK FALSE
