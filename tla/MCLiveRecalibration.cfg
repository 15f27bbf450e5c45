\* Two nodes (one whose hour can be missing), two windows of two workloads,
\* three hours: a window of two hours slides once over the cache.  One trouble
\* of any kind.  CHECK_DEADLOCK: the clock is bounded.
CONSTANTS
  N = 2
  Me = 1
  Windows = {1, 2}
  Workloads = {"web", "db"}
  WorkloadOf <- MCWorkloadOf
  WindowHours = 2
  RefreshHours = 1
  KeepHours = 3
  RetentionHours = 1
  MinimumExamples = 1
  LastHour = 2
  MaxTroubles = 1
SPECIFICATION Spec
INVARIANTS CalibrationIsWholeHours RowsCanBeRecomputed EpochNamesOneState EveryRefreshIsAccounted
PROPERTY SharedHoursAreFinal
CHECK_DEADLOCK FALSE
