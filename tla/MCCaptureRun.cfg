\* Both programs; two intervals in cadence; two of a kill, a signal, a failed call,
\* a dead sink, a bad frame, a full disk or a lost loader.  Six segments are enough
\* for them.  The finished run stops, and so does a worker that is blocked.
CHECK_DEADLOCK FALSE
CONSTANTS
  Kinds = {"worker", "collection"}
  Seconds = 2
  Budget = 2
  MaxSegments = 6
  MaxTroubles = 2
SPECIFICATION FairSpec
INVARIANTS SealsHold CompletionIsFinal ClaimsAreBacked
PROPERTY RunCompletes
