CONSTANTS
  Threads = {t1, t2}
  Cgroups = {a, b}
  Slots = 1
  MapSize = 1
  MaxCalls = 2
  MaxTime = 5
  MaxChanges = 1
SPECIFICATION Spec
CHECK_DEADLOCK FALSE
INVARIANTS WindowsAreComplete ClosedWindowsAreGone GramsAreRuns
SYMMETRY Symmetry
