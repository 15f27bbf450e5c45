\* A target that is removed, comes back and then begins with the counts of
\* another one; a list that does not fit; two counted calls.
CONSTANTS
  Cgroups = {1, 2, 3}
  Lists = {{1}, {1, 2}, {1, 3}}
  NCpus = 1
  NIds = 1
  Elements = {e1, e2}
  MaxCalls = 2
  MaxFails = 1
  MaxClock = 4
SPECIFICATION Spec
SYMMETRY InterchangeableElements
INVARIANTS WindowsExact OwnElement RejectedForSkips
CHECK_DEADLOCK FALSE
