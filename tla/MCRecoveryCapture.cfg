CHECK_DEADLOCK FALSE
\* A history of two windows is full after four regular boundaries and again
\* four after a bad one; an incident of 9 recovers within the budgets, one of
\* 30 does not, one of 31 is beyond repair.
CONSTANTS
  Containers = {a, b}
  MinInterval = 4
  MaxInterval = 8
  MaxGap = 30
  MaxLag = 10
  MaxIncident = 40
  MaxIncidents = 2
  MaxExcluded = 50
  Rolling = 2
  Intervals = {2, 5, 9, 30, 31}
  Ahead = 11
  Lags <- MCLags
  Regular = 5
  MaxFrames = 9
  MaxIrregular = 3
SPECIFICATION RecoverySpec
INVARIANTS RecoveryTypeOK EligibleRowsAreClean IncidentsAreAccounted
