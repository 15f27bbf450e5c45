\* The smallest queue: the third write finds it full while the thread fails.
CONSTANTS
  MaxLines = 1
  BatchMax = 1
  MaxWrites = 3
  Faults = {"write"}
  STOP = STOP
SPECIFICATION BusySpec
PROPERTY ErrorSurfaces
CHECK_DEADLOCK FALSE
