\* Three segments, so that a follower may skip one; three lines; the script
\* is started once more in the middle.  CHECK_DEADLOCK stays on: a follower
\* that finds nothing polls for ever.
CONSTANTS
  MaxLines = 3
  MaxSegments = 3
  MaxConnections = 2
SPECIFICATION FairSpec
INVARIANTS WholeLinesInOrder
PROPERTIES BridgeDrains LinesArePrinted
