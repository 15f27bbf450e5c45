\* Two windows of the peer, one of them perhaps lost; three local windows that
\* follow each other, leave a gap that breaks the run, or overlap.
CONSTANTS
  SysIds = {open}
  Exec = {}
  K = 2
  N = 2
  MaxGap = 0
  Context = 2
  Span = 2
  Bucket = 2
  SpanEnd = 1
  Grace = 1
  MaxQueue = 1
  MaxTime = 3
  MaxSent = 2
SPECIFICATION Spec
INVARIANTS PreviewsMore JudgedAlertsMore KOfNConsecutive
CHECK_DEADLOCK FALSE
