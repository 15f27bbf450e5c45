\* One container, two episodes one after the other; the clock reaches past the
\* time at which an ended episode is forgotten.  Tripwire rows: an episode that
\* starts with a preview row has the same pushes without the first triage one.
CONSTANTS
  Containers = {c1}
  Kinds = {"tripwire_alert"}
  ResolveAfter = 1
  Refresh = 1
  RetryAfter = 1
  PushAttempts = 2
  CaseWait = 1
  ForgetAfter = 3
  Stale = 1
  Stall = 1
  MaxTime = 7
  MaxEpisodes = 2
  MaxCaseFiles = 1
  MaxTroubles = 2
  MaxCaseDelay = 0
  LastRestart = 1
  MaxBacklog = 1
SPECIFICATION Spec
INVARIANTS EpisodesAreSeparate AlertExpires StartArrives DeliveredOnce
\* The clock and the troubles are bounded.
CHECK_DEADLOCK FALSE
