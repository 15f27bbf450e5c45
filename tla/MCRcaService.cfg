\* Three triggers of one container let a case, a follow-up or a refused one,
\* and a case after the cooldown happen; retention keeps one case.
CONSTANTS
  Containers = {c1}
  Cooldown = 3
  FollowUpMin = 1
  FollowUpMax = 1
  WarmUp = 1
  ReadyAfter = 1
  MaxCases = 1
  MaxTime = 5
  MaxTriggers = 3
  MaxCrashes = 1
SPECIFICATION RcaFairSpec
INVARIANTS CasesApart EveryTriggerHasACase EmittedCasesHaveFiles
PROPERTIES CasesAreWritten
CHECK_DEADLOCK FALSE
