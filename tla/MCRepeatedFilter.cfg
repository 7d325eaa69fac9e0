SPECIFICATION Spec
CONSTANTS
  Text <- MCText
  Pods <- RepeatedFilter
  PlanLists <- OneShim
  Sidecars <- NoSidecars
  MaxPodAnnotationBytes = 15
  APIAnnotationLimit = 35
  KeyBytes = 1
  MaxCalls = 1
CHECK_DEADLOCK FALSE
INVARIANTS
  NeverBreaksPod
