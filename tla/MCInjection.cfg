SPECIFICATION Spec
CONSTANTS
  Text <- MCText
  Pods <- MCPods
  PlanLists <- MCPlanLists
  Sidecars <- MCSidecars
  MaxPodAnnotationBytes = 24
  APIAnnotationLimit = 44
  KeyBytes = 1
  MaxCalls = 3
CHECK_DEADLOCK FALSE
INVARIANTS
  TypeOK
  NeverBreaksPod
  AllOrNothing
  OneRefresherPerToken
  FilesReachContainers
  HelpersStartFirst
  NothingLostSilently
  SkippedForCause
  AnnotationsWithinLimit
  InjectedOnce
PROPERTIES
  PodOnlyGrows
