SPECIFICATION FairSpec
CONSTANTS
  Replicas = {r1, r2}
  Nobody = Nobody
  Specs <- MCSpecs
  PodCounts <- MCPodCounts
  MaxChanges = 3
  MaxFaults = 1
INVARIANTS TypeOK ReadyIsCurrent NeverForgotten
PROPERTIES StatusNeverRegresses ImplementsContract EventuallyConverged
CHECK_DEADLOCK FALSE
