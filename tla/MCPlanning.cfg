SPECIFICATION Spec
CONSTANTS
  Text <- MCText
  Shims <- MCShims
  Targets <- MCTargets
INVARIANTS
  TypeOK
  ReadySkippedOnlyForPod
  RulesAgree
  PlanPathsDistinct
  MaskedStaysOut
  RequiredHasValue
PROPERTIES ResolvedOnce
CHECK_DEADLOCK FALSE
