SPECIFICATION Spec
CONSTANTS
  Text <- MCText
  Shims <- OddTemplates
  Targets <- MCTargets
INVARIANTS ReadySkippedOnlyForPod
CHECK_DEADLOCK FALSE
