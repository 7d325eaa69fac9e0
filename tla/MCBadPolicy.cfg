SPECIFICATION Spec
CONSTANTS
  Text <- MCText
  Shims <- BadPolicy
  Targets <- MCTargets
INVARIANTS InvalidNeverPlanned
CHECK_DEADLOCK FALSE
