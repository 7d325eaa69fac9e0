SPECIFICATION Spec
CONSTANTS
  Text <- MCText
  Shims <- TrailingSlash
  Targets <- MCTargets
INVARIANTS FilesOutsideOwnToken
CHECK_DEADLOCK FALSE
