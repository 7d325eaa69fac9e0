SPECIFICATION StartupSpec
CONSTANTS
  Environments <- MCEnvironments
  FlagValues <- MCFlagValues
  AbsolutePaths = {"/spiffe-workload-api", "/run/spiffe"}
  WithSlash = {"/spiffe-workload-api", "/run/spiffe", "run/spiffe", "run/agent.sock"}
  Malformed = Malformed
  Namespaces <- MCNamespaces
  MaxArgs = 2
CHECK_DEADLOCK FALSE
INVARIANTS
  StartupTypeOK
  FlagThenEnvThenDefault
  OwnNamespaceExcluded
  ExcludedOnlyAsNamed
