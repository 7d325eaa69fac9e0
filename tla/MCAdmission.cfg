SPECIFICATION FairSpec
CONSTANTS
  Replicas = {r1, r2}
  NoValue = NoValue
  Failed = Failed
  Requests <- MCRequests
  Stores <- MCStores
  Versions <- MCVersions
  ExcludedNames <- MCNames
  ExcludedPrefixes <- MCPrefixes
  MaxChanges = 2
  MaxFaults = 1
CHECK_DEADLOCK FALSE
INVARIANTS
  TypeOK
  CaughtUpIsExact
  NoSilentMiss
PROPERTIES
  NeverRetrofitted
  ImplementsContract
  RecreationHeals
  RetriesSucceed
