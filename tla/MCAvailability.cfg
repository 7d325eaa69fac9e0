SPECIFICATION FairSpec
CONSTANTS
  Slots <- MCSlots
  Objects = 1
  MaxDisruptions = 2
  MaxExits = 1
  Nobody = Nobody
INVARIANTS
  TypeOK
  CalledWarm
PROPERTIES
  EndpointNeverEmpty
  CreationServed
  RolloutEnds
