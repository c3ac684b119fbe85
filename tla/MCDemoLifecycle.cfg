SPECIFICATION Spec
CONSTANTS
  n1 = n1
  n2 = n2
  Nodes <- TwoNodes
  Topologies <- Either
  Sample <- Shipped
  Rejected = Rejected
  Addresses = {a1, a2}
  None = None
  MaxUps = 2
  MaxTries = 2
INVARIANTS
  TypeOK
  DoneMeansReachable
  PingMisleadsOnlyAfterBrokenUp
  OrphanedOnlyByGenerator
PROPERTIES
  DataOutlivesOnlyByGenerator
  UpEnds
  ImplementsEnvironment
