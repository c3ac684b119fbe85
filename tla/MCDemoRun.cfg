SPECIFICATION DemoSpec
CONSTANTS
  NodeSeq <- MCNodeSeq
  Finding <- MCFinding
  Topologies <- MCTopologies
  NoNode = none
  NoFinding = nothing
  MaxRuns = 4
INVARIANTS
  RealStageHasApprover
  DiffShowsTheScope
  RealProviderLands
  LeftoversAreAccountedFor
PROPERTIES
  PlanLosesOnlyNoise
