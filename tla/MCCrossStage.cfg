CONSTANTS
  Classes <- MCClasses
  AnyRepo = "any"
  Allow <- MCAllow
  Bare = {"crossstage"}
  NoArea = "none"
  Order <- MCOrder
  Hub = "pqcota"
  Discovery = "discovery"
  Tree <- MCTree
  Systems = {"linux", "windows"}
  FirstMain <- MCFirstMain
  Pulled = {"discovery"}
  MaxPush = 3
SPECIFICATION FairSpec
INVARIANTS QuietMainIsJudged LateVerdictIsExact GreenMeansWired GreenMeansOneRuleset GreenMeansBundled
PROPERTY PauseBringsVerdict
CHECK_DEADLOCK FALSE
