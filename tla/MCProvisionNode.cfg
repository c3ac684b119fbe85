SPECIFICATION ProvisionFairSpec
CONSTANTS
  NumApps = 1
  Conf = {none, pqc}
  NoConf = none
  Pqc = pqc
  Polls = 2
  MaxPid = 5
  Down = down
INVARIANTS
  CompletedRunRestores
  CompletedRunServesDefault
  NoDanglingStart
PROPERTIES
  RunEnds
  RestartCheckIsRight
