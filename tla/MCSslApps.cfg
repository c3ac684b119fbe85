SPECIFICATION FairSpec
CONSTANTS
  NumApps = 2
  Conf = {none, pqc}
  NoConf = none
  Polls = 2
  MaxPid = 4
  Down = down
INVARIANTS
  TypeOK
  RestartTakesEffect
PROPERTIES
  ImplementsService
  CallsReturn
  ServedAgain
