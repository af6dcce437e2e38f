SPECIFICATION FairSpec
CONSTANTS
  Nodes = {n1, n2}
  Events = {1}
  StaleAfter = 1
  MaxDrain = 2
  MaxFaults = 1
INVARIANTS
  TypeOK
  LeaseHonoured
PROPERTIES
  NeverReopened
  HeartbeatReconciles
  NoneLeftBehind
