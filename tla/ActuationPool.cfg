SPECIFICATION FairSpec
CONSTANTS
  n1 = n1
  n2 = n2
  a1 = a1
  a2 = a2
  b1 = b1
  NoDispatch = NoDispatch
  Nodes = {n1, n2}
  Dispatches = {a1, a2, b1}
  NodeOf <- TwoServers
INVARIANTS
  TypeOK
  RowTellsTruth
PROPERTIES
  AtMostOnce
  AnsweredUnlessReplaced
CHECK_DEADLOCK FALSE
