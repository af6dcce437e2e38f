SPECIFICATION Spec
CONSTANTS
  a1 = a1
  a2 = a2
  a3 = a3
  r1 = r1
  r2 = r2
  NoReview = NoReview
  Attempts = {a1}
  Reviews = {r1, r2}
  NamesTask = FALSE
  Others <- OtherRequests
  Adapter = "email"
  OneAtATime = TRUE
INVARIANTS
  LedgerTruth
CHECK_DEADLOCK FALSE
