SPECIFICATION Spec
CONSTANTS
  a1 = a1
  a2 = a2
  a3 = a3
  r1 = r1
  r2 = r2
  NoReview = NoReview
  Attempts = {a1, a2, a3}
  Reviews = {r1}
  NamesTask = TRUE
  Others <- OtherRequests
  Adapter = "whatsapp"
  OneAtATime = TRUE
SYMMETRY Interchangeable
INVARIANTS
  TypeOK
  LedgerTruth
  SentWithConsent
PROPERTIES
  SentAtMostOnce
CHECK_DEADLOCK FALSE
