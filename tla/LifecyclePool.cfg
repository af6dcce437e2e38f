SPECIFICATION Spec
CONSTANTS
  Runtimes = {r1, r2, r3}
  Calls = {c1}
  NoOwner = NoOwner
INVARIANTS
  TypeOK
  RunsUnderLease
  HealthIsTrue
