SPECIFICATION Spec
CONSTANTS
  Runtimes = {r1, r2}
  Calls = {c1, c2}
  NoOwner = NoOwner
INVARIANTS
  RunsUnderLease
