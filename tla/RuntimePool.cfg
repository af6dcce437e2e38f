SPECIFICATION Spec
CONSTANTS
  w1 = w1
  s1 = s1
  s2 = s2
  s3 = s3
  NoWorkflow = NoWorkflow
  NoStep = NoStep
  Procs = {p1, p2}
  Workflows = {w1}
  Steps = {s1, s2}
  WorkflowOf <- ChainOwner
  DependsOn <- ChainDeps
  Authorized = {s1, s2}
  Outcomes <- AllOutcomes
  SlowSteps = {s2}
  MaxAttempts = 2
  MaxFaults = 1
INVARIANTS
  TypeOK
  DependenciesFirst
  ClaimExclusive
  CallsBounded
PROPERTIES
  NoDispatchAfterEffect
  RunsInOrder
