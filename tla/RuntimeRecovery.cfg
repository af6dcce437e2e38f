SPECIFICATION FairSpec
CONSTANTS
  w1 = w1
  s1 = s1
  s2 = s2
  s3 = s3
  NoWorkflow = NoWorkflow
  NoStep = NoStep
  Procs = {p1}
  Workflows = {w1}
  Steps = {s1, s2, s3}
  WorkflowOf <- LongChainOwner
  DependsOn <- LongChainDeps
  Authorized = {s1, s2}
  Outcomes <- AllOutcomes
  SlowSteps = {s1, s2, s3}
  MaxAttempts = 2
  MaxFaults = 2
PROPERTIES
  CompletedStaysCompleted
  ClaimsAreReleased
  RecordedReachesStore
  NoSilentStall
