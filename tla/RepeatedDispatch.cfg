SPECIFICATION Spec
CONSTANTS
  w1 = w1
  s1 = s1
  s2 = s2
  s3 = s3
  NoWorkflow = NoWorkflow
  NoStep = NoStep
  Procs = {p1, p2}
  Workflows = {w1}
  Steps = {s1}
  WorkflowOf <- OneOwner
  DependsOn <- OneDeps
  Authorized = {s1}
  Outcomes <- NoOutcomeUncertain
  SlowSteps = {s1}
  MaxAttempts = 2
  MaxFaults = 1
PROPERTY
  CompletedIsRecovered
