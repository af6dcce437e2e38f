SPECIFICATION LoopFairSpec
CONSTANTS
  l1 = l1
  l2 = l2
  k1 = k1
  k2 = k2
  w1 = w1
  w2 = w2
  s1 = s1
  s2 = s2
  NoKey = NoKey
  NoWorkflow = NoWorkflow
  NoStep = NoStep
  Procs = {l1, l2}
  Keys = {k1, k2}
  Recovering = {k1}
  Workflows = {w1, w2}
  Steps = {s1, s2}
  WorkflowOf <- Owners
  DependsOn <- NoDeps
  PlanOf <- MCPlanOf
  RuleOf <- Rules
  MaxAttempts = 2
  Authorized = {s1, s2}
  Outcomes = {"verified", "unverified", "failed", "throws"}
  SlowSteps = {}
  MaxCycles = 2
  MaxOpen = 2
  MaxFaults = 1
  MaxChanges = 2
INVARIANTS
  LoopTypeOK
  WrittenWasDone
  NoUnapprovedWork
PROPERTIES
  RememberedIsOver
  KeysKept
  WorkGetsDone
