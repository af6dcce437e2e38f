SPECIFICATION FairSpec
CONSTANTS
    Recoveries = {rec1, rec2}
    Executions = {exe}
    Returns = {ret}
    Admitted = {rec1, exe}
    MaxAttempts = 2
    MaxFaults = 1
INVARIANT TypeOK
INVARIANT RecoveryBudget
INVARIANT CompletedIsTrue
INVARIANT CompletedNotRedone
PROPERTY RecoverySettles
CHECK_DEADLOCK FALSE
