SPECIFICATION FairSpec
CONSTANTS
    Doc = {d1}
    NoDoc = NoDoc
    Exec = {w1}
    NoExec = NoExec
    MaxRetries = 1
    MaxBatches = 1
    FaultBudget <- OneWorkerFaults
INVARIANT TypeOK
INVARIANT NoSilentStop
PROPERTY EventuallySettled
PROPERTY LockIsFreed
CHECK_DEADLOCK FALSE
