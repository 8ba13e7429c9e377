SPECIFICATION FairSpec
CONSTANTS
    Doc = {d1}
    NoDoc = NoDoc
    Exec = {w1, w2}
    NoExec = NoExec
    MaxRetries = 0
    MaxBatches = 1
    FaultBudget <- RefreshFails
PROPERTY EventuallySettled
CHECK_DEADLOCK FALSE
