SPECIFICATION GcFairSpec
CONSTANTS
    Doc = {d1}
    NoDoc = NoDoc
    Exec = {w1}
    NoExec = NoExec
    MaxRetries = 1
    MaxBatches = 1
    FaultBudget <- Refusals
    Quiet = TRUE
 
PROPERTY StuckIsCollected
CHECK_DEADLOCK FALSE
