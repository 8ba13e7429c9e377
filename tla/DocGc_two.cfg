SPECIFICATION GcSpec
CONSTANTS
    Doc = {d1, d2}
    NoDoc = NoDoc
    Exec = {w1}
    NoExec = NoExec
    MaxRetries = 0
    MaxBatches = 1
    FaultBudget <- NoFaults
    Quiet = TRUE
PROPERTY DeletesByRule
PROPERTY OrphanScanSparesLive
SYMMETRY DocSymmetry
CHECK_DEADLOCK FALSE
