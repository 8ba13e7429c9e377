SPECIFICATION Spec
CONSTANTS
    Doc = {d1}
    NoDoc = NoDoc
    Exec = {w1, w2}
    NoExec = NoExec
    MaxRetries = 0
    MaxBatches = 2
    FaultBudget <- LockKept
SYMMETRY Workers
CONSTRAINT AtMostTwo
INVARIANT MutualExclusion
INVARIANT IndexedIsSearchable
PROPERTY PublishesAtomically
PROPERTY CleanupSparesLiveChunks
CHECK_DEADLOCK FALSE
