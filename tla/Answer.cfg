SPECIFICATION StreamSpec
CONSTANTS
    QueueSize = 2
    MaxTokens = 4
INVARIANTS
    ShownIsStored
PROPERTIES
    AnswerIsKept
    ThreadEnds
    ReaderIsAnswered
CHECK_DEADLOCK FALSE
