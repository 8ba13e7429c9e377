SPECIFICATION Spec
CONSTANTS
    Slot = {s1, s2}
    History = 2
    Threshold = 4
    Window = 2
    Interval = 2
    Batch = 2
    Sizes = {"command", "long"}
    MaxQuestions = 3
    MaxFaults = 1
INVARIANTS
    SummaryKeepsAll
    CountedOnce
    OptOutNeverCounted
    RecentIsSeen
PROPERTY
    DeletedWindowGoes
CONSTRAINT OneTrouble
CHECK_DEADLOCK FALSE
