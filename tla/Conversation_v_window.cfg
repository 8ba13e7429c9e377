SPECIFICATION Spec
CONSTANTS
    Slot = {s1}
    History = 2
    Threshold = 4
    Window = 2
    Interval = 2
    Batch = 2
    Sizes = {"command", "long"}
    MaxQuestions = 3
    MaxFaults = 1
INVARIANT
    FailureCostsSpeedOnly
CHECK_DEADLOCK FALSE
