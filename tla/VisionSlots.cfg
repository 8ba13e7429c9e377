SPECIFICATION FairSpec
CONSTANTS
    i1 = i1
    i2 = i2
    i3 = i3
    d1 = d1
    d2 = d2
    Image = {i1, i2, i3}
    Doc = {d1, d2}
    DocOf <- TwoAndOne
    OcrSlots = 1
    LocalSlots = 1
    MaxCaptions = 2
    Slots = 1
    TTL = 3
    CallTime = 1
    ReplyTime = 2
    AcquireTime = 2
INVARIANT SlotsRespected
PROPERTY LiveLeaseStays
PROPERTY EveryImageEnds
PROPERTY LeakedSlotReturns
CHECK_DEADLOCK FALSE
