CONSTANTS
    MbSize = 1
    MaxTime = 1
    MaxBody = 1
    RespSize = 1
    Samples = {0, 1}
    BodyKinds = {"weather"}
    DhtFound = {TRUE}
    DhtMayFail = FALSE
    MpuFound = {TRUE}
    MpuMayFail = FALSE
    Pitches = {"forward", "backward", "tilted"}
    NetMayFail = FALSE
    HeapMayFail = FALSE
SPECIFICATION LiveSpec
INVARIANT DrawsWholeRecords
PROPERTIES PageShown ClockCatchesUp
