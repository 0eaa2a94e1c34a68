CONSTANTS
    MbSize = 1
    MaxTime = 0
    MaxBody = 2
    RespSize = 2
    Samples = {0}
    BodyKinds = {"weather"}
    DhtFound = {TRUE}
    DhtMayFail = FALSE
    MpuFound = {TRUE}
    MpuMayFail = FALSE
    Pitches = {"forward", "backward", "level", "tilted"}
    NetMayFail = TRUE
    HeapMayFail = FALSE
SPECIFICATION Spec
INVARIANT NoAssertionFails
