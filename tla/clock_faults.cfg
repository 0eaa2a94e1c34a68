CONSTANTS
    MbSize = 2
    MaxTime = 0
    MaxBody = 2
    RespSize = 2
    Samples = {0}
    BodyKinds = {"weather", "other", "bad"}
    DhtFound = {TRUE, FALSE}
    DhtMayFail = TRUE
    MpuFound = {FALSE}
    MpuMayFail = TRUE
    Pitches = {"forward", "backward", "level", "tilted"}
    NetMayFail = TRUE
    HeapMayFail = TRUE
SPECIFICATION FaultsSpec
INVARIANTS TypeOK NoUseBeforeInit WeatherReleases PageInSync
