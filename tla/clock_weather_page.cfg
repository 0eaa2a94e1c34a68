CONSTANTS
    MbSize = 1
    MaxTime = 0
    MaxBody = 1
    RespSize = 1
    Samples = {0}
    BodyKinds = {"weather"}
    DhtFound = {TRUE}
    DhtMayFail = FALSE
    MpuFound = {TRUE}
    MpuMayFail = FALSE
    Pitches = {"forward", "backward", "level", "tilted"}
    NetMayFail = FALSE
    HeapMayFail = FALSE
SPECIFICATION Spec
INVARIANT WeatherPageShowsWeather
