CONSTANTS
    t1 = t1
    t2 = t2
    None = None
    Callers = {t1}
    UdpCallers = {}
    MaxCmds = 2
    MaxTimeouts = 0
    SocketNum = 1
    MaxData = 1
    MaxFaults = 0
SPECIFICATION Spec
INVARIANT ClosedReturns
CHECK_DEADLOCK FALSE
