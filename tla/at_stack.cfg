CONSTANTS
    t1 = t1
    t2 = t2
    None = None
    Callers = {t1, t2}
    UdpCallers = {t2}
    MaxCmds = 3
    MaxTimeouts = 1
    SocketNum = 2
    MaxData = 1
    MaxFaults = 1
SPECIFICATION Spec
INVARIANTS TypeOK RespOfHolder OwnResponse OwnData NoDeadUse NoLostNotice
CHECK_DEADLOCK FALSE
