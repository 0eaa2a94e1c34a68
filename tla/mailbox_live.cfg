CONSTANTS
    t1 = t1
    t2 = t2
    t3 = t3
    m1 = m1
    m2 = m2
    Threads = {t1, t2, t3}
    Values = {m1}
    None = None
    Size = 1
    Flag = "FIFO"
    Priority <- MCPriority
    Timeouts <- MCWaits
SPECIFICATION FairSpec
PROPERTIES FiniteWaitEnds MailMeetsReceiver
CHECK_DEADLOCK FALSE
