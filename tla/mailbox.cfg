CONSTANTS
    t1 = t1
    t2 = t2
    t3 = t3
    m1 = m1
    m2 = m2
    Threads = {t1, t2, t3}
    Values = {m1, m2}
    None = None
    Size = 2
    Flag = "PRIO"
    Priority <- MCPriority
    Timeouts <- MCTimeouts
SPECIFICATION Spec
INVARIANTS TypeOK RingOK WakeupsMatch ListsOK DetachFreesAll
PROPERTY FifoSpec
SYMMETRY MCSymmetry
CHECK_DEADLOCK FALSE
