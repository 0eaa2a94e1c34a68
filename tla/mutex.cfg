CONSTANTS
    t1 = t1
    t2 = t2
    t3 = t3
    a = a
    b = b
    Threads = {t1, t2, t3}
    Mutexes = {a, b}
    None = None
    Flag <- MCFlag
    init_priority <- MCPriority
    NoPriority = 4
    Timeouts <- MCTimeouts
    HoldMax = 2
    Nested = FALSE
SPECIFICATION Spec
INVARIANTS TypeOK FreeOrOwned WaitersListed WokenOwner Inheritance OwnPriority
