CONSTANTS
    c1 = c1
    p1 = p1
    s1 = s1
    s2 = s2
    e1 = e1
    k1 = k1
    NoLimit = NoLimit
    Cast = {c1}
    Prompt = {p1}
    Slot = {s1, s2}
    Enqueue = {e1}
    Await = {k1}
    Of <- MCOf
    Limit = {1}
    MaxAsks = 8
    Conns <- MCConns
    MaxBegun = 2
    MaxUnread = 2
    MaxFaults = 2
SPECIFICATION Spec
INVARIANTS TypeOK EveryWaitCanEnd NothingLeaked QueuedAsTold
CHECK_DEADLOCK FALSE
