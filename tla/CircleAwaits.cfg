CONSTANTS
    a = a
    b = b
    d = d
    h = h
    Purifier = Purifier
    Cast = {a, b, d}
    Hand = {}
    Needs = {a, b}
    Says = {a}
    Awaiting <- ParentAndChild
    Untidy = {a}
    Unready = {b}
    Worktrees = 1
    Processes = 2
    HandRoots = {0}
    MaxDrops = 1
    MaxWithdrawals = 1
    MaxPurifies = 0
SPECIFICATION FairSpec
PROPERTIES ParentsFirst QueueDrains AwaitsAnswered
CHECK_DEADLOCK FALSE
