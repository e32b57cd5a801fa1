CONSTANTS
    a = a
    b = b
    d = d
    h = h
    Purifier = Purifier
    Cast = {a, b}
    Hand = {}
    Needs = {a, b}
    Says = {b}
    Awaiting <- ParentAndChild
    Untidy = {a}
    Unready = {b}
    Worktrees = 2
    Processes = 1
    HandRoots = {0}
    MaxDrops = 1
    MaxWithdrawals = 1
    MaxPurifies = 0
    MaxStops = 1
    MaxKills = 1
SPECIFICATION RestartSpec
INVARIANTS LeasedOnce QueuedOnce AwaitHeld
PROPERTIES StartsWithinLimit SpawnedOnce AnsweredOnceRun
CHECK_DEADLOCK FALSE
