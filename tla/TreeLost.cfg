CONSTANTS
    a = a
    b = b
    d = d
    h = h
    Purifier = Purifier
    Cast = {a, b}
    Hand = {}
    Needs = {a, b}
    Says = {a, b}
    Awaiting <- Alone
    Untidy = {}
    Unready = {}
    Worktrees = 1
    Processes = 2
    HandRoots = {0}
    MaxDrops = 1
    MaxWithdrawals = 0
    MaxPurifies = 0
    MaxStops = 1
    MaxKills = 0
SPECIFICATION RestartSpec
INVARIANTS OneWorkingCastPerTree
CHECK_DEADLOCK FALSE
