CONSTANTS
    a = a
    b = b
    d = d
    h = h
    Purifier = Purifier
    Cast = {a, b, d, h}
    Hand = {h}
    Needs = {a, b, d}
    Says = {b}
    Awaiting <- ParentAndChild
    Untidy = {a}
    Unready = {b}
    Worktrees = 2
    Processes = 2
    HandRoots = {0}
    MaxDrops = 1
    MaxWithdrawals = 0
    MaxPurifies = 1
SPECIFICATION Spec
INVARIANTS TypeOK OneCastPerTree BlockedNotLeased
PROPERTIES StartsInOrder
CHECK_DEADLOCK FALSE
