CONSTANTS
    c1 = c1
    c2 = c2
    r1 = r1
    r2 = r2
    r3 = r3
    r4 = r4
    NoLimit = NoLimit
    Cast <- MCCast
    Request <- MCRequest
    Owner <- MCOwner
    Limit <- MCLimit
    MaxAsks = 6
SPECIFICATION Spec
INVARIANTS TypeOK
PROPERTIES GrantsWithinLimit NoOvertaking NoIdleSlot
CHECK_DEADLOCK FALSE
