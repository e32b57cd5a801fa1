CONSTANTS
    c1 = c1
    p1 = p1
    p2 = p2
    r1 = r1
    k1 = k1
    w1 = w1
    w2 = w2
    Nobody = Nobody
    Cast = {c1}
    Prompt = {p1, p2}
    Rite = {r1}
    Await = {k1}
    Of <- OfOne
    Window = {w1, w2}
    DeltaLines = 1
    MaxDrops = 1
    MaxStale = 1
    MaxOpened = 2
    MaxActs = 2
    MaxLines = 1
SPECIFICATION Spec
INVARIANTS ClaimsMatch ClaimsTold PictureFollows
PROPERTIES ClaimKept
CHECK_DEADLOCK FALSE
