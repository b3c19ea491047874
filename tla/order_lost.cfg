CONSTANTS
    N = 1
    x = x
    a = a
    b = b
    Prefix = {x}
    Attr = {a, b}
    None = None
    Update <- PlainUpdates
    OpenIds <- OneIdEach
    MaxUpdates = 3
    Rare = {}
SPECIFICATION OrderSpec
INVARIANT LatestUpdateWins
CHECK_DEADLOCK FALSE
