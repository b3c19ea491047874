CONSTANTS
    N = 1
    x = x
    a = a
    b = b
    Prefix = {x}
    Attr = {a, b}
    None = None
    Update <- OrderUpdates
    OpenIds <- OneIdEach
    MaxUpdates = 3
    Rare = {"kill", "silence"}
SPECIFICATION OrderSpec
INVARIANT LatestUpdateWinsUnlessFlipped
CHECK_DEADLOCK FALSE
