CONSTANTS
    N = 1
    x = x
    a = a
    Prefix = {x}
    Attr = {a}
    None = None
    Update <- PlainUpdates
    OpenIds <- OneIdEach
    MaxUpdates = 1
    Rare = {}
SPECIFICATION Spec
INVARIANT FlushLeavesNothing
CHECK_DEADLOCK FALSE
