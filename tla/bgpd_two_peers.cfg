CONSTANTS
    N = 2
    x = x
    a = a
    Prefix = {x}
    Attr = {a}
    None = None
    Update <- PlainUpdates
    OpenIds <- OneIdEach
    MaxUpdates = 2
    Rare = {}
SPECIFICATION Spec
INVARIANTS SessionStartsEmpty
PROPERTIES RouteRemovalIsOwned ImplementsAdjRibIn
CHECK_DEADLOCK FALSE
