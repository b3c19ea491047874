CONSTANTS
    N = 1
    x = x
    a = a
    Prefix = {x}
    Attr = {a}
    None = None
    Update <- SmallUpdates
    OpenIds <- OneIdEach
    MaxUpdates = 2
    Rare = {"alloc", "resize", "badopen", "kill", "silence"}
SPECIFICATION LiveRemoteSpec
INVARIANTS TypeOK OwnedRoutes WithdrawFindsPeer InQCoversQueue
PROPERTIES KillEndsProcess EofReconnects QueueServed
CHECK_DEADLOCK FALSE
