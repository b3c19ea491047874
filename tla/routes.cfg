CONSTANTS
    Null = Null
    Neighbor = {1, 2}
    Message <- MCMessage
    Probe <- MCProbe
    MaxMessages = 3
SPECIFICATION Spec
CHECK_DEADLOCK FALSE
INVARIANTS
    TypeOK
    TableFollowsNeighbors
    AttributesAreTheLatest
    SearchFindsCoveringRoutes
    CountMatchesUnlessRaced
    PrivateListIsPrivate
    FaultsOnlyOnOddMessages
