CONSTANTS
    Key = {k1, k2}
    None = None
    PathLength = {0, 1, 2}
    max_records = 2
    MaxInserts = 5
SPECIFICATION Spec
INVARIANTS TypeOK IntactBelowRewind NewestIntact SpinsOnlyAfterOverwrite
SYMMETRY KeySymmetry
CHECK_DEADLOCK FALSE
