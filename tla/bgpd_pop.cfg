CONSTANTS
    N = 1
    x = x
    a = a
    Prefix = {x}
    Attr = {a}
    None = None
    Update <- PlainUpdates
    OpenIds <- OneIdEach
    MaxUpdates = 2
    Rare = {}
SPECIFICATION Spec
INVARIANT PopsWhatItCopied
CHECK_DEADLOCK FALSE
