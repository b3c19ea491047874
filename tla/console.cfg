CONSTANTS
    Instance = {p1, p2}
    Conn = {c1, c2}
    Line <- MCLine
    RouterId <- MCRouterId
    InitTable <- MCInitTable
    MaxFd = 2
    MaxLines = 2
    MaxAccepts = 3
    Numeral <- MCNumeral
    Address <- MCAddress
    Garbage = "garbage"
    Junk = 255
    DefaultBuffer <- MCDefaultBuffer
    Abbreviation <- MCAbbreviation
SPECIFICATION Spec
SYMMETRY MCSymmetry
CHECK_DEADLOCK FALSE
INVARIANTS
    TypeOK
    LineRunsItsOwnCommand
    OneAliasPerValue
    AliasReachesEveryView
    LogsGoWhereConfigured
    SavedConfigReplays
    AnswerReachesAsker
    DescriptorsAreReturned
    OneInstanceServes
