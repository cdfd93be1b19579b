\* Every version of the format, up to two items in each list, changelog handles
\* within changelog handles, and all integers of the smallest width.
CONSTANTS
    ParseFull = FALSE
    Versions = {2, 3, 4, 5, 6}
    IntMax = 1
    MaxCount = 2
    MaxNesting = 1
SPECIFICATION Spec
INVARIANTS
    TypeOK
    NothingUncounted
    IndexIsNatural
PROPERTY
    ReadsTheSameFile
\* The parser returns.
CHECK_DEADLOCK FALSE
