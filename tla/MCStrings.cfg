\* Two strings in a row: what the first one leaves is where the second begins.
CONSTANTS
    Texts <- MCTexts
    Fields = 2
SPECIFICATION Spec
INVARIANTS
    StringsAreWritten
    CutsAreNoticed
    RunsAreListed
    PathsAreListed
\* A file is read once.
CHECK_DEADLOCK FALSE
