CONSTANTS
    Objects <- MCObjects
    Bases = {"checkpoints", "savepoints"}
    Segments = {1, 2, 3}
    CheckpointNames = {1, 2}
    MaxChanges = 2
    NoBase = NoBase
    JobIds = {"1-"}
    NoJob = NoJob
    Dashless <- MCDashless
SPECIFICATION FairSpec
INVARIANTS
    TypeOK
    NothingInvented
    FailuresStayLocal
    RowsAreDistinct
PROPERTIES
    RequestIsAnswered
