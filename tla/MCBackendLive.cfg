\* One deployment with three changes, one subscription, two watch connections.
CONSTANTS
    Keys = {k1}
    NoDep = NoDep
    MaxRev = 3
    MaxOpens = 2
    Subs = {s1}
    Capacity = 1
SPECIFICATION FairSpec
PROPERTIES
    EveryVersionIsCached
    CachedVersionsAreShown
    LeftClientsAreRemoved
    ShutdownEndsStreams
\* The application may stop, and then nothing runs any more.
CHECK_DEADLOCK FALSE
