\* Two deployments, three changes, two watch connections and one subscription:
\* creation, update, deletion and re-creation on both sides of a lost connection.
CONSTANTS
    Keys = {k1, k2}
    NoDep = NoDep
    MaxRev = 3
    MaxOpens = 2
    Subs = {s1}
    Capacity = 1
SPECIFICATION PageSpec
INVARIANTS
    CacheIsCurrent
    NoSilentGap
    PageIsCurrent
PROPERTY
    ImplementsFeed
\* The application may stop, and then nothing runs any more.
CHECK_DEADLOCK FALSE
