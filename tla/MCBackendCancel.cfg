\* The smallest system in which the watcher has an event when it is cancelled.
CONSTANTS
    Keys = {k1}
    NoDep = NoDep
    MaxRev = 1
    MaxOpens = 1
    Subs = {s1}
    Capacity = 1
SPECIFICATION FairSpec
PROPERTY
    CancelledWatcherReturns
\* The application may stop, and then nothing runs any more.
CHECK_DEADLOCK FALSE
