\* One connection that is never lost: a deployment is created and deleted.
CONSTANTS
    Keys = {k1}
    NoDep = NoDep
    MaxRev = 2
    MaxOpens = 1
    Subs = {s1}
    Capacity = 2
SPECIFICATION Spec
INVARIANT
    InitialEventsAreCurrent
\* The application may stop, and then nothing runs any more.
CHECK_DEADLOCK FALSE
