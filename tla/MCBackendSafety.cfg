\* Two subscriptions of one deployment that come and go, each with room for one
\* event, over two watch connections and two changes of the cluster.
CONSTANTS
    Keys = {k1}
    NoDep = NoDep
    MaxRev = 2
    MaxOpens = 2
    Subs = {s1, s2}
    Capacity = 1
SPECIFICATION Spec
SYMMETRY SlotSymmetry
INVARIANTS
    TypeOK
    NoClosedRegistered
\* The application may stop, and then nothing runs any more.
CHECK_DEADLOCK FALSE
