\* A tab that goes back and forth between two deployments, with up to two
\* requests under way, one of them of an earlier visit, and two versions in the cache.
CONSTANTS
    Keys = {k1, k2}
    NoKey = NoKey
    Hooks = {"tab"}
    Requests = {r1, r2}
    NoData = NoData
    MaxVersion = 2
SPECIFICATION FairSpec
INVARIANTS
    HookTypeOK
    LoadingIsHonest
    DataIsOfThePage
PROPERTIES
    DataGoesForward
    PageIsServed
