\* A second attempt is enough for two streams to run at once, if that can happen.
CONSTANTS
    Attempts = {a1, a2}
    NoAttempt = NoAttempt
    Events <- MCEvents
SPECIFICATION FairSpec
INVARIANTS
    TypeOK
    OneStream
    NeverStranded
    NothingAfterUnmount
    ConnectedIsLive
PROPERTIES
    SilenceIsNoticed
    Reconnects
