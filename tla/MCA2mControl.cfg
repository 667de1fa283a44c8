SPECIFICATION Spec
CONSTANTS
    Mixes <- MCMixes
    MaxSessions = 2
INVARIANTS
    TypeOK
    OwnReply
    TokenedDataFresh
    SessionsAccounted
    MirrorCoherent
    WaitHasAnswer
