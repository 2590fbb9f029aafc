CONSTANTS
    Apps <- MCApps
    Fallible <- MCFallible
    Insistent <- MCInsistent
SPECIFICATION FairSpec
INVARIANTS
    LifecycleTypeOK
    NoSendOnClosed
    NoErrorLost
    NoneStuck
PROPERTY Returns
