CONSTANTS
    Nodes <- MCNodes
    None = None
    MaxAttempts = 3
    MaxWrites = 2
SPECIFICATION FairSpec
INVARIANTS
    PodTypeOK
    AnnotationHolds
    WaitedForIsServed
PROPERTIES
    NoWriteUndone
    NeverHeldUp
