CONSTANTS
    Nodes <- MCNodes
    None = None
    MaxAttempts = 3
    MaxWrites = 2
SPECIFICATION Spec
INVARIANT AnnotationNamesNode
