CONSTANTS
    Namespaces <- MCNamespaces
    ClusterNamespace <- MCClusterNamespace
    ModRules <- MCModRules
    MinInt16 <- MCMinInt16
    MaxInt16 <- MCMaxInt16
    Fields <- MCFields
    Values <- MCValues
    Requests <- MCRequests
    Nil = Nil
SPECIFICATION FairSpec
CONSTRAINT OneKind
INVARIANTS
    AdmissionTypeOK
    NoRuleSkipped
    RejectEnforced
    MirrorKept
    DeniedForCause
PROPERTIES
    TiersRise
    HandleAdvances
    Answered
