CONSTANTS
    Namespaces <- MCNamespaces
    ClusterNamespace <- MCClusterNamespace
    ModRules <- MCModRules
    MinInt16 <- MCMinInt16
    MaxInt16 <- MCMaxInt16
    Fields <- MCFields
    Values <- MCValues
    Requests <- MCPartialRequests
    Nil = Nil
SPECIFICATION Spec
CONSTRAINT OneKind
INVARIANT AddedFieldsReachLastApplied
