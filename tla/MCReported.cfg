CONSTANTS
    Namespaces <- MCNamespaces
    ClusterNamespace <- MCClusterNamespace
    MinInt16 <- MCMinInt16
    MaxInt16 <- MCMaxInt16
    Nil = Nil
    ModRules <- MCModRules
SPECIFICATION Spec
INVARIANT ReportedIsStored
