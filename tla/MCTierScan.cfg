CONSTANTS
    Namespaces <- MCNamespaces
    ClusterNamespace <- MCClusterNamespace
    ModRules <- MCModRules
    MinInt16 <- MCMinInt16
    MaxInt16 <- MCMaxInt16
    MinTiers <- MCMinTiers
    Nil = Nil
SPECIFICATION Spec
INVARIANTS
    StoreTypeOK
    UniqueNames
    HomeNamespace
    ScanIsExact
PROPERTIES
    ImplementsRuleMap
    CallsAreExact
