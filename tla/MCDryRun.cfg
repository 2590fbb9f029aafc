CONSTANTS
    Namespaces <- MCDryRunNamespaces
    ClusterNamespace <- MCClusterNamespace
    ModRules <- MCNoRules
    MinInt16 <- MCMinInt16
    MaxInt16 <- MCMaxInt16
    Fields <- MCFields
    Values <- MCValues
    Requests <- MCNoRequests
    Payloads <- MCPayloads
    Nil = Nil
SPECIFICATION DryRunSpec
INVARIANT DryRunReportsRejections
