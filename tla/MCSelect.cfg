CONSTANTS
    Namespaces <- MCNamespaces
    ClusterNamespace <- MCClusterNamespace
    ModRules <- MCModRules
    MinInt16 <- MCMinInt16
    MaxInt16 <- MCMaxInt16
    Nil = Nil
    Texts <- MCTexts
    MaxValues <- MCMaxValues
    Manifests <- MCManifests
    Patches <- MCPatches
    Keys <- MCKeys
    Refused <- ParseFails
    Found <- SelectResult
    Places <- MCPlaces
SPECIFICATION Spec
INVARIANTS
    OneCriterionAsDocumented
    NegateInverts
    SelectsExact
    UndefinedNeverSelects
    ReplaceExact
    EmittedInTurn
    SetExactly
CHECK_DEADLOCK FALSE
