---------------------------- MODULE MCTierScan ----------------------------
(***************************************************************************)
(* The store and the scan on a small instance: two namespaces, four names  *)
(* in one of them in three tiers, two versions of one rule, two rules that *)
(* do not compile; calls at the bottom, in the middle and near the top of  *)
(* the tiers.                                                              *)
(***************************************************************************)
EXTENDS TierScan

ScanRule(nspace, name, tier, ops, regex, broken) ==
    [namespace |-> nspace, name |-> name, type |-> "Reject", executionTier |-> tier,
     admissionOperations |-> ops, targetNamespaceRegex |-> regex,
     match |-> {}, patch |-> << >>, broken |-> broken]

MCNamespaces == {"ns", "kubemod-system"}
MCClusterNamespace == "kubemod-system"
MCMinInt16 == -4
MCMaxInt16 == 3
MCMinTiers == {-3, 0, 2}
MCModRules ==
    { ScanRule("ns", "a", 0,  {"CREATE"}, Nil, {}),
      ScanRule("ns", "a", 2,  {"CREATE", "UPDATE"}, Nil, {}),
      ScanRule("ns", "b", -1, {"UPDATE"}, Nil, {}),
      ScanRule("ns", "c", 0,  {"CREATE", "UPDATE"}, Nil, {}),
      ScanRule("ns", "g", 0,  {"CREATE", "DELETE"}, Nil, {}),
      ScanRule("ns", "a", 1,  {"CREATE"}, Nil, {"targetNamespaceRegex"}),
      ScanRule("kubemod-system", "d", 0, {"CREATE"}, Nil, {}),
      ScanRule("kubemod-system", "e", -2, {"CREATE"}, {"ns", ""}, {}),
      ScanRule("kubemod-system", "f", 0, {"CREATE"}, {"ns", "kubemod-system"}, {}),
      ScanRule("kubemod-system", "f", 1, {"CREATE"}, Nil, {"patch.select:novalue"}) }
============================================================================
