---------------------------- MODULE MCOperator ----------------------------
(***************************************************************************)
(* Two keys in one namespace; one has two versions that compile and one    *)
(* that the webhook accepts and the store rejects, the other a version the *)
(* webhook does not accept, for its tier.  One is written without the      *)
(* fields that Default fills in.                                           *)
(***************************************************************************)
EXTENDS Operator

Item == [select |-> "f", matchFor |-> "", matchValue |-> Nil, matchValues |-> {},
         matchRegex |-> Nil, negate |-> FALSE]

Written(ns, name, tier, broken) ==
    [namespace |-> ns, name |-> name, type |-> "Reject", executionTier |-> tier,
     admissionOperations |-> {}, targetNamespaceRegex |-> Nil,
     match |-> {Item}, patch |-> << >>, broken |-> broken]
OperatorRule(ns, name, tier, broken) == Default(Written(ns, name, tier, broken))

MCNamespaces == {"ns", "kubemod-system"}
MCClusterNamespace == "kubemod-system"
MCMinInt16 == -4
MCMaxInt16 == 3
MCModRules ==
    { Written("ns", "a", 0, {}), OperatorRule("ns", "a", 0, {}), OperatorRule("ns", "a", 2, {}),
      OperatorRule("ns", "a", 2, {"targetNamespaceRegex"}),
      OperatorRule("ns", "b", 1, {}), OperatorRule("ns", "b", MCMaxInt16, {}) }
============================================================================
