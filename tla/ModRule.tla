------------------------------ MODULE ModRule ------------------------------
(***************************************************************************)
(* The ModRule resource: the data every other module works on.             *)
(*                                                                         *)
(* A rule is a record.  Its texts (regular expressions, JSONPath queries,  *)
(* templates) are kept as what they mean to the program: the set of        *)
(* namespaces targetNamespaceRegex matches, the match items, the patch     *)
(* operations, and in "broken" the parts whose text does not parse.        *)
(* The module states what the validating webhook accepts and what the      *)
(* store can compile, which are two different things in the code.          *)
(***************************************************************************)
EXTENDS Integers, Sequences, FiniteSets

CONSTANTS
    Namespaces,        \* the namespaces of the cluster, as non-empty strings
    ClusterNamespace,  \* clusterModRulesNamespace, "kubemod-system" by default
    ModRules,          \* the rules users may write
    MinInt16, MaxInt16, \* the bounds of int16, small in the TLC instances
    Nil                \* Go's nil: an absent optional field, a missing key, no document

\* req.Namespace of a resource that lives in no namespace.
NoNamespace == ""

Operations == {"CREATE", "UPDATE", "DELETE"}

\* The parts of a rule whose text is parsed.  "patch.select" is the select of
\* an operation with a value, "patch.select:novalue" of one without.
CompiledParts == {"targetNamespaceRegex", "match.select", "match.matchRegex",
                  "patch.select", "patch.select:novalue", "patch.value",
                  "rejectMessage"}

\* Two's complement int16 addition, as Go wraps it.
Int16Add(a, b) ==
    LET width == MaxInt16 - MinInt16 + 1
    IN  MinInt16 + ((a + b - MinInt16) % width)

ASSUME Int16Assumption ==
    /\ MinInt16 \in Int /\ MaxInt16 \in Int
    /\ MinInt16 < MaxInt16

ASSUME NamespaceAssumption ==
    /\ NoNamespace \notin Namespaces
    /\ ClusterNamespace \in Namespaces

ASSUME ModRulesAssumption ==
    \A r \in ModRules :
        /\ r.namespace \in Namespaces
        /\ r.executionTier \in MinInt16..MaxInt16

----------------------------------------------------------------------------
(* api/v1beta1/modrule_webhook.go                                          *)

\* Default: a match item without matchFor asks for any of its values, and a rule
\* that names no admission operation applies to these two.
Default(r) ==
    [r EXCEPT !.match = {[m EXCEPT !.matchFor = IF @ = "" THEN "Any" ELSE @] : m \in @},
              !.admissionOperations = IF @ = {} THEN {"CREATE", "UPDATE"} ELSE @]

\* The parts validateModRule parses.  It never looks at targetNamespaceRegex,
\* and looks at the select of a patch operation only if that has a value.
ValidatedParts == CompiledParts \ {"targetNamespaceRegex", "patch.select:novalue"}

\* validateModRule: what ValidateCreate and ValidateUpdate accept.  (A Patch rule
\* with a rejectMessage is refused as well; rules here have one only if of type
\* Reject.)
validateModRule(r) ==
    /\ r.type \in {"Patch", "Reject"}
    /\ (r.type = "Patch") = (Len(r.patch) > 0)
    /\ r.executionTier \notin {MinInt16, MaxInt16}
    /\ \A m \in r.match : m.matchFor \in {"Any", "All"}
    /\ r.broken \cap ValidatedParts = {}

----------------------------------------------------------------------------
(* core/modrulestoreitem.go                                                *)

\* NewModRuleStoreItem succeeds: every part of the rule compiles.
Compiles(r) == r.broken \cap CompiledParts = {}

============================================================================
