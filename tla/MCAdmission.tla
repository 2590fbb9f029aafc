---------------------------- MODULE MCAdmission ----------------------------
(***************************************************************************)
(* One request against a store that changes under it: five tiers, Patch    *)
(* rules that can fail, Reject rules that match only patched or only       *)
(* unpatched manifests, a rule that changes tier, cluster-wide rules.      *)
(***************************************************************************)
EXTENDS Admission

MCNamespaces == {"ns", "kubemod-system"}
MCClusterNamespace == "kubemod-system"
MCMinInt16 == -4
MCMaxInt16 == 3
MCFields == {"f", "g"}
MCValues == {"x", "y"}

Present(field) ==
    [select |-> field, matchFor |-> "", matchValue |-> Nil, matchValues |-> {},
     matchRegex |-> Nil, negate |-> FALSE]
\* The schema of ModRule asks for a match item; this one is positive for them all.
Anything == [Present("f") EXCEPT !.matchValue = "z", !.negate = TRUE]
HasValue(field, value) == [Present(field) EXCEPT !.matchValue = value]

PatchOp(op, path, value, from) == [op |-> op, path |-> path, value |-> value, from |-> from]

Rule(ns, name, type, t, ops, regex, match, patch) ==
    Default([namespace |-> ns, name |-> name, type |-> type, executionTier |-> t,
             admissionOperations |-> ops, targetNamespaceRegex |-> regex,
             match |-> match, patch |-> patch, broken |-> {}])

AddG == <<PatchOp("add", "g", "y", Nil)>>
ReplaceF == <<PatchOp("replace", "f", "y", Nil)>>
CopyGToF == <<PatchOp("add", "f", "x", "g")>>
DropAnnotations == <<PatchOp("remove", AnnotationsPath, "x", Nil)>>

AddGRule      == Rule("ns", "addg", "Patch", -1, {}, Nil, {HasValue("f", "x")}, AddG)
AddGRuleMoved == [AddGRule EXCEPT !.executionTier = 1]
ReplaceFRule  == Rule("ns", "replacef", "Patch", 0, {}, Nil, {Anything}, ReplaceF)
CopyRule      == Rule("kubemod-system", "copy", "Patch", -1, {"UPDATE"}, {"ns", ""}, {Anything}, CopyGToF)
RejectGRule   == Rule("ns", "rejectg", "Reject", 1, {}, Nil, {HasValue("g", "y")}, << >>)
RejectNoFRule == Rule("kubemod-system", "nof", "Reject", -3, {"UPDATE"}, {"ns", "kubemod-system"},
                      {[Present("f") EXCEPT !.negate = TRUE]}, << >>)
BlankRule     == Rule("kubemod-system", "drop", "Patch", 2, {"CREATE", "UPDATE"}, Nil, {Present("f")},
                      DropAnnotations)

\* Rules that reject what others patch, or what they leave, and rules whose
\* patches fail, read each other's results or remove annotations.
RejectingRules == {AddGRule, AddGRuleMoved, ReplaceFRule, RejectGRule, RejectNoFRule}
PatchingRules  == {AddGRule, ReplaceFRule, CopyRule, BlankRule}
MCModRules == RejectingRules \cup PatchingRules

\* Bound: the rules stored at a time are of one kind or the other.
OneKind == Stored \subseteq RejectingRules \/ Stored \subseteq PatchingRules

Obj(f, g) == [k \in {"f", "g"} |-> IF k = "f" THEN f ELSE g]
Plain    == [object |-> Obj("x", Nil), lastApplied |-> Nil]
Mirrored == [object |-> Obj("x", Nil), lastApplied |-> Obj("x", Nil)]
MirroredNoField == [object |-> Obj(Nil, "y"), lastApplied |-> Obj(Nil, "y")]
Partial  == [object |-> Obj("x", Nil), lastApplied |-> Obj(Nil, Nil)]
NoField  == [object |-> Obj(Nil, "y"), lastApplied |-> Nil]

Request(op, ns, isNamespace, object) ==
    [operation |-> op, namespace |-> ns, isNamespace |-> isNamespace, object |-> object]

MCRequests ==
    { Request("CREATE", "ns", FALSE, Plain), Request("UPDATE", "ns", FALSE, Mirrored),
      Request("UPDATE", "ns", FALSE, MirroredNoField), Request("UPDATE", "ns", TRUE, NoField),
      Request("UPDATE", "kubemod-system", FALSE, Mirrored) }

\* Requests for the runs that look for one violation.
MCBypassRequests == {Request("CREATE", "ns", FALSE, Plain), Request("UPDATE", "ns", FALSE, NoField)}
MCPartialRequests == {Request("UPDATE", "ns", FALSE, Partial)}
============================================================================
