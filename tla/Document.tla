----------------------------- MODULE Document -----------------------------
(***************************************************************************)
(* The resource manifest and what a rule does to it.  A manifest is kept   *)
(* as the presence and value of a few fields, and the contents of the      *)
(* annotation kubectl.kubernetes.io/last-applied-configuration, itself a   *)
(* manifest.  The JSON Patch library is external and modelled from how     *)
(* core/modrulestore.go configures and uses it.                            *)
(***************************************************************************)
EXTENDS Match

CONSTANTS
    Fields,   \* the fields of a manifest the rules look at or write
    Values    \* the values they take, as strings

\* The path /metadata/annotations, which holds last-applied-configuration.
AnnotationsPath == "/metadata/annotations"

Objects == [Fields -> Values \cup {Nil}]
Documents == [object : Objects, lastApplied : Objects \cup {Nil}]

\* The patch operations of rules: a value, or the field a template reads it from.
PatchOperations == [op : {"add", "replace", "remove"}, path : Fields \cup {AnnotationsPath},
                    value : Values, from : Fields \cup {Nil}]

ASSUME NilAssumption == Nil \notin Objects /\ Nil \notin Documents

ASSUME PatchAssumption == \A r \in ModRules : r.patch \in Seq(PatchOperations)

----------------------------------------------------------------------------
(* Matching and patch calculation against a manifest                       *)

\* A select of one field: its value, or undefined where the key is missing.
Select(doc, field) ==
    IF doc.object[field] = Nil
    THEN [kind |-> "undefined", values |-> << >>]
    ELSE [kind |-> "value", values |-> <<doc.object[field]>>]

\* IsMatch: all of the rule's match items are positive.
IsMatch(r, doc) == \A item \in r.match : isMatch(item, Select(doc, item.select))

\* calculatePatch: the value templates of all operations are evaluated against
\* the same manifest before any operation is applied.  A template that reads
\* below a missing field fails, and with it the whole rule.
CalculateFails(r, doc) ==
    \E i \in DOMAIN r.patch : r.patch[i].from # Nil /\ doc.object[r.patch[i].from] = Nil

calculatePatch(r, doc) ==
    [i \in DOMAIN r.patch |->
        [op |-> r.patch[i].op, path |-> r.patch[i].path,
         value |-> IF r.patch[i].from = Nil THEN r.patch[i].value
                                            ELSE doc.object[r.patch[i].from]]]

----------------------------------------------------------------------------
(* evanphx/json-patch, with jsonPatchApplyOptions: an add creates missing  *)
(* parents, a remove of a missing path is ignored, a replace of a missing  *)
(* path fails.                                                             *)

ApplyOperation(doc, o) ==
    CASE doc = Nil                 -> Nil
      [] doc # Nil /\ o.path = AnnotationsPath ->
            IF o.op = "remove" THEN [doc EXCEPT !.lastApplied = Nil] ELSE doc
      [] doc # Nil /\ o.path # AnnotationsPath /\ o.op = "replace"
            /\ doc.object[o.path] = Nil -> Nil
      [] OTHER -> [doc EXCEPT !.object[o.path] = IF o.op = "remove" THEN Nil ELSE o.value]

\* Patch.ApplyWithOptions on a manifest: the patched manifest, or Nil if one of
\* the operations fails.
ApplyWithOptions(ops, doc) ==
    LET after[i \in 0 .. Len(ops)] ==
          IF i = 0 THEN doc ELSE ApplyOperation(after[i - 1], ops[i])
    IN  after[Len(ops)]

\* Variant: the annotation is left as it was.
LastAppliedNotPatched(ops, config) == config

\* The same patch applied to the contents of the annotation.
ApplyToLastApplied(ops, config) ==
    LET d == ApplyWithOptions(ops, [object |-> config, lastApplied |-> Nil])
    IN  IF d = Nil THEN Nil ELSE d.object

============================================================================
