---------------------------- MODULE PatchItems ----------------------------
(***************************************************************************)
(* calculatePatch of core/modrulestoreitem.go for any engine that runs the *)
(* selects: every item a select yields becomes an operation of the JSON    *)
(* patch, with a path made from the item's keys.  The items are taken from *)
(* a Go map, in any order.  The caller applies the patch to the manifest.  *)
(***************************************************************************)
EXTENDS JSONPatch

CONSTANTS
    Manifests,     \* the manifests a rule may be applied to
    Patches,       \* the patch sections of rules: sequences of operations
    Refused(_),    \* a select that the engine does not parse
    Keys,          \* the keys of objects, and the decimals of indices: strings
    Found(_, _),   \* what a select yields of a manifest: values under lists of keys
    Places         \* the locations the properties look at

\* An operation is [op, path, value], with a field select where it has a select.
HasSelect(o) == "select" \in DOMAIN o

\* A path template is a sequence of keys and of placeholders #i.
Key(k) == [key |-> k]
Hole(i) == [hole |-> i]
PathParts == [key : Keys] \cup [hole : Nat]

\* A value template is a literal, {{ .SelectedItem }} or {{ .SelectedItem.f.g }}.
Literal(v) == [literal |-> v]
Item == [item |-> << >>]
ItemField(f, g) == [item |-> <<f, g>>]

\* What Sprintf writes for a placeholder beyond the parts.
BadIndex == "(BADINDEX)"

ASSUME KeysAssumption == {"1", "a", "b", BadIndex} \subseteq Keys

\* Without a select there are no placeholders: #i is a key like any other.
ASSUME PatchesAssumption ==
    \A p \in Patches :
        /\ p \in Seq({p[i] : i \in DOMAIN p})
        /\ \A i \in DOMAIN p : p[i].path \in Seq(IF HasSelect(p[i]) THEN PathParts ELSE [key : Keys])

\* Error is not a manifest but the lack of one.
ASSUME ManifestsAssumption == Error \notin Manifests

\* The result of a select is a Go map under strings of keys.
ASSUME FoundAssumption ==
    \A p \in Patches, d \in Manifests : \A i \in DOMAIN p :
        HasSelect(p[i]) /\ ~Refused(p[i].select) =>
            LET texts == DOMAIN Found(p[i].select, d)
            IN  IsFiniteSet(texts) /\ \A t \in texts : t \in Seq(Keys)

ASSUME PlacesAssumption == \A l \in Places : l \in Seq(Keys)

VARIABLES
    status,     \* where the calculation is
    doc,        \* the manifest
    patch,      \* the rule's operations: [op, select, path, value]
    at,         \* the operation whose items are being turned into a patch
    pathItems,  \* its items still to be turned: [text, keys, item]
    ops,        \* the JSON patch so far
    modified    \* the patched manifest

selectVars == <<status, doc, patch, at, pathItems, ops, modified>>

----------------------------------------------------------------------------
(* Keys and paths                                                          *)

\* Keys that rexSelectKeySegment, \["([^\[\]"]+)"\], does not find in the text of
\* a match's keys.
Unreadable == {"", "a[b", "a]b", "a\"b"}

\* extractMatches: a key that looks like a number is converted to it, and printed
\* in its shortest form.
Printed(k) == IF k = "01" THEN "1" ELSE k

\* keyPartsFromSelectKey: the keys of an item as the path template gets them.
keyPartsFromSelectKey(keys) ==
    LET parts[i \in 0 .. Len(keys)] ==
          IF i = 0 THEN << >>
          ELSE IF keys[i] \in Unreadable THEN parts[i - 1]
          ELSE Append(parts[i - 1], Printed(keys[i]))
    IN  parts[Len(keys)]

\* The path's text is split at "/" when it is applied; no part is escaped.
Split(k) == IF k = "a/b" THEN <<"a", "b">> ELSE <<k>>

\* The keys that one element of a template stands for; first is the number of
\* the part that #0 asks for.
Filled(parts, element, first) ==
    IF "hole" \notin DOMAIN element THEN <<element.key>>
    ELSE IF element.hole + first \in DOMAIN parts THEN Split(parts[element.hole + first])
    ELSE <<BadIndex>>

\* The path for the parts of a match.
FilledPath(parts, template, first) ==
    LET path[i \in 0 .. Len(template)] ==
          IF i = 0 THEN << >> ELSE path[i - 1] \o Filled(parts, template[i], first)
    IN  path[Len(template)]

\* Variant: placeholders count from one.
holesFromOne(parts, template) == FilledPath(parts, template, 0)

\* pathTemplateToSprintfTemplate and pathFromKeyParts: placeholders count from
\* zero; parts that no placeholder asks for are left out.
pathFromKeyParts(parts, template) == FilledPath(parts, template, 1)

BadPath(path) == \E i \in DOMAIN path : path[i] = BadIndex

----------------------------------------------------------------------------
(* Items and values                                                        *)

\* The items of an operation on manifest d: what its select yields, or one without
\* keys.  Matches whose keys read the same are items of their own all the same.
ItemsOf(found) ==
    {[text |-> t, keys |-> keyPartsFromSelectKey(t), item |-> found[t]] : t \in DOMAIN found}

Items(o, d) ==
    IF HasSelect(o) THEN ItemsOf(Found(o.select, d))
    ELSE {[text |-> << >>, keys |-> << >>, item |-> Null]}

\* modRuleValueToJSONValue, of a value printed by a template: nil has a text of
\* its own, and a string that reads as a number becomes one.
modRuleValueToJSONValue(v) ==
    CASE v \in {Null, Undef} -> Str("<no value>")
      [] v = Str("1") -> Num(1)
      [] OTHER -> v

\* The value of an operation for an item; a template that reads below a missing
\* field fails.
ValueFor(template, selectedItem) ==
    IF "literal" \in DOMAIN template THEN template.literal
    ELSE LET read == FoldLeft(LAMBDA v, f : IF IsA(v, "obj") THEN selectValue(Str(f), v) ELSE Error,
                              selectedItem, template.item)
         IN  IF read = Error THEN Error ELSE modRuleValueToJSONValue(read)

\* The operation of the JSON patch that an item of operation o becomes.
OperationFor(o, m) ==
    [op |-> o.op, path |-> pathFromKeyParts(m.keys, o.path), value |-> ValueFor(o.value, m.item)]

\* An item of a select whose keys do not fill the path.
Misfits(o, m) == HasSelect(o) /\ BadPath(pathFromKeyParts(m.keys, o.path))

----------------------------------------------------------------------------
\* newCompiledJSONPatch: the selects are parsed when the rule is stored.
Compile ==
    /\ status = "new"
    /\ status' = IF \E i \in DOMAIN patch : HasSelect(patch[i]) /\ Refused(patch[i].select)
                 THEN "refused" ELSE "select"
    /\ UNCHANGED <<doc, patch, at, pathItems, ops, modified>>

\* The next operation's select is run, on the manifest no operation has been
\* applied to.  One item whose keys do not fill the path fails the rule.
Select ==
    /\ status = "select" /\ at <= Len(patch)
    /\ \E items \in {Items(patch[at], doc)} :
         \/ /\ \E m \in items : Misfits(patch[at], m)
            /\ status' = "failed"
            /\ UNCHANGED pathItems
         \/ /\ \A m \in items : ~Misfits(patch[at], m)
            /\ pathItems' = items
            /\ status' = "emit"
    /\ UNCHANGED <<doc, patch, at, ops, modified>>

\* Variant: the template context keeps an item of the select other than the one
\* whose path is written.
StaleItem ==
    /\ status = "emit"
    /\ \E m \in pathItems, n \in Items(patch[at], doc) :
         /\ ops' = Append(ops, OperationFor(patch[at], [m EXCEPT !.item = n.item]))
         /\ pathItems' = pathItems \ {m}
    /\ UNCHANGED <<status, doc, patch, at, modified>>

\* One item, whichever the map iteration comes to, becomes an operation.
Emit ==
    /\ status = "emit"
    /\ \E m \in pathItems :
         LET o == OperationFor(patch[at], m)
         IN  \/ /\ o.value = Error
                /\ status' = "failed"
                /\ UNCHANGED <<pathItems, ops>>
             \/ /\ o.value # Error
                /\ pathItems' = pathItems \ {m}
                /\ ops' = Append(ops, o)
                /\ UNCHANGED status
    /\ UNCHANGED <<doc, patch, at, modified>>

\* Variant: the loop over the items is left before the last of them.
LeavesEarly ==
    /\ status = "emit" /\ Cardinality(pathItems) <= 1
    /\ status' = "select" /\ at' = at + 1
    /\ UNCHANGED <<doc, patch, pathItems, ops, modified>>

NextOperation ==
    /\ status = "emit" /\ pathItems = {}
    /\ status' = "select" /\ at' = at + 1
    /\ UNCHANGED <<doc, patch, pathItems, ops, modified>>

\* The caller applies the patch.
Apply ==
    /\ status = "select" /\ at > Len(patch)
    /\ LET new == ApplyAll(ops, doc)
       IN  /\ status' = IF new = Error THEN "unapplied" ELSE "applied"
           /\ modified' = new
    /\ UNCHANGED <<doc, patch, at, pathItems, ops>>

SelectInit ==
    /\ status = "new" /\ doc \in Manifests /\ patch \in Patches
    /\ at = 1 /\ pathItems = {} /\ ops = << >> /\ modified = doc

SelectNext == Compile \/ Select \/ Emit \/ NextOperation \/ Apply

SelectSpec == SelectInit /\ [][SelectNext]_selectVars

----------------------------------------------------------------------------
(* Properties                                                              *)

\* How many items the first i operations of rule p have.
Upto(p, d) ==
    LET count[i \in 0 .. Len(p)] ==
          IF i = 0 THEN 0 ELSE count[i - 1] + Cardinality(Items(p[i], d))
    IN  count

OperationsFor(o, d) == {OperationFor(o, m) : m \in Items(o, d)}

\* The JSON patch of calculatePatch has the operations of the rule in their
\* order, and of each of them as many as its select has items and those that the
\* items stand for, whatever order the items are taken in: none is lost, repeated
\* or mixed with those of another.
EmittedInTurn ==
    status \in {"select", "applied", "unapplied"} =>
        LET upto == Upto(patch, doc)
        IN  /\ Len(ops) = upto[at - 1]
            /\ \A i \in 1 .. at - 1 :
                  {ops[j] : j \in upto[i - 1] + 1 .. upto[i]} = OperationsFor(patch[i], doc)

\* All operations of the JSON patch that rule p stands for.
AllOperations(p, d) == UNION {OperationsFor(p[i], d) : i \in DOMAIN p}

\* The rule's selects parse, each of its operations is in place, and no two of
\* them touch the same location or one within the other.
InPlaceAndApart ==
    /\ \A i \in DOMAIN patch : ~(HasSelect(patch[i]) /\ Refused(patch[i].select))
    /\ \A o \in AllOperations(patch, doc) : ~BadPath(o.path) /\ o.value # Error /\ InPlace(doc, o)
    /\ \A o, p \in AllOperations(patch, doc) : o = p \/ Apart(o.path, p.path)

\* A rule whose operations replace what is there, or add to or remove from objects
\* that are there, at locations apart, succeeds in whatever order its items are
\* taken: each location has its value, taken from the manifest as it was, or none
\* any more, and no other location has changed.  So the indices that a later select found before any of
\* the operations was applied are still right when its operations are.
SetExactly ==
    status \in {"failed", "applied", "unapplied"} /\ InPlaceAndApart =>
        /\ status = "applied"
        /\ \A o \in AllOperations(patch, doc) : ValueAt(modified, o.path) = Becomes(o)
        /\ \A l \in Places : (\A o \in AllOperations(patch, doc) : Apart(l, o.path))
                                => ValueAt(modified, l) = ValueAt(doc, l)

============================================================================
