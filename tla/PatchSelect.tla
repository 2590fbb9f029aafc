---------------------------- MODULE PatchSelect ----------------------------
(***************************************************************************)
(* calculatePatch with the JSONPath engine: the selects of a rule and the  *)
(* patch that is made from what they yield, against what a select means.   *)
(***************************************************************************)
EXTENDS JSONPath, PatchItems

\* cop.patchSelect: the value of the select's path in a manifest.
SelectResult(select, d) == jsonObject(parsePath(select), d)

----------------------------------------------------------------------------
(* What a select means, apart from how it is evaluated.                    *)

RECURSIVE Locations(_)
Locations(v) ==
    {<< >>} \cup UNION {{m.key \o l : l \in Locations(m.val)} : m \in ToSet(visitAll(v))}

\* Key k of a value, as an expression names it.
IndexOf(k) == CHOOSE i \in 0 .. 4 : Itoa(i) = k
Names(key, k) ==
    key = Str(k) \/ (IsA(key, "num") /\ \E i \in 0 .. 4 : Itoa(i) = k /\ key.num = i)

\* Selector s of a path leads from value v to its member k.
Admits(s, k, v) ==
    CASE s.sel = "direct" -> Names(Eval(s.key, doc, v), k)
      [] s.sel = "multi"  -> \E i \in DOMAIN s.keys : Names(Eval(s.keys[i], doc, v), k)
      [] s.sel = "star"   -> TRUE
      [] s.sel = "filter" -> EvalBool(Eval(s.cond, doc, Child(v, k)))
      [] s.sel = "range"  -> /\ IsA(v, "arr")
                             /\ \A e \in {s.min, s.max, s.step} : IsA(Eval(e, doc, v), "num")
                             /\ InRange(IndexOf(k), Eval(s.min, doc, v).num, Eval(s.max, doc, v).num,
                                        Eval(s.step, doc, v).num, Len(v.arr))

\* The locations a path selects, each with its keys.  A location is cut into as
\* many pieces as the path has selectors, one key for each but ".", which takes
\* any number of keys; the keys of the match are the pieces of its ambiguous
\* selectors.
Selected(path) ==
    LET n == Len(path)
        mappers == {i \in 1 .. n : path[i].sel = "mapper"}
        Cuts(l) == {c \in {[i \in 1 .. n |-> IF i \in mappers THEN m[i] ELSE 1] :
                                m \in [mappers -> 0 .. Len(l)]} :
                       FoldLeft(+, 0, c) = Len(l)}
        From(c, i) == FoldLeft(+, 0, SubSeq(c, 1, i - 1))
        Fits(l, c) == \A i \in 1 .. n \ mappers :
                        Admits(path[i], l[From(c, i) + 1], ValueAt(doc, SubSeq(l, 1, From(c, i))))
        KeysOf(l, c) ==
            LET branches == SelectSeq([i \in 1 .. n |-> i], LAMBDA i : Ambiguous(path[i]))
            IN  [j \in DOMAIN branches |->
                   SubSeq(l, From(c, branches[j]) + 1, From(c, branches[j]) + c[branches[j]])]
    IN  UNION {{[location |-> l, keys |-> KeysOf(l, c)] : c \in {d \in Cuts(l) : Fits(l, d)}} :
               l \in Locations(doc)}

\* The path of an operation's select, and whether it leads to locations at all:
\* a script computes a value instead.
PathOf(o) == parsePath(o.select)
Addresses(o) == HasSelect(o) /\ \A i \in DOMAIN o.select : o.select[i].step # "script"

----------------------------------------------------------------------------
(* Properties                                                              *)

\* A select yields exactly the values at the locations it describes, each with
\* the keys that lead to it, whatever the manifest lacks: paths that end early,
\* ranges longer than the array, filters that fail or yield no boolean on some of
\* the members.
SelectsExact ==
    status = "select" /\ at = 1 =>
        \A i \in DOMAIN patch : Addresses(patch[i]) =>
            ToSet(visitMatchs(PathOf(patch[i]), doc, doc))
              = {[keys |-> s.keys, val |-> ValueAt(doc, s.location)] : s \in Selected(PathOf(patch[i]))}

\* The paths a filter condition has to have a value for to be true: the operands
\* of "==" and ">", and those of "&&" with what they need in turn.
PathsIn(e) == IF "current" \in DOMAIN e THEN {e.current} ELSE {}

RECURSIVE Needs(_)
Needs(e) ==
    IF "infix" \notin DOMAIN e THEN {}
    ELSE CASE e.infix \in {"==", ">"} -> PathsIn(e.left) \cup PathsIn(e.right)
           [] e.infix = "&&" -> UNION {PathsIn(x) \cup Needs(x) : x \in {e.left, e.right}}
           [] OTHER -> {}

\* README, "Makes all equality and arithmetic comparisons to undefined return
\* false" and "all boolean operators require boolean operands": a filter never
\* selects an item for being equal to or greater than, or in conjunction with,
\* what the item lacks.  "!=" is left out: there the code does not do what the
\* README says, see NotEqual.
UndefinedNeverSelects ==
    status = "select" /\ at = 1 =>
        \A i \in DOMAIN patch : Addresses(patch[i]) =>
            LET path == PathOf(patch[i])
                final == Last(path)
            IN  path # << >> /\ final.sel = "filter" =>
                  \A m \in ToSet(visitMatchs(path, doc, doc)) :
                    \A p \in Needs(final.cond) : Present(Evaluate(p, doc, m.val))

\* The locations a rule with one operation is to change, with their values.
Targets(o) ==
    {[location |-> FilledPath(FlattenSeq(s.keys), o.path, 1),
      value |-> ValueFor(o.value, ValueAt(doc, s.location))] : s \in Selected(PathOf(o))}

\* The rule is one operation op whose targets are there and apart, with keys
\* that a JSON pointer writes as they are.
OneOperation(op) ==
    /\ Len(patch) = 1 /\ Addresses(patch[1]) /\ patch[1].op = op
    /\ \A s \in Selected(PathOf(patch[1])) : \A k \in ToSet(FlattenSeq(s.keys)) :
          k \notin Unreadable /\ Printed(k) = k /\ Split(k) = <<k>>
    /\ \A t \in Targets(patch[1]) : t.location \in Locations(doc) /\ t.value # Error
    /\ \A t, u \in Targets(patch[1]) : t # u => Apart(t.location, u.location)

\* A replace with a select puts the right value at each of its targets and
\* nothing anywhere else, in whatever order the items are taken.
ReplaceExact ==
    status \in {"failed", "applied", "unapplied"} /\ OneOperation("replace") =>
        /\ status = "applied"
        /\ \A t \in Targets(patch[1]) : ValueAt(modified, t.location) = t.value
        /\ \A l \in Locations(doc) :
              (\A t \in Targets(patch[1]) : Apart(l, t.location))
                => ValueAt(modified, l) = ValueAt(doc, l)

\* A value without what is at a set of locations, all taken away at once.
RECURSIVE Without(_, _, _)
Without(v, here, locations) ==
    CASE IsA(v, "arr") ->
           LET kept == SelectSeq([i \in DOMAIN v.arr |-> i],
                                 LAMBDA i : Append(here, Itoa(i - 1)) \notin locations)
           IN  Arr([j \in DOMAIN kept |->
                      Without(v.arr[kept[j]], Append(here, Itoa(kept[j] - 1)), locations)])
      [] IsA(v, "obj") ->
           Obj([k \in {x \in DOMAIN v.obj : Append(here, x) \notin locations} |->
                  Without(v.obj[k], Append(here, k), locations)])
      [] OTHER -> v

\* README: "the patch is executed once for each item yielded by select": a remove
\* with a select removes each selected item, and no other.
EachItemOnce ==
    status = "applied" /\ OneOperation("remove") =>
        modified = Without(doc, << >>, {t.location : t \in Targets(patch[1])})

============================================================================
