----------------------------- MODULE JSONPath -----------------------------
(***************************************************************************)
(* jsonpath/: the JSONPath engine.                                         *)
(*                                                                         *)
(* A query is parsed from steps (.a, .*, .., [...], (...)) to a path, a    *)
(* sequence of selectors.  A plain selector yields one value; an ambiguous *)
(* one yields any number of values, each under a key.  A match is a value  *)
(* with the keys that the ambiguous selectors of its path went through,    *)
(* which is what the placeholders of a patch's path are filled from.       *)
(***************************************************************************)
EXTENDS Expressions, Ranges, SequencesExt

MaxInt32 == 2147483647

----------------------------------------------------------------------------
(* Expressions are written as trees: a literal, a path from the root "$" or *)
(* the current element "@", a call, an operator, a conditional.            *)

Lit(v) == [lit |-> v]
Root(path) == [root |-> path]
Current(path) == [current |-> path]
Fn(function, e) == [call |-> function, arg |-> e]
Op(a, operator, b) == [infix |-> operator, left |-> a, right |-> b]
Negation(e) == [negated |-> e]
Conditional(x, a, b) == [cond |-> x, yes |-> a, no |-> b]

----------------------------------------------------------------------------
(* parse.go.  The steps a query is written in, and the selectors they are  *)
(* parsed to.  In a bracket, keys are expressions; Omitted stands for a    *)
(* bound of a range that is left out, sep for what separates the keys.     *)

Omitted == [omitted |-> TRUE]
ParseError == [parse |-> "error"]

Ident(key) == [step |-> "ident", key |-> key]
Star == [step |-> "star"]
Dots == [step |-> "dots"]
Script(e) == [step |-> "script", expr |-> e]
Bracket(sep, keys) == [step |-> "bracket", sep |-> sep, keys |-> keys]

direct(key) == [sel |-> "direct", key |-> key]
star == [sel |-> "star"]
mapperSelector == [sel |-> "mapper"]
filterSelector(cond) == [sel |-> "filter", cond |-> cond]
rangeSelector(min, max, step) == [sel |-> "range", min |-> min, max |-> max, step |-> step]
newScript(e) == [sel |-> "script", expr |-> e]
multiSelector(keys) == IF keys = << >> THEN star ELSE [sel |-> "multi", keys |-> keys]

Ambiguous(s) == s.sel \in {"star", "mapper", "filter", "range", "multi"}

\* parseBracket: a bound that is left out before a ":" is 0, or, as the second,
\* MaxInt32.
RangeKeys(keys) ==
    [i \in DOMAIN keys |-> IF keys[i] # Omitted THEN keys[i]
                           ELSE Lit(Num(IF i = 2 THEN MaxInt32 ELSE 0))]

\* The bracket of parsePath, or of parseMapper if it follows "..".
BracketSelector(step, afterDots) ==
    LET keys == step.keys
        defaults == <<Lit(Num(0)), Lit(Num(MaxInt32)), Lit(Num(1))>>
        bounds == RangeKeys(keys) \o SubSeq(defaults, Len(keys) + 1, 3)
    IN  CASE step.sep = ":" /\ (afterDots \/ Len(keys) > 3) -> ParseError
          [] step.sep = ":" /\ ~afterDots /\ Len(keys) <= 3 ->
                rangeSelector(bounds[1], bounds[2], bounds[3])
          [] step.sep = "?" /\ Len(keys) # 1 -> ParseError
          [] step.sep = "?" /\ Len(keys) = 1 -> filterSelector(keys[1])
          [] step.sep = "," /\ Len(keys) = 1 /\ ~afterDots -> direct(keys[1])
          [] step.sep = "," /\ (Len(keys) # 1 \/ afterDots) -> multiSelector(keys)

StepSelector(step, afterDots, last) ==
    CASE step.step = "ident"   -> direct(Lit(Str(step.key)))
      [] step.step = "star"    -> star
      [] step.step = "dots"    -> IF afterDots \/ last THEN ParseError ELSE mapperSelector
      [] step.step = "script"  -> newScript(step.expr)
      [] step.step = "bracket" -> BracketSelector(step, afterDots)

\* parsePath: the path the steps stand for; parsing fails at the first error.
parsePath(steps) ==
    [i \in DOMAIN steps |->
        StepSelector(steps[i], i > 1 /\ steps[i - 1] = Dots, i = Len(steps))]

ParseFails(steps) == \E i \in DOMAIN steps : parsePath(steps)[i] = ParseError

----------------------------------------------------------------------------
(* selector.go, path.go.  Paths and expressions are evaluated for a root   *)
(* and a current element, the value of "@".                                *)

RECURSIVE Eval(_, _, _)
RECURSIVE mapper(_)
RECURSIVE visitMatchs(_, _, _)

Present(v) == v \notin {Error, Undef}

\* The string under which a key's value is matched.
jkey(key) == IF IsA(key, "num") THEN Itoa(key.num) ELSE key.str

Hit(key, v) == [key |-> key, val |-> v]

\* visitAll: the members of an array or an object; an object's in any order.
visitAll(v) ==
    CASE IsA(v, "arr") -> [i \in DOMAIN v.arr |-> Hit(<<Itoa(i - 1)>>, v.arr[i])]
      [] IsA(v, "obj") -> LET ks == SetToSeq(DOMAIN v.obj)
                          IN  [i \in DOMAIN ks |-> Hit(<<ks[i]>>, v.obj[ks[i]])]
      [] OTHER -> << >>

\* mapper: the value itself and everything below it, under the lists of keys
\* that lead there.
mapper(v) ==
    LET Below(m) == LET sub == mapper(m.val)
                    IN  [i \in DOMAIN sub |-> Hit(m.key \o sub[i].key, sub[i].val)]
        members == visitAll(v)
    IN  <<Hit(<< >>, v)>> \o FlattenSeq([i \in DOMAIN members |-> Below(members[i])])

\* The matches of a range in array cs, cs[i] for each index; beyond the array,
\* the panic of an index out of range.
RangeHits(cs, indices) ==
    [j \in DOMAIN indices |->
        Hit(<<Itoa(indices[j])>>, IF indices[j] < Len(cs) THEN cs[indices[j] + 1] ELSE Error)]

RangeBranch(min, max, step, v) ==
    IF ~IsA(v, "arr") \/ \E b \in {min, max, step} : ~IsA(b, "num") THEN << >>
    ELSE RangeHits(v.arr, RangeIndices(min.num, max.num, step.num, Len(v.arr)))

\* The matches of the keys that have a value.
MultiBranch(keys, v) ==
    LET hits == SelectSeq(keys, LAMBDA k : Present(selectValue(k, v)))
    IN  [i \in DOMAIN hits |-> Hit(<<jkey(hits[i])>>, selectValue(hits[i], v))]

\* An ambiguous selector applied to v: its matches, in order.
Branch(s, root, v) ==
    CASE s.sel = "star" -> visitAll(v)
      [] s.sel = "mapper" -> mapper(v)
      [] s.sel = "filter" ->
            SelectSeq(visitAll(v), LAMBDA m : EvalBool(Eval(s.cond, root, m.val)))
      [] s.sel = "multi" ->
            MultiBranch([i \in DOMAIN s.keys |-> Eval(s.keys[i], root, v)], v)
      [] s.sel = "range" ->
            RangeBranch(Eval(s.min, root, v), Eval(s.max, root, v), Eval(s.step, root, v), v)

\* A plain selector applied to v: a value, Undef or Error.
Plain(s, root, v) ==
    CASE s.sel = "direct" -> selectValue(Eval(s.key, root, v), v)
      [] s.sel = "script" -> Eval(s.expr, root, v)

\* plainPath.evaluatePath: the first error ends it.
evaluatePath(path, root, v) ==
    FoldLeft(LAMBDA at, s : IF at = Error THEN Error ELSE Plain(s, root, at), v, path)

\* visitMatchs of a plain path: one match, or none.
OneMatch(v) == IF Present(v) THEN <<[keys |-> << >>, val |-> v]>> ELSE << >>

\* The matches ms of the branch of an ambiguous path, taken on by its ending,
\* which drops those it fails on or has no value for.
WithEnding(keys, ms, ending, root) ==
    LET Ended(m) == [keys |-> Append(keys, m.key), val |-> evaluatePath(ending, root, m.val)]
    IN  SelectSeq([i \in DOMAIN ms |-> Ended(ms[i])],
                  LAMBDA m : ending = << >> \/ Present(m.val))

\* The branch of an ambiguous path from all the matches of its parent.
FromParents(parents, branch, ending, root) ==
    FlattenSeq([i \in DOMAIN parents |-> WithEnding(parents[i].keys, Branch(branch, root, parents[i].val),
                                                     ending, root)])

\* The last ambiguous selector of a path, 0 if there is none: up to it lies the
\* parent, behind it the ending.
LastAmbiguous(path) == Max({0} \cup {i \in DOMAIN path : Ambiguous(path[i])})

\* visitMatchs: the matches of a path from start, as [keys, val].
MatchsUpTo(last, path, root, start) ==
    IF last = 0 THEN OneMatch(evaluatePath(path, root, start))
    ELSE FromParents(visitMatchs(SubSeq(path, 1, last - 1), root, start), path[last],
                     SubSeq(path, last + 1, Len(path)), root)

visitMatchs(path, root, start) == MatchsUpTo(LastAmbiguous(path), path, root, start)

\* evaluate: the value of a path, an array of all matches if it is ambiguous.
ValuesOf(ms) == Arr([i \in DOMAIN ms |-> ms[i].val])

Evaluate(path, root, start) ==
    IF LastAmbiguous(path) = 0 THEN evaluatePath(path, root, start)
    ELSE ValuesOf(visitMatchs(path, root, start))

\* The evaluation of an expression.
Eval(e, root, cur) ==
    CASE "lit" \in DOMAIN e     -> e.lit
      [] "root" \in DOMAIN e    -> Evaluate(e.root, root, root)
      [] "current" \in DOMAIN e -> Evaluate(e.current, root, cur)
      [] "call" \in DOMAIN e    -> Call(e.call, Eval(e.arg, root, cur))
      [] "infix" \in DOMAIN e   -> Infix(e.infix, Eval(e.left, root, cur), Eval(e.right, root, cur))
      [] "negated" \in DOMAIN e -> Not(Eval(e.negated, root, cur))
      [] "cond" \in DOMAIN e    -> IfThenElse(Eval(e.cond, root, cur), Eval(e.yes, root, cur),
                                              Eval(e.no, root, cur))

----------------------------------------------------------------------------
(* placeholder.go: the value of {#: path}, an object that has each match   *)
(* under the text of its keys, flattened.  Of matches with the same text   *)
(* the last one stays.                                                     *)

quoteWildcardValues(keys) == FlattenSeq(keys)

\* The last match with the keys' text t.
LastWithText(ms, t) == ms[Max({i \in DOMAIN ms : quoteWildcardValues(ms[i].keys) = t})].val

ByText(ms) ==
    [t \in {quoteWildcardValues(ms[i].keys) : i \in DOMAIN ms} |-> LastWithText(ms, t)]

jsonObject(path, root) == ByText(visitMatchs(path, root, root))

============================================================================
