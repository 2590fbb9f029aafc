------------------------------- MODULE Match -------------------------------
(***************************************************************************)
(* core/modrulestoreitem.go: IsMatch, isMatch and isStringMatch, the       *)
(* decision whether a resource satisfies the match items of a rule.        *)
(*                                                                         *)
(* A match item keeps its select as a name; matchValue is a string or Nil, *)
(* matchValues a set of strings (empty if absent), matchRegex the set of   *)
(* strings the expression matches, or Nil.  What a select yields is a      *)
(* record: kind "error", "nil", "undefined", "bool", "array" or "value",   *)
(* and the values, all of them in their printed form.                      *)
(***************************************************************************)
EXTENDS ModRule

\* What a missing key yields inside an array (jsonpath.UndefinedType).
Undefined == "<undefined>"

\* isStringMatch: the first criterion that is specified decides.
isStringMatch(item, value) ==
    CASE item.matchValue # Nil   -> value = item.matchValue
      [] item.matchValue = Nil /\ item.matchValues # {} -> value \in item.matchValues
      [] item.matchValue = Nil /\ item.matchValues = {} /\ item.matchRegex # Nil
                                 -> value \in item.matchRegex
      [] OTHER                   -> TRUE

\* Variants: an absent matchFor is taken for All, negate is dropped for All.
LoopDefaultsToAll(item, values) ==
    IF item.matchFor = "Any"
    THEN IF \E v \in values : isStringMatch(item, v) THEN ~item.negate ELSE item.negate
    ELSE IF \E v \in values : ~isStringMatch(item, v) THEN item.negate ELSE ~item.negate
LoopDropsNegate(item, values) ==
    IF item.matchFor \in {"Any", ""}
    THEN IF \E v \in values : isStringMatch(item, v) THEN ~item.negate ELSE item.negate
    ELSE \A v \in values : isStringMatch(item, v)

\* The loop over the values: for Any the first hit decides, for All the first
\* miss, and the circuit breaker's default stands if there is none.
MatchValuesLoop(item, values) ==
    IF item.matchFor \in {"Any", ""}
    THEN IF \E v \in values : isStringMatch(item, v) THEN ~item.negate ELSE item.negate
    ELSE IF \E v \in values : ~isStringMatch(item, v) THEN item.negate ELSE ~item.negate

\* isMatch for an item whose select yielded result.
isMatch(item, result) ==
    LET all    == {result.values[i] : i \in DOMAIN result.values}
        values == all \ {Undefined}
    IN  CASE result.kind \in {"error", "nil", "undefined"} -> item.negate
          [] result.kind = "bool" -> (result.values = <<"true">>) # item.negate
          [] result.kind \in {"array", "value"} ->
               CASE values = {} -> item.negate
                 [] values # {} /\ item.matchFor = "All" /\ values # all -> item.negate
                 [] OTHER -> MatchValuesLoop(item, values)

============================================================================
