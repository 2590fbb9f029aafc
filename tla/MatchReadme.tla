---------------------------- MODULE MatchReadme ----------------------------
(***************************************************************************)
(* isMatch against README.md, "Match section": the README's account of     *)
(* when a criteria item is a positive match, and one state for every match *)
(* item and every result its select may yield.                             *)
(***************************************************************************)
EXTENDS Match

----------------------------------------------------------------------------
(* What the README says                                                    *)

\* The criteria an item specifies.
Criteria(item) ==
    {c \in {"matchValue", "matchValues", "matchRegex"} :
        \/ c = "matchValue"  /\ item.matchValue # Nil
        \/ c = "matchValues" /\ item.matchValues # {}
        \/ c = "matchRegex"  /\ item.matchRegex # Nil}

\* A value satisfies one criterion.
Satisfies(item, c, value) ==
    \/ c = "matchValue"  /\ value = item.matchValue
    \/ c = "matchValues" /\ value \in item.matchValues
    \/ c = "matchRegex"  /\ value \in item.matchRegex

\* When the README calls a criteria item a positive match: "one of the
\* following is true", for every criterion that is specified.
ReadmePositive(item, result) ==
    LET values == {result.values[i] : i \in DOMAIN result.values}
        some   == values \ {Undefined} # {}
    IN  \/ result.kind = "bool" /\ result.values = <<"true">>
        \/ /\ result.kind \in {"array", "value"} /\ some
           /\ item.matchFor = "All" => Undefined \notin values
           /\ \/ Criteria(item) = {}
              \/ \E c \in Criteria(item) :
                    IF item.matchFor = "All"
                    THEN \A v \in values : Satisfies(item, c, v)
                    ELSE \E v \in values \ {Undefined} : Satisfies(item, c, v)

\* "The result of a criteria item can be inverted by setting negate".
ReadmeMatch(item, result) == ReadmePositive(item, result) # item.negate

----------------------------------------------------------------------------
(* Every item and every result                                             *)

CONSTANTS
    Texts,       \* the strings of match items and of manifests
    MaxValues    \* bound: the longest array a select yields

VARIABLES
    item,        \* a match item
    result       \* what its select yields

MatchItems == [select : {"f"}, matchFor : {"Any", "All", ""},
               matchValue : Texts \cup {Nil}, matchValues : SUBSET Texts,
               matchRegex : (SUBSET Texts) \cup {Nil}, negate : BOOLEAN]

Arrays == UNION {[1 .. n -> Texts \cup {Undefined}] : n \in 0 .. MaxValues}

Results == {[kind |-> k, values |-> << >>] : k \in {"error", "nil", "undefined"}}
           \cup {[kind |-> "bool", values |-> <<b>>] : b \in {"true", "false"}}
           \cup {[kind |-> "value", values |-> <<v>>] : v \in Texts}
           \cup {[kind |-> "array", values |-> a] : a \in Arrays}

MatchInit == item \in MatchItems /\ result \in Results

\* isMatch is a function: nothing happens to the item or the result.
MatchSpec == MatchInit /\ [][FALSE]_<<item, result>>

----------------------------------------------------------------------------
(* Properties                                                              *)

\* isMatch decides as the README says for every item with at most one of
\* matchValue, matchValues and matchRegex, whatever the select yields.
OneCriterionAsDocumented ==
    (\A c, d \in Criteria(item) : c = d)
        => isMatch(item, result) = ReadmeMatch(item, result)

\* "The result of a criteria item can be inverted by setting its negate field":
\* every early return and both loops of isMatch invert with negate.
NegateInverts == isMatch([item EXCEPT !.negate = ~@], result) = ~isMatch(item, result)

============================================================================
