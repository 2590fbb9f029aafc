------------------------------ MODULE RuleMap ------------------------------
(***************************************************************************)
(* What the store promises, without lists, order or slots: a set of rules  *)
(* with at most one per namespace/name pair.  Storing a rule that compiles *)
(* replaces the one of the same name; one that does not compile changes    *)
(* nothing; deleting removes exactly the named rule.                       *)
(***************************************************************************)
EXTENDS ModRule

VARIABLE rules

\* "ModRules are identified by their namespace/name pair" (Put).
SameKey(r, ns, name) == r.namespace = ns /\ r.name = name

Init == rules = {}

Store(r) ==
    /\ Compiles(r)
    /\ rules' = {s \in rules : ~SameKey(s, r.namespace, r.name)} \cup {r}

Remove(ns, name) == rules' = {s \in rules : ~SameKey(s, ns, name)}

Next == \E r \in ModRules : Store(r) \/ Remove(r.namespace, r.name)

Spec == Init /\ [][Next]_rules

============================================================================
