--------------------------- MODULE ModRuleStore ---------------------------
(***************************************************************************)
(* core/modrulestore.go: the in-memory store of compiled ModRules, a map   *)
(* from namespaces to lists of rules behind a read-write lock.  Put and    *)
(* Delete hold the write lock from end to end, getMatchingModRuleStoreItems *)
(* and GetStats the read lock, so each is one atomic step.                 *)
(***************************************************************************)
EXTENDS ModRule

VARIABLE modRuleListMap   \* a partial function from Namespaces to Seq(ModRules)

----------------------------------------------------------------------------
(* Maps and lists                                                          *)

\* m[key] = value of a Go map.
MapPut(m, key, value) ==
    [k \in DOMAIN m \cup {key} |-> IF k = key THEN value ELSE m[k]]

\* delete(m, key) of a Go map.
MapDelete(m, key) == [k \in DOMAIN m \ {key} |-> m[k]]

\* Reading a key that is not in the map yields the nil slice.
ListAt(m, ns) == IF ns \in DOMAIN m THEN m[ns] ELSE << >>

\* Variant: the search starts one element too late.
FindSkipsFirst(list, name) == {i \in DOMAIN list : i > 1 /\ list[i].name = name}

\* The indices findItemIndexByName may return; empty where it returns -1.
findItemIndexByName(list, name) ==
    {i \in DOMAIN list : /\ list[i].name = name
                         /\ \A j \in 1 .. i - 1 : list[j].name # name}

\* ByExecutionTier.Less never orders a later element before an earlier one.
ByExecutionTier(list) ==
    \A i, j \in DOMAIN list :
        i < j => list[i].executionTier <= list[j].executionTier

\* The orders the elements of a list can be put in.
Orders(list) ==
    {[i \in DOMAIN list |-> list[p[i]]] :
        p \in {q \in [DOMAIN list -> DOMAIN list] :
                 /\ \A i, j \in DOMAIN list : q[i] = q[j] => i = j
                 /\ \A k \in DOMAIN list : \E i \in DOMAIN list : q[i] = k}}

\* sort.Sort promises a sorted permutation and nothing about equal elements.
Sorts(list) == {s \in Orders(list) : ByExecutionTier(s)}

----------------------------------------------------------------------------
(* The store's operations                                                  *)

\* Put: the list of a namespace seen for the first time is created before the
\* rule is compiled; a rule that does not compile is returned as an error.
PutOk(r) ==
    LET ns   == r.namespace
        list == ListAt(modRuleListMap, ns)
        at   == findItemIndexByName(list, r.name)
        new  == IF at = {} THEN Append(list, r)
                           ELSE [i \in DOMAIN list |-> IF i \in at THEN r ELSE list[i]]
    IN  /\ Compiles(r)
        /\ \E sorted \in Sorts(new) :
              modRuleListMap' = MapPut(modRuleListMap, ns, sorted)

\* Variant: the rule is stored before the error of its compilation is looked at.
PutErrorStores(r) ==
    /\ ~Compiles(r)
    /\ modRuleListMap' = MapPut(modRuleListMap, r.namespace,
                                Append(ListAt(modRuleListMap, r.namespace), r))

PutError(r) ==
    /\ ~Compiles(r)
    /\ modRuleListMap' = IF r.namespace \in DOMAIN modRuleListMap
                         THEN modRuleListMap
                         ELSE MapPut(modRuleListMap, r.namespace, << >>)

Put(r) == PutOk(r) \/ PutError(r)

\* Variants: the slice is not truncated, the last element is not copied, two
\* elements are cut off.
SwapKeepsTail(list, i) ==
    [j \in DOMAIN list |-> IF j = Len(list) THEN Nil
                           ELSE IF j = i THEN list[Len(list)] ELSE list[j]]
SwapForgetsCopy(list, i) == SubSeq(list, 1, Len(list) - 1)
SwapTruncatesTwo(list, i) ==
    [j \in 1 .. Len(list) - 2 |-> IF j = i THEN list[Len(list)] ELSE list[j]]

\* The fast delete: the last element takes the slot of the deleted one.
SwapWithLast(list, i) ==
    [j \in 1 .. Len(list) - 1 |-> IF j = i THEN list[Len(list)] ELSE list[j]]

Delete(ns, name) ==
    LET list == ListAt(modRuleListMap, ns)
        at   == findItemIndexByName(list, name)
    IN  IF at = {}
        THEN UNCHANGED modRuleListMap
        ELSE \E i \in at :
               modRuleListMap' = IF Len(list) = 1
                                 THEN MapDelete(modRuleListMap, ns)
                                 ELSE MapPut(modRuleListMap, ns, SwapWithLast(list, i))

----------------------------------------------------------------------------
(* getMatchingModRuleStoreItems                                            *)

\* The rule's namespace lets it see a resource in namespace ns: a rule of the
\* cluster namespace through its regular expression (or, without one, if the
\* resource has no namespace), any rule if it is in the resource's namespace.
InClusterScope(r, ns) ==
    IF r.targetNamespaceRegex = Nil THEN ns = NoNamespace
                                        ELSE ns \in r.targetNamespaceRegex

\* The rules the two loops hand to processPotentialRule and that survive its
\* check of the admission operation.  A request in the cluster namespace runs
\* over the same list in both loops.
ClusterCandidates(op, ns, minTier) ==
    {i \in DOMAIN ListAt(modRuleListMap, ClusterNamespace) :
        LET r == ListAt(modRuleListMap, ClusterNamespace)[i]
        IN  /\ r.executionTier >= minTier
            /\ InClusterScope(r, ns)
            /\ op \in r.admissionOperations}

NamespaceCandidates(op, ns, minTier) ==
    {i \in DOMAIN ListAt(modRuleListMap, ns) :
        LET r == ListAt(modRuleListMap, ns)[i]
        IN  /\ ns # NoNamespace
            /\ r.executionTier >= minTier
            /\ op \in r.admissionOperations}

Candidates(op, ns, minTier) ==
    {ListAt(modRuleListMap, ClusterNamespace)[i] : i \in ClusterCandidates(op, ns, minTier)}
    \cup {ListAt(modRuleListMap, ns)[i] : i \in NamespaceCandidates(op, ns, minTier)}

\* currentExecutionTier as returned: the lowest tier of the candidates, or
\* MaxInt16 if there are none.
IsLowestTier(t, rules) ==
    IF rules = {} THEN t = MaxInt16
    ELSE /\ \E r \in rules : r.executionTier = t
         /\ \A r \in rules : t <= r.executionTier

\* potentialRules as a set: the candidates in the tier that is returned.
PotentialRules(op, ns, minTier, t) ==
    {r \in Candidates(op, ns, minTier) : r.executionTier = t}

----------------------------------------------------------------------------
StoreInit == modRuleListMap = << >>

StorePut == \E r \in ModRules : Put(r)
StoreDelete == \E r \in ModRules : Delete(r.namespace, r.name)

StoreNext == StorePut \/ StoreDelete

StoreSpec == StoreInit /\ [][StoreNext]_modRuleListMap

----------------------------------------------------------------------------
(* Properties                                                              *)

StoreTypeOK ==
    /\ DOMAIN modRuleListMap \subseteq Namespaces
    /\ \A ns \in DOMAIN modRuleListMap : modRuleListMap[ns] \in Seq(ModRules)

\* No list holds two rules of the same name: Put replaces by name, and neither
\* the unstable sort nor the fast delete duplicates an element.
UniqueNames ==
    \A ns \in DOMAIN modRuleListMap :
        \A i, j \in DOMAIN modRuleListMap[ns] :
            modRuleListMap[ns][i].name = modRuleListMap[ns][j].name => i = j

\* A list holds only compiled rules of its own namespace.
HomeNamespace ==
    \A ns \in DOMAIN modRuleListMap :
        \A i \in DOMAIN modRuleListMap[ns] :
            /\ modRuleListMap[ns][i].namespace = ns
            /\ Compiles(modRuleListMap[ns][i])

\* The rules of a list, of a map, and of the store.
Elements(list) == {list[i] : i \in DOMAIN list}
RulesOf(m) == UNION {Elements(m[ns]) : ns \in DOMAIN m}
Stored == RulesOf(modRuleListMap)

\* The store implements the abstract map of rules: lists, sorting and the fast
\* delete never lose, duplicate or resurrect a rule.
Abstract == INSTANCE RuleMap WITH rules <- Stored
ImplementsRuleMap == Abstract!Spec

\* Each call does to the set of stored rules what the abstract operation of the
\* same arguments does: Put replaces the rule of that name or, if it does not
\* compile, changes nothing; Delete removes that rule and no other.
CallsAreExact ==
    [][\A r \in ModRules :
          /\ PutOk(r) => Abstract!Store(r)
          /\ PutError(r) => UNCHANGED Stored
          /\ Delete(r.namespace, r.name) => Abstract!Remove(r.namespace, r.name)
      ]_modRuleListMap

============================================================================
