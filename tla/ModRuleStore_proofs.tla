------------------------ MODULE ModRuleStore_proofs ------------------------
(***************************************************************************)
(* Proofs about the store, for any namespaces, rules and tiers.            *)
(***************************************************************************)
EXTENDS ModRuleStore, TLAPS

\* The inductive invariant: well-typed lists of compiled rules of the right
\* namespace, with one rule per name.
StoreInv == StoreTypeOK /\ UniqueNames /\ HomeNamespace

\* A well-formed list of namespace ns, as a predicate on the list alone.
GoodList(list, ns) ==
    /\ list \in Seq(ModRules)
    /\ \A i \in DOMAIN list : list[i].namespace = ns /\ Compiles(list[i])
    /\ \A i, j \in DOMAIN list : list[i].name = list[j].name => i = j

\* A map is a good store if each of its lists is good.
GoodMap(m) ==
    /\ DOMAIN m \subseteq Namespaces
    /\ \A ns \in DOMAIN m : GoodList(m[ns], ns)

LEMMA StoreInvIsGoodMap == StoreInv <=> GoodMap(modRuleListMap)
  BY DEF StoreInv, StoreTypeOK, UniqueNames, HomeNamespace, GoodMap, GoodList

\* Sorting keeps the elements of a list, each as often as before.
LEMMA SortsGood ==
  ASSUME NEW ns, NEW list, GoodList(list, ns), NEW s \in Sorts(list)
  PROVE  GoodList(s, ns) /\ Elements(s) = Elements(list)
<1>1. PICK p \in [DOMAIN list -> DOMAIN list] :
         /\ \A i, j \in DOMAIN list : p[i] = p[j] => i = j
         /\ \A k \in DOMAIN list : \E i \in DOMAIN list : p[i] = k
         /\ s = [i \in DOMAIN list |-> list[p[i]]]
  BY DEF Sorts, Orders
<1>2. /\ list \in Seq(ModRules) /\ Len(list) \in Nat
      /\ DOMAIN list = 1 .. Len(list)
      /\ \A i \in DOMAIN list : list[i] \in ModRules
  BY DEF GoodList
<1>3. /\ s \in [1 .. Len(list) -> ModRules]
      /\ DOMAIN s = DOMAIN list
  BY <1>2, <1>1
<1>4. s \in Seq(ModRules)
  BY <1>2, <1>3
<1>5. \A i \in DOMAIN s : s[i].namespace = ns /\ Compiles(s[i])
  <2> SUFFICES ASSUME NEW i \in DOMAIN s
               PROVE  s[i].namespace = ns /\ Compiles(s[i])
    OBVIOUS
  <2>1. p[i] \in DOMAIN list /\ s[i] = list[p[i]]
    BY <1>1, <1>3
  <2> QED
    BY <2>1 DEF GoodList
<1>6. \A i, j \in DOMAIN s : s[i].name = s[j].name => i = j
  <2> SUFFICES ASSUME NEW i \in DOMAIN s, NEW j \in DOMAIN s, s[i].name = s[j].name
               PROVE  i = j
    OBVIOUS
  <2>1. /\ p[i] \in DOMAIN list /\ s[i] = list[p[i]]
        /\ p[j] \in DOMAIN list /\ s[j] = list[p[j]]
    BY <1>1, <1>3
  <2>2. p[i] = p[j]
    BY <2>1 DEF GoodList
  <2> QED
    BY <2>2, <1>1, <1>3
<1>7. Elements(s) = Elements(list)
  BY <1>1, <1>3 DEF Elements
<1> QED
  BY <1>4, <1>5, <1>6, <1>7 DEF GoodList

\* Replacing the rule of the same name, or appending one with a new name,
\* leaves a good list.
LEMMA PutListGood ==
  ASSUME NEW ns, NEW list, GoodList(list, ns),
         NEW r \in ModRules, r.namespace = ns, Compiles(r)
  PROVE  LET at == findItemIndexByName(list, r.name)
             new == IF at = {} THEN Append(list, r)
                    ELSE [i \in DOMAIN list |-> IF i \in at THEN r ELSE list[i]]
         IN  /\ GoodList(new, ns)
             /\ Elements(new) = {x \in Elements(list) : x.name # r.name} \cup {r}
<1> DEFINE at == findItemIndexByName(list, r.name)
<1>1. /\ list \in Seq(ModRules) /\ Len(list) \in Nat
      /\ DOMAIN list = 1 .. Len(list)
      /\ \A i \in DOMAIN list : list[i] \in ModRules
  BY DEF GoodList
<1>2. CASE at = {}
  <2>1. \A i \in DOMAIN list : list[i].name # r.name
    \* the first index of a named rule would be in at; names are unique
    <3> SUFFICES ASSUME NEW i \in DOMAIN list, list[i].name = r.name
                 PROVE  i \in at
      BY <1>2
    <3> QED
      BY <1>1 DEF findItemIndexByName, GoodList
  <2> DEFINE new == Append(list, r)
  <2>2. /\ new \in Seq(ModRules) /\ DOMAIN new = 1 .. Len(list) + 1
        /\ \A i \in DOMAIN list : new[i] = list[i]
        /\ new[Len(list) + 1] = r
    BY <1>1
  <2>3. \A i \in DOMAIN new : i \in DOMAIN list \/ i = Len(list) + 1
    BY <1>1, <2>2
  <2> HIDE DEF new
  <2>4. GoodList(new, ns)
    BY <2>1, <2>2, <2>3 DEF GoodList
  <2>5. Elements(new) = {x \in Elements(list) : x.name # r.name} \cup {r}
    BY <2>1, <2>2, <2>3 DEF Elements
  <2> QED
    BY <2>4, <2>5, <1>2 DEF new
<1>3. CASE at # {}
  <2> DEFINE new == [i \in DOMAIN list |-> IF i \in at THEN r ELSE list[i]]
  <2>1. new \in Seq(ModRules)
    BY <1>1
  <2>2. \A i \in DOMAIN list : i \in at <=> list[i].name = r.name
    BY <1>1, <1>3 DEF findItemIndexByName, GoodList
  <2>3. GoodList(new, ns)
    BY <2>1, <2>2 DEF GoodList
  <2>4. Elements(new) = {x \in Elements(list) : x.name # r.name} \cup {r}
    <3>1. PICK k \in DOMAIN list : k \in at
      BY <1>3 DEF findItemIndexByName
    <3>2. r \in Elements(new)
      BY <3>1 DEF Elements
    <3> QED
      BY <3>2, <2>2 DEF Elements
  <2> QED
    BY <2>3, <2>4, <1>3
<1> QED
  BY <1>2, <1>3

\* The fast delete leaves a good list.
LEMMA SwapGood ==
  ASSUME NEW ns, NEW list, GoodList(list, ns), NEW i \in DOMAIN list
  PROVE  /\ GoodList(SwapWithLast(list, i), ns)
         /\ Elements(SwapWithLast(list, i))
               = {x \in Elements(list) : x.name # list[i].name}
<1>1. /\ list \in Seq(ModRules) /\ Len(list) \in Nat
      /\ DOMAIN list = 1 .. Len(list)
      /\ \A j \in DOMAIN list : list[j] \in ModRules
  BY DEF GoodList
<1> DEFINE s == SwapWithLast(list, i)
           n == Len(list)
<1>2. /\ n \in DOMAIN list
      /\ n - 1 \in Nat
      /\ \A j \in 1 .. n - 1 : j \in DOMAIN list /\ j # n
      /\ \A j \in DOMAIN list : j # n => j \in 1 .. n - 1
  <2>1. n \in Nat /\ DOMAIN list = 1 .. n /\ i \in 1 .. n
    BY <1>1
  <2> HIDE DEF n
  <2> QED
    BY <2>1
<1>3. DOMAIN s = 1 .. Len(list) - 1
  BY DEF SwapWithLast
<1>4. \A j \in DOMAIN s : s[j] = IF j = i THEN list[Len(list)] ELSE list[j]
  BY DEF SwapWithLast
<1>5. s \in Seq(ModRules)
  <2>1. s \in [1 .. n - 1 -> ModRules]
    BY <1>1, <1>2 DEF SwapWithLast
  <2> HIDE DEF s, n
  <2> QED
    BY <2>1, <1>2
<1> HIDE DEF s
<1>6. \A j \in DOMAIN s : s[j].namespace = ns /\ Compiles(s[j])
  BY <1>2, <1>3, <1>4 DEF GoodList
<1>7. \A j, k \in DOMAIN s : s[j].name = s[k].name => j = k
  BY <1>2, <1>3, <1>4 DEF GoodList
<1>8. Elements(s) = {x \in Elements(list) : x.name # list[i].name}
  <2>1. \A j \in DOMAIN list : j # i => list[j] \in Elements(s)
    <3> SUFFICES ASSUME NEW j \in DOMAIN list, j # i
                 PROVE  \E k \in DOMAIN s : s[k] = list[j]
      BY DEF Elements
    <3>1. CASE j = n
      <4>1. i \in DOMAIN s
        BY <1>2, <1>3, <3>1
      <4> QED
        BY <4>1, <1>4, <3>1
    <3>2. CASE j # n
      <4>1. j \in DOMAIN s
        BY <1>2, <1>3, <3>2
      <4> QED
        BY <4>1, <1>4
    <3> QED
      BY <3>1, <3>2
  <2>2. \A k \in DOMAIN s : \E j \in DOMAIN list : j # i /\ s[k] = list[j]
    BY <1>2, <1>3, <1>4
  <2> QED
    BY <2>1, <2>2 DEF Elements, GoodList
<1> QED
  BY <1>5, <1>6, <1>7, <1>8 DEF GoodList, s

\* Writing one namespace of a good map.
LEMMA MapPutGood ==
  ASSUME NEW m, GoodMap(m), NEW ns \in Namespaces, NEW list, GoodList(list, ns)
  PROVE  /\ GoodMap(MapPut(m, ns, list))
         /\ RulesOf(MapPut(m, ns, list))
               = {x \in RulesOf(m) : x.namespace # ns} \cup Elements(list)
<1> DEFINE q == MapPut(m, ns, list)
<1>1. /\ DOMAIN q = DOMAIN m \cup {ns}
      /\ q[ns] = list
      /\ \A k \in DOMAIN m : k # ns => q[k] = m[k]
  BY DEF MapPut
<1> HIDE DEF q
<1>2. GoodMap(q)
  BY <1>1 DEF GoodMap
<1>3. \A k \in DOMAIN m : \A x \in Elements(m[k]) : x.namespace = k
  BY DEF GoodMap, GoodList, Elements
<1>4. RulesOf(q) = {x \in RulesOf(m) : x.namespace # ns} \cup Elements(list)
  <2>1. ASSUME NEW x \in RulesOf(q)
        PROVE  x \in {y \in RulesOf(m) : y.namespace # ns} \cup Elements(list)
    <3>1. PICK k \in DOMAIN q : x \in Elements(q[k])
      BY DEF RulesOf
    <3> QED
      BY <3>1, <1>1, <1>3 DEF RulesOf
  <2>2. ASSUME NEW x \in RulesOf(m), x.namespace # ns
        PROVE  x \in RulesOf(q)
    <3>1. PICK k \in DOMAIN m : x \in Elements(m[k])
      BY DEF RulesOf
    <3> QED
      BY <3>1, <2>2, <1>1, <1>3 DEF RulesOf
  <2>3. Elements(list) \subseteq RulesOf(q)
    BY <1>1 DEF RulesOf
  <2> QED
    BY <2>1, <2>2, <2>3
<1> QED
  BY <1>2, <1>4 DEF q

\* Dropping one namespace of a good map.
LEMMA MapDeleteGood ==
  ASSUME NEW m, GoodMap(m), NEW ns
  PROVE  /\ GoodMap(MapDelete(m, ns))
         /\ RulesOf(MapDelete(m, ns)) = {x \in RulesOf(m) : x.namespace # ns}
<1> DEFINE q == MapDelete(m, ns)
<1>1. /\ DOMAIN q = DOMAIN m \ {ns}
      /\ \A k \in DOMAIN q : q[k] = m[k]
  BY DEF MapDelete
<1> HIDE DEF q
<1>2. GoodMap(q)
  BY <1>1 DEF GoodMap
<1>3. \A k \in DOMAIN m : \A x \in Elements(m[k]) : x.namespace = k
  BY DEF GoodMap, GoodList, Elements
<1>4. ASSUME NEW x PROVE x \in RulesOf(q) <=> x \in RulesOf(m) /\ x.namespace # ns
  <2>1. x \in RulesOf(q) <=> \E k \in DOMAIN q : x \in Elements(q[k])
    BY DEF RulesOf
  <2>2. x \in RulesOf(m) <=> \E k \in DOMAIN m : x \in Elements(m[k])
    BY DEF RulesOf
  <2> QED
    BY <2>1, <2>2, <1>1, <1>3
<1> QED
  BY <1>2, <1>4 DEF q

-----------------------------------------------------------------------------
\* What one step of the store does to the map and to the set of rules: it keeps
\* the map good, and it is a step of the abstract map or leaves it unchanged.
LEMMA PutOkStep ==
  ASSUME GoodMap(modRuleListMap), NEW r \in ModRules, PutOk(r)
  PROVE  GoodMap(modRuleListMap') /\ Abstract!Store(r)
<1> DEFINE ns   == r.namespace
           list == ListAt(modRuleListMap, ns)
           at   == findItemIndexByName(list, r.name)
           new  == IF at = {} THEN Append(list, r)
                   ELSE [i \in DOMAIN list |-> IF i \in at THEN r ELSE list[i]]
<1>1. Compiles(r) /\ ns \in Namespaces
  BY ModRulesAssumption DEF PutOk
<1>2. GoodList(list, ns)
  BY DEF GoodMap, GoodList, ListAt
<1>3. /\ GoodList(new, ns)
      /\ Elements(new) = {x \in Elements(list) : x.name # r.name} \cup {r}
  BY <1>1, <1>2, PutListGood
<1>4. PICK sorted \in Sorts(new) : modRuleListMap' = MapPut(modRuleListMap, ns, sorted)
  BY DEF PutOk
<1> HIDE DEF new
<1>5. GoodList(sorted, ns) /\ Elements(sorted) = Elements(new)
  BY <1>3, <1>4, SortsGood
<1>6. /\ GoodMap(modRuleListMap')
      /\ Stored' = {x \in Stored : x.namespace # ns} \cup Elements(sorted)
  BY <1>1, <1>4, <1>5, MapPutGood DEF Stored
<1>7. {x \in Stored : x.namespace = ns} = Elements(list)
  <2>1. \A k \in DOMAIN modRuleListMap :
          \A x \in Elements(modRuleListMap[k]) : x.namespace = k
    BY DEF GoodMap, GoodList, Elements
  <2>2. \A x \in Elements(list) : x.namespace = ns
    BY <1>2 DEF GoodList, Elements
  <2> QED
    BY <2>1, <2>2 DEF Stored, RulesOf, ListAt, Elements
<1>8. Stored' = {s \in Stored : ~Abstract!SameKey(s, r.namespace, r.name)} \cup {r}
  BY <1>3, <1>5, <1>6, <1>7 DEF Abstract!SameKey
<1> QED
  BY <1>1, <1>6, <1>8 DEF Abstract!Store, Compiles, Abstract!Compiles,
                          CompiledParts, Abstract!CompiledParts

LEMMA PutErrorStep ==
  ASSUME GoodMap(modRuleListMap), NEW r \in ModRules, PutError(r)
  PROVE  GoodMap(modRuleListMap') /\ UNCHANGED Stored
<1>1. CASE r.namespace \in DOMAIN modRuleListMap
  BY <1>1 DEF PutError, Stored
<1>2. CASE r.namespace \notin DOMAIN modRuleListMap
  <2>1. GoodList(<< >>, r.namespace) /\ Elements(<< >>) = {}
    BY DEF GoodList, Elements
  <2>2. \A x \in Stored : x.namespace # r.namespace
    BY <1>2 DEF Stored, RulesOf, Elements, GoodMap, GoodList
  <2>3. modRuleListMap' = MapPut(modRuleListMap, r.namespace, << >>)
    BY <1>2 DEF PutError
  <2>4. r.namespace \in Namespaces
    BY ModRulesAssumption
  <2>5. GoodMap(modRuleListMap')
    BY <2>1, <2>3, <2>4, MapPutGood
  <2>6. Stored' = {x \in Stored : x.namespace # r.namespace}
    BY <2>1, <2>3, <2>4, MapPutGood DEF Stored
  <2> QED
    BY <2>2, <2>5, <2>6
<1> QED
  BY <1>1, <1>2

LEMMA DeleteStep ==
  ASSUME GoodMap(modRuleListMap), NEW r \in ModRules, Delete(r.namespace, r.name)
  PROVE  GoodMap(modRuleListMap') /\ Abstract!Remove(r.namespace, r.name)
<1> DEFINE ns   == r.namespace
           list == ListAt(modRuleListMap, ns)
           at   == findItemIndexByName(list, r.name)
<1>1. ns \in Namespaces /\ GoodList(list, ns)
  BY ModRulesAssumption DEF GoodMap, GoodList, ListAt
<1>2. {x \in Stored : x.namespace = ns} = Elements(list)
  <2>1. \A k \in DOMAIN modRuleListMap :
          \A x \in Elements(modRuleListMap[k]) : x.namespace = k
    BY DEF GoodMap, GoodList, Elements
  <2>2. \A x \in Elements(list) : x.namespace = ns
    BY <1>1 DEF GoodList, Elements
  <2> QED
    BY <2>1, <2>2 DEF Stored, RulesOf, ListAt, Elements
<1>3. CASE at = {}
  <2>1. UNCHANGED modRuleListMap
    BY <1>3 DEF Delete
  <2>2. \A i \in DOMAIN list : list[i].name # r.name
    <3> SUFFICES ASSUME NEW i \in DOMAIN list, list[i].name = r.name
                 PROVE  i \in at
      BY <1>3
    <3> QED
      BY <1>1 DEF findItemIndexByName, GoodList
  <2>3. \A x \in Stored : ~Abstract!SameKey(x, r.namespace, r.name)
    BY <2>2, <1>2 DEF Abstract!SameKey, Elements
  <2>4. Stored' = Stored
    BY <2>1 DEF Stored
  <2> QED
    BY <2>1, <2>3, <2>4 DEF Abstract!Remove
<1>4. CASE at # {}
  <2>1. PICK i \in at :
          modRuleListMap' = IF Len(list) = 1
                            THEN MapDelete(modRuleListMap, ns)
                            ELSE MapPut(modRuleListMap, ns, SwapWithLast(list, i))
    BY <1>4 DEF Delete
  <2>2. i \in DOMAIN list /\ list[i].name = r.name
    BY DEF findItemIndexByName
  <2>3. CASE Len(list) = 1
    <3>1. \A x \in Elements(list) : x.name = r.name
      BY <2>2, <2>3, <1>1 DEF Elements, GoodList
    <3>2. /\ GoodMap(modRuleListMap')
          /\ Stored' = {x \in Stored : x.namespace # ns}
      BY <2>1, <2>3, MapDeleteGood DEF Stored
    <3> QED
      BY <3>1, <3>2, <1>2 DEF Abstract!Remove, Abstract!SameKey
  <2>4. CASE Len(list) # 1
    <3>1. /\ GoodList(SwapWithLast(list, i), ns)
          /\ Elements(SwapWithLast(list, i)) = {x \in Elements(list) : x.name # r.name}
      BY <2>2, <1>1, SwapGood
    <3>2. /\ GoodMap(modRuleListMap')
          /\ Stored' = {x \in Stored : x.namespace # ns}
                         \cup Elements(SwapWithLast(list, i))
      BY <2>1, <2>4, <3>1, <1>1, MapPutGood DEF Stored
    <3> QED
      BY <3>1, <3>2, <1>2 DEF Abstract!Remove, Abstract!SameKey
  <2> QED
    BY <2>3, <2>4
<1> QED
  BY <1>3, <1>4

-----------------------------------------------------------------------------
\* One step of the store: the inductive step of both theorems below.
LEMMA StoreStep ==
  ASSUME StoreInv, [StoreNext]_modRuleListMap
  PROVE  StoreInv' /\ [Abstract!Next]_Stored
<1>0. GoodMap(modRuleListMap)
  BY StoreInvIsGoodMap
<1>1. GoodMap(modRuleListMap') /\ [Abstract!Next]_Stored
  <2>1. ASSUME NEW r \in ModRules, PutOk(r)
        PROVE  GoodMap(modRuleListMap') /\ [Abstract!Next]_Stored
    BY <1>0, <2>1, PutOkStep DEF Abstract!Next
  <2>2. ASSUME NEW r \in ModRules, PutError(r)
        PROVE  GoodMap(modRuleListMap') /\ [Abstract!Next]_Stored
    BY <1>0, <2>2, PutErrorStep
  <2>3. ASSUME NEW r \in ModRules, Delete(r.namespace, r.name)
        PROVE  GoodMap(modRuleListMap') /\ [Abstract!Next]_Stored
    BY <1>0, <2>3, DeleteStep DEF Abstract!Next
  <2>4. CASE UNCHANGED modRuleListMap
    BY <1>0, <2>4 DEF Stored
  <2> QED
    BY <2>1, <2>2, <2>3, <2>4 DEF StoreNext, StorePut, StoreDelete, Put
<1>2. StoreInv' <=> GoodMap(modRuleListMap')
  BY DEF StoreInv, StoreTypeOK, UniqueNames, HomeNamespace, GoodMap, GoodList
<1> QED
  BY <1>1, <1>2

\* The store's lists stay well typed, of their own namespace, compiled, and with
\* one rule per name, whatever sequence of Put and Delete runs.
THEOREM StoreInvariance == StoreSpec => []StoreInv
<1>1. StoreInit => StoreInv
  BY DEF StoreInit, StoreInv, StoreTypeOK, UniqueNames, HomeNamespace
<1>2. StoreInv /\ [StoreNext]_modRuleListMap => StoreInv'
  BY StoreStep
<1> QED
  BY <1>1, <1>2, PTL DEF StoreSpec

\* The list map has lists of rules under namespaces and nothing else: no index of
\* a deleted rule, no empty slot.
THEOREM StoreTypes == StoreSpec => []StoreTypeOK
  BY StoreInvariance, PTL DEF StoreInv

\* No two rules of one list share a name (Put replaces by name; the unstable
\* sort and the fast delete never duplicate an element).
THEOREM StoreUniqueNames == StoreSpec => []UniqueNames
  BY StoreInvariance, PTL DEF StoreInv

\* A list only ever holds compiled rules of the namespace it is filed under.
THEOREM StoreHomeNamespace == StoreSpec => []HomeNamespace
  BY StoreInvariance, PTL DEF StoreInv

\* The list-and-slot store implements the abstract map of rules: every Put and
\* Delete is one abstract step, or (a Put that does not compile) none.
THEOREM StoreRefinesRuleMap == StoreSpec => ImplementsRuleMap
<1>1. StoreInit => Abstract!Init
  BY DEF StoreInit, Abstract!Init, Stored, RulesOf
<1>2. StoreInv /\ [StoreNext]_modRuleListMap => [Abstract!Next]_Stored
  BY StoreStep
<1> QED
  BY <1>1, <1>2, StoreInvariance, PTL DEF StoreSpec, ImplementsRuleMap, Abstract!Spec

\* Put and Delete, called with whatever rule in whatever state of the store, do
\* what the abstract operations say: no other rule is touched.
THEOREM StoreCallsExact == StoreSpec => CallsAreExact
<1>1. ASSUME StoreInv, NEW r \in ModRules
      PROVE  /\ PutOk(r) => Abstract!Store(r)
             /\ PutError(r) => UNCHANGED Stored
             /\ Delete(r.namespace, r.name) => Abstract!Remove(r.namespace, r.name)
  <2>1. GoodMap(modRuleListMap)
    BY <1>1, StoreInvIsGoodMap
  <2> QED
    BY <2>1, PutOkStep, PutErrorStep, DeleteStep
<1> DEFINE Exact ==
             \A r \in ModRules :
                /\ PutOk(r) => Abstract!Store(r)
                /\ PutError(r) => UNCHANGED Stored
                /\ Delete(r.namespace, r.name) => Abstract!Remove(r.namespace, r.name)
<1>2. StoreInv /\ [StoreNext]_modRuleListMap => [Exact]_modRuleListMap
  BY <1>1
<1>3. CallsAreExact <=> [][Exact]_modRuleListMap
  BY DEF CallsAreExact
<1> QED
  BY <1>2, <1>3, StoreInvariance, PTL DEF StoreSpec

============================================================================
