-------------------------- MODULE TierScan_proofs --------------------------
(***************************************************************************)
(* The scan of getMatchingModRuleStoreItems is exact for every store the   *)
(* program can build, every operation, namespace and minimum tier.         *)
(***************************************************************************)
EXTENDS TierScan, ModRuleStore_proofs

\* The elements of a list a loop has handed over before index p.
SeenIn(list, candidates, p) == {list[k] : k \in {c \in candidates : c < p}}

\* The candidates met so far, in both loops.
Seen ==
    LET cluster == ListAt(modRuleListMap, ClusterNamespace)
        own     == ListAt(modRuleListMap, ns)
        cc      == ClusterCandidates(op, ns, minTier)
        nc      == NamespaceCandidates(op, ns, minTier)
    IN  CASE phase = "cluster"   -> SeenIn(cluster, cc, pos)
          [] phase = "namespace" -> {cluster[k] : k \in cc} \cup SeenIn(own, nc, pos)
          [] OTHER               -> Candidates(op, ns, minTier)

\* What has been collected is exact for the candidates of a set.
Collected(tier, rules, S) ==
    /\ rules \in Seq(ModRules)
    /\ IsLowestTier(tier, S)
    /\ Elements(rules) = {r \in S : r.executionTier = tier}

\* The inductive invariant: the collection is exact for what has been seen.
ScanInv ==
    /\ phase \in {"idle", "cluster", "namespace", "done"}
    /\ pos \in Nat \ {0}
    /\ phase # "idle" => Collected(currentExecutionTier, potentialRules, Seen)

\* Loop bookkeeping: nothing is seen before the first index, one more element
\* after each turn, and every candidate once the index has left the list.
LEMMA SeenInFirst ==
  ASSUME NEW list, NEW candidates, \A c \in candidates : c \in Nat \ {0}
  PROVE  SeenIn(list, candidates, 1) = {}
<1>1. {c \in candidates : c < 1} = {}
  OBVIOUS
<1> QED
  BY <1>1 DEF SeenIn

LEMMA SeenInNext ==
  ASSUME NEW list, NEW candidates, \A c \in candidates : c \in Nat, NEW p \in Nat
  PROVE  SeenIn(list, candidates, p + 1)
            = SeenIn(list, candidates, p) \cup (IF p \in candidates THEN {list[p]} ELSE {})
<1>1. p \in candidates => {c \in candidates : c < p + 1} = {c \in candidates : c < p} \cup {p}
  <2>1. \A c \in candidates : c < p + 1 <=> (c < p \/ c = p)
    OBVIOUS
  <2> QED
    BY <2>1
<1>2. p \notin candidates => {c \in candidates : c < p + 1} = {c \in candidates : c < p}
  OBVIOUS
<1> QED
  BY <1>1, <1>2 DEF SeenIn

LEMMA SeenInAll ==
  ASSUME NEW list, NEW n \in Nat, NEW candidates, \A c \in candidates : c \in 1 .. n,
         NEW p \in Nat \ {0}, p \notin 1 .. n
  PROVE  SeenIn(list, candidates, p) = {list[k] : k \in candidates}
<1>1. {c \in candidates : c < p} = candidates
  OBVIOUS
<1> QED
  BY <1>1 DEF SeenIn

\* processPotentialRule extends an exact collection by one rule.
LEMMA ProcessCollects ==
  ASSUME NEW S \in SUBSET ModRules, NEW r \in ModRules,
         Collected(currentExecutionTier, potentialRules, S),
         processPotentialRule(r)
  PROVE  Collected(currentExecutionTier', potentialRules', S \cup {r})
<1> DEFINE cur  == currentExecutionTier
           kept == IF r.executionTier < cur THEN << >> ELSE potentialRules
           tier == IF r.executionTier < cur THEN r.executionTier ELSE cur
<1>1. /\ \A x \in ModRules : x.executionTier \in Int /\ x.executionTier <= MaxInt16
      /\ MaxInt16 \in Int
  BY ModRulesAssumption, Int16Assumption
<1>2. cur \in Int /\ cur <= MaxInt16
  BY <1>1 DEF Collected, IsLowestTier
<1>3. /\ currentExecutionTier' = tier
      /\ potentialRules' = IF r.executionTier = tier THEN Append(kept, r) ELSE kept
  BY DEF processPotentialRule
<1>4. IsLowestTier(tier, S \cup {r})
  <2>1. CASE S = {}
    BY <2>1, <1>1, <1>2 DEF Collected, IsLowestTier
  <2>2. CASE S # {}
    BY <2>2, <1>1, <1>2 DEF Collected, IsLowestTier
  <2> QED
    BY <2>1, <2>2
<1>5. /\ kept \in Seq(ModRules)
      /\ Elements(kept) = {x \in S : x.executionTier = tier}
  <2>1. CASE r.executionTier < cur
    <3>1. \A x \in S : x.executionTier # r.executionTier
      BY <2>1, <1>1, <1>2 DEF Collected, IsLowestTier
    <3> QED
      BY <2>1, <3>1 DEF Elements
  <2>2. CASE ~(r.executionTier < cur)
    BY <2>2 DEF Collected
  <2> QED
    BY <2>1, <2>2
<1>6. ASSUME NEW s \in Seq(ModRules)
      PROVE  Append(s, r) \in Seq(ModRules) /\ Elements(Append(s, r)) = Elements(s) \cup {r}
  <2>1. /\ DOMAIN s = 1 .. Len(s) /\ Len(s) \in Nat
        /\ DOMAIN Append(s, r) = 1 .. Len(s) + 1
        /\ \A i \in 1 .. Len(s) : Append(s, r)[i] = s[i]
        /\ Append(s, r)[Len(s) + 1] = r
    OBVIOUS
  <2>2. \A i \in DOMAIN Append(s, r) : i \in DOMAIN s \/ i = Len(s) + 1
    BY <2>1
  <2>3. Len(s) + 1 \in DOMAIN Append(s, r) /\ \A i \in DOMAIN s : i \in DOMAIN Append(s, r)
    BY <2>1
  <2>4. Append(s, r) \in Seq(ModRules)
    OBVIOUS
  <2> QED
    BY <2>1, <2>2, <2>3, <2>4 DEF Elements
<1> HIDE DEF kept, tier
<1>7. CASE r.executionTier = tier
  <2>1. potentialRules' = Append(kept, r)
    BY <1>7, <1>3
  <2>2. potentialRules' \in Seq(ModRules) /\ Elements(potentialRules') = Elements(kept) \cup {r}
    BY <2>1, <1>5, <1>6
  <2> QED
    BY <1>3, <1>4, <1>5, <1>7, <2>2 DEF Collected
<1>8. CASE r.executionTier # tier
  BY <1>3, <1>4, <1>5, <1>8 DEF Collected
<1> QED
  BY <1>7, <1>8

\* The lists the scan reads, in a good store.
LEMMA ListFacts ==
  ASSUME StoreInv, NEW k
  PROVE  /\ ListAt(modRuleListMap, k) \in Seq(ModRules)
         /\ Len(ListAt(modRuleListMap, k)) \in Nat
         /\ DOMAIN ListAt(modRuleListMap, k) = 1 .. Len(ListAt(modRuleListMap, k))
         /\ \A i \in DOMAIN ListAt(modRuleListMap, k) : ListAt(modRuleListMap, k)[i] \in ModRules
<1>1. ListAt(modRuleListMap, k) \in Seq(ModRules)
  BY DEF StoreInv, StoreTypeOK, ListAt
<1> QED
  BY <1>1

\* One turn of a loop extends an exact collection to the next index.
LEMMA VisitCollects ==
  ASSUME NEW list \in Seq(ModRules), NEW candidates \in SUBSET (DOMAIN list),
         NEW base \in SUBSET ModRules, pos \in Nat \ {0},
         Collected(currentExecutionTier, potentialRules,
                   base \cup SeenIn(list, candidates, pos)),
         Visit(list, candidates)
  PROVE  Collected(currentExecutionTier', potentialRules',
                   base \cup SeenIn(list, candidates, pos'))
<1> DEFINE seen(p) == SeenIn(list, candidates, p)
<1>1. pos' = pos + 1 /\ pos \in DOMAIN list
  BY DEF Visit
<1>2. /\ Len(list) \in Nat /\ DOMAIN list = 1 .. Len(list)
      /\ \A i \in DOMAIN list : list[i] \in ModRules
  OBVIOUS
<1>5. (\A c \in candidates : c \in Nat) /\ pos \in Nat
  BY <1>2
<1>3. CASE pos \in candidates
  <2>1. seen(pos + 1) = seen(pos) \cup {list[pos]}
    BY <1>3, <1>5, SeenInNext
  <2>2. processPotentialRule(list[pos])
    BY <1>3 DEF Visit
  <2>3. list[pos] \in ModRules /\ base \cup seen(pos) \in SUBSET ModRules
    BY <1>1, <1>2 DEF SeenIn
  <2>4. Collected(currentExecutionTier', potentialRules',
                  (base \cup seen(pos)) \cup {list[pos]})
    BY <2>2, <2>3, ProcessCollects
  <2>5. (base \cup seen(pos)) \cup {list[pos]} = base \cup seen(pos + 1)
    BY <2>1
  <2> QED
    BY <2>4, <2>5, <1>1
<1>4. CASE pos \notin candidates
  <2>1. seen(pos + 1) = seen(pos)
    <3>1. seen(pos + 1) = seen(pos) \cup (IF pos \in candidates THEN {list[pos]} ELSE {})
      BY <1>5, SeenInNext
    <3> QED
      BY <3>1, <1>4
  <2> QED
    BY <2>1, <1>1, <1>4 DEF Visit
<1> QED
  BY <1>3, <1>4

\* The step of the scan's invariant, one case per action.
LEMMA ScanStep ==
  ASSUME StoreInv, ScanInv, [Next]_vars
  PROVE  ScanInv'
<1> DEFINE cluster == ListAt(modRuleListMap, ClusterNamespace)
           own     == ListAt(modRuleListMap, ns)
           cc      == ClusterCandidates(op, ns, minTier)
           nc      == NamespaceCandidates(op, ns, minTier)
           inCluster == {cluster[k] : k \in cc}
<1>0. /\ cc \in SUBSET (DOMAIN cluster) /\ nc \in SUBSET (DOMAIN own)
      /\ cluster \in Seq(ModRules) /\ own \in Seq(ModRules)
      /\ Len(cluster) \in Nat /\ DOMAIN cluster = 1 .. Len(cluster)
      /\ Len(own) \in Nat /\ DOMAIN own = 1 .. Len(own)
      /\ inCluster \in SUBSET ModRules
      /\ pos \in Nat \ {0}
  BY ListFacts DEF ClusterCandidates, NamespaceCandidates, ScanInv
<1>a. ns = NoNamespace => nc = {}
  BY DEF NamespaceCandidates
<1>b. Candidates(op, ns, minTier) = inCluster \cup {own[k] : k \in nc}
  BY DEF Candidates
<1>1. CASE Call
  <2>1. /\ phase' = "cluster" /\ pos' = 1 /\ modRuleListMap' = modRuleListMap
        /\ currentExecutionTier' = MaxInt16 /\ potentialRules' = << >>
    BY <1>1 DEF Call
  <2>2. DOMAIN ListAt(modRuleListMap', ClusterNamespace) = 1 .. Len(cluster)
    BY <2>1, <1>0
  <2>3. ClusterCandidates(op, ns, minTier)' \subseteq DOMAIN ListAt(modRuleListMap', ClusterNamespace)
    BY DEF ClusterCandidates
  <2>4. \A c \in ClusterCandidates(op, ns, minTier)' : ~(c < 1)
    BY <2>2, <2>3, <1>0
  <2>5. Seen' = {}
    BY <2>1, <2>4 DEF Seen, SeenIn
  <2> QED
    BY <2>1, <2>5 DEF ScanInv, Collected, IsLowestTier, Elements
<1>2. CASE VisitCluster
  <2>1. /\ phase = "cluster" /\ phase' = "cluster"
        /\ UNCHANGED <<modRuleListMap, op, ns, minTier>>
        /\ Visit(cluster, cc) /\ pos' = pos + 1
    BY <1>2 DEF VisitCluster, Visit
  <2>2. Seen = {} \cup SeenIn(cluster, cc, pos)
    BY <2>1 DEF Seen
  <2>3. Seen' = {} \cup SeenIn(cluster, cc, pos')
    BY <2>1 DEF Seen, ClusterCandidates
  <2>4. Collected(currentExecutionTier', potentialRules', {} \cup SeenIn(cluster, cc, pos'))
    BY <2>1, <2>2, <1>0, VisitCollects DEF ScanInv
  <2> QED
    BY <2>1, <2>3, <2>4, <1>0 DEF ScanInv
<1>3. CASE ClusterDone
  <2>1. /\ phase = "cluster" /\ phase' = "namespace" /\ pos' = 1
        /\ pos \notin DOMAIN cluster
        /\ UNCHANGED <<modRuleListMap, op, ns, minTier, currentExecutionTier, potentialRules>>
    BY <1>3 DEF ClusterDone
  <2>2. SeenIn(cluster, cc, pos) = inCluster
    BY <2>1, <1>0, SeenInAll
  <2>3. SeenIn(own, nc, 1) = {}
    <3>1. \A c \in nc : c \in Nat \ {0}
      BY <1>0
    <3> QED
      BY <3>1, SeenInFirst
  <2>4. Seen = inCluster
    BY <2>1, <2>2 DEF Seen
  <2>5. Seen' = inCluster \cup SeenIn(own, nc, 1)
    BY <2>1 DEF Seen, ClusterCandidates, NamespaceCandidates
  <2> QED
    BY <2>1, <2>3, <2>4, <2>5 DEF ScanInv
<1>4. CASE VisitNamespace
  <2>1. /\ phase = "namespace" /\ phase' = "namespace"
        /\ UNCHANGED <<modRuleListMap, op, ns, minTier>>
        /\ Visit(own, nc) /\ pos' = pos + 1
    BY <1>4 DEF VisitNamespace, Visit
  <2>2. Seen = inCluster \cup SeenIn(own, nc, pos)
    BY <2>1 DEF Seen
  <2>3. Seen' = inCluster \cup SeenIn(own, nc, pos')
    BY <2>1 DEF Seen, ClusterCandidates, NamespaceCandidates
  <2>4. Collected(currentExecutionTier', potentialRules',
                  inCluster \cup SeenIn(own, nc, pos'))
    BY <2>1, <2>2, <1>0, VisitCollects DEF ScanInv
  <2> QED
    BY <2>1, <2>3, <2>4, <1>0 DEF ScanInv
<1>5. CASE NamespaceDone
  <2>1. /\ phase = "namespace" /\ phase' = "done"
        /\ ns # NoNamespace => pos \notin DOMAIN own
        /\ UNCHANGED <<modRuleListMap, op, ns, minTier, pos, currentExecutionTier, potentialRules>>
    BY <1>5 DEF NamespaceDone
  <2>2. SeenIn(own, nc, pos) = {own[k] : k \in nc}
    <3>1. CASE ns = NoNamespace
      BY <3>1, <1>a DEF SeenIn
    <3>2. CASE ns # NoNamespace
      BY <3>2, <2>1, <1>0, SeenInAll
    <3> QED
      BY <3>1, <3>2
  <2>3. Seen = Candidates(op, ns, minTier)
    BY <2>1, <2>2, <1>b DEF Seen
  <2>4. Seen' = Candidates(op, ns, minTier)
    BY <2>1 DEF Seen, Candidates, ClusterCandidates, NamespaceCandidates
  <2> QED
    BY <2>1, <2>3, <2>4 DEF ScanInv
<1>6. CASE Return
  BY <1>6 DEF Return, ScanInv
<1>7. CASE Write
  BY <1>7 DEF Write, scanVars, ScanInv
<1>8. CASE UNCHANGED vars
  BY <1>8 DEF vars, scanVars, ScanInv, Seen, Candidates, ClusterCandidates, NamespaceCandidates
<1> QED
  BY <1>1, <1>2, <1>3, <1>4, <1>5, <1>6, <1>7, <1>8 DEF Next

\* The scan only reads the store: its steps are steps of the store or leave it.
LEMMA ScanKeepsStore == ASSUME [Next]_vars PROVE [StoreNext]_modRuleListMap
  BY DEF Next, vars, scanVars, Call, VisitCluster, ClusterDone, VisitNamespace,
         NamespaceDone, Return, Write, Visit

\* getMatchingModRuleStoreItems returns the lowest tier with a candidate and all
\* candidates of that tier, from lists in any order.
THEOREM ScanExact == Spec => []ScanIsExact
<1>1. Init => StoreInv /\ ScanInv
  BY DEF Init, StoreInit, StoreInv, StoreTypeOK, UniqueNames, HomeNamespace, ScanInv
<1>2. StoreInv /\ ScanInv /\ [Next]_vars => StoreInv' /\ ScanInv'
  BY ScanStep, ScanKeepsStore, StoreStep
<1>3. ScanInv => ScanIsExact
  BY DEF ScanInv, ScanIsExact, Collected, Seen, PotentialRules
<1> QED
  BY <1>1, <1>2, <1>3, PTL DEF Spec

=============================================================================
