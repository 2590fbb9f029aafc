------------------------- MODULE Admission_proofs -------------------------
(***************************************************************************)
(* The admission walk, for any rules, namespaces, manifests and any        *)
(* interleaving of Put and Delete: no rule that stays stored is skipped,   *)
(* and what passes the Reject rules is what is admitted.                   *)
(*                                                                         *)
(* The second part is about the manifest on its way through Handle: it     *)
(* keeps its type, last-applied-configuration stays its mirror, a denial   *)
(* has its cause, and every step of Handle is one less to the answer.      *)
(* A patch is a recursive function of its operations.  What it does is     *)
(* proved by induction on their number, from the well-foundedness of the   *)
(* natural numbers: the set of the numbers a statement holds for has 0,    *)
(* and with each number the next.                                          *)
(***************************************************************************)
EXTENDS Admission, ModRuleStore_proofs, FiniteSetTheorems, WellFoundedInduction

\* Control: the part of the type invariant the proofs need.
CtlInv ==
    /\ pc \in {"idle", "inject", "patch", "reject", "done"}
    /\ tier \in MinInt16 .. MaxInt16
    /\ matching \in Seq(ModRules)
    /\ steady \subseteq Stored
    /\ response \in {Patched, NonPatched} => pc = "done"

\* A walk has put to the match every steady rule of the tiers it has passed.
WalkInv ==
    pc \in {"patch", "reject"} =>
        \A r \in steady : Applies(r) /\ r.executionTier <= tier => r \in considered

\* In the patch walk the modified document is lost or is the examined one; in
\* the reject walk it is the examined one, and every Reject rule that was put to
\* the match and matches is a rejection or about to become one.
CheckInv ==
    /\ pc = "patch" => modified = Nil \/ modified = jsonv
    /\ pc = "reject" =>
        /\ modified = jsonv
        /\ \A r \in considered : r.type = "Reject" /\ IsMatch(r, jsonv)
               => r \in rejections \cup Elements(matching)

AdmissionInv == StoreInv /\ CtlInv /\ WalkInv /\ CheckInv /\ RejectEnforced

\* Below MaxInt16 the int16 addition of one does not wrap.
LEMMA NextTierDoesNotWrap ==
  ASSUME tier \in MinInt16 .. MaxInt16, tier # MaxInt16
  PROVE  Int16Add(tier, 1) = tier + 1
<1> DEFINE a == tier + 1 - MinInt16
           w == MaxInt16 - MinInt16 + 1
<1>1. a \in Nat /\ w \in Nat /\ w > 0 /\ a < w /\ MinInt16 \in Int /\ tier \in Int
  BY Int16Assumption
<1>2. \A m, n \in Nat : m < n => m % n = m
  OBVIOUS
<1>3. a % w = a
  BY <1>1, <1>2
<1> QED
  BY <1>1, <1>3 DEF Int16Add

\* A stored rule that applies and is not below the minimum tier is a candidate.
LEMMA AppliesIsCandidate ==
  ASSUME StoreInv, NEW r \in Stored, Applies(r), NEW minTier, r.executionTier >= minTier
  PROVE  r \in Candidates(operation, namespace, minTier)
<1>1. PICK k \in DOMAIN modRuleListMap : r \in Elements(modRuleListMap[k])
  BY DEF Stored, RulesOf
<1>2. PICK i \in DOMAIN modRuleListMap[k] : r = modRuleListMap[k][i]
  BY <1>1 DEF Elements
<1>3. r.namespace = k
  BY <1>2 DEF StoreInv, HomeNamespace
<1>4. ListAt(modRuleListMap, k) = modRuleListMap[k]
  BY DEF ListAt
<1>5. CASE r.namespace = ClusterNamespace /\ InClusterScope(r, namespace)
  BY <1>2, <1>3, <1>4, <1>5 DEF Candidates, ClusterCandidates, Applies
<1>6. CASE namespace # NoNamespace /\ r.namespace = namespace
  BY <1>2, <1>3, <1>4, <1>6 DEF Candidates, NamespaceCandidates, Applies
<1> QED
  BY <1>5, <1>6 DEF Applies

\* Rules are known, and their tiers lie strictly inside int16.
LEMMA StoredRules ==
  ASSUME StoreInv, NEW r \in Stored
  PROVE  r \in ModRules /\ r.executionTier \in Int
         /\ MinInt16 < r.executionTier /\ r.executionTier < MaxInt16
<1>1. r \in ModRules
  <2>1. PICK k \in DOMAIN modRuleListMap : r \in Elements(modRuleListMap[k])
    BY DEF Stored, RulesOf
  <2>2. modRuleListMap[k] \in Seq(ModRules)
    BY DEF StoreInv, StoreTypeOK
  <2> QED
    BY <2>1, <2>2 DEF Elements
<1> QED
  BY <1>1, ModRulesAssumption, ValidRulesAssumption, Int16Assumption DEF validateModRule

\* The call at the top of both loops keeps the walk complete.
LEMMA NextTierWalk ==
  ASSUME AdmissionInv, pc \in {"patch", "reject"}, tier # MaxInt16,
         NEW type, NEW t \in MinInt16 .. MaxInt16, NextTier(type, t),
         UNCHANGED <<modRuleListMap, pc, operation, namespace, steady>>
  PROVE  WalkInv'
<1> SUFFICES ASSUME NEW r \in steady, Applies(r), r.executionTier <= t
             PROVE  r \in considered'
  BY DEF WalkInv, Applies, NextTier, TierFrom
<1>1. Int16Add(tier, 1) = tier + 1
  BY NextTierDoesNotWrap DEF AdmissionInv, CtlInv
<1>2. /\ r \in Stored /\ StoreInv /\ r.executionTier \in Int
      /\ tier \in Int /\ t \in Int
  BY StoredRules, Int16Assumption DEF AdmissionInv, CtlInv
<1>3. considered' = considered \cup PotentialRules(operation, namespace, tier + 1, t)
  BY <1>1 DEF NextTier, TierFrom
<1>4. CASE r.executionTier <= tier
  BY <1>3, <1>4 DEF AdmissionInv, WalkInv
<1>5. CASE ~(r.executionTier <= tier)
  <2>1. r.executionTier >= tier + 1
    BY <1>2, <1>5
  <2>2. r \in Candidates(operation, namespace, tier + 1)
    BY <1>2, <2>1, AppliesIsCandidate
  <2>3. t <= r.executionTier
    BY <1>1, <2>2 DEF NextTier, TierFrom, IsLowestTier
  <2>4. t = r.executionTier
    BY <1>2, <2>3
  <2> QED
    BY <1>3, <2>2, <2>4 DEF PotentialRules
<1> QED
  BY <1>4, <1>5

-----------------------------------------------------------------------------
\* What the list operations of the walk do to the set of a list's elements.
LEMMA SublistElements ==
  ASSUME NEW list \in Seq(ModRules), NEW K \in SUBSET (DOMAIN list),
         NEW s \in Sublists(list, K)
  PROVE  s \in Seq(ModRules) /\ Elements(s) = {list[k] : k \in K}
<1>1. Len(list) \in Nat /\ DOMAIN list = 1 .. Len(list)
      /\ \A i \in DOMAIN list : list[i] \in ModRules
  OBVIOUS
<1>2. IsFiniteSet(1 .. Len(list))
  BY <1>1, FS_Interval
<1>3. Cardinality(K) \in Nat
  BY <1>1, <1>2, FS_Subset, FS_CardinalityType
<1>4. PICK f \in [1 .. Cardinality(K) -> K] :
         /\ \A k \in K : \E i \in DOMAIN f : f[i] = k
         /\ s = [i \in DOMAIN f |-> list[f[i]]]
  BY DEF Sublists
<1>5. DOMAIN s = 1 .. Cardinality(K) /\ \A i \in DOMAIN s : f[i] \in K /\ s[i] = list[f[i]]
  BY <1>4
<1>6. s \in [1 .. Cardinality(K) -> ModRules]
  BY <1>1, <1>4
<1>7. s \in Seq(ModRules)
  BY <1>3, <1>6
<1> QED
  BY <1>4, <1>5, <1>7 DEF Elements

LEMMA ConcatElements ==
  ASSUME NEW s \in Seq(ModRules), NEW u \in Seq(ModRules)
  PROVE  s \o u \in Seq(ModRules) /\ Elements(s \o u) = Elements(s) \cup Elements(u)
<1>1. /\ Len(s) \in Nat /\ DOMAIN s = 1 .. Len(s)
      /\ Len(u) \in Nat /\ DOMAIN u = 1 .. Len(u)
      /\ s \o u \in Seq(ModRules)
      /\ DOMAIN (s \o u) = 1 .. Len(s) + Len(u)
  OBVIOUS
<1>2. \A i \in 1 .. Len(s) + Len(u) :
        (s \o u)[i] = IF i <= Len(s) THEN s[i] ELSE u[i - Len(s)]
  OBVIOUS
<1>3. \A i \in DOMAIN s : i \in DOMAIN (s \o u) /\ (s \o u)[i] = s[i]
  BY <1>1, <1>2
<1>4. \A i \in DOMAIN u : Len(s) + i \in DOMAIN (s \o u) /\ (s \o u)[Len(s) + i] = u[i]
  BY <1>1, <1>2
<1>5. \A i \in DOMAIN (s \o u) :
        \/ i \in DOMAIN s /\ (s \o u)[i] = s[i]
        \/ i - Len(s) \in DOMAIN u /\ (s \o u)[i] = u[i - Len(s)]
  BY <1>1, <1>2
<1> DEFINE q == s \o u
<1>6. \A i \in DOMAIN q : q[i] \in Elements(s) \cup Elements(u)
  BY <1>5 DEF Elements
<1>7. (\A i \in DOMAIN s : s[i] \in Elements(q)) /\ (\A i \in DOMAIN u : u[i] \in Elements(q))
  BY <1>3, <1>4 DEF Elements
<1>8. q \in Seq(ModRules)
  BY <1>1
<1> HIDE DEF q
<1>9. Elements(q) = Elements(s) \cup Elements(u)
  BY <1>6, <1>7 DEF Elements
<1> QED
  BY <1>8, <1>9 DEF q

LEMMA HeadTailElements ==
  ASSUME NEW s \in Seq(ModRules), s # << >>
  PROVE  /\ Tail(s) \in Seq(ModRules)
         /\ Elements(s) = {Head(s)} \cup Elements(Tail(s))
<1>1. /\ Len(s) \in Nat /\ Len(s) > 0 /\ DOMAIN s = 1 .. Len(s)
      /\ Tail(s) \in Seq(ModRules) /\ DOMAIN Tail(s) = 1 .. Len(s) - 1
      /\ Head(s) = s[1]
      /\ \A i \in 1 .. Len(s) - 1 : Tail(s)[i] = s[i + 1]
  OBVIOUS
<1>2. /\ 1 \in DOMAIN s
      /\ \A i \in DOMAIN s : i = 1 \/ (i - 1 \in DOMAIN Tail(s) /\ Tail(s)[i - 1] = s[i])
      /\ \A i \in DOMAIN Tail(s) : i + 1 \in DOMAIN s /\ Tail(s)[i] = s[i + 1]
  BY <1>1
<1> DEFINE u == Tail(s)
<1>3. /\ \A i \in DOMAIN s : s[i] \in {Head(s)} \cup Elements(u)
      /\ Head(s) \in Elements(s)
      /\ \A i \in DOMAIN u : u[i] \in Elements(s)
  BY <1>1, <1>2 DEF Elements
<1> HIDE DEF u
<1>4. Elements(s) = {Head(s)} \cup Elements(u)
  BY <1>3 DEF Elements
<1> QED
  BY <1>1, <1>4 DEF u

\* The rules a tier hands over for execution are exactly the potential rules of
\* the type asked for whose match is positive.
LEMMA MatchingIsExact ==
  ASSUME StoreInv, NEW type, NEW minTier, NEW t, NEW m \in MatchingRules(type, minTier, t)
  PROVE  /\ m \in Seq(ModRules)
         /\ Elements(m) = {r \in PotentialRules(operation, namespace, minTier, t) :
                              r.type = type /\ IsMatch(r, jsonv)}
<1> DEFINE cluster == ListAt(modRuleListMap, ClusterNamespace)
           own     == ListAt(modRuleListMap, namespace)
           cc      == ClusterCandidates(operation, namespace, minTier)
           nc      == NamespaceCandidates(operation, namespace, minTier)
           kc      == Kept(cluster, cc, type, t)
           ko      == Kept(own, nc, type, t)
<1>1. cluster \in Seq(ModRules) /\ own \in Seq(ModRules)
  BY DEF StoreInv, StoreTypeOK, ListAt
<1>2. /\ cc \subseteq DOMAIN cluster /\ nc \subseteq DOMAIN own
      /\ kc \in SUBSET (DOMAIN cluster) /\ ko \in SUBSET (DOMAIN own)
  BY DEF ClusterCandidates, NamespaceCandidates, Kept
<1>3. PICK c \in Sublists(cluster, kc), o \in Sublists(own, ko) : m = c \o o
  BY DEF MatchingRules
<1>4. c \in Seq(ModRules) /\ Elements(c) = {cluster[k] : k \in kc}
  BY <1>1, <1>2, SublistElements
<1>5. o \in Seq(ModRules) /\ Elements(o) = {own[k] : k \in ko}
  BY <1>1, <1>2, SublistElements
<1>6. m \in Seq(ModRules) /\ Elements(m) = {cluster[k] : k \in kc} \cup {own[k] : k \in ko}
  BY <1>3, <1>4, <1>5, ConcatElements
<1>7. PotentialRules(operation, namespace, minTier, t)
        = {r \in {cluster[k] : k \in cc} \cup {own[k] : k \in nc} : r.executionTier = t}
  BY DEF PotentialRules, Candidates
<1> HIDE DEF cluster, own, cc, nc
<1> QED
  BY <1>6, <1>7 DEF Kept

-----------------------------------------------------------------------------
\* Steps that do not touch the store keep its invariant and its set of rules.
LEMMA StoreUnchanged ==
  ASSUME StoreInv, UNCHANGED modRuleListMap
  PROVE  StoreInv' /\ Stored' = Stored
  BY DEF StoreInv, StoreTypeOK, UniqueNames, HomeNamespace, Stored, RulesOf, Elements

\* A walk starts below every valid tier, so nothing is owed yet.
LEMMA StartWalkInv ==
  ASSUME StoreInv, UNCHANGED modRuleListMap, NEW at \in {"patch", "reject"},
         StartWalk(at), UNCHANGED response, response \notin {Patched, NonPatched}
  PROVE  CtlInv' /\ WalkInv' /\ RejectEnforced'
<1>1. Stored' = Stored
  BY StoreUnchanged
<1>2. /\ pc' = at /\ tier' = MinInt16 /\ matching' = << >> /\ steady' = Stored
      /\ response' = response
  BY DEF StartWalk
<1>3. CtlInv'
  BY <1>1, <1>2, Int16Assumption DEF CtlInv
<1>4. WalkInv'
  BY <1>2, StoredRules, Int16Assumption DEF WalkInv
<1>5. RejectEnforced'
  BY <1>2 DEF RejectEnforced
<1> QED
  BY <1>3, <1>4, <1>5

\* A tier read from the store keeps the invariant, in either walk.
LEMMA TierStep ==
  ASSUME AdmissionInv, PatchTier \/ RejectTier
  PROVE  AdmissionInv'
<1>1. PICK t \in MinInt16 .. MaxInt16 :
        NextTier(IF pc = "patch" THEN "Patch" ELSE "Reject", t)
  BY DEF PatchTier, RejectTier
<1>2. /\ pc \in {"patch", "reject"} /\ tier # MaxInt16 /\ matching = << >>
      /\ UNCHANGED <<modRuleListMap, pc, operation, namespace, original, modified, jsonv,
                     lastApplied, rejections, response, steady>>
  BY DEF PatchTier, RejectTier, requestVars, patchVars
<1>3. StoreInv' /\ Stored' = Stored
  BY <1>2, StoreUnchanged DEF AdmissionInv
<1>4. WalkInv'
  BY <1>1, <1>2, NextTierWalk
<1> DEFINE type == IF pc = "patch" THEN "Patch" ELSE "Reject"
           low  == Int16Add(tier, 1)
<1>5. /\ tier' = t
      /\ considered' = considered \cup PotentialRules(operation, namespace, low, t)
      /\ matching' \in MatchingRules(type, low, t)
  BY <1>1 DEF NextTier, TierFrom
<1>6. /\ matching' \in Seq(ModRules)
      /\ Elements(matching') = {r \in PotentialRules(operation, namespace, low, t) :
                                   r.type = type /\ IsMatch(r, jsonv)}
  <2> HIDE DEF type, low
  <2> QED
    BY <1>5, MatchingIsExact DEF AdmissionInv
<1>7. CtlInv'
  BY <1>2, <1>3, <1>5, <1>6 DEF AdmissionInv, CtlInv
<1>8. CheckInv'
  <2>1. CASE pc = "patch"
    BY <2>1, <1>2 DEF AdmissionInv, CheckInv
  <2>2. CASE pc = "reject"
    <3>1. modified' = jsonv' /\ jsonv' = jsonv /\ rejections' = rejections
      BY <2>2, <1>2 DEF AdmissionInv, CheckInv
    <3>2. Elements(matching) = {}
      BY <1>2 DEF Elements
    <3>3. ASSUME NEW r \in considered', r.type = "Reject", IsMatch(r, jsonv)
          PROVE  r \in rejections' \cup Elements(matching')
      <4>1. CASE r \in considered
        BY <4>1, <3>1, <3>2, <3>3, <2>2 DEF AdmissionInv, CheckInv
      <4>2. CASE r \in PotentialRules(operation, namespace, low, t)
        BY <4>2, <3>3, <2>2, <1>6
      <4> QED
        BY <4>1, <4>2, <1>5
    <3> QED
      BY <3>1, <3>3, <2>2, <1>2 DEF CheckInv
  <2> QED
    BY <2>1, <2>2, <1>2
<1>9. RejectEnforced'
  BY <1>2 DEF AdmissionInv, RejectEnforced, Applies, Admitted
<1> QED
  BY <1>3, <1>4, <1>7, <1>8, <1>9 DEF AdmissionInv

\* The inner loop of CalculatePatch.
LEMMA PatchRuleStep ==
  ASSUME AdmissionInv, PatchRule
  PROVE  AdmissionInv'
<1>1. /\ pc = "patch" /\ matching # << >> /\ matching' = Tail(matching)
      /\ UNCHANGED <<modRuleListMap, operation, namespace, original, tier, considered,
                     rejections, steady>>
  BY DEF PatchRule, requestVars
<1>2. \/ UNCHANGED <<pc, response>>
      \/ pc' = "done" /\ response' \in {PatchFailed, NoAnswer}
  BY DEF PatchRule, Respond
<1>3. modified' = Nil \/ modified' = jsonv'
  BY <1>1 DEF PatchRule, AdmissionInv, CheckInv
<1>4. StoreInv' /\ Stored' = Stored
  BY <1>1, StoreUnchanged DEF AdmissionInv
<1>5. response' \notin {Patched, NonPatched}
  BY <1>1, <1>2 DEF AdmissionInv, CtlInv, PatchFailed, NoAnswer, Patched, NonPatched
<1>6. CtlInv'
  BY <1>1, <1>2, <1>4, <1>5, HeadTailElements DEF AdmissionInv, CtlInv
<1>7. WalkInv'
  BY <1>1 DEF AdmissionInv, WalkInv, Applies
<1>8. CheckInv'
  BY <1>1, <1>2, <1>3 DEF CheckInv
<1> QED
  BY <1>4, <1>5, <1>6, <1>7, <1>8 DEF AdmissionInv, RejectEnforced

\* The end of CalculatePatch.
LEMMA PatchDoneStep ==
  ASSUME AdmissionInv, PatchDone
  PROVE  AdmissionInv'
<1>1. /\ pc = "patch" /\ UNCHANGED modRuleListMap
      /\ UNCHANGED <<operation, namespace, original, rejections>>
  BY DEF PatchDone, requestVars
<1>2. response \notin {Patched, NonPatched} /\ StoreInv
  BY <1>1 DEF AdmissionInv, CtlInv
<1>3. StoreInv' /\ Stored' = Stored
  BY <1>1, StoreUnchanged DEF AdmissionInv
<1>4. CASE StartWalk("reject") /\ UNCHANGED response /\ modified' = jsonv'
  <2>1. CtlInv' /\ WalkInv' /\ RejectEnforced'
    BY <1>1, <1>2, <1>4, StartWalkInv
  <2>2. CheckInv'
    BY <1>4 DEF StartWalk, CheckInv
  <2> QED
    BY <1>3, <2>1, <2>2 DEF AdmissionInv
<1>5. CASE /\ pc' = "done" /\ response' \in {PatchFailed, NoAnswer}
           /\ UNCHANGED <<tier, matching, considered, steady>>
  <2>1. response' \notin {Patched, NonPatched}
    BY <1>5 DEF PatchFailed, NoAnswer, Patched, NonPatched
  <2>2. CtlInv' /\ WalkInv' /\ CheckInv' /\ RejectEnforced'
    BY <1>3, <1>5, <2>1 DEF AdmissionInv, CtlInv, WalkInv, CheckInv, RejectEnforced
  <2> QED
    BY <1>3, <2>2 DEF AdmissionInv
<1> QED
  BY <1>1, <1>4, <1>5 DEF PatchDone, Respond, AdmissionInv, CheckInv, patchVars, walkVars

\* The inner loop of DetermineRejections, and the answer.
LEMMA RejectRuleStep ==
  ASSUME AdmissionInv, RejectRule
  PROVE  AdmissionInv'
<1>1. /\ pc = "reject" /\ matching # << >> /\ matching' = Tail(matching)
      /\ rejections' = rejections \cup {Head(matching)}
      /\ UNCHANGED <<modRuleListMap, pc, operation, namespace, original, modified, jsonv,
                     lastApplied, tier, considered, response, steady>>
  BY DEF RejectRule, requestVars, patchVars
<1>2. StoreInv' /\ Stored' = Stored
  BY <1>1, StoreUnchanged DEF AdmissionInv
<1>3. /\ matching' \in Seq(ModRules)
      /\ Elements(matching) = {Head(matching)} \cup Elements(matching')
  BY <1>1, HeadTailElements DEF AdmissionInv, CtlInv
<1>4. CtlInv' /\ WalkInv'
  BY <1>1, <1>2, <1>3 DEF AdmissionInv, CtlInv, WalkInv, Applies
<1>5. CheckInv'
  BY <1>1, <1>3 DEF AdmissionInv, CheckInv
<1>6. RejectEnforced'
  BY <1>1 DEF AdmissionInv, RejectEnforced, Applies, Admitted
<1> QED
  BY <1>2, <1>4, <1>5, <1>6 DEF AdmissionInv

LEMMA RejectDoneStep ==
  ASSUME AdmissionInv, RejectDone
  PROVE  AdmissionInv'
<1>1. /\ pc = "reject" /\ matching = << >> /\ tier = MaxInt16 /\ pc' = "done"
      /\ UNCHANGED <<modRuleListMap, operation, namespace, original, modified, jsonv,
                     lastApplied, tier, matching, considered, rejections, steady>>
  BY DEF RejectDone, Respond, requestVars, patchVars, walkVars
<1>2. response' = CASE rejections # {} -> Denied
                    [] rejections = {} /\ modified # original -> Patched
                    [] OTHER -> NonPatched
  BY DEF RejectDone, Respond
<1>3. StoreInv' /\ Stored' = Stored
  BY <1>1, StoreUnchanged DEF AdmissionInv
<1>4. CtlInv' /\ WalkInv' /\ CheckInv'
  BY <1>1, <1>3 DEF AdmissionInv, CtlInv, WalkInv, CheckInv
<1>5. RejectEnforced'
  <2> SUFFICES ASSUME response' \in {Patched, NonPatched},
                      NEW r \in steady, r.type = "Reject", Applies(r)
               PROVE  ~IsMatch(r, Admitted')
    BY <1>1 DEF RejectEnforced, Applies
  <2>1. rejections = {}
    BY <1>2 DEF Denied, Patched, NonPatched
  <2>2. Admitted' = jsonv
    BY <1>1, <1>2, <2>1 DEF AdmissionInv, CheckInv, Admitted, Patched, NonPatched
  <2>3. r.executionTier <= tier
    BY <1>1, StoredRules, Int16Assumption DEF AdmissionInv, CtlInv
  <2>4. r \in considered
    BY <2>3, <1>1 DEF AdmissionInv, WalkInv
  <2>5. Elements(matching) = {}
    BY <1>1 DEF Elements
  <2> QED
    BY <2>1, <2>2, <2>4, <2>5, <1>1 DEF AdmissionInv, CheckInv
<1> QED
  BY <1>3, <1>4, <1>5 DEF AdmissionInv

\* A Put or a Delete can only shrink the set of steady rules.
LEMMA WriteStep ==
  ASSUME AdmissionInv, Write
  PROVE  AdmissionInv'
<1>1. /\ StoreNext /\ steady' = steady \cap Stored'
      /\ UNCHANGED <<pc, operation, namespace, original, modified, jsonv, lastApplied,
                     tier, matching, considered, rejections, response>>
  BY DEF Write, requestVars, patchVars, walkVars
<1>2. StoreInv'
  BY <1>1, StoreStep DEF AdmissionInv
<1>3. CtlInv' /\ WalkInv' /\ CheckInv'
  BY <1>1 DEF AdmissionInv, CtlInv, WalkInv, CheckInv, Applies, Elements
<1>4. RejectEnforced'
  BY <1>1 DEF AdmissionInv, RejectEnforced, Applies, Admitted
<1> QED
  BY <1>2, <1>3, <1>4 DEF AdmissionInv

LEMMA AdmissionStep ==
  ASSUME AdmissionInv, [Next]_vars
  PROVE  AdmissionInv'
<1>1. CASE Receive
  <2>1. /\ pc = "idle" /\ pc' = "inject" /\ response' = "none"
        /\ UNCHANGED <<modRuleListMap, tier, matching, steady>>
    BY <1>1 DEF Receive, walkVars
  <2>2. StoreInv' /\ Stored' = Stored
    BY <2>1, StoreUnchanged DEF AdmissionInv
  <2> QED
    BY <2>1, <2>2 DEF AdmissionInv, CtlInv, WalkInv, CheckInv, RejectEnforced,
                      Patched, NonPatched
<1>2. CASE InjectError
  <2>1. /\ pc' = "done" /\ response' = InjectFailed
        /\ UNCHANGED <<modRuleListMap, tier, matching, steady>>
    BY <1>2 DEF InjectError, Respond, walkVars
  <2>2. StoreInv' /\ Stored' = Stored
    BY <2>1, StoreUnchanged DEF AdmissionInv
  <2> QED
    BY <2>1, <2>2 DEF AdmissionInv, CtlInv, WalkInv, CheckInv, RejectEnforced,
                      InjectFailed, Patched, NonPatched
<1>3. CASE Inject
  <2>1. /\ pc = "inject" /\ StartWalk("patch") /\ modified' = jsonv'
        /\ UNCHANGED <<modRuleListMap, response>>
    BY <1>3 DEF Inject
  <2>2. StoreInv'
    BY <2>1, StoreUnchanged DEF AdmissionInv
  <2>3. response \notin {Patched, NonPatched}
    BY <2>1 DEF AdmissionInv, CtlInv
  <2>4. CtlInv' /\ WalkInv' /\ RejectEnforced'
    BY <2>1, <2>3, StartWalkInv DEF AdmissionInv
  <2>5. CheckInv'
    BY <2>1 DEF StartWalk, CheckInv
  <2> QED
    BY <2>2, <2>4, <2>5 DEF AdmissionInv
<1>4. CASE PatchTier \/ RejectTier
  BY <1>4, TierStep
<1>5. CASE PatchRule
  BY <1>5, PatchRuleStep
<1>6. CASE PatchDone
  BY <1>6, PatchDoneStep
<1>7. CASE RejectRule
  BY <1>7, RejectRuleStep
<1>8. CASE RejectDone
  BY <1>8, RejectDoneStep
<1>9. CASE Finish
  <2>1. /\ pc' = "idle" /\ response' = "none" /\ UNCHANGED modRuleListMap
        /\ tier' = MinInt16 /\ matching' = << >> /\ steady' = {}
    BY <1>9 DEF Finish, Idle
  <2>2. StoreInv'
    BY <2>1, StoreUnchanged DEF AdmissionInv
  <2>3. CtlInv'
    <3>1. MinInt16 \in MinInt16 .. MaxInt16
      BY Int16Assumption
    <3> QED
      BY <2>1, <3>1 DEF CtlInv, Patched, NonPatched
  <2>4. WalkInv' /\ CheckInv' /\ RejectEnforced'
    BY <2>1 DEF WalkInv, CheckInv, RejectEnforced
  <2> QED
    BY <2>2, <2>3, <2>4 DEF AdmissionInv
<1>10. CASE Write
  BY <1>10, WriteStep
<1>11. CASE UNCHANGED vars
  <2>1. UNCHANGED <<modRuleListMap, pc, operation, namespace, original, modified, jsonv,
                    lastApplied, tier, matching, considered, rejections, response, steady>>
    BY <1>11 DEF vars, requestVars, patchVars, walkVars
  <2>2. StoreInv' /\ Stored' = Stored
    BY <2>1, StoreUnchanged DEF AdmissionInv
  <2>3. CtlInv' /\ WalkInv'
    BY <2>1, <2>2 DEF AdmissionInv, CtlInv, WalkInv, Applies
  <2>4. CheckInv'
    BY <2>1 DEF AdmissionInv, CheckInv, Elements
  <2>5. RejectEnforced'
    BY <2>1 DEF AdmissionInv, RejectEnforced, Applies, Admitted
  <2> QED
    BY <2>2, <2>3, <2>4, <2>5 DEF AdmissionInv
<1> QED
  BY <1>1, <1>2, <1>3, <1>4, <1>5, <1>6, <1>7, <1>8, <1>9, <1>10, <1>11 DEF Next, Handle

\* The inductive invariant of the admission walk.
THEOREM AdmissionInvariance == Spec => []AdmissionInv
<1>1. Init => AdmissionInv
  BY Int16Assumption
     DEF Init, Idle, StoreInit, AdmissionInv, StoreInv, StoreTypeOK, UniqueNames,
         HomeNamespace, CtlInv, WalkInv, CheckInv, RejectEnforced, Patched, NonPatched
<1>2. AdmissionInv /\ [Next]_vars => AdmissionInv'
  BY AdmissionStep
<1> QED
  BY <1>1, <1>2, PTL DEF Spec

\* CalculatePatch and DetermineRejections put to the match every rule that stays
\* stored during the walk and applies to the request, in whatever way Put and
\* Delete change the other rules between two tiers.
THEOREM NothingSkipped == Spec => []NoRuleSkipped
<1>1. AdmissionInv => NoRuleSkipped
  <2> SUFFICES ASSUME AdmissionInv, pc \in {"patch", "reject"}, tier = MaxInt16,
                      NEW r \in steady, Applies(r)
               PROVE  r \in considered
    BY DEF NoRuleSkipped
  <2>1. r.executionTier <= tier
    BY StoredRules, Int16Assumption DEF AdmissionInv, CtlInv
  <2> QED
    BY <2>1 DEF AdmissionInv, WalkInv
<1> QED
  BY <1>1, AdmissionInvariance, PTL

\* A request answered "patched ok" or "non-patched ok" is admitted with a
\* manifest that no steady, applicable Reject rule matches.
THEOREM RejectsEnforced == Spec => []RejectEnforced
<1>1. AdmissionInv => RejectEnforced
  BY DEF AdmissionInv
<1> QED
  BY <1>1, AdmissionInvariance, PTL

\* A walk takes up new rules only in a tier above the ones it has been through.
THEOREM TiersOnlyRise == Spec => TiersRise
<1>1. AdmissionInv /\ [Next]_vars
        => [considered' # considered /\ pc' = pc => tier' > tier]_vars
  <2> SUFFICES ASSUME AdmissionInv, Next, considered' # considered, pc' = pc
               PROVE  tier' > tier
    OBVIOUS
  <2>1. PatchTier \/ RejectTier
    BY DEF Next, Handle, Receive, InjectError, Inject, PatchRule, PatchDone, RejectRule,
           RejectDone, Finish, Write, Respond, StartWalk, walkVars, vars, Idle
  <2>2. PICK t \in MinInt16 .. MaxInt16, type \in {"Patch", "Reject"} : NextTier(type, t)
    BY <2>1 DEF PatchTier, RejectTier
  <2>3. tier # MaxInt16 /\ tier \in MinInt16 .. MaxInt16 /\ Int16Add(tier, 1) = tier + 1
    BY <2>1, NextTierDoesNotWrap DEF PatchTier, RejectTier, AdmissionInv, CtlInv
  <2>4. PICK r \in Candidates(operation, namespace, tier + 1) : r.executionTier = t
    BY <2>2, <2>3 DEF NextTier, TierFrom, PotentialRules
  <2>5. r.executionTier >= tier + 1
    BY DEF Candidates, ClusterCandidates, NamespaceCandidates
  <2> QED
    BY <2>2, <2>3, <2>4, <2>5, Int16Assumption DEF NextTier, TierFrom
<1> QED
  BY <1>1, AdmissionInvariance, PTL DEF Spec, TiersRise

-----------------------------------------------------------------------------
(* The manifest                                                            *)

\* A set of natural numbers with 0 and with the successor of each of its
\* members has them all: induction without an operator as a parameter.
LEMMA NatSetInduction ==
  ASSUME NEW S, 0 \in S, \A n \in Nat : n \in S => n + 1 \in S
  PROVE  Nat \subseteq S
<1> DEFINE R == OpToRel(<, Nat)
<1> DEFINE T == {n \in Nat : n \notin S}
<1> SUFFICES ASSUME T # {} PROVE FALSE
  OBVIOUS
<1>1. IsWellFoundedOn(R, Nat)
  BY NatLessThanWellFounded
<1>2. T \subseteq Nat
  OBVIOUS
<1>3. \E x \in T : \A y \in T : ~(<<y, x>> \in R)
  <2> HIDE DEF R, T
  <2> QED
    BY <1>1, <1>2, WFMin
<1>4. PICK x \in T : \A y \in T : ~(<<y, x>> \in R)
  BY <1>3
<1>5. x \in Nat \ {0}
  OBVIOUS
<1>6. x - 1 \in Nat /\ x - 1 < x /\ (x - 1) + 1 = x
  BY <1>5
<1>7. x - 1 \in T
  BY <1>5, <1>6
<1>8. <<x - 1, x>> \in R
  BY <1>5, <1>6 DEF OpToRel
<1> QED
  BY <1>4, <1>7, <1>8

\* f holds the manifest after each operation of a patch.
AfterEach(f, n, ops, doc) ==
    f = [i \in 0 .. n |-> IF i = 0 THEN doc ELSE ApplyOperation(f[i - 1], ops[i])]

\* For every number of operations there is such a function.
LEMMA AfterEachExists ==
  ASSUME NEW ops, NEW doc
  PROVE  \A n \in Nat : \E f : AfterEach(f, n, ops, doc)
<1> DEFINE S == {n \in Nat : \E f : AfterEach(f, n, ops, doc)}
<1>1. 0 \in S
  <2> DEFINE f == [i \in 0 .. 0 |-> doc]
  <2>1. AfterEach(f, 0, ops, doc)
    BY DEF AfterEach
  <2> QED
    BY <2>1
<1>2. ASSUME NEW n \in Nat, n \in S PROVE n + 1 \in S
  <2>1. PICK g : AfterEach(g, n, ops, doc)
    BY <1>2
  <2> DEFINE f == [i \in 0 .. n + 1 |-> IF i = n + 1 THEN ApplyOperation(g[n], ops[n + 1])
                                                    ELSE g[i]]
  <2>2. ASSUME NEW i \in 0 .. n + 1
        PROVE  f[i] = IF i = 0 THEN doc ELSE ApplyOperation(f[i - 1], ops[i])
    <3>1. CASE i = n + 1
      BY <3>1
    <3>2. CASE i \in 0 .. n
      BY <2>1, <3>2 DEF AfterEach
    <3> QED
      BY <3>1, <3>2
  <2>3. AfterEach(f, n + 1, ops, doc)
    BY <2>2 DEF AfterEach
  <2> QED
    BY <2>3
<1> HIDE DEF S
<1>3. Nat \subseteq S
  BY <1>1, <1>2, NatSetInduction
<1> QED
  BY <1>3 DEF S

\* ApplyWithOptions applies the operations in turn.
LEMMA AppliedInTurn ==
  ASSUME NEW ops, Len(ops) \in Nat, NEW doc
  PROVE  \E f : AfterEach(f, Len(ops), ops, doc) /\ ApplyWithOptions(ops, doc) = f[Len(ops)]
<1> DEFINE after == CHOOSE f : AfterEach(f, Len(ops), ops, doc)
<1>1. AfterEach(after, Len(ops), ops, doc)
  BY AfterEachExists
<1>2. ApplyWithOptions(ops, doc) = after[Len(ops)]
  BY DEF ApplyWithOptions, AfterEach
<1> QED
  BY <1>1, <1>2

\* The operations of a JSON patch, with their values.
JSONOperations == [op : {"add", "replace", "remove"}, path : Fields \cup {AnnotationsPath},
                   value : Values]

\* A rule whose templates do not fail yields a JSON patch.
LEMMA CalculatedPatch ==
  ASSUME NEW r \in ModRules, NEW doc \in Documents, ~CalculateFails(r, doc)
  PROVE  calculatePatch(r, doc) \in Seq(JSONOperations)
<1>1. r.patch \in Seq(PatchOperations)
  BY PatchAssumption
<1>2. ASSUME NEW i \in DOMAIN r.patch
      PROVE  calculatePatch(r, doc)[i] \in JSONOperations
  <2>1. r.patch[i] \in PatchOperations
    BY <1>1
  <2>2. r.patch[i].from # Nil => doc.object[r.patch[i].from] # Nil
    BY DEF CalculateFails
  <2>3. r.patch[i].from # Nil => doc.object[r.patch[i].from] \in Values
    BY <2>1, <2>2 DEF PatchOperations, Documents, Objects
  <2> QED
    BY <2>1, <2>3 DEF calculatePatch, PatchOperations, JSONOperations
<1>3. DOMAIN calculatePatch(r, doc) = 1 .. Len(r.patch) /\ Len(r.patch) \in Nat
  BY <1>1 DEF calculatePatch
<1> QED
  <2> DEFINE p == calculatePatch(r, doc)
  <2>1. p = [i \in 1 .. Len(r.patch) |-> p[i]]
    BY <1>1 DEF calculatePatch
  <2>2. \A i \in 1 .. Len(r.patch) : p[i] \in JSONOperations
    BY <1>2, <1>1
  <2> HIDE DEF p
  <2>3. p \in Seq(JSONOperations)
    BY <1>3, <2>1, <2>2
  <2> QED
    BY <2>3 DEF p

\* One operation on two manifests that differ at most in the annotation fails on
\* both or leaves them alike.
LEMMA OperationAlike ==
  ASSUME NEW d \in Documents, NEW e \in Documents, d.object = e.object,
         NEW o \in JSONOperations
  PROVE  LET x == ApplyOperation(d, o)
             y == ApplyOperation(e, o)
         IN  \/ x = Nil /\ y = Nil
             \/ x \in Documents /\ y \in Documents /\ x.object = y.object
<1>0. d # Nil /\ e # Nil
  BY NilAssumption
<1>1. CASE o.path = AnnotationsPath
  BY <1>0, <1>1 DEF ApplyOperation, Documents
<1>2. CASE o.path # AnnotationsPath
  <2>0. o.path \in Fields /\ o.value \in Values
    BY <1>2 DEF JSONOperations
  <2>1. CASE o.op = "replace" /\ d.object[o.path] = Nil
    BY <1>0, <1>2, <2>1 DEF ApplyOperation
  <2>2. CASE ~(o.op = "replace" /\ d.object[o.path] = Nil)
    <3> DEFINE v == IF o.op = "remove" THEN Nil ELSE o.value
    <3>1. /\ ApplyOperation(d, o) = [d EXCEPT !.object[o.path] = v]
          /\ ApplyOperation(e, o) = [e EXCEPT !.object[o.path] = v]
      BY <1>0, <1>2, <2>2 DEF ApplyOperation
    <3>2. [d.object EXCEPT ![o.path] = v] \in Objects
      BY <2>0 DEF Documents, Objects
    <3> QED
      BY <3>1, <3>2 DEF Documents
  <2> QED
    BY <2>1, <2>2
<1> QED
  BY <1>1, <1>2

\* So does a whole patch.
LEMMA PatchAlike ==
  ASSUME NEW d \in Documents, NEW e \in Documents, d.object = e.object,
         NEW ops \in Seq(JSONOperations)
  PROVE  LET x == ApplyWithOptions(ops, d)
             y == ApplyWithOptions(ops, e)
         IN  \/ x = Nil /\ y = Nil
             \/ x \in Documents /\ y \in Documents /\ x.object = y.object
<1> DEFINE n == Len(ops)
           Alike(x, y) == \/ x = Nil /\ y = Nil
                          \/ x \in Documents /\ y \in Documents /\ x.object = y.object
<1>0. n \in Nat
  OBVIOUS
<1>1. PICK f : AfterEach(f, n, ops, d) /\ ApplyWithOptions(ops, d) = f[n]
  BY <1>0, AppliedInTurn
<1>2. PICK g : AfterEach(g, n, ops, e) /\ ApplyWithOptions(ops, e) = g[n]
  BY <1>0, AppliedInTurn
<1> DEFINE S == {i \in Nat : i <= n => Alike(f[i], g[i])}
<1>3. 0 \in S
  BY <1>0, <1>1, <1>2 DEF AfterEach
<1>4. ASSUME NEW i \in Nat, i \in S PROVE i + 1 \in S
  <2> SUFFICES ASSUME i + 1 <= n PROVE Alike(f[i + 1], g[i + 1])
    OBVIOUS
  <2>1. Alike(f[i], g[i])
    BY <1>0, <1>4
  <2>2. /\ f[i + 1] = ApplyOperation(f[i], ops[i + 1])
        /\ g[i + 1] = ApplyOperation(g[i], ops[i + 1])
    BY <1>0, <1>1, <1>2 DEF AfterEach
  <2>3. ops[i + 1] \in JSONOperations
    BY <1>0
  <2>4. CASE f[i] = Nil /\ g[i] = Nil
    BY <2>2, <2>4 DEF ApplyOperation
  <2>5. CASE f[i] \in Documents /\ g[i] \in Documents /\ f[i].object = g[i].object
    BY <2>2, <2>3, <2>5, OperationAlike
  <2> QED
    BY <2>1, <2>4, <2>5
<1>5. Nat \subseteq S
  <2> HIDE DEF S
  <2> QED
    BY <1>3, <1>4, NatSetInduction
<1>6. Alike(f[n], g[n])
  BY <1>0, <1>5
<1> QED
  BY <1>1, <1>2, <1>6

\* A patch turns a manifest into a manifest, or fails.
LEMMA PatchTyped ==
  ASSUME NEW d \in Documents, NEW ops \in Seq(JSONOperations)
  PROVE  ApplyWithOptions(ops, d) \in Documents \cup {Nil}
BY PatchAlike

\* The annotation takes a patch as the manifest does if it mirrors it.
LEMMA MirrorPatched ==
  ASSUME NEW d \in Documents, NEW ops \in Seq(JSONOperations),
         ApplyWithOptions(ops, d) # Nil
  PROVE  ApplyToLastApplied(ops, d.object) = ApplyWithOptions(ops, d).object
<1> DEFINE e == [object |-> d.object, lastApplied |-> Nil]
<1>1. e \in Documents /\ e.object = d.object
  BY DEF Documents
<1>2. ApplyToLastApplied(ops, d.object)
        = IF ApplyWithOptions(ops, e) = Nil THEN Nil ELSE ApplyWithOptions(ops, e).object
  BY DEF ApplyToLastApplied
<1> HIDE DEF e
<1> QED
  BY <1>1, <1>2, PatchAlike, NilAssumption

LEMMA LastAppliedTyped ==
  ASSUME NEW config \in Objects, NEW ops \in Seq(JSONOperations)
  PROVE  ApplyToLastApplied(ops, config) \in Objects \cup {Nil}
<1> DEFINE e == [object |-> config, lastApplied |-> Nil]
<1>1. e \in Documents
  BY DEF Documents
<1>2. ApplyToLastApplied(ops, config)
        = IF ApplyWithOptions(ops, e) = Nil THEN Nil ELSE ApplyWithOptions(ops, e).object
  BY DEF ApplyToLastApplied
<1>3. ApplyWithOptions(ops, e) \in Documents \cup {Nil}
  <2> HIDE DEF e
  <2> QED
    BY <1>1, PatchTyped
<1> QED
  BY <1>2, <1>3 DEF Documents

-----------------------------------------------------------------------------
(* The type invariant                                                      *)

\* While a request is served there is a manifest to serve; the rules are matched
\* against one in both walks.
TypeInv ==
    /\ AdmissionTypeOK
    /\ pc \in {"inject", "patch", "reject"} => original \in Documents
    /\ pc \in {"patch", "reject"} => jsonv \in Documents

\* The variables that are not set in a step, one by one.
LEMMA NothingElse ==
  /\ UNCHANGED requestVars => UNCHANGED <<operation, namespace, original>>
  /\ UNCHANGED patchVars => UNCHANGED <<modified, jsonv, lastApplied>>
  /\ UNCHANGED walkVars => UNCHANGED <<tier, matching, considered>>
BY DEF requestVars, patchVars, walkVars

LEMMA StoredTyped ==
  ASSUME StoreInv
  PROVE  Stored \subseteq ModRules
BY StoredRules

\* The rules a tier considers are stored, and apply to the request.
LEMMA PotentialApply ==
  ASSUME StoreInv, NEW minTier, NEW t,
         NEW r \in PotentialRules(operation, namespace, minTier, t)
  PROVE  r \in Stored /\ Applies(r)
<1> DEFINE cluster == ListAt(modRuleListMap, ClusterNamespace)
           own     == ListAt(modRuleListMap, namespace)
<1>1. r \in Candidates(operation, namespace, minTier)
  BY DEF PotentialRules
<1>2. CASE \E i \in ClusterCandidates(operation, namespace, minTier) : r = cluster[i]
  <2>1. PICK i \in DOMAIN cluster : /\ r = cluster[i] /\ InClusterScope(r, namespace)
                                    /\ operation \in r.admissionOperations
    BY <1>2 DEF ClusterCandidates
  <2>2. ClusterNamespace \in DOMAIN modRuleListMap
    BY <2>1 DEF ListAt
  <2>3. cluster = modRuleListMap[ClusterNamespace]
    BY <2>2 DEF ListAt
  <2>4. r.namespace = ClusterNamespace
    BY <2>1, <2>2, <2>3 DEF StoreInv, HomeNamespace
  <2>5. r \in Stored
    BY <2>1, <2>2, <2>3 DEF Stored, RulesOf, Elements
  <2> QED
    BY <2>1, <2>4, <2>5 DEF Applies
<1>3. CASE \E i \in NamespaceCandidates(operation, namespace, minTier) : r = own[i]
  <2>1. PICK i \in DOMAIN own : /\ r = own[i] /\ namespace # NoNamespace
                                /\ operation \in r.admissionOperations
    BY <1>3 DEF NamespaceCandidates
  <2>2. namespace \in DOMAIN modRuleListMap
    BY <2>1 DEF ListAt
  <2>3. own = modRuleListMap[namespace]
    BY <2>2 DEF ListAt
  <2>4. r.namespace = namespace
    BY <2>1, <2>2, <2>3 DEF StoreInv, HomeNamespace
  <2>5. r \in Stored
    BY <2>1, <2>2, <2>3 DEF Stored, RulesOf, Elements
  <2> QED
    BY <2>1, <2>4, <2>5 DEF Applies
<1> QED
  BY <1>1, <1>2, <1>3 DEF Candidates

\* What PatchRule computes has the type of what it replaces.
LEMMA PatchRuleTyped ==
  ASSUME AdmissionInv, TypeInv, PatchRule
  PROVE  /\ modified' \in Documents \cup {Nil}
         /\ jsonv' \in Documents
         /\ lastApplied' \in Objects \cup {Nil}
<1>1. /\ pc = "patch" /\ jsonv \in Documents /\ lastApplied \in Objects \cup {Nil}
      /\ modified \in Documents \cup {Nil} /\ (modified = Nil \/ modified = jsonv)
      /\ matching \in Seq(ModRules) /\ matching # << >>
  BY DEF PatchRule, TypeInv, AdmissionTypeOK, AdmissionInv, CheckInv
<1> DEFINE r   == Head(matching)
           ops == calculatePatch(r, jsonv)
           new == ApplyWithOptions(ops, modified)
<1>2. r \in ModRules
  BY <1>1
<1>3. CASE UNCHANGED <<jsonv, lastApplied>> /\ modified' \in {modified, Nil}
  BY <1>1, <1>3
<1>4. CASE /\ ~CalculateFails(r, jsonv) /\ modified # Nil /\ new # Nil
           /\ modified' = new /\ jsonv' = new
           /\ lastApplied' = IF lastApplied = Nil THEN Nil
                             ELSE ApplyToLastApplied(ops, lastApplied)
  <2>1. ops \in Seq(JSONOperations)
    BY <1>1, <1>2, <1>4, CalculatedPatch
  <2> HIDE DEF ops
  <2>2. new \in Documents
    BY <1>1, <1>4, <2>1, PatchTyped
  <2>3. lastApplied' \in Objects \cup {Nil}
    BY <1>1, <1>4, <2>1, LastAppliedTyped
  <2> QED
    BY <1>4, <2>2, <2>3
<1> QED
  BY <1>3, <1>4 DEF PatchRule

LEMMA TypeStep ==
  ASSUME AdmissionInv, TypeInv, [Next]_vars
  PROVE  TypeInv'
<1> DEFINE Answers == {"none", InjectFailed, PatchFailed, NoAnswer, Denied, Patched, NonPatched}
<1>1. /\ StoreInv /\ Stored \subseteq ModRules
      /\ pc' \in {"idle", "inject", "patch", "reject", "done"}
      /\ tier' \in MinInt16 .. MaxInt16 /\ matching' \in Seq(ModRules)
  BY AdmissionStep, StoredTyped DEF AdmissionInv, CtlInv
<1>2. CASE Receive
  <2>1. /\ operation' \in Operations /\ namespace' \in Namespaces \cup {NoNamespace}
        /\ original' \in Documents
    BY <1>2, RequestsAssumption DEF Receive
  <2>2. /\ pc' = "inject" /\ response' = "none"
        /\ UNCHANGED <<modified, jsonv, lastApplied, considered, rejections, steady>>
    BY <1>2, NothingElse DEF Receive
  <2> QED
    BY <1>1, <2>1, <2>2 DEF TypeInv, AdmissionTypeOK
<1>3. CASE InjectError \/ RejectDone
  <2>1. /\ pc' = "done" /\ response' \in Answers
        /\ UNCHANGED <<operation, namespace, original, modified, jsonv, lastApplied,
                       considered, rejections, steady>>
    BY <1>3, NothingElse DEF InjectError, RejectDone, Respond
  <2> QED
    BY <1>1, <2>1 DEF TypeInv, AdmissionTypeOK
<1>4. CASE Inject
  <2>1. original \in Documents /\ original.lastApplied \in Objects \cup {Nil}
    BY <1>4 DEF Inject, TypeInv, Documents
  <2>2. /\ pc' = "patch" /\ modified' = original /\ jsonv' = original
        /\ lastApplied' = original.lastApplied /\ rejections' = {}
        /\ considered' = {} /\ steady' = Stored
        /\ UNCHANGED <<operation, namespace, original, response>>
    BY <1>4, NothingElse DEF Inject, StartWalk
  <2> QED
    BY <1>1, <2>1, <2>2 DEF TypeInv, AdmissionTypeOK
<1>5. CASE PatchTier \/ RejectTier
  <2>1. PICK type, minTier, t :
          considered' = considered \cup PotentialRules(operation, namespace, minTier, t)
    BY <1>5 DEF PatchTier, RejectTier, NextTier, TierFrom
  <2>2. considered' \subseteq ModRules
    BY <1>1, <2>1, PotentialApply DEF TypeInv, AdmissionTypeOK
  <2>3. UNCHANGED <<pc, operation, namespace, original, modified, jsonv, lastApplied,
                    rejections, response, steady>>
    BY <1>5, NothingElse DEF PatchTier, RejectTier
  <2> QED
    BY <1>1, <2>2, <2>3 DEF TypeInv, AdmissionTypeOK
<1>6. CASE PatchRule
  <2>1. /\ pc = "patch" /\ response' \in Answers
        /\ UNCHANGED <<operation, namespace, original, considered, rejections, steady>>
    BY <1>6, NothingElse DEF PatchRule, Respond, TypeInv, AdmissionTypeOK
  <2> QED
    BY <1>1, <1>6, <2>1, PatchRuleTyped DEF TypeInv, AdmissionTypeOK
<1>7. CASE PatchDone
  <2>1. /\ pc = "patch" /\ jsonv \in Documents
        /\ UNCHANGED <<operation, namespace, original, rejections>>
    BY <1>7, NothingElse DEF PatchDone, TypeInv
  <2>2. CASE /\ jsonv' = [jsonv EXCEPT !.lastApplied = lastApplied] /\ modified' = jsonv'
             /\ StartWalk("reject") /\ UNCHANGED <<lastApplied, response>>
    <3>1. jsonv' \in Documents
      BY <2>1, <2>2 DEF TypeInv, AdmissionTypeOK, Documents
    <3> QED
      BY <1>1, <2>1, <2>2, <3>1 DEF StartWalk, TypeInv, AdmissionTypeOK
  <2>3. CASE StartWalk("reject") /\ UNCHANGED <<modified, jsonv, lastApplied, response>>
    BY <1>1, <2>1, <2>3 DEF StartWalk, TypeInv, AdmissionTypeOK
  <2>4. CASE /\ pc' = "done" /\ response' \in Answers
             /\ UNCHANGED <<modified, jsonv, lastApplied, considered, steady>>
    BY <1>1, <2>1, <2>4 DEF TypeInv, AdmissionTypeOK
  <2> QED
    BY <1>7, <2>2, <2>3, <2>4, NothingElse DEF PatchDone, Respond
<1>8. CASE RejectRule
  <2>1. /\ rejections' = rejections \cup {Head(matching)} /\ Head(matching) \in ModRules
        /\ UNCHANGED <<pc, operation, namespace, original, modified, jsonv, lastApplied,
                       considered, response, steady>>
    BY <1>8, NothingElse DEF RejectRule, TypeInv, AdmissionTypeOK
  <2> QED
    BY <1>1, <2>1 DEF TypeInv, AdmissionTypeOK
<1>9. CASE Finish
  BY <1>1, <1>9 DEF Finish, Idle, TypeInv, AdmissionTypeOK, Operations
<1>10. CASE Write \/ UNCHANGED vars
  <2>1. /\ steady' \subseteq steady
        /\ UNCHANGED <<pc, operation, namespace, original, modified, jsonv, lastApplied,
                       considered, rejections, response>>
    BY <1>10, NothingElse DEF Write, vars
  <2> QED
    BY <1>1, <2>1 DEF TypeInv, AdmissionTypeOK
<1> QED
  BY <1>2, <1>3, <1>4, <1>5, <1>6, <1>7, <1>8, <1>9, <1>10 DEF Next, Handle

\* The type invariant and what it needs to be inductive.
THEOREM TypeInvariance == Spec => []TypeInv
<1>1. Init => TypeInv
  BY Int16Assumption DEF Init, Idle, TypeInv, AdmissionTypeOK, Operations
<1>2. AdmissionInv /\ TypeInv /\ [Next]_vars => TypeInv'
  BY TypeStep
<1> QED
  BY <1>1, <1>2, AdmissionInvariance, PTL DEF Spec

\* Handle never computes anything but a manifest, or the nil of a failed patch,
\* for any rules, patches and requests.
THEOREM AdmissionTypes == Spec => []AdmissionTypeOK
<1>1. TypeInv => AdmissionTypeOK
  BY DEF TypeInv
<1> QED
  BY <1>1, TypeInvariance, PTL

-----------------------------------------------------------------------------
(* The mirror                                                              *)

\* The request came with an annotation that mirrors its manifest.
CameMirrored == original.lastApplied = original.object

\* In the patch walk the extracted annotation mirrors the manifest the rules see;
\* PatchDone puts it into that manifest.
MirrorInv ==
    /\ pc = "patch" /\ CameMirrored => lastApplied = jsonv.object
    /\ pc = "reject" /\ CameMirrored => jsonv.lastApplied = jsonv.object
    /\ MirrorKept

\* A rule patches the manifest and the annotation alike, or neither.
LEMMA PatchRuleMirrors ==
  ASSUME AdmissionInv, TypeInv, PatchRule, lastApplied = jsonv.object
  PROVE  lastApplied' = jsonv'.object
<1>1. /\ pc = "patch" /\ jsonv \in Documents /\ (modified = Nil \/ modified = jsonv)
      /\ matching \in Seq(ModRules) /\ matching # << >>
  BY DEF PatchRule, TypeInv, AdmissionTypeOK, AdmissionInv, CheckInv
<1> DEFINE r   == Head(matching)
           ops == calculatePatch(r, jsonv)
           new == ApplyWithOptions(ops, modified)
<1>2. r \in ModRules
  BY <1>1
<1>3. lastApplied # Nil
  BY <1>1, NilAssumption DEF Documents
<1>4. CASE UNCHANGED <<jsonv, lastApplied>>
  BY <1>4
<1>5. CASE /\ ~CalculateFails(r, jsonv) /\ modified # Nil /\ new # Nil
           /\ jsonv' = new
           /\ lastApplied' = IF lastApplied = Nil THEN Nil
                             ELSE ApplyToLastApplied(ops, lastApplied)
  <2>1. ops \in Seq(JSONOperations)
    BY <1>1, <1>2, <1>5, CalculatedPatch
  <2>2. modified = jsonv
    BY <1>1, <1>5
  <2> HIDE DEF ops
  <2>3. ApplyToLastApplied(ops, jsonv.object) = new.object
    BY <1>1, <1>5, <2>1, <2>2, MirrorPatched
  <2> QED
    BY <1>3, <1>5, <2>3
<1> QED
  BY <1>4, <1>5 DEF PatchRule

LEMMA MirrorStep ==
  ASSUME AdmissionInv, TypeInv, MirrorInv, [Next]_vars
  PROVE  MirrorInv'
<1>1. CASE Receive \/ InjectError \/ Finish
  <2>1. pc' \notin {"patch", "reject"} /\ response' \notin {Patched, NonPatched}
    BY <1>1 DEF Receive, InjectError, Finish, Respond, InjectFailed, Patched, NonPatched
  <2> QED
    BY <2>1 DEF MirrorInv, MirrorKept
<1>2. CASE Inject
  <2>1. /\ pc' = "patch" /\ jsonv' = original /\ lastApplied' = original.lastApplied
        /\ UNCHANGED <<original, response>> /\ response \notin {Patched, NonPatched}
    BY <1>2, NothingElse DEF Inject, StartWalk, AdmissionInv, CtlInv
  <2> QED
    BY <2>1 DEF MirrorInv, CameMirrored, MirrorKept
<1>3. CASE PatchRule
  <2>1. /\ pc = "patch" /\ pc' \in {"patch", "done"} /\ UNCHANGED original
        /\ response' \notin {Patched, NonPatched}
    BY <1>3, NothingElse
       DEF PatchRule, Respond, AdmissionInv, CtlInv, PatchFailed, NoAnswer, Patched, NonPatched
  <2>2. CameMirrored => lastApplied' = jsonv'.object
    BY <1>3, <2>1, PatchRuleMirrors DEF MirrorInv
  <2> QED
    BY <2>1, <2>2 DEF MirrorInv, CameMirrored, MirrorKept
<1>4. CASE PatchDone
  <2>1. /\ pc = "patch" /\ jsonv \in Documents /\ UNCHANGED original
        /\ response \notin {Patched, NonPatched}
    BY <1>4, NothingElse DEF PatchDone, TypeInv, AdmissionInv, CtlInv
  <2>2. CASE pc' = "done" /\ response' \in {NoAnswer, PatchFailed}
    BY <2>2 DEF MirrorInv, MirrorKept, NoAnswer, PatchFailed, Patched, NonPatched
  <2>3. CASE /\ jsonv' = [jsonv EXCEPT !.lastApplied = lastApplied]
             /\ pc' = "reject" /\ UNCHANGED response
    <3>1. jsonv'.lastApplied = lastApplied /\ jsonv'.object = jsonv.object
      BY <2>1, <2>3 DEF Documents
    <3> QED
      BY <2>1, <2>3, <3>1 DEF MirrorInv, CameMirrored, MirrorKept
  <2>4. CASE lastApplied = Nil /\ pc' = "reject" /\ UNCHANGED response
    <3>1. ~CameMirrored
      BY <2>1, <2>4, NilAssumption DEF MirrorInv, Documents
    <3> QED
      BY <2>1, <2>4, <3>1 DEF MirrorInv, CameMirrored, MirrorKept
  <2> QED
    BY <1>4, <2>2, <2>3, <2>4 DEF PatchDone, Respond, StartWalk
<1>5. CASE RejectDone
  <2>1. /\ pc = "reject" /\ pc' = "done" /\ modified = jsonv
        /\ UNCHANGED <<original, modified>>
    BY <1>5, NothingElse DEF RejectDone, Respond, AdmissionInv, CheckInv
  <2>2. CameMirrored => modified.lastApplied = modified.object
    BY <2>1 DEF MirrorInv
  <2> QED
    BY <2>1, <2>2 DEF MirrorInv, CameMirrored, MirrorKept, Admitted
<1>6. CASE PatchTier \/ RejectTier \/ RejectRule \/ Write \/ UNCHANGED vars
  <2>1. UNCHANGED <<pc, original, modified, jsonv, lastApplied, response>>
    BY <1>6, NothingElse DEF PatchTier, RejectTier, RejectRule, Write, vars
  <2> QED
    BY <2>1 DEF MirrorInv, CameMirrored, MirrorKept, Admitted
<1> QED
  BY <1>1, <1>2, <1>3, <1>4, <1>5, <1>6 DEF Next, Handle

\* An object whose last-applied-configuration mirrors its manifest is admitted
\* with one that still does, whichever patches are applied to it and whichever of
\* them fail: no rule reaches the one without the other.
THEOREM MirrorStays == Spec => []MirrorKept
<1>1. Init => MirrorInv
  BY DEF Init, MirrorInv, MirrorKept, Patched, NonPatched
<1>2. AdmissionInv /\ TypeInv /\ MirrorInv /\ [Next]_vars => MirrorInv'
  BY MirrorStep
<1>3. MirrorInv => MirrorKept
  BY DEF MirrorInv
<1> QED
  BY <1>1, <1>2, <1>3, AdmissionInvariance, TypeInvariance, PTL DEF Spec

-----------------------------------------------------------------------------
(* The cause of a denial                                                   *)

Cause(r, doc) == r.type = "Reject" /\ Applies(r) /\ IsMatch(r, doc)

CauseInv ==
    /\ pc = "patch" => rejections = {}
    /\ pc = "reject" => \A r \in rejections \cup Elements(matching) : Cause(r, jsonv)
    /\ response = Denied => pc = "done"
    /\ DeniedForCause

LEMMA CauseStep ==
  ASSUME AdmissionInv, CauseInv, [Next]_vars
  PROVE  CauseInv'
<1>1. CASE Receive \/ InjectError \/ Finish
  <2>1. pc' \notin {"patch", "reject"} /\ response' # Denied
    BY <1>1 DEF Receive, InjectError, Finish, Respond, InjectFailed, Denied
  <2> QED
    BY <2>1 DEF CauseInv, DeniedForCause
<1>2. CASE Inject
  <2>1. pc = "inject" /\ pc' = "patch" /\ rejections' = {} /\ UNCHANGED response
    BY <1>2 DEF Inject, StartWalk
  <2> QED
    BY <2>1 DEF CauseInv, DeniedForCause
<1>3. CASE PatchTier \/ PatchRule
  <2>1. /\ pc = "patch" /\ pc' \in {"patch", "done"} /\ UNCHANGED rejections
        /\ response' # Denied
    BY <1>3 DEF PatchTier, PatchRule, Respond, CauseInv, PatchFailed, NoAnswer, Denied
  <2> QED
    BY <2>1 DEF CauseInv, DeniedForCause
<1>4. CASE PatchDone
  <2>1. /\ pc = "patch" /\ pc' \in {"reject", "done"} /\ UNCHANGED rejections
        /\ pc' = "reject" => matching' = << >>
        /\ response' # Denied
    BY <1>4 DEF PatchDone, Respond, StartWalk, CauseInv, PatchFailed, NoAnswer, Denied
  <2> QED
    BY <2>1 DEF CauseInv, DeniedForCause, Elements
<1>5. CASE RejectTier
  <2>1. /\ pc = "reject"
        /\ UNCHANGED <<pc, operation, namespace, jsonv, rejections, response>>
    BY <1>5, NothingElse DEF RejectTier
  <2>2. PICK low, t : matching' \in MatchingRules("Reject", low, t)
    BY <1>5 DEF RejectTier, NextTier, TierFrom
  <2>3. Elements(matching') = {r \in PotentialRules(operation, namespace, low, t) :
                                   r.type = "Reject" /\ IsMatch(r, jsonv)}
    BY <2>2, MatchingIsExact DEF AdmissionInv
  <2>4. \A r \in Elements(matching') : Cause(r, jsonv)
    BY <2>3, PotentialApply DEF AdmissionInv, Cause
  <2> QED
    BY <2>1, <2>4 DEF CauseInv, DeniedForCause, Cause, Applies
<1>6. CASE RejectRule
  <2>1. /\ pc = "reject" /\ matching # << >> /\ matching' = Tail(matching)
        /\ rejections' = rejections \cup {Head(matching)}
        /\ UNCHANGED <<pc, operation, namespace, jsonv, response>>
    BY <1>6, NothingElse DEF RejectRule
  <2>2. Elements(matching) = {Head(matching)} \cup Elements(matching')
    BY <2>1, HeadTailElements DEF AdmissionInv, CtlInv
  <2> QED
    BY <2>1, <2>2 DEF CauseInv, DeniedForCause, Cause, Applies
<1>7. CASE RejectDone
  <2>1. /\ pc = "reject" /\ pc' = "done" /\ modified = jsonv
        /\ response' = Denied => rejections # {}
        /\ UNCHANGED <<operation, namespace, modified, rejections>>
    BY <1>7, NothingElse
       DEF RejectDone, Respond, AdmissionInv, CheckInv, Denied, Patched, NonPatched
  <2> QED
    BY <2>1 DEF CauseInv, DeniedForCause, Cause, Applies
<1>8. CASE Write \/ UNCHANGED vars
  <2>1. UNCHANGED <<pc, operation, namespace, modified, jsonv, matching, rejections, response>>
    BY <1>8, NothingElse DEF Write, vars
  <2> QED
    BY <2>1 DEF CauseInv, DeniedForCause, Cause, Applies, Elements
<1> QED
  BY <1>1, <1>2, <1>3, <1>4, <1>5, <1>6, <1>7, <1>8 DEF Next, Handle

\* DetermineRejections denies a request only for Reject rules that apply to it and
\* match its manifest as CalculatePatch left it.
THEOREM DenialsHaveCause == Spec => []DeniedForCause
<1>1. Init => CauseInv
  BY DEF Init, CauseInv, DeniedForCause, Denied
<1>2. AdmissionInv /\ CauseInv /\ [Next]_vars => CauseInv'
  BY CauseStep
<1>3. CauseInv => DeniedForCause
  BY DEF CauseInv
<1> QED
  BY <1>1, <1>2, <1>3, AdmissionInvariance, PTL DEF Spec

-----------------------------------------------------------------------------
(* Progress                                                                *)

\* The walks end: with the fairness of FairSpec, which is beyond these proofs,
\* this is why every request is answered.
THEOREM HandleEnds == Spec => HandleAdvances
<1> DEFINE Nearer == \/ Phase(pc') < Phase(pc)
                     \/ pc' = pc /\ tier' > tier
                     \/ pc' = pc /\ tier' = tier /\ Len(matching') < Len(matching)
<1>1. AdmissionInv /\ [Next]_vars
        => [modRuleListMap' = modRuleListMap /\ pc \in {"inject", "patch", "reject"}
              => Nearer]_vars
  <2> SUFFICES ASSUME AdmissionInv, Next, ~UNCHANGED vars, UNCHANGED modRuleListMap,
                      pc \in {"inject", "patch", "reject"}
               PROVE  Nearer
    OBVIOUS
  <2>1. CASE InjectError \/ Inject \/ PatchDone \/ RejectDone
    BY <2>1 DEF InjectError, Inject, PatchDone, RejectDone, Respond, StartWalk, Phase
  <2>2. CASE PatchTier \/ RejectTier
    <3>1. PICK t \in MinInt16 .. MaxInt16, type \in {"Patch", "Reject"} : NextTier(type, t)
      BY <2>2 DEF PatchTier, RejectTier
    <3>2. /\ tier # MaxInt16 /\ tier \in MinInt16 .. MaxInt16
          /\ Int16Add(tier, 1) = tier + 1 /\ UNCHANGED pc
      BY <2>2, NextTierDoesNotWrap DEF PatchTier, RejectTier, AdmissionInv, CtlInv
    <3>3. /\ tier' = t
          /\ t = MaxInt16 \/ \E r \in Candidates(operation, namespace, tier + 1) :
                                r.executionTier = t
      BY <3>1, <3>2 DEF NextTier, TierFrom, IsLowestTier
    <3>4. t = MaxInt16 \/ t >= tier + 1
      BY <3>3 DEF Candidates, ClusterCandidates, NamespaceCandidates
    <3> QED
      BY <3>1, <3>2, <3>3, <3>4, Int16Assumption
  <2>3. CASE PatchRule \/ RejectRule
    <3>1. /\ matching # << >> /\ matching' = Tail(matching) /\ UNCHANGED tier
          /\ matching \in Seq(ModRules)
      BY <2>3 DEF PatchRule, RejectRule, AdmissionInv, CtlInv
    <3>2. Len(matching') < Len(matching)
      BY <3>1
    <3>3. pc' = pc \/ (pc = "patch" /\ pc' = "done")
      BY <2>3 DEF PatchRule, RejectRule, Respond
    <3> QED
      BY <3>1, <3>2, <3>3 DEF Phase
  <2>4. CASE Write
    <3>1. Stored' = Stored /\ steady \subseteq Stored
      BY StoreUnchanged DEF AdmissionInv, CtlInv
    <3>2. UNCHANGED vars
      BY <2>4, <3>1 DEF Write, vars
    <3> QED
      BY <3>2
  <2> QED
    BY <2>1, <2>2, <2>3, <2>4 DEF Next, Handle, Receive, Finish
<1> QED
  BY <1>1, AdmissionInvariance, PTL DEF Spec, HandleAdvances

============================================================================
