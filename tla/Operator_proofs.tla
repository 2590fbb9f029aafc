-------------------------- MODULE Operator_proofs --------------------------
(***************************************************************************)
(* No change of a rule is lost between the informer's cache and the store, *)
(* for any set of rules and any number of writes, errors and crashes.      *)
(***************************************************************************)
EXTENDS Operator, ModRuleStore_proofs

\* The API server and the cache hold one rule per key.
OnePerKey(rules) == \A r, s \in rules : KeyOf(r) = KeyOf(s) => r = s

ClusterInv ==
    /\ api \subseteq ModRules /\ cache \subseteq ModRules
    /\ OnePerKey(api) /\ OnePerKey(cache)
    /\ queue \subseteq Keys

\* A call of Reconcile is about one key, and what it has fetched is what the
\* cache holds for that key, unless the key is in the queue again.
CallInv ==
    /\ step \in {"idle", "get", "store"}
    /\ step # "idle" => request \in Keys
    /\ step = "store" => request \in queue \/ fetched = Named(cache, request)
    /\ step = "store" => fetched \subseteq Named(ModRules, request)

OperatorInv == StoreInv /\ ClusterInv /\ CallInv /\ NothingLost

\* The parts of a key are the namespace and the name of its rules.
LEMMA KeyParts ==
  ASSUME NEW key \in Keys
  PROVE  \E r \in ModRules : key = <<r.namespace, r.name>>
BY DEF Keys, KeyOf

LEMMA SameParts ==
  ASSUME NEW r, NEW s
  PROVE  KeyOf(r) = KeyOf(s) <=> r.namespace = s.namespace /\ r.name = s.name
BY DEF KeyOf

\* Put changes nothing but the rule of its key, and stores what compiles.
LEMMA PutStores ==
  ASSUME StoreInv, NEW r \in ModRules, Put(r)
  PROVE  /\ StoreInv'
         /\ Compiles(r) => r \in Stored'
         /\ \A s : KeyOf(s) # KeyOf(r) => (s \in Stored' <=> s \in Stored)
         /\ Stored' \subseteq Stored \cup {r}
         /\ Stored' = Stored \/ Named(Stored', KeyOf(r)) = {r}
<1>0. GoodMap(modRuleListMap)
  BY StoreInvIsGoodMap
<1>1. StoreInv'
  BY StoreStep DEF StoreNext, StorePut
<1>2. CASE PutOk(r)
  <2>1. Stored' = {s \in Stored : ~(s.namespace = r.namespace /\ s.name = r.name)} \cup {r}
    BY <1>0, <1>2, PutOkStep DEF Abstract!Store, Abstract!SameKey
  <2> QED
    BY <1>1, <2>1, SameParts DEF Named
<1>3. CASE PutError(r)
  <2>1. Stored' = Stored /\ ~Compiles(r)
    BY <1>0, <1>3, PutErrorStep DEF PutError
  <2> QED
    BY <1>1, <2>1
<1> QED
  BY <1>2, <1>3 DEF Put

\* Delete removes the rule of its key and nothing else.
LEMMA DeleteRemoves ==
  ASSUME StoreInv, NEW key \in Keys, Delete(key[1], key[2])
  PROVE  /\ StoreInv'
         /\ Named(Stored', key) = {}
         /\ \A s : KeyOf(s) # key => (s \in Stored' <=> s \in Stored)
         /\ Stored' \subseteq Stored
<1>0. GoodMap(modRuleListMap)
  BY StoreInvIsGoodMap
<1>1. PICK r \in ModRules : key = <<r.namespace, r.name>>
  BY KeyParts
<1>2. Delete(r.namespace, r.name)
  BY <1>1
<1>3. StoreInv'
  BY <1>2, StoreStep DEF StoreNext, StoreDelete
<1>4. Stored' = {s \in Stored : ~(s.namespace = r.namespace /\ s.name = r.name)}
  BY <1>0, <1>2, DeleteStep DEF Abstract!Remove, Abstract!SameKey
<1>5. \A s : KeyOf(s) = key <=> s.namespace = r.namespace /\ s.name = r.name
  BY <1>1 DEF KeyOf
<1> QED
  BY <1>3, <1>4, <1>5 DEF Named

\* What is stored depends on the list map only.
LEMMA SameStore ==
  ASSUME StoreInv, UNCHANGED modRuleListMap
  PROVE  StoreInv' /\ Stored' = Stored
BY DEF StoreInv, StoreTypeOK, UniqueNames, HomeNamespace, Stored, RulesOf, Elements

LEMMA ApplyStep ==
  ASSUME OperatorInv, Apply
  PROVE  OperatorInv'
<1>1. UNCHANGED <<modRuleListMap, up, cache, queue, step, request, fetched>>
  BY DEF Apply, workVars, callVars
<1>2. PICK r \in ModRules : api' = (api \ Named(api, KeyOf(r))) \cup {Default(r)}
  BY DEF Apply
<1>3. Default(r) \in ModRules /\ KeyOf(Default(r)) = KeyOf(r)
  <2>1. Default(r).namespace = r.namespace /\ Default(r).name = r.name
    BY DEF Default
  <2> QED
    BY <2>1, DefaultAssumption DEF KeyOf
<1>4. ClusterInv'
  BY <1>1, <1>2, <1>3 DEF OperatorInv, ClusterInv, OnePerKey, Named
<1>5. StoreInv' /\ Stored' = Stored
  BY <1>1, SameStore DEF OperatorInv
<1>6. CallInv' /\ NothingLost'
  BY <1>1, <1>5 DEF OperatorInv, CallInv, NothingLost, Agrees, Pending, Named
<1> QED
  BY <1>4, <1>5, <1>6 DEF OperatorInv

LEMMA RemoveStep ==
  ASSUME OperatorInv, Remove
  PROVE  OperatorInv'
<1>1. /\ UNCHANGED <<modRuleListMap, up, cache, queue, step, request, fetched>>
      /\ api' \subseteq api
  BY DEF Remove, workVars, callVars
<1>2. ClusterInv'
  BY <1>1 DEF OperatorInv, ClusterInv, OnePerKey
<1>3. StoreInv' /\ Stored' = Stored
  BY <1>1, SameStore DEF OperatorInv
<1>4. CallInv' /\ NothingLost'
  BY <1>1, <1>3 DEF OperatorInv, CallInv, NothingLost, Agrees, Pending, Named
<1> QED
  BY <1>2, <1>3, <1>4 DEF OperatorInv

\* Only the delivered key can come to disagree, and it is queued.
LEMMA DeliverStep ==
  ASSUME OperatorInv, Deliver
  PROVE  OperatorInv'
<1>1. UNCHANGED <<modRuleListMap, api, step, request, fetched>>
  BY DEF Deliver, apiVars, callVars
<1>2. PICK key \in Keys :
         /\ cache' = (cache \ Named(cache, key)) \cup Named(api, key)
         /\ queue' = queue \cup {key}
  BY DEF Deliver
<1>3. ClusterInv'
  BY <1>1, <1>2 DEF OperatorInv, ClusterInv, OnePerKey, Named
<1>4. StoreInv' /\ Stored' = Stored
  BY <1>1, SameStore DEF OperatorInv
<1>5. CallInv'
  <2>1. CASE request = key
    BY <1>1, <1>2, <2>1 DEF OperatorInv, CallInv, Named
  <2>2. CASE request # key
    <3>1. Named(cache', request) = Named(cache, request)
      BY <1>2, <2>2 DEF Named
    <3> QED
      BY <1>1, <1>2, <3>1 DEF OperatorInv, CallInv, Named
  <2> QED
    BY <2>1, <2>2
<1>6. NothingLost'
  <2> SUFFICES ASSUME NEW k \in Keys, k \notin queue'
               PROVE  Agrees(k)' \/ Pending(k)'
    BY DEF NothingLost
  <2>1. k # key /\ k \notin queue
    BY <1>2
  <2>2. Named(cache', k) = Named(cache, k)
    BY <1>2, <2>1 DEF Named
  <2>3. Agrees(k) \/ Pending(k)
    BY <2>1 DEF OperatorInv, NothingLost
  <2> QED
    BY <1>1, <1>4, <2>2, <2>3 DEF Agrees, Pending, Named
<1> QED
  BY <1>3, <1>4, <1>5, <1>6 DEF OperatorInv

LEMMA ResyncStep ==
  ASSUME OperatorInv, Resync
  PROVE  OperatorInv'
<1>1. UNCHANGED <<modRuleListMap, api, cache, step, request, fetched>>
  BY DEF Resync, apiVars, callVars
<1>2. queue \subseteq queue' /\ queue' \subseteq Keys
  BY DEF Resync, OperatorInv, ClusterInv, Keys
<1>3. StoreInv' /\ Stored' = Stored
  BY <1>1, SameStore DEF OperatorInv
<1>4. ClusterInv' /\ CallInv'
  BY <1>1, <1>2 DEF OperatorInv, ClusterInv, OnePerKey, CallInv, Named
<1>5. NothingLost'
  BY <1>1, <1>2, <1>3 DEF OperatorInv, NothingLost, Agrees, Pending, Named
<1> QED
  BY <1>3, <1>4, <1>5 DEF OperatorInv

\* The key leaves the queue and is pending instead.
LEMMA CallStep ==
  ASSUME OperatorInv, Call
  PROVE  OperatorInv'
<1>1. /\ step = "idle" /\ step' = "get"
      /\ UNCHANGED <<modRuleListMap, api, cache, fetched>>
  BY DEF Call, apiVars
<1>2. PICK key \in queue : request' = key /\ queue' = queue \ {key}
  BY DEF Call
<1>3. StoreInv' /\ Stored' = Stored
  BY <1>1, SameStore DEF OperatorInv
<1>4. ClusterInv' /\ CallInv'
  BY <1>1, <1>2 DEF OperatorInv, ClusterInv, OnePerKey, CallInv
<1>5. NothingLost'
  <2> SUFFICES ASSUME NEW k \in Keys, k \notin queue', k # key
               PROVE  Agrees(k)'
    BY <1>1, <1>2 DEF NothingLost, Pending
  <2>1. k \notin queue
    BY <1>2
  <2>2. Agrees(k) \/ Pending(k)
    BY <2>1 DEF OperatorInv, NothingLost
  <2> QED
    BY <1>1, <1>3, <2>2 DEF Agrees, Pending, Named
<1> QED
  BY <1>3, <1>4, <1>5 DEF OperatorInv

\* What is fetched is what the cache holds at that moment.
LEMMA GetStep ==
  ASSUME OperatorInv, Get
  PROVE  OperatorInv'
<1>1. /\ step = "get" /\ step' = "store" /\ fetched' = Named(cache, request)
      /\ UNCHANGED <<modRuleListMap, api, cache, queue, request>>
  BY DEF Get, apiVars, workVars
<1>2. StoreInv' /\ Stored' = Stored
  BY <1>1, SameStore DEF OperatorInv
<1>3. ClusterInv' /\ CallInv'
  BY <1>1 DEF OperatorInv, ClusterInv, OnePerKey, CallInv, Named
<1>4. NothingLost'
  BY <1>1, <1>2 DEF OperatorInv, NothingLost, Agrees, Pending, Named
<1> QED
  BY <1>2, <1>3, <1>4 DEF OperatorInv

LEMMA GetErrorStep ==
  ASSUME OperatorInv, GetError
  PROVE  OperatorInv'
<1>1. /\ step = "get" /\ step' = "idle" /\ queue' = queue \cup {request}
      /\ UNCHANGED <<modRuleListMap, api, cache>>
  BY DEF GetError, Return, apiVars
<1>2. StoreInv' /\ Stored' = Stored
  BY <1>1, SameStore DEF OperatorInv
<1>3. ClusterInv' /\ CallInv'
  BY <1>1 DEF OperatorInv, ClusterInv, OnePerKey, CallInv
<1>4. NothingLost'
  BY <1>1, <1>2 DEF OperatorInv, NothingLost, Agrees, Pending, Named
<1> QED
  BY <1>2, <1>3, <1>4 DEF OperatorInv

\* A write for one key leaves the agreement of the others alone.
LEMMA OtherKeys ==
  ASSUME NEW key, NEW k, k # key, UNCHANGED cache, Agrees(k),
         \A s : KeyOf(s) # key => (s \in Stored' <=> s \in Stored)
  PROVE  Agrees(k)'
BY DEF Agrees, Named

LEMMA ReconcileDeleteStep ==
  ASSUME OperatorInv, ReconcileDelete
  PROVE  OperatorInv'
<1>1. /\ step = "store" /\ step' = "idle" /\ fetched = {}
      /\ Delete(request[1], request[2])
      /\ UNCHANGED <<api, cache, queue>>
  BY DEF ReconcileDelete, Return, apiVars, workVars
<1>2. request \in Keys
  BY <1>1 DEF OperatorInv, CallInv
<1>3. /\ StoreInv' /\ Named(Stored', request) = {}
      /\ \A s : KeyOf(s) # request => (s \in Stored' <=> s \in Stored)
  BY <1>1, <1>2, DeleteRemoves DEF OperatorInv
<1>4. ClusterInv' /\ CallInv'
  BY <1>1 DEF OperatorInv, ClusterInv, OnePerKey, CallInv
<1>5. NothingLost'
  <2> SUFFICES ASSUME NEW k \in Keys, k \notin queue'
               PROVE  Agrees(k)'
    BY DEF NothingLost
  <2>1. Agrees(k) \/ Pending(k)
    BY <1>1 DEF OperatorInv, NothingLost
  <2>2. CASE k # request
    BY <1>1, <1>3, <2>1, <2>2, OtherKeys DEF Pending
  <2>3. CASE k = request
    <3>1. Named(cache, k) = {}
      BY <1>1, <2>3 DEF OperatorInv, CallInv
    <3> QED
      BY <1>1, <1>3, <2>3, <3>1 DEF Agrees, Named
  <2> QED
    BY <2>2, <2>3
<1> QED
  BY <1>3, <1>4, <1>5 DEF OperatorInv

LEMMA ReconcilePutStep ==
  ASSUME OperatorInv, ReconcilePut
  PROVE  OperatorInv'
<1>1. /\ step = "store" /\ step' = "idle"
      /\ UNCHANGED <<api, cache, queue>>
  BY DEF ReconcilePut, Return, apiVars, workVars
<1>2. PICK r \in fetched : Put(r)
  BY DEF ReconcilePut
<1>3. r \in ModRules /\ KeyOf(r) = request
  BY <1>1 DEF OperatorInv, CallInv, Named
<1>4. /\ StoreInv'
      /\ Compiles(r) => r \in Stored'
      /\ \A s : KeyOf(s) # request => (s \in Stored' <=> s \in Stored)
  BY <1>2, <1>3, PutStores DEF OperatorInv
<1>5. ClusterInv' /\ CallInv'
  BY <1>1 DEF OperatorInv, ClusterInv, OnePerKey, CallInv
<1>6. NothingLost'
  <2> SUFFICES ASSUME NEW k \in Keys, k \notin queue'
               PROVE  Agrees(k)'
    BY DEF NothingLost
  <2>1. CASE k # request
    <3>1. Agrees(k)
      BY <1>1, <2>1 DEF OperatorInv, NothingLost, Pending
    <3> QED
      BY <1>1, <1>4, <2>1, <3>1, OtherKeys
  <2>2. CASE k = request
    <3>1. r \in Named(cache, k)
      BY <1>1, <2>2 DEF OperatorInv, CallInv
    <3>2. \A s \in Named(cache, k) : s = r
      BY <3>1 DEF OperatorInv, ClusterInv, OnePerKey, Named
    <3> QED
      BY <1>1, <1>4, <3>1, <3>2 DEF Agrees, Named
  <2> QED
    BY <2>1, <2>2
<1> QED
  BY <1>4, <1>5, <1>6 DEF OperatorInv

\* A crash forgets the cache and the store together.
LEMMA CrashStep ==
  ASSUME OperatorInv, Crash
  PROVE  OperatorInv'
<1>1. /\ modRuleListMap' = << >> /\ cache' = {} /\ queue' = {} /\ step' = "idle"
      /\ UNCHANGED api
  BY DEF Crash, Return
<1>2. StoreInv' /\ Stored' = {}
  BY <1>1 DEF StoreInv, StoreTypeOK, UniqueNames, HomeNamespace, Stored, RulesOf
<1>3. ClusterInv' /\ CallInv'
  BY <1>1 DEF OperatorInv, ClusterInv, OnePerKey, CallInv
<1>4. NothingLost'
  BY <1>1, <1>2 DEF NothingLost, Agrees, Named
<1> QED
  BY <1>2, <1>3, <1>4 DEF OperatorInv

LEMMA OperatorStep ==
  ASSUME OperatorInv, [Next]_vars
  PROVE  OperatorInv'
<1>1. CASE UNCHANGED <<modRuleListMap, api, cache, queue, step, request, fetched>>
  <2>1. StoreInv' /\ Stored' = Stored
    BY <1>1, SameStore DEF OperatorInv
  <2>2. ClusterInv' /\ CallInv'
    BY <1>1 DEF OperatorInv, ClusterInv, OnePerKey, CallInv, Named
  <2>3. NothingLost'
    BY <1>1, <2>1 DEF OperatorInv, NothingLost, Agrees, Pending, Named
  <2> QED
    BY <2>1, <2>2, <2>3 DEF OperatorInv
<1>2. CASE Restart
  BY <1>1, <1>2 DEF Restart, workVars, callVars
<1>3. CASE UNCHANGED vars
  BY <1>1, <1>3 DEF vars, apiVars, workVars, callVars
<1> QED
  BY <1>2, <1>3, ApplyStep, RemoveStep, DeliverStep, ResyncStep, CallStep, GetStep,
     GetErrorStep, ReconcileDeleteStep, ReconcilePutStep, CrashStep DEF Next

\* The inductive invariant of the reconciler and its surroundings.
THEOREM OperatorInvariance == Spec => []OperatorInv
<1>1. Init => OperatorInv
  BY DEF Init, OperatorInv, StoreInit, StoreInv, StoreTypeOK, UniqueNames, HomeNamespace,
         ClusterInv, OnePerKey, CallInv, NothingLost, Agrees, Named, Stored, RulesOf
<1>2. OperatorInv /\ [Next]_vars => OperatorInv'
  BY OperatorStep
<1> QED
  BY <1>1, <1>2, PTL DEF Spec

\* Reconcile loses no change of a rule: wherever the store does not do what the
\* cache says for a key, that key is queued or being reconciled with the present
\* contents of the cache.
THEOREM NoChangeLost == Spec => []NothingLost
  BY OperatorInvariance, PTL DEF OperatorInv

-----------------------------------------------------------------------------
(* Types                                                                   *)

\* The parts of the type invariant that OperatorInv does not state.
CallTyped ==
    /\ request \in Keys \cup {NoKey} /\ fetched \subseteq ModRules
    /\ up \in BOOLEAN /\ reported \in ModRules \cup {Nil}

LEMMA CallTypedStep ==
  ASSUME OperatorInv, CallTyped, [Next]_vars
  PROVE  CallTyped'
<1> USE DEF CallTyped, apiVars, workVars, callVars
<1>1. queue \subseteq Keys /\ cache \subseteq ModRules
  BY DEF OperatorInv, ClusterInv
<1>2. CASE Apply \/ Remove \/ Restart
  BY <1>2 DEF Apply, Remove, Restart
<1>3. CASE Deliver \/ Resync
  BY <1>3 DEF Deliver, Resync
<1>4. CASE Call
  BY <1>1, <1>4 DEF Call
<1>5. CASE Get
  BY <1>1, <1>5 DEF Get, Named
<1>6. CASE GetError \/ ReconcileDelete
  BY <1>6 DEF GetError, ReconcileDelete, Return
<1>7. CASE ReconcilePut
  BY <1>7 DEF ReconcilePut, Return
<1>8. CASE Crash
  BY <1>8 DEF Crash, Return
<1>9. CASE UNCHANGED vars
  BY <1>9 DEF vars
<1> QED
  BY <1>2, <1>3, <1>4, <1>5, <1>6, <1>7, <1>8, <1>9 DEF Next

\* The variables of the operator keep their types: above all, no list of the
\* store is filed under a namespace that is none, and Reconcile is always called
\* with the key of a rule.
THEOREM OperatorTypes == Spec => []OperatorTypeOK
<1>1. Init => CallTyped
  BY DEF Init, CallTyped
<1>2. OperatorInv /\ CallTyped /\ [Next]_vars => CallTyped'
  BY CallTypedStep
<1>3. OperatorInv /\ CallTyped => OperatorTypeOK
  BY DEF OperatorInv, StoreInv, ClusterInv, CallInv, CallTyped, OperatorTypeOK
<1> QED
  BY <1>1, <1>2, <1>3, OperatorInvariance, PTL DEF Spec

-----------------------------------------------------------------------------
(* What the webhooks of ModRule promise about the store                    *)

\* What both webhooks leave of a rule.
Accepted(r) == validateModRule(r) /\ r.admissionOperations # {}

\* Accepted are the rules in the API server and wherever they go from there.
AcceptedInv == \A r \in api \cup cache \cup fetched \cup Stored : Accepted(r)

\* Default fills in the admission operations.
LEMMA Defaulted ==
  ASSUME NEW r \in ModRules
  PROVE  Default(r).admissionOperations # {}
<1>1. "admissionOperations" \in DOMAIN r /\ "match" \in DOMAIN r
  BY DefaultAssumption
<1>2. Default(r).admissionOperations
        = IF r.admissionOperations = {} THEN {"CREATE", "UPDATE"} ELSE r.admissionOperations
  BY <1>1 DEF Default
<1> QED
  BY <1>2

LEMMA AcceptedStep ==
  ASSUME OperatorInv, AcceptedInv, [Next]_vars
  PROVE  AcceptedInv'
<1> USE DEF AcceptedInv, apiVars, workVars, callVars
<1>0. StoreInv
  BY DEF OperatorInv
<1>1. ASSUME UNCHANGED modRuleListMap PROVE Stored' = Stored
  BY <1>0, <1>1, SameStore
<1>2. CASE Apply
  <2>1. PICK r \in ModRules : /\ validateModRule(Default(r))
                              /\ api' = (api \ Named(api, KeyOf(r))) \cup {Default(r)}
    BY <1>2 DEF Apply
  <2>2. Accepted(Default(r))
    BY <2>1, Defaulted DEF Accepted
  <2>3. UNCHANGED <<cache, fetched>> /\ Stored' = Stored
    BY <1>1, <1>2 DEF Apply
  <2> QED
    BY <2>1, <2>2, <2>3
<1>3. CASE Remove
  <2>1. api' \subseteq api /\ UNCHANGED <<cache, fetched>> /\ Stored' = Stored
    BY <1>1, <1>3 DEF Remove
  <2> QED
    BY <2>1
<1>4. CASE Deliver
  <2>1. cache' \subseteq cache \cup api /\ UNCHANGED <<api, fetched>> /\ Stored' = Stored
    BY <1>1, <1>4 DEF Deliver, Named
  <2> QED
    BY <2>1
<1>5. CASE Resync \/ Call \/ Restart
  <2>1. UNCHANGED <<api, cache, fetched>> /\ Stored' = Stored
    BY <1>1, <1>5 DEF Resync, Call, Restart
  <2> QED
    BY <2>1
<1>6. CASE Get
  <2>1. fetched' \subseteq cache /\ UNCHANGED <<api, cache>> /\ Stored' = Stored
    BY <1>1, <1>6 DEF Get, Named
  <2> QED
    BY <2>1
<1>7. CASE GetError
  <2>1. fetched' = {} /\ UNCHANGED <<api, cache>> /\ Stored' = Stored
    BY <1>1, <1>7 DEF GetError, Return
  <2> QED
    BY <2>1
<1>8. CASE ReconcileDelete
  <2>1. /\ fetched' = {} /\ UNCHANGED <<api, cache>>
        /\ Delete(request[1], request[2]) /\ request \in Keys
    BY <1>8 DEF ReconcileDelete, Return, OperatorInv, CallInv
  <2>2. Stored' \subseteq Stored
    BY <1>0, <2>1, DeleteRemoves
  <2> QED
    BY <2>1, <2>2
<1>9. CASE ReconcilePut
  <2>1. fetched' = {} /\ UNCHANGED <<api, cache>> /\ step = "store"
    BY <1>9 DEF ReconcilePut, Return
  <2>2. PICK r \in fetched : Put(r)
    BY <1>9 DEF ReconcilePut
  <2>3. r \in ModRules
    BY <2>1 DEF OperatorInv, CallInv, Named
  <2>4. Stored' \subseteq Stored \cup {r}
    BY <1>0, <2>2, <2>3, PutStores
  <2> QED
    BY <2>1, <2>4
<1>10. CASE Crash
  <2>1. /\ modRuleListMap' = << >> /\ cache' = {} /\ fetched' = {} /\ UNCHANGED api
    BY <1>10 DEF Crash, Return
  <2>2. Stored' = {}
    BY <2>1 DEF Stored, RulesOf
  <2> QED
    BY <2>1, <2>2
<1>11. CASE UNCHANGED vars
  <2>1. UNCHANGED <<api, cache, fetched>> /\ Stored' = Stored
    BY <1>1, <1>11 DEF vars
  <2> QED
    BY <2>1
<1> QED
  BY <1>2, <1>3, <1>4, <1>5, <1>6, <1>7, <1>8, <1>9, <1>10, <1>11 DEF Next

\* No rule gets into the store past the webhooks of ModRule, in whatever order
\* writes, watch events, calls of Reconcile, errors and crashes come: what the
\* walks of a request assume of the rules holds of the rules they find.
THEOREM AcceptedOnly == Spec => []StoredRulesAccepted
<1>1. Init => AcceptedInv
  BY DEF Init, StoreInit, AcceptedInv, Stored, RulesOf
<1>2. OperatorInv /\ AcceptedInv /\ [Next]_vars => AcceptedInv'
  BY AcceptedStep
<1>3. AcceptedInv => StoredRulesAccepted
  BY DEF AcceptedInv, Accepted, StoredRulesAccepted
<1> QED
  BY <1>1, <1>2, <1>3, OperatorInvariance, PTL DEF Spec

-----------------------------------------------------------------------------
(* What Reconcile writes                                                   *)

\* Get returns at most one rule.
OneFetched == \A r, s \in fetched : r = s

LEMMA OneFetchedStep ==
  ASSUME OperatorInv, OneFetched, [Next]_vars
  PROVE  OneFetched'
<1> USE DEF OneFetched, callVars
<1>1. CASE Get
  <2>1. fetched' = Named(cache, request) /\ OnePerKey(cache)
    BY <1>1 DEF Get, OperatorInv, ClusterInv
  <2> QED
    BY <2>1 DEF Named, OnePerKey
<1>2. fetched' = fetched \/ fetched' = {} \/ Get
  BY DEF Next, Apply, Remove, Deliver, Resync, Call, GetError, ReconcileDelete, ReconcilePut,
         Crash, Restart, Return, vars
<1> QED
  BY <1>1, <1>2

\* A step that touches the store and is no crash is the end of a call.
LEMMA WritesItsKey ==
  ASSUME OperatorInv, OneFetched, Next, up', NEW key \in Keys,
         Named(Stored', key) # Named(Stored, key)
  PROVE  step = "store" /\ request = key /\ Named(Stored', key) = fetched
<1>0. StoreInv
  BY DEF OperatorInv
<1>1. ~UNCHANGED modRuleListMap
  BY <1>0, SameStore
<1>2. ReconcileDelete \/ ReconcilePut
  BY <1>1 DEF Next, Apply, Remove, Deliver, Resync, Call, Get, GetError, Crash, Restart
<1>3. step = "store" /\ request \in Keys /\ \A r \in fetched : r \in ModRules /\ KeyOf(r) = request
  BY <1>2 DEF ReconcileDelete, ReconcilePut, OperatorInv, CallInv, Named
<1>4. CASE ReconcileDelete
  <2>1. /\ fetched = {} /\ Named(Stored', request) = {}
        /\ \A s : KeyOf(s) # request => (s \in Stored' <=> s \in Stored)
    BY <1>0, <1>3, <1>4, DeleteRemoves DEF ReconcileDelete
  <2>2. request = key
    BY <2>1 DEF Named
  <2> QED
    BY <1>3, <2>1, <2>2
<1>5. CASE ReconcilePut
  <2>1. PICK r \in fetched : Put(r)
    BY <1>5 DEF ReconcilePut
  <2>2. r \in ModRules /\ KeyOf(r) = request /\ fetched = {r}
    BY <1>3 DEF OneFetched
  <2>3. /\ \A s : KeyOf(s) # request => (s \in Stored' <=> s \in Stored)
        /\ Stored' = Stored \/ Named(Stored', request) = {r}
    BY <1>0, <2>1, <2>2, PutStores
  <2>4. request = key
    BY <2>3 DEF Named
  <2> QED
    BY <1>3, <2>2, <2>3, <2>4
<1> QED
  BY <1>2, <1>4, <1>5

\* Reconcile changes the store for the key it was called with only, to what it
\* has read; nothing else does while the process runs.
THEOREM OwnKeyOnly == Spec => ReconcileWritesItsKey
<1> DEFINE Writes == up' => \A key \in Keys :
                       Named(Stored', key) # Named(Stored, key) =>
                          step = "store" /\ request = key /\ Named(Stored', key) = fetched
<1>1. Init => OneFetched
  BY DEF Init, OneFetched
<1>2. OperatorInv /\ OneFetched /\ [Next]_vars => OneFetched'
  BY OneFetchedStep
<1>3. OperatorInv /\ OneFetched /\ [Next]_vars => [Writes]_vars
  BY WritesItsKey
<1>4. ReconcileWritesItsKey <=> [][Writes]_vars
  BY DEF ReconcileWritesItsKey
<1> QED
  BY <1>1, <1>2, <1>3, <1>4, OperatorInvariance, PTL DEF Spec

============================================================================
