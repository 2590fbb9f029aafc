------------------------------ MODULE Operator ------------------------------
(***************************************************************************)
(* controllers/modrule_controller.go in its surroundings: users write      *)
(* ModRules to the API server through the defaulting and validating        *)
(* webhooks, the informer's cache follows, its events fill the workqueue,  *)
(* and one worker reconciles the store with the cache, key by key.  The    *)
(* informer and the workqueue are controller-runtime's and modelled from   *)
(* how SetupWithManager uses them: one worker, a key is never in the hands *)
(* of two workers, and a key that is added while it is being processed is  *)
(* processed again.  The store is in memory only: a crash loses it.        *)
(***************************************************************************)
EXTENDS ModRuleStore

VARIABLES
    api,        \* the ModRules in the API server, at most one per key
    cache,      \* the ModRules in the informer's cache
    queue,      \* the keys in the workqueue
    step,       \* where Reconcile is: "idle", "get" or "store"
    request,    \* the key Reconcile was called with, NoKey when it is idle
    fetched,    \* what Get returned: the set of the rule, or {} if not found
    up,         \* the process is running
    reported    \* history: the rule last reported as successfully stored, or Nil

apiVars == <<api, up>>
workVars == <<cache, queue>>
callVars == <<step, request, fetched>>
vars == <<modRuleListMap, apiVars, workVars, callVars, reported>>

NoKey == <<>>
KeyOf(r) == <<r.namespace, r.name>>
Keys == {KeyOf(r) : r \in ModRules}

\* The rule of a set with a given key: none or one.
Named(rules, key) == {r \in rules : KeyOf(r) = key}

\* The rules written are records with the fields that are defaulted, and a rule
\* with its defaults filled in is one a user may write as well.
ASSUME DefaultAssumption ==
    \A r \in ModRules : /\ {"match", "admissionOperations"} \subseteq DOMAIN r
                        /\ Default(r) \in ModRules

----------------------------------------------------------------------------
\* Variant: ValidateUpdate accepts whatever is written over a rule.
ApplyUpdatesUnvalidated ==
    /\ up
    /\ \E r \in ModRules :
         /\ Named(api, KeyOf(r)) = {} => validateModRule(Default(r))
         /\ api' = (api \ Named(api, KeyOf(r))) \cup {Default(r)}
    /\ UNCHANGED <<modRuleListMap, up, workVars, callVars, reported>>

\* A user creates or updates a rule.  The webhooks of ModRule are registered
\* with failurePolicy Fail, so a write needs the process to be running.
Apply ==
    /\ up
    /\ \E r \in ModRules :
         /\ validateModRule(Default(r))
         /\ api' = (api \ Named(api, KeyOf(r))) \cup {Default(r)}
    /\ UNCHANGED <<modRuleListMap, up, workVars, callVars, reported>>

\* A user deletes a rule.  The webhooks are not asked.
Remove ==
    /\ \E r \in api : api' = api \ {r}
    /\ UNCHANGED <<modRuleListMap, up, workVars, callVars, reported>>

\* Variants: the watch drops updates, or deletions.
DeliverKey(key) ==
    /\ cache' = (cache \ Named(cache, key)) \cup Named(api, key)
    /\ queue' = queue \cup {key}
    /\ UNCHANGED <<modRuleListMap, apiVars, callVars, reported>>
DeliverNoUpdates ==
    up /\ \E key \in Keys : (Named(cache, key) = {}) # (Named(api, key) = {}) /\ DeliverKey(key)
DeliverNoDeletes ==
    up /\ \E key \in Keys : Named(api, key) \notin {{}, Named(cache, key)} /\ DeliverKey(key)

\* A watch event: the cache takes over what the API server holds for a key, and
\* the handler of For(&ModRule{}) adds the key to the queue.
Deliver ==
    /\ up
    /\ \E key \in Keys :
         /\ Named(cache, key) # Named(api, key)
         /\ cache' = (cache \ Named(cache, key)) \cup Named(api, key)
         /\ queue' = queue \cup {key}
    /\ UNCHANGED <<modRuleListMap, apiVars, callVars, reported>>

\* The informer's periodic resync queues a key that has not changed.
Resync ==
    /\ up
    /\ \E r \in cache : queue' = queue \cup {KeyOf(r)}
    /\ UNCHANGED <<modRuleListMap, apiVars, cache, callVars, reported>>

----------------------------------------------------------------------------
(* Reconcile                                                               *)

Call ==
    /\ up /\ step = "idle"
    /\ \E key \in queue : request' = key /\ queue' = queue \ {key}
    /\ step' = "get"
    /\ reported' = Nil
    /\ UNCHANGED <<modRuleListMap, apiVars, cache, fetched>>

\* client.Get, which reads the cache.
Get ==
    /\ step = "get"
    /\ step' = "store"
    /\ fetched' = Named(cache, request)
    /\ UNCHANGED <<modRuleListMap, apiVars, workVars, request, reported>>

\* Reconcile returns.
Return == step' = "idle" /\ request' = NoKey /\ fetched' = {}

\* Variants: the error is swallowed; the namespace is cleared before the rule is
\* stored.
GetErrorSwallowed ==
    /\ step = "get"
    /\ Return
    /\ UNCHANGED <<modRuleListMap, apiVars, workVars, reported>>

PutWithoutNamespace ==
    /\ step = "store"
    /\ \E r \in fetched : Put([r EXCEPT !.namespace = NoNamespace]) /\ reported' = r
    /\ Return
    /\ UNCHANGED <<apiVars, workVars>>

\* Get fails otherwise: the error is returned, and the key queued once more.
GetError ==
    /\ step = "get"
    /\ queue' = queue \cup {request}
    /\ Return
    /\ UNCHANGED <<modRuleListMap, apiVars, cache, reported>>

\* The rule is gone: it is deleted from the store.
ReconcileDelete ==
    /\ step = "store" /\ fetched = {}
    /\ Delete(request[1], request[2])
    /\ Return
    /\ UNCHANGED <<apiVars, workVars, reported>>

\* The rule is put into the store.  What Put returns is not looked at.
ReconcilePut ==
    /\ step = "store"
    /\ \E r \in fetched : Put(r) /\ reported' = r
    /\ Return
    /\ UNCHANGED <<apiVars, workVars>>

----------------------------------------------------------------------------
\* The process dies with all it has in memory.
Crash ==
    /\ up
    /\ up' = FALSE
    /\ modRuleListMap' = << >> /\ cache' = {} /\ queue' = {}
    /\ Return /\ reported' = Nil
    /\ UNCHANGED api

\* NewModRuleStore makes an empty store; the informer will list the rules.
Restart ==
    /\ ~up
    /\ up' = TRUE
    /\ UNCHANGED <<modRuleListMap, api, workVars, callVars, reported>>

Init ==
    /\ StoreInit
    /\ api = {} /\ cache = {} /\ queue = {}
    /\ step = "idle" /\ request = NoKey /\ fetched = {}
    /\ up = TRUE /\ reported = Nil

Next == \/ Apply \/ Remove \/ Deliver \/ Resync
        \/ Call \/ Get \/ GetError \/ ReconcileDelete \/ ReconcilePut
        \/ Crash \/ Restart

Spec == Init /\ [][Next]_vars

\* The watch delivers and the worker works; the queue serves every key in turn,
\* and a read of the cache does not fail for ever.
FairSpec ==
    /\ Spec
    /\ \A key \in Keys :
         /\ WF_vars(Deliver /\ Named(cache', key) # Named(cache, key))
         /\ SF_vars(Call /\ request' = key)
         /\ SF_vars(Get /\ request = key)
    /\ WF_vars(ReconcileDelete \/ ReconcilePut)

----------------------------------------------------------------------------
(* Properties                                                              *)

OperatorTypeOK ==
    /\ StoreTypeOK
    /\ api \subseteq ModRules /\ cache \subseteq ModRules
    /\ queue \subseteq Keys /\ request \in Keys \cup {NoKey}
    /\ step \in {"idle", "get", "store"} /\ fetched \subseteq ModRules
    /\ up \in BOOLEAN /\ reported \in ModRules \cup {Nil}

\* The store does for a key what the cache says: it holds the rule of the cache,
\* if that compiles, and no rule if the cache has none.
Agrees(key) ==
    /\ \A r \in Named(cache, key) : Compiles(r) => r \in Stored
    /\ Named(cache, key) = {} => Named(Stored, key) = {}

\* The call of Reconcile in progress will make the store agree for this key.
Pending(key) ==
    /\ request = key
    /\ \/ step = "get"
       \/ step = "store" /\ fetched = Named(cache, key)

\* No change of a rule is lost between the cache and the store: where the store
\* does not agree with the cache the key is in the queue or being reconciled
\* with what the cache holds now, also if the rule changed between Get and Put.
NothingLost == \A key \in Keys : Agrees(key) \/ key \in queue \/ Pending(key)

\* Every rule a request can meet has been through both webhooks of ModRule: its
\* tier leaves room for the tier scan at both ends, its match items say what they
\* match for, it names an admission operation.  Neither Put nor the store's
\* readers look at any of this again; Admission assumes it of all rules.
StoredRulesAccepted ==
    \A r \in Stored : validateModRule(r) /\ r.admissionOperations # {}

\* While the process runs, the store changes only at the end of a call of
\* Reconcile, for the key of that call and for no other, and then holds for that
\* key what Get returned: never two versions of a rule, never a rule of another key.
ReconcileWritesItsKey ==
    [][up' => \A key \in Keys :
         Named(Stored', key) # Named(Stored, key) =>
            step = "store" /\ request = key /\ Named(Stored', key) = fetched]_vars

\* A rule that compiles and stays in the API server while the process stays up
\* is in the store in the end and stays there.
RulesArrive ==
    \A r \in ModRules : Compiles(r) =>
        (<>[](up /\ r \in api) => <>[](r \in Stored))

\* A rule that stays deleted leaves the store for good, in all its versions.
DeletedRulesLeave ==
    \A key \in Keys :
        <>[](up /\ Named(api, key) = {}) => <>[](Named(Stored, key) = {})

\* Reconcile logs "Successfully stored ModRule": the rule is in the store.
ReportedIsStored == reported # Nil => reported \in Stored

============================================================================
