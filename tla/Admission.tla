----------------------------- MODULE Admission -----------------------------
(***************************************************************************)
(* core/dragnetwebhook.go and the walks of core/modrulestore.go: one       *)
(* admission request on its way through Handle, while the reconciler keeps *)
(* changing the store.                                                     *)
(*                                                                         *)
(* Handle injects the synthetic references, walks the tiers of the Patch   *)
(* rules (CalculatePatch), then those of the Reject rules                  *)
(* (DetermineRejections), and answers.  Each tier is read from the store   *)
(* under the read lock and used after the lock is released, so Put and     *)
(* Delete may run between any two tiers.  Requests share nothing but the   *)
(* store, which they only read, so one of them at a time is modelled.      *)
(***************************************************************************)
EXTENDS ModRuleStore, Document

CONSTANT Requests   \* the admission requests the API server may send

VARIABLES
    pc,            \* where Handle is
    operation,     \* req.Operation
    namespace,     \* storeNamespace
    original,      \* originalJSON of CalculatePatch
    modified,      \* modifiedJSON, Nil after a failed patch
    jsonv,         \* the unmarshalled manifest the rules are matched against
    lastApplied,   \* lastAppliedConfigurationJSON
    tier,          \* currentExecutionTier of the walk
    matching,      \* the matching rules of the tier still to be executed
    rejections,    \* the Reject rules that matched
    response,      \* the answer: "none" until there is one
    steady,        \* history: rules stored ever since this walk began
    considered     \* history: rules this walk has put to the match

requestVars == <<operation, namespace, original>>
patchVars == <<modified, jsonv, lastApplied>>
walkVars == <<tier, matching, considered>>
vars == <<modRuleListMap, pc, requestVars, patchVars, walkVars, rejections, response, steady>>

ASSUME RequestsAssumption ==
    Requests \subseteq [operation : Operations, namespace : Namespaces \cup {NoNamespace},
                        isNamespace : BOOLEAN, object : Documents]

ASSUME ValidRulesAssumption == \A r \in ModRules : validateModRule(r)

----------------------------------------------------------------------------
(* The answers of Handle.  "noanswer" is a panic: net/http drops the       *)
(* connection, and failurePolicy Ignore admits the object as it was sent.  *)

InjectFailed == "allowed: failed to inject syntheticRefs into object manifest"
PatchFailed  == "allowed: failed to calculate patch"
NoAnswer     == "noanswer"
Denied       == "denied"
Patched      == "patched ok"
NonPatched   == "non-patched ok"

\* The response is written and the handler is done.
Respond(answer) == pc' = "done" /\ response' = answer

\* A walk starts below the lowest tier, with everything that is stored now.
StartWalk(at) ==
    /\ pc' = at
    /\ tier' = MinInt16
    /\ matching' = << >>
    /\ considered' = {}
    /\ steady' = Stored

----------------------------------------------------------------------------
\* Handle, first part: a Namespace object counts as a resource without
\* namespace, whatever req.Namespace says.
Receive ==
    /\ pc = "idle"
    /\ \E req \in Requests :
         /\ operation' = req.operation
         /\ namespace' = IF req.isNamespace THEN NoNamespace ELSE req.namespace
         /\ original' = req.object
    /\ pc' = "inject"
    /\ response' = "none"
    /\ UNCHANGED <<modRuleListMap, patchVars, walkVars, rejections, steady>>

\* injectSyntheticRefs fails: the namespace (or a pod's node) cannot be read.
InjectError ==
    /\ pc = "inject"
    /\ Respond(InjectFailed)
    /\ UNCHANGED <<modRuleListMap, requestVars, patchVars, walkVars, rejections, steady>>

\* Variant: the whole manifest is taken for its last-applied-configuration.
InjectWholeManifest ==
    /\ pc = "inject"
    /\ modified' = original /\ jsonv' = original /\ lastApplied' = original
    /\ rejections' = {}
    /\ StartWalk("patch")
    /\ UNCHANGED <<modRuleListMap, requestVars, response>>

\* injectSyntheticRefs succeeds and CalculatePatch begins.
Inject ==
    /\ pc = "inject"
    /\ modified' = original
    /\ jsonv' = original
    /\ lastApplied' = original.lastApplied
    /\ rejections' = {}
    /\ StartWalk("patch")
    /\ UNCHANGED <<modRuleListMap, requestVars, response>>

----------------------------------------------------------------------------
\* The sublist of a list at a set of indices, in list order.
Sublists(list, indices) ==
    {[i \in DOMAIN f |-> list[f[i]]] :
        f \in {g \in [1 .. Cardinality(indices) -> indices] :
                 /\ \A i, j \in DOMAIN g : i < j => g[i] < g[j]
                 /\ \A k \in indices : \E i \in DOMAIN g : g[i] = k}}

\* Variant: the type of the rule is not looked at.
KeptOfAnyType(list, candidates, type, t) ==
    {i \in candidates : list[i].executionTier = t /\ IsMatch(list[i], jsonv)}

\* The rules of tier t that survive the last loop of
\* getMatchingModRuleStoreItems: the type is asked for, and the match is positive.
Kept(list, candidates, type, t) ==
    {i \in candidates : /\ list[i].executionTier = t
                        /\ list[i].type = type
                        /\ IsMatch(list[i], jsonv)}

\* The rules it returns, in list order and cluster rules first.
MatchingRules(type, minTier, t) ==
    LET cluster == ListAt(modRuleListMap, ClusterNamespace)
        own     == ListAt(modRuleListMap, namespace)
        kc      == Kept(cluster, ClusterCandidates(operation, namespace, minTier), type, t)
        ko      == Kept(own, NamespaceCandidates(operation, namespace, minTier), type, t)
    IN  {c \o o : c \in Sublists(cluster, kc), o \in Sublists(own, ko)}

\* A call of getMatchingModRuleStoreItems that finds tier t, the lowest one from
\* minTier up that has a rule for this request, or MaxInt16.
TierFrom(type, minTier, t) ==
    /\ IsLowestTier(t, Candidates(operation, namespace, minTier))
    /\ tier' = t
    /\ considered' = considered \cup PotentialRules(operation, namespace, minTier, t)
    /\ matching' \in MatchingRules(type, minTier, t)

\* Variants: the search starts at the current tier, or one tier too high, or stays
\* where it is if there is no rule left.
TierKeptWhenNone(type, t) ==
    IF Candidates(operation, namespace, Int16Add(tier, 1)) = {}
    THEN t = tier /\ UNCHANGED walkVars
    ELSE TierFrom(type, Int16Add(tier, 1), t)
SameTierAgain(type, t) == TierFrom(type, tier, t)
TierSkipped(type, t) == TierFrom(type, Int16Add(tier, 2), t)

\* The call at the top of both loops.
NextTier(type, t) == TierFrom(type, Int16Add(tier, 1), t)

PatchTier ==
    /\ pc = "patch" /\ matching = << >> /\ tier # MaxInt16
    /\ \E t \in MinInt16 .. MaxInt16 : NextTier("Patch", t)
    /\ UNCHANGED <<modRuleListMap, pc, requestVars, patchVars, rejections, response, steady>>

\* The body of CalculatePatch's inner loop, for the next matching rule.
PatchRule ==
    /\ pc = "patch" /\ matching # << >>
    /\ matching' = Tail(matching)
    /\ LET r   == Head(matching)
           ops == calculatePatch(r, jsonv)
           new == ApplyWithOptions(ops, modified)
       IN  \/ \* a template failed: the rule is skipped
              /\ CalculateFails(r, jsonv)
              /\ UNCHANGED <<pc, response, modified, jsonv, lastApplied>>
           \/ \* the patch failed: modifiedJSON is overwritten with nil
              /\ ~CalculateFails(r, jsonv) /\ modified # Nil /\ new = Nil
              /\ modified' = Nil
              /\ UNCHANGED <<pc, response, jsonv, lastApplied>>
           \/ \* the patch was applied, and goes to the annotation too
              /\ ~CalculateFails(r, jsonv) /\ modified # Nil /\ new # Nil
              /\ modified' = new /\ jsonv' = new
              /\ lastApplied' = IF lastApplied = Nil THEN Nil
                                ELSE ApplyToLastApplied(ops, lastApplied)
              /\ UNCHANGED <<pc, response>>
           \/ \* there is no document left to patch: the library (a fork of
              \* which only the interface is known) may fail, return the empty
              \* input, which then cannot be parsed, or panic
              /\ ~CalculateFails(r, jsonv) /\ modified = Nil
              /\ \/ UNCHANGED <<pc, response>>
                 \/ Respond(PatchFailed)
                 \/ Respond(NoAnswer)
              /\ UNCHANGED <<modified, jsonv, lastApplied>>
    /\ UNCHANGED <<modRuleListMap, requestVars, tier, considered, rejections, steady>>

\* The end of CalculatePatch: the patched annotation goes into the manifest
\* (a panic if a rule removed the annotations), then the patch is created (an
\* error if there is no modified document), then DetermineRejections begins.
PatchDone ==
    /\ pc = "patch" /\ matching = << >> /\ tier = MaxInt16
    /\ \/ /\ lastApplied # Nil /\ jsonv.lastApplied = Nil
          /\ Respond(NoAnswer)
          /\ UNCHANGED <<patchVars, walkVars, steady>>
       \/ /\ lastApplied # Nil /\ jsonv.lastApplied # Nil
          /\ jsonv' = [jsonv EXCEPT !.lastApplied = lastApplied]
          /\ modified' = jsonv'
          /\ StartWalk("reject")
          /\ UNCHANGED <<lastApplied, response>>
       \/ /\ lastApplied = Nil /\ modified = Nil
          /\ Respond(PatchFailed)
          /\ UNCHANGED <<patchVars, walkVars, steady>>
       \/ /\ lastApplied = Nil /\ modified # Nil
          /\ StartWalk("reject")
          /\ UNCHANGED <<patchVars, response>>
    /\ UNCHANGED <<modRuleListMap, requestVars, rejections>>

----------------------------------------------------------------------------
RejectTier ==
    /\ pc = "reject" /\ matching = << >> /\ tier # MaxInt16
    /\ \E t \in MinInt16 .. MaxInt16 : NextTier("Reject", t)
    /\ UNCHANGED <<modRuleListMap, pc, requestVars, patchVars, rejections, response, steady>>

\* Variant: a rule whose rejectMessage template fails does not reject.
RejectRuleSkipped ==
    /\ pc = "reject" /\ matching # << >>
    /\ matching' = Tail(matching)
    /\ UNCHANGED <<modRuleListMap, pc, requestVars, patchVars, tier, considered,
                   rejections, response, steady>>

\* The inner loop of DetermineRejections: every matching rule adds a message,
\* also if its rejectMessage template fails.
RejectRule ==
    /\ pc = "reject" /\ matching # << >>
    /\ rejections' = rejections \cup {Head(matching)}
    /\ matching' = Tail(matching)
    /\ UNCHANGED <<modRuleListMap, pc, requestVars, patchVars, tier, considered, response, steady>>

\* Handle's last part.
RejectDone ==
    /\ pc = "reject" /\ matching = << >> /\ tier = MaxInt16
    /\ Respond(CASE rejections # {} -> Denied
                 [] rejections = {} /\ modified # original -> Patched
                 [] OTHER -> NonPatched)
    /\ UNCHANGED <<modRuleListMap, requestVars, patchVars, walkVars, rejections, steady>>

\* The handler's locals when no request is being served.
Idle(opr, nsp, ori, mod, jv, las, tr, mat, cons, rej, std) ==
    /\ opr = "CREATE" /\ nsp = NoNamespace /\ ori = Nil /\ mod = Nil /\ jv = Nil
    /\ las = Nil /\ tr = MinInt16 /\ mat = << >> /\ cons = {} /\ rej = {} /\ std = {}

\* The handler returns; the next request may come.
Finish ==
    /\ pc = "done"
    /\ pc' = "idle"
    /\ response' = "none"
    /\ Idle(operation', namespace', original', modified', jsonv', lastApplied',
            tier', matching', considered', rejections', steady')
    /\ UNCHANGED modRuleListMap

\* The reconciler's Put or Delete, at any time.
Write ==
    /\ StoreNext
    /\ steady' = steady \cap Stored'
    /\ UNCHANGED <<pc, requestVars, patchVars, walkVars, rejections, response>>

----------------------------------------------------------------------------
Init ==
    /\ StoreInit
    /\ pc = "idle" /\ response = "none"
    /\ Idle(operation, namespace, original, modified, jsonv, lastApplied,
            tier, matching, considered, rejections, steady)

\* The steps of Handle once a request is there.
Handle ==
    \/ InjectError \/ Inject
    \/ PatchTier \/ PatchRule \/ PatchDone
    \/ RejectTier \/ RejectRule \/ RejectDone
    \/ Finish

Next == Receive \/ Handle \/ Write

Spec == Init /\ [][Next]_vars

\* The Go scheduler runs every goroutine that can run, and the RWMutex lets a
\* waiting reader in; nothing obliges a request or a write to come.
FairSpec == Spec /\ WF_vars(Handle)

----------------------------------------------------------------------------
(* Properties                                                              *)

AdmissionTypeOK ==
    /\ pc \in {"idle", "inject", "patch", "reject", "done"}
    /\ operation \in Operations /\ namespace \in Namespaces \cup {NoNamespace}
    /\ original \in Documents \cup {Nil} /\ modified \in Documents \cup {Nil}
    /\ jsonv \in Documents \cup {Nil} /\ lastApplied \in Objects \cup {Nil}
    /\ tier \in MinInt16 .. MaxInt16 /\ matching \in Seq(ModRules)
    /\ rejections \subseteq ModRules
    /\ steady \subseteq ModRules /\ considered \subseteq ModRules
    /\ response \in {"none", InjectFailed, PatchFailed, NoAnswer, Denied, Patched, NonPatched}

\* The rule is meant for the request: its operations and its namespace fit.
Applies(r) ==
    /\ operation \in r.admissionOperations
    /\ \/ r.namespace = ClusterNamespace /\ InClusterScope(r, namespace)
       \/ namespace # NoNamespace /\ r.namespace = namespace

\* When a walk has run out of tiers, every rule that was stored from its first
\* to its last look at the store and applies to the request has been put to the
\* match, however many other rules came, went or changed tier in between.
NoRuleSkipped ==
    pc \in {"patch", "reject"} /\ tier = MaxInt16 =>
        \A r \in steady : Applies(r) => r \in considered

\* The manifest the API server will store if the answer lets it through.
Admitted == IF response = Patched THEN modified ELSE original

\* A request that has passed both walks is admitted with a manifest no steady
\* Reject rule matches: what DetermineRejections examined is what the patch
\* produces, last-applied-configuration included.
RejectEnforced ==
    response \in {Patched, NonPatched} =>
        \A r \in steady :
            r.type = "Reject" /\ Applies(r) => ~IsMatch(r, Admitted)

\* A request is denied only for Reject rules that apply to it and match the
\* manifest as it was patched, even if they are deleted before the answer.
DeniedForCause ==
    response = Denied =>
        /\ rejections # {}
        /\ \A r \in rejections : r.type = "Reject" /\ Applies(r) /\ IsMatch(r, modified)

\* If last-applied-configuration mirrored the manifest before, it mirrors the
\* patched manifest, also when some of the rules failed on the way.
MirrorKept ==
    response \in {Patched, NonPatched} /\ original.lastApplied = original.object =>
        Admitted.lastApplied = Admitted.object

\* A walk takes up new rules only in a tier above all earlier ones, also if a
\* rule is stored in the current tier while its rules are being executed.
TiersRise == [][considered' # considered /\ pc' = pc => tier' > tier]_vars

\* The phases of Handle, counted down.
Phase(at) == CASE at = "inject" -> 3 [] at = "patch" -> 2 [] at = "reject" -> 1 [] OTHER -> 0

\* Every step of Handle is one step less to the answer: it ends a phase, or goes
\* up in the tiers, or takes a rule off the list of the tier.  There are finitely
\* many of each, so no sequence of steps goes round in a circle.
HandleAdvances ==
    [][modRuleListMap' = modRuleListMap /\ pc \in {"inject", "patch", "reject"}
         => \/ Phase(pc') < Phase(pc)
            \/ pc' = pc /\ tier' > tier
            \/ pc' = pc /\ tier' = tier /\ Len(matching') < Len(matching)
      ]_vars

\* Every request is answered, even if Put and Delete never stop.
Answered == pc = "inject" ~> pc = "done"

\* README: "If a resource matches the match section of a Reject ModRule, its
\* creation/update will be rejected", whatever happens to the Patch rules.
RejectAlwaysEnforced ==
    response \in {PatchFailed, Patched, NonPatched} =>
        \A r \in steady :
            r.type = "Reject" /\ Applies(r) => ~IsMatch(r, Admitted)

\* README: "KubeMod patches the contents of that annotation as well": a field a
\* rule added to the manifest is added to last-applied-configuration too.
AddedFieldsReachLastApplied ==
    response = Patched /\ original.lastApplied # Nil =>
        \A f \in Fields :
            original.object[f] = Nil /\ original.lastApplied[f] = Nil
                => modified.lastApplied[f] = modified.object[f]

============================================================================
