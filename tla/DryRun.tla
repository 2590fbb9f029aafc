------------------------------ MODULE DryRun ------------------------------
(***************************************************************************)
(* dryRunHandler of app/webapp_handlers.go: the rules of a payload go into *)
(* a store of the request's own, and the manifest goes through the walks   *)
(* of module Admission.  The store is not shared, so nothing changes it    *)
(* while they run.  The answer is 400 for a payload that is refused, 500   *)
(* for a panic (which gin's recovery catches), otherwise 200 with the      *)
(* patch and the rejections.                                               *)
(***************************************************************************)
EXTENDS Admission

CONSTANT Payloads   \* payloads: [modRules, resourceManifest]

VARIABLE modRules   \* the rules of the payload that are still to be stored

dryRunVars == <<vars, modRules>>

dryRunNamespace == "dryrun-namespace"
dryRunOperation == ""
BadRequest == "400"

\* ShouldBind succeeds and the request gets an empty store.
ReceiveDryRun ==
    /\ pc = "idle"
    /\ \E p \in Payloads : modRules' = p.modRules /\ original' = p.resourceManifest
    /\ modRuleListMap' = << >>
    /\ operation' = dryRunOperation /\ namespace' = dryRunNamespace
    /\ pc' = "load"
    /\ UNCHANGED <<patchVars, walkVars, rejections, response, steady>>

\* The rule as the handler stores it: with its defaults, and in one namespace
\* with all others.
Prepared(r) == [Default(r) EXCEPT !.namespace = dryRunNamespace]

PutRule ==
    /\ pc = "load" /\ modRules # << >>
    /\ LET r == Prepared(Head(modRules))
       IN  \/ /\ validateModRule(r) /\ PutOk(r)
              /\ modRules' = Tail(modRules)
              /\ UNCHANGED <<pc, response>>
           \/ /\ validateModRule(r) /\ PutError(r)
              /\ Respond(BadRequest)
              /\ UNCHANGED modRules
           \/ /\ ~validateModRule(r)
              /\ Respond(BadRequest)
              /\ UNCHANGED <<modRuleListMap, modRules>>
    /\ UNCHANGED <<requestVars, patchVars, walkVars, rejections, steady>>

\* All rules are stored: CalculatePatch begins.
StartDryRun ==
    /\ pc = "load" /\ modRules = << >>
    /\ modified' = original /\ jsonv' = original /\ lastApplied' = original.lastApplied
    /\ rejections' = {}
    /\ StartWalk("patch")
    /\ UNCHANGED <<modRuleListMap, requestVars, response, modRules>>

\* CalculatePatch and DetermineRejections.  An error of CalculatePatch, for which
\* Admission has the answer PatchFailed, is a 400 here; RejectDone is the 200.
Walk == PatchTier \/ PatchRule \/ PatchDone \/ RejectTier \/ RejectRule \/ RejectDone

DryRunInit == Init /\ modRules = << >>
DryRunNext == \/ ReceiveDryRun \/ PutRule \/ StartDryRun
              \/ (Walk \/ Finish) /\ UNCHANGED modRules
DryRunSpec == DryRunInit /\ [][DryRunNext]_dryRunVars

\* "Dry-runs a set of ModRules against a resource": a dry run that is answered
\* with 200 reports every Reject rule of the payload that matches the patched
\* manifest.
DryRunReportsRejections ==
    response \in {Denied, Patched, NonPatched} =>
        \A r \in Stored : r.type = "Reject" /\ IsMatch(r, modified) => r \in rejections

============================================================================
