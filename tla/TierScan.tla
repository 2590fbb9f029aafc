----------------------------- MODULE TierScan -----------------------------
(***************************************************************************)
(* The scan inside getMatchingModRuleStoreItems, one list element per step: *)
(* first the list of the cluster namespace, then the resource's own.  The  *)
(* code resets what it has collected whenever it meets a lower tier, and   *)
(* never relies on the order of the lists, which Delete breaks.  The scan  *)
(* holds the read lock, so the store does not change while it runs.        *)
(***************************************************************************)
EXTENDS ModRuleStore

CONSTANT MinTiers   \* the minExecutionTier arguments callers pass

VARIABLES
    phase,                  \* "idle", "cluster", "namespace" or "done"
    op, ns, minTier,        \* the arguments of the call
    pos,                    \* the index of the next element of the list
    currentExecutionTier,
    potentialRules

scanVars == <<phase, op, ns, minTier, pos, currentExecutionTier, potentialRules>>
vars == <<modRuleListMap, scanVars>>

\* Variant: the rules of a higher tier are kept when a lower one is met.
processWithoutReset(r) ==
    LET tier == IF r.executionTier < currentExecutionTier
                THEN r.executionTier ELSE currentExecutionTier
    IN  /\ currentExecutionTier' = tier
        /\ potentialRules' = IF r.executionTier = tier THEN Append(potentialRules, r)
                                                       ELSE potentialRules

\* processPotentialRule, once the operation has been found to apply.
processPotentialRule(r) ==
    LET lower == r.executionTier < currentExecutionTier
        tier  == IF lower THEN r.executionTier ELSE currentExecutionTier
        kept  == IF lower THEN << >> ELSE potentialRules
    IN  /\ currentExecutionTier' = tier
        /\ potentialRules' = IF r.executionTier = tier THEN Append(kept, r) ELSE kept

\* One turn of a loop over a list, given the indices that reach
\* processPotentialRule and survive its check of the operation.
Visit(list, candidates) ==
    /\ pos \in DOMAIN list
    /\ IF pos \in candidates
       THEN processPotentialRule(list[pos])
       ELSE UNCHANGED <<currentExecutionTier, potentialRules>>
    /\ pos' = pos + 1
    /\ UNCHANGED <<modRuleListMap, phase, op, ns, minTier>>

Call ==
    /\ phase = "idle"
    /\ phase' = "cluster"
    /\ op' \in Operations /\ ns' \in Namespaces \cup {NoNamespace} /\ minTier' \in MinTiers
    /\ pos' = 1
    /\ currentExecutionTier' = MaxInt16
    /\ potentialRules' = << >>
    /\ UNCHANGED modRuleListMap

VisitCluster ==
    /\ phase = "cluster"
    /\ Visit(ListAt(modRuleListMap, ClusterNamespace), ClusterCandidates(op, ns, minTier))

ClusterDone ==
    /\ phase = "cluster"
    /\ pos \notin DOMAIN ListAt(modRuleListMap, ClusterNamespace)
    /\ phase' = "namespace" /\ pos' = 1
    /\ UNCHANGED <<modRuleListMap, op, ns, minTier, currentExecutionTier, potentialRules>>

VisitNamespace ==
    /\ phase = "namespace"
    /\ ns # NoNamespace
    /\ Visit(ListAt(modRuleListMap, ns), NamespaceCandidates(op, ns, minTier))

NamespaceDone ==
    /\ phase = "namespace"
    /\ ns # NoNamespace => pos \notin DOMAIN ListAt(modRuleListMap, ns)
    /\ phase' = "done"
    /\ UNCHANGED <<modRuleListMap, op, ns, minTier, pos, currentExecutionTier, potentialRules>>

\* The read lock is released and the locals are gone; the next writer or reader
\* may come.
Return ==
    /\ phase = "done"
    /\ phase' = "idle" /\ pos' = 1
    /\ op' = "CREATE" /\ ns' = NoNamespace /\ minTier' = MinInt16
    /\ currentExecutionTier' = MaxInt16 /\ potentialRules' = << >>
    /\ UNCHANGED modRuleListMap

Write == phase = "idle" /\ StoreNext /\ UNCHANGED scanVars

Init ==
    /\ StoreInit
    /\ phase = "idle" /\ pos = 1
    /\ op = "CREATE" /\ ns = NoNamespace /\ minTier = MinInt16
    /\ currentExecutionTier = MaxInt16 /\ potentialRules = << >>

Next == Call \/ VisitCluster \/ ClusterDone \/ VisitNamespace \/ NamespaceDone
        \/ Return \/ Write

Spec == Init /\ [][Next]_vars

----------------------------------------------------------------------------
\* The scan is exact whatever order the lists are in: it returns the lowest
\* tier of the candidates of both lists, and all of the candidates in it.
ScanIsExact ==
    phase = "done" =>
        /\ IsLowestTier(currentExecutionTier, Candidates(op, ns, minTier))
        /\ Elements(potentialRules)
              = PotentialRules(op, ns, minTier, currentExecutionTier)

============================================================================
