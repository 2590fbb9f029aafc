---------------------------- MODULE PodBinding ----------------------------
(***************************************************************************)
(* core/podbindingwebhook.go: the webhook the API server calls while it    *)
(* binds a pod to a node.  The handler reads the pod, adds the annotation  *)
(* ref.kubemod.io/nodename and updates the pod, all before the binding     *)
(* itself is stored; whatever fails, it lets the binding go ahead.         *)
(*                                                                         *)
(* The API server gives up after timeoutSeconds and fails the attempt      *)
(* (failurePolicy Fail); the scheduler then tries again, perhaps with      *)
(* another node, while the handler of the first attempt or its update may  *)
(* still be under way.  Others write to the pod at the same time.          *)
(* The API server, the scheduler and the other writers are external.       *)
(***************************************************************************)
EXTENDS Naturals

CONSTANTS
    Nodes,         \* the nodes the scheduler may choose
    None,          \* no node
    MaxAttempts,   \* bound on the scheduler's attempts to bind the pod
    MaxWrites      \* bound on the writes of others

ASSUME NodesAssumption == None \notin Nodes
ASSUME BoundsAssumption == MaxAttempts \in Nat /\ MaxWrites \in Nat

Attempts == 1 .. MaxAttempts

VARIABLES
    pod,      \* the stored pod: inject-node-ref, nodename, spec.nodeName, the rest
    phase,    \* where an attempt is: "none", "webhook", "storing", "bound", "lost"
    pc,       \* where its handler is: "none", "get", "update", "wire"
    target,   \* the node the attempt is for, None if the binding names none
    copy,     \* the pod as the handler read it
    stale,    \* the pod has another resourceVersion than the copy
    landed,   \* the handler's update was accepted
    next,     \* the number of the next attempt
    up        \* KubeMod is running

attemptVars == <<phase, target, next>>
vars == <<pod, attemptVars, pc, copy, stale, landed, up>>

Pods == [inject : BOOLEAN, nodename : Nodes \cup {None}, node : Nodes \cup {None},
         other : 0 .. MaxWrites]

\* A write of the pod: what any handler has read is out of date.
WritePod(new) == pod' = new /\ stale' = [a \in Attempts |-> TRUE]

\* The handler returns.  Its answer is Allowed, and counts if it is waited for.
Allow(a) ==
    /\ pc' = [pc EXCEPT ![a] = "none"]
    /\ phase' = [phase EXCEPT ![a] = IF @ = "webhook" THEN "storing" ELSE @]

\* The API server has given up on the attempt, and with it ctx is cancelled.
Cancelled(a) == phase[a] = "lost"

----------------------------------------------------------------------------
(* The scheduler and the API server                                        *)

\* A binding is created, which may be one that names no target.
Bind ==
    /\ next \in Attempts /\ pod.node = None
    /\ \A a \in Attempts : phase[a] \in {"none", "lost"}
    /\ \E n \in Nodes \cup {None} : target' = [target EXCEPT ![next] = n]
    /\ \/ /\ up
          /\ phase' = [phase EXCEPT ![next] = "webhook"]
          /\ pc' = [pc EXCEPT ![next] = "get"]
       \/ \* nobody serves the webhook
          /\ ~up
          /\ phase' = [phase EXCEPT ![next] = "lost"]
          /\ UNCHANGED pc
    /\ next' = next + 1
    /\ UNCHANGED <<pod, copy, stale, landed, up>>

\* timeoutSeconds have passed without an answer.
Timeout(a) ==
    /\ phase[a] = "webhook"
    /\ phase' = [phase EXCEPT ![a] = "lost"]
    /\ UNCHANGED <<pod, target, next, pc, copy, stale, landed, up>>

\* The binding is stored, or refused: it names no node, or something else fails.
StoreBinding(a) ==
    /\ phase[a] = "storing"
    /\ \/ /\ target[a] # None
          /\ phase' = [phase EXCEPT ![a] = "bound"]
          /\ WritePod([pod EXCEPT !.node = target[a]])
       \/ /\ phase' = [phase EXCEPT ![a] = "lost"]
          /\ UNCHANGED <<pod, stale>>
    /\ UNCHANGED <<target, next, pc, copy, landed, up>>

\* Somebody else changes the pod, or whether it wants the annotation.
OtherWrite ==
    /\ pod.other < MaxWrites
    /\ \E inject \in BOOLEAN :
         WritePod([pod EXCEPT !.other = @ + 1, !.inject = inject])
    /\ UNCHANGED <<attemptVars, pc, copy, landed, up>>

----------------------------------------------------------------------------
(* Handle                                                                  *)

\* The binding names no target, or the pod cannot be read.
GetFails(a) ==
    /\ pc[a] = "get"
    /\ Allow(a)
    /\ UNCHANGED <<pod, target, next, copy, stale, landed, up>>

\* The pod is read; without the annotation inject-node-ref that is all.
Get(a) ==
    /\ pc[a] = "get" /\ target[a] # None /\ ~Cancelled(a)
    /\ copy' = [copy EXCEPT ![a] = pod]
    /\ stale' = [stale EXCEPT ![a] = FALSE]
    /\ IF pod.inject
       THEN pc' = [pc EXCEPT ![a] = "update"] /\ UNCHANGED phase
       ELSE Allow(a)
    /\ UNCHANGED <<pod, target, next, landed, up>>

\* The update is sent, unless ctx is cancelled.
Send(a) ==
    /\ pc[a] = "update"
    /\ IF Cancelled(a) THEN Allow(a)
       ELSE pc' = [pc EXCEPT ![a] = "wire"] /\ UNCHANGED phase
    /\ UNCHANGED <<pod, target, next, copy, stale, landed, up>>

\* Variant: a failed update is sent again instead of letting the binding go ahead.
UpdateFailsRetried(a) ==
    /\ pc[a] = "wire"
    /\ pc' = [pc EXCEPT ![a] = "update"]
    /\ UNCHANGED <<pod, target, next, phase, copy, stale, landed, up>>

\* The update fails: it conflicts with another write, it is refused (by a Reject
\* rule, for one), or it never arrives.
UpdateFails(a) ==
    /\ pc[a] = "wire"
    /\ Allow(a)
    /\ UNCHANGED <<pod, target, next, copy, stale, landed, up>>

\* Variants: the resourceVersion is not sent along; a conflict is retried on the
\* pod as it is now; the pod's name is taken for the node's.
UpdateNamesPod(a) ==
    /\ pc[a] = "wire" /\ ~stale[a]
    /\ WritePod([copy[a] EXCEPT !.nodename = "pod"])
    /\ landed' = [landed EXCEPT ![a] = TRUE]
    /\ Allow(a)
    /\ UNCHANGED <<target, next, copy, up>>
UpdateUnconditionally(a) ==
    /\ pc[a] = "wire"
    /\ WritePod([copy[a] EXCEPT !.nodename = target[a]])
    /\ landed' = [landed EXCEPT ![a] = TRUE]
    /\ Allow(a)
    /\ UNCHANGED <<target, next, copy, up>>
UpdateRetried(a) ==
    /\ pc[a] = "wire"
    /\ WritePod([pod EXCEPT !.nodename = target[a]])
    /\ landed' = [landed EXCEPT ![a] = TRUE]
    /\ Allow(a)
    /\ UNCHANGED <<target, next, copy, up>>

\* The update is accepted: the pod has the resourceVersion the handler read.  The
\* whole pod is written, as it was read but for the annotation.  It may arrive
\* after the API server has given up on the attempt.
Update(a) ==
    /\ pc[a] = "wire" /\ ~stale[a]
    /\ WritePod([copy[a] EXCEPT !.nodename = target[a]])
    /\ landed' = [landed EXCEPT ![a] = TRUE]
    /\ Allow(a)
    /\ UNCHANGED <<target, next, copy, up>>

----------------------------------------------------------------------------
\* Variant: the handlers are gone, but their connections are not closed.
CrashUnnoticed ==
    /\ up
    /\ up' = FALSE
    /\ pc' = [a \in Attempts |-> IF pc[a] = "wire" THEN "wire" ELSE "none"]
    /\ UNCHANGED <<pod, attemptVars, copy, stale, landed>>

\* KubeMod stops: its handlers are gone and their attempts fail, but an update
\* that was sent may still arrive.
Crash ==
    /\ up
    /\ up' = FALSE
    /\ pc' = [a \in Attempts |-> IF pc[a] = "wire" THEN "wire" ELSE "none"]
    /\ phase' = [a \in Attempts |-> IF phase[a] = "webhook" THEN "lost" ELSE phase[a]]
    /\ UNCHANGED <<pod, target, next, copy, stale, landed>>

Restart ==
    /\ ~up
    /\ up' = TRUE
    /\ UNCHANGED <<pod, attemptVars, pc, copy, stale, landed>>

Init ==
    /\ pod \in [inject : BOOLEAN, nodename : {None}, node : {None}, other : {0}]
    /\ phase = [a \in Attempts |-> "none"]
    /\ pc = [a \in Attempts |-> "none"]
    /\ target = [a \in Attempts |-> None]
    /\ copy = [a \in Attempts |-> pod]
    /\ stale = [a \in Attempts |-> TRUE]
    /\ landed = [a \in Attempts |-> FALSE]
    /\ next = 1
    /\ up = TRUE

\* The steps of a handler.
Handler(a) == GetFails(a) \/ Get(a) \/ Send(a) \/ UpdateFails(a) \/ Update(a)

Next ==
    \/ Bind \/ OtherWrite \/ Crash \/ Restart
    \/ \E a \in Attempts : Timeout(a) \/ StoreBinding(a)
    \/ \E a \in Attempts : GetFails(a) \/ Get(a) \/ Send(a) \/ UpdateFails(a) \/ Update(a)

Spec == Init /\ [][Next]_vars

\* The Go scheduler runs every handler, the client's requests end, and the API
\* server finishes what it has let through.  Nothing is assumed of timeouts,
\* crashes, restarts, the scheduler and other writers.
FairSpec ==
    /\ Spec
    /\ \A a \in Attempts : WF_vars(Handler(a)) /\ WF_vars(StoreBinding(a))

----------------------------------------------------------------------------
(* Properties                                                              *)

PodTypeOK ==
    /\ pod \in Pods
    /\ phase \in [Attempts -> {"none", "webhook", "storing", "bound", "lost"}]
    /\ pc \in [Attempts -> {"none", "get", "update", "wire"}]
    /\ target \in [Attempts -> Nodes \cup {None}]
    /\ copy \in [Attempts -> Pods]
    /\ stale \in [Attempts -> BOOLEAN] /\ landed \in [Attempts -> BOOLEAN]
    /\ next \in 1 .. MaxAttempts + 1 /\ up \in BOOLEAN

\* The handler writes the whole pod back, and undoes nobody's write by it: not
\* what others have written since it read the pod, and not the binding.
NoWriteUndone ==
    [][/\ pod'.other >= pod.other
       /\ pod'.other = pod.other => pod'.inject = pod.inject
       /\ pod.node # None => pod'.node = pod.node]_vars

\* If the attempt that bound the pod got its own annotation accepted, the
\* annotation names the node the pod runs on: no update of an earlier attempt,
\* for another node, comes after it.
AnnotationHolds ==
    \A a \in Attempts :
        phase[a] = "bound" /\ landed[a] => pod.node # None /\ pod.nodename = pod.node

\* An attempt the API server waits for has a handler at work on it, and the pod it
\* wants to bind is not bound: no way out of Handle leaves without an answer, a
\* crash takes the handler and the connection together, and a handler whose
\* attempt was given up answers for no other one.
WaitedForIsServed ==
    \A a \in Attempts : phase[a] = "webhook" => pc[a] # "none" /\ pod.node = None

\* Whatever fails, the webhook holds up no binding: every attempt is let through
\* or given up, without the timeout having to step in.
NeverHeldUp == \A a \in Attempts : phase[a] = "webhook" ~> phase[a] \in {"bound", "lost"}

\* README: "KubeMod updates the pod by injecting annotation ref.kubemod.io/node
\* whose value is set to the name of the node": the annotation, where there is
\* one, names the node the pod was scheduled on.
AnnotationNamesNode ==
    pod.node # None /\ pod.nodename # None => pod.nodename = pod.node

============================================================================
