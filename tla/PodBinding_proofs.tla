------------------------- MODULE PodBinding_proofs -------------------------
(***************************************************************************)
(* The handlers of the pod binding webhook undo no write and, once their   *)
(* own annotation is accepted, keep it, for any number of nodes, attempts  *)
(* and writes.                                                             *)
(*                                                                         *)
(* The argument: an update is accepted only from a handler whose copy is   *)
(* the pod (FreshCopies), at most one attempt is waited for (OneLive), and *)
(* when its update has been accepted every other handler's copy is out of  *)
(* date and can never be read again, because its ctx is cancelled.         *)
(***************************************************************************)
EXTENDS PodBinding, TLAPS

\* The attempt has not been given up.
Live(a) == phase[a] \in {"webhook", "storing", "bound"}

\* The handler holds a copy it means to write.
Holds(a) == pc[a] \in {"update", "wire"}

FreshCopies == \A a \in Attempts : Holds(a) /\ ~stale[a] => copy[a] = pod
OneLive == \A a, b \in Attempts : Live(a) /\ Live(b) => a = b
NotBegun == \A a \in Attempts : a >= next => phase[a] = "none" /\ pc[a] = "none" /\ ~landed[a]
Serving == \A a \in Attempts : pc[a] # "none" => phase[a] \in {"webhook", "lost"} /\ ~landed[a]
Unbound == \A a \in Attempts : phase[a] \in {"webhook", "storing"} => pod.node = None
Bound == \A a \in Attempts : phase[a] = "bound" => pod.node = target[a] /\ target[a] # None
Kept == \A a \in Attempts : landed[a] /\ Live(a) =>
            /\ pod.nodename = target[a]
            /\ \A b \in Attempts : Holds(b) => stale[b]

PodInv == PodTypeOK /\ FreshCopies /\ OneLive /\ NotBegun /\ Serving /\ Unbound /\ Bound /\ Kept

USE DEF Attempts

\* The invariant holds initially.
LEMMA InitInv == Init => PodInv
BY BoundsAssumption DEF Init, PodInv, PodTypeOK, FreshCopies, OneLive, NotBegun, Serving, Unbound, Bound,
   Kept, Live, Holds, Pods

\* A new attempt begins only when all earlier ones have been given up.
LEMMA BindInv == PodInv /\ Bind => PodInv'
<1> SUFFICES ASSUME PodInv, Bind PROVE PodInv'
  OBVIOUS
<1> USE DEF PodInv, Bind
<1>a. PICK n \in Nodes \cup {None} : target' = [target EXCEPT ![next] = n]
  OBVIOUS
<1>b. next \in Attempts /\ next \in Nat /\ next + 1 \in 1 .. MaxAttempts + 1
  BY BoundsAssumption
<1>c. /\ phase \in [Attempts -> {"none", "webhook", "storing", "bound", "lost"}]
      /\ pc \in [Attempts -> {"none", "get", "update", "wire"}]
      /\ target \in [Attempts -> Nodes \cup {None}]
  BY DEF PodTypeOK
<1>d. /\ phase' \in [Attempts -> {"none", "webhook", "storing", "bound", "lost"}]
      /\ pc' \in [Attempts -> {"none", "get", "update", "wire"}]
      /\ target' \in [Attempts -> Nodes \cup {None}]
  BY <1>a, <1>b, <1>c
<1>1. PodTypeOK'
  BY <1>b, <1>d DEF PodTypeOK
<1>2. \A a \in Attempts : a # next => phase'[a] = phase[a] /\ pc'[a] = pc[a] /\ target'[a] = target[a]
  BY <1>a, <1>c
<1>e. pc[next] = "none" /\ ~landed[next]
  BY <1>b DEF NotBegun
<1>3. phase'[next] \in {"webhook", "lost"} /\ pc'[next] \in {"none", "get"} /\ ~landed[next]
  BY <1>b, <1>c, <1>e
<1>4. FreshCopies'
  BY <1>2, <1>3 DEF FreshCopies, Holds
<1>5. OneLive'
  BY <1>2, <1>3 DEF OneLive, Live
<1>6. NotBegun'
  BY <1>2, BoundsAssumption DEF NotBegun, PodTypeOK
<1>7. Serving' /\ Unbound' /\ Bound'
  BY <1>2, <1>3, <1>1 DEF Serving, Unbound, Bound, NotBegun, PodTypeOK
<1>8. Kept'
  BY <1>2, <1>3 DEF Kept, Live
<1> QED
  BY <1>1, <1>4, <1>5, <1>6, <1>7, <1>8

\* Steps that only end an attempt or a handler.
LEMMA EndInv ==
    ASSUME PodInv,
           UNCHANGED <<pod, target, next, copy, stale, landed>>,
           PodTypeOK',
           \A a \in Attempts : phase'[a] \in {phase[a], "lost"}
                               \/ (phase[a] = "webhook" /\ phase'[a] = "storing" /\ pc'[a] = "none"),
           \A a \in Attempts : phase[a] = "none" => phase'[a] = "none",
           \A a \in Attempts : pc'[a] \in {pc[a], "none"} \/ (pc[a] = "update" /\ pc'[a] = "wire")
    PROVE  PodInv'
<1> USE DEF PodInv
<1>1. FreshCopies' /\ NotBegun' /\ Unbound' /\ Bound'
  BY DEF FreshCopies, NotBegun, Unbound, Bound, Holds
<1>2. OneLive'
  BY DEF OneLive, Live
<1>3. Serving'
  BY DEF Serving
<1>4. Kept'
  BY DEF Kept, Live, Holds
<1> QED
  BY <1>1, <1>2, <1>3, <1>4

\* A write by others, or of the binding, makes every copy out of date.
LEMMA OtherWriteFacts ==
    ASSUME PodInv, OtherWrite
    PROVE  /\ pod' \in Pods /\ pod'.node = pod.node /\ pod'.nodename = pod.nodename
           /\ pod'.other = pod.other + 1
<1>1. pod \in Pods
  BY DEF PodInv, PodTypeOK
<1>2. pod.other \in 0 .. MaxWrites /\ pod.other < MaxWrites
  BY <1>1 DEF Pods, OtherWrite
<1>3. PICK inject \in BOOLEAN : pod' = [pod EXCEPT !.other = @ + 1, !.inject = inject]
  BY DEF OtherWrite, WritePod
<1>4. pod.other + 1 \in 0 .. MaxWrites
  BY <1>2, BoundsAssumption
<1>5. pod' = [inject |-> inject, nodename |-> pod.nodename, node |-> pod.node, other |-> pod.other + 1]
  BY <1>1, <1>3 DEF Pods
<1> QED
  BY <1>1, <1>4, <1>5 DEF Pods

LEMMA OtherWriteInv == PodInv /\ OtherWrite => PodInv'
<1> SUFFICES ASSUME PodInv, OtherWrite PROVE PodInv'
  OBVIOUS
<1>1. /\ UNCHANGED <<attemptVars, pc, copy, landed, up>>
      /\ stale' = [a \in Attempts |-> TRUE]
  BY DEF OtherWrite, WritePod
<1>2. \A a \in Attempts : stale'[a]
  BY <1>1
<1> USE <1>1 DEF PodInv, attemptVars
<1>4. PodTypeOK'
  BY OtherWriteFacts DEF PodTypeOK
<1>5. FreshCopies' /\ OneLive' /\ NotBegun' /\ Serving'
  BY <1>2 DEF FreshCopies, OneLive, NotBegun, Serving, Live, Holds
<1>6. Unbound' /\ Bound' /\ Kept'
  BY <1>2, OtherWriteFacts DEF Unbound, Bound, Kept, Live, Holds
<1> QED
  BY <1>4, <1>5, <1>6

LEMMA StoreBindingInv == ASSUME PodInv, NEW a \in Attempts, StoreBinding(a) PROVE PodInv'
<1> USE DEF StoreBinding, WritePod
<1>1. CASE phase' = [phase EXCEPT ![a] = "lost"] /\ UNCHANGED <<pod, stale>>
  <2>1. PodTypeOK'
    BY <1>1 DEF PodInv, PodTypeOK
  <2> QED
    BY <1>1, <2>1, EndInv DEF PodInv, PodTypeOK
<1>2. CASE /\ target[a] # None
           /\ phase' = [phase EXCEPT ![a] = "bound"]
           /\ pod' = [pod EXCEPT !.node = target[a]]
           /\ stale' = [b \in Attempts |-> TRUE]
  <2> USE <1>2 DEF PodInv
  <2>1. pod' \in Pods /\ pod'.node = target[a] /\ pod'.nodename = pod.nodename
    BY DEF PodTypeOK, Pods
  <2>2. PodTypeOK'
    BY <2>1 DEF PodTypeOK
  <2>3. phase'[a] = "bound" /\ \A b \in Attempts : b # a => phase'[b] = phase[b]
    BY DEF PodTypeOK
  <2>4. \A b \in Attempts : b # a => ~Live(b)
    BY DEF OneLive, Live
  <2>5. FreshCopies' /\ NotBegun' /\ Serving'
    BY <2>3 DEF FreshCopies, NotBegun, Serving, Holds
  <2>6. OneLive' /\ Unbound' /\ Bound'
    BY <2>1, <2>3, <2>4 DEF OneLive, Unbound, Bound, Live
  <2>7. Kept'
    BY <2>1, <2>3, <2>4 DEF Kept, Live, Holds
  <2> QED
    BY <2>2, <2>5, <2>6, <2>7
<1> QED
  BY <1>1, <1>2

\* What Allow does to the attempt and its handler.
LEMMA AllowType ==
    ASSUME PodTypeOK, NEW a \in Attempts, Allow(a)
    PROVE  /\ phase' \in [Attempts -> {"none", "webhook", "storing", "bound", "lost"}]
           /\ pc' \in [Attempts -> {"none", "get", "update", "wire"}]
           /\ pc'[a] = "none"
           /\ phase'[a] = IF phase[a] = "webhook" THEN "storing" ELSE phase[a]
           /\ \A b \in Attempts : b # a => phase'[b] = phase[b] /\ pc'[b] = pc[b]
BY DEF PodTypeOK, Allow

\* A handler that only answers.
LEMMA AllowInv ==
    ASSUME PodInv, NEW a \in Attempts, Allow(a),
           UNCHANGED <<pod, target, next, copy, stale, landed, up>>
    PROVE  PodInv'
<1>1. PodTypeOK'
  BY AllowType DEF PodInv, PodTypeOK
<1> QED
  BY <1>1, AllowType, EndInv DEF PodInv

\* The copy is the pod as it is; no other attempt is waited for, so that none has
\* its annotation to lose.
LEMMA GetInv == ASSUME PodInv, NEW a \in Attempts, Get(a) PROVE PodInv'
<1> USE DEF PodInv, Get, Cancelled
<1>1. phase[a] = "webhook" /\ ~landed[a]
  BY DEF Serving
<1>2. /\ copy'[a] = pod /\ stale'[a] = FALSE
      /\ \A b \in Attempts : b # a => copy'[b] = copy[b] /\ stale'[b] = stale[b]
  BY DEF PodTypeOK
<1>3. /\ phase'[a] \in {"webhook", "storing"}
      /\ pc'[a] \in {"update", "none"}
      /\ pc'[a] = "update" => phase'[a] = "webhook"
      /\ \A b \in Attempts : b # a => phase'[b] = phase[b] /\ pc'[b] = pc[b]
  BY <1>1, AllowType DEF PodTypeOK
<1>4. PodTypeOK'
  BY AllowType DEF PodTypeOK
<1>5. FreshCopies'
  BY <1>2, <1>3 DEF FreshCopies, Holds
<1>6. OneLive'
  BY <1>1, <1>3 DEF OneLive, Live
<1>7. NotBegun' /\ Serving' /\ Unbound' /\ Bound'
  BY <1>1, <1>3 DEF NotBegun, Serving, Unbound, Bound
<1>8. Kept'
  BY <1>1, <1>3 DEF Kept, Live, OneLive
<1> QED
  BY <1>4, <1>5, <1>6, <1>7, <1>8

LEMMA SendInv == ASSUME PodInv, NEW a \in Attempts, Send(a) PROVE PodInv'
<1>1. CASE Cancelled(a)
  BY <1>1, AllowInv DEF Send
<1>2. CASE ~Cancelled(a)
  <2>1. PodTypeOK'
    BY <1>2 DEF Send, PodInv, PodTypeOK
  <2> QED
    BY <1>2, <2>1, EndInv DEF Send, PodInv, PodTypeOK
<1> QED
  BY <1>1, <1>2

\* An accepted update writes the pod back as it is, but for the annotation.
LEMMA UpdateFacts ==
    ASSUME PodInv, NEW a \in Attempts, Update(a)
    PROVE  /\ pod' \in Pods /\ pod'.nodename = target[a]
           /\ pod'.node = pod.node /\ pod'.other = pod.other /\ pod'.inject = pod.inject
<1>1. copy[a] = pod
  BY DEF PodInv, Update, FreshCopies, Holds
<1>2. pod' = [pod EXCEPT !.nodename = target[a]]
  BY <1>1 DEF Update, WritePod
<1> QED
  BY <1>2 DEF PodInv, PodTypeOK, Pods

LEMMA UpdateInv == ASSUME PodInv, NEW a \in Attempts, Update(a) PROVE PodInv'
<1> USE DEF PodInv, Update, WritePod
<1>1. phase[a] \in {"webhook", "lost"}
  BY DEF Serving
<1>2. /\ landed'[a] = TRUE
      /\ \A b \in Attempts : b # a => landed'[b] = landed[b]
      /\ \A b \in Attempts : stale'[b]
  BY DEF PodTypeOK
<1>3. /\ pc'[a] = "none"
      /\ phase'[a] = IF phase[a] = "webhook" THEN "storing" ELSE phase[a]
      /\ \A b \in Attempts : b # a => phase'[b] = phase[b] /\ pc'[b] = pc[b]
  BY AllowType
<1>4. PodTypeOK'
  BY UpdateFacts, AllowType DEF PodTypeOK
<1>5. FreshCopies'
  BY <1>2 DEF FreshCopies
<1>6. OneLive'
  BY <1>3 DEF OneLive, Live
<1>7. NotBegun' /\ Serving'
  BY <1>1, <1>2, <1>3 DEF NotBegun, Serving
<1>8. Unbound' /\ Bound'
  BY <1>1, <1>3, UpdateFacts DEF Unbound, Bound
<1>9. Kept'
  \* an attempt with an accepted annotation is not lost, so a is not stale: there is none but a
  <2>1. \A b \in Attempts : b # a => ~(landed[b] /\ Live(b))
    BY DEF Kept, Holds
  <2> QED
    BY <1>2, <1>3, <2>1, UpdateFacts DEF Kept, Live
<1> QED
  BY <1>4, <1>5, <1>6, <1>7, <1>8, <1>9

LEMMA CrashInv == PodInv /\ Crash => PodInv'
<1> SUFFICES ASSUME PodInv, Crash PROVE PodInv'
  OBVIOUS
<1>1. PodTypeOK'
  BY DEF PodInv, PodTypeOK, Crash
<1> QED
  BY <1>1, EndInv DEF Crash, PodInv, PodTypeOK

\* Every step preserves the invariant.
LEMMA StepInv == PodInv /\ [Next]_vars => PodInv'
<1> SUFFICES ASSUME PodInv, [Next]_vars PROVE PodInv'
  OBVIOUS
<1>1. CASE Bind
  BY <1>1, BindInv
<1>2. CASE OtherWrite
  BY <1>2, OtherWriteInv
<1>3. CASE Crash
  BY <1>3, CrashInv
<1>4. CASE Restart
  <2>1. PodTypeOK'
    BY <1>4 DEF Restart, PodInv, PodTypeOK, attemptVars
  <2> QED
    BY <1>4, <2>1, EndInv DEF Restart, attemptVars
<1>5. ASSUME NEW a \in Attempts, Timeout(a) PROVE PodInv'
  <2>1. PodTypeOK'
    BY <1>5 DEF Timeout, PodInv, PodTypeOK
  <2> QED
    BY <1>5, <2>1, EndInv DEF Timeout, PodInv, PodTypeOK
<1>6. ASSUME NEW a \in Attempts, GetFails(a) \/ UpdateFails(a) PROVE PodInv'
  BY <1>6, AllowInv DEF GetFails, UpdateFails
<1>7. CASE UNCHANGED vars
  <2>1. PodTypeOK'
    BY <1>7 DEF vars, attemptVars, PodInv, PodTypeOK
  <2> QED
    BY <1>7, <2>1, EndInv DEF vars, attemptVars
<1> QED
  BY <1>1, <1>2, <1>3, <1>4, <1>5, <1>6, <1>7, StoreBindingInv, GetInv, SendInv, UpdateInv DEF Next

\* PodInv is an invariant of the specification.
LEMMA Invariance == Spec => []PodInv
BY InitInv, StepInv, PTL DEF Spec

\* The variables keep their types.
THEOREM PodTypes == Spec => []PodTypeOK
<1>1. PodInv => PodTypeOK
  BY DEF PodInv
<1> QED
  BY <1>1, Invariance, PTL

\* If the attempt that bound the pod got its annotation accepted, the annotation
\* names the node the pod runs on, whatever handlers of earlier attempts still do.
THEOREM AnnotationKept == Spec => []AnnotationHolds
<1>1. PodInv => AnnotationHolds
  BY DEF PodInv, AnnotationHolds, Bound, Kept, Live
<1> QED
  BY <1>1, Invariance, PTL

\* No step takes back a write of others or the binding.
LEMMA StepUndoesNothing ==
    PodInv /\ [Next]_vars =>
        [/\ pod'.other >= pod.other
         /\ pod'.other = pod.other => pod'.inject = pod.inject
         /\ pod.node # None => pod'.node = pod.node]_vars
<1> SUFFICES ASSUME PodInv, Next
             PROVE  /\ pod'.other >= pod.other
                    /\ pod'.other = pod.other => pod'.inject = pod.inject
                    /\ pod.node # None => pod'.node = pod.node
  OBVIOUS
<1>0. pod.other \in Nat
  BY BoundsAssumption DEF PodInv, PodTypeOK, Pods
<1>1. CASE UNCHANGED pod
  BY <1>0, <1>1
<1>2. CASE OtherWrite
  BY <1>0, <1>2, OtherWriteFacts
<1>3. ASSUME NEW a \in Attempts, StoreBinding(a), pod' # pod PROVE pod' = [pod EXCEPT !.node = target[a]] /\ pod.node = None
  BY <1>3 DEF StoreBinding, WritePod, PodInv, Unbound
<1>4. ASSUME NEW a \in Attempts, StoreBinding(a), pod' # pod
      PROVE pod'.other = pod.other /\ pod'.inject = pod.inject /\ pod.node = None
  BY <1>3, <1>4 DEF PodInv, PodTypeOK, Pods
<1>5. ASSUME NEW a \in Attempts, Update(a)
      PROVE pod'.other = pod.other /\ pod'.inject = pod.inject /\ pod'.node = pod.node
  BY <1>5, UpdateFacts
<1>6. \/ UNCHANGED pod \/ OtherWrite
      \/ \E a \in Attempts : (StoreBinding(a) /\ pod' # pod) \/ Update(a)
  BY DEF Next, Bind, Crash, Restart, Timeout, GetFails, Get, Send, UpdateFails
<1> QED
  BY <1>0, <1>1, <1>2, <1>4, <1>5, <1>6

\* The handlers' updates of the whole pod undo no write.
THEOREM NothingUndone == Spec => NoWriteUndone
BY Invariance, StepUndoesNothing, PTL DEF Spec, NoWriteUndone

\* An attempt that is waited for has its handler.
AtWork == \A a \in Attempts : phase[a] = "webhook" => pc[a] # "none"

LEMMA AtWorkStep == PodInv /\ AtWork /\ [Next]_vars => AtWork'
<1> SUFFICES ASSUME PodInv, AtWork, [Next]_vars PROVE AtWork'
  OBVIOUS
<1> USE DEF AtWork
<1>0. /\ PodTypeOK
      /\ phase \in [Attempts -> {"none", "webhook", "storing", "bound", "lost"}]
      /\ pc \in [Attempts -> {"none", "get", "update", "wire"}]
  BY DEF PodInv, PodTypeOK
<1>1. CASE Bind
  BY <1>0, <1>1 DEF Bind
<1>2. CASE OtherWrite \/ Restart \/ UNCHANGED vars
  BY <1>2 DEF OtherWrite, Restart, attemptVars, vars
<1>3. CASE Crash
  \* the handlers and the connections they would answer on go together
  BY <1>0, <1>3 DEF Crash
<1>4. ASSUME NEW a \in Attempts, Timeout(a) \/ StoreBinding(a) PROVE AtWork'
  BY <1>0, <1>4 DEF Timeout, StoreBinding
<1>5. ASSUME NEW a \in Attempts, Allow(a) PROVE AtWork'
  BY <1>0, <1>5, AllowType
<1>6. ASSUME NEW a \in Attempts, Get(a) PROVE AtWork'
  BY <1>0, <1>5, <1>6 DEF Get
<1>7. ASSUME NEW a \in Attempts, Send(a) PROVE AtWork'
  BY <1>0, <1>5, <1>7 DEF Send
<1>8. ASSUME NEW a \in Attempts, GetFails(a) \/ UpdateFails(a) \/ Update(a) PROVE AtWork'
  BY <1>5, <1>8 DEF GetFails, UpdateFails, Update
<1> QED
  BY <1>1, <1>2, <1>3, <1>4, <1>6, <1>7, <1>8 DEF Next

\* Nobody waits for an answer no handler is going to give, and while one is
\* waited for the pod is not bound: what is left of NeverHeldUp is that handlers
\* go on.
THEOREM AnswersToCome == Spec => []WaitedForIsServed
<1>1. Init => AtWork
  BY DEF Init, AtWork
<1>2. PodInv /\ AtWork => WaitedForIsServed
  BY DEF PodInv, Unbound, AtWork, WaitedForIsServed
<1> QED
  BY <1>1, <1>2, AtWorkStep, Invariance, PTL DEF Spec

============================================================================
