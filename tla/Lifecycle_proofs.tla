-------------------------- MODULE Lifecycle_proofs --------------------------
(***************************************************************************)
(* run never sends on the closed channel and loses no error, for any       *)
(* number of applications.                                                 *)
(***************************************************************************)
EXTENDS Lifecycle, TLAPS

\* An error that has not been appended is still being sent or in the pump's hand.
ErrorsInv ==
    /\ errors \subseteq failed /\ received \subseteq failed
    /\ \A a \in Apps : app[a] = "sending" => a \in failed
    /\ \A a \in Apps : a \in failed =>
          a \in errors \/ app[a] = "sending" \/ (pump = "append" /\ a \in received)

\* The channel is closed only after every goroutine is done, the pump ends only
\* after that, and run returns when it has.
LifecycleInv ==
    /\ LifecycleTypeOK
    /\ closed => \A a \in Apps : app[a] = "done"
    /\ main = "wait" => ~closed
    /\ main \in {"join", "returned"} => closed
    /\ main = "returned" <=> pump = "done"
    /\ pump = "sending" => closed
    /\ ErrorsInv

LEMMA LifecycleStep ==
  ASSUME LifecycleInv, [Next]_vars
  PROVE  LifecycleInv'
<1> USE DEF LifecycleInv, LifecycleTypeOK, ErrorsInv
<1>1. ASSUME NEW a \in Apps, Start(a) PROVE LifecycleInv'
  BY <1>1 DEF Start
<1>2. ASSUME NEW a \in Apps, Fail(a) PROVE LifecycleInv'
  <2>1. /\ app[a] \in {"starting", "serving"} /\ app' = [app EXCEPT ![a] = "sending"]
        /\ failed' = failed \cup {a}
        /\ UNCHANGED <<enabled, handlers, reached, closed, pump, received, main, errors>>
    BY <1>2 DEF Fail
  <2>2. ~closed /\ main \notin {"join", "returned"}
    BY <2>1
  <2>3. LifecycleTypeOK'
    BY <2>1
  <2>4. ErrorsInv'
    BY <2>1
  <2> QED
    BY <2>1, <2>2, <2>3, <2>4
<1>3. ASSUME NEW a \in Apps, Stop(a) PROVE LifecycleInv'
  BY <1>3 DEF Stop
<1>4. ASSUME NEW a \in Apps, Send(a) PROVE LifecycleInv'
  <2>1. /\ app[a] = "sending" /\ app' = [app EXCEPT ![a] = "leaving"]
        /\ pump = "range" /\ pump' = "append" /\ received' = {a}
        /\ UNCHANGED <<enabled, handlers, reached, closed, main, errors, failed>>
    BY <1>4 DEF Send
  <2>2. ~closed /\ main \notin {"join", "returned"}
    BY <2>1
  <2>3. LifecycleTypeOK'
    BY <2>1
  <2>4. ErrorsInv'
    BY <2>1
  <2> QED
    BY <2>1, <2>2, <2>3, <2>4
<1>5. ASSUME NEW a \in Apps, Done(a) PROVE LifecycleInv'
  BY <1>5 DEF Done
<1>6. CASE Close
  BY <1>6 DEF Close
<1>7. CASE PumpAppend \/ PumpEnd
  BY <1>7 DEF PumpAppend, PumpEnd
<1>8. CASE Join
  BY <1>8 DEF Join
<1>9. CASE Signal
  BY <1>9 DEF Signal
<1>10. CASE UNCHANGED vars
  BY <1>10 DEF vars
<1>11. ASSUME NEW a \in Apps, Register(a) PROVE LifecycleInv'
  BY <1>11 DEF Register
<1>12. ASSUME NEW a \in Apps, Die(a) PROVE LifecycleInv'
  BY <1>12 DEF Die
<1> QED
  BY <1>1, <1>2, <1>3, <1>4, <1>5, <1>6, <1>7, <1>8, <1>9, <1>10, <1>11, <1>12
     DEF Next, AppStep, PumpStep, Exited

\* The inductive invariant of run.
THEOREM LifecycleInvariance == Spec => []LifecycleInv
<1>1. Init => LifecycleInv
  BY DEF Init, LifecycleInv, LifecycleTypeOK, ErrorsInv
<1>2. LifecycleInv /\ [Next]_vars => LifecycleInv'
  BY LifecycleStep
<1> QED
  BY <1>1, <1>2, PTL DEF Spec

\* The goroutines of run are always in one of their states, and only errors of
\* applications reach the pump and the list.
THEOREM LifecycleTypes == Spec => []LifecycleTypeOK
<1>1. LifecycleInv => LifecycleTypeOK
  BY DEF LifecycleInv
<1> QED
  BY <1>1, LifecycleInvariance, PTL

\* No goroutine of run sends on errChan after close(errChan).
THEOREM ChannelSafe == Spec => []NoSendOnClosed
<1>1. LifecycleInv => NoSendOnClosed
  BY DEF LifecycleInv, NoSendOnClosed
<1> QED
  BY <1>1, LifecycleInvariance, PTL

\* When run returns it has the error of every application that failed.
THEOREM ErrorsReported == Spec => []NoErrorLost
<1>1. LifecycleInv => NoErrorLost
  <2> SUFFICES ASSUME LifecycleInv, main = "returned"
               PROVE  failed \subseteq errors
    BY DEF LifecycleInv, ErrorsInv, NoErrorLost
  <2>1. \A a \in Apps : app[a] = "done"
    BY DEF LifecycleInv
  <2> QED
    BY <2>1 DEF LifecycleInv, LifecycleTypeOK, ErrorsInv
<1> QED
  BY <1>1, LifecycleInvariance, PTL

\* For any number of applications that share the one channel and the one pump,
\* run stands still only for an application that serves and has not been reached
\* by a signal: never because the goroutines all wait for each other, and never
\* for an application whose own handler has been given one.
THEOREM NoDeadlock == Spec => []NoneStuck
<1>1. LifecycleInv => NoneStuck
  <2> SUFFICES ASSUME LifecycleInv, main \notin {"returned", "killed"},
                      \A a \in Apps : app[a] = "serving" => a \in reached
               PROVE  CanGoOn
    BY DEF NoneStuck
  <2>1. \A a \in Apps : app[a] \in {"init", "starting", "serving", "sending", "leaving", "done"}
    BY DEF LifecycleInv, LifecycleTypeOK
  <2>2. CASE \A a \in Apps : app[a] = "done"
    \* main is waiting and closes, or has closed and the pump ends
    BY <2>2 DEF LifecycleInv, LifecycleTypeOK, CanGoOn
  <2>3. CASE \E a \in Apps : app[a] # "done"
    <3>1. PICK a \in Apps : app[a] # "done"
      BY <2>3
    <3>2. ~closed /\ pump \in {"range", "append"}
      BY <3>1 DEF LifecycleInv, LifecycleTypeOK
    <3> QED
      BY <2>1, <3>1, <3>2 DEF CanGoOn
  <2> QED
    BY <2>2, <2>3
<1> QED
  BY <1>1, LifecycleInvariance, PTL

============================================================================
