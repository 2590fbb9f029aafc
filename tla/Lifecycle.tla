----------------------------- MODULE Lifecycle -----------------------------
(***************************************************************************)
(* run of main.go: one goroutine per application, an unbuffered error      *)
(* channel with a goroutine that pumps it into a list, a WaitGroup, and    *)
(* the main goroutine that closes the channel and joins the pump.  Each    *)
(* application registers a signal handler of its own when it gets there,   *)
(* and sees only the signals that come after that.                         *)
(***************************************************************************)
EXTENDS FiniteSets

CONSTANTS
    Apps,       \* the applications: operator and web app
    Fallible,   \* those whose initializer may return an error
    Insistent   \* those whose handler ends the process at a second signal

VARIABLES
    enabled,    \* the applications the flags ask for
    handlers,   \* the applications that have registered for SIGTERM and SIGINT
    reached,    \* those whose handler has been given a signal
    app,        \* per goroutine: "init", "starting", "serving", "sending",
                \* "leaving" or "done"
    closed,     \* errChan is closed
    pump,       \* the pump: "range", "append", "sending" or "done"
    received,   \* the application whose error the pump has in hand, as a set
    main,       \* the main goroutine: "wait", "join", "returned", or "killed"
                \* with the process
    errors,     \* the applications whose error the pump has appended
    failed      \* history: the applications that failed

vars == <<enabled, handlers, reached, app, closed, pump, received, main, errors, failed>>

ASSUME FallibleAssumption == Fallible \subseteq Apps /\ Insistent \subseteq Apps

----------------------------------------------------------------------------
\* Variants: the deferred wg.Done() is missing where an application is skipped,
\* an application that does not leave on the signal, a channel closed without
\* waiting or not at all, a list read without joining the pump.
StartWithoutDone(a) ==
    /\ app[a] = "init"
    /\ app' = [app EXCEPT ![a] = IF a \in enabled THEN "starting" ELSE "skipped"]
    /\ UNCHANGED <<enabled, handlers, reached, closed, pump, received, main, errors, failed>>

StopIgnored(a) == app[a] = "serving" /\ a \in reached /\ UNCHANGED vars

CloseEarly ==
    /\ main = "wait"
    /\ main' = "join"
    /\ closed' = TRUE
    /\ UNCHANGED <<enabled, handlers, reached, app, pump, received, errors, failed>>

CloseForgotten ==
    /\ main = "wait" /\ \A a \in Apps : app[a] = "done"
    /\ main' = "join"
    /\ UNCHANGED <<enabled, handlers, reached, app, closed, pump, received, errors, failed>>

JoinEarly ==
    /\ main = "join"
    /\ main' = "returned"
    /\ UNCHANGED <<enabled, handlers, reached, app, closed, pump, received, errors, failed>>

----------------------------------------------------------------------------
\* The goroutine of an application calls the initializer, or skips it.
Start(a) ==
    /\ app[a] = "init"
    /\ app' = [app EXCEPT ![a] = IF a \in enabled THEN "starting" ELSE "leaving"]
    /\ UNCHANGED <<enabled, handlers, reached, closed, pump, received, main, errors, failed>>

\* signal.Notify(quit, ...) of the web app, ctrl.SetupSignalHandler() of the
\* operator, once the application is wired; it serves from then on.
Register(a) ==
    /\ app[a] = "starting"
    /\ app' = [app EXCEPT ![a] = "serving"]
    /\ handlers' = handlers \cup {a}
    /\ UNCHANGED <<enabled, reached, closed, pump, received, main, errors, failed>>

\* The initializer returns an error: while it wires the application or later.
Fail(a) ==
    /\ a \in Fallible /\ app[a] \in {"starting", "serving"}
    /\ app' = [app EXCEPT ![a] = "sending"]
    /\ failed' = failed \cup {a}
    /\ UNCHANGED <<enabled, handlers, reached, closed, pump, received, main, errors>>

\* ctrl.GetConfigOrDie() finds no configuration and exits the process.
Die(a) ==
    /\ a \in Fallible /\ app[a] = "starting"
    /\ main' = "killed"
    /\ UNCHANGED <<enabled, handlers, reached, app, closed, pump, received, errors, failed>>

\* The initializer returns once a signal has reached its own handler.
Stop(a) ==
    /\ app[a] = "serving" /\ a \in reached
    /\ app' = [app EXCEPT ![a] = "leaving"]
    /\ UNCHANGED <<enabled, handlers, reached, closed, pump, received, main, errors, failed>>

\* errChan <- err meets the pump's range; on a closed channel it would panic.
Send(a) ==
    /\ app[a] = "sending" /\ pump = "range" /\ ~closed
    /\ app' = [app EXCEPT ![a] = "leaving"]
    /\ pump' = "append" /\ received' = {a}
    /\ UNCHANGED <<enabled, handlers, reached, closed, main, errors, failed>>

\* The deferred wg.Done().
Done(a) ==
    /\ app[a] = "leaving"
    /\ app' = [app EXCEPT ![a] = "done"]
    /\ UNCHANGED <<enabled, handlers, reached, closed, pump, received, main, errors, failed>>

----------------------------------------------------------------------------
\* wg.Wait() returns and the channel is closed.
Close ==
    /\ main = "wait" /\ \A a \in Apps : app[a] = "done"
    /\ main' = "join"
    /\ closed' = TRUE
    /\ UNCHANGED <<enabled, handlers, reached, app, pump, received, errors, failed>>

\* The body of the pump's loop.
PumpAppend ==
    /\ pump = "append"
    /\ errors' = errors \cup received
    /\ pump' = "range" /\ received' = {}
    /\ UNCHANGED <<enabled, handlers, reached, app, closed, main, failed>>

\* The range ends on the closed channel.
PumpEnd ==
    /\ pump = "range" /\ closed
    /\ pump' = "sending"
    /\ UNCHANGED <<enabled, handlers, reached, app, closed, received, main, errors, failed>>

\* done <- true meets <-errorPumpDone; run returns the errors.
Join ==
    /\ main = "join" /\ pump = "sending"
    /\ main' = "returned" /\ pump' = "done"
    /\ UNCHANGED <<enabled, handlers, reached, app, closed, received, errors, failed>>

\* SIGTERM or SIGINT.  The handlers registered so far are given it and keep it;
\* an application that registers later does not see it.  Without any handler the
\* signal ends the process, and so does the second one for an insistent handler.
\* Handlers stay registered when their application has ended.
Signal ==
    /\ main \in {"wait", "join"}
    /\ reached' = reached \cup handlers
    /\ main' = IF handlers = {} \/ reached \cap Insistent # {} THEN "killed" ELSE main
    /\ UNCHANGED <<enabled, handlers, app, closed, pump, received, errors, failed>>

\* The process has exited.
Exited == main \in {"returned", "killed"} /\ UNCHANGED vars

----------------------------------------------------------------------------
Init ==
    /\ enabled \in SUBSET Apps
    /\ handlers = {} /\ reached = {}
    /\ app = [a \in Apps |-> "init"]
    /\ closed = FALSE /\ pump = "range" /\ received = {} /\ main = "wait"
    /\ errors = {} /\ failed = {}

AppStep(a) == Start(a) \/ Stop(a) \/ Send(a) \/ Done(a)
PumpStep == PumpAppend \/ PumpEnd

\* Goroutines run until the process ends.
Alive == main # "killed"

Next ==
    \/ \E a \in Apps : Alive /\ (AppStep(a) \/ Register(a) \/ Fail(a) \/ Die(a))
    \/ Alive /\ PumpStep
    \/ Close \/ Join
    \/ Signal \/ Exited

Spec == Init /\ [][Next]_vars

\* Every goroutine that can go on does.  No application has to get as far as to
\* register or has to fail, and no signal has to come.
FairSpec ==
    /\ Spec
    /\ \A a \in Apps : WF_vars(Alive /\ AppStep(a))
    /\ WF_vars(Close) /\ WF_vars(Alive /\ PumpStep) /\ WF_vars(Join)

----------------------------------------------------------------------------
(* Properties                                                              *)

LifecycleTypeOK ==
    /\ enabled \subseteq Apps /\ received \subseteq Apps
    /\ errors \subseteq Apps /\ failed \subseteq Apps
    /\ handlers \subseteq Apps /\ reached \subseteq handlers /\ closed \in BOOLEAN
    /\ app \in [Apps -> {"init", "starting", "serving", "sending", "leaving", "done"}]
    /\ pump \in {"range", "append", "sending", "done"}
    /\ main \in {"wait", "join", "returned", "killed"}

\* No application sends on the closed error channel, which would panic.
NoSendOnClosed == closed => \A a \in Apps : app[a] # "sending"

\* run reports every error of every application and no other: the pump has
\* received them all before the list is read.
NoErrorLost == main = "returned" => errors = failed

\* One of the goroutines can go on by itself: the guards of their steps.
CanGoOn ==
    \/ \E a \in Apps : \/ app[a] \in {"init", "starting", "leaving"}
                       \/ app[a] = "serving" /\ a \in reached
                       \/ app[a] = "sending" /\ pump = "range" /\ ~closed
    \/ main = "wait" /\ \A a \in Apps : app[a] = "done"
    \/ pump = "append"
    \/ pump = "range" /\ closed
    \/ main = "join" /\ pump = "sending"

\* Main waits for the applications, an application for the pump, the pump for the
\* close, main for the pump, but never all of them for each other: run stands
\* still only for an application that serves and that no signal has reached since
\* it registered its handler.  (One such application is enough, whatever the
\* others were told: a signal that comes before the operator's
\* SetupSignalHandler ends the web app alone.)
NoneStuck ==
    \/ main \in {"returned", "killed"} \/ CanGoOn
    \/ \E a \in Apps : app[a] = "serving" /\ a \notin reached

\* The process ends once every application that the flags ask for has been
\* reached by a signal of its own or has ended by itself: the shutdown of one
\* does not wait for that of another, nor for the pump.
Returns ==
    (\A a \in enabled : a \in reached \/ app[a] \in {"sending", "leaving", "done"})
        ~> main \in {"returned", "killed"}

============================================================================
