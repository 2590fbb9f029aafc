---------------------------- MODULE MCLifecycle ----------------------------
(***************************************************************************)
(* The two applications, under every setting of the flags.  NewKubeModWebApp *)
(* always returns a nil error; all errors of the operator are returned.    *)
(* controller-runtime's handler exits the process at the second signal.    *)
(***************************************************************************)
EXTENDS Lifecycle

MCApps == {"operator", "webapp"}
MCFallible == {"operator"}
MCInsistent == {"operator"}
============================================================================
