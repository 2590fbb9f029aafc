--------------------------- MODULE MCPodBinding ---------------------------
(***************************************************************************)
(* Three attempts to bind one pod to one of two nodes, so that a retry can *)
(* overtake the update of an earlier attempt; two writes of others.        *)
(***************************************************************************)
EXTENDS PodBinding

MCNodes == {"n1", "n2"}
============================================================================
