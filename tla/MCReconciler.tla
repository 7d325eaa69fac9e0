---------------------------- MODULE MCReconciler ----------------------------
(* A shim that is valid or has a broken file list, and two replicas.       *)
EXTENDS Reconciler

Valid == [c \in Checks |-> TRUE]

MCSpecs == {Valid, [Valid EXCEPT !["files"] = FALSE]}
MCPodCounts == 0..1

=============================================================================
