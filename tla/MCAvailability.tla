--------------------------- MODULE MCAvailability ---------------------------
(***************************************************************************)
(* Availability with room for two replicas and the one more of a rollout.  *)
(***************************************************************************)
EXTENDS Availability

MCSlots == {"a", "b", "c"}
=============================================================================
