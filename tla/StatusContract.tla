--------------------------- MODULE StatusContract ---------------------------
(***************************************************************************)
(* What the controllers promise about a shim's status, without caches,     *)
(* queues, replicas and conflicts: a status appears in one step, as the    *)
(* verdict on the spec that the shim has at that moment.                   *)
(***************************************************************************)
EXTENDS ShimStatus

VARIABLE object \* the shim stored under one name, or Absent

Init == object = Absent

Create ==
  /\ ~Present(object)
  /\ Present(object')
  /\ \E s \in Specs : object' = NewShim(object'.uid, s)

Edit ==
  /\ Present(object)
  /\ \E s \in Specs : object' = Edited(object, s)

Delete ==
  /\ Present(object)
  /\ object' = Absent

Publish ==
  /\ Present(object)
  /\ object' = [object EXCEPT !.status = Reconciled(object, object'.status.matched)]

Next == Create \/ Edit \/ Delete \/ Publish

Spec == Init /\ [][Next]_object

=============================================================================
