----------------------------- MODULE ShimStatus -----------------------------
(***************************************************************************)
(* A shim object and the status the controllers report on it.  OIDCShim    *)
(* and ClusterOIDCShim share reconcileShim and differ in nothing here.     *)
(***************************************************************************)
EXTENDS Integers

CONSTANTS Specs  \* the specs users write: which of validateShim's checks pass

Checks == {"name", "parameters", "selection", "token", "helper", "templates", "files"}

ASSUME SpecsTyped == Specs \subseteq [Checks -> BOOLEAN]

(* The problems that validateShim joins into one error.                    *)
validateShim(spec) == {c \in Checks : ~spec[c]}

Unset == -1 \* matchedPods before the first successful count

(* observed is observedGeneration, of the status and of its condition;     *)
(* Ready is reported once observed is not 0 and is True without problems.  *)
Status == [observed : Nat, problems : SUBSET Checks, matched : Nat \cup {Unset}]
NoStatus == [observed |-> 0, problems |-> {}, matched |-> Unset]

Shim == [uid : Nat, gen : Nat, spec : [Checks -> BOOLEAN], status : Status]
Absent == [uid |-> 0, gen |-> 0, spec |-> [c \in Checks |-> TRUE], status |-> NoStatus]
Present(shim) == shim.uid # 0

NewShim(id, s) == [uid |-> id, gen |-> 1, spec |-> s, status |-> NoStatus]

(* An update of the spec bumps the generation; the status subresource      *)
(* keeps the status out of a user's update.                                *)
Edited(shim, s) == [shim EXCEPT !.spec = s, !.gen = @ + 1]

MutCountErrorClears(shim, count) ==
  [observed |-> shim.gen, problems |-> validateShim(shim.spec), matched |-> count]

(* The status reconcileShim computes from a shim and a pod count, Unset    *)
(* when counting failed.                                                   *)
Reconciled(shim, count) ==
  [observed |-> shim.gen,
   problems |-> validateShim(shim.spec),
   matched |-> IF count = Unset THEN shim.status.matched ELSE count]

=============================================================================
