-------------------------- MODULE AdmissionContract --------------------------
(***************************************************************************)
(* What the webhook promises about the pods that get created: each one has *)
(* what the rules give for its request, decided in one step on a state of  *)
(* every resource that the API server held at some time, and keeps it.     *)
(* The resources need not be of the same moment.                           *)
(***************************************************************************)
EXTENDS AdmissionRules

VARIABLES
  log,     \* the contents of the API server
  request, \* the pod that is created, with its namespace
  created  \* whether the pod exists, and with which shims

Init ==
  /\ log \in {<<s>> : s \in Stores}
  /\ request \in Requests
  /\ created = [exists |-> FALSE, shims |-> {}]

Change ==
  /\ \E k \in Resources : \E v \in Versions[k] :
       log' = Append(log, [log[Len(log)] EXCEPT ![k] = v])
  /\ UNCHANGED <<request, created>>

(* The resources as a handler reads them, each at a moment of its own.     *)
View(m) == [k \in Resources |-> IF k \in Informers THEN log[m[k]][k] ELSE NoValue]

(* The ConfigMap is read for each shim apart.                              *)
Reads == {log[j].configMap : j \in DOMAIN log} \cup {Failed}

Create ==
  /\ ~created.exists /\ created'.exists
  /\ \E m \in [Informers -> DOMAIN log] :
       \E read \in [Listed(View(m)) -> Reads] :
         IsExpected(created'.shims, View(m), request, read)
  /\ UNCHANGED <<log, request>>

Delete ==
  /\ created.exists
  /\ created' = [exists |-> FALSE, shims |-> {}]
  /\ UNCHANGED <<log, request>>

Next == Change \/ Create \/ Delete

Spec == Init /\ [][Next]_<<log, request, created>>

=============================================================================
