--------------------------- MODULE AdmissionRules ---------------------------
(***************************************************************************)
(* What the webhook decides on: the objects of the API server as Handle    *)
(* reads them, one pod's request, and which shims the pod should get.      *)
(*                                                                         *)
(* A shim's name is its position in the alphabet.  How a plan is built and *)
(* applied is in Planning and Injection; here a plan is the shim and the   *)
(* value of its parameter, building it fails without a value, and Apply    *)
(* skips it when an earlier plan has its name or its token path.           *)
(***************************************************************************)
EXTENDS Selection

CONSTANTS
  Requests,         \* pods to create, each with its namespace
  Stores,           \* what the API server may hold at first
  Versions,         \* what users may change each resource to
  ExcludedNames,    \* Options.ExcludedNamespaceNames
  ExcludedPrefixes, \* Options.ExcludedNamespacePrefixes
  NoValue,          \* a parameter without a value
  Failed            \* the result of a read that failed

(* The resources that are read through the cache.                          *)
Informers == {"namespace", "serviceAccount", "oidcshims", "clusteroidcshims"}
Resources == Informers \cup {"configMap"}

ASSUME StoresTyped ==
  /\ Stores # {}
  /\ \A s \in Stores : s = [k \in Resources |-> s[k]]
  /\ DOMAIN Versions = Resources

(* What the API server may hold of a resource.                             *)
Contents(k) == {s[k] : s \in Stores} \cup Versions[k]

(* It holds one object of a kind under a name.                             *)
Unique(shims, cluster) ==
  \A a, b \in shims :
    a.cluster = cluster /\ a.name \in Nat /\ (a.name = b.name => a = b)

ASSUME NamesUnique ==
  /\ \A shims \in Contents("oidcshims") : Unique(shims, FALSE)
  /\ \A shims \in Contents("clusteroidcshims") : Unique(shims, TRUE)

-----------------------------------------------------------------------------
(* One pod and one shim.                                                   *)

(* Why Handle leaves a pod alone without reading anything.                 *)
Exempt(req) ==
  \/ OptedOut(req.pod)
  \/ req.pod.injected
  \/ Excluded(ExcludedNames, ExcludedPrefixes, req.namespace)

Target(req, namespace, serviceAccount) ==
  [pod |-> req.pod, serviceAccount |-> serviceAccount, namespace |-> namespace]

(* The parameter looked up on the pod, its ServiceAccount, its Namespace.  *)
Lookup(t) ==
  IF t.pod.param # NoValue THEN t.pod.param
  ELSE IF t.serviceAccount.param # NoValue THEN t.serviceAccount.param
  ELSE t.namespace.param

Value(s, t, read) ==
  CASE s.source = "static" -> s.source
    [] s.source = "annotation" -> Lookup(t)
    [] s.source = "configMap" -> read

Selected(s, t) == ~compileFails(s.selection) /\ Matches(s, t)

HasPlan(s, t, read) == Selected(s, t) /\ Value(s, t, read) \notin {NoValue, Failed}

PlanOf(s, t, read) == [shim |-> s, value |-> Value(s, t, read)]

MutGroupsOnly(a, b) == ~a.cluster /\ b.cluster

(* listShims: the shims of the namespace first, each group by name.        *)
Before(a, b) ==
  \/ ~a.cluster /\ b.cluster
  \/ a.cluster = b.cluster /\ a.name < b.name

(* What Apply refuses to add to a pod that has the other shim.             *)
Conflicts(a, b) == a.name = b.name \/ a.path = b.path

-----------------------------------------------------------------------------
(* What a pod should get when the four resources and, for every shim, the  *)
(* ConfigMap are as given: of the plans that can be built each one that no *)
(* injected plan before it stands against.                                 *)

Listed(store) == store.oidcshims \cup store.clusteroidcshims

Buildable(store, req, read) ==
  LET t == Target(req, store.namespace, store.serviceAccount)
  IN  {PlanOf(s, t, read[s]) : s \in {x \in Listed(store) : HasPlan(x, t, read[x])}}

IsExpected(plans, store, req, read) ==
  IF Exempt(req) THEN plans = {}
  ELSE /\ plans \subseteq Buildable(store, req, read)
       /\ \A p \in Buildable(store, req, read) :
            p \in plans <=>
              ~\E q \in plans : Before(q.shim, p.shim) /\ Conflicts(q.shim, p.shim)

=============================================================================
