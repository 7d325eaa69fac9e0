----------------------------- MODULE Admission -----------------------------
(***************************************************************************)
(* internal/webhook/pod, Handle: pods of one template are created, refused *)
(* and recreated while users change the Namespace, the ServiceAccount, the *)
(* shims and a ConfigMap.  Every replica answers from caches of its own    *)
(* that lag behind the API server, one informer apart from the other.      *)
(*                                                                         *)
(* The API server is the log of its contents.  An informer's cache is the  *)
(* moment of the log that it shows for its resource.                       *)
(***************************************************************************)
EXTENDS AdmissionRules, FiniteSets

CONSTANTS
  Replicas,
  MaxChanges, \* bound: changes by users
  MaxFaults   \* bound: failing reads, timeouts and restarts

ASSUME BoundsAssumption == MaxChanges \in Nat /\ MaxFaults \in Nat
ASSUME ReplicasAssumption == Replicas # {}

VARIABLES
  log,     \* the contents of the API server, the last ones are stored
  pos,     \* the moment that each informer of each replica shows
  request, \* the pod that is created, with its namespace
  pod,     \* what has become of it
  call,    \* the call of the webhook
  faults

vars == <<log, pos, request, pod, call, faults>>

Stored == log[Len(log)]

(* Where the log changes a resource.                                       *)
Moments(k) == {j \in DOMAIN log : j = 1 \/ log[j][k] # log[j - 1][k]}

Cached(r, k) == log[pos[r][k]][k]

CaughtUp(r) == \A k \in Informers : \A j \in Moments(k) : j <= pos[r][k]

NoPod == [phase |-> "absent", shims |-> {}, warned |-> {}, reinvoked |-> FALSE]

(* fresh says that the replica's caches were current when the call began   *)
(* on a pod without shims, and that nothing has changed since.             *)
NoCall ==
  [pc |-> "none", replica |-> CHOOSE r \in Replicas : TRUE, namespace |-> NoValue,
   serviceAccount |-> NoValue, listed |-> {}, todo |-> {}, plans |-> <<>>,
   applied |-> {}, failed |-> {}, warned |-> {}, fresh |-> FALSE]

Init ==
  /\ log \in {<<s>> : s \in Stores}
  /\ pos = [r \in Replicas |-> [k \in Informers |-> 1]]
  /\ request \in Requests
  /\ pod = NoPod
  /\ call = NoCall
  /\ faults = 0

Fault == faults < MaxFaults /\ faults' = faults + 1

-----------------------------------------------------------------------------
(* Users, caches and the API server (external).                            *)

Change(k) ==
  /\ Len(log) <= MaxChanges
  /\ \E v \in Versions[k] \ {Stored[k]} : log' = Append(log, [Stored EXCEPT ![k] = v])
  /\ call' = [call EXCEPT !.fresh = FALSE]
  /\ UNCHANGED <<pos, request, pod, faults>>

(* Events arrive in order; a relist skips some.                            *)
CacheAdvances(r, k) ==
  /\ \E j \in Moments(k) : j > pos[r][k] /\ pos' = [pos EXCEPT ![r][k] = j]
  /\ UNCHANGED <<log, request, pod, call, faults>>

(* Also a client that tries again after a refusal.  Before any webhook the *)
(* API server asks for the Namespace and the ServiceAccount.               *)
Create ==
  /\ pod.phase \in {"absent", "refused"}
  /\ Stored.namespace.exists /\ Stored.serviceAccount.exists
  /\ pod' = [NoPod EXCEPT !.phase = "creating"]
  /\ UNCHANGED <<log, pos, request, call, faults>>

Delete ==
  /\ pod.phase = "running"
  /\ pod' = NoPod
  /\ UNCHANGED <<log, pos, request, call, faults>>

Call(r) ==
  /\ pod.phase = "creating" /\ call.pc = "none"
  /\ call' = [NoCall EXCEPT !.pc = "called", !.replica = r,
                            !.fresh = CaughtUp(r) /\ pod.shims = {}]
  /\ UNCHANGED <<log, pos, request, pod, faults>>

(* reinvocationPolicy: another webhook has changed the pod after the call. *)
Reinvoke ==
  /\ call.pc = "answered" /\ ~pod.reinvoked
  /\ pod' = [pod EXCEPT !.reinvoked = TRUE]
  /\ call' = NoCall
  /\ UNCHANGED <<log, pos, request, faults>>

Persist ==
  /\ call.pc = "answered"
  /\ pod' = [pod EXCEPT !.phase = "running"]
  /\ call' = NoCall
  /\ UNCHANGED <<log, pos, request, faults>>

(* failurePolicy: the pod is refused, and so is whatever it had by then.   *)
Refuse ==
  /\ pod' = [NoPod EXCEPT !.phase = "refused"]
  /\ call' = NoCall

InCall == call.pc \notin {"none", "answered"}

(* timeoutSeconds has passed; an answer that comes later is dropped.       *)
Timeout ==
  /\ InCall /\ Fault
  /\ Refuse
  /\ UNCHANGED <<log, pos, request>>

(* The new process lists anew, from an API server that may lag itself.     *)
Restart(r) ==
  /\ Fault
  /\ \E m \in [Informers -> DOMAIN log] :
       /\ \A k \in Informers : m[k] \in Moments(k)
       /\ pos' = [pos EXCEPT ![r] = m]
  /\ IF InCall /\ call.replica = r THEN Refuse ELSE UNCHANGED <<pod, call>>
  /\ UNCHANGED <<log, request>>

-----------------------------------------------------------------------------
(* Handle.  The webhook is registered for CREATE only, and what the API    *)
(* server sends decodes.                                                   *)

MutStatusIgnored == Exempt(request)

(* Opted out, already injected, or in an excluded namespace.               *)
LeftAlone == Exempt(request) \/ pod.shims # {}

Answer(shims, warned) ==
  /\ call' = [call EXCEPT !.pc = "answered"]
  /\ pod' = [pod EXCEPT !.shims = shims, !.warned = @ \cup warned]
  /\ UNCHANGED <<log, pos, request, faults>>

Allow ==
  /\ call.pc = "called" /\ LeftAlone
  /\ Answer(pod.shims, {})

(* readTarget and listShims, one read after the other.                     *)
Read(k, from, to) ==
  /\ call.pc = from
  /\ call' = [call EXCEPT !.pc = to, ![k] = Cached(call.replica, k)]
  /\ UNCHANGED <<log, pos, request, pod, faults>>

ReadNamespace == ~LeftAlone /\ Read("namespace", "called", "readServiceAccount")

MutSecondReadOverwrites == Read("namespace", "readServiceAccount", "listOIDCShims")

ReadServiceAccount == Read("serviceAccount", "readServiceAccount", "listOIDCShims")

List(k, from, to) ==
  /\ call.pc = from
  /\ LET found == call.listed \cup Cached(call.replica, k)
     IN  call' = [call EXCEPT !.pc = to, !.listed = found, !.todo = found]
  /\ UNCHANGED <<log, pos, request, pod, faults>>

ListOIDCShims == List("oidcshims", "listOIDCShims", "listClusterOIDCShims")

ListClusterOIDCShims == List("clusteroidcshims", "listClusterOIDCShims", "buildPlans")

Reading == {"called", "readServiceAccount", "listOIDCShims", "listClusterOIDCShims"}

MutErrorIsNotFound ==
  /\ call' = [call EXCEPT !.pc = "buildPlans", !.namespace = Stored.namespace,
                          !.serviceAccount = Stored.serviceAccount]
  /\ UNCHANGED pod

(* admission.Errored: the API server refuses the pod.                      *)
Errored == Refuse

ReadFails ==
  /\ call.pc \in Reading /\ ~LeftAlone
  /\ Fault
  /\ Errored
  /\ UNCHANGED <<log, pos, request>>

-----------------------------------------------------------------------------
(* buildPlans: the shims in order.                                         *)

Seen == Target(request, call.namespace, call.serviceAccount)

NextInOrder(s) ==
  /\ call.pc = "buildPlans"
  /\ s \in call.todo
  /\ \A o \in call.todo : ~Before(o, s)

Skipped(s) == compileFails(s.selection) \/ Matches(s, Seen)

MutStopsAtBroken(s, read) ==
  call' = [call EXCEPT !.todo = IF compileFails(s.selection) THEN {} ELSE @ \ {s},
             !.plans = IF HasPlan(s, Seen, read) THEN Append(@, PlanOf(s, Seen, read)) ELSE @,
             !.warned = IF ~HasPlan(s, Seen, read) /\ Skipped(s) THEN @ \cup {s} ELSE @]

MutWaitsForValue(s, read) ==
  call' = [call EXCEPT !.todo = IF Selected(s, Seen) /\ ~HasPlan(s, Seen, read) THEN @
                                ELSE @ \ {s},
             !.plans = IF HasPlan(s, Seen, read) THEN Append(@, PlanOf(s, Seen, read)) ELSE @]

(* A shim that does not match is passed over, one that matches and cannot  *)
(* be built is skipped with a warning.                                     *)
Planned(s, read) ==
  call' = [call EXCEPT !.todo = @ \ {s},
             !.plans = IF HasPlan(s, Seen, read) THEN Append(@, PlanOf(s, Seen, read)) ELSE @,
             !.warned = IF ~HasPlan(s, Seen, read) /\ Skipped(s) THEN @ \cup {s} ELSE @]

BuildPlan(s) ==
  /\ NextInOrder(s)
  /\ Planned(s, Stored.configMap)
  /\ UNCHANGED <<log, pos, request, pod, faults>>

MutFailureIsMissing(s) == Planned(s, "default")

(* A ConfigMap that cannot be read costs the shim, not the pod.            *)
ConfigMapUnread(s) ==
  call' = [call EXCEPT !.todo = @ \ {s}, !.warned = @ \cup {s}, !.failed = @ \cup {s}]

GetConfigMapFails(s) ==
  /\ NextInOrder(s)
  /\ Selected(s, Seen) /\ s.source = "configMap"
  /\ Fault
  /\ ConfigMapUnread(s)
  /\ UNCHANGED <<log, pos, request, pod>>

PlansBuilt == call.pc = "buildPlans" /\ call.todo = {}

-----------------------------------------------------------------------------
(* injection.Apply, in outline, and the answer.                            *)

Collides(p) == \E q \in call.applied : Conflicts(q.shim, p.shim)

MutCollisionSilent(p) == {}

CollisionWarning(p) == IF Collides(p) THEN {p.shim} ELSE {}

ApplyPlan ==
  /\ PlansBuilt /\ call.plans # <<>>
  /\ LET p == Head(call.plans)
     IN  call' = [call EXCEPT !.plans = Tail(@),
                              !.applied = IF Collides(p) THEN @ ELSE @ \cup {p},
                              !.warned = @ \cup CollisionWarning(p)]
  /\ UNCHANGED <<log, pos, request, pod, faults>>

(* Allowed with warnings, or a patch when some plan was applied.           *)
Respond ==
  /\ PlansBuilt /\ call.plans = <<>>
  /\ Answer(call.applied, call.warned)

Next ==
  \/ \E k \in Resources : Change(k)
  \/ Create \/ Delete \/ Reinvoke \/ Persist \/ Timeout
  \/ \E r \in Replicas : \/ Call(r) \/ Restart(r)
                         \/ \E k \in Informers : CacheAdvances(r, k)
  \/ Allow \/ ReadNamespace \/ ReadServiceAccount
  \/ ListOIDCShims \/ ListClusterOIDCShims \/ ReadFails
  \/ \E s \in call.todo : BuildPlan(s) \/ GetConfigMapFails(s)
  \/ ApplyPlan \/ Respond

Spec == Init /\ [][Next]_vars

(* What is in the API server, as one reading of all of it.                 *)
Now(store) == [s \in Listed(store) |-> store.configMap]

Exact == IsExpected(pod.shims, Stored, request, Now(Stored))

(* Users do what the comment on Handler.Reader asks of them: a pod that    *)
(* missed a shim is deleted, to be created again.                          *)
DeleteMissed == Delete /\ ~Exact

(* Informers catch up, and the admission goes on: the handler, the API     *)
(* server that calls and stores, and clients that try again.  Changes,     *)
(* faults and other webhooks owe nothing.                                  *)
Fairness ==
  /\ WF_vars(\E r \in Replicas, k \in Informers : CacheAdvances(r, k))
  /\ WF_vars(\/ Create \/ Persist \/ DeleteMissed \/ (\E r \in Replicas : Call(r))
             \/ Allow \/ ReadNamespace \/ ReadServiceAccount \/ ListOIDCShims
             \/ ListClusterOIDCShims \/ (\E s \in call.todo : BuildPlan(s))
             \/ ApplyPlan \/ Respond)

FairSpec == Spec /\ Fairness

-----------------------------------------------------------------------------
(* Properties.                                                             *)

(* The type invariant: a pod is only being called about while it is being  *)
(* created, every cache shows a moment at which its resource changed, and  *)
(* a handler past its reads works on objects of the log.                   *)
TypeOK ==
  /\ Len(log) \in 1..(MaxChanges + 1)
  /\ \A r \in Replicas, k \in Informers : pos[r][k] \in Moments(k)
  /\ request \in Requests
  /\ pod.phase \in {"absent", "creating", "refused", "running"}
  /\ pod.phase \in {"absent", "refused"} => pod = [NoPod EXCEPT !.phase = pod.phase]
  /\ call.pc \in Reading \cup {"none", "buildPlans", "answered"}
  /\ call.pc # "none" => pod.phase = "creating" /\ call.replica \in Replicas
  /\ call.pc = "buildPlans" =>
       \E i, j \in DOMAIN log : /\ call.namespace = log[i].namespace
                                /\ call.serviceAccount = log[j].serviceAccount
  /\ call.todo \subseteq call.listed
  /\ faults \in 0..MaxFaults

(* A call that began on current caches, with nothing changed until its     *)
(* answer, gives the pod exactly the shims that the stored objects call    *)
(* for: whatever the replica, the order in which a cache lists shims, and  *)
(* the calls before it.  Only a ConfigMap that could not be read makes a   *)
(* difference; a failing read of the other four never does.                *)
CaughtUpIsExact ==
  call.pc = "answered" /\ call.fresh =>
    IsExpected(pod.shims, Stored, request,
               [s \in Listed(Stored) |-> IF s \in call.failed THEN Failed
                                         ELSE Stored.configMap])

(* No shim that the handler has found to be for the pod is left out        *)
(* without a warning, whatever becomes of the calls after.                 *)
NoSilentMiss ==
  call.pc = "answered" =>
    {s \in call.listed : Skipped(s)} \subseteq {p.shim : p \in pod.shims} \cup pod.warned

(* What one call has injected, no later call of the same admission adds to *)
(* or takes from, even on a replica that sees other shims, and a pod that  *)
(* was admitted is never touched again.                                    *)
NeverRetrofitted ==
  [][pod.shims # {} \/ pod.phase = "running" =>
       pod'.shims = pod.shims \/ pod'.phase \in {"absent", "refused"}]_vars

Contract ==
  INSTANCE AdmissionContract WITH
    created <- [exists |-> pod.phase = "running",
                shims |-> IF pod.phase = "running" THEN pod.shims ELSE {}]

(* Replicas, calls, retries and restarts together behave like one decision *)
(* taken at the moment the pod is stored, from each resource as it was at  *)
(* some moment of its own.                                                 *)
ImplementsContract == Contract!Spec

(* Once changes and faults have ended, recreating the pods that missed a   *)
(* shim leaves none: every pod that runs has exactly what it should have.  *)
RecreationHeals == <>[](pod.phase = "running" => Exact)

(* A pod that is asked for is created in the end, though calls fail and    *)
(* fail closed, unless its namespace or its service account is gone.       *)
RetriesSucceed ==
  pod.phase = "creating" ~>
    \/ pod.phase = "running"
    \/ ~Stored.namespace.exists
    \/ ~Stored.serviceAccount.exists

=============================================================================
