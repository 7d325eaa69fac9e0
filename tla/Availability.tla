---------------------------- MODULE Availability ----------------------------
(***************************************************************************)
(* Whether pods can be created at all.  The webhook fails closed, so every *)
(* creation waits for a replica of the operator: from cmd/main.go's        *)
(* mgr.Start over the Warmer of internal/webhook/pod/setup.go to a ready   *)
(* endpoint, while the Deployment is rolled out, nodes are drained and     *)
(* processes exit.                                                         *)
(*                                                                         *)
(* The informers are created in one order, by the Warmer and by a handler  *)
(* that reads before it, so the number of those that are synced says which *)
(* ones they are.                                                          *)
(***************************************************************************)
EXTENDS Integers, FiniteSets

CONSTANTS
  Slots,          \* operator pods that may exist at a time
  Objects,        \* number of informers that the Warmer starts
  MaxDisruptions, \* bound: evictions, rollouts and exits
  MaxExits,       \* bound: processes that end by themselves
  Nobody

ASSUME SlotsAssumption == IsFiniteSet(Slots) /\ Nobody \notin Slots
ASSUME CountsAssumption == /\ Objects \in Nat \ {0}
                           /\ MaxDisruptions \in Nat /\ MaxExits \in Nat

(* config/manager: the Deployment and the PodDisruptionBudget.             *)
replicas == 2
minAvailable == 1
maxSurge == 1

VARIABLES
  phase,     \* of each operator pod and its process
  informers, \* how many of each process's informers are synced
  ready,     \* Warmer.ready
  podReady,  \* the condition that the kubelet sets
  old,       \* pods of a template before the last
  endpoints, \* what the API server knows of the webhook's Service
  leader,    \* holder of the lease
  client,    \* what the client waits for
  callee,    \* the replica that is called for the client's pod
  disruptions, exits

vars == <<phase, informers, ready, podReady, old, endpoints, leader, client,
          callee, disruptions, exits>>

Phases == {"absent", "exited", "serving", "caching", "terminating"}

Live == {s \in Slots : phase[s] \notin {"absent", "terminating"}}
Available == {s \in Live : podReady[s]}

Init ==
  /\ phase = [s \in Slots |-> "absent"]
  /\ informers = [s \in Slots |-> 0]
  /\ ready = [s \in Slots |-> FALSE]
  /\ podReady = [s \in Slots |-> FALSE]
  /\ old = {}
  /\ endpoints = {}
  /\ leader = Nobody
  /\ client = "asks"
  /\ callee = Nobody
  /\ disruptions = 0
  /\ exits = 0

-----------------------------------------------------------------------------
(* The manager's process.                                                  *)

Disrupt == disruptions < MaxDisruptions /\ disruptions' = disruptions + 1

(* A new process: nothing synced, nothing ready, the lease lapses.         *)
Fresh(s, p) ==
  /\ phase' = [phase EXCEPT ![s] = p]
  /\ leader' = IF leader = s THEN Nobody ELSE leader
  /\ informers' = [informers EXCEPT ![s] = 0]
  /\ ready' = [ready EXCEPT ![s] = FALSE]

(* main up to mgr.Start, which starts the webhook's server first.          *)
Setup(s) ==
  /\ phase[s] = "exited"
  /\ Fresh(s, "serving")
  /\ UNCHANGED <<podReady, old, endpoints, client, callee, disruptions, exits>>

StartCache(s) ==
  /\ phase[s] = "serving"
  /\ phase' = [phase EXCEPT ![s] = "caching"]
  /\ UNCHANGED <<informers, ready, podReady, old, endpoints, leader, client,
                 callee, disruptions, exits>>

(* The manager starts the controllers only with the lease.                 *)
AcquireLease(s) ==
  /\ phase[s] = "caching"
  /\ leader = Nobody
  /\ leader' = s
  /\ UNCHANGED <<phase, informers, ready, podReady, old, endpoints, client,
                 callee, disruptions, exits>>

MutNeedsLease == TRUE

NeedLeaderElection == FALSE

Warming(s) ==
  /\ phase[s] = "caching" /\ ~ready[s]
  /\ NeedLeaderElection => leader = s

(* GetInformer, of the Warmer or below a handler's read, lists and watches *)
(* and returns when the informer is synced.                                *)
GetInformer(s) ==
  /\ phase[s] = "caching" /\ informers[s] < Objects
  /\ Warming(s) \/ callee = s
  /\ informers' = [informers EXCEPT ![s] = @ + 1]
  /\ UNCHANGED <<phase, ready, podReady, old, endpoints, leader, client,
                 callee, disruptions, exits>>

MutReadyAtOnce(s) == Warming(s)

WarmedUp(s) == Warming(s) /\ informers[s] = Objects

StoreReady(s) ==
  /\ WarmedUp(s)
  /\ ready' = [ready EXCEPT ![s] = TRUE]
  /\ UNCHANGED <<phase, informers, podReady, old, endpoints, leader, client,
                 callee, disruptions, exits>>

(* The process ends: an error of Start, the Warmer's included, a lost      *)
(* lease, a crash.  The kubelet will start it again.                       *)
Exit(s) ==
  /\ phase[s] \in {"serving", "caching"}
  /\ Disrupt
  /\ exits < MaxExits /\ exits' = exits + 1
  /\ Fresh(s, "exited")
  /\ UNCHANGED <<podReady, old, endpoints, client, callee>>

MutWebhookOnly(s) == phase[s] \in {"serving", "caching"}

(* /readyz: the checks "informers" and "webhook".                          *)
Readyz(s) == ready[s] /\ phase[s] \in {"serving", "caching"}

-----------------------------------------------------------------------------
(* The cluster around it (external).                                       *)

Probe(s) ==
  /\ s \in Live /\ podReady[s] # Readyz(s)
  /\ podReady' = [podReady EXCEPT ![s] = Readyz(s)]
  /\ UNCHANGED <<phase, informers, ready, old, endpoints, leader, client,
                 callee, disruptions, exits>>

UpdateEndpoints ==
  /\ endpoints # Available
  /\ endpoints' = Available
  /\ UNCHANGED <<phase, informers, ready, podReady, old, leader, client,
                 callee, disruptions, exits>>

(* The namespaceSelector skips the operator's own namespace, so that no    *)
(* call of the webhook stands in the way.                                  *)
CreatePod(s) ==
  /\ phase[s] = "absent"
  /\ Cardinality(Live) < replicas + (IF old \cap Live = {} THEN 0 ELSE maxSurge)
  /\ Cardinality(Live \ old) < replicas
  /\ Fresh(s, "exited")
  /\ UNCHANGED <<podReady, old, endpoints, client, callee, disruptions, exits>>

(* SIGTERM ends the servers at once.                                       *)
Terminate(s) ==
  /\ Fresh(s, "terminating")
  /\ podReady' = [podReady EXCEPT ![s] = FALSE]

Gone(s) ==
  /\ phase[s] = "terminating" /\ s \notin endpoints /\ callee # s
  /\ phase' = [phase EXCEPT ![s] = "absent"]
  /\ old' = old \ {s}
  /\ UNCHANGED <<informers, ready, podReady, endpoints, leader, client, callee,
                 disruptions, exits>>

MutBudgetIgnored(s) == TRUE

(* PodDisruptionBudget.                                                    *)
Evictable(s) == Cardinality(Available \ {s}) >= minAvailable

Evict(s) ==
  /\ s \in Live /\ Evictable(s)
  /\ Disrupt
  /\ Terminate(s)
  /\ UNCHANGED <<old, endpoints, client, callee, exits>>

(* RollingUpdate, with a quarter of two replicas unavailable: none.        *)
Rollout ==
  /\ Live # {} /\ old = {}
  /\ Disrupt
  /\ old' = Live
  /\ UNCHANGED <<phase, informers, ready, podReady, endpoints, leader, client,
                 callee, exits>>

ScaleDown(s) ==
  /\ s \in Live \cap old /\ Cardinality(Available \ {s}) >= replicas
  /\ Terminate(s)
  /\ UNCHANGED <<old, endpoints, client, callee, disruptions, exits>>

-----------------------------------------------------------------------------
(* Creating a pod of some other namespace.  A refused client tries again.  *)

Send(s) ==
  /\ client = "asks" /\ callee = Nobody /\ s \in endpoints
  /\ callee' = s
  /\ UNCHANGED <<phase, informers, ready, podReady, old, endpoints, leader,
                 client, disruptions, exits>>

MutLeaderAnswers(s) == phase[s] = "caching" /\ informers[s] = Objects /\ leader = s

(* Every replica has the cached objects to answer from.                    *)
Answers(s) == phase[s] = "caching" /\ informers[s] = Objects

Answer ==
  /\ callee # Nobody /\ Answers(callee)
  /\ callee' = Nobody
  /\ client' = "served"
  /\ UNCHANGED <<phase, informers, ready, podReady, old, endpoints, leader,
                 disruptions, exits>>

(* Nothing listens, the cache has not started, or the reads take longer    *)
(* than timeoutSeconds.                                                    *)
Fail ==
  /\ callee # Nobody /\ ~Answers(callee)
  /\ callee' = Nobody
  /\ UNCHANGED <<phase, informers, ready, podReady, old, endpoints, leader,
                 client, disruptions, exits>>

Ask ==
  /\ client = "served"
  /\ client' = "asks"
  /\ UNCHANGED <<phase, informers, ready, podReady, old, endpoints, leader,
                 callee, disruptions, exits>>

Next ==
  \/ \E s \in Slots :
       \/ Setup(s) \/ StartCache(s) \/ AcquireLease(s)
       \/ GetInformer(s) \/ StoreReady(s) \/ Exit(s)
       \/ Probe(s) \/ CreatePod(s) \/ Gone(s) \/ Evict(s) \/ ScaleDown(s) \/ Send(s)
  \/ UpdateEndpoints \/ Rollout \/ Answer \/ Fail \/ Ask

Spec == Init /\ [][Next]_vars

(* Processes go on starting, the kubelet probes, the controllers of the    *)
(* cluster act, the API server calls.  Disruptions and exits owe nothing.  *)
Fairness ==
  /\ \A s \in Slots : WF_vars(Setup(s) \/ StartCache(s) \/ GetInformer(s) \/ StoreReady(s))
  /\ WF_vars(\E s \in Slots : AcquireLease(s))
  /\ WF_vars(\E s \in Slots : Probe(s))
  /\ WF_vars(\E s \in Slots : CreatePod(s) \/ ScaleDown(s))
  /\ WF_vars(\E s \in Slots : Gone(s))
  /\ WF_vars(UpdateEndpoints)
  /\ WF_vars((\E s \in Slots : Send(s)) \/ Answer \/ Fail \/ Ask)

FairSpec == Spec /\ Fairness

-----------------------------------------------------------------------------
(* Properties.                                                             *)

(* The type invariant: a ready process has all its informers, and a pod    *)
(* that is gone is neither probed nor listed nor called.                   *)
TypeOK ==
  /\ phase \in [Slots -> Phases]
  /\ informers \in [Slots -> 0..Objects]
  /\ ready \in [Slots -> BOOLEAN]
  /\ podReady \in [Slots -> BOOLEAN]
  /\ \A s \in Slots : /\ ready[s] => phase[s] = "caching" /\ informers[s] = Objects
                      /\ informers[s] > 0 => phase[s] = "caching"
                      /\ podReady[s] => s \in Live
                      /\ phase[s] = "absent" => s \notin endpoints \cup old \cup {callee}
  /\ old \subseteq Slots /\ endpoints \subseteq Slots
  /\ {leader, callee} \subseteq Slots \cup {Nobody}
  /\ client \in {"asks", "served"}
  /\ disruptions \in 0..MaxDisruptions /\ exits \in 0..MaxExits

(* While no process has ended by itself no call finds a replica with an    *)
(* informer still to be listed: the readiness check keeps the first        *)
(* admission request from paying for it.                                   *)
CalledWarm ==
  callee # Nobody /\ exits = 0 =>
    phase[callee] = "terminating" \/ informers[callee] = Objects

(* While no process has ended by itself some replica is up and ready, from *)
(* the time of the first: no order of rollouts and drains empties the      *)
(* webhook's endpoint.                                                     *)
EndpointNeverEmpty ==
  [][endpoints # {} /\ exits = 0 => endpoints' # {} /\ \E s \in Slots : Readyz(s)]_vars

(* Every creation of a pod is served in the end, from an empty cluster on  *)
(* and after all replicas have gone: the operator never waits for its own  *)
(* webhook.                                                                *)
CreationServed == client = "asks" ~> client = "served"

(* Every rollout ends, with all replicas ready: each one warms its own     *)
(* informers, with or without the lease.                                   *)
RolloutEnds == <>[](old = {} /\ Cardinality(Available) = replicas)

=============================================================================
