----------------------------- MODULE Reconciler -----------------------------
(***************************************************************************)
(* internal/controller: the replicas of the manager keep the status of one *)
(* shim.  Every replica reads its own informer cache, which lags behind    *)
(* the API server; the elected one runs the controller, and one that lost  *)
(* the lease keeps running until its process exits.                        *)
(*                                                                         *)
(* The API server is the log of the shim's versions: a resourceVersion is  *)
(* a position in the log, and a cache is the position it has read up to.   *)
(***************************************************************************)
EXTENDS ShimStatus, Sequences

CONSTANTS
  Replicas,   \* the manager's replicas
  Nobody,     \* no holder of the lease
  PodCounts,  \* how many pods may carry the shim's label
  MaxChanges, \* bound: changes by users, to the shim and to pods
  MaxFaults   \* bound: failing calls, crashes and lost leases

ASSUME ReplicasAssumption == Nobody \notin Replicas
ASSUME PodCountsAssumption == PodCounts \subseteq Nat /\ 0 \in PodCounts
ASSUME BoundsAssumption == MaxChanges \in Nat /\ MaxFaults \in Nat

VARIABLES
  log,     \* the versions of the shim, the last one is stored
  pods,    \* how many pods carry the shim's label
  served,  \* how many the API server's watch cache knows of
  lease,   \* the replica holding the leader lease
  active,  \* the replicas whose controllers run
  pos,     \* the version in each replica's cache
  queued,  \* the shim waits in the workqueue
  timer,   \* a RequeueAfter is pending
  worker,  \* the reconcile in progress
  changes, faults

vars == <<served, lease, active, pos, queued, timer, worker, pods, changes, faults, log>>
cluster == <<log, pods, served, changes>>
replica == <<lease, active, pos, queued, timer, worker>>

Stored == log[Len(log)]

Work == [pc : {"idle", "counting", "updating"}, at : Nat, count : Nat \cup {Unset}]
Idle == [pc |-> "idle", at |-> 0, count |-> Unset]

Init ==
  /\ log = <<Absent>>
  /\ pods = 0 /\ served = 0
  /\ lease = Nobody
  /\ active = {}
  /\ pos = [r \in Replicas |-> 1]
  /\ queued = [r \in Replicas |-> FALSE]
  /\ timer = [r \in Replicas |-> FALSE]
  /\ worker = [r \in Replicas |-> Idle]
  /\ changes = 0 /\ faults = 0

-----------------------------------------------------------------------------
(* Users and the API server (external).                                    *)

Change == changes < MaxChanges /\ changes' = changes + 1

Fault == faults < MaxFaults /\ faults' = faults + 1

UserWrites(shim) ==
  /\ Change
  /\ log' = Append(log, shim)
  /\ UNCHANGED <<pods, served, faults, replica>>

CreateShim ==
  /\ ~Present(Stored)
  /\ \E s \in Specs : UserWrites(NewShim(Len(log) + 1, s))

EditSpec ==
  /\ Present(Stored)
  /\ \E s \in Specs \ {Stored.spec} : UserWrites(Edited(Stored, s))

(* A change of labels or annotations: a new version, the same generation.  *)
EditMetadata == Present(Stored) /\ UserWrites(Stored)

DeleteShim == Present(Stored) /\ UserWrites(Absent)

PodsChange ==
  /\ Change
  /\ pods' \in PodCounts \ {pods}
  /\ UNCHANGED <<log, served, faults, replica>>

WatchCacheCatchesUp ==
  /\ served # pods
  /\ served' = pods
  /\ UNCHANGED <<log, pods, changes, faults, replica>>

-----------------------------------------------------------------------------
(* Leader election and process lifetime (external).                        *)

(* The new leader's controllers start on whatever its cache holds, which   *)
(* delivers a create event for a shim in it.                               *)
Elect(r) ==
  /\ lease = Nobody /\ r \notin active
  /\ lease' = r
  /\ active' = active \cup {r}
  /\ \E k \in 1..Len(log) : /\ pos' = [pos EXCEPT ![r] = k]
                            /\ queued' = [queued EXCEPT ![r] = Present(log[k])]
  /\ UNCHANGED <<timer, worker, faults, cluster>>

LeaseExpires ==
  /\ lease # Nobody
  /\ Fault
  /\ lease' = Nobody
  /\ UNCHANGED <<active, pos, queued, timer, worker, cluster>>

Stop(r) ==
  /\ active' = active \ {r}
  /\ pos' = [pos EXCEPT ![r] = 1]
  /\ queued' = [queued EXCEPT ![r] = FALSE]
  /\ timer' = [timer EXCEPT ![r] = FALSE]
  /\ worker' = [worker EXCEPT ![r] = Idle]
  /\ UNCHANGED cluster

(* main returns from mgr.Start with an error when the lease is lost.       *)
Exit(r) ==
  /\ r \in active /\ lease # r
  /\ Stop(r)
  /\ UNCHANGED <<lease, faults>>

Crash(r) ==
  /\ r \in active
  /\ Fault
  /\ Stop(r)
  /\ lease' = IF lease = r THEN Nobody ELSE lease

-----------------------------------------------------------------------------
(* The controller.                                                         *)

MutUpdatesOnly(old, new) == Present(old) /\ Present(new) /\ old.gen # new.gen

(* SetupWithManager: GenerationChangedPredicate drops an update event that *)
(* leaves the generation alone and keeps create and delete events.         *)
Enqueues(old, new) ==
  \/ Present(old) # Present(new)
  \/ old.gen # new.gen

(* The cache moves to the next version or, after a relist, to a later one: *)
(* a deletion and a new creation may then look like one update.            *)
WatchEvent(r) ==
  /\ r \in active
  /\ \E k \in (pos[r] + 1)..Len(log) :
       /\ pos' = [pos EXCEPT ![r] = k]
       /\ queued' = [queued EXCEPT ![r] = @ \/ Enqueues(log[pos[r]], log[k])]
  /\ UNCHANGED <<lease, active, timer, worker, faults, cluster>>

TimerFires(r) ==
  /\ timer[r]
  /\ timer' = [timer EXCEPT ![r] = FALSE]
  /\ queued' = [queued EXCEPT ![r] = TRUE]
  /\ UNCHANGED <<lease, active, pos, worker, faults, cluster>>

MutNotFoundHandled(shim) == TRUE

Found(shim) == Present(shim)

(* Reconcile: Get reads the cache, and a shim that is gone ends it.        *)
StartReconcile(r) ==
  /\ queued[r] /\ worker[r].pc = "idle"
  /\ queued' = [queued EXCEPT ![r] = FALSE]
  /\ worker' = [worker EXCEPT ![r] =
                  IF Found(log[pos[r]])
                  THEN [pc |-> "counting", at |-> pos[r], count |-> Unset] ELSE @]
  /\ UNCHANGED <<lease, active, pos, timer, faults, cluster>>

(* countMatchedPods: the list is served from the API server's watch cache. *)
Counted(r, count) ==
  /\ worker[r].pc = "counting"
  /\ worker' = [worker EXCEPT ![r].pc = "updating", ![r].count = count]
  /\ UNCHANGED <<lease, active, pos, queued, timer, cluster>>

CountPods(r) == Counted(r, served) /\ UNCHANGED faults

CountFails(r) == Fault /\ Counted(r, Unset)

MutLastWriteWins(w) == FALSE

(* The API server refuses an update of any version but the stored one.     *)
Conflict(w) == w.at # Len(log)

NewStatus(w) == Reconciled(log[w.at], w.count)

Changed(w) == NewStatus(w) # log[w.at].status

(* An error from the update or from the count sends the shim back to the   *)
(* queue; otherwise it comes back after requeueInterval.                   *)
Fails(w) == (Changed(w) /\ Conflict(w)) \/ w.count = Unset

WriteStatus(w) ==
  log' = IF Changed(w) /\ ~Conflict(w)
         THEN Append(log, [Stored EXCEPT !.status = NewStatus(w)])
         ELSE log

MutNoRequeueAfter(r, failed) ==
  /\ queued' = [queued EXCEPT ![r] = @ \/ failed]
  /\ UNCHANGED timer

Requeue(r, failed) ==
  /\ queued' = [queued EXCEPT ![r] = @ \/ failed]
  /\ timer' = [timer EXCEPT ![r] = @ \/ ~failed]

UpdateStatus(r) ==
  /\ worker[r].pc = "updating"
  /\ WriteStatus(worker[r])
  /\ Requeue(r, Fails(worker[r]))
  /\ worker' = [worker EXCEPT ![r] = Idle]
  /\ UNCHANGED <<lease, active, pos, pods, served, changes, faults>>

(* The update fails, with or without having been stored.                   *)
UpdateErrs(r) ==
  /\ worker[r].pc = "updating" /\ Changed(worker[r])
  /\ Fault
  /\ \/ WriteStatus(worker[r])
     \/ UNCHANGED log
  /\ Requeue(r, TRUE)
  /\ worker' = [worker EXCEPT ![r] = Idle]
  /\ UNCHANGED <<lease, active, pos, pods, served, changes>>

Next ==
  \/ CreateShim \/ EditSpec \/ EditMetadata \/ DeleteShim
  \/ PodsChange \/ WatchCacheCatchesUp
  \/ LeaseExpires
  \/ \E r \in Replicas :
       \/ Elect(r) \/ Exit(r) \/ Crash(r)
       \/ WatchEvent(r) \/ TimerFires(r) \/ StartReconcile(r)
       \/ CountPods(r) \/ CountFails(r)
       \/ UpdateStatus(r) \/ UpdateErrs(r)

Spec == Init /\ [][Next]_vars

(* Watches, queues and timers make progress, the lease is taken by some    *)
(* replica, and a replica that lost it exits.  Users, pods and faults owe  *)
(* nothing.                                                                *)
Fairness ==
  /\ WF_vars(WatchCacheCatchesUp)
  /\ WF_vars(\E r \in Replicas : Elect(r))
  /\ \A r \in Replicas :
       /\ WF_vars(Exit(r)) /\ WF_vars(WatchEvent(r)) /\ WF_vars(TimerFires(r))
       /\ WF_vars(StartReconcile(r)) /\ WF_vars(CountPods(r))
       /\ WF_vars(UpdateStatus(r))

FairSpec == Spec /\ Fairness

-----------------------------------------------------------------------------
(* Properties.                                                             *)

(* The type invariant.  A reconcile in progress works on a version that is *)
(* the shim, never on its absence.                                         *)
TypeOK ==
  /\ log \in Seq(Shim) /\ log # <<>>
  /\ pods \in PodCounts /\ served \in PodCounts
  /\ lease \in Replicas \cup {Nobody}
  /\ active \subseteq Replicas
  /\ pos \in [Replicas -> Nat \ {0}]
  /\ \A r \in Replicas : pos[r] <= Len(log)
  /\ queued \in [Replicas -> BOOLEAN] /\ timer \in [Replicas -> BOOLEAN]
  /\ worker \in [Replicas -> Work]
  /\ \A r \in Replicas :
       worker[r].pc # "idle" => worker[r].at \in 1..Len(log) /\ Present(log[worker[r].at])
  /\ changes \in 0..MaxChanges /\ faults \in 0..MaxFaults

(* A status that claims the shim's current generation is the verdict on    *)
(* its current spec, whatever the caches the controllers worked from: who  *)
(* waits for observedGeneration may trust Ready.                           *)
ReadyIsCurrent ==
  Stored.status.observed = Stored.gen => Stored.status.problems = validateShim(Stored.spec)

(* The controller never forgets a shim it can see: it is queued, being     *)
(* reconciled or waiting for requeueInterval, even when the watch showed a *)
(* deletion and a new creation as an update that the predicate drops.      *)
NeverForgotten ==
  \A r \in active :
    Present(log[pos[r]]) => queued[r] \/ timer[r] \/ worker[r].pc # "idle"

(* Along the life of one object observedGeneration never goes back, and a  *)
(* count once reported is not lost to a failing one.                       *)
StatusNeverRegresses ==
  [][Stored'.uid = Stored.uid =>
       /\ Stored'.status.observed >= Stored.status.observed
       /\ Stored.status.matched # Unset => Stored'.status.matched # Unset]_vars

Contract == INSTANCE StatusContract WITH object <- Stored

(* The replicas together implement the contract: each write of a status is *)
(* an atomic verdict on the spec stored at that moment.                    *)
ImplementsContract == Contract!Spec

Converged ==
  Present(Stored) =>
    Stored.status = [observed |-> Stored.gen, problems |-> validateShim(Stored.spec),
                     matched |-> pods]

(* Once users stop changing things and faults stop, the status settles on  *)
(* the stored generation, its verdict and the number of labelled pods.     *)
EventuallyConverged == <>[]Converged

=============================================================================
