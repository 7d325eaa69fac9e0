-------------------------- MODULE ReconcilerProofs --------------------------
(***************************************************************************)
(* The status controllers, for any number of replicas, specs, pods,        *)
(* changes and faults.                                                     *)
(***************************************************************************)
EXTENDS Reconciler, TLAPS

-----------------------------------------------------------------------------
(* Shims and their versions.                                               *)

(* The shims users write, and the absence of one, are well typed.          *)
LEMMA WrittenType ==
  /\ Absent \in Shim
  /\ \A s \in Specs, n \in Nat : NewShim(n, s) \in Shim
  /\ \A shim \in Shim, s \in Specs : Edited(shim, s) \in Shim
<1>1. NoStatus \in Status
  BY DEF NoStatus, Status, Unset
<1>2. Absent \in Shim
  BY <1>1 DEF Absent, Shim
<1>3. ASSUME NEW s \in Specs, NEW n \in Nat PROVE NewShim(n, s) \in Shim
  BY <1>1, SpecsTyped DEF NewShim, Shim
<1>4. ASSUME NEW shim \in Shim, NEW s \in Specs PROVE Edited(shim, s) \in Shim
  <2>1. s \in [Checks -> BOOLEAN]
    BY SpecsTyped
  <2>2. shim.gen + 1 \in Nat
    BY DEF Shim
  <2>3. Edited(shim, s) = [shim EXCEPT !.spec = s, !.gen = shim.gen + 1]
    BY DEF Edited
  <2>. QED
    BY <2>1, <2>2, <2>3, Zenon DEF Shim
<1>. QED
  BY <1>2, <1>3, <1>4

(* So is the shim with the status that reconcileShim writes.               *)
LEMMA ReconciledType ==
  ASSUME NEW shim \in Shim, NEW of \in Shim, NEW count \in Nat \cup {Unset}
  PROVE  /\ Reconciled(of, count) \in Status
         /\ [shim EXCEPT !.status = Reconciled(of, count)] \in Shim
<1>1. /\ of.gen \in Nat /\ of.status \in Status
  BY DEF Shim
<1>2. of.status.matched \in Nat \cup {Unset}
  BY <1>1 DEF Status
<1>3. validateShim(of.spec) \in SUBSET Checks
  BY DEF validateShim
<1>4. Reconciled(of, count) \in Status
  BY <1>1, <1>2, <1>3 DEF Reconciled, Status
<1>. QED
  BY <1>4 DEF Shim

(* Appending a version leaves the earlier ones in place.                   *)
LEMMA AppendVersion ==
  ASSUME NEW versions \in Seq(Shim), NEW v \in Shim
  PROVE  /\ Append(versions, v) \in Seq(Shim)
         /\ Append(versions, v) # <<>>
         /\ Len(Append(versions, v)) = Len(versions) + 1
         /\ Append(versions, v)[Len(versions) + 1] = v
         /\ \A k \in 1..Len(versions) : Append(versions, v)[k] = versions[k]
  OBVIOUS

(* The stored version is a shim.                                           *)
LEMMA StoredType ==
  ASSUME TypeOK
  PROVE  Stored \in Shim /\ Len(log) \in Nat \ {0}
  BY DEF TypeOK, Stored

-----------------------------------------------------------------------------
(* What each step may do to the log: nothing, or append one version.       *)

(* A user's write.                                                         *)
UserVersion(v) ==
  \/ \E s \in Specs : ~Present(Stored) /\ v = NewShim(Len(log) + 1, s)
  \/ \E s \in Specs : Present(Stored) /\ v = Edited(Stored, s)
  \/ v = Stored
  \/ Present(Stored) /\ v = Absent

(* A controller's write: the verdict on the stored version.                *)
StatusVersion(v) ==
  /\ Present(Stored)
  /\ \E count \in Nat \cup {Unset} :
       v = [Stored EXCEPT !.status = Reconciled(Stored, count)]

LogStep ==
  \/ log' = log
  \/ \E v \in Shim : log' = Append(log, v) /\ (UserVersion(v) \/ StatusVersion(v))

(* WriteStatus, given a well-typed reconcile in progress.                  *)
LEMMA WriteStatusStep ==
  ASSUME TypeOK, NEW r \in Replicas, worker[r].pc = "updating", WriteStatus(worker[r])
  PROVE  LogStep
<1>. DEFINE w == worker[r]
<1>1. /\ w \in Work /\ w.at \in 1..Len(log) /\ Present(log[w.at])
  BY DEF TypeOK
<1>2. CASE Changed(w) /\ ~Conflict(w)
  <2>1. w.at = Len(log)
    BY <1>2 DEF Conflict
  <2>2. NewStatus(w) = Reconciled(Stored, w.count)
    BY <2>1 DEF NewStatus, Stored
  <2>3. w.count \in Nat \cup {Unset} /\ Present(Stored)
    BY <1>1, <2>1 DEF Work, Stored
  <2>4. log' = Append(log, [Stored EXCEPT !.status = Reconciled(Stored, w.count)])
    BY <1>2, <2>2 DEF WriteStatus
  <2>. QED
    BY <2>3, <2>4, StoredType, ReconciledType, Zenon DEF LogStep, StatusVersion
<1>3. CASE ~(Changed(w) /\ ~Conflict(w))
  BY <1>3 DEF WriteStatus, LogStep
<1>. QED
  BY <1>2, <1>3

(* Every step of the system.                                               *)
LEMMA StepsAppend ==
  ASSUME TypeOK, [Next]_vars
  PROVE  LogStep
<1>1. CASE CreateShim
  <2>1. PICK s \in Specs : ~Present(Stored) /\ log' = Append(log, NewShim(Len(log) + 1, s))
    BY <1>1 DEF CreateShim, UserWrites
  <2>. QED
    BY <2>1, StoredType, WrittenType DEF LogStep, UserVersion
<1>2. CASE EditSpec
  <2>1. PICK s \in Specs : Present(Stored) /\ log' = Append(log, Edited(Stored, s))
    BY <1>2 DEF EditSpec, UserWrites
  <2>. QED
    BY <2>1, StoredType, WrittenType DEF LogStep, UserVersion
<1>3. CASE EditMetadata
  BY <1>3, StoredType DEF EditMetadata, UserWrites, LogStep, UserVersion
<1>4. CASE DeleteShim
  BY <1>4, WrittenType DEF DeleteShim, UserWrites, LogStep, UserVersion
<1>5. ASSUME NEW r \in Replicas, UpdateStatus(r) \/ UpdateErrs(r)
      PROVE  LogStep
  BY <1>5, WriteStatusStep, Zenon DEF UpdateStatus, UpdateErrs, LogStep
<1>6. ASSUME NEW r \in Replicas,
             \/ Elect(r) \/ Exit(r) \/ Crash(r) \/ WatchEvent(r) \/ TimerFires(r)
             \/ StartReconcile(r) \/ CountPods(r) \/ CountFails(r)
      PROVE  LogStep
  BY <1>6 DEF Elect, Exit, Crash, Stop, WatchEvent, TimerFires, StartReconcile,
              CountPods, CountFails, Counted, cluster, LogStep
<1>7. CASE PodsChange \/ WatchCacheCatchesUp \/ LeaseExpires \/ UNCHANGED vars
  BY <1>7 DEF PodsChange, WatchCacheCatchesUp, LeaseExpires, cluster, vars, LogStep
<1>. QED
  BY <1>1, <1>2, <1>3, <1>4, <1>5, <1>6, <1>7 DEF Next

(* Such a step keeps the log typed and the positions of it valid.          *)
LEMMA LogGrows ==
  ASSUME TypeOK, LogStep
  PROVE  /\ log' \in Seq(Shim) /\ log' # <<>>
         /\ Len(log') \in Nat /\ Len(log') >= Len(log)
         /\ \A k \in 1..Len(log) : log'[k] = log[k]
<1>1. log \in Seq(Shim) /\ log # <<>>
  BY DEF TypeOK
<1>2. CASE log' = log
  BY <1>1, <1>2
<1>3. CASE \E v \in Shim : log' = Append(log, v)
  BY <1>1, <1>3, AppendVersion
<1>. QED
  BY <1>2, <1>3 DEF LogStep

-----------------------------------------------------------------------------
(* Types.                                                                  *)

(* Counters, pod counts and roles keep their types.                        *)
LEMMA SimpleTypes ==
  ASSUME TypeOK, [Next]_vars
  PROVE  /\ pods' \in PodCounts /\ served' \in PodCounts
         /\ lease' \in Replicas \cup {Nobody}
         /\ active' \subseteq Replicas
         /\ changes' \in 0..MaxChanges /\ faults' \in 0..MaxFaults
<1>. DEFINE Goal == /\ pods' \in PodCounts /\ served' \in PodCounts
                    /\ lease' \in Replicas \cup {Nobody}
                    /\ active' \subseteq Replicas
                    /\ changes' \in 0..MaxChanges /\ faults' \in 0..MaxFaults
<1>. USE BoundsAssumption DEF TypeOK, cluster, replica, Change, Fault
<1>1. CASE CreateShim \/ EditSpec \/ EditMetadata \/ DeleteShim
  BY <1>1 DEF CreateShim, EditSpec, EditMetadata, DeleteShim, UserWrites
<1>2. CASE PodsChange \/ WatchCacheCatchesUp \/ LeaseExpires
  BY <1>2 DEF PodsChange, WatchCacheCatchesUp, LeaseExpires
<1>3. ASSUME NEW r \in Replicas, Elect(r) \/ Exit(r) \/ Crash(r)
      PROVE  Goal
  BY <1>3 DEF Elect, Exit, Crash, Stop
<1>4. ASSUME NEW r \in Replicas,
             WatchEvent(r) \/ TimerFires(r) \/ StartReconcile(r) \/ CountPods(r)
      PROVE  Goal
  BY <1>4 DEF WatchEvent, TimerFires, StartReconcile, CountPods, Counted
<1>5. ASSUME NEW r \in Replicas, CountFails(r) \/ UpdateStatus(r) \/ UpdateErrs(r)
      PROVE  Goal
  <2>1. /\ UNCHANGED <<pods, served, lease, active, changes>>
        /\ faults' = faults \/ Fault
    BY <1>5, Zenon DEF CountFails, Counted, UpdateStatus, UpdateErrs
  <2>. QED
    BY <2>1
<1>6. CASE UNCHANGED vars
  BY <1>6 DEF vars
<1>. QED
  BY <1>1, <1>2, <1>3, <1>4, <1>5, <1>6 DEF Next

(* Queue and timer stay flags.                                             *)
LEMMA FlagTypes ==
  ASSUME TypeOK, [Next]_vars
  PROVE  queued' \in [Replicas -> BOOLEAN] /\ timer' \in [Replicas -> BOOLEAN]
<1>1. queued \in [Replicas -> BOOLEAN] /\ timer \in [Replicas -> BOOLEAN]
  BY DEF TypeOK
<1>. DEFINE Set(f, g) == \E r \in Replicas, b \in BOOLEAN : g = [f EXCEPT ![r] = b]
<1>2. ASSUME queued' = queued \/ Set(queued, queued'), timer' = timer \/ Set(timer, timer')
      PROVE  queued' \in [Replicas -> BOOLEAN] /\ timer' \in [Replicas -> BOOLEAN]
  BY <1>1, <1>2
<1>3. CASE \/ CreateShim \/ EditSpec \/ EditMetadata \/ DeleteShim
           \/ PodsChange \/ WatchCacheCatchesUp \/ LeaseExpires \/ UNCHANGED vars
  BY <1>1, <1>3 DEF CreateShim, EditSpec, EditMetadata, DeleteShim, UserWrites,
                    PodsChange, WatchCacheCatchesUp, LeaseExpires, replica, vars
<1>4. ASSUME NEW r \in Replicas, Elect(r)
      PROVE  timer' = timer /\ Set(queued, queued')
  <2>1. PICK k \in 1..Len(log) : queued' = [queued EXCEPT ![r] = Present(log[k])]
    BY <1>4, Zenon DEF Elect
  <2>2. Present(log[k]) \in BOOLEAN
    BY DEF Present
  <2>. QED
    BY <1>4, <2>1, <2>2, Zenon DEF Elect
<1>5. ASSUME NEW r \in Replicas, Exit(r) \/ Crash(r) \/ TimerFires(r) \/ StartReconcile(r)
      PROVE  /\ queued' = queued \/ Set(queued, queued')
             /\ timer' = timer \/ Set(timer, timer')
  BY <1>5, Zenon DEF Exit, Crash, Stop, TimerFires, StartReconcile
<1>6. ASSUME NEW r \in Replicas, WatchEvent(r)
      PROVE  timer' = timer /\ Set(queued, queued')
  <2>1. PICK k \in (pos[r] + 1)..Len(log) :
          queued' = [queued EXCEPT ![r] = queued[r] \/ Enqueues(log[pos[r]], log[k])]
    BY <1>6, Zenon DEF WatchEvent
  <2>2. (queued[r] \/ Enqueues(log[pos[r]], log[k])) \in BOOLEAN
    OBVIOUS
  <2>. QED
    BY <1>6, <2>1, <2>2, Zenon DEF WatchEvent
<1>7. ASSUME NEW r \in Replicas, UpdateStatus(r) \/ UpdateErrs(r)
      PROVE  Set(queued, queued') /\ Set(timer, timer')
  <2>1. PICK failed \in BOOLEAN : Requeue(r, failed)
    <3>1. Fails(worker[r]) \in BOOLEAN
      BY DEF Fails
    <3>. QED
      BY <1>7, <3>1, Zenon DEF UpdateStatus, UpdateErrs
  <2>2. (queued[r] \/ failed) \in BOOLEAN /\ (timer[r] \/ ~failed) \in BOOLEAN
    OBVIOUS
  <2>3. /\ queued' = [queued EXCEPT ![r] = queued[r] \/ failed]
        /\ timer' = [timer EXCEPT ![r] = timer[r] \/ ~failed]
    BY <2>1 DEF Requeue
  <2>. QED
    BY <2>2, <2>3, Zenon
<1>8. ASSUME NEW r \in Replicas, CountPods(r) \/ CountFails(r)
      PROVE  queued' = queued /\ timer' = timer
  BY <1>8 DEF CountPods, CountFails, Counted
<1>. HIDE DEF Set
<1>. QED
  BY <1>2, <1>3, <1>4, <1>5, <1>6, <1>7, <1>8 DEF Next

(* A cache points into the log.                                            *)
LEMMA PositionType ==
  ASSUME TypeOK, [Next]_vars
  PROVE  /\ pos' \in [Replicas -> Nat \ {0}]
         /\ \A r \in Replicas : pos'[r] <= Len(log')
<1>1. Len(log') \in Nat /\ Len(log') >= Len(log) /\ Len(log) \in Nat \ {0}
  BY StepsAppend, LogGrows, StoredType
<1>2. CASE UNCHANGED pos
  BY <1>1, <1>2 DEF TypeOK
<1>3. CASE \E r \in Replicas, k \in 1..Len(log) : pos' = [pos EXCEPT ![r] = k]
  BY <1>1, <1>3 DEF TypeOK
<1>4. ASSUME NEW r \in Replicas, Elect(r) \/ Exit(r) \/ Crash(r) \/ WatchEvent(r)
      PROVE  \E k \in 1..Len(log) : pos' = [pos EXCEPT ![r] = k]
  <2>1. CASE Elect(r)
    BY <2>1, Zenon DEF Elect
  <2>2. CASE Exit(r) \/ Crash(r)
    BY <1>1, <2>2 DEF Exit, Crash, Stop
  <2>3. CASE WatchEvent(r)
    <3>1. PICK k \in (pos[r] + 1)..Len(log) : pos' = [pos EXCEPT ![r] = k]
      BY <2>3, Zenon DEF WatchEvent
    <3>2. k \in 1..Len(log)
      BY <1>1 DEF TypeOK
    <3>. QED
      BY <3>1, <3>2, Zenon
  <2>. QED
    BY <1>4, <2>1, <2>2, <2>3
<1>5. CASE \/ CreateShim \/ EditSpec \/ EditMetadata \/ DeleteShim
           \/ PodsChange \/ WatchCacheCatchesUp \/ LeaseExpires \/ UNCHANGED vars
  BY <1>2, <1>5 DEF CreateShim, EditSpec, EditMetadata, DeleteShim, UserWrites,
                    PodsChange, WatchCacheCatchesUp, LeaseExpires, replica, vars
<1>6. ASSUME NEW r \in Replicas,
             \/ TimerFires(r) \/ StartReconcile(r) \/ CountPods(r) \/ CountFails(r)
             \/ UpdateStatus(r) \/ UpdateErrs(r)
      PROVE  UNCHANGED pos
  BY <1>6, Zenon DEF TimerFires, StartReconcile, CountPods, CountFails, Counted,
              UpdateStatus, UpdateErrs
<1>. QED
  BY <1>2, <1>3, <1>4, <1>5, <1>6 DEF Next

(* A reconcile in progress holds a version in which the shim exists.       *)
WorkOK(w, versions) ==
  w.pc # "idle" => w.at \in 1..Len(versions) /\ Present(versions[w.at])

(* Reconciles in progress stay so.                                         *)
LEMMA WorkerType ==
  ASSUME TypeOK, [Next]_vars
  PROVE  /\ worker' \in [Replicas -> Work]
         /\ \A r \in Replicas : WorkOK(worker'[r], log')
<1>1. /\ Len(log') \in Nat /\ Len(log') >= Len(log) /\ Len(log) \in Nat \ {0}
      /\ \A k \in 1..Len(log) : log'[k] = log[k]
  BY StepsAppend, LogGrows, StoredType
<1>2. \A w : WorkOK(w, log) => WorkOK(w, log')
  BY <1>1 DEF WorkOK
<1>3. worker \in [Replicas -> Work] /\ \A r \in Replicas : WorkOK(worker[r], log)
  BY DEF TypeOK, WorkOK
<1>4. CASE UNCHANGED worker
  BY <1>2, <1>3, <1>4
<1>5. CASE \E r \in Replicas, w \in Work :
             worker' = [worker EXCEPT ![r] = w] /\ WorkOK(w, log)
  BY <1>2, <1>3, <1>5
<1>6. Idle \in Work /\ WorkOK(Idle, log)
  BY DEF Idle, Work, WorkOK, Unset
<1>7. ASSUME NEW r \in Replicas,
             Exit(r) \/ Crash(r) \/ UpdateStatus(r) \/ UpdateErrs(r)
      PROVE  \E w \in Work : worker' = [worker EXCEPT ![r] = w] /\ WorkOK(w, log)
  BY <1>6, <1>7, Zenon DEF Exit, Crash, Stop, UpdateStatus, UpdateErrs
<1>8. ASSUME NEW r \in Replicas, StartReconcile(r)
      PROVE  \E w \in Work : worker' = [worker EXCEPT ![r] = w] /\ WorkOK(w, log)
  <2>. DEFINE started == [pc |-> "counting", at |-> pos[r], count |-> Unset]
  <2>1. pos[r] \in 1..Len(log)
    BY <1>1 DEF TypeOK
  <2>2. CASE Found(log[pos[r]])
    <3>1. started \in Work
      BY <2>1 DEF Work
    <3>2. WorkOK(started, log)
      BY <2>1, <2>2 DEF WorkOK, Found
    <3>3. worker' = [worker EXCEPT ![r] = started]
      BY <1>8, <2>2 DEF StartReconcile
    <3>. QED
      BY <3>1, <3>2, <3>3, Zenon
  <2>3. CASE ~Found(log[pos[r]])
    <3>1. worker' = [worker EXCEPT ![r] = worker[r]]
      BY <1>8, <2>3 DEF StartReconcile
    <3>. QED
      BY <1>3, <3>1, Zenon
  <2>. QED
    BY <2>2, <2>3
<1>9. ASSUME NEW r \in Replicas, CountPods(r) \/ CountFails(r)
      PROVE  \E w \in Work : worker' = [worker EXCEPT ![r] = w] /\ WorkOK(w, log)
  <2>1. PICK count \in Nat \cup {Unset} : Counted(r, count)
    BY <1>9, PodCountsAssumption, Zenon DEF CountPods, CountFails, TypeOK
  <2>. DEFINE w == [worker[r] EXCEPT !.pc = "updating", !.count = count]
  <2>2. w \in Work
    BY <1>3, Zenon DEF Work
  <2>3. WorkOK(w, log)
    <3>1. worker[r].pc = "counting" /\ w.at = worker[r].at
      BY <1>3, <2>1 DEF Counted, Work
    <3>. QED
      BY <1>3, <3>1 DEF WorkOK
  <2>4. worker' = [worker EXCEPT ![r] = w]
    BY <1>3, <2>1, Zenon DEF Counted
  <2>. QED
    BY <2>2, <2>3, <2>4, Zenon
<1>10. CASE \/ CreateShim \/ EditSpec \/ EditMetadata \/ DeleteShim
            \/ PodsChange \/ WatchCacheCatchesUp \/ LeaseExpires \/ UNCHANGED vars
  BY <1>4, <1>10 DEF CreateShim, EditSpec, EditMetadata, DeleteShim, UserWrites,
                     PodsChange, WatchCacheCatchesUp, LeaseExpires, replica, vars
<1>11. ASSUME NEW r \in Replicas, Elect(r) \/ WatchEvent(r) \/ TimerFires(r)
       PROVE  UNCHANGED worker
  BY <1>11 DEF Elect, WatchEvent, TimerFires
<1>. QED
  BY <1>4, <1>5, <1>7, <1>8, <1>9, <1>10, <1>11 DEF Next

(* Types are kept, for any number of replicas and any bounds.              *)
THEOREM ReconcilerTypeCorrect == Spec => []TypeOK
<1>1. Init => TypeOK
  <2>. SUFFICES ASSUME Init PROVE TypeOK
    OBVIOUS
  <2>1. log \in Seq(Shim) /\ log # <<>> /\ Len(log) = 1
    BY WrittenType DEF Init
  <2>2. Idle \in Work /\ Idle.pc = "idle"
    BY DEF Idle, Work, Unset
  <2>. QED
    BY <2>1, <2>2, PodCountsAssumption, BoundsAssumption DEF Init, TypeOK
<1>2. TypeOK /\ [Next]_vars => TypeOK'
  <2>. SUFFICES ASSUME TypeOK, [Next]_vars PROVE TypeOK'
    OBVIOUS
  <2>1. log' \in Seq(Shim) /\ log' # <<>>
    BY StepsAppend, LogGrows
  <2>. QED
    BY <2>1, SimpleTypes, FlagTypes, PositionType, WorkerType DEF TypeOK, WorkOK
<1>. QED
  BY <1>1, <1>2, PTL DEF Spec

-----------------------------------------------------------------------------
(* The stored version.                                                     *)

(* A step leaves the stored version alone or replaces it by what a user or *)
(* a controller wrote.                                                     *)
LEMMA StoredStep ==
  ASSUME TypeOK, [Next]_vars
  PROVE  \/ Stored' = Stored
         \/ Stored' \in Shim /\ (UserVersion(Stored') \/ StatusVersion(Stored'))
<1>1. CASE log' = log
  BY <1>1 DEF Stored
<1>2. ASSUME NEW v \in Shim, log' = Append(log, v), UserVersion(v) \/ StatusVersion(v)
      PROVE  Stored' \in Shim /\ (UserVersion(Stored') \/ StatusVersion(Stored'))
  <2>1. Stored' = v
    BY <1>2, AppendVersion DEF Stored, TypeOK
  <2>. QED
    BY <1>2, <2>1
<1>. QED
  BY <1>1, <1>2, StepsAppend DEF LogStep

(* A verdict never runs ahead of the spec it is about: without this, an    *)
(* edit could make an old verdict look current.                            *)
ReadyInv ==
  /\ Stored.status.observed <= Stored.gen
  /\ ReadyIsCurrent

(* Ready can be trusted as soon as observedGeneration is current.          *)
THEOREM ReadyTrusted == Spec => []ReadyIsCurrent
<1>1. Init => ReadyInv
  <2>. SUFFICES ASSUME Init PROVE ReadyInv
    OBVIOUS
  <2>1. Stored = Absent
    BY DEF Init, Stored
  <2>2. validateShim(Absent.spec) = {} /\ Absent.status = NoStatus /\ Absent.gen = 0
    BY DEF validateShim, Absent
  <2>. QED
    BY <2>1, <2>2 DEF ReadyInv, ReadyIsCurrent, NoStatus
<1>2. TypeOK /\ ReadyInv /\ [Next]_vars => ReadyInv'
  <2>. SUFFICES ASSUME TypeOK, ReadyInv, [Next]_vars PROVE ReadyInv'
    OBVIOUS
  <2>. DEFINE Good(v) == /\ v.status.observed <= v.gen
                         /\ v.status.observed = v.gen =>
                              v.status.problems = validateShim(v.spec)
  <2>1. Good(Stored) /\ Stored \in Shim /\ Stored.gen \in Nat /\ Stored.status \in Status
    BY StoredType DEF ReadyInv, ReadyIsCurrent, Shim
  <2>2. Stored.status.observed \in Nat
    BY <2>1 DEF Status
  <2>3. ASSUME NEW n, NEW s PROVE Good(NewShim(n, s))
    BY DEF NewShim, NoStatus
  <2>4. ASSUME NEW s PROVE Good(Edited(Stored, s))
    <3>1. /\ Edited(Stored, s).gen = Stored.gen + 1
          /\ Edited(Stored, s).status = Stored.status
      BY <2>1 DEF Edited, Shim
    <3>. QED
      BY <2>1, <2>2, <3>1
  <2>5. Good(Absent)
    BY DEF Absent, NoStatus, validateShim
  <2>6. ASSUME NEW count
        PROVE  Good([Stored EXCEPT !.status = Reconciled(Stored, count)])
    BY <2>1 DEF Reconciled, Shim
  <2>. HIDE DEF Good
  <2>7. Good(Stored')
    BY <2>1, <2>3, <2>4, <2>5, <2>6, StoredStep DEF UserVersion, StatusVersion
  <2>. QED
    BY <2>7 DEF Good, ReadyInv, ReadyIsCurrent
<1>3. ReadyInv => ReadyIsCurrent
  BY DEF ReadyInv
<1>. QED
  BY <1>1, <1>2, <1>3, ReconcilerTypeCorrect, PTL DEF Spec

(* The replicas implement the contract: every write of a status is one     *)
(* atomic verdict on the stored spec.                                      *)
THEOREM ReconcilerImplementsContract == Spec => ImplementsContract
<1>1. Init => Contract!Init
  BY DEF Init, Stored, Contract!Init, Contract!Absent, Absent, Contract!Checks,
         Checks, Contract!NoStatus, NoStatus, Contract!Unset, Unset
<1>2. TypeOK /\ [Next]_vars => [Contract!Next]_Stored
  <2>. SUFFICES ASSUME TypeOK, [Next]_vars, Stored' # Stored PROVE Contract!Next
    OBVIOUS
  <2>. USE DEF Contract!Present, Present
  <2>1. ASSUME NEW s \in Specs, ~Present(Stored), Stored' = NewShim(Len(log) + 1, s)
        PROVE  Contract!Create
    <3>1. Stored'.uid = Len(log) + 1 /\ Len(log) + 1 # 0
      BY <2>1, StoredType DEF NewShim
    <3>. QED
      BY <2>1, <3>1, Zenon DEF Contract!Create, Contract!NewShim, NewShim,
             Contract!NoStatus, NoStatus, Contract!Unset, Unset
  <2>2. ASSUME NEW s \in Specs, Present(Stored), Stored' = Edited(Stored, s)
        PROVE  Contract!Edit
    BY <2>2 DEF Contract!Edit, Contract!Edited, Edited
  <2>3. CASE Present(Stored) /\ Stored' = Absent
    BY <2>3 DEF Contract!Next, Contract!Delete, Contract!Absent, Absent, Contract!Checks, Checks,
         Contract!NoStatus, NoStatus, Contract!Unset, Unset
  <2>4. ASSUME NEW count \in Nat \cup {Unset}, Present(Stored),
               Stored' = [Stored EXCEPT !.status = Reconciled(Stored, count)]
        PROVE  Contract!Publish
    <3>1. Stored'.status = Reconciled(Stored, count)
      BY <2>4, StoredType DEF Shim
    <3>2. Reconciled(Stored, Stored'.status.matched) = Reconciled(Stored, count)
      BY <3>1 DEF Reconciled
    <3>3. Contract!Reconciled(Stored, Stored'.status.matched)
            = Reconciled(Stored, Stored'.status.matched)
      BY DEF Contract!Reconciled, Reconciled, Contract!validateShim, validateShim,
             Contract!Checks, Checks, Contract!Unset, Unset
    <3>. QED
      BY <2>4, <3>2, <3>3 DEF Contract!Publish
  <2>. QED
    BY <2>1, <2>2, <2>3, <2>4, StoredStep
       DEF Contract!Next, UserVersion, StatusVersion
<1>. QED
  BY <1>1, <1>2, ReconcilerTypeCorrect, PTL DEF Spec, ImplementsContract, Contract!Spec

-----------------------------------------------------------------------------
(* Nothing is forgotten and nothing is lost.                               *)

(* A shim in the cache of a running controller stays on its way to being   *)
(* reconciled.  The invariant is inductive with the types: an update event *)
(* that the predicate drops leaves whatever was pending in place.          *)
THEOREM ShimNeverForgotten == Spec => []NeverForgotten
<1>1. Init => NeverForgotten
  BY DEF Init, NeverForgotten
<1>2. TypeOK /\ NeverForgotten /\ [Next]_vars => NeverForgotten'
  <2>. SUFFICES ASSUME TypeOK, NeverForgotten, [Next]_vars,
                       NEW q \in active', Present(log'[pos'[q]])
                PROVE  queued'[q] \/ timer'[q] \/ worker'[q].pc # "idle"
    BY DEF NeverForgotten
  <2>. DEFINE Pending == queued[q] \/ timer[q] \/ worker[q].pc # "idle"
              PendingNext == queued'[q] \/ timer'[q] \/ worker'[q].pc # "idle"
  <2>1. /\ q \in Replicas
        /\ queued \in [Replicas -> BOOLEAN] /\ timer \in [Replicas -> BOOLEAN]
        /\ worker \in [Replicas -> Work] /\ pos \in [Replicas -> Nat \ {0}]
        /\ pos[q] \in 1..Len(log)
    BY SimpleTypes, StoredType DEF TypeOK
  <2>2. \A k \in 1..Len(log) : log'[k] = log[k]
    BY StepsAppend, LogGrows
  <2>3. ASSUME pos'[q] = pos[q], q \in active PROVE Pending
    BY <2>1, <2>2, <2>3 DEF NeverForgotten
  <2>4. CASE UNCHANGED replica
    BY <2>3, <2>4 DEF replica
  <2>5. CASE \/ CreateShim \/ EditSpec \/ EditMetadata \/ DeleteShim
             \/ PodsChange \/ WatchCacheCatchesUp \/ UNCHANGED vars
    BY <2>4, <2>5 DEF CreateShim, EditSpec, EditMetadata, DeleteShim, UserWrites,
                      PodsChange, WatchCacheCatchesUp, replica, vars
  <2>6. CASE LeaseExpires
    BY <2>3, <2>6 DEF LeaseExpires
  <2>7. ASSUME NEW r \in Replicas, Elect(r) PROVE PendingNext
    <3>1. PICK k \in 1..Len(log) : /\ pos' = [pos EXCEPT ![r] = k]
                                   /\ queued' = [queued EXCEPT ![r] = Present(log[k])]
      BY <2>7, Zenon DEF Elect
    <3>2. CASE r = q
      BY <2>1, <2>2, <3>1, <3>2
    <3>3. CASE r # q
      BY <2>1, <2>3, <2>7, <3>1, <3>3 DEF Elect
    <3>. QED
      BY <3>2, <3>3
  <2>8. ASSUME NEW r \in Replicas, Exit(r) \/ Crash(r) PROVE PendingNext
    <3>1. Stop(r)
      BY <2>8 DEF Exit, Crash
    <3>2. r # q
      BY <3>1 DEF Stop
    <3>. QED
      BY <2>1, <2>3, <3>1, <3>2 DEF Stop
  <2>9. ASSUME NEW r \in Replicas, WatchEvent(r) PROVE PendingNext
    <3>1. PICK k \in (pos[r] + 1)..Len(log) :
            /\ pos' = [pos EXCEPT ![r] = k]
            /\ queued' = [queued EXCEPT ![r] = queued[r] \/ Enqueues(log[pos[r]], log[k])]
      BY <2>9, Zenon DEF WatchEvent
    <3>2. CASE r # q
      BY <2>1, <2>3, <2>9, <3>1, <3>2 DEF WatchEvent
    <3>3. CASE r = q
      <4>1. pos'[q] = k /\ log'[k] = log[k]
        BY <2>1, <2>2, <3>1, <3>3
      <4>2. CASE Enqueues(log[pos[q]], log[k])
        BY <2>1, <3>1, <3>3, <4>2, Zenon
      <4>3. CASE ~Enqueues(log[pos[q]], log[k])
        <5>1. Present(log[pos[q]])
          BY <4>1, <4>3 DEF Enqueues
        <5>2. Pending
          BY <2>9, <3>3, <5>1 DEF NeverForgotten, WatchEvent
        <5>. QED
          BY <2>1, <2>9, <3>1, <3>3, <5>2 DEF WatchEvent
      <4>. QED
        BY <4>2, <4>3
    <3>. QED
      BY <3>2, <3>3
  <2>10. ASSUME NEW r \in Replicas, TimerFires(r) PROVE PendingNext
    BY <2>1, <2>3, <2>10 DEF TimerFires
  <2>11. ASSUME NEW r \in Replicas, StartReconcile(r) PROVE PendingNext
    <3>1. pos' = pos /\ active' = active /\ timer' = timer
      BY <2>11 DEF StartReconcile
    <3>2. Pending /\ Present(log[pos[q]])
      BY <2>1, <2>2, <2>3, <3>1
    <3>3. CASE r = q
      BY <2>1, <2>11, <3>2, <3>3 DEF StartReconcile, Found
    <3>4. CASE r # q
      BY <2>1, <2>11, <3>2, <3>4 DEF StartReconcile
    <3>. QED
      BY <3>3, <3>4
  <2>12. ASSUME NEW r \in Replicas, CountPods(r) \/ CountFails(r) PROVE PendingNext
    <3>1. PICK count : Counted(r, count)
      BY <2>12 DEF CountPods, CountFails
    <3>. QED
      BY <2>1, <2>3, <3>1 DEF Counted, Work
  <2>13. ASSUME NEW r \in Replicas, UpdateStatus(r) \/ UpdateErrs(r) PROVE PendingNext
    <3>1. PICK failed \in BOOLEAN : Requeue(r, failed)
      <4>1. Fails(worker[r]) \in BOOLEAN
        BY DEF Fails
      <4>. QED
        BY <2>13, <4>1, Zenon DEF UpdateStatus, UpdateErrs
    <3>2. pos' = pos /\ active' = active /\ worker' = [worker EXCEPT ![r] = Idle]
      BY <2>13, Zenon DEF UpdateStatus, UpdateErrs
    <3>3. CASE r = q
      BY <2>1, <3>1, <3>3, Zenon DEF Requeue
    <3>4. CASE r # q
      BY <2>1, <2>3, <3>1, <3>2, <3>4 DEF Requeue
    <3>. QED
      BY <3>3, <3>4
  <2>. QED
    BY <2>5, <2>6, <2>7, <2>8, <2>9, <2>10, <2>11, <2>12, <2>13 DEF Next
<1>. QED
  BY <1>1, <1>2, ReconcilerTypeCorrect, PTL DEF Spec

(* Along the life of an object observedGeneration and a reported count are *)
(* never taken back: a version with the same uid is an edit of the stored  *)
(* one or a verdict on it, and a verdict is never ahead of the spec.       *)
THEOREM StatusOnlyAdvances == Spec => StatusNeverRegresses
<1>. DEFINE Ahead == Stored.status.observed <= Stored.gen
            Step == Stored'.uid = Stored.uid =>
                      /\ Stored'.status.observed >= Stored.status.observed
                      /\ Stored.status.matched # Unset => Stored'.status.matched # Unset
<1>1. Init => Ahead
  BY DEF Init, Stored, Absent, NoStatus
<1>2. TypeOK /\ Ahead /\ [Next]_vars => Ahead' /\ Step
  <2>. SUFFICES ASSUME TypeOK, Ahead, [Next]_vars PROVE Ahead' /\ Step
    OBVIOUS
  <2>1. /\ Stored \in Shim /\ Stored.gen \in Nat /\ Stored.uid \in Nat
        /\ Stored.status \in Status
    BY StoredType DEF Shim
  <2>2. Stored.status.observed \in Nat /\ Stored.status.matched \in Nat \cup {Unset}
    BY <2>1 DEF Status
  <2>3. CASE Stored' = Stored
    BY <2>2, <2>3
  <2>4. ASSUME NEW s \in Specs, ~Present(Stored), Stored' = NewShim(Len(log) + 1, s)
        PROVE  Ahead' /\ Step
    <3>1. Stored'.uid # Stored.uid
      BY <2>4, StoredType DEF NewShim, Present
    <3>. QED
      BY <2>4, <3>1 DEF NewShim, NoStatus
  <2>5. ASSUME NEW s \in Specs, Stored' = Edited(Stored, s)
        PROVE  Ahead' /\ Step
    <3>1. Stored'.status = Stored.status /\ Stored'.gen = Stored.gen + 1
      BY <2>1, <2>5 DEF Edited, Shim
    <3>. QED
      BY <2>1, <2>2, <3>1
  <2>6. CASE Present(Stored) /\ Stored' = Absent
    BY <2>6 DEF Present, Absent, NoStatus
  <2>7. ASSUME NEW count \in Nat \cup {Unset},
               Stored' = [Stored EXCEPT !.status = Reconciled(Stored, count)]
        PROVE  Ahead' /\ Step
    <3>1. Stored'.status = Reconciled(Stored, count) /\ Stored'.gen = Stored.gen
      BY <2>1, <2>7 DEF Shim
    <3>. QED
      BY <2>1, <2>2, <3>1 DEF Reconciled
  <2>. HIDE DEF Ahead, Step
  <2>. QED
    BY <2>3, <2>4, <2>5, <2>6, <2>7, StoredStep DEF UserVersion, StatusVersion
<1>3. TypeOK /\ Ahead /\ [Next]_vars => [Step]_vars
  BY <1>2
<1>. HIDE DEF Ahead
<1>. QED
  BY <1>1, <1>2, <1>3, ReconcilerTypeCorrect, PTL DEF Spec, StatusNeverRegresses

=============================================================================
