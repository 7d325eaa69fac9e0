------------------------ MODULE InjectionInvariants ------------------------
(***************************************************************************)
(* What a call of Apply may rely on while its loop runs: the pod stays one *)
(* that the API server accepts, it holds what the applied plans have added *)
(* and nothing else, and the plans applied are the plans that fit.         *)
(***************************************************************************)
EXTENDS InjectionSteps

-----------------------------------------------------------------------------
(* The pod stays one that the API server accepts.                          *)

(* While the loop runs the helpers wait in newInits, outside the pod that  *)
(* the collision check looks at.  They must stay unique, apart from the    *)
(* pod's containers and backed by volumes, or Finish breaks the pod.       *)
QueuedHelpers ==
  phase # "done" =>
    /\ UniqueNames(newInits)
    /\ Apart(newInits, pod.inits) /\ Apart(newInits, pod.containers)
    /\ MountsValid(newInits, pod.volumes)

SafetyInv ==
  /\ ServerAccepts(pod)
  /\ QueuedHelpers
  /\ Distinct(containersFromAnnotation(pod))
  /\ \A i \in DOMAIN pod.containers : SafeContainer(pod.containers[i])

(* The helpers bear the names that the collision check looks for.          *)
LEMMA HelperNames ==
  ASSUME NEW plan
  PROVE  /\ helperContainer(plan, FALSE).name = initContainerName(plan.name)
         /\ helperContainer(plan, TRUE).name = refreshContainerName(plan.name)
BY Zenon DEF helperContainer

(* Two helpers with names of their own can join the queue.                 *)
LEMMA QueueGrows ==
  ASSUME NEW queue \in Seq(Container), UniqueNames(queue),
         NEW a \in Container, NEW b \in Container, a.name # b.name,
         \A k \in DOMAIN queue : queue[k].name # a.name /\ queue[k].name # b.name
  PROVE  /\ UniqueNames(queue \o <<a, b>>)
         /\ \A k \in DOMAIN (queue \o <<a, b>>) :
              \/ \E n \in DOMAIN queue : (queue \o <<a, b>>)[k] = queue[n]
              \/ (queue \o <<a, b>>)[k] = a
              \/ (queue \o <<a, b>>)[k] = b
<1>1. <<a, b>> \in Seq(Container) /\ Len(<<a, b>>) = 2
  BY PairIsSeq
<1>2. \A k \in DOMAIN <<a, b>> : <<a, b>>[k] = a \/ <<a, b>>[k] = b
  BY <1>1
<1>3. UniqueNames(<<a, b>>)
  BY <1>1 DEF UniqueNames
<1>4. Apart(queue, <<a, b>>)
  BY <1>2 DEF Apart
<1>5. UniqueNames(queue \o <<a, b>>)
  BY <1>1, <1>3, <1>4, UniqueNamesConcat, Zenon
<1>6. \A k \in DOMAIN (queue \o <<a, b>>) :
        \/ \E n \in DOMAIN queue : (queue \o <<a, b>>)[k] = queue[n]
        \/ \E n \in DOMAIN <<a, b>> : (queue \o <<a, b>>)[k] = <<a, b>>[n]
  BY <1>1, ConcatElements
<1>. QED
  BY <1>2, <1>5, <1>6, Zenon

(* What the checks before an injection establish about the plan.           *)
LEMMA ApplyPlanChecked ==
  ASSUME Counting, SafeInputs, TypeOK, SafetyInv, ApplyPlan, NEW plan, plan = plans[at]
  PROVE  /\ plan \in Plan /\ SafePlan(plan)
         /\ ~hasVolume(pod.volumes, plan.tokenVolume)
         /\ ~hasVolume(pod.volumes, configVolumeName(plan.name))
         /\ \A name \in {initContainerName(plan.name), refreshContainerName(plan.name)} :
              /\ ~hasContainerNamed(pod.inits, name)
              /\ ~hasContainerNamed(newInits, name)
              /\ ~hasContainerNamed(pod.containers, name)
         /\ \A i \in Targeted(pod, resolveTargets(pod, plan)), path \in mountPaths(plan) :
              ~hasMountPath(pod.containers[i], path)
         /\ Distinct(resolveTargets(pod, plan))
<1>1. plan \in Plan /\ pod \in Pod /\ InLoop
      /\ ~checkCollisions(pod, plan, newInits, resolveTargets(pod, plan))
  BY ApplyPlanAdds
<1>2. plans \in PlanLists /\ at \in DOMAIN plans
  <2>1. plans \in PlanLists /\ plans \in Seq(Plan)
    BY ConstantsTyped DEF TypeOK
  <2>. QED
    BY <1>1, <2>1 DEF TypeOK, InLoop
<1>3. SafePlan(plan)
  BY <1>2 DEF SafeInputs
<1>4. UniqueNames(pod.containers) /\ Distinct(containersFromAnnotation(pod))
  BY DEF SafetyInv, ServerAccepts
<1>5. Distinct(resolveTargets(pod, plan))
  BY <1>1, <1>3, <1>4, TargetsDistinct
<1>6. \A name \in {initContainerName(plan.name), refreshContainerName(plan.name)} :
        ~hasContainerNamed(pod.containers, name)
  BY <1>2 DEF SafetyInv, SafeContainer, hasContainerNamed
<1>7. /\ ~hasVolume(pod.volumes, plan.tokenVolume)
      /\ ~hasVolume(pod.volumes, configVolumeName(plan.name))
      /\ \A name \in {initContainerName(plan.name), refreshContainerName(plan.name)} :
           ~hasContainerNamed(pod.inits, name) /\ ~hasContainerNamed(newInits, name)
      /\ \A i \in Targeted(pod, resolveTargets(pod, plan)), path \in mountPaths(plan) :
           ~hasMountPath(pod.containers[i], path)
  BY <1>1, Zenon DEF checkCollisions
<1>. QED
  BY <1>1, <1>3, <1>5, <1>6, <1>7, Zenon

(* The volumes and the containers that an injection leaves are valid.      *)
LEMMA ApplyPlanPlaces ==
  ASSUME Counting, SafeInputs, TypeOK, SafetyInv, ApplyPlan, NEW plan, plan = plans[at]
  PROVE  /\ UniqueNames(pod'.volumes)
         /\ \A name : hasVolume(pod.volumes, name) => hasVolume(pod'.volumes, name)
         /\ hasVolume(pod'.volumes, socketVolumeName)
         /\ hasVolume(pod'.volumes, plan.tokenVolume)
         /\ hasVolume(pod'.volumes, configVolumeName(plan.name))
         /\ DOMAIN pod'.containers = DOMAIN pod.containers
         /\ \A i \in DOMAIN pod.containers : pod'.containers[i].name = pod.containers[i].name
         /\ MountsValid(pod'.containers, pod'.volumes)
<1>1. /\ pod \in Pod /\ pod'.volumes = addVolumes(pod.volumes, plan)
      /\ pod'.containers = injectIntoContainers(pod, plan, resolveTargets(pod, plan))
  BY ApplyPlanAdds
<1>2. pod.volumes \in Seq(Volume)
  BY <1>1 DEF Pod
<1>3. UniqueNames(pod.volumes) /\ MountsValid(pod.containers, pod.volumes)
  BY DEF SafetyInv, ServerAccepts
<1>4. /\ UniqueNames(pod'.volumes)
      /\ \A name : hasVolume(pod.volumes, name) => hasVolume(pod'.volumes, name)
      /\ hasVolume(pod'.volumes, socketVolumeName)
      /\ hasVolume(pod'.volumes, plan.tokenVolume)
      /\ hasVolume(pod'.volumes, configVolumeName(plan.name))
  BY <1>1, <1>2, <1>3, ApplyPlanChecked, AddVolumesSafe
<1>5. PICK vols : vols = pod'.volumes
  OBVIOUS
<1>6. /\ DOMAIN pod'.containers = DOMAIN pod.containers
      /\ \A i \in DOMAIN pod.containers : pod'.containers[i].name = pod.containers[i].name
      /\ MountsValid(pod'.containers, vols)
  BY <1>1, <1>3, <1>4, <1>5, ApplyPlanChecked, InjectSafe
<1>. QED
  BY <1>4, <1>5, <1>6, Zenon

(* Injecting one plan keeps the invariant.                                 *)
LEMMA ApplyPlanSafe ==
  ASSUME Counting, SafeInputs, TypeOK, SafetyInv, ApplyPlan
  PROVE  SafetyInv'
<1>0. PICK plan : plan = plans[at]
  OBVIOUS
<1>1. PICK a, b : a = helperContainer(plan, FALSE) /\ b = helperContainer(plan, TRUE)
  BY Zenon
<1>2. /\ pod'.inits = pod.inits /\ pod'.filter = pod.filter
      /\ newInits' = newInits \o <<a, b>>
      /\ phase' = phase /\ phase = "applying"
  BY <1>0, <1>1, ApplyPlanAdds, Zenon DEF InLoop, SameSelection
<1>3. newInits \in Seq(Container)
  BY DEF TypeOK
<1>4. /\ UniqueNames(pod.inits) /\ UniqueNames(pod.containers)
      /\ Apart(pod.inits, pod.containers) /\ MountsValid(pod.inits, pod.volumes)
      /\ UniqueNames(newInits) /\ Apart(newInits, pod.inits)
      /\ Apart(newInits, pod.containers) /\ MountsValid(newInits, pod.volumes)
  BY <1>2 DEF SafetyInv, ServerAccepts, QueuedHelpers
<1>5. /\ a \in Container /\ b \in Container
      /\ a.name = initContainerName(plan.name) /\ b.name = refreshContainerName(plan.name)
  BY <1>0, <1>1, ApplyPlanChecked, HelperNames, HelperContainerType, Zenon
<1>6. a.name # b.name
  <2>1. /\ initContainerName(plan.name)[1] = "oidcshim-init-"
        /\ refreshContainerName(plan.name)[1] = "oidcshim-refresh-"
    BY DEF initContainerName, refreshContainerName
  <2>2. initContainerName(plan.name) # refreshContainerName(plan.name)
    BY <2>1
  <2>. QED
    BY <1>5, <2>2, Zenon
<1>7. /\ \A k \in DOMAIN newInits : newInits[k].name # a.name /\ newInits[k].name # b.name
      /\ \A k \in DOMAIN pod.inits : pod.inits[k].name # a.name /\ pod.inits[k].name # b.name
      /\ \A k \in DOMAIN pod.containers : /\ pod.containers[k].name # a.name
                                          /\ pod.containers[k].name # b.name
  BY <1>0, <1>5, ApplyPlanChecked, Zenon DEF hasContainerNamed
<1>8. /\ UniqueNames(newInits')
      /\ \A k \in DOMAIN newInits' : \/ \E n \in DOMAIN newInits : newInits'[k] = newInits[n]
                                     \/ newInits'[k] = a
                                     \/ newInits'[k] = b
  BY <1>2, <1>3, <1>4, <1>5, <1>6, <1>7, QueueGrows, Zenon
<1>9. /\ \A name : hasVolume(pod.volumes, name) => hasVolume(pod'.volumes, name)
      /\ DOMAIN pod'.containers = DOMAIN pod.containers
      /\ \A i \in DOMAIN pod.containers : pod'.containers[i].name = pod.containers[i].name
  BY <1>0, ApplyPlanPlaces
<1>10. /\ \A m \in DOMAIN a.mounts : hasVolume(pod'.volumes, a.mounts[m].volume)
       /\ \A m \in DOMAIN b.mounts : hasVolume(pod'.volumes, b.mounts[m].volume)
       /\ UniquePaths(a.mounts) /\ UniquePaths(b.mounts)
  <2>1. PICK vols : vols = pod'.volumes
    OBVIOUS
  <2>. QED
    BY <1>0, <1>1, <2>1, ApplyPlanChecked, ApplyPlanPlaces, HelperMountsValid, ZenonT(30)
<1>11. Apart(newInits', pod'.inits)
  BY <1>2, <1>4, <1>7, <1>8 DEF Apart
<1>12. Apart(newInits', pod'.containers)
  BY <1>4, <1>7, <1>8, <1>9 DEF Apart
<1>13. MountsValid(newInits', pod'.volumes)
  BY <1>4, <1>8, <1>9, <1>10 DEF MountsValid
<1>14. ServerAccepts(pod')
  <2>1. UniqueNames(pod'.containers)
    BY <1>4, <1>9 DEF UniqueNames
  <2>2. Apart(pod'.inits, pod'.containers)
    BY <1>2, <1>4, <1>9 DEF Apart
  <2>3. MountsValid(pod'.inits, pod'.volumes)
    BY <1>2, <1>4, <1>9 DEF MountsValid
  <2>4. UniqueNames(pod'.volumes) /\ UniqueNames(pod'.inits)
        /\ MountsValid(pod'.containers, pod'.volumes)
    BY <1>0, <1>2, <1>4, ApplyPlanPlaces
  <2>. QED
    BY <2>1, <2>2, <2>3, <2>4, Zenon DEF ServerAccepts
<1>15. Distinct(containersFromAnnotation(pod'))
  BY <1>2 DEF SafetyInv, containersFromAnnotation
<1>16. \A i \in DOMAIN pod'.containers : SafeContainer(pod'.containers[i])
  BY <1>9 DEF SafetyInv, SafeContainer
<1>. QED
  BY <1>8, <1>11, <1>12, <1>13, <1>14, <1>15, <1>16, Zenon DEF SafetyInv, QueuedHelpers

(* Prepending the queued helpers keeps the invariant.                      *)
LEMMA FinishSafe ==
  ASSUME TypeOK, SafetyInv, Finish
  PROVE  SafetyInv'
<1>1. pod \in Pod /\ phase = "applying" /\ phase' = "done"
  BY FinishAdds DEF TypeOK
<1>2. CASE applied = <<>>
  <2>1. pod' = pod
    BY <1>2, FinishAdds
  <2>. QED
    BY <1>1, <2>1 DEF SafetyInv, QueuedHelpers
<1>3. CASE applied # <<>>
  <2>1. /\ pod'.inits = newInits \o pod.inits
        /\ pod'.volumes = pod.volumes /\ pod'.containers = pod.containers
        /\ pod'.filter = pod.filter
    BY <1>3, FinishAdds
  <2>2. newInits \in Seq(Container) /\ pod.inits \in Seq(Container)
    BY DEF TypeOK, Pod
  <2>3. /\ UniqueNames(newInits) /\ Apart(newInits, pod.inits)
        /\ Apart(newInits, pod.containers) /\ MountsValid(newInits, pod.volumes)
    BY <1>1 DEF SafetyInv, QueuedHelpers
  <2>4. /\ UniqueNames(pod.inits) /\ Apart(pod.inits, pod.containers)
        /\ MountsValid(pod.inits, pod.volumes)
    BY DEF SafetyInv, ServerAccepts
  <2>5. UniqueNames(newInits \o pod.inits)
    BY <2>2, <2>3, <2>4, UniqueNamesConcat
  <2>6. \A k \in DOMAIN (newInits \o pod.inits) :
          \/ \E n \in DOMAIN newInits : (newInits \o pod.inits)[k] = newInits[n]
          \/ \E n \in DOMAIN pod.inits : (newInits \o pod.inits)[k] = pod.inits[n]
    BY <2>2, ConcatElements
  <2>7. Apart(newInits \o pod.inits, pod.containers)
    BY <2>3, <2>4, <2>6 DEF Apart
  <2>8. MountsValid(newInits \o pod.inits, pod.volumes)
    BY <2>3, <2>4, <2>6 DEF MountsValid
  <2>9. ServerAccepts(pod')
    BY <2>1, <2>5, <2>7, <2>8 DEF SafetyInv, ServerAccepts
  <2>10. containersFromAnnotation(pod') = containersFromAnnotation(pod)
    BY <2>1 DEF containersFromAnnotation
  <2>. QED
    BY <1>1, <2>1, <2>9, <2>10 DEF SafetyInv, QueuedHelpers
<1>. QED
  BY <1>2, <1>3

(* A sidecar from another webhook keeps the invariant: its name is new and *)
(* it mounts nothing.                                                      *)
LEMMA ReinvokeSafe ==
  ASSUME SafeInputs, TypeOK, SafetyInv, Reinvoke
  PROVE  SafetyInv'
<1>1. PICK c \in Sidecars :
        /\ c \in Container
        /\ ~hasContainerNamed(pod.containers \o pod.inits, c.name)
        /\ pod'.containers = Append(pod.containers, c)
        /\ pod'.inits = pod.inits /\ pod'.volumes = pod.volumes /\ pod'.filter = pod.filter
  BY ReinvokeAdds
<1>2. newInits' = <<>> /\ phase' = "called"
  BY ReinvokeAdds
<1>3. pod.containers \in Seq(Container) /\ pod.inits \in Seq(Container)
  BY DEF TypeOK, Pod
<1>4. SafeContainer(c) /\ c.mounts = <<>>
  BY DEF SafeInputs
<1>5. \A k \in DOMAIN pod'.containers :
        \/ k \in DOMAIN pod.containers /\ pod'.containers[k] = pod.containers[k]
        \/ k = Len(pod.containers) + 1 /\ pod'.containers[k] = c
  BY <1>1, <1>3
<1>. DEFINE own == pod.containers
            ini == pod.inits
<1>6. /\ \A k \in DOMAIN own : own[k].name # c.name
      /\ \A k \in DOMAIN ini : ini[k].name # c.name
  <2>1. own \in Seq(Container) /\ ini \in Seq(Container)
    BY <1>3
  <2>2. ~hasContainerNamed(own \o ini, c.name)
    BY <1>1
  <2>. HIDE DEF own, ini
  <2>3. \A k \in DOMAIN own : k \in DOMAIN (own \o ini) /\ (own \o ini)[k] = own[k]
    BY <2>1, ConcatList
  <2>4. \A k \in DOMAIN ini : \E j \in DOMAIN (own \o ini) : (own \o ini)[j] = ini[k]
    BY <2>1, ConcatContains
  <2>. QED
    BY <2>2, <2>3, <2>4, Zenon DEF hasContainerNamed
<1>7. UniqueNames(pod'.containers)
  BY <1>5, <1>6 DEF SafetyInv, ServerAccepts, UniqueNames
<1>8. Apart(pod'.inits, pod'.containers)
  BY <1>1, <1>5, <1>6, SMTT(30) DEF SafetyInv, ServerAccepts, Apart
<1>9. MountsValid(pod'.containers, pod'.volumes)
  <2>1. UniquePaths(c.mounts) /\ DOMAIN c.mounts = {}
    BY <1>4 DEF UniquePaths
  <2>. QED
    BY <1>1, <1>5, <2>1 DEF SafetyInv, ServerAccepts, MountsValid
<1>10. ServerAccepts(pod')
  BY <1>1, <1>7, <1>8, <1>9 DEF SafetyInv, ServerAccepts
<1>11. QueuedHelpers'
  BY <1>2 DEF QueuedHelpers, UniqueNames, Apart, MountsValid
<1>12. Distinct(containersFromAnnotation(pod'))
  BY <1>1 DEF SafetyInv, containersFromAnnotation
<1>13. \A i \in DOMAIN pod'.containers : SafeContainer(pod'.containers[i])
  BY <1>4, <1>5 DEF SafetyInv
<1>. QED
  BY <1>10, <1>11, <1>12, <1>13 DEF SafetyInv

(* Every step keeps the invariant.                                         *)
LEMMA SafetyStep ==
  ASSUME Counting, SafeInputs, TypeOK, SafetyInv, [Next]_vars
  PROVE  SafetyInv'
<1>1. CASE AlreadyInjected
  <2>1. pod' = pod /\ phase' = "done"
    BY <1>1, Zenon DEF AlreadyInjected
  <2>. QED
    BY <2>1 DEF SafetyInv, QueuedHelpers
<1>2. CASE BeginLoop
  <2>1. pod' = pod /\ newInits' = newInits /\ phase # "done"
    BY <1>2 DEF BeginLoop
  <2>. QED
    BY <2>1 DEF SafetyInv, QueuedHelpers
<1>3. CASE SkipOverBudget \/ SkipNoTarget \/ SkipCollision
  <2>1. pod' = pod /\ newInits' = newInits /\ phase' = phase
    BY <1>3, Zenon DEF SkipOverBudget, SkipNoTarget, SkipCollision, Skip
  <2>. QED
    BY <2>1 DEF SafetyInv, QueuedHelpers
<1>4. CASE UNCHANGED vars
  <2>1. pod' = pod /\ newInits' = newInits /\ phase' = phase
    BY <1>4 DEF vars
  <2>. QED
    BY <2>1 DEF SafetyInv, QueuedHelpers
<1>. QED
  BY <1>1, <1>2, <1>3, <1>4, ApplyPlanSafe, FinishSafe, ReinvokeSafe DEF Next

-----------------------------------------------------------------------------
(* What the applied plans have put into the pod.                           *)

NamesIn(volumes) == {volumes[i].name : i \in DOMAIN volumes}
VolumesOf(plan) == {socketVolumeName, plan.tokenVolume, configVolumeName(plan.name)}

(* The socket volume that a search by name finds is that driver's.         *)
FirstSocket(volumes, driver) ==
  \E i \in DOMAIN volumes : /\ volumes[i].name = socketVolumeName
                            /\ IsFirst(volumes, i)
                            /\ volumes[i].csi = driver

MountsOf(p, plan, i) ==
  IF i \in Targeted(p, resolveTargets(p, plan)) THEN Range(ContainerMounts(plan)) ELSE {}

(* The pod as it came, with what every applied plan adds and nothing else: *)
(* this is what lets the questions that the loop asks the pod it is        *)
(* changing be answered from the pod as it came and the applied plans.     *)
HoldsInv ==
  /\ Extends(base.volumes, pod.volumes)
  /\ NamesIn(pod.volumes)
       = NamesIn(base.volumes) \cup UNION {VolumesOf(plan) : plan \in Range(applied)}
  /\ ~hasVolume(base.volumes, socketVolumeName) =>
       \A plan \in Range(applied) : FirstSocket(pod.volumes, plan.csiDriver)
  /\ \A i \in DOMAIN pod.containers :
       Range(pod.containers[i].mounts)
         = Range(base.containers[i].mounts)
           \cup UNION {MountsOf(base, plan, i) : plan \in Range(applied)}

(* The names of two lists of volumes, one after the other.                 *)
LEMMA NamesConcat ==
  ASSUME NEW S, NEW s \in Seq(S), NEW t \in Seq(S)
  PROVE  NamesIn(s \o t) = NamesIn(s) \cup NamesIn(t)
<1>1. \A i \in DOMAIN (s \o t) : \/ \E k \in DOMAIN s : (s \o t)[i] = s[k]
                                 \/ \E k \in DOMAIN t : (s \o t)[i] = t[k]
  BY ConcatElements
<1>2. /\ \A k \in DOMAIN s : \E i \in DOMAIN (s \o t) : (s \o t)[i] = s[k]
      /\ \A k \in DOMAIN t : \E i \in DOMAIN (s \o t) : (s \o t)[i] = t[k]
  BY ConcatExtends, ConcatContains
<1>. QED
  BY <1>1, <1>2, SMTT(30) DEF NamesIn

(* The volumes of a plan are what addVolumes adds, if they are not there.  *)
LEMMA AddVolumesExact ==
  ASSUME NEW plan \in Plan, NEW volumes \in Seq(Volume)
  PROVE  NamesIn(addVolumes(volumes, plan)) = NamesIn(volumes) \cup VolumesOf(plan)
<1>. DEFINE socket == [name |-> socketVolumeName, csi |-> plan.csiDriver, items |-> <<>>]
            token == [name |-> plan.tokenVolume, csi |-> NotCSI, items |-> <<>>]
            config == [name |-> configVolumeName(plan.name), csi |-> NotCSI,
                       items |-> <<HelperConfAnnotation(plan.name)>> \o
                         [i \in DOMAIN plan.files |-> fileAnnotation(plan.name, i)]]
            U == Volume \cup {socket, token, config}
            before == IF hasVolume(volumes, socketVolumeName) THEN volumes
                      ELSE Append(volumes, socket)
            pair == <<token, config>>
<1>1. addVolumes(volumes, plan) = before \o pair
  BY DEF addVolumes
<1>2. /\ socket.name = socketVolumeName
      /\ token.name = plan.tokenVolume /\ config.name = configVolumeName(plan.name)
      /\ socket \in U /\ token \in U /\ config \in U
  OBVIOUS
<1>3. volumes \in Seq(U)
  BY ListWidened, Zenon
<1>. HIDE DEF socket, token, config, U
<1>4. pair \in Seq(U) /\ NamesIn(pair) = {token.name, config.name}
  BY <1>2 DEF NamesIn
<1>5. before \in Seq(U) /\ NamesIn(before) = NamesIn(volumes) \cup {socketVolumeName}
  <2>1. CASE hasVolume(volumes, socketVolumeName)
    BY <1>3, <2>1 DEF hasVolume, NamesIn
  <2>2. CASE ~hasVolume(volumes, socketVolumeName)
    <3>1. /\ Append(volumes, socket) \in Seq(U)
          /\ DOMAIN Append(volumes, socket) = DOMAIN volumes \cup {Len(volumes) + 1}
          /\ \A i \in DOMAIN volumes : Append(volumes, socket)[i] = volumes[i]
          /\ Append(volumes, socket)[Len(volumes) + 1] = socket
      BY <1>2, <1>3
    <3>. QED
      BY <1>2, <2>2, <3>1 DEF NamesIn
  <2>. QED
    BY <2>1, <2>2
<1>. HIDE DEF before, pair
<1>6. NamesIn(before \o pair) = NamesIn(before) \cup NamesIn(pair)
  BY <1>4, <1>5, NamesConcat
<1>. QED
  BY <1>1, <1>2, <1>4, <1>5, <1>6, Zenon DEF VolumesOf

(* The first socket volume of a list: there is at most one, there is one   *)
(* if the list has the name, and adding volumes behind it changes nothing. *)
LEMMA SocketFacts ==
  ASSUME Counting, NEW volumes \in Seq(Volume)
  PROVE  /\ \A d, e : FirstSocket(volumes, d) /\ FirstSocket(volumes, e) => d = e
         /\ hasVolume(volumes, socketVolumeName) <=> \E d : FirstSocket(volumes, d)
         /\ \A longer \in Seq(Volume) : \A d :
              Extends(volumes, longer) /\ FirstSocket(volumes, d) => FirstSocket(longer, d)
<1>1. DOMAIN volumes = 1..Len(volumes) /\ Len(volumes) \in Nat
  OBVIOUS
<1>2. ASSUME NEW d, NEW e, FirstSocket(volumes, d), FirstSocket(volumes, e)
      PROVE  d = e
  <2>1. PICK i \in DOMAIN volumes :
          volumes[i].name = socketVolumeName /\ IsFirst(volumes, i) /\ volumes[i].csi = d
    BY <1>2 DEF FirstSocket
  <2>2. PICK j \in DOMAIN volumes :
          volumes[j].name = socketVolumeName /\ IsFirst(volumes, j) /\ volumes[j].csi = e
    BY <1>2 DEF FirstSocket
  <2>3. i \in Nat /\ j \in Nat /\ i >= 1 /\ j >= 1
    BY <1>1
  <2>4. ~(i < j) /\ ~(j < i)
    BY <2>1, <2>2, <2>3 DEF IsFirst
  <2>5. i = j
    BY <2>3, <2>4
  <2>. QED
    BY <2>1, <2>2, <2>5
<1>3. hasVolume(volumes, socketVolumeName) <=> \E d : FirstSocket(volumes, d)
  <2>1. hasVolume(volumes, socketVolumeName) =>
          \E i \in DOMAIN volumes : volumes[i].name = socketVolumeName /\ IsFirst(volumes, i)
    BY FirstOfName, Zenon DEF hasVolume
  <2>. QED
    BY <2>1, Zenon DEF hasVolume, FirstSocket
<1>4. ASSUME NEW longer \in Seq(Volume), NEW d, Extends(volumes, longer),
             FirstSocket(volumes, d)
      PROVE  FirstSocket(longer, d)
  <2>1. PICK i \in DOMAIN volumes :
          volumes[i].name = socketVolumeName /\ IsFirst(volumes, i) /\ volumes[i].csi = d
    BY <1>4 DEF FirstSocket
  <2>2. \A k \in DOMAIN volumes : k \in DOMAIN longer /\ longer[k] = volumes[k]
    BY <1>4, ExtendsKeeps
  <2>3. \A k \in 1..(i - 1) : k \in DOMAIN volumes
    BY <1>1
  <2>. QED
    BY <2>1, <2>2, <2>3 DEF FirstSocket, IsFirst
<1>. QED
  BY <1>2, <1>3, <1>4

(* checkSocketVolume asks for the driver of the first socket volume.       *)
LEMMA SocketChecked ==
  ASSUME NEW p, NEW plan
  PROVE  checkSocketVolume(p, plan) <=>
           \E d : FirstSocket(p.volumes, d) /\ d # plan.csiDriver
BY Zenon DEF checkSocketVolume, FirstSocket

(* A plan that passes the check finds its driver's socket volume.          *)
LEMMA SocketAdded ==
  ASSUME Counting, NEW plan \in Plan, NEW volumes \in Seq(Volume),
         \A d : FirstSocket(volumes, d) => d = plan.csiDriver
  PROVE  FirstSocket(addVolumes(volumes, plan), plan.csiDriver)
<1>. DEFINE new == addVolumes(volumes, plan)
<1>1. /\ Extends(volumes, new) /\ new \in Seq(Volume)
      /\ ~hasVolume(volumes, socketVolumeName) =>
           \E i \in DOMAIN new : /\ i = Len(volumes) + 1
                                 /\ new[i].name = socketVolumeName
                                 /\ new[i].csi = plan.csiDriver
  BY AddVolumesGrow, AddVolumesType
<1>. HIDE DEF new
<1>2. CASE hasVolume(volumes, socketVolumeName)
  BY <1>1, <1>2, SocketFacts DEF new
<1>3. CASE ~hasVolume(volumes, socketVolumeName)
  <2>1. PICK i \in DOMAIN new : /\ i = Len(volumes) + 1
                                /\ new[i].name = socketVolumeName
                                /\ new[i].csi = plan.csiDriver
    BY <1>1, <1>3
  <2>2. \A k \in 1..(i - 1) : k \in DOMAIN volumes
    BY <2>1
  <2>3. \A k \in DOMAIN volumes : new[k] = volumes[k]
    BY <1>1, ExtendsKeeps
  <2>4. IsFirst(new, i)
    BY <1>3, <2>1, <2>2, <2>3 DEF IsFirst, hasVolume
  <2>. QED
    BY <2>1, <2>4, Zenon DEF FirstSocket, new
<1>. QED
  BY <1>2, <1>3

(* The mounts that a plan gives a container: its token directory, and its  *)
(* files from the volume of its annotations.                               *)
LEMMA ContainerMountsAre ==
  ASSUME NEW plan \in Plan
  PROVE  /\ \A m \in Range(ContainerMounts(plan)) :
              \/ /\ m.path = plan.mountPath /\ m.volume = plan.tokenVolume
                 /\ m.subPath = 0
              \/ \E f \in DOMAIN plan.files :
                   m.path = plan.files[f].path /\ m.volume = configVolumeName(plan.name)
         /\ {m.path : m \in Range(ContainerMounts(plan))} = mountPaths(plan)
<1>1. PICK a, rest :
        /\ a = [path |-> plan.mountPath, volume |-> plan.tokenVolume, subPath |-> 0,
                readOnly |-> TRUE]
        /\ rest = [i \in DOMAIN plan.files |->
                     [path |-> plan.files[i].path, volume |-> configVolumeName(plan.name),
                      subPath |-> i + 1, readOnly |-> TRUE]]
        /\ ContainerMounts(plan) = <<a>> \o rest
  BY Zenon DEF ContainerMounts
<1>2. plan.files \in Seq(File)
  BY DEF Plan
<1>3. PICK U : a \in U /\ rest \in Seq(U)
  <2>1. PICK U : U = {a} \cup {rest[i] : i \in DOMAIN plan.files}
    BY Zenon
  <2>2. /\ DOMAIN rest = DOMAIN plan.files /\ rest = [i \in DOMAIN plan.files |-> rest[i]]
        /\ DOMAIN plan.files = 1..Len(plan.files) /\ Len(plan.files) \in Nat
    BY <1>1, <1>2
  <2>3. rest \in Seq(U)
    BY <2>1, <2>2
  <2>. QED
    BY <2>1, <2>3
<1>4. /\ a.path = plan.mountPath /\ a.volume = plan.tokenVolume /\ a.subPath = 0
      /\ \A f \in DOMAIN rest : /\ f \in DOMAIN plan.files
                                /\ rest[f].path = plan.files[f].path
                                /\ rest[f].volume = configVolumeName(plan.name)
  BY <1>1
<1>5. \A m \in Range(ContainerMounts(plan)) : m = a \/ \E f \in DOMAIN rest : m = rest[f]
  <2>1. <<a>> \in Seq(U) /\ \A k \in DOMAIN <<a>> : <<a>>[k] = a
    BY <1>3
  <2>2. PICK one : one = <<a>>
    BY Zenon
  <2>3. one \in Seq(U) /\ (\A k \in DOMAIN one : one[k] = a) /\ ContainerMounts(plan) = one \o rest
    BY <1>1, <2>1, <2>2, Zenon
  <2>4. \A k \in DOMAIN (one \o rest) : \/ k \in DOMAIN one /\ (one \o rest)[k] = one[k]
                                        \/ \E f \in DOMAIN rest : (one \o rest)[k] = rest[f]
    BY <1>3, <2>3, ConcatElements
  <2>. QED
    BY <2>3, <2>4 DEF Range
<1>7. \A m \in Range(ContainerMounts(plan)) :
        \/ m.path = plan.mountPath /\ m.volume = plan.tokenVolume /\ m.subPath = 0
        \/ \E f \in DOMAIN plan.files :
             m.path = plan.files[f].path /\ m.volume = configVolumeName(plan.name)
  BY <1>4, <1>5, ZenonT(30)
<1>6. /\ \E m \in Range(ContainerMounts(plan)) : m.path = plan.mountPath
      /\ \A f \in DOMAIN plan.files :
           \E m \in Range(ContainerMounts(plan)) : m.path = plan.files[f].path
  BY ContainerMountsHave
<1>. QED
  BY <1>6, <1>7 DEF mountPaths, Range

(* An injection adds the plan's mounts to the containers it is for.        *)
LEMMA InjectExact ==
  ASSUME Counting, NEW plan \in Plan, NEW p \in Pod, NEW i \in DOMAIN p.containers
  PROVE  Range(injectIntoContainers(p, plan, resolveTargets(p, plan))[i].mounts)
           = Range(p.containers[i].mounts)
             \cup IF i \in Targeted(p, resolveTargets(p, plan))
                  THEN Range(ContainerMounts(plan)) ELSE {}
<1>. DEFINE targets == resolveTargets(p, plan)
            c == p.containers[i]
            cm == ContainerMounts(plan)
            new == injectIntoContainers(p, plan, targets)[i]
<1>1. c \in Container
  BY DEF Pod
<1>2. c.mounts \in Seq(Mount)
  BY <1>1 DEF Container
<1>3. CASE i \notin Targeted(p, targets)
  BY <1>3, ZenonT(30) DEF injectIntoContainers
<1>4. CASE i \in Targeted(p, targets)
  <2>. DEFINE n == Visits(targets, c.name)
  <2>1. new = [c EXCEPT !.mounts = c.mounts \o Repeat(cm, n),
                        !.env = c.env \cup MissingEnv(c, plan)]
    BY <1>4, Zenon DEF injectIntoContainers
  <2>2. n \in Nat \ {0}
    BY <1>4, TargetsType DEF Targeted
  <2>3. cm \in Seq(Mount) /\ Len(cm) > 0
    BY ContainerMountsType
  <2>. HIDE DEF n, c, cm, new, targets
  <2>4. new.mounts = c.mounts \o Repeat(cm, n)
    BY <1>1, <2>1 DEF Container
  <2>5. Repeat(cm, n) \in Seq(Mount)
    BY <2>2, <2>3, RepeatType
  <2>6. Range(Repeat(cm, n)) = Range(cm)
    <3>1. Range(cm) \subseteq Range(Repeat(cm, n))
      BY <2>2, <2>3, RepeatCovers
    <3>2. ASSUME NEW k \in DOMAIN Repeat(cm, n)
          PROVE  Repeat(cm, n)[k] \in Range(cm)
      <4>1. k \in 1..(n * Len(cm)) /\ Repeat(cm, n)[k] = cm[((k - 1) % Len(cm)) + 1]
        BY <3>2 DEF Repeat
      <4>2. ((k - 1) % Len(cm)) + 1 \in 1..Len(cm)
        BY <2>3, <4>1
      <4>. QED
        BY <2>3, <4>1, <4>2 DEF Range
    <3>. QED
      BY <3>1, <3>2 DEF Range
  <2>7. Range(c.mounts \o Repeat(cm, n)) = Range(c.mounts) \cup Range(Repeat(cm, n))
    <3>1. \A j \in DOMAIN (c.mounts \o Repeat(cm, n)) :
            \/ (c.mounts \o Repeat(cm, n))[j] \in Range(c.mounts)
            \/ (c.mounts \o Repeat(cm, n))[j] \in Range(Repeat(cm, n))
      BY <1>2, <2>5, ConcatElements DEF Range
    <3>2. /\ \A j \in DOMAIN c.mounts : /\ j \in DOMAIN (c.mounts \o Repeat(cm, n))
                                        /\ (c.mounts \o Repeat(cm, n))[j] = c.mounts[j]
          /\ Range(Repeat(cm, n)) \subseteq Range(c.mounts \o Repeat(cm, n))
      BY <1>2, <2>5, ConcatExtends
    <3>. QED
      BY <3>1, <3>2 DEF Range
  <2>. QED
    BY <1>4, <2>4, <2>6, <2>7 DEF c, cm, new, targets
<1>. QED
  BY <1>3, <1>4

(* A call starts with nothing applied.                                     *)
LEMMA HoldsStart ==
  ASSUME TypeOK, applied = <<>>, pod = base
  PROVE  HoldsInv
<1>1. Range(applied) = {}
  BY DEF Range
<1>2. base.volumes \in Seq(Volume)
  BY DEF TypeOK, Pod
<1>3. Extends(base.volumes, base.volumes)
  BY <1>2, SMTT(30) DEF Extends
<1>. QED
  BY <1>1, <1>3, Zenon DEF HoldsInv

(* Applying a plan adds what is the plan's.                                *)
LEMMA HoldsApply ==
  ASSUME Counting, TypeOK, CallInv, HoldsInv, ApplyPlan
  PROVE  HoldsInv'
<1>0. PICK plan : plan = plans[at]
  BY SMTT(30)
<1>1. /\ plan \in Plan /\ pod \in Pod /\ pod' \in Pod /\ base' = base /\ base \in Pod
      /\ SameSelection(pod, base)
      /\ ~checkCollisions(pod, plan, newInits, resolveTargets(pod, plan))
      /\ pod'.volumes = addVolumes(pod.volumes, plan)
      /\ pod'.containers = injectIntoContainers(pod, plan, resolveTargets(pod, plan))
  BY <1>0, ApplyPlanAdds DEF CallInv, TypeOK
<1>2. Range(applied') = Range(applied) \cup {plan}
  <2>1. applied' = Append(applied, plan) /\ applied \in Seq(Plan)
    BY <1>0, ApplyPlanAdds DEF TypeOK
  <2>. QED
    BY <1>1, <2>1, AppendRange
<1>3. base.volumes \in Seq(Volume) /\ pod.volumes \in Seq(Volume) /\ pod'.volumes \in Seq(Volume)
  BY <1>1 DEF Pod
<1>5. Extends(pod.volumes, pod'.volumes)
  BY <1>1, <1>3, AddVolumesGrow, ZenonT(30)
<1>6. Extends(base.volumes, pod'.volumes)
  BY <1>3, <1>5, ExtendsTrans DEF HoldsInv
<1>7. NamesIn(pod'.volumes)
        = NamesIn(base.volumes) \cup UNION {VolumesOf(q) : q \in Range(applied')}
  <2>1. NamesIn(pod'.volumes) = NamesIn(pod.volumes) \cup VolumesOf(plan)
    BY <1>1, <1>3, AddVolumesExact, Zenon
  <2>2. UNION {VolumesOf(q) : q \in Range(applied')}
          = (UNION {VolumesOf(q) : q \in Range(applied)}) \cup VolumesOf(plan)
    BY <1>2
  <2>3. NamesIn(pod.volumes)
          = NamesIn(base.volumes) \cup UNION {VolumesOf(q) : q \in Range(applied)}
    BY DEF HoldsInv
  <2>. QED
    BY <2>1, <2>2, <2>3, Zenon
<1>8. ASSUME ~hasVolume(base.volumes, socketVolumeName), NEW q \in Range(applied')
      PROVE  FirstSocket(pod'.volumes, q.csiDriver)
  <2>1. CASE q = plan
    <3>1. ~checkSocketVolume(pod, plan)
      BY <1>1, Zenon DEF checkCollisions
    <3>2. \A d : FirstSocket(pod.volumes, d) => d = plan.csiDriver
      BY <3>1, SocketChecked, Zenon
    <3>. QED
      BY <1>1, <1>3, <2>1, <3>2, SocketAdded, Zenon
  <2>2. CASE q \in Range(applied)
    <3>1. FirstSocket(pod.volumes, q.csiDriver)
      BY <1>8, <2>2, Zenon DEF HoldsInv
    <3>. QED
      BY <1>3, <1>5, <3>1, SocketFacts, Zenon
  <2>. QED
    BY <1>2, <2>1, <2>2
<1>9. ASSUME NEW i \in DOMAIN pod'.containers
      PROVE  Range(pod'.containers[i].mounts)
               = Range(base.containers[i].mounts)
                 \cup UNION {MountsOf(base, q, i) : q \in Range(applied')}
  <2>1. i \in DOMAIN pod.containers
    BY <1>1, <1>9, ApplyPlanAdds DEF SameSelection
  <2>2. Range(pod'.containers[i].mounts) = Range(pod.containers[i].mounts) \cup MountsOf(base, plan, i)
    <3>1. Targeted(pod, resolveTargets(pod, plan)) = Targeted(base, resolveTargets(base, plan))
      BY <1>1, SelectionStable, ZenonT(30)
    <3>. QED
      BY <1>1, <2>1, <3>1, InjectExact DEF MountsOf
  <2>3. UNION {MountsOf(base, q, i) : q \in Range(applied')}
          = (UNION {MountsOf(base, q, i) : q \in Range(applied)}) \cup MountsOf(base, plan, i)
    BY <1>2
  <2>4. Range(pod.containers[i].mounts)
          = Range(base.containers[i].mounts) \cup UNION {MountsOf(base, q, i) : q \in Range(applied)}
    BY <2>1 DEF HoldsInv
  <2>. QED
    BY <2>2, <2>3, <2>4, ZenonT(30)
<1>. QED
  BY <1>1, <1>6, <1>7, <1>8, <1>9 DEF HoldsInv

(* Every step keeps what HoldsInv says.                                    *)
LEMMA HoldsStep ==
  ASSUME Counting, TypeOK, TypeOK', CallInv, CallInv', HoldsInv, [Next]_vars
  PROVE  HoldsInv'
<1>1. CASE \/ AlreadyInjected \/ BeginLoop \/ SkipOverBudget \/ SkipNoTarget
           \/ SkipCollision \/ UNCHANGED vars
  <2>1. pod' = pod /\ base' = base /\ applied' = applied
    BY <1>1, Zenon DEF AlreadyInjected, BeginLoop, SkipOverBudget, SkipNoTarget,
                       SkipCollision, Skip, vars
  <2>. QED
    BY <2>1 DEF HoldsInv
<1>2. CASE Finish
  <2>1. /\ base' = base /\ applied' = applied
        /\ pod'.volumes = pod.volumes /\ pod'.containers = pod.containers
    BY <1>2, FinishAdds
  <2>. QED
    BY <2>1 DEF HoldsInv
<1>3. CASE Reinvoke
  <2>1. applied' = <<>> /\ base' = pod'
    BY <1>3, ReinvokeAdds
  <2>2. Range(applied') = {} /\ base'.volumes \in Seq(Volume)
    BY <2>1 DEF Range, TypeOK, Pod
  <2>3. Extends(base'.volumes, base'.volumes)
    BY <2>2 DEF Extends
  <2>. QED
    BY <2>1, <2>2, <2>3, Zenon DEF HoldsInv
<1>. QED
  BY <1>1, <1>2, <1>3, HoldsApply, SMTT(30) DEF Next

(* Names that are built from different shims, or for different things,     *)
(* differ.                                                                 *)
LEMMA NamesApart ==
  ASSUME NEW a, NEW b
  PROVE  /\ configVolumeName(a) # socketVolumeName
         /\ configVolumeName(a) = configVolumeName(b) => a = b
         /\ initContainerName(a) = initContainerName(b) => a = b
         /\ refreshContainerName(a) = refreshContainerName(b) => a = b
         /\ initContainerName(a) # refreshContainerName(b)
<1>1. configVolumeName(a) # socketVolumeName
  BY DEF configVolumeName, socketVolumeName
<1>2. \A c : /\ configVolumeName(c)[2] = c /\ initContainerName(c)[2] = c
             /\ refreshContainerName(c)[2] = c
             /\ initContainerName(c)[1] = "oidcshim-init-"
             /\ refreshContainerName(c)[1] = "oidcshim-refresh-"
  BY DEF configVolumeName, initContainerName, refreshContainerName
<1>3. "oidcshim-init-" # "oidcshim-refresh-"
  OBVIOUS
<1>. QED
  BY <1>1, <1>2, <1>3

(* A waiting helper with a plan's names belongs to a plan of its name.     *)
LEMMA QueuedNames ==
  ASSUME NEW list \in Seq(Plan), NEW shim,
         NEW name \in {initContainerName(shim), refreshContainerName(shim)},
         hasContainerNamed(HelpersOf(list), name)
  PROVE  \E q \in Range(list) : q.name = shim
<1>1. PICK n \in 1..(2 * Len(list)) : HelpersOf(list)[n].name = name
  BY DEF hasContainerNamed, HelpersOf
<1>2. (n + 1) \div 2 \in DOMAIN list
  <2>1. Len(list) \in Nat /\ DOMAIN list = 1..Len(list)
    OBVIOUS
  <2>. QED
    BY <2>1
<1>3. PICK q \in Range(list) : q = list[(n + 1) \div 2]
  BY <1>2 DEF Range
<1>4. HelpersOf(list)[n] = helperContainer(q, n % 2 = 0)
  BY <1>3 DEF HelpersOf
<1>5. HelpersOf(list)[n].name \in {initContainerName(q.name), refreshContainerName(q.name)}
  BY <1>4 DEF helperContainer
<1>. QED
  BY <1>1, <1>5, NamesApart, Zenon

(* The helpers that wait in newInits never decide a collision: the plan    *)
(* that queued one of that name has its config volume on the pod already.  *)
LEMMA PendingRedundant ==
  ASSUME TypeOK, CallInv, HoldsInv, phase = "applying", NEW plan \in Plan, NEW targets
  PROVE  checkCollisions(pod, plan, newInits, targets)
           <=> checkCollisions(pod, plan, <<>>, targets)
<1>1. applied \in Seq(Plan) /\ newInits = HelpersOf(applied)
  BY Zenon DEF TypeOK, CallInv
<1>2. \A name : ~hasContainerNamed(<<>>, name)
  BY DEF hasContainerNamed
<1>3. ASSUME NEW name \in {initContainerName(plan.name), refreshContainerName(plan.name)},
             hasContainerNamed(newInits, name)
      PROVE  hasVolume(pod.volumes, configVolumeName(plan.name))
  <2>1. PICK q \in Range(applied) : q.name = plan.name
    BY <1>1, <1>3, QueuedNames
  <2>2. configVolumeName(plan.name) \in VolumesOf(q)
    BY <2>1 DEF VolumesOf
  <2>3. configVolumeName(plan.name) \in NamesIn(pod.volumes)
    BY <2>2, Zenon DEF HoldsInv
  <2>. QED
    BY <2>3 DEF NamesIn, hasVolume
<1>. QED
  BY <1>2, <1>3, Zenon DEF checkCollisions

(* The loop asks the pod it is changing and the waiting helpers; the       *)
(* answer is the one of the pod as it came, or a conflict with a plan that *)
(* is already applied.                                                     *)
LEMMA CollisionSplit ==
  ASSUME Counting, TypeOK, CallInv, HoldsInv, phase = "applying", NEW plan \in Plan
  PROVE  checkCollisions(pod, plan, newInits, resolveTargets(pod, plan)) <=>
           \/ checkCollisions(base, plan, <<>>, resolveTargets(base, plan))
           \/ \E q \in Range(applied) : Conflict(plan, q)
<1>0. /\ pod \in Pod /\ base \in Pod /\ applied \in Seq(Plan) /\ newInits = HelpersOf(applied)
      /\ pod.volumes \in Seq(Volume) /\ base.volumes \in Seq(Volume)
      /\ SameSelection(pod, base) /\ pod.inits = base.inits
  BY Zenon DEF TypeOK, CallInv, Pod
<1>1. /\ Targeted(pod, resolveTargets(pod, plan)) = TargetsOf(plan)
      /\ Targeted(base, resolveTargets(base, plan)) = TargetsOf(plan)
  BY <1>0, SelectionStable, Zenon DEF TargetsOf
<1>2. /\ \A name : hasVolume(pod.volumes, name) <=> name \in NamesIn(pod.volumes)
      /\ \A name : hasVolume(base.volumes, name) <=> name \in NamesIn(base.volumes)
  BY DEF hasVolume, NamesIn
<1>3. \A name : hasVolume(pod.volumes, name) <=>
        hasVolume(base.volumes, name) \/ \E q \in Range(applied) : name \in VolumesOf(q)
  BY <1>2, Zenon DEF HoldsInv
<1>4. \A i \in TargetsOf(plan) : \A path :
        hasMountPath(pod.containers[i], path) <=>
          \/ hasMountPath(base.containers[i], path)
          \/ \E q \in Range(applied) : i \in TargetsOf(q) /\ path \in mountPaths(q)
  <2>. SUFFICES ASSUME NEW i \in TargetsOf(plan), NEW path
                PROVE  hasMountPath(pod.containers[i], path) <=>
                         \/ hasMountPath(base.containers[i], path)
                         \/ \E q \in Range(applied) : i \in TargetsOf(q) /\ path \in mountPaths(q)
    BY Zenon
  <2>1. i \in DOMAIN pod.containers
    BY <1>0 DEF TargetsOf, Targeted, SameSelection
  <2>2. \A m : m \in Range(pod.containers[i].mounts) <=>
          \/ m \in Range(base.containers[i].mounts)
          \/ \E q \in Range(applied) : i \in TargetsOf(q) /\ m \in Range(ContainerMounts(q))
    <3>1. Range(pod.containers[i].mounts)
            = Range(base.containers[i].mounts)
              \cup UNION {MountsOf(base, q, i) : q \in Range(applied)}
      BY <2>1, Zenon DEF HoldsInv
    <3>2. \A q, m : m \in MountsOf(base, q, i) <=>
            i \in TargetsOf(q) /\ m \in Range(ContainerMounts(q))
      BY DEF MountsOf, TargetsOf
    <3>. QED
      BY <3>1, <3>2
  <2>3. \A c : hasMountPath(c, path) <=> \E m \in Range(c.mounts) : m.path = path
    BY Zenon DEF hasMountPath, Range
  <2>4. \A q \in Range(applied) :
          path \in mountPaths(q) <=> \E m \in Range(ContainerMounts(q)) : m.path = path
    <3>1. \A q \in Range(applied) : q \in Plan
      BY <1>0 DEF Range
    <3>. QED
      BY <3>1, ContainerMountsAre
  <2>. QED
    BY <2>2, <2>3, <2>4, Zenon
<1>5. checkSocketVolume(pod, plan) <=>
        \/ checkSocketVolume(base, plan)
        \/ /\ ~hasVolume(base.volumes, socketVolumeName)
           /\ \E q \in Range(applied) : plan.csiDriver # q.csiDriver
  <2>1. CASE hasVolume(base.volumes, socketVolumeName)
    <3>1. PICK d : FirstSocket(base.volumes, d)
      BY <1>0, <2>1, SocketFacts, Zenon
    <3>2. FirstSocket(pod.volumes, d)
      BY <1>0, <3>1, SocketFacts, Zenon DEF HoldsInv
    <3>3. /\ \A e : FirstSocket(base.volumes, e) => e = d
          /\ \A e : FirstSocket(pod.volumes, e) => e = d
      BY <1>0, <3>1, <3>2, SocketFacts, Zenon
    <3>. QED
      BY <2>1, <3>1, <3>2, <3>3, SocketChecked, Zenon
  <2>2. CASE ~hasVolume(base.volumes, socketVolumeName)
    <3>1. ~checkSocketVolume(base, plan)
      BY <1>0, <2>2, SocketFacts, SocketChecked, Zenon
    <3>2. \A q \in Range(applied) : FirstSocket(pod.volumes, q.csiDriver)
      BY <2>2, Zenon DEF HoldsInv
    <3>3. ASSUME checkSocketVolume(pod, plan)
          PROVE  \E q \in Range(applied) : plan.csiDriver # q.csiDriver
      <4>1. PICK d : FirstSocket(pod.volumes, d) /\ d # plan.csiDriver
        BY <3>3, SocketChecked, Zenon
      <4>2. hasVolume(pod.volumes, socketVolumeName)
        BY <1>0, <4>1, SocketFacts, Zenon
      <4>3. PICK q \in Range(applied) : TRUE
        BY <1>3, <2>2, <4>2, Zenon
      <4>4. q.csiDriver = d
        BY <1>0, <3>2, <4>1, SocketFacts, Zenon
      <4>. QED
        BY <4>1, <4>4, Zenon
    <3>4. ASSUME NEW q \in Range(applied), plan.csiDriver # q.csiDriver
          PROVE  checkSocketVolume(pod, plan)
      BY <3>2, <3>4, SocketChecked, Zenon
    <3>. QED
      BY <2>2, <3>1, <3>3, <3>4, Zenon
  <2>. QED
    BY <2>1, <2>2
<1>6. ASSUME checkCollisions(pod, plan, newInits, resolveTargets(pod, plan)),
             ~checkCollisions(base, plan, <<>>, resolveTargets(base, plan))
      PROVE  \E q \in Range(applied) : Conflict(plan, q)
  <2>1. CASE checkSocketVolume(pod, plan)
    BY <1>5, <1>6, <2>1, Zenon DEF checkCollisions, Conflict
  <2>2. CASE hasVolume(pod.volumes, plan.tokenVolume)
    BY <1>3, <1>6, <2>2, Zenon DEF checkCollisions, Conflict, VolumesOf
  <2>3. CASE hasVolume(pod.volumes, configVolumeName(plan.name))
    <3>1. PICK q \in Range(applied) : configVolumeName(plan.name) \in VolumesOf(q)
      BY <1>3, <1>6, <2>3, Zenon DEF checkCollisions
    <3>2. plan.name = q.name \/ q.tokenVolume = configVolumeName(plan.name)
      BY <3>1, NamesApart, Zenon DEF VolumesOf
    <3>. QED
      BY <3>2, Zenon DEF Conflict
  <2>4. ASSUME NEW name \in {initContainerName(plan.name), refreshContainerName(plan.name)},
               hasContainerNamed(pod.inits, name) \/ hasContainerNamed(newInits, name)
        PROVE  \E q \in Range(applied) : Conflict(plan, q)
    <3>1. ~hasContainerNamed(pod.inits, name)
      BY <1>0, <1>6, Zenon DEF checkCollisions
    <3>2. hasContainerNamed(HelpersOf(applied), name)
      BY <1>0, <2>4, <3>1, Zenon
    <3>3. PICK q \in Range(applied) : q.name = plan.name
      BY <1>0, <3>2, QueuedNames, Zenon
    <3>. QED
      BY <3>3, Zenon DEF Conflict
  <2>5. ASSUME NEW i \in TargetsOf(plan), NEW path \in mountPaths(plan),
               hasMountPath(pod.containers[i], path)
        PROVE  \E q \in Range(applied) : Conflict(plan, q)
    <3>1. ~hasMountPath(base.containers[i], path)
      BY <1>1, <1>6, Zenon DEF checkCollisions
    <3>2. PICK q \in Range(applied) : i \in TargetsOf(q) /\ path \in mountPaths(q)
      BY <1>4, <2>5, <3>1, Zenon
    <3>3. /\ TargetsOf(plan) \cap TargetsOf(q) # {}
          /\ mountPaths(plan) \cap mountPaths(q) # {}
      BY <3>2, Zenon
    <3>. QED
      BY <3>3, Zenon DEF Conflict
  <2>. QED
    BY <1>1, <1>6, <2>1, <2>2, <2>3, <2>4, <2>5, Zenon DEF checkCollisions
<1>7. ASSUME checkCollisions(base, plan, <<>>, resolveTargets(base, plan))
      PROVE  checkCollisions(pod, plan, newInits, resolveTargets(pod, plan))
  <2>1. \A name : ~hasContainerNamed(<<>>, name)
    BY DEF hasContainerNamed
  <2>. QED
    BY <1>0, <1>1, <1>3, <1>4, <1>5, <1>7, <2>1, Zenon DEF checkCollisions
<1>8. ASSUME NEW q \in Range(applied), Conflict(plan, q)
      PROVE  checkCollisions(pod, plan, newInits, resolveTargets(pod, plan))
  <2>1. CASE plan.name = q.name
    BY <1>3, <2>1, Zenon DEF checkCollisions, VolumesOf
  <2>2. CASE plan.tokenVolume \in VolumesOf(q)
    BY <1>3, <2>2, Zenon DEF checkCollisions
  <2>3. CASE q.tokenVolume = configVolumeName(plan.name)
    BY <1>3, <2>3, Zenon DEF checkCollisions, VolumesOf
  <2>4. CASE plan.csiDriver # q.csiDriver /\ ~hasVolume(base.volumes, socketVolumeName)
    BY <1>5, <2>4, Zenon DEF checkCollisions
  <2>5. CASE /\ TargetsOf(plan) \cap TargetsOf(q) # {}
             /\ mountPaths(plan) \cap mountPaths(q) # {}
    <3>1. PICK i \in TargetsOf(plan) : i \in TargetsOf(q)
      BY <2>5, Zenon
    <3>2. PICK path \in mountPaths(plan) : path \in mountPaths(q)
      BY <2>5, Zenon
    <3>3. hasMountPath(pod.containers[i], path)
      BY <1>4, <3>1, <3>2, Zenon
    <3>. QED
      BY <1>1, <3>1, <3>2, <3>3, Zenon DEF checkCollisions
  <2>. QED
    BY <1>8, <2>1, <2>2, <2>3, <2>4, <2>5, Zenon DEF Conflict, VolumesOf
<1>. QED
  BY <1>6, <1>7, <1>8, ZenonT(30)

-----------------------------------------------------------------------------
(* Which plans are applied.                                                *)

(* What the proof below takes from the theory of finite sets about sums;   *)
(* InjectionProofs proves it.                                              *)
Adding ==
  /\ \A f : DOMAIN f = {} => Total(f) = 0
  /\ \A n \in Nat : \A f, g : \A x \in (1..n) \ DOMAIN f :
       /\ DOMAIN f \subseteq 1..n /\ DOMAIN g = DOMAIN f \cup {x}
       /\ f \in [DOMAIN f -> Nat] /\ g \in [DOMAIN g -> Nat]
       /\ \A y \in DOMAIN f : g[y] = f[y]
       => Total(g) = Total(f) + g[x]

(* Behind the loop exactly the plans that fit are applied; addedBytes is   *)
(* what they weigh.                                                        *)
ChosenInv ==
  /\ \A k \in 1..(at - 1) : plans[k] \in Range(applied) <=> ~Unfit(k)
  /\ Range(applied) = {plans[j] : j \in AppliedBefore(at)}
  /\ addedBytes = BytesAt(plans, AppliedBefore(at))
  /\ phase = "called" => at = 1
  /\ phase = "done" => Injected(base) \/ at = Len(plans) + 1

(* The loop asks of the plan at hand what Unfit asks.                      *)
LEMMA UnfitNow ==
  ASSUME Counting, TypeOK, CallInv, HoldsInv, ChosenInv, InLoop
  PROVE  Unfit(at) <=>
           \/ OverBudget(plans[at]) \/ NoTarget(plans[at])
           \/ checkCollisions(pod, plans[at], newInits, resolveTargets(pod, plans[at]))
<1>1. plans[at] \in Plan /\ pod \in Pod /\ base \in Pod /\ phase = "applying"
  BY CurrentPlan DEF TypeOK, InLoop
<1>2. SameSelection(pod, base)
  BY DEF CallInv
<1>3. NoTarget(plans[at]) <=> /\ DOMAIN Requested(base, plans[at]) # {}
                              /\ DOMAIN resolveTargets(base, plans[at]) = {}
  BY <1>1, <1>2, SelectionStable, ZenonT(30) DEF NoTarget
<1>4. OverBudget(plans[at]) <=>
        annotationBytes(base) + BytesAt(plans, AppliedBefore(at))
        + renderedBytes(plans[at]) > MaxPodAnnotationBytes
  BY Zenon DEF OverBudget, ChosenInv
<1>5. (\E q \in Range(applied) : Conflict(plans[at], q)) <=>
        \E j \in AppliedBefore(at) : Conflict(plans[at], plans[j])
  BY Zenon DEF ChosenInv
<1>6. checkCollisions(pod, plans[at], newInits, resolveTargets(pod, plans[at])) <=>
        \/ checkCollisions(base, plans[at], <<>>, resolveTargets(base, plans[at]))
        \/ \E q \in Range(applied) : Conflict(plans[at], q)
  BY <1>1, CollisionSplit, Zenon
<1>. QED
  BY <1>3, <1>4, <1>5, <1>6, Zenon DEF Unfit

(* What a pass of the loop does to the plan at hand says nothing about the *)
(* plans before it.                                                        *)
LEMMA UnfitKept ==
  ASSUME KeysIdentify, TypeOK, InLoop, base' = base, plans' = plans,
         Range(applied) \subseteq Range(applied'),
         Range(applied') \subseteq Range(applied) \cup {plans[at]},
         NEW k \in 1..at
  PROVE  AppliedBefore(k)' = AppliedBefore(k) /\ (Unfit(k)' <=> Unfit(k))
<1>1. \A j \in 1..(k - 1) : plans[j] # plans[at]
  <2>1. \A j \in 1..(k - 1) : j \in 1..(at - 1)
    BY DEF TypeOK
  <2>. QED
    BY <2>1, PlansDiffer, Zenon
<1>2. AppliedBefore(k)' = AppliedBefore(k)
  BY <1>1 DEF AppliedBefore
<1>3. \A p, q : Conflict(p, q)' <=> Conflict(p, q)
  BY DEF Conflict, TargetsOf
<1>. QED
  BY <1>2, <1>3, Zenon DEF Unfit

(* Skipping or applying a plan that it must keeps the invariant.           *)
LEMMA ChosenSkip ==
  ASSUME KeysIdentify, Counting, TypeOK, CallInv, HoldsInv, ChosenInv,
         SkipOverBudget \/ SkipNoTarget \/ SkipCollision
  PROVE  ChosenInv'
<1>1. /\ InLoop /\ at' = at + 1
      /\ UNCHANGED <<pod, base, plans, applied, phase, addedBytes>>
  BY Zenon DEF SkipOverBudget, SkipNoTarget, SkipCollision, Skip
<1>2. Unfit(at)
  BY <1>1, UnfitNow, Zenon DEF SkipOverBudget, SkipNoTarget, SkipCollision
<1>3. at \in Nat \ {0} /\ phase = "applying"
  BY <1>1 DEF TypeOK, InLoop
<1>4. \A k \in 1..at : AppliedBefore(k)' = AppliedBefore(k) /\ (Unfit(k)' <=> Unfit(k))
  BY <1>1, UnfitKept
<1>5. plans[at] \notin Range(applied)
  <2>1. \A j \in AppliedBefore(at) : j \in 1..(at - 1)
    BY DEF AppliedBefore
  <2>. QED
    BY <1>1, <2>1, PlansDiffer, Zenon DEF ChosenInv
<1>6. AppliedBefore(at)' = AppliedBefore(at)
  <2>1. 1..(at' - 1) = 1..(at - 1) \cup {at}
    BY <1>1, <1>3
  <2>2. AppliedBefore(at)' = {j \in 1..(at' - 1) : plans[j] \in Range(applied)}
    BY <1>1, Zenon DEF AppliedBefore
  <2>. QED
    BY <1>5, <2>1, <2>2 DEF AppliedBefore
<1>7. ASSUME NEW k \in 1..at PROVE plans[k] \in Range(applied) <=> ~Unfit(k)
  <2>1. k = at \/ k \in 1..(at - 1)
    BY <1>3
  <2>. QED
    BY <1>2, <1>5, <2>1, Zenon DEF ChosenInv
<1>8. 1..(at' - 1) = 1..at
  BY <1>1, <1>3
<1>9. \A k \in 1..(at' - 1) : plans'[k] \in Range(applied') <=> ~Unfit(k)'
  BY <1>1, <1>4, <1>7, <1>8, ZenonT(30)
<1>. QED
  BY <1>1, <1>3, <1>6, <1>9 DEF ChosenInv

(* Applying a plan keeps it: the plan fits, and its bytes are added.       *)
LEMMA ChosenApply ==
  ASSUME KeysIdentify, Counting, Adding, TypeOK, CallInv, HoldsInv, ChosenInv, ApplyPlan
  PROVE  ChosenInv'
<1>1. /\ InLoop /\ at' = at + 1 /\ UNCHANGED <<base, plans, phase>>
      /\ plans[at] \in Plan /\ applied' = Append(applied, plans[at])
      /\ ~NoTarget(plans[at])
      /\ ~checkCollisions(pod, plans[at], newInits, resolveTargets(pod, plans[at]))
  BY ApplyPlanAdds
<1>2. ~OverBudget(plans[at]) /\ addedBytes' = addedBytes + renderedBytes(plans[at])
  BY Zenon DEF ApplyPlan
<1>3. ~Unfit(at)
  BY <1>1, <1>2, UnfitNow, Zenon
<1>4. at \in Nat \ {0} /\ phase = "applying" /\ applied \in Seq(Plan) /\ plans \in Seq(Plan)
      /\ at <= Len(plans)
  BY <1>1, ConstantsTyped DEF TypeOK, InLoop
<1>5. Range(applied') = Range(applied) \cup {plans[at]}
  BY <1>1, <1>4, AppendRange
<1>6. \A k \in 1..at : AppliedBefore(k)' = AppliedBefore(k) /\ (Unfit(k)' <=> Unfit(k))
  BY <1>1, <1>5, UnfitKept
<1>7. 1..(at' - 1) = 1..(at - 1) \cup {at} /\ at \notin 1..(at - 1)
  BY <1>1, <1>4
<1>8. AppliedBefore(at)' = AppliedBefore(at) \cup {at} /\ at \notin AppliedBefore(at)
  <2>1. AppliedBefore(at)' = {j \in 1..(at - 1) \cup {at} : plans[j] \in Range(applied')}
    BY <1>1, <1>7, Zenon DEF AppliedBefore
  <2>2. \A j \in 1..(at - 1) : plans[j] # plans[at]
    BY <1>1, PlansDiffer, Zenon
  <2>. QED
    BY <1>5, <1>7, <2>1, <2>2 DEF AppliedBefore
<1>9. ASSUME NEW k \in 1..(at' - 1) PROVE plans'[k] \in Range(applied') <=> ~Unfit(k)'
  <2>1. CASE k = at
    <3>1. ~Unfit(k)'
      BY <1>3, <1>4, <1>6, <2>1
    <3>. QED
      BY <1>1, <1>5, <2>1, <3>1
  <2>2. CASE k \in 1..(at - 1)
    <3>1. k \in 1..at /\ plans[k] # plans[at]
      BY <1>1, <1>4, <2>2, PlansDiffer, SMTT(30)
    <3>. QED
      BY <1>1, <1>5, <1>6, <2>2, <3>1, Zenon DEF ChosenInv
  <2>. QED
    BY <1>7, <2>1, <2>2
<1>10. Range(applied') = {plans'[j] : j \in AppliedBefore(at)'}
  BY <1>1, <1>5, <1>8 DEF ChosenInv
<1>11. BytesAt(plans, AppliedBefore(at) \cup {at})
         = BytesAt(plans, AppliedBefore(at)) + renderedBytes(plans[at])
  <2>1. PICK f, g : /\ f = [j \in AppliedBefore(at) |-> renderedBytes(plans[j])]
                    /\ g = [j \in AppliedBefore(at) \cup {at} |-> renderedBytes(plans[j])]
    BY Zenon
  <2>2. AppliedBefore(at) \subseteq 1..at
    BY <1>4 DEF AppliedBefore
  <2>3. \A j \in 1..at : plans[j] \in Plan /\ renderedBytes(plans[j]) \in Nat
    BY <1>4 DEF Counting
  <2>4. /\ at \in Nat /\ at \in (1..at) \ DOMAIN f
        /\ DOMAIN f \subseteq 1..at /\ DOMAIN g = DOMAIN f \cup {at}
        /\ f \in [DOMAIN f -> Nat] /\ g \in [DOMAIN g -> Nat]
        /\ \A y \in DOMAIN f : g[y] = f[y]
        /\ g[at] = renderedBytes(plans[at])
    BY <1>4, <1>8, <2>1, <2>2, <2>3
  <2>5. Total(g) = Total(f) + g[at]
    BY <2>4 DEF Adding
  <2>. QED
    BY <2>1, <2>4, <2>5, Zenon DEF BytesAt
<1>12. addedBytes' = BytesAt(plans', AppliedBefore(at)')
  BY <1>1, <1>2, <1>8, <1>11, Zenon DEF ChosenInv
<1>. QED
  BY <1>1, <1>4, <1>9, <1>10, <1>12, SMTT(30) DEF ChosenInv

(* A call starts with nothing behind the loop.                             *)
LEMMA ChosenStart ==
  ASSUME Adding, at = 1, applied = <<>>, addedBytes = 0, phase = "called"
  PROVE  ChosenInv
<1>1. 1..(at - 1) = {} /\ Range(applied) = {}
  BY DEF Range
<1>2. AppliedBefore(at) = {}
  BY <1>1 DEF AppliedBefore
<1>3. BytesAt(plans, {}) = 0
  <2>1. PICK f : f = [j \in {} |-> renderedBytes(plans[j])]
    BY Zenon
  <2>2. DOMAIN f = {}
    BY <2>1
  <2>. QED
    BY <2>1, <2>2, Zenon DEF BytesAt, Adding
<1>. QED
  BY <1>1, <1>2, <1>3, Zenon DEF ChosenInv

(* Every step keeps the invariant.                                         *)
LEMMA ChosenStep ==
  ASSUME KeysIdentify, Counting, Adding, TypeOK, CallInv, HoldsInv, ChosenInv, [Next]_vars
  PROVE  ChosenInv'
<1>1. CASE AlreadyInjected \/ BeginLoop \/ Finish \/ UNCHANGED vars
  <2>1. UNCHANGED <<base, plans, at, addedBytes, applied>>
    BY <1>1, Zenon DEF AlreadyInjected, BeginLoop, Finish, vars
  <2>2. /\ AppliedBefore(at)' = AppliedBefore(at)
        /\ \A k : AppliedBefore(k)' = AppliedBefore(k)
    BY <2>1 DEF AppliedBefore
  <2>3. \A p, q : Conflict(p, q)' <=> Conflict(p, q)
    BY <2>1 DEF Conflict, TargetsOf
  <2>4. \A k : Unfit(k)' <=> Unfit(k)
    BY <2>1, <2>2, <2>3, Zenon DEF Unfit
  <2>5. phase' = "called" => at = 1
    BY <1>1 DEF AlreadyInjected, BeginLoop, Finish, vars, ChosenInv
  <2>6. phase' = "done" => Injected(base) \/ at = Len(plans) + 1
    <3>1. CASE AlreadyInjected
      BY <3>1, Zenon DEF AlreadyInjected, CallInv
    <3>2. CASE Finish
      BY <3>2, ConstantsTyped DEF Finish, TypeOK
    <3>3. CASE BeginLoop \/ UNCHANGED vars
      BY <3>3 DEF BeginLoop, vars, ChosenInv
    <3>. QED
      BY <1>1, <3>1, <3>2, <3>3
  <2>. QED
    BY <2>1, <2>2, <2>4, <2>5, <2>6 DEF ChosenInv
<1>2. CASE Reinvoke
  <2>1. at' = 1 /\ applied' = <<>> /\ addedBytes' = 0 /\ phase' = "called"
    BY <1>2, Zenon DEF Reinvoke
  <2>2. 1..(at' - 1) = {} /\ Range(applied') = {}
    BY <2>1 DEF Range
  <2>3. AppliedBefore(at)' = {}
    BY <2>2 DEF AppliedBefore
  <2>4. BytesAt(plans', {}) = 0
    <3>1. PICK f : f = [j \in {} |-> renderedBytes(plans'[j])]
      BY Zenon
    <3>2. DOMAIN f = {}
      BY <3>1
    <3>. QED
      BY <3>1, <3>2, Zenon DEF BytesAt, Adding
  <2>. QED
    BY <2>1, <2>2, <2>3, <2>4, Zenon DEF ChosenInv
<1>. QED
  BY <1>1, <1>2, ChosenSkip, ChosenApply DEF Next

(* When the call returns, the loop has seen every plan.                    *)
LEMMA ChosenDone ==
  ASSUME TypeOK, ChosenInv
  PROVE  SkippedForCause
<1>1. plans \in Seq(Plan)
  BY ConstantsTyped DEF TypeOK
<1>2. ASSUME at = Len(plans) + 1 PROVE 1..(at - 1) = DOMAIN plans
  BY <1>1, <1>2
<1>. QED
  BY <1>2, Zenon DEF ChosenInv, SkippedForCause

=============================================================================
