-------------------------- MODULE InjectionSteps ---------------------------
(***************************************************************************)
(* What a call of Apply leaves in the pod: for every plan that is applied  *)
(* all that belongs to it and nothing that other plans have touched, and   *)
(* for every plan that is skipped a warning.                               *)
(***************************************************************************)
EXTENDS InjectionLemmas

-----------------------------------------------------------------------------
(* The helpers.                                                            *)

(* The helpers of a list grow by the two of the plan appended to it.       *)
LEMMA HelpersOfAppend ==
  ASSUME NEW list \in Seq(Plan), NEW plan \in Plan
  PROVE  HelpersOf(Append(list, plan))
           = HelpersOf(list) \o <<helperContainer(plan, FALSE), helperContainer(plan, TRUE)>>
<1>. DEFINE l == Len(list)
            a == helperContainer(plan, FALSE)
            b == helperContainer(plan, TRUE)
            long == HelpersOf(Append(list, plan))
            short == HelpersOf(list)
<1>1. /\ l \in Nat /\ Len(Append(list, plan)) = l + 1
      /\ \A k \in 1..l : Append(list, plan)[k] = list[k]
      /\ Append(list, plan)[l + 1] = plan
  BY AppendList
<1>2. long = [n \in 1..(2 * l + 2) |-> long[n]]
  BY <1>1 DEF HelpersOf
<1>3. \A n \in 1..(2 * l) : long[n] = short[n]
  <2>. SUFFICES ASSUME NEW n \in 1..(2 * l) PROVE long[n] = short[n]
    OBVIOUS
  <2>1. (n + 1) \div 2 \in 1..l /\ n \in 1..(2 * (l + 1))
    BY <1>1
  <2>2. Append(list, plan)[(n + 1) \div 2] = list[(n + 1) \div 2]
    BY <1>1, <2>1
  <2>3. /\ short[n] = helperContainer(list[(n + 1) \div 2], n % 2 = 0)
        /\ long[n] = helperContainer(Append(list, plan)[(n + 1) \div 2], n % 2 = 0)
    BY <1>1, <2>1 DEF HelpersOf
  <2>. QED
    BY <2>2, <2>3
<1>4. long[2 * l + 1] = a /\ long[2 * l + 2] = b
  <2>1. /\ 2 * l + 1 \in 1..(2 * (l + 1)) /\ 2 * l + 2 \in 1..(2 * (l + 1))
        /\ ((2 * l + 1) + 1) \div 2 = l + 1 /\ ((2 * l + 2) + 1) \div 2 = l + 1
        /\ ((2 * l + 1) % 2 = 0) = FALSE /\ ((2 * l + 2) % 2 = 0) = TRUE
    BY <1>1
  <2>. QED
    BY <1>1, <2>1, Zenon DEF HelpersOf
<1>5. short = [n \in 1..(2 * l) |-> short[n]]
  BY DEF HelpersOf
<1>. HIDE DEF a, b, long, short
<1>6. short \in Seq({short[n] : n \in 1..(2 * l)} \cup {a, b}) /\ Len(short) = 2 * l
  <2>1. short \in [1..(2 * l) -> {short[n] : n \in 1..(2 * l)} \cup {a, b}]
    BY <1>5
  <2>. QED
    BY <1>1, <2>1
<1>. DEFINE U == {short[n] : n \in 1..(2 * l)} \cup {a, b}
<1>7. <<a, b>> \in Seq(U) /\ Len(<<a, b>>) = 2 /\ <<a, b>>[1] = a /\ <<a, b>>[2] = b
  OBVIOUS
<1>. HIDE DEF U, l
<1>8. short \o <<a, b>> = [n \in 1..(2 * l + 2) |-> IF n <= 2 * l THEN short[n]
                                                    ELSE IF n = 2 * l + 1 THEN a ELSE b]
  BY <1>1, <1>6, <1>7 DEF U
<1>9. \A n \in 1..(2 * l + 2) : long[n] = IF n <= 2 * l THEN short[n]
                                         ELSE IF n = 2 * l + 1 THEN a ELSE b
  BY <1>1, <1>3, <1>4
<1>10. long = short \o <<a, b>>
  BY <1>2, <1>8, <1>9, Zenon
<1>. QED
  BY <1>10 DEF long, short, a, b

(* How far a call has come: the helpers wait in newInits, in order, while  *)
(* the pod keeps the init containers it came with; it keeps its containers *)
(* and, until a plan is applied, everything else.                          *)
CallInv ==
  /\ SameSelection(pod, base)
  /\ newInits = HelpersOf(applied)
  /\ phase = "called" => applied = <<>>
  /\ applied = <<>> => pod = base
  /\ pod.inits = IF phase = "done" THEN newInits \o base.inits ELSE base.inits

(* A call starts that way.                                                 *)
LEMMA CallInit == Init => CallInv
<1>1. HelpersOf(<<>>) = <<>>
  BY DEF HelpersOf
<1>. QED
  BY <1>1 DEF Init, CallInv, SameSelection

(* Every step keeps what CallInv says.                                     *)
LEMMA CallStep ==
  ASSUME Counting, TypeOK, CallInv, [Next]_vars
  PROVE  CallInv'
<1>0. /\ HelpersOf(<<>>) = <<>> /\ applied \in Seq(Plan) /\ pod \in Pod
      /\ <<>> \o base.inits = base.inits
  <2>1. base.inits \in Seq(Container)
    BY DEF TypeOK, Pod
  <2>2. HelpersOf(<<>>) = <<>>
    BY DEF HelpersOf
  <2>. QED
    BY <2>1, <2>2, ConcatEmpty DEF TypeOK
<1>1. CASE AlreadyInjected \/ BeginLoop
  BY <1>0, <1>1, Zenon DEF AlreadyInjected, BeginLoop, CallInv, SameSelection
<1>2. CASE SkipOverBudget \/ SkipNoTarget \/ SkipCollision \/ UNCHANGED vars
  BY <1>2, Zenon DEF SkipOverBudget, SkipNoTarget, SkipCollision, Skip, vars, CallInv, SameSelection
<1>3. CASE ApplyPlan
  <2>1. SameSelection(pod', base')
    BY <1>3, ApplyPlanAdds DEF CallInv, SameSelection
  <2>2. newInits' = HelpersOf(applied')
    BY <1>0, <1>3, ApplyPlanAdds, HelpersOfAppend, Zenon DEF CallInv
  <2>3. applied' # <<>>
    BY <1>0, <1>3, ApplyPlanAdds
  <2>4. pod'.inits = base'.inits /\ phase' = "applying"
    BY <1>3, ApplyPlanAdds DEF CallInv, InLoop
  <2>. QED
    BY <2>1, <2>2, <2>3, <2>4 DEF CallInv
<1>4. CASE Finish
  <2>1. UNCHANGED <<base, newInits, applied>> /\ phase' = "done" /\ phase = "applying"
    BY <1>4, FinishAdds
  <2>2. CASE applied = <<>>
    <3>1. pod' = pod
      BY <1>4, <2>2, FinishAdds
    <3>. QED
      BY <1>0, <2>1, <2>2, <3>1, Zenon DEF CallInv, SameSelection
  <2>3. CASE applied # <<>>
    <3>1. pod'.inits = newInits \o pod.inits
          /\ pod'.containers = pod.containers /\ pod'.filter = pod.filter
      BY <1>4, <2>3, FinishAdds
    <3>. QED
      BY <2>1, <2>3, <3>1 DEF CallInv, SameSelection
  <2>. QED
    BY <2>2, <2>3
<1>5. CASE Reinvoke
  <2>1. /\ base' = pod' /\ newInits' = <<>> /\ applied' = <<>> /\ phase' = "called"
    BY <1>5, ReinvokeAdds
  <2>. QED
    BY <1>0, <2>1 DEF CallInv, SameSelection
<1>. QED
  BY <1>1, <1>2, <1>3, <1>4, <1>5 DEF Next

-----------------------------------------------------------------------------
(* All of a plan, or nothing.                                              *)

(* The keys that a plan writes carry its name, and are not status keys.    *)
LEMMA PlanKeys ==
  ASSUME NEW plan
  PROVE  /\ \A a \in PlanAnnotations(plan) :
              a.key.shim = plan.name /\ a.key.kind \in {"helper-conf-", "file-"}
         /\ PlanLabel(plan).key = plan.name
         /\ \A list : \A a \in StatusAnnotations(list) : a.key.kind \in {"status", "shims"}
<1>1. ASSUME NEW a \in PlanAnnotations(plan)
      PROVE  a.key.shim = plan.name /\ a.key.kind \in {"helper-conf-", "file-"}
  <2>1. a.key = HelperConfAnnotation(plan.name)
        \/ \E i : a.key = fileAnnotation(plan.name, i)
    BY DEF PlanAnnotations
  <2>2. /\ HelperConfAnnotation(plan.name).shim = plan.name
        /\ HelperConfAnnotation(plan.name).kind = "helper-conf-"
        /\ \A i : fileAnnotation(plan.name, i).shim = plan.name
        /\ \A i : fileAnnotation(plan.name, i).kind = "file-"
    BY DEF HelperConfAnnotation, fileAnnotation
  <2>. QED
    BY <2>1, <2>2
<1>2. ASSUME NEW list, NEW a \in StatusAnnotations(list)
      PROVE  a.key.kind \in {"status", "shims"}
  <2>1. a.key = StatusAnnotation \/ a.key = ShimsAnnotation
    BY DEF StatusAnnotations
  <2>2. StatusAnnotation.kind = "status" /\ ShimsAnnotation.kind = "shims"
    BY DEF StatusAnnotation, ShimsAnnotation
  <2>. QED
    BY <2>1, <2>2
<1>. QED
  BY <1>1, <1>2 DEF PlanLabel

(* Where an applied plan stands before its helpers are put in place.       *)
Placed(plan) ==
  /\ \E i \in DOMAIN pod.volumes : /\ pod.volumes[i].name = socketVolumeName
                                   /\ pod.volumes[i].csi = plan.csiDriver
  /\ hasVolume(pod.volumes, plan.tokenVolume)
  /\ hasVolume(pod.volumes, configVolumeName(plan.name))
  /\ PlanAnnotations(plan) \subseteq pod.annotations
  /\ PlanLabel(plan) \in pod.labels
  /\ TargetsOf(plan) # {}
  /\ \A i \in TargetsOf(plan) :
       /\ Range(ContainerMounts(plan)) \subseteq Range(pod.containers[i].mounts)
       /\ \A e \in plan.env : hasEnvNamed(pod.containers[i], e)

(* Every plan applied so far is placed, and nothing else was added.        *)
WholeInv ==
  /\ base.containers # <<>>
  /\ \A plan \in Range(applied) : Placed(plan)
  /\ hasVolume(base.volumes, socketVolumeName) =>
       Len(pod.volumes) = Len(base.volumes) + 2 * Len(applied)
  /\ applied # <<>> /\ ~hasVolume(base.volumes, socketVolumeName) =>
       Len(pod.volumes) = Len(base.volumes) + 2 * Len(applied) + 1
  /\ pod.annotations \subseteq
       base.annotations \cup (IF phase = "done" THEN StatusAnnotations(applied) ELSE {})
       \cup UNION {PlanAnnotations(plan) : plan \in Range(applied)}
  /\ pod.labels \subseteq base.labels \cup {PlanLabel(plan) : plan \in Range(applied)}

(* A plan in place stays in place while its pod grows.                     *)
LEMMA PlacedKept ==
  ASSUME TypeOK, PodGrows, pod' \in Pod, UNCHANGED base, NEW plan \in Plan, Placed(plan),
         SameSelection(pod, base),
         PlanAnnotations(plan) \subseteq pod'.annotations, PlanLabel(plan) \in pod'.labels
  PROVE  Placed(plan)'
<1>1. /\ pod.volumes \in Seq(Volume) /\ pod'.volumes \in Seq(Volume)
      /\ pod.containers \in Seq(Container) /\ pod'.containers \in Seq(Container)
  BY DEF TypeOK, Pod
<1>2. /\ \A i \in DOMAIN pod.volumes : i \in DOMAIN pod'.volumes
                                       /\ pod'.volumes[i] = pod.volumes[i]
      /\ \A name : hasVolume(pod.volumes, name) => hasVolume(pod'.volumes, name)
  <2>1. Extends(pod.volumes, pod'.volumes)
    BY DEF PodGrows
  <2>. QED
    BY <1>1, <2>1, ExtendsKeeps
<1>3. TargetsOf(plan)' = TargetsOf(plan) /\ TargetsOf(plan) \subseteq DOMAIN pod.containers
  BY DEF TargetsOf, Targeted, SameSelection
<1>4. ASSUME NEW i \in TargetsOf(plan)
      PROVE  /\ Range(ContainerMounts(plan)) \subseteq Range(pod'.containers[i].mounts)
             /\ \A e \in plan.env : hasEnvNamed(pod'.containers[i], e)
  <2>1. i \in DOMAIN pod.containers /\ i \in DOMAIN pod'.containers
    BY <1>1, <1>3 DEF PodGrows
  <2>2. pod.containers[i] \in Container /\ pod'.containers[i] \in Container
    BY <1>1, <2>1
  <2>3. pod.containers[i].mounts \in Seq(Mount) /\ pod'.containers[i].mounts \in Seq(Mount)
    BY <2>2 DEF Container
  <2>4. /\ Extends(pod.containers[i].mounts, pod'.containers[i].mounts)
        /\ pod.containers[i].env \subseteq pod'.containers[i].env
    BY <2>1 DEF PodGrows
  <2>5. Range(pod.containers[i].mounts) \subseteq Range(pod'.containers[i].mounts)
    BY <2>3, <2>4, ExtendsKeeps
  <2>. QED
    BY <2>4, <2>5 DEF Placed, hasEnvNamed
<1>. QED
  BY <1>2, <1>3, <1>4 DEF Placed

(* Applying a plan leaves it in place, the earlier ones too, and adds      *)
(* nothing but what it asks for.                                           *)
LEMMA ApplyPlanWhole ==
  ASSUME Counting, TypeOK, CallInv, WholeInv, ApplyPlan
  PROVE  WholeInv'
<1>0. PICK plan : plan = plans[at]
  OBVIOUS
<1>. DEFINE targets == resolveTargets(pod, plan)
<1>1. /\ plan \in Plan /\ pod \in Pod /\ pod' \in Pod /\ applied \in Seq(Plan)
      /\ pod.volumes \in Seq(Volume) /\ base \in Pod
  BY <1>0, ApplyPlanAdds, Zenon DEF TypeOK, Pod
<1>2. /\ applied' = Append(applied, plan) /\ UNCHANGED base
      /\ phase' = phase /\ phase = "applying"
  BY <1>0, ApplyPlanAdds DEF InLoop
<1>2a. /\ pod'.volumes = addVolumes(pod.volumes, plan)
       /\ pod'.annotations = setAnnotation(pod.annotations, PlanAnnotations(plan))
       /\ pod'.labels = setAnnotation(pod.labels, {PlanLabel(plan)})
  BY <1>0, ApplyPlanAdds
<1>2b. PICK vols : vols = addVolumes(pod.volumes, plan)
  OBVIOUS
<1>2c. /\ hasVolume(vols, plan.tokenVolume) /\ hasVolume(vols, configVolumeName(plan.name))
       /\ hasVolume(pod.volumes, socketVolumeName) => Len(vols) = Len(pod.volumes) + 2
       /\ ~hasVolume(pod.volumes, socketVolumeName) =>
            /\ Len(vols) = Len(pod.volumes) + 3
            /\ \E i \in DOMAIN vols : /\ vols[i].name = socketVolumeName
                                      /\ vols[i].csi = plan.csiDriver
  BY <1>1, <1>2b, AddVolumesGrow
<1>2d. pod'.volumes = vols
  BY <1>2a, <1>2b
<1>3. Range(applied') = Range(applied) \cup {plan} /\ applied' # <<>>
      /\ Len(applied') = Len(applied) + 1 /\ Len(applied) \in Nat
  <2>1. applied' # <<>> /\ Len(applied') = Len(applied) + 1 /\ Len(applied) \in Nat
    BY <1>1, <1>2
  <2>. QED
    BY <1>1, <1>2, <2>1, AppendRange
<1>4. PodGrows
  <2>1. CASE pod' # pod
    BY <2>1, GrowthStep DEF Next
  <2>2. CASE pod' = pod
    <3>1. Len(pod.volumes) \in Nat /\ Len(vols) # Len(pod.volumes)
      BY <1>1, <1>2c
    <3>. QED
      BY <1>2d, <2>2, <3>1
  <2>. QED
    BY <2>1, <2>2
<1>5. TargetsOf(plan)' = Targeted(pod, targets)
  BY <1>1, <1>2, SelectionStable DEF TargetsOf, CallInv
<1>6. Placed(plan)'
  <2>2. \E i \in DOMAIN pod'.volumes : /\ pod'.volumes[i].name = socketVolumeName
                                       /\ pod'.volumes[i].csi = plan.csiDriver
    <3>1. CASE ~hasVolume(pod.volumes, socketVolumeName)
      BY <1>2c, <1>2d, <3>1
    <3>2. CASE hasVolume(pod.volumes, socketVolumeName)
      <4>1. PICK i \in DOMAIN pod.volumes : pod.volumes[i].name = socketVolumeName
                                           /\ IsFirst(pod.volumes, i)
        BY <1>1, <3>2, FirstOfName, Zenon DEF hasVolume
      <4>2. ~checkSocketVolume(pod, plan)
        BY <1>0, ApplyPlanAdds DEF checkCollisions
      <4>3. pod.volumes[i].csi = plan.csiDriver
        BY <4>1, <4>2 DEF checkSocketVolume
      <4>4. Extends(pod.volumes, pod'.volumes) /\ pod'.volumes \in Seq(Volume)
        BY <1>1, <1>4 DEF PodGrows, Pod
      <4>5. i \in DOMAIN pod'.volumes /\ pod'.volumes[i] = pod.volumes[i]
        BY <1>1, <4>4, ExtendsKeeps
      <4>. QED
        BY <4>1, <4>3, <4>5
    <3>. QED
      BY <3>1, <3>2
  <2>3. PlanAnnotations(plan) \subseteq pod'.annotations /\ PlanLabel(plan) \in pod'.labels
    BY <1>2a DEF setAnnotation
  <2>4. Targeted(pod, targets) # {}
    <3>1. pod.containers # <<>>
      <4>1. pod.containers \in Seq(Container) /\ base.containers \in Seq(Container)
        BY <1>1 DEF Pod
      <4>. QED
        BY <4>1 DEF CallInv, SameSelection, WholeInv
    <3>. QED
      BY <1>1, <3>1, <1>0, ApplyPlanAdds, TargetsFound DEF NoTarget
  <2>5. ASSUME NEW i \in Targeted(pod, targets)
        PROVE  /\ Range(ContainerMounts(plan)) \subseteq Range(pod'.containers[i].mounts)
               /\ \A e \in plan.env : hasEnvNamed(pod'.containers[i], e)
    <3>1. i \in DOMAIN pod.containers
      BY DEF Targeted
    <3>2. /\ Range(ContainerMounts(plan)) \subseteq Range(pod'.containers[i].mounts)
          /\ MissingEnv(pod.containers[i], plan) \subseteq pod'.containers[i].env
          /\ pod.containers[i].env \subseteq pod'.containers[i].env
      BY <1>1, <3>1, <1>0, ApplyPlanAdds, InjectGrows, Zenon
    <3>3. ASSUME NEW e \in plan.env
          PROVE  hasEnvNamed(pod'.containers[i], e)
      <4>1. CASE hasEnvNamed(pod.containers[i], e)
        BY <3>2, <4>1 DEF hasEnvNamed
      <4>2. CASE ~hasEnvNamed(pod.containers[i], e)
        <5>1. [name |-> e, from |-> plan.key] \in pod'.containers[i].env
          BY <3>2, <4>2 DEF MissingEnv
        <5>. QED
          BY <5>1 DEF hasEnvNamed
      <4>. QED
        BY <4>1, <4>2
    <3>. QED
      BY <3>2, <3>3
  <2>. HIDE DEF targets
  <2>. QED
    BY <1>2c, <1>2d, <1>5, <2>2, <2>3, <2>4, <2>5 DEF Placed
<1>7. ASSUME NEW p \in Range(applied)
      PROVE  Placed(p)'
  <2>1. p \in Plan /\ Placed(p)
    BY <1>1, <1>7 DEF WholeInv, Range
  <2>2. p.name # plan.name
    <3>1. ~hasVolume(pod.volumes, configVolumeName(plan.name))
      BY <1>0, ApplyPlanAdds, Zenon DEF checkCollisions
    <3>. QED
      BY <2>1, <3>1 DEF Placed
  <2>3. PlanAnnotations(p) \subseteq pod'.annotations
    <3>1. PlanAnnotations(p) \subseteq pod.annotations
      BY <2>1 DEF Placed
    <3>2. \A e \in PlanAnnotations(p), n \in PlanAnnotations(plan) : n.key # e.key
      BY <2>2, PlanKeys
    <3>. QED
      BY <1>2a, <3>1, <3>2, ZenonT(30) DEF setAnnotation
  <2>4. PlanLabel(p) \in pod'.labels
    <3>1. PlanLabel(p).key # PlanLabel(plan).key
      BY <2>2, PlanKeys
    <3>2. PlanLabel(p) \in pod.labels
      BY <2>1 DEF Placed
    <3>. QED
      BY <1>0, <3>1, <3>2, ApplyPlanAdds DEF setAnnotation
  <2>. QED
    BY <1>1, <1>2, <1>4, <2>1, <2>3, <2>4, PlacedKept DEF CallInv
<1>8. \A p \in Range(applied') : Placed(p)'
  BY <1>3, <1>6, <1>7
<1>9. /\ hasVolume(base.volumes, socketVolumeName) =>
           Len(pod'.volumes) = Len(base.volumes) + 2 * Len(applied')
      /\ ~hasVolume(base.volumes, socketVolumeName) =>
           Len(pod'.volumes) = Len(base.volumes) + 2 * Len(applied') + 1
  <2>1. Len(base.volumes) \in Nat
    BY <1>1 DEF Pod
  <2>2. CASE applied = <<>>
    <3>1. pod = base /\ Len(applied) = 0
      BY <2>2 DEF CallInv
    <3>. QED
      BY <1>2c, <1>2d, <1>3, <2>1, <3>1
  <2>3. CASE applied # <<>>
    <3>1. 1 \in DOMAIN applied
      BY <1>1, <2>3
    <3>2. hasVolume(pod.volumes, socketVolumeName)
      BY <3>1 DEF WholeInv, Placed, hasVolume, Range
    <3>3. /\ hasVolume(base.volumes, socketVolumeName) =>
               Len(pod.volumes) = Len(base.volumes) + 2 * Len(applied)
          /\ ~hasVolume(base.volumes, socketVolumeName) =>
               Len(pod.volumes) = Len(base.volumes) + 2 * Len(applied) + 1
      BY <2>3, Zenon DEF WholeInv
    <3>4. Len(pod'.volumes) = Len(pod.volumes) + 2
      BY <1>2c, <1>2d, <3>2
    <3>5. PICK x, y, z \in Nat : x = Len(applied) /\ y = Len(base.volumes)
                                 /\ z = Len(pod.volumes)
      BY <1>1, <1>3, <2>1
    <3>6. Len(applied') = x + 1 /\ Len(pod'.volumes) = z + 2
      BY <1>3, <3>4, <3>5
    <3>7. /\ hasVolume(base.volumes, socketVolumeName) => z = y + 2 * x
          /\ ~hasVolume(base.volumes, socketVolumeName) => z = y + 2 * x + 1
      BY <3>3, <3>5, Zenon
    <3>8. z = y + 2 * x => z + 2 = y + 2 * (x + 1)
      OBVIOUS
    <3>9. z = y + 2 * x + 1 => z + 2 = y + 2 * (x + 1) + 1
      OBVIOUS
    <3>. QED
      BY <3>5, <3>6, <3>7, <3>8, <3>9, Zenon
  <2>. QED
    BY <2>2, <2>3, ZenonT(30)
<1>10. pod'.annotations \subseteq
         base.annotations \cup UNION {PlanAnnotations(p) : p \in Range(applied')}
  <2>1. pod.annotations \subseteq
          base.annotations \cup UNION {PlanAnnotations(p) : p \in Range(applied)}
    <3>1. phase # "done"
      BY <1>2
    <3>. QED
      BY <3>1 DEF WholeInv
  <2>2. pod'.annotations \subseteq pod.annotations \cup PlanAnnotations(plan)
    BY <1>2a, Zenon DEF setAnnotation
  <2>3. UNION {PlanAnnotations(p) : p \in Range(applied) \cup {plan}}
          = PlanAnnotations(plan) \cup UNION {PlanAnnotations(p) : p \in Range(applied)}
    BY Zenon
  <2>. QED
    BY <1>3, <2>1, <2>2, <2>3, Zenon
<1>11. pod'.labels \subseteq base.labels \cup {PlanLabel(p) : p \in Range(applied')}
  <2>1. pod.labels \subseteq base.labels \cup {PlanLabel(p) : p \in Range(applied)}
    BY DEF WholeInv
  <2>2. pod'.labels \subseteq pod.labels \cup {PlanLabel(plan)}
    BY <1>2a, Zenon DEF setAnnotation
  <2>. QED
    BY <1>3, <2>1, <2>2, Zenon
<1>12. base.containers # <<>>
  BY DEF WholeInv
<1>. HIDE DEF targets
<1>. QED
  BY <1>2, <1>8, <1>9, <1>10, <1>11, <1>12, Zenon DEF WholeInv

(* Every other step keeps the applied plans in place.                      *)
LEMMA WholeStep ==
  ASSUME Counting, TypeOK, CallInv, WholeInv, [Next]_vars
  PROVE  WholeInv'
<1>1. CASE AlreadyInjected \/ BeginLoop \/ SkipOverBudget \/ SkipNoTarget \/ SkipCollision
           \/ UNCHANGED vars
  <2>1. UNCHANGED <<pod, base, applied>> /\ (phase' = phase \/ applied = <<>>)
    BY <1>1, Zenon DEF AlreadyInjected, BeginLoop, SkipOverBudget, SkipNoTarget, SkipCollision, Skip,
       vars, CallInv
  <2>2. \A plan : Placed(plan)' = Placed(plan)
    BY <2>1, Zenon DEF Placed, TargetsOf
  <2>. QED
    BY <2>1, <2>2, Zenon DEF WholeInv, CallInv
<1>2. CASE Finish
  <2>1. UNCHANGED <<base, applied>> /\ phase = "applying" /\ phase' = "done"
    BY <1>2, FinishAdds
  <2>2. CASE applied = <<>>
    <3>1. pod' = pod
      BY <1>2, <2>2, FinishAdds
    <3>. QED
      BY <2>1, <2>2, <3>1 DEF WholeInv, CallInv, Range
  <2>3. CASE applied # <<>>
    <3>1. /\ pod'.annotations = setAnnotation(pod.annotations, StatusAnnotations(applied))
          /\ pod'.volumes = pod.volumes /\ pod'.labels = pod.labels
          /\ pod'.containers = pod.containers
      BY <1>2, <2>3, FinishAdds
    <3>2. ASSUME NEW plan \in Range(applied)
          PROVE  Placed(plan)'
      <4>1. Placed(plan) /\ TargetsOf(plan)' = TargetsOf(plan)
        BY <2>1 DEF WholeInv, TargetsOf
      <4>2. \A e \in PlanAnnotations(plan), n \in StatusAnnotations(applied) : n.key # e.key
        <5>1. /\ \A e \in PlanAnnotations(plan) : e.key.kind \in {"helper-conf-", "file-"}
              /\ \A n \in StatusAnnotations(applied) : n.key.kind \in {"status", "shims"}
          BY PlanKeys
        <5>. QED
          BY <5>1
      <4>3. PlanAnnotations(plan) \subseteq pod'.annotations
        BY <3>1, <4>1, <4>2, Zenon DEF setAnnotation, Placed
      <4>. QED
        BY <3>1, <4>1, <4>3 DEF Placed
    <3>3. pod'.annotations \subseteq
            base.annotations \cup StatusAnnotations(applied)
            \cup UNION {PlanAnnotations(plan) : plan \in Range(applied)}
      <4>1. pod.annotations \subseteq
              base.annotations \cup UNION {PlanAnnotations(plan) : plan \in Range(applied)}
        <5>1. phase # "done"
          BY <2>1
        <5>. QED
          BY <5>1 DEF WholeInv
      <4>2. pod'.annotations \subseteq pod.annotations \cup StatusAnnotations(applied)
        BY <3>1, Zenon DEF setAnnotation
      <4>. QED
        BY <4>1, <4>2, Zenon
    <3>. QED
      BY <2>1, <3>1, <3>2, <3>3, Zenon DEF WholeInv
  <2>. QED
    BY <2>2, <2>3
<1>3. CASE Reinvoke
  <2>1. PICK c \in Container : pod'.containers = Append(pod.containers, c)
                               /\ pod'.volumes = pod.volumes
    BY <1>3, ReinvokeAdds
  <2>2. base' = pod' /\ applied' = <<>> /\ phase' = "called"
    BY <1>3, ReinvokeAdds
  <2>3. pod.containers \in Seq(Container) /\ pod.volumes \in Seq(Volume)
    BY DEF TypeOK, Pod
  <2>5. base'.containers # <<>>
    <3>1. Append(pod.containers, c) # <<>>
      BY <2>3
    <3>. QED
      BY <2>1, <2>2, <3>1, Zenon
  <2>6. Len(pod'.volumes) = Len(pod'.volumes) + 2 * Len(<<>>)
    BY <2>1, <2>3
  <2>. QED
    BY <2>2, <2>5, <2>6 DEF WholeInv, Range
<1>. QED
  BY <1>1, <1>2, <1>3, ApplyPlanWhole DEF Next

(* Nothing is applied at first.                                            *)
LEMMA WholeInit ==
  ASSUME PodsHaveContainers, Init
  PROVE  WholeInv
<1>1. pod \in Pod /\ base = pod /\ applied = <<>> /\ pod.containers # <<>> /\ phase = "called"
  BY ConstantsTyped DEF Init, PodsHaveContainers
<1>2. Len(pod.volumes) = Len(pod.volumes) + 2 * Len(<<>>)
  BY <1>1 DEF Pod
<1>. QED
  BY <1>1, <1>2 DEF WholeInv, Range

(* Plans that are placed, with their helpers prepended, are complete.      *)
LEMMA WholeComplete ==
  ASSUME TypeOK, CallInv, WholeInv
  PROVE  AllOrNothing
<1>. SUFFICES ASSUME phase = "done" PROVE AllOrNothing
  BY Zenon DEF AllOrNothing
<1>1. /\ applied \in Seq(Plan) /\ base.inits \in Seq(Container) /\ newInits \in Seq(Container)
      /\ pod.inits = newInits \o base.inits /\ newInits = HelpersOf(applied)
      /\ base.volumes \in Seq(Volume)
  BY DEF TypeOK, Pod, CallInv
<1>2. Len(newInits) = 2 * Len(applied)
      /\ \A k \in 1..Len(newInits) :
           newInits[k] = helperContainer(applied[(k + 1) \div 2], k % 2 = 0)
  <2>1. 2 * Len(applied) \in Nat
    BY <1>1
  <2>. QED
    BY <1>1, <2>1 DEF HelpersOf
<1>3. Len(pod.inits) = Len(base.inits) + 2 * Len(applied)
  <2>1. Len(pod.inits) = Len(newInits) + Len(base.inits)
    BY <1>1, ConcatList
  <2>2. Len(newInits) + Len(base.inits) = Len(base.inits) + Len(newInits)
    BY <1>1
  <2>. QED
    BY <1>2, <2>1, <2>2, Zenon
<1>4. ASSUME NEW plan \in Range(applied)
      PROVE  Complete(plan)
  <2>1. Placed(plan)
    BY DEF WholeInv
  <2>2. PICK k \in 1..Len(applied) : plan = applied[k]
    BY <1>1 DEF Range
  <2>3. /\ 2 * k - 1 \in 1..Len(newInits) /\ 2 * k \in 1..Len(newInits)
        /\ ((2 * k - 1) + 1) \div 2 = k /\ (2 * k + 1) \div 2 = k
        /\ ((2 * k - 1) % 2 = 0) = FALSE /\ ((2 * k) % 2 = 0) = TRUE
    BY <1>1, <1>2
  <2>4. newInits[2 * k - 1] = helperContainer(plan, FALSE)
        /\ newInits[2 * k] = helperContainer(plan, TRUE)
    BY <1>2, <2>2, <2>3, Zenon
  <2>5. helperContainer(plan, FALSE) \in Range(pod.inits)
        /\ helperContainer(plan, TRUE) \in Range(pod.inits)
    <3>1. \A n \in DOMAIN newInits : n \in DOMAIN pod.inits /\ pod.inits[n] = newInits[n]
      BY <1>1, ConcatExtends
    <3>2. 2 * k - 1 \in DOMAIN newInits /\ 2 * k \in DOMAIN newInits
      BY <1>1, <2>3
    <3>. QED
      BY <2>4, <3>1, <3>2, Zenon DEF Range
  <2>. QED
    BY <2>1, <2>5, Zenon DEF Placed, Complete
<1>5. Len(pod.volumes) = Len(base.volumes) + 2 * Len(applied) +
        (IF applied = <<>> \/ hasVolume(base.volumes, socketVolumeName) THEN 0 ELSE 1)
  <2>1. PICK x, y, z \in Nat : x = 2 * Len(applied) /\ y = Len(base.volumes)
                               /\ z = Len(pod.volumes)
    BY <1>1 DEF TypeOK, Pod
  <2>2. applied = <<>> => z = y /\ x = 0
    BY <2>1 DEF CallInv
  <2>3. /\ hasVolume(base.volumes, socketVolumeName) => z = y + x
        /\ applied # <<>> /\ ~hasVolume(base.volumes, socketVolumeName) => z = y + x + 1
    BY <2>1, Zenon DEF WholeInv
  <2>4. z = y + x + (IF applied = <<>> \/ hasVolume(base.volumes, socketVolumeName) THEN 0 ELSE 1)
    BY <2>2, <2>3
  <2>. QED
    BY <2>1, <2>4, Zenon
<1>. QED
  BY <1>3, <1>4, <1>5 DEF AllOrNothing, WholeInv

-----------------------------------------------------------------------------
(* Nothing is lost silently.                                               *)

(* An applied plan has warned of each container and env var it left out.   *)
Reported(plan) ==
  /\ \A n \in Range(Requested(base, plan)) :
       \/ \E i \in TargetsOf(plan) : base.containers[i].name = n
       \/ Warn(plan, "container not found", n, "") \in warnings
  /\ \A i \in TargetsOf(plan), e \in plan.env :
       \/ [name |-> e, from |-> plan.key] \in pod.containers[i].env
       \/ Warn(plan, "env untouched", base.containers[i].name, e) \in warnings

(* Every plan behind the loop is applied or warned of, and a warning of a  *)
(* skip is about a plan behind the loop that was not applied.              *)
LostInv ==
  /\ \A plan \in Range(applied) : \E k \in 1..(at - 1) : plan = plans[k]
  /\ \A w \in warnings : w.kind = "skipped" =>
       \E k \in 1..(at - 1) : w \in SkipWarnings(plans[k]) /\ plans[k] \notin Range(applied)
  /\ \A k \in 1..(at - 1) :
       plans[k] \in Range(applied) \/ SkipWarnings(plans[k]) \cap warnings # {}
  /\ \A plan \in Range(applied) : Reported(plan)
  /\ phase = "called" => at = 1 /\ warnings = {}
  /\ phase = "done" => Injected(base) \/ at = Len(plans) + 1

(* At first nothing is applied and nothing is warned of.                   *)
LEMMA LostInit == Init => LostInv
<1>. SUFFICES ASSUME Init PROVE LostInv
  OBVIOUS
<1>1. Range(applied) = {} /\ at = 1 /\ warnings = {} /\ phase = "called"
  BY DEF Init, Range
<1>2. 1..(at - 1) = {}
  BY <1>1
<1>. QED
  BY <1>1, <1>2 DEF LostInv

(* The warnings of the loop are about the plan at hand; only the ones of a *)
(* skip say that it is skipped.                                            *)
LEMMA WarningKinds ==
  ASSUME NEW plan, NEW p
  PROVE  /\ \A w \in NotFoundWarnings(p, plan) : w.kind # "skipped"
         /\ \A w \in EnvWarnings(p, plan, resolveTargets(p, plan)) : w.kind # "skipped"
         /\ Warn(plan, "skipped", <<>>, "") \in SkipWarnings(plan)
         /\ BudgetWarning(plan) \in SkipWarnings(plan)
         /\ \A w \in SkipWarnings(plan) : w.kind = "skipped" /\ w.shim \in {plan.name, plan.key}
<1>1. \A c, e : /\ Warn(plan, "container not found", c, e).kind # "skipped"
                /\ Warn(plan, "env untouched", c, e).kind # "skipped"
  BY DEF Warn
<1>2. \A w \in NotFoundWarnings(p, plan) : w.kind # "skipped"
  BY <1>1, Zenon DEF NotFoundWarnings
<1>3. \A w \in EnvWarnings(p, plan, resolveTargets(p, plan)) : w.kind # "skipped"
  BY <1>1, Zenon DEF EnvWarnings
<1>4. /\ Warn(plan, "skipped", <<>>, "").kind = "skipped"
      /\ Warn(plan, "skipped", <<>>, "").shim = plan.name
      /\ BudgetWarning(plan).kind = "skipped" /\ BudgetWarning(plan).shim = plan.key
  BY DEF Warn, BudgetWarning
<1>. QED
  BY <1>2, <1>3, <1>4, Zenon DEF SkipWarnings

(* A skip leaves the pod alone and warns of the plan at hand.              *)
LEMMA SkipWarns ==
  ASSUME TypeOK, SkipOverBudget \/ SkipNoTarget \/ SkipCollision
  PROVE  /\ InLoop /\ at' = at + 1 /\ UNCHANGED <<pod, base, plans, applied, phase>>
         /\ \E warned : /\ warnings' = warnings \cup warned
                        /\ SkipWarnings(plans[at]) \cap warned # {}
                        /\ \A w \in warned : w.kind = "skipped" => w \in SkipWarnings(plans[at])
<1>1. PICK warned :
        /\ InLoop /\ Skip(warned)
        /\ SkipWarnings(plans[at]) \cap warned # {}
        /\ \A w \in warned : w.kind = "skipped" => w \in SkipWarnings(plans[at])
  <2>1. /\ \A w \in NotFoundWarnings(pod, plans[at]) : w.kind # "skipped"
        /\ Warn(plans[at], "skipped", <<>>, "") \in SkipWarnings(plans[at])
        /\ BudgetWarning(plans[at]) \in SkipWarnings(plans[at])
    BY WarningKinds, Zenon
  <2>2. CASE SkipOverBudget
    BY <2>1, <2>2, Zenon DEF SkipOverBudget
  <2>3. CASE SkipNoTarget \/ SkipCollision
    BY <2>1, <2>3, Zenon DEF SkipNoTarget, SkipCollision
  <2>. QED
    BY <2>2, <2>3
<1>. QED
  BY <1>1, Zenon DEF Skip

(* What has been reported stays reported while the pod and the list of     *)
(* warnings grow.                                                          *)
LEMMA ReportedKept ==
  ASSUME NEW plan, Reported(plan), UNCHANGED base, warnings \subseteq warnings',
         \A i \in TargetsOf(plan) : pod.containers[i].env \subseteq pod'.containers[i].env
  PROVE  Reported(plan)'
<1>1. TargetsOf(plan)' = TargetsOf(plan)
  BY DEF TargetsOf
<1>. QED
  BY <1>1, Zenon DEF Reported

(* Two plans of one list differ.                                           *)
LEMMA PlansDiffer ==
  ASSUME KeysIdentify, TypeOK, InLoop
  PROVE  /\ at \in DOMAIN plans
         /\ \A k \in 1..(at - 1) : k \in DOMAIN plans /\ plans[k] # plans[at]
<1>1. plans \in PlanLists /\ plans \in Seq(Plan) /\ at \in Nat \ {0} /\ at <= Len(plans)
  BY ConstantsTyped DEF TypeOK, InLoop
<1>2. at \in DOMAIN plans /\ \A k \in 1..(at - 1) : k \in DOMAIN plans /\ k # at
  BY <1>1
<1>. QED
  BY <1>1, <1>2 DEF KeysIdentify

(* Applying a plan reports what it leaves out.                             *)
LEMMA ApplyPlanReports ==
  ASSUME Counting, TypeOK, CallInv, ApplyPlan, NEW plan, plan = plans[at]
  PROVE  Reported(plan)'
<1>. DEFINE targets == resolveTargets(pod, plan)
<1>1. pod \in Pod /\ base \in Pod /\ plan \in Plan /\ UNCHANGED base
      /\ pod'.containers = injectIntoContainers(pod, plan, targets)
  BY ApplyPlanAdds DEF TypeOK
<1>2. NotFoundWarnings(pod, plan) \subseteq warnings'
      /\ EnvWarnings(pod, plan, targets) \subseteq warnings'
  BY Zenon DEF ApplyPlan
<1>3. SameSelection(pod, base)
  BY DEF CallInv
<1>4. TargetsOf(plan)' = Targeted(pod, targets) /\ Requested(base, plan) = Requested(pod, plan)
  BY <1>1, <1>3, SelectionStable DEF TargetsOf
<1>5. \A i \in Targeted(pod, targets) : base.containers[i].name = pod.containers[i].name
  BY <1>3 DEF SameSelection, Targeted
<1>6. ASSUME NEW n \in Range(Requested(pod, plan))
      PROVE  \/ \E i \in Targeted(pod, targets) : base.containers[i].name = n
             \/ Warn(plan, "container not found", n, "") \in warnings'
  <2>1. CASE hasContainerNamed(pod.containers, n)
    <3>1. \E i \in Targeted(pod, targets) : pod.containers[i].name = n
      BY <1>1, <2>1, TargetsFound
    <3>. QED
      BY <1>5, <3>1, Zenon
  <2>2. CASE ~hasContainerNamed(pod.containers, n)
    <3>1. Warn(plan, "container not found", n, "") \in NotFoundWarnings(pod, plan)
      BY <2>2, Zenon DEF NotFoundWarnings
    <3>. QED
      BY <1>2, <3>1, Zenon
  <2>. QED
    BY <2>1, <2>2, Zenon
<1>7. ASSUME NEW i \in Targeted(pod, targets), NEW e \in plan.env
      PROVE  \/ [name |-> e, from |-> plan.key] \in pod'.containers[i].env
             \/ Warn(plan, "env untouched", base.containers[i].name, e) \in warnings'
  <2>1. CASE hasEnvNamed(pod.containers[i], e)
    <3>1. <<i, e>> \in {y \in Targeted(pod, targets) \X plan.env :
                         \/ hasEnvNamed(pod.containers[y[1]], y[2])
                         \/ Visits(targets, pod.containers[y[1]].name) > 1}
      BY <2>1
    <3>2. Warn(plan, "env untouched", pod.containers[<<i, e>>[1]].name, <<i, e>>[2])
            \in EnvWarnings(pod, plan, targets)
      BY <3>1, Zenon DEF EnvWarnings
    <3>3. <<i, e>>[1] = i /\ <<i, e>>[2] = e
      OBVIOUS
    <3>. QED
      BY <1>2, <1>5, <3>2, <3>3, Zenon
  <2>2. CASE ~hasEnvNamed(pod.containers[i], e)
    <3>1. i \in DOMAIN pod.containers
      BY DEF Targeted
    <3>2. MissingEnv(pod.containers[i], plan) \subseteq pod'.containers[i].env
      BY <1>1, <3>1, InjectGrows
    <3>. QED
      BY <2>2, <3>2, Zenon DEF MissingEnv
  <2>. QED
    BY <2>1, <2>2, Zenon
<1>8. UNCHANGED base
  BY <1>1
<1>. HIDE DEF targets
<1>. QED
  BY <1>4, <1>6, <1>7, <1>8, Zenon DEF Reported

(* Applying a plan keeps what LostInv says.                                *)
LEMMA LostApply ==
  ASSUME Counting, KeysIdentify, TypeOK, CallInv, LostInv, ApplyPlan
  PROVE  LostInv'
<1>0. PICK plan : plan = plans[at]
  OBVIOUS
<1>1. /\ InLoop /\ applied' = Append(applied, plan) /\ at' = at + 1 /\ plan \in Plan
      /\ UNCHANGED <<base, plans, phase>> /\ phase = "applying" /\ pod \in Pod
      /\ pod'.containers = injectIntoContainers(pod, plan, resolveTargets(pod, plan))
  BY <1>0, ApplyPlanAdds DEF InLoop
<1>2. Range(applied') = Range(applied) \cup {plan}
  <2>1. applied \in Seq(Plan)
    BY DEF TypeOK
  <2>. QED
    BY <1>1, <2>1, AppendRange
<1>3. warnings \subseteq warnings' /\ \A w \in warnings' : w \in warnings \/ w.kind # "skipped"
  <2>1. warnings' = warnings \cup NotFoundWarnings(pod, plan)
                      \cup EnvWarnings(pod, plan, resolveTargets(pod, plan))
    BY <1>0, Zenon DEF ApplyPlan
  <2>. QED
    BY <2>1, WarningKinds, Zenon
<1>4. 1..(at' - 1) = (1..(at - 1)) \cup {at}
  <2>1. at \in Nat \ {0}
    BY DEF TypeOK
  <2>. QED
    BY <1>1, <2>1
<1>5. \A k \in 1..(at - 1) : plans[k] # plan
  BY <1>0, <1>1, PlansDiffer
<1>6. ASSUME NEW p \in Range(applied)
      PROVE  Reported(p)'
  <2>1. Reported(p) /\ UNCHANGED base
    BY <1>1 DEF LostInv
  <2>2. ASSUME NEW i \in TargetsOf(p)
        PROVE  pod.containers[i].env \subseteq pod'.containers[i].env
    <3>1. i \in DOMAIN pod.containers
      BY DEF TargetsOf, Targeted, CallInv, SameSelection
    <3>. QED
      BY <1>1, <3>1, InjectGrows
  <2>. QED
    BY <1>3, <2>1, <2>2, ReportedKept
<1>7. Reported(plan)'
  BY <1>0, ApplyPlanReports
<1>8. /\ \A p \in Range(applied) : \E k \in 1..(at - 1) : p = plans[k]
      /\ \A w \in warnings : w.kind = "skipped" =>
           \E k \in 1..(at - 1) : w \in SkipWarnings(plans[k]) /\ plans[k] \notin Range(applied)
      /\ \A k \in 1..(at - 1) :
           plans[k] \in Range(applied) \/ SkipWarnings(plans[k]) \cap warnings # {}
  BY DEF LostInv
<1>9. \A p \in Range(applied') : \E k \in 1..(at' - 1) : p = plans'[k]
  BY <1>0, <1>1, <1>2, <1>4, <1>8, Zenon
<1>10. \A w \in warnings' : w.kind = "skipped" =>
         \E k \in 1..(at' - 1) : w \in SkipWarnings(plans'[k]) /\ plans'[k] \notin Range(applied')
  BY <1>1, <1>2, <1>3, <1>4, <1>5, <1>8, Zenon
<1>11. \A k \in 1..(at' - 1) :
         plans'[k] \in Range(applied') \/ SkipWarnings(plans'[k]) \cap warnings' # {}
  BY <1>0, <1>1, <1>2, <1>3, <1>4, <1>8, Zenon
<1>12. phase' = "applying"
  BY <1>1
<1>13. \A p \in Range(applied') : Reported(p)'
  BY <1>2, <1>6, <1>7, Zenon
<1>. QED
  BY <1>9, <1>10, <1>11, <1>12, <1>13 DEF LostInv

(* Every other step keeps the record.                                      *)
LEMMA LostStep ==
  ASSUME Counting, KeysIdentify, TypeOK, CallInv, LostInv, [Next]_vars
  PROVE  LostInv'
<1>0. /\ \A p \in Range(applied) : \E k \in 1..(at - 1) : p = plans[k]
      /\ \A w \in warnings : w.kind = "skipped" =>
           \E k \in 1..(at - 1) : w \in SkipWarnings(plans[k]) /\ plans[k] \notin Range(applied)
      /\ \A k \in 1..(at - 1) :
           plans[k] \in Range(applied) \/ SkipWarnings(plans[k]) \cap warnings # {}
      /\ \A p \in Range(applied) : Reported(p)
  BY DEF LostInv
<1>1. CASE AlreadyInjected
  <2>1. /\ UNCHANGED <<pod, base, plans, at, applied>> /\ phase' = "done"
        /\ phase = "called" /\ Injected(pod)
        /\ warnings' = {[shim |-> "", kind |-> "already injected", container |-> <<>>, env |-> ""]}
    BY <1>1, Zenon DEF AlreadyInjected
  <2>2. applied = <<>> /\ pod = base /\ at = 1
    BY <2>1, Zenon DEF CallInv, LostInv
  <2>3. Range(applied') = {} /\ 1..(at' - 1) = {}
    <3>1. applied' = <<>> /\ at' = 1
      BY <2>1, <2>2, Zenon
    <3>. QED
      BY <3>1 DEF Range
  <2>4. Injected(base)'
    BY <2>1, <2>2, Zenon DEF Injected
  <2>5. \A w \in warnings' : w.kind # "skipped"
    <3>1. [shim |-> "", kind |-> "already injected", container |-> <<>>, env |-> ""].kind
            # "skipped"
      OBVIOUS
    <3>. QED
      BY <2>1, <3>1, Zenon
  <2>. QED
    BY <2>1, <2>3, <2>4, <2>5, Zenon DEF LostInv
<1>2. CASE BeginLoop \/ UNCHANGED vars
  <2>1. UNCHANGED <<pod, base, plans, at, applied, warnings>>
        /\ (phase' = phase \/ phase' = "applying")
    BY <1>2, Zenon DEF BeginLoop, vars
  <2>2. \A p : Reported(p)' = Reported(p)
    BY <2>1, Zenon DEF Reported, TargetsOf
  <2>. QED
    BY <2>1, <2>2 DEF LostInv
<1>3. CASE SkipOverBudget \/ SkipNoTarget \/ SkipCollision
  <2>1. InLoop /\ at' = at + 1 /\ UNCHANGED <<pod, base, plans, applied, phase>>
    BY <1>3, SkipWarns
  <2>2. PICK warned : /\ warnings' = warnings \cup warned
                      /\ SkipWarnings(plans[at]) \cap warned # {}
                      /\ \A w \in warned : w.kind = "skipped" => w \in SkipWarnings(plans[at])
    BY <1>3, SkipWarns
  <2>3. 1..(at' - 1) = (1..(at - 1)) \cup {at}
    <3>1. at \in Nat \ {0}
      BY DEF TypeOK
    <3>. QED
      BY <2>1, <3>1
  <2>4. plans[at] \notin Range(applied)
    BY <1>0, <2>1, PlansDiffer, Zenon
  <2>5. \A p \in Range(applied) : Reported(p)'
    <3>1. UNCHANGED <<pod, base>> /\ warnings \subseteq warnings'
      BY <2>1, <2>2
    <3>. QED
      BY <1>0, <3>1, ReportedKept
  <2>6. phase' = "applying"
    BY <2>1 DEF InLoop
  <2>7. \A w \in warnings' : w.kind = "skipped" =>
         \E k \in 1..(at' - 1) : w \in SkipWarnings(plans'[k]) /\ plans'[k] \notin Range(applied')
    BY <1>0, <2>1, <2>2, <2>3, <2>4, Zenon
  <2>8. \A k \in 1..(at' - 1) :
          plans'[k] \in Range(applied') \/ SkipWarnings(plans'[k]) \cap warnings' # {}
    BY <1>0, <2>1, <2>2, <2>3, Zenon
  <2>9. \A p \in Range(applied') : (\E k \in 1..(at' - 1) : p = plans'[k]) /\ Reported(p)'
    BY <1>0, <2>1, <2>3, <2>5, Zenon
  <2>. QED
    BY <2>6, <2>7, <2>8, <2>9 DEF LostInv
<1>4. CASE Finish
  <2>1. UNCHANGED <<base, plans, at, applied, warnings>> /\ phase' = "done" /\ at > Len(plans)
    BY <1>4, Zenon DEF Finish
  <2>2. at = Len(plans) + 1
    <3>1. plans \in Seq(Plan) /\ at \in 1..(Len(plans) + 1)
      BY ConstantsTyped DEF TypeOK
    <3>. QED
      BY <2>1, <3>1
  <2>3. pod'.containers = pod.containers
    BY <1>4, FinishAdds
  <2>4. \A p : Reported(p)' = Reported(p)
    BY <2>1, <2>3, Zenon DEF Reported, TargetsOf
  <2>. QED
    BY <2>1, <2>2, <2>4 DEF LostInv
<1>5. CASE Reinvoke
  <2>1. at' = 1 /\ applied' = <<>> /\ warnings' = {} /\ phase' = "called"
    BY <1>5, Zenon DEF Reinvoke
  <2>2. Range(applied') = {} /\ 1..(at' - 1) = {}
    BY <2>1 DEF Range
  <2>. QED
    BY <2>1, <2>2 DEF LostInv
<1>. QED
  BY <1>1, <1>2, <1>3, <1>4, <1>5, LostApply DEF Next

(* The record is what the property asks for.                               *)
LEMMA LostReported ==
  ASSUME KeysIdentify, TypeOK, LostInv
  PROVE  NothingLostSilently
<1>. SUFFICES ASSUME phase = "done", ~Injected(base), NEW plan \in Range(plans)
              PROVE  /\ plan \notin Range(applied) => SkipWarnings(plan) \cap warnings # {}
                     /\ plan \in Range(applied) =>
                          /\ \/ SkipWarnings(plan) \cap warnings = {}
                             \/ \E other \in Range(plans) \ {plan} : other.name = plan.name
                          /\ Reported(plan)
  BY Zenon DEF NothingLostSilently, Reported
<1>0. PICK k \in DOMAIN plans : plan = plans[k]
  BY DEF Range
<1>1. plans \in PlanLists /\ plans \in Seq(Plan) /\ at = Len(plans) + 1
  BY ConstantsTyped DEF TypeOK, LostInv
<1>2. 1..(at - 1) = DOMAIN plans
  BY <1>1
<1>3. plan \notin Range(applied) => SkipWarnings(plan) \cap warnings # {}
  BY <1>0, <1>2 DEF LostInv
<1>4. ASSUME plan \in Range(applied), NEW w \in SkipWarnings(plan), w \in warnings
      PROVE  \E other \in Range(plans) \ {plan} : other.name = plan.name
  <2>1. w.kind = "skipped" /\ w.shim \in {plan.name, plan.key}
    BY WarningKinds, Zenon
  <2>2. PICK l \in DOMAIN plans : w \in SkipWarnings(plans[l]) /\ plans[l] \notin Range(applied)
    BY <1>2, <1>4, <2>1 DEF LostInv
  <2>3. plans[l] # plan /\ plans[l] \in Range(plans)
    BY <1>4, <2>2 DEF Range
  <2>4. w.shim \in {plans[l].name, plans[l].key}
    BY <2>2, WarningKinds, Zenon
  <2>5. plan.key # plans[l].name /\ plans[l].key # plan.name
        /\ plan.key # plans[l].key
    BY <1>0, <1>1, <2>3 DEF KeysIdentify
  <2>. QED
    BY <2>1, <2>3, <2>4, <2>5
<1>5. plan \in Range(applied) => Reported(plan)
  BY DEF LostInv
<1>. QED
  BY <1>3, <1>4, <1>5, Zenon

-----------------------------------------------------------------------------
(* What an applied plan owns.                                              *)

(* The downwardAPI volume of a plan, and the annotation of its f-th file.  *)
ConfigVolume(plan) ==
  [name |-> configVolumeName(plan.name), csi |-> NotCSI,
   items |-> <<HelperConfAnnotation(plan.name)>> \o
             [i \in DOMAIN plan.files |-> fileAnnotation(plan.name, i)]]

FileEntry(plan, f) ==
  [key |-> fileAnnotation(plan.name, f), from |-> <<plan.key>>, i |-> f,
   bytes |-> plan.files[f].bytes]

(* addVolumes adds the downwardAPI volume.                                 *)
LEMMA ConfigVolumeAdded ==
  ASSUME NEW plan \in Plan, NEW volumes \in Seq(Volume)
  PROVE  ConfigVolume(plan) \in Range(addVolumes(volumes, plan))
<1>1. PICK socket, token, config :
        /\ config = ConfigVolume(plan)
        /\ addVolumes(volumes, plan) =
             (IF hasVolume(volumes, socketVolumeName) THEN volumes ELSE Append(volumes, socket))
             \o <<token, config>>
  BY Zenon DEF addVolumes, ConfigVolume
<1>2. PICK U : volumes \in Seq(U) /\ socket \in U /\ token \in U /\ config \in U
  <2>1. PICK U : U = Volume \cup {socket, token, config}
    BY Zenon
  <2>. QED
    BY <2>1, ListWidened
<1>3. PICK first \in Seq(U) : addVolumes(volumes, plan) = first \o <<token, config>>
  <2>1. Append(volumes, socket) \in Seq(U)
    BY <1>2, AppendList
  <2>. QED
    BY <1>1, <1>2, <2>1, Zenon
<1>4. <<token, config>> \in Seq(U) /\ 2 \in DOMAIN <<token, config>> /\ <<token, config>>[2] = config
  BY <1>2
<1>5. config \in Range(<<token, config>>)
  BY <1>4 DEF Range
<1>. QED
  BY <1>1, <1>3, <1>4, <1>5, ConcatExtends, Zenon

(* A file's key belongs to the entry of that file alone.                   *)
LEMMA FileEntries ==
  ASSUME NEW plan, NEW f \in DOMAIN plan.files
  PROVE  /\ FileEntry(plan, f) \in PlanAnnotations(plan)
         /\ FileEntry(plan, f).key = fileAnnotation(plan.name, f)
         /\ \A e \in PlanAnnotations(plan) :
              e.key = fileAnnotation(plan.name, f) => e = FileEntry(plan, f)
<1>1. FileEntry(plan, f) \in PlanAnnotations(plan)
  BY Zenon DEF FileEntry, PlanAnnotations
<1>2. FileEntry(plan, f).key = fileAnnotation(plan.name, f)
  BY DEF FileEntry
<1>3. ASSUME NEW e \in PlanAnnotations(plan), e.key = fileAnnotation(plan.name, f)
      PROVE  e = FileEntry(plan, f)
  <2>1. /\ fileAnnotation(plan.name, f).kind = "file-" /\ fileAnnotation(plan.name, f).i = f
        /\ HelperConfAnnotation(plan.name).kind = "helper-conf-"
        /\ \A i : fileAnnotation(plan.name, i).i = i
    BY DEF fileAnnotation, HelperConfAnnotation
  <2>2. e = [key |-> HelperConfAnnotation(plan.name), from |-> <<plan.key>>, i |-> 0,
             bytes |-> plan.confBytes]
        \/ \E i \in DOMAIN plan.files : e = FileEntry(plan, i)
    BY Zenon DEF PlanAnnotations, FileEntry
  <2>3. CASE e = [key |-> HelperConfAnnotation(plan.name), from |-> <<plan.key>>, i |-> 0,
                  bytes |-> plan.confBytes]
    BY <1>3, <2>1, <2>3
  <2>4. CASE \E i \in DOMAIN plan.files : e = FileEntry(plan, i)
    <3>1. PICK i \in DOMAIN plan.files : e = FileEntry(plan, i)
      BY <2>4
    <3>2. e.key = fileAnnotation(plan.name, i)
      BY <3>1 DEF FileEntry
    <3>3. i = f
      BY <1>3, <2>1, <3>2
    <3>. QED
      BY <3>1, <3>3
  <2>. QED
    BY <2>2, <2>3, <2>4, Zenon
<1>. QED
  BY <1>1, <1>2, <1>3, Zenon

(* No other plan of the call, and nothing the pod came with, shares an     *)
(* applied plan's token volume or the annotations of its files.            *)
Owned(plan) ==
  /\ ~hasVolume(base.volumes, plan.tokenVolume)
  /\ \A q \in Range(applied) : q.tokenVolume = plan.tokenVolume => q = plan
  /\ ConfigVolume(plan) \in Range(pod.volumes)
  /\ \A e \in pod.annotations, f \in DOMAIN plan.files :
       e.key = fileAnnotation(plan.name, f) => e = FileEntry(plan, f)

OwnInv ==
  /\ Extends(base.volumes, pod.volumes)
  /\ \A plan \in Range(applied) : Owned(plan)

(* Applying a plan gives it what it owns and takes nothing from the others. *)
LEMMA OwnApply ==
  ASSUME Counting, TypeOK, WholeInv, OwnInv, ApplyPlan
  PROVE  OwnInv'
<1>0. PICK plan : plan = plans[at]
  OBVIOUS
<1>1. /\ plan \in Plan /\ applied' = Append(applied, plan) /\ UNCHANGED base
      /\ pod'.volumes = addVolumes(pod.volumes, plan)
      /\ pod'.annotations = setAnnotation(pod.annotations, PlanAnnotations(plan))
      /\ ~checkCollisions(pod, plan, newInits, resolveTargets(pod, plan))
  BY <1>0, ApplyPlanAdds, Zenon
<1>2. /\ pod.volumes \in Seq(Volume) /\ base.volumes \in Seq(Volume) /\ applied \in Seq(Plan)
      /\ pod'.volumes \in Seq(Volume)
  <2>1. pod' \in Pod /\ pod \in Pod /\ base \in Pod /\ applied \in Seq(Plan)
    BY ApplyPlanPodType DEF TypeOK
  <2>. QED
    BY <2>1 DEF Pod
<1>3. Range(applied') = Range(applied) \cup {plan}
  BY <1>1, <1>2, AppendRange
<1>4. /\ Extends(pod.volumes, pod'.volumes) /\ Range(pod.volumes) \subseteq Range(pod'.volumes)
      /\ ConfigVolume(plan) \in Range(pod'.volumes)
  BY <1>1, <1>2, AddVolumesGrow, ConfigVolumeAdded, ExtendsKeeps, Zenon
<1>5. Extends(base.volumes, pod'.volumes)
  BY <1>2, <1>4, ExtendsTrans DEF OwnInv
<1>6. /\ ~hasVolume(pod.volumes, plan.tokenVolume)
      /\ ~hasVolume(pod.volumes, configVolumeName(plan.name))
  BY <1>1, Zenon DEF checkCollisions
<1>7. ~hasVolume(base.volumes, plan.tokenVolume)
  BY <1>2, <1>6, ExtendsKeeps DEF OwnInv
<1>8. \A p \in Range(applied) : p.tokenVolume # plan.tokenVolume /\ p.name # plan.name
  <2>1. \A p \in Range(applied) : hasVolume(pod.volumes, p.tokenVolume)
                                  /\ hasVolume(pod.volumes, configVolumeName(p.name))
    BY Zenon DEF WholeInv, Placed
  <2>. QED
    BY <1>6, <2>1, Zenon
<1>9. ASSUME NEW e \in pod'.annotations, NEW f \in DOMAIN plan.files,
             e.key = fileAnnotation(plan.name, f)
      PROVE  e = FileEntry(plan, f)
  <2>1. e \in PlanAnnotations(plan)
    BY <1>1, <1>9, FileEntries, Zenon DEF setAnnotation
  <2>. QED
    BY <1>9, <2>1, FileEntries
<1>10. ASSUME NEW p \in Range(applied), NEW e \in pod'.annotations, NEW f \in DOMAIN p.files,
              e.key = fileAnnotation(p.name, f)
       PROVE  e = FileEntry(p, f)
  <2>1. e.key.shim = p.name
    BY <1>10 DEF fileAnnotation
  <2>2. e \notin PlanAnnotations(plan)
    BY <1>8, <2>1, PlanKeys
  <2>3. e \in pod.annotations
    BY <1>1, <2>2, Zenon DEF setAnnotation
  <2>. QED
    BY <1>10, <2>3, Zenon DEF OwnInv, Owned
<1>11. ASSUME NEW p \in Range(applied)
       PROVE  Owned(p)'
  <2>1. /\ ~hasVolume(base.volumes, p.tokenVolume) /\ ConfigVolume(p) \in Range(pod.volumes)
        /\ \A q \in Range(applied) : q.tokenVolume = p.tokenVolume => q = p
    BY Zenon DEF OwnInv, Owned
  <2>. QED
    BY <1>1, <1>3, <1>4, <1>8, <1>10, <2>1, Zenon DEF Owned
<1>12. Owned(plan)'
  BY <1>1, <1>3, <1>4, <1>7, <1>8, <1>9, Zenon DEF Owned
<1>. QED
  BY <1>1, <1>3, <1>5, <1>11, <1>12, ZenonT(30) DEF OwnInv

(* Every step keeps what OwnInv says.                                      *)
LEMMA OwnStep ==
  ASSUME Counting, TypeOK, CallInv, WholeInv, OwnInv, [Next]_vars
  PROVE  OwnInv'
<1>1. CASE \/ AlreadyInjected \/ BeginLoop \/ SkipOverBudget \/ SkipNoTarget \/ SkipCollision
           \/ UNCHANGED vars
  <2>1. UNCHANGED <<pod, base, applied>>
    BY <1>1, Zenon DEF AlreadyInjected, BeginLoop, SkipOverBudget, SkipNoTarget, SkipCollision,
       Skip, vars
  <2>. QED
    BY <2>1, Zenon DEF OwnInv, Owned
<1>2. CASE Finish
  <2>1. UNCHANGED <<base, applied>>
    BY <1>2, FinishAdds
  <2>2. CASE applied = <<>>
    <3>1. pod' = pod
      BY <1>2, <2>2, FinishAdds
    <3>. QED
      BY <2>1, <3>1, Zenon DEF OwnInv, Owned
  <2>3. CASE applied # <<>>
    <3>1. /\ pod'.annotations = setAnnotation(pod.annotations, StatusAnnotations(applied))
          /\ pod'.volumes = pod.volumes
      BY <1>2, <2>3, FinishAdds
    <3>2. ASSUME NEW p \in Range(applied), NEW e \in pod'.annotations, NEW f \in DOMAIN p.files,
                 e.key = fileAnnotation(p.name, f)
          PROVE  e = FileEntry(p, f)
      <4>1. e.key.kind = "file-"
        BY <3>2 DEF fileAnnotation
      <4>2. e \notin StatusAnnotations(applied)
        BY <4>1, PlanKeys, Zenon
      <4>3. e \in pod.annotations
        BY <3>1, <4>2, Zenon DEF setAnnotation
      <4>. QED
        BY <3>2, <4>3, Zenon DEF OwnInv, Owned
    <3>. QED
      BY <2>1, <3>1, <3>2, Zenon DEF OwnInv, Owned
  <2>. QED
    BY <2>2, <2>3
<1>3. CASE Reinvoke
  <2>1. base' = pod' /\ applied' = <<>> /\ pod'.volumes = pod.volumes
    BY <1>3, ReinvokeAdds
  <2>2. pod.volumes \in Seq(Volume)
    BY DEF TypeOK, Pod
  <2>3. Extends(pod.volumes, pod.volumes) /\ Range(<<>>) = {}
    BY <2>2 DEF Extends, Range
  <2>. QED
    BY <2>1, <2>3, Zenon DEF OwnInv
<1>. QED
  BY <1>1, <1>2, <1>3, OwnApply, Zenon DEF Next

(* At first no plan owns anything.                                         *)
LEMMA OwnInit == Init => OwnInv
<1>. SUFFICES ASSUME Init PROVE OwnInv
  OBVIOUS
<1>1. pod \in Pod /\ base = pod /\ applied = <<>>
  BY ConstantsTyped DEF Init
<1>2. Extends(pod.volumes, pod.volumes) /\ Range(<<>>) = {}
  BY <1>1 DEF Pod, Extends, Range
<1>. QED
  BY <1>1, <1>2, Zenon DEF OwnInv

(* A target mounts nothing else at a path of the plan.                     *)
LEMMA TargetMounts ==
  ASSUME TypeOK, CallInv, WholeInv, ServerAccepts(pod),
         NEW plan \in Range(applied), NEW i \in TargetsOf(plan),
         NEW m \in Range(pod.containers[i].mounts),
         NEW t \in Range(ContainerMounts(plan)), t.path = m.path
  PROVE  m = t
<1>1. i \in DOMAIN pod.containers
  BY DEF TargetsOf, Targeted, CallInv, SameSelection
<1>2. UniquePaths(pod.containers[i].mounts)
  BY <1>1 DEF ServerAccepts, MountsValid
<1>3. t \in Range(pod.containers[i].mounts)
  BY Zenon DEF WholeInv, Placed
<1>. QED
  BY <1>2, <1>3, Zenon DEF UniquePaths, Range

(* ... so the token it reads is the one that the plan's sidecar refreshes. *)
LEMMA OwnRefreshed ==
  ASSUME TypeOK, CallInv, WholeInv, OwnInv, ServerAccepts(pod), ServerAccepts(base)
  PROVE  OneRefresherPerToken
<1>. SUFFICES ASSUME phase = "done", NEW plan \in Range(applied), NEW i \in TargetsOf(plan),
                     NEW m \in Range(pod.containers[i].mounts), m.path = plan.mountPath
              PROVE  {c \in Range(pod.inits) : c.always /\ Writes(c, m.volume)}
                       = {helperContainer(plan, TRUE)}
  BY Zenon DEF OneRefresherPerToken
<1>1. plan \in Plan /\ applied \in Seq(Plan)
  BY DEF TypeOK, Range
<1>2. m.volume = plan.tokenVolume
  <2>1. PICK t \in Range(ContainerMounts(plan)) :
          t.path = plan.mountPath /\ t.volume = plan.tokenVolume
    BY <1>1, ContainerMountsHave
  <2>. QED
    BY <2>1, TargetMounts
<1>3. helperContainer(plan, TRUE) \in Range(pod.inits)
  BY WholeComplete, Zenon DEF AllOrNothing, Complete
<1>4. ASSUME NEW c \in Range(pod.inits), c.always, Writes(c, plan.tokenVolume)
      PROVE  c = helperContainer(plan, TRUE)
  <2>1. /\ pod.inits = newInits \o base.inits /\ newInits = HelpersOf(applied)
        /\ newInits \in Seq(Container) /\ base.inits \in Seq(Container)
    BY DEF CallInv, TypeOK, Pod
  <2>2. c \notin Range(base.inits)
    <3>1. MountsValid(base.inits, base.volumes)
      BY DEF ServerAccepts
    <3>2. ~hasVolume(base.volumes, plan.tokenVolume)
      BY Zenon DEF OwnInv, Owned
    <3>. QED
      BY <1>4, <3>1, <3>2, ZenonT(30) DEF MountsValid, Writes, Range
  <2>3. PICK n \in DOMAIN newInits : c = newInits[n]
    <3>1. PICK k \in DOMAIN (newInits \o base.inits) : c = (newInits \o base.inits)[k]
      BY <2>1, Zenon DEF Range
    <3>2. \/ k \in DOMAIN newInits /\ c = newInits[k]
          \/ \E j \in DOMAIN base.inits : c = base.inits[j]
      BY <2>1, <3>1, ConcatElements
    <3>. QED
      BY <2>2, <3>2, Zenon DEF Range
  <2>4. PICK q \in Range(applied), sidecar \in BOOLEAN : c = helperContainer(q, sidecar)
    <3>1. DOMAIN newInits = 1..(2 * Len(applied)) /\ n \in 1..(2 * Len(applied))
          /\ c = helperContainer(applied[(n + 1) \div 2], n % 2 = 0)
      BY <2>1, <2>3 DEF HelpersOf
    <3>2. (n + 1) \div 2 \in DOMAIN applied
      BY <1>1, <3>1
    <3>. QED
      BY <3>1, <3>2, Zenon DEF Range
  <2>5. sidecar = TRUE /\ q.tokenVolume = plan.tokenVolume
    BY <1>4, <2>4, HelperWrites
  <2>6. q = plan
    BY <2>5, Zenon DEF OwnInv, Owned
  <2>. QED
    BY <2>4, <2>5, <2>6, ZenonT(30)
<1>5. helperContainer(plan, TRUE).always /\ Writes(helperContainer(plan, TRUE), plan.tokenVolume)
  BY HelperWrites, Zenon
<1>. QED
  BY <1>2, <1>3, <1>4, <1>5, Zenon

(* ... and the file it reads is the one that the plan rendered.            *)
LEMMA OwnFiles ==
  ASSUME TypeOK, CallInv, WholeInv, OwnInv, ServerAccepts(pod)
  PROVE  FilesReachContainers
<1>. SUFFICES ASSUME phase = "done", NEW plan \in Range(applied), NEW i \in TargetsOf(plan),
                     NEW f \in DOMAIN plan.files,
                     NEW m \in Range(pod.containers[i].mounts), m.path = plan.files[f].path
              PROVE  \E a \in pod.annotations :
                       /\ Shown(pod, m) = {a}
                       /\ a.from = <<plan.key>> /\ a.i = f
  BY Zenon DEF FilesReachContainers
<1>1. plan \in Plan /\ plan.files \in Seq(File)
  <2>1. applied \in Seq(Plan)
    BY DEF TypeOK
  <2>2. plan \in Plan
    BY <2>1 DEF Range
  <2>. QED
    BY <2>2 DEF Plan
<1>2. m.volume = configVolumeName(plan.name) /\ m.subPath = f + 1
  <2>1. PICK t \in Range(ContainerMounts(plan)) :
          /\ t.path = plan.files[f].path /\ t.volume = configVolumeName(plan.name)
          /\ t.subPath = f + 1
    BY <1>1, ContainerMountsHave
  <2>. QED
    BY <2>1, TargetMounts
<1>3. /\ ConfigVolume(plan).name = configVolumeName(plan.name)
      /\ f + 1 \in DOMAIN ConfigVolume(plan).items
      /\ ConfigVolume(plan).items[f + 1] = fileAnnotation(plan.name, f)
  <2>1. PICK key, rest : /\ key = HelperConfAnnotation(plan.name)
                         /\ rest = [n \in DOMAIN plan.files |-> fileAnnotation(plan.name, n)]
    BY Zenon
  <2>2. ConfigVolume(plan).items = <<key>> \o rest
        /\ ConfigVolume(plan).name = configVolumeName(plan.name)
    BY <2>1 DEF ConfigVolume
  <2>3. PICK U : key \in U /\ rest \in Seq(U)
    <3>1. PICK U : U = {key} \cup {rest[n] : n \in DOMAIN plan.files}
      BY Zenon
    <3>2. rest \in Seq(U)
      BY <1>1, <2>1, <3>1
    <3>. QED
      BY <3>1, <3>2
  <2>4. f + 1 \in DOMAIN (<<key>> \o rest) /\ (<<key>> \o rest)[f + 1] = rest[f]
    BY <1>1, <2>1, <2>3
  <2>. QED
    BY <2>1, <2>2, <2>4
<1>4. \A v \in Range(pod.volumes) : v.name = m.volume => v = ConfigVolume(plan)
  <2>1. ConfigVolume(plan) \in Range(pod.volumes) /\ UniqueNames(pod.volumes)
    BY Zenon DEF OwnInv, Owned, ServerAccepts
  <2>. QED
    BY <1>2, <1>3, <2>1, Zenon DEF UniqueNames, Range
<1>5. ConfigVolume(plan) \in Range(pod.volumes)
  BY Zenon DEF OwnInv, Owned
<1>6. Shown(pod, m) = {a \in pod.annotations : a.key = fileAnnotation(plan.name, f)}
  BY <1>2, <1>3, <1>4, <1>5, Zenon DEF Shown
<1>7. FileEntry(plan, f) \in pod.annotations /\ FileEntry(plan, f).key = fileAnnotation(plan.name, f)
  BY FileEntries, Zenon DEF WholeInv, Placed
<1>8. \A a \in pod.annotations : a.key = fileAnnotation(plan.name, f) => a = FileEntry(plan, f)
  BY Zenon DEF OwnInv, Owned
<1>9. FileEntry(plan, f).from = <<plan.key>> /\ FileEntry(plan, f).i = f
  BY DEF FileEntry
<1>. QED
  BY <1>6, <1>7, <1>8, <1>9, Zenon

=============================================================================
