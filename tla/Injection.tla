----------------------------- MODULE Injection -----------------------------
(***************************************************************************)
(* internal/injection, mutate.go and collisions.go: Apply injects a list   *)
(* of plans, one per matching shim, into an admitted pod.  The loop body   *)
(* is one action per way out of it (three skips and the injection); the    *)
(* API server may run the webhook again on the mutated pod after another   *)
(* webhook has changed it (reinvocationPolicy=IfNeeded).                   *)
(*                                                                         *)
(* A name is a tuple of strings, so that <<"oidcshim-init-", "gcp">> is    *)
(* the concatenation the code builds and can still be spelled by a pod's   *)
(* author.  A path is the tuple of its segments.  Contents are abstracted  *)
(* to who rendered them and how many bytes they take.                      *)
(***************************************************************************)
EXTENDS Integers, Sequences, FiniteSets, Functions

CONSTANTS
  Text,                  \* the strings that names and values are made of
  Pods,                  \* the pods an admission request may carry
  PlanLists,             \* the plan lists buildPlans may hand to Apply
  Sidecars,              \* the containers another mutating webhook may add
  MaxPodAnnotationBytes, \* the webhook's budget for a pod's annotations
  APIAnnotationLimit,    \* the API server's limit on them
  KeyBytes,              \* length of an annotation key
  MaxCalls               \* bound: calls of the webhook on one pod

VARIABLES
  pod,        \* the pod being mutated
  base,       \* the pod as this call received it
  plans,      \* the plans of this call
  at,         \* the plan the loop visits next
  newInits,   \* helper containers queued for prepending
  addedBytes, \* rendered bytes of the plans applied so far
  applied,    \* the plans applied by this call, in order
  warnings,   \* the admission warnings of this call
  phase,      \* "called", "applying" or "done"
  calls,      \* how often the API server called the webhook on this pod
  injections  \* how many of those calls injected something

vars == <<pod, base, plans, at, newInits, addedBytes, applied, warnings, phase,
          calls, injections>>

-----------------------------------------------------------------------------
(* Names, paths and keys.                                                  *)

socketVolumeName == <<"spiffe-workload-api">>
configMountPath == <<"etc", "oidcshim">>

configVolumeName(shim) == <<"oidcshim-config-", shim>>
initContainerName(shim) == <<"oidcshim-init-", shim>>
refreshContainerName(shim) == <<"oidcshim-refresh-", shim>>

AnnotationKey == [kind : Text, shim : Text, i : Nat]
StatusAnnotation == [kind |-> "status", shim |-> "", i |-> 0]
ShimsAnnotation == [kind |-> "shims", shim |-> "", i |-> 0]
HelperConfAnnotation(shim) == [kind |-> "helper-conf-", shim |-> shim, i |-> 0]
MutFileKeyWithoutShim(shim, i) == [kind |-> "file-", shim |-> "", i |-> i]
fileAnnotation(shim, i) == [kind |-> "file-", shim |-> shim, i |-> i]

NotCSI == "not a CSI volume"
StatusInjected == <<"injected">>
BlankPart == <<"">>

(* Records.  A volume's items are the annotation keys its downwardAPI      *)
(* source projects; subPath n > 0 of a mount is the n-th of them.          *)
Name == Seq(Text)
Path == Seq(Text)
Mount == [path : Path, volume : Name, subPath : Nat, readOnly : BOOLEAN]
EnvVar == [name : Text, from : Text]
Container == [name : Name, mounts : Seq(Mount), env : SUBSET EnvVar,
              always : BOOLEAN]
Volume == [name : Name, csi : Text, items : Seq(AnnotationKey)]
Annotation == [key : AnnotationKey, from : Seq(Text), i : Nat, bytes : Nat]
Label == [key : Text, value : Text]
Pod == [volumes : Seq(Volume), inits : Seq(Container),
        containers : Seq(Container), annotations : SUBSET Annotation,
        labels : SUBSET Label, filter : Seq(Name)]
File == [path : Path, bytes : Nat]
Plan == [key : Text, name : Text, clusterScoped : BOOLEAN,
         tokenVolume : Name, mountPath : Path, socketMountPath : Path,
         csiDriver : Text, confBytes : Nat,
         files : Seq(File),
         env : SUBSET Text, containers : Seq(Name)]
Warning == [shim : Text, kind : Text, container : Name, env : Text]

(* Warnings name the shim without its kind and namespace, except the one   *)
(* about the budget.                                                       *)
Warn(plan, kind, container, env) ==
  [shim |-> plan.name, kind |-> kind, container |-> container, env |-> env]

BudgetWarning(plan) ==
  [shim |-> plan.key, kind |-> "skipped", container |-> <<>>, env |-> ""]

(* A map is the set of its entries; setAnnotation replaces entries by key. *)
setAnnotation(entries, new) ==
  {e \in entries : \A n \in new : n.key # e.key} \cup new

(* The first element of its name: what a linear search by name returns.    *)
IsFirst(s, i) == \A j \in 1..(i - 1) : s[j].name # s[i].name

-----------------------------------------------------------------------------
(* collisions.go                                                           *)

hasVolume(volumes, name) == \E i \in DOMAIN volumes : volumes[i].name = name

hasContainerNamed(containers, name) ==
  \E i \in DOMAIN containers : containers[i].name = name

hasMountPath(c, path) == \E m \in DOMAIN c.mounts : c.mounts[m].path = path

hasEnvNamed(c, name) == \E e \in c.env : e.name = name

(* A list of container names is a function from positions to names.  The   *)
(* annotation's blank parts are dropped.                                   *)
containersFromAnnotation(p) ==
  Restrict(p.filter, {k \in DOMAIN p.filter : p.filter[k] # BlankPart})

Requested(p, plan) ==
  IF DOMAIN containersFromAnnotation(p) # {}
  THEN containersFromAnnotation(p) ELSE plan.containers

resolveTargets(p, plan) ==
  LET requested == Requested(p, plan)
  IN  IF DOMAIN requested = {}
      THEN [i \in DOMAIN p.containers |-> p.containers[i].name]
      ELSE Restrict(requested, {k \in DOMAIN requested :
                                  hasContainerNamed(p.containers, requested[k])})

MutWarnOnlyIfNoneFound(p, plan) ==
  {Warn(plan, "container not found", name, "") :
     name \in {n \in Range(Requested(p, plan)) :
                 DOMAIN resolveTargets(p, plan) = {}}}

NotFoundWarnings(p, plan) ==
  {Warn(plan, "container not found", name, "") :
     name \in {n \in Range(Requested(p, plan)) :
                 ~hasContainerNamed(p.containers, n)}}

(* The containers that findContainer returns for some target.              *)
Targeted(p, targets) ==
  {i \in DOMAIN p.containers :
     p.containers[i].name \in Range(targets) /\ IsFirst(p.containers, i)}

MutTokenPathOnly(plan) == {plan.mountPath}

mountPaths(plan) == {plan.mountPath} \cup {f.path : f \in Range(plan.files)}

MutAnyCSIDriver(p, plan) ==
  \E i \in DOMAIN p.volumes :
    p.volumes[i].name = socketVolumeName /\ p.volumes[i].csi = NotCSI

(* An existing socket volume that is not the CSI volume the plan wants.    *)
checkSocketVolume(p, plan) ==
  \E i \in DOMAIN p.volumes :
    /\ p.volumes[i].name = socketVolumeName
    /\ IsFirst(p.volumes, i)
    /\ p.volumes[i].csi # plan.csiDriver

MutTokenVolumeUnchecked(p, plan, pendingInits, targets) ==
  \/ checkSocketVolume(p, plan)
  \/ hasVolume(p.volumes, configVolumeName(plan.name))
  \/ \E i \in Targeted(p, targets), path \in mountPaths(plan) :
       hasMountPath(p.containers[i], path)

checkCollisions(p, plan, pendingInits, targets) ==
  \/ checkSocketVolume(p, plan)
  \/ \E name \in {plan.tokenVolume, configVolumeName(plan.name)} :
       hasVolume(p.volumes, name)
  \/ \E name \in {initContainerName(plan.name), refreshContainerName(plan.name)} :
       \/ hasContainerNamed(p.inits, name)
       \/ hasContainerNamed(pendingInits, name)
  \/ \E i \in Targeted(p, targets), path \in mountPaths(plan) :
       hasMountPath(p.containers[i], path)

-----------------------------------------------------------------------------
(* mutate.go                                                               *)

(* The sum of a function's values, as the number of units they are made    *)
(* of: a set that a proof can split without induction over its size.       *)
Units(f) == UNION {{x} \X (1..f[x]) : x \in DOMAIN f}
Total(f) == Cardinality(Units(f))

renderedBytes(plan) ==
  plan.confBytes + Total([i \in DOMAIN plan.files |-> plan.files[i].bytes])

annotationBytes(p) ==
  Total([e \in p.annotations |-> KeyBytes + e.bytes])

addVolumes(volumes, plan) ==
  (IF hasVolume(volumes, socketVolumeName)
   THEN volumes
   ELSE Append(volumes, [name |-> socketVolumeName, csi |-> plan.csiDriver,
                         items |-> <<>>]))
  \o << [name |-> plan.tokenVolume, csi |-> NotCSI, items |-> <<>>],
        [name |-> configVolumeName(plan.name), csi |-> NotCSI,
         items |-> <<HelperConfAnnotation(plan.name)>> \o
                   [i \in DOMAIN plan.files |-> fileAnnotation(plan.name, i)]] >>

helperContainer(plan, sidecar) ==
  [name |-> IF sidecar THEN refreshContainerName(plan.name)
                       ELSE initContainerName(plan.name),
   mounts |-> << [path |-> plan.socketMountPath, volume |-> socketVolumeName,
                  subPath |-> 0, readOnly |-> TRUE],
                 [path |-> plan.mountPath, volume |-> plan.tokenVolume,
                  subPath |-> 0, readOnly |-> FALSE],
                 [path |-> configMountPath, volume |-> configVolumeName(plan.name),
                  subPath |-> 0, readOnly |-> TRUE] >>,
   env |-> {},
   always |-> sidecar]

(* What one visit of a container appends to its mounts.                    *)
ContainerMounts(plan) ==
  << [path |-> plan.mountPath, volume |-> plan.tokenVolume, subPath |-> 0,
      readOnly |-> TRUE] >> \o
  [i \in DOMAIN plan.files |->
     [path |-> plan.files[i].path, volume |-> configVolumeName(plan.name),
      subPath |-> i + 1, readOnly |-> TRUE]]

Repeat(s, n) == [k \in 1..(n * Len(s)) |-> s[((k - 1) % Len(s)) + 1]]

Visits(targets, name) == Cardinality({t \in DOMAIN targets : targets[t] = name})

MissingEnv(c, plan) ==
  {[name |-> e, from |-> plan.key] : e \in {v \in plan.env : ~hasEnvNamed(c, v)}}

MutMountsReplaced(p, plan, targets) ==
  [i \in DOMAIN p.containers |->
     IF i \in Targeted(p, targets)
     THEN [p.containers[i] EXCEPT !.mounts = ContainerMounts(plan)]
     ELSE p.containers[i]]

(* The loop runs over target names, so a name listed twice visits its      *)
(* container twice; the second visit finds the env vars already there.     *)
injectIntoContainers(p, plan, targets) ==
  [i \in DOMAIN p.containers |->
     LET c == p.containers[i]
     IN  IF i \in Targeted(p, targets)
         THEN [c EXCEPT
                 !.mounts = @ \o Repeat(ContainerMounts(plan), Visits(targets, c.name)),
                 !.env = @ \cup MissingEnv(c, plan)]
         ELSE c]

EnvWarnings(p, plan, targets) ==
  {Warn(plan, "env untouched", p.containers[x[1]].name, x[2]) :
     x \in {y \in Targeted(p, targets) \X plan.env :
              \/ hasEnvNamed(p.containers[y[1]], y[2])
              \/ Visits(targets, p.containers[y[1]].name) > 1}}

(* The annotations and the label that writePlanMetadata sets.              *)
PlanAnnotations(plan) ==
  {[key |-> HelperConfAnnotation(plan.name), from |-> <<plan.key>>, i |-> 0,
    bytes |-> plan.confBytes]}
  \cup {[key |-> fileAnnotation(plan.name, i), from |-> <<plan.key>>, i |-> i,
         bytes |-> plan.files[i].bytes] : i \in DOMAIN plan.files}

PlanLabel(plan) ==
  [key |-> plan.name,
   value |-> IF plan.clusterScoped THEN "cluster" ELSE "namespaced"]

StatusAnnotations(list) ==
  {[key |-> StatusAnnotation, from |-> StatusInjected, i |-> 0, bytes |-> 1],
   [key |-> ShimsAnnotation, from |-> [n \in DOMAIN list |-> list[n].key],
    i |-> 0, bytes |-> Len(list)]}

MutHelpersLast(helpers, inits) == inits \o helpers

PrependHelpers(helpers, inits) == helpers \o inits

ASSUME TextHasLiterals ==
  {"", "spiffe-workload-api", "etc", "oidcshim", "oidcshim-config-",
   "oidcshim-init-", "oidcshim-refresh-", "status", "shims", "helper-conf-",
   "file-", NotCSI, "injected", "cluster", "namespaced", "skipped",
   "container not found", "env untouched", "already injected"} \subseteq Text

ASSUME ConstantsTyped ==
  /\ Pods \subseteq Pod
  /\ PlanLists \subseteq Seq(Plan)
  /\ Sidecars \subseteq Container
  /\ {MaxPodAnnotationBytes, APIAnnotationLimit, KeyBytes} \subseteq Nat
  /\ MaxCalls \in Nat \ {0}

(* A pod's annotations are a map in memory.                                *)
ASSUME AnnotationsFinite == \A p \in Pods : IsFiniteSet(p.annotations)

-----------------------------------------------------------------------------
(* Apply, one step per iteration of its loop.                              *)

Init ==
  /\ pod \in Pods
  /\ base = pod
  /\ plans \in PlanLists
  /\ at = 1
  /\ newInits = <<>>
  /\ addedBytes = 0
  /\ applied = <<>>
  /\ warnings = {}
  /\ phase = "called"
  /\ calls = 1
  /\ injections = 0

MutStatusIgnored(p) == FALSE

Injected(p) ==
  \E e \in p.annotations : e.key = StatusAnnotation /\ e.from = StatusInjected

(* The early return for a pod an earlier call has injected.                *)
AlreadyInjected ==
  /\ phase = "called" /\ Injected(pod)
  /\ phase' = "done"
  /\ warnings' = {[shim |-> "", kind |-> "already injected", container |-> <<>>,
                   env |-> ""]}
  /\ UNCHANGED <<pod, base, plans, at, newInits, addedBytes, applied, calls,
                 injections>>

BeginLoop ==
  /\ phase = "called" /\ ~Injected(pod)
  /\ phase' = "applying"
  /\ UNCHANGED <<pod, base, plans, at, newInits, addedBytes, applied,
                 warnings, calls, injections>>

InLoop == phase = "applying" /\ at <= Len(plans)

MutOthersIgnored(plan) ==
  annotationBytes(base) + renderedBytes(plan) > MaxPodAnnotationBytes

OverBudget(plan) ==
  annotationBytes(base) + addedBytes + renderedBytes(plan) > MaxPodAnnotationBytes

NoTarget(plan) ==
  DOMAIN Requested(pod, plan) # {} /\ DOMAIN resolveTargets(pod, plan) = {}

MutSkipsNextToo(warned) ==
  /\ at' = at + 2
  /\ warnings' = warnings \cup warned
  /\ UNCHANGED <<pod, base, plans, newInits, addedBytes, applied, phase, calls,
                 injections>>

MutSkippedBytesCounted(warned) ==
  /\ at' = at + 1
  /\ warnings' = warnings \cup warned
  /\ addedBytes' = addedBytes + renderedBytes(plans[at])
  /\ UNCHANGED <<pod, base, plans, newInits, applied, phase, calls, injections>>

Skip(warned) ==
  /\ at' = at + 1
  /\ warnings' = warnings \cup warned
  /\ UNCHANGED <<pod, base, plans, newInits, addedBytes, applied, phase, calls,
                 injections>>

SkipOverBudget ==
  /\ InLoop
  /\ OverBudget(plans[at])
  /\ Skip({BudgetWarning(plans[at])})

SkipNoTarget ==
  /\ InLoop
  /\ ~OverBudget(plans[at])
  /\ NoTarget(plans[at])
  /\ Skip({Warn(plans[at], "skipped", <<>>, "")} \cup
          NotFoundWarnings(pod, plans[at]))

SkipCollision ==
  /\ InLoop
  /\ ~OverBudget(plans[at])
  /\ ~NoTarget(plans[at])
  /\ checkCollisions(pod, plans[at], newInits, resolveTargets(pod, plans[at]))
  /\ Skip({Warn(plans[at], "skipped", <<>>, "")} \cup
          NotFoundWarnings(pod, plans[at]))

ApplyPlan ==
  /\ InLoop
  /\ LET plan == plans[at]
         targets == resolveTargets(pod, plan)
     IN  /\ ~OverBudget(plan)
         /\ ~NoTarget(plan)
         /\ ~checkCollisions(pod, plan, newInits, targets)
         /\ pod' = [pod EXCEPT
                      !.volumes = addVolumes(@, plan),
                      !.containers = injectIntoContainers(pod, plan, targets),
                      !.annotations = setAnnotation(@, PlanAnnotations(plan)),
                      !.labels = setAnnotation(@, {PlanLabel(plan)})]
         /\ newInits' = newInits \o <<helperContainer(plan, FALSE),
                                      helperContainer(plan, TRUE)>>
         /\ warnings' = warnings \cup NotFoundWarnings(pod, plan)
                                 \cup EnvWarnings(pod, plan, targets)
         /\ addedBytes' = addedBytes + renderedBytes(plan)
         /\ applied' = Append(applied, plan)
         /\ at' = at + 1
  /\ UNCHANGED <<base, plans, phase, calls, injections>>

(* After the loop nothing applied leaves the pod alone; otherwise the      *)
(* helpers go in front of the pod's own init containers.                   *)
Finish ==
  /\ phase = "applying" /\ at > Len(plans)
  /\ phase' = "done"
  /\ IF applied = <<>>
     THEN UNCHANGED <<pod, injections>>
     ELSE /\ pod' = [pod EXCEPT
                       !.inits = PrependHelpers(newInits, @),
                       !.annotations = setAnnotation(@, StatusAnnotations(applied))]
          /\ injections' = injections + 1
  /\ UNCHANGED <<base, plans, at, newInits, addedBytes, applied, warnings, calls>>

(* Another webhook adds a container, so the API server calls again; the    *)
(* shims in the cluster may have changed in between.                       *)
Reinvoke ==
  /\ phase = "done" /\ calls < MaxCalls
  /\ \E c \in Sidecars, list \in PlanLists :
       /\ ~hasContainerNamed(pod.containers \o pod.inits, c.name)
       /\ pod' = [pod EXCEPT !.containers = Append(@, c)]
       /\ base' = pod'
       /\ plans' = list
  /\ at' = 1
  /\ newInits' = <<>>
  /\ addedBytes' = 0
  /\ applied' = <<>>
  /\ warnings' = {}
  /\ phase' = "called"
  /\ calls' = calls + 1
  /\ UNCHANGED injections

Next ==
  \/ AlreadyInjected
  \/ BeginLoop
  \/ SkipOverBudget
  \/ SkipNoTarget
  \/ SkipCollision
  \/ ApplyPlan
  \/ Finish
  \/ Reinvoke

Spec == Init /\ [][Next]_vars

-----------------------------------------------------------------------------
(* What the API server requires of a pod it stores (external).             *)

Distinct(s) == \A i, j \in DOMAIN s : i # j => s[i] # s[j]

UniqueNames(s) == \A i, j \in DOMAIN s : i # j => s[i].name # s[j].name
UniquePaths(mounts) ==
  \A i, j \in DOMAIN mounts : i # j => mounts[i].path # mounts[j].path
Apart(s, t) == \A i \in DOMAIN s, j \in DOMAIN t : s[i].name # t[j].name

MountsValid(containers, volumes) ==
  \A i \in DOMAIN containers :
    /\ UniquePaths(containers[i].mounts)
    /\ \A m \in DOMAIN containers[i].mounts :
         hasVolume(volumes, containers[i].mounts[m].volume)

ServerAccepts(p) ==
  /\ UniqueNames(p.volumes)
  /\ UniqueNames(p.inits) /\ UniqueNames(p.containers)
  /\ Apart(p.inits, p.containers)
  /\ MountsValid(p.inits, p.volumes) /\ MountsValid(p.containers, p.volumes)

(* Inputs under which injection is safe: plans that neither reuse a name   *)
(* or a path of the helpers nor list a container twice (nothing in the     *)
(* code rules these out), with the distinct file paths that BuildPlan      *)
(* enforces, and pods whose containers are not named like a helper.        *)
SafePlan(plan) ==
  /\ plan.tokenVolume \notin {socketVolumeName, configVolumeName(plan.name)}
  /\ Distinct(<<plan.socketMountPath, plan.mountPath, configMountPath>>)
  /\ Distinct(<<plan.mountPath>> \o [f \in DOMAIN plan.files |-> plan.files[f].path])
  /\ Distinct(plan.containers)

SafeContainer(c) ==
  \A list \in PlanLists : \A k \in DOMAIN list :
    c.name \notin {initContainerName(list[k].name), refreshContainerName(list[k].name)}

SafeInputs ==
  /\ \A list \in PlanLists : \A k \in DOMAIN list : SafePlan(list[k])
  /\ \A p \in Pods : /\ ServerAccepts(p)
                     /\ Distinct(containersFromAnnotation(p))
                     /\ \A i \in DOMAIN p.containers : SafeContainer(p.containers[i])
  /\ \A c \in Sidecars : SafeContainer(c) /\ c.mounts = <<>>

(* The API server stores no pod without containers.                        *)
PodsHaveContainers == \A p \in Pods : p.containers # <<>>

(* A plan's key is its shim's kind, namespace and name joined by slashes:  *)
(* two plans of a call never share it and no shim has it as its name.      *)
KeysIdentify ==
  \A list \in PlanLists : \A k, l \in DOMAIN list :
    list[k].key # list[l].name /\ (k # l => list[k].key # list[l].key)

(* The headroom between the webhook's budget and the API server's limit    *)
(* covers what the budget does not count: the key of every entry that the  *)
(* plans of a call may write, and the two status entries.                  *)
PlanEntries(plan) == 1 + Len(plan.files)

UncountedBytes(list) ==
  KeyBytes * (2 + Total([k \in DOMAIN list |-> PlanEntries(list[k])])) + 1 + Len(list)

HeadroomSuffices ==
  \A list \in PlanLists :
    MaxPodAnnotationBytes + UncountedBytes(list) <= APIAnnotationLimit

(* A path below a directory: it has the directory's path and a "/" first.  *)
Beneath(path, dir) == Len(path) > Len(dir) /\ SubSeq(path, 1, Len(dir)) = dir

-----------------------------------------------------------------------------
(* Properties.                                                             *)

(* The type invariant.                                                     *)
TypeOK ==
  /\ pod \in Pod /\ base \in Pod
  /\ plans \in PlanLists
  /\ at \in 1..(Len(plans) + 1)
  /\ newInits \in Seq(Container)
  /\ addedBytes \in Nat
  /\ applied \in Seq(Plan)
  /\ warnings \subseteq Warning
  /\ phase \in {"called", "applying", "done"}
  /\ calls \in 1..MaxCalls
  /\ injections \in Nat

(* Injecting shims never turns a pod the API server would have stored      *)
(* into one that it rejects: volume and container names stay unique, no    *)
(* container mounts two things at one path and every mount has its volume. *)
NeverBreaksPod == phase = "done" /\ ServerAccepts(base) => ServerAccepts(pod)

(* No container gets a rendered file below a token directory: that mount   *)
(* is read-only, so the runtime could not create the file's mount point.   *)
FilesOutsideTokenMounts ==
  phase = "done" =>
    \A c \in Range(pod.containers) : \A m, t \in Range(c.mounts) :
      m.subPath > 0 /\ (\E plan \in Range(applied) : t.volume = plan.tokenVolume)
        => ~Beneath(m.path, t.path)

(* The containers a plan of this call was injected into.                   *)
TargetsOf(plan) == Targeted(base, resolveTargets(base, plan))

(* Everything a plan asks for is on the pod.                               *)
Complete(plan) ==
  /\ \E i \in DOMAIN pod.volumes : /\ pod.volumes[i].name = socketVolumeName
                                   /\ pod.volumes[i].csi = plan.csiDriver
  /\ hasVolume(pod.volumes, plan.tokenVolume)
  /\ hasVolume(pod.volumes, configVolumeName(plan.name))
  /\ helperContainer(plan, FALSE) \in Range(pod.inits)
  /\ helperContainer(plan, TRUE) \in Range(pod.inits)
  /\ PlanAnnotations(plan) \subseteq pod.annotations
  /\ PlanLabel(plan) \in pod.labels
  /\ TargetsOf(plan) # {}
  /\ \A i \in TargetsOf(plan) :
       /\ Range(ContainerMounts(plan)) \subseteq Range(pod.containers[i].mounts)
       /\ \A e \in plan.env : hasEnvNamed(pod.containers[i], e)

(* A shim is injected whole or leaves no trace: after Apply every applied  *)
(* plan is complete, and the pod carries nothing beyond what it came with  *)
(* and what the applied plans added.                                       *)
AllOrNothing ==
  phase = "done" =>
    /\ \A plan \in Range(applied) : Complete(plan)
    /\ Len(pod.inits) = Len(base.inits) + 2 * Len(applied)
    /\ Len(pod.volumes) = Len(base.volumes) + 2 * Len(applied) +
         (IF applied = <<>> \/ hasVolume(base.volumes, socketVolumeName) THEN 0 ELSE 1)
    /\ pod.annotations \subseteq
         base.annotations \cup StatusAnnotations(applied)
         \cup UNION {PlanAnnotations(plan) : plan \in Range(applied)}
    /\ pod.labels \subseteq
         base.labels \cup {PlanLabel(plan) : plan \in Range(applied)}

Writes(c, volume) ==
  \E m \in DOMAIN c.mounts : c.mounts[m].volume = volume /\ ~c.mounts[m].readOnly

(* A token an application reads is refreshed, by one helper only: whatever *)
(* a target mounts at a plan's token path is a volume that the plan's own  *)
(* refresh sidecar writes and that no other sidecar of the pod writes.     *)
OneRefresherPerToken ==
  phase = "done" =>
    \A plan \in Range(applied) : \A i \in TargetsOf(plan) :
      \A m \in Range(pod.containers[i].mounts) :
        m.path = plan.mountPath =>
          {c \in Range(pod.inits) : c.always /\ Writes(c, m.volume)}
            = {helperContainer(plan, TRUE)}

(* The annotations that a mount of a downwardAPI item shows.               *)
Shown(p, m) ==
  {a \in p.annotations :
     \E v \in Range(p.volumes) : /\ v.name = m.volume
                                 /\ m.subPath \in DOMAIN v.items
                                 /\ v.items[m.subPath] = a.key}

(* What a target reads at the path of a rendered file is that plan's       *)
(* rendering of that file, through mount, volume item and annotation.      *)
FilesReachContainers ==
  phase = "done" =>
    \A plan \in Range(applied) : \A i \in TargetsOf(plan), f \in DOMAIN plan.files :
      \A m \in Range(pod.containers[i].mounts) :
        m.path = plan.files[f].path =>
          \E a \in pod.annotations :
            /\ Shown(pod, m) = {a}
            /\ a.from = <<plan.key>> /\ a.i = f

(* The fetch and the refresh helper of every plan of a list, in its order. *)
HelpersOf(list) ==
  [n \in 1..(2 * Len(list)) |-> helperContainer(list[(n + 1) \div 2], n % 2 = 0)]

(* Helpers start before the pod's own init containers, in the order of the *)
(* shims, and each one-shot fetch before its refresh sidecar.              *)
HelpersStartFirst == phase = "done" => pod.inits = HelpersOf(applied) \o base.inits

SkipWarnings(plan) == {Warn(plan, "skipped", <<>>, ""), BudgetWarning(plan)}

(* Nothing a shim asks for is dropped silently: a plan is applied or       *)
(* skipped with a warning, never both unless another plan has its name,    *)
(* and an applied plan warns about each requested container and each env   *)
(* var that it left out.                                                   *)
NothingLostSilently ==
  phase = "done" /\ ~Injected(base) =>
    \A plan \in Range(plans) :
      /\ plan \notin Range(applied) => SkipWarnings(plan) \cap warnings # {}
      /\ plan \in Range(applied) =>
           /\ \/ SkipWarnings(plan) \cap warnings = {}
              \/ \E other \in Range(plans) \ {plan} : other.name = plan.name
           /\ \A n \in Range(Requested(base, plan)) :
                \/ \E i \in TargetsOf(plan) : base.containers[i].name = n
                \/ Warn(plan, "container not found", n, "") \in warnings
           /\ \A i \in TargetsOf(plan), e \in plan.env :
                \/ [name |-> e, from |-> plan.key] \in pod.containers[i].env
                \/ Warn(plan, "env untouched", base.containers[i].name, e) \in warnings

(* Two plans of a call that cannot both be injected: they share a name, a  *)
(* volume, or a path in some container, or they want different drivers for *)
(* the one socket volume.                                                  *)
Conflict(plan, earlier) ==
  \/ plan.name = earlier.name
  \/ plan.tokenVolume \in {socketVolumeName, earlier.tokenVolume,
                           configVolumeName(earlier.name)}
  \/ earlier.tokenVolume = configVolumeName(plan.name)
  \/ /\ plan.csiDriver # earlier.csiDriver
     /\ ~hasVolume(base.volumes, socketVolumeName)
  \/ /\ TargetsOf(plan) \cap TargetsOf(earlier) # {}
     /\ mountPaths(plan) \cap mountPaths(earlier) # {}

(* The plans before the k-th that were applied.                            *)
AppliedBefore(k) == {j \in 1..(k - 1) : plans[j] \in Range(applied)}

BytesAt(list, positions) == Total([j \in positions |-> renderedBytes(list[j])])

(* Why the k-th plan cannot be injected, told from the pod as it came and  *)
(* from the plans already applied: the budget, the pod's containers, what  *)
(* the pod holds, or another plan.                                         *)
Unfit(k) ==
  \/ annotationBytes(base) + BytesAt(plans, AppliedBefore(k))
     + renderedBytes(plans[k]) > MaxPodAnnotationBytes
  \/ /\ DOMAIN Requested(base, plans[k]) # {}
     /\ DOMAIN resolveTargets(base, plans[k]) = {}
  \/ checkCollisions(base, plans[k], <<>>, resolveTargets(base, plans[k]))
  \/ \E j \in AppliedBefore(k) : Conflict(plans[k], plans[j])

(* A shim is left out for a reason and only for a reason: Apply, which     *)
(* asks the pod it is changing, takes exactly the plans that fit the pod   *)
(* as it came together with the plans taken before them.                   *)
SkippedForCause ==
  phase = "done" /\ ~Injected(base) =>
    \A k \in DOMAIN plans : plans[k] \in Range(applied) <=> ~Unfit(k)

(* The pod's annotations stay below the API server's limit however many    *)
(* shims apply to it, although no plan counts keys or the status entries.  *)
AnnotationsWithinLimit ==
  phase = "done" /\ annotationBytes(base) <= APIAnnotationLimit =>
    annotationBytes(pod) <= APIAnnotationLimit

(* Calling the webhook again, on a pod that another webhook has changed    *)
(* and with other shims in the cluster, never injects a second time.       *)
InjectedOnce == injections <= 1

Extends(s, t) == Len(s) <= Len(t) /\ SubSeq(t, 1, Len(s)) = s

PodGrows ==
  /\ Extends(pod.volumes, pod'.volumes)
  /\ Len(pod.containers) <= Len(pod'.containers)
  /\ \A i \in DOMAIN pod.containers :
       /\ pod'.containers[i].name = pod.containers[i].name
       /\ Extends(pod.containers[i].mounts, pod'.containers[i].mounts)
       /\ pod.containers[i].env \subseteq pod'.containers[i].env
  /\ \E helpers \in {SubSeq(pod'.inits, 1, Len(pod'.inits) - Len(pod.inits))} :
       pod'.inits = helpers \o pod.inits

(* A step only adds to the pod: volumes, mounts and env vars that were     *)
(* there keep their places and the pod's init containers come last.        *)
PodOnlyGrows == [][PodGrows]_pod

=============================================================================
