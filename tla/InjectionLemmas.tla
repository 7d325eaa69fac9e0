-------------------------- MODULE InjectionLemmas --------------------------
(***************************************************************************)
(* What the helpers of Injection compute: the types of what they return,   *)
(* what they add and what they leave alone, and what follows for one step: *)
(* types, the single injection, a pod that only grows.                     *)
(***************************************************************************)
EXTENDS Injection, TLAPS

-----------------------------------------------------------------------------
(* Lists and numbers.                                                      *)

(* What the proofs take from the theory of numbers and of finite sets: a   *)
(* set of positions has a least element; a name is visited a number of     *)
(* times, which is not 0 for a target and is 1 when no target is repeated; *)
(* the bytes that renderedBytes adds up are a number.                      *)
(* InjectionProofs proves it, and is the only module that extends the      *)
(* libraries that this takes.                                              *)
Counting ==
  /\ \A S \in SUBSET Nat : S # {} => \E n \in S : \A m \in S : n <= m
  /\ \A n \in Nat : \A targets, name :
       DOMAIN targets \subseteq 1..n =>
         /\ Visits(targets, name) \in Nat
         /\ name \in Range(targets) => Visits(targets, name) > 0
         /\ name \in Range(targets) /\ Distinct(targets) => Visits(targets, name) = 1
  /\ \A plan \in Plan : renderedBytes(plan) \in Nat

(* Appending a list to a list, and an element to a list.                   *)
LEMMA ConcatList ==
  ASSUME NEW S, NEW s \in Seq(S), NEW t \in Seq(S)
  PROVE  /\ s \o t \in Seq(S) /\ Len(s \o t) = Len(s) + Len(t)
         /\ \A i \in 1..(Len(s) + Len(t)) :
              (s \o t)[i] = IF i <= Len(s) THEN s[i] ELSE t[i - Len(s)]
  OBVIOUS

(* An element after a list.                                                *)
LEMMA AppendList ==
  ASSUME NEW S, NEW s \in Seq(S), NEW e \in S
  PROVE  /\ Append(s, e) \in Seq(S) /\ Len(Append(s, e)) = Len(s) + 1
         /\ \A i \in 1..Len(s) : Append(s, e)[i] = s[i]
         /\ Append(s, e)[Len(s) + 1] = e
  OBVIOUS

(* The empty list is a list of anything, and appending it changes nothing. *)
LEMMA EmptyList ==
  ASSUME NEW S
  PROVE  <<>> \in Seq(S) /\ Len(<<>>) = 0
  OBVIOUS

(* The empty list changes nothing.                                         *)
LEMMA ConcatEmpty ==
  ASSUME NEW S, NEW s \in Seq(S)
  PROVE  <<>> \o s = s /\ s \o <<>> = s
  OBVIOUS

(* A list over a set is a list over a larger one.                          *)
LEMMA ListWidened ==
  ASSUME NEW S, NEW T, S \subseteq T, NEW s \in Seq(S)
  PROVE  s \in Seq(T)
  OBVIOUS

-----------------------------------------------------------------------------
(* Types of the helpers.                                                   *)

(* A list built position by position from another list.                    *)
LEMMA SeqByPosition ==
  ASSUME NEW S, NEW T, NEW s \in Seq(S), NEW f,
         f = [i \in DOMAIN s |-> f[i]], \A i \in DOMAIN s : f[i] \in T
  PROVE  f \in Seq(T) /\ Len(f) = Len(s)
<1>1. f \in [1..Len(s) -> T]
  OBVIOUS
<1>. QED
  BY <1>1

(* Two elements make a list.                                               *)
LEMMA PairIsSeq ==
  ASSUME NEW S, NEW a \in S, NEW b \in S
  PROVE  <<a, b>> \in Seq(S) /\ Len(<<a, b>>) = 2
  OBVIOUS

(* The names and keys derived from a shim's name are names and keys.       *)
LEMMA DerivedNamesType ==
  ASSUME NEW shim \in Text
  PROVE  /\ socketVolumeName \in Name
         /\ configVolumeName(shim) \in Name
         /\ initContainerName(shim) \in Name
         /\ refreshContainerName(shim) \in Name
         /\ configMountPath \in Path
         /\ StatusAnnotation \in AnnotationKey
         /\ ShimsAnnotation \in AnnotationKey
         /\ HelperConfAnnotation(shim) \in AnnotationKey
         /\ \A i \in Nat : fileAnnotation(shim, i) \in AnnotationKey
<1>1. /\ "spiffe-workload-api" \in Text /\ "oidcshim-config-" \in Text
      /\ "oidcshim-init-" \in Text /\ "oidcshim-refresh-" \in Text
      /\ "etc" \in Text /\ "oidcshim" \in Text
  BY TextHasLiterals, Zenon
<1>2. /\ "status" \in Text /\ "shims" \in Text /\ "helper-conf-" \in Text
      /\ "file-" \in Text /\ "" \in Text
  BY TextHasLiterals, Zenon
<1>3. socketVolumeName \in Name
  BY <1>1 DEF socketVolumeName, Name
<1>4. configVolumeName(shim) \in Name
  BY <1>1 DEF configVolumeName, Name
<1>5. initContainerName(shim) \in Name
  BY <1>1 DEF initContainerName, Name
<1>6. refreshContainerName(shim) \in Name
  BY <1>1 DEF refreshContainerName, Name
<1>7. configMountPath \in Path
  BY <1>1 DEF configMountPath, Path
<1>8. StatusAnnotation \in AnnotationKey /\ ShimsAnnotation \in AnnotationKey
  BY <1>2, Zenon DEF StatusAnnotation, ShimsAnnotation, AnnotationKey
<1>9. HelperConfAnnotation(shim) \in AnnotationKey
  BY <1>2, Zenon DEF HelperConfAnnotation, AnnotationKey
<1>10. \A i \in Nat : fileAnnotation(shim, i) \in AnnotationKey
  BY <1>2, Zenon DEF fileAnnotation, AnnotationKey
<1>. QED
  BY <1>3, <1>4, <1>5, <1>6, <1>7, <1>8, <1>9, <1>10

(* Repeating a non-empty list of mounts gives a list of mounts.            *)
LEMMA RepeatType ==
  ASSUME NEW S, NEW s \in Seq(S), Len(s) > 0, NEW n \in Nat
  PROVE  Repeat(s, n) \in Seq(S)
<1>1. n * Len(s) \in Nat
  OBVIOUS
<1>2. \A k \in 1..(n * Len(s)) : ((k - 1) % Len(s)) + 1 \in 1..Len(s)
  OBVIOUS
<1>3. \A k \in 1..(n * Len(s)) : s[((k - 1) % Len(s)) + 1] \in S
  BY <1>2
<1>. QED
  BY <1>1, <1>3 DEF Repeat

(* The mounts injected into a target are mounts, and there is at least one. *)
LEMMA ContainerMountsType ==
  ASSUME NEW plan \in Plan
  PROVE  /\ ContainerMounts(plan) \in Seq(Mount)
         /\ Len(ContainerMounts(plan)) > 0
<1>. DEFINE token == [path |-> plan.mountPath, volume |-> plan.tokenVolume,
                      subPath |-> 0, readOnly |-> TRUE]
            files == [i \in DOMAIN plan.files |->
                        [path |-> plan.files[i].path,
                         volume |-> configVolumeName(plan.name),
                         subPath |-> i + 1, readOnly |-> TRUE]]
<1>1. configVolumeName(plan.name) \in Name
  BY DerivedNamesType DEF Plan
<1>2. token \in Mount
  BY DEF Plan, Mount
<1>3. plan.files \in Seq(File)
  BY DEF Plan
<1>3a. \A i \in DOMAIN plan.files : plan.files[i] \in File /\ i + 1 \in Nat
  BY <1>3
<1>3b. \A i \in DOMAIN plan.files : files[i] \in Mount
  BY <1>1, <1>3a DEF File, Mount
<1>4. files \in Seq(Mount)
  <2>1. files = [i \in DOMAIN plan.files |-> files[i]]
    OBVIOUS
  <2>. HIDE DEF files
  <2>. QED
    BY <1>3, <1>3b, <2>1, SeqByPosition
<1>5. <<token>> \in Seq(Mount) /\ Len(<<token>>) = 1
  BY <1>2
<1>. HIDE DEF token, files
<1>6. Len(<<token>> \o files) = Len(<<token>>) + Len(files) /\ <<token>> \o files \in Seq(Mount)
  BY <1>4, <1>5, ConcatList
<1>7. Len(files) \in Nat
  BY <1>4
<1>. QED
  BY <1>5, <1>6, <1>7 DEF ContainerMounts, token, files

(* addVolumes returns a list of volumes.                                   *)
LEMMA AddVolumesType ==
  ASSUME NEW plan \in Plan, NEW volumes \in Seq(Volume)
  PROVE  addVolumes(volumes, plan) \in Seq(Volume)
<1>. DEFINE socket == [name |-> socketVolumeName, csi |-> plan.csiDriver, items |-> <<>>]
            token == [name |-> plan.tokenVolume, csi |-> NotCSI, items |-> <<>>]
            keys == [i \in DOMAIN plan.files |-> fileAnnotation(plan.name, i)]
            items == <<HelperConfAnnotation(plan.name)>> \o keys
            config == [name |-> configVolumeName(plan.name), csi |-> NotCSI,
                       items |-> items]
<1>1. plan.name \in Text /\ plan.csiDriver \in Text /\ plan.tokenVolume \in Name
      /\ plan.files \in Seq(File)
  BY DEF Plan
<1>2. NotCSI \in Text
  BY TextHasLiterals, Zenon
<1>3. socket \in Volume
  BY <1>1, DerivedNamesType DEF Volume
<1>4. token \in Volume
  BY <1>1, <1>2 DEF Volume
<1>5. keys \in Seq(AnnotationKey)
  <2>1. \A i \in DOMAIN plan.files : i \in Nat
    BY <1>1
  <2>2. \A i \in DOMAIN plan.files : keys[i] \in AnnotationKey
    BY <1>1, <2>1, DerivedNamesType
  <2>3. keys = [i \in DOMAIN plan.files |-> keys[i]]
    OBVIOUS
  <2>. HIDE DEF keys
  <2>. QED
    BY <1>1, <2>2, <2>3, SeqByPosition, Zenon
<1>6. items \in Seq(AnnotationKey)
  <2>1. HelperConfAnnotation(plan.name) \in AnnotationKey
    BY <1>1, DerivedNamesType
  <2>2. <<HelperConfAnnotation(plan.name)>> \in Seq(AnnotationKey)
    BY <2>1
  <2>. HIDE DEF keys
  <2>. QED
    BY <1>5, <2>2, ConcatList
<1>7. config \in Volume
  <2>. HIDE DEF items
  <2>. QED
    BY <1>1, <1>2, <1>6, DerivedNamesType DEF Volume
<1>. HIDE DEF socket, token, config
<1>8. <<token, config>> \in Seq(Volume)
  BY <1>4, <1>7
<1>9. Append(volumes, socket) \in Seq(Volume)
  BY <1>3
<1>10. (IF hasVolume(volumes, socketVolumeName) THEN volumes ELSE Append(volumes, socket))
         \in Seq(Volume)
  BY <1>9
<1>. QED
  BY <1>8, <1>10, ConcatList DEF addVolumes, socket, token, config, items, keys

(* helperContainer returns a container.                                    *)
LEMMA HelperContainerType ==
  ASSUME NEW plan \in Plan, NEW sidecar \in BOOLEAN
  PROVE  helperContainer(plan, sidecar) \in Container
<1>. DEFINE a == [path |-> plan.socketMountPath, volume |-> socketVolumeName,
                  subPath |-> 0, readOnly |-> TRUE]
            b == [path |-> plan.mountPath, volume |-> plan.tokenVolume,
                  subPath |-> 0, readOnly |-> FALSE]
            c == [path |-> configMountPath, volume |-> configVolumeName(plan.name),
                  subPath |-> 0, readOnly |-> TRUE]
            name == IF sidecar THEN refreshContainerName(plan.name)
                               ELSE initContainerName(plan.name)
<1>1. /\ plan.name \in Text /\ plan.tokenVolume \in Name
      /\ plan.mountPath \in Path /\ plan.socketMountPath \in Path
  BY DEF Plan
<1>2. a \in Mount /\ b \in Mount /\ c \in Mount
  BY <1>1, DerivedNamesType DEF Mount
<1>3. name \in Name
  BY <1>1, DerivedNamesType
<1>. HIDE DEF a, b, c, name
<1>4. <<a, b, c>> \in Seq(Mount)
  BY <1>2
<1>5. [name |-> name, mounts |-> <<a, b, c>>, env |-> {}, always |-> sidecar] \in Container
  BY <1>3, <1>4 DEF Container
<1>. QED
  BY <1>5 DEF helperContainer, a, b, c, name

(* injectIntoContainers returns a list of containers of the same length.   *)
LEMMA InjectType ==
  ASSUME NEW plan \in Plan, NEW p \in Pod, NEW targets,
         \A name : Visits(targets, name) \in Nat
  PROVE  /\ injectIntoContainers(p, plan, targets) \in Seq(Container)
         /\ Len(injectIntoContainers(p, plan, targets)) = Len(p.containers)
<1>. DEFINE new == injectIntoContainers(p, plan, targets)
<1>1. p.containers \in Seq(Container)
  BY DEF Pod
<1>2. ASSUME NEW i \in DOMAIN p.containers
      PROVE  new[i] \in Container
  <2>. DEFINE c == p.containers[i]
              mounts == c.mounts \o Repeat(ContainerMounts(plan), Visits(targets, c.name))
              env == c.env \cup MissingEnv(c, plan)
  <2>1. c \in Container
    BY <1>1
  <2>2. mounts \in Seq(Mount)
    <3>1. c.mounts \in Seq(Mount)
      BY <2>1 DEF Container
    <3>2. Repeat(ContainerMounts(plan), Visits(targets, c.name)) \in Seq(Mount)
      BY ContainerMountsType, RepeatType
    <3>. QED
      BY <3>1, <3>2, ConcatList
  <2>3. env \subseteq EnvVar
    <3>1. c.env \subseteq EnvVar
      BY <2>1 DEF Container
    <3>2. plan.env \subseteq Text /\ plan.key \in Text
      BY SMTT(30) DEF Plan
    <3>. QED
      BY <3>1, <3>2 DEF MissingEnv, EnvVar
  <2>4. new[i] = IF i \in Targeted(p, targets)
                 THEN [c EXCEPT !.mounts = mounts, !.env = env] ELSE c
    BY Zenon DEF injectIntoContainers
  <2>. HIDE DEF c, mounts, env, new
  <2>5. [c EXCEPT !.mounts = mounts, !.env = env] \in Container
    BY <2>1, <2>2, <2>3, Zenon DEF Container
  <2>. QED
    BY <2>1, <2>4, <2>5
<1>3. new = [i \in DOMAIN p.containers |-> new[i]]
  BY Zenon DEF injectIntoContainers
<1>. HIDE DEF new
<1>4. new \in Seq(Container) /\ Len(new) = Len(p.containers)
  BY <1>1, <1>2, <1>3, SeqByPosition, ZenonT(30)
<1>. QED
  BY <1>4 DEF new

(* The requested names are container names, and a name is resolved to a    *)
(* number of positions.                                                    *)
LEMMA RequestedType ==
  ASSUME NEW plan \in Plan, NEW p \in Pod
  PROVE  Range(Requested(p, plan)) \subseteq Name
<1>1. p.filter \in Seq(Name) /\ plan.containers \in Seq(Name)
  BY DEF Pod, Plan
<1>2. /\ \A k \in DOMAIN p.filter : p.filter[k] \in Name
      /\ \A k \in DOMAIN plan.containers : plan.containers[k] \in Name
  BY <1>1
<1>. QED
  BY <1>2, Zenon DEF Requested, containersFromAnnotation, Restrict, Range

(* How often injectIntoContainers visits a name.                           *)
LEMMA TargetsType ==
  ASSUME Counting, NEW plan \in Plan, NEW p \in Pod, NEW name
  PROVE  LET targets == resolveTargets(p, plan)
         IN  /\ Visits(targets, name) \in Nat
             /\ name \in Range(targets) => Visits(targets, name) > 0
             /\ name \in Range(targets) /\ Distinct(targets) => Visits(targets, name) = 1
<1>1. /\ p.filter \in Seq(Name) /\ p.containers \in Seq(Container)
      /\ plan.containers \in Seq(Name)
  BY DEF Pod, Plan
<1>2. DOMAIN resolveTargets(p, plan) \subseteq
        (1..Len(p.filter)) \cup (1..Len(plan.containers)) \cup (1..Len(p.containers))
  BY <1>1 DEF resolveTargets, Requested, containersFromAnnotation, Restrict
<1>3. PICK x, y, z \in Nat : x = Len(p.filter) /\ y = Len(plan.containers)
                             /\ z = Len(p.containers)
  BY <1>1
<1>. DEFINE n == x + y + z
<1>4. n \in Nat /\ (1..x) \cup (1..y) \cup (1..z) \subseteq 1..n
  OBVIOUS
<1>5. DOMAIN resolveTargets(p, plan) \subseteq 1..n
  BY <1>2, <1>3, <1>4, Zenon
<1>. HIDE DEF n
<1>. QED
  BY <1>4, <1>5 DEF Counting

(* The warnings of a step are warnings.                                    *)
LEMMA WarningsType ==
  ASSUME NEW plan \in Plan, NEW p \in Pod
  PROVE  /\ Warn(plan, "skipped", <<>>, "") \in Warning
         /\ BudgetWarning(plan) \in Warning
         /\ NotFoundWarnings(p, plan) \subseteq Warning
         /\ EnvWarnings(p, plan, resolveTargets(p, plan)) \subseteq Warning
<1>1. /\ "" \in Text /\ "skipped" \in Text /\ "container not found" \in Text
      /\ "env untouched" \in Text
  BY TextHasLiterals, Zenon
<1>1a. <<>> \in Name
  BY DEF Name
<1>2. plan.key \in Text /\ plan.name \in Text /\ plan.env \subseteq Text
  BY DEF Plan
<1>3. Warn(plan, "skipped", <<>>, "") \in Warning /\ BudgetWarning(plan) \in Warning
  BY <1>1, <1>1a, <1>2, Zenon DEF Warn, BudgetWarning, Warning
<1>4. NotFoundWarnings(p, plan) \subseteq Warning
  <2>. QED
    <3>1. ASSUME NEW n \in Name
          PROVE  Warn(plan, "container not found", n, "") \in Warning
      BY <1>1, <1>2, Zenon DEF Warn, Warning
    <3>. QED
      BY <3>1, RequestedType, Zenon DEF NotFoundWarnings
<1>5. EnvWarnings(p, plan, resolveTargets(p, plan)) \subseteq Warning
  <2>1. p.containers \in Seq(Container)
    BY DEF Pod
  <2>2. \A i \in DOMAIN p.containers : p.containers[i] \in Container
    BY <2>1
  <2>3. \A i \in DOMAIN p.containers : p.containers[i].name \in Name
    BY <2>2 DEF Container
  <2>4. Targeted(p, resolveTargets(p, plan)) \subseteq DOMAIN p.containers
    BY DEF Targeted
  <2>. QED
    <3>1. ASSUME NEW n \in Name, NEW e \in Text
          PROVE  Warn(plan, "env untouched", n, e) \in Warning
      BY <1>1, <1>2, Zenon DEF Warn, Warning
    <3>. QED
      BY <1>2, <2>3, <2>4, <3>1, Zenon DEF EnvWarnings
<1>. QED
  BY <1>3, <1>4, <1>5, Zenon

(* The annotations and labels written for a plan have their types.         *)
LEMMA MetadataType ==
  ASSUME NEW plan \in Plan, NEW list \in Seq(Plan)
  PROVE  /\ PlanAnnotations(plan) \subseteq Annotation
         /\ PlanLabel(plan) \in Label
         /\ StatusAnnotations(list) \subseteq Annotation
<1>1. /\ plan.name \in Text /\ plan.key \in Text /\ plan.confBytes \in Nat
      /\ plan.files \in Seq(File)
  BY DEF Plan
<1>2. "injected" \in Text /\ "cluster" \in Text /\ "namespaced" \in Text
  BY TextHasLiterals, Zenon
<1>3. PlanAnnotations(plan) \subseteq Annotation
  <2>1. <<plan.key>> \in Seq(Text)
    BY <1>1
  <2>2. \A i \in DOMAIN plan.files : i \in Nat /\ plan.files[i] \in File
    BY <1>1
  <2>3. \A i \in DOMAIN plan.files : plan.files[i].bytes \in Nat
    BY <2>2 DEF File
  <2>4. \A i \in DOMAIN plan.files : fileAnnotation(plan.name, i) \in AnnotationKey
    BY <1>1, <2>2, DerivedNamesType
  <2>5. HelperConfAnnotation(plan.name) \in AnnotationKey
    BY <1>1, DerivedNamesType
  <2>. QED
    <3>1. [key |-> HelperConfAnnotation(plan.name), from |-> <<plan.key>>, i |-> 0,
           bytes |-> plan.confBytes] \in Annotation
      BY <1>1, <2>1, <2>5 DEF Annotation
    <3>2. ASSUME NEW i \in DOMAIN plan.files
          PROVE  [key |-> fileAnnotation(plan.name, i), from |-> <<plan.key>>,
                  i |-> i, bytes |-> plan.files[i].bytes] \in Annotation
      BY <2>1, <2>2, <2>3, <2>4 DEF Annotation
    <3>. QED
      BY <3>1, <3>2 DEF PlanAnnotations
<1>4. PlanLabel(plan) \in Label
  BY <1>1, <1>2 DEF PlanLabel, Label
<1>5. StatusAnnotations(list) \subseteq Annotation
  <2>. DEFINE keys == [n \in DOMAIN list |-> list[n].key]
  <2>1. \A n \in DOMAIN list : list[n] \in Plan
    OBVIOUS
  <2>2. \A n \in DOMAIN list : keys[n] \in Text
    BY <2>1 DEF Plan
  <2>3. keys = [n \in DOMAIN list |-> keys[n]]
    OBVIOUS
  <2>4. keys \in Seq(Text)
    <3>. HIDE DEF keys
    <3>. QED
      BY <2>2, <2>3, SeqByPosition
  <2>5. StatusInjected \in Seq(Text)
    BY <1>2 DEF StatusInjected
  <2>6. Len(list) \in Nat
    OBVIOUS
  <2>7. StatusAnnotation \in AnnotationKey /\ ShimsAnnotation \in AnnotationKey
    BY <1>1, DerivedNamesType
  <2>. HIDE DEF keys
  <2>8. [key |-> StatusAnnotation, from |-> StatusInjected, i |-> 0, bytes |-> 1]
          \in Annotation
    BY <2>5, <2>7 DEF Annotation
  <2>9. [key |-> ShimsAnnotation, from |-> keys, i |-> 0, bytes |-> Len(list)]
          \in Annotation
    BY <2>4, <2>6, <2>7 DEF Annotation
  <2>. QED
    BY <2>8, <2>9 DEF StatusAnnotations, keys
<1>. QED
  BY <1>3, <1>4, <1>5

-----------------------------------------------------------------------------
(* What the helpers add to the pod.                                        *)

(* A search by name finds the first element of a name that occurs.         *)
LEMMA FirstOfName ==
  ASSUME Counting, NEW T, NEW s \in Seq(T), NEW name,
         \E i \in DOMAIN s : s[i].name = name
  PROVE  \E i \in DOMAIN s : s[i].name = name /\ IsFirst(s, i)
<1>. DEFINE S == {i \in DOMAIN s : s[i].name = name}
<1>1. S \in SUBSET Nat /\ S # {}
  OBVIOUS
<1>2. PICK i \in S : \A j \in S : i <= j
  BY <1>1, Zenon DEF Counting
<1>3. \A j \in 1..(i - 1) : j \in DOMAIN s /\ ~(i <= j)
  BY <1>2
<1>. QED
  BY <1>2, <1>3 DEF IsFirst

(* Appending extends a list ...                                            *)
LEMMA ConcatExtends ==
  ASSUME NEW S, NEW s \in Seq(S), NEW t \in Seq(S)
  PROVE  /\ Extends(s, s \o t) /\ Range(t) \subseteq Range(s \o t)
         /\ Len(s \o t) = Len(s) + Len(t)
         /\ \A i \in DOMAIN s : i \in DOMAIN (s \o t) /\ (s \o t)[i] = s[i]
<1>1. /\ s \o t \in Seq(S) /\ Len(s \o t) = Len(s) + Len(t)
      /\ \A i \in 1..Len(s) : (s \o t)[i] = s[i]
      /\ \A i \in 1..Len(t) : (s \o t)[Len(s) + i] = t[i]
  BY ConcatList
<1>2. SubSeq(s \o t, 1, Len(s)) = s
  BY <1>1
<1>3. \A k \in DOMAIN t : Len(s) + k \in DOMAIN (s \o t) /\ (s \o t)[Len(s) + k] = t[k]
  BY <1>1
<1>4. Range(t) \subseteq Range(s \o t)
  BY <1>3 DEF Range
<1>. QED
  BY <1>1, <1>2, <1>4 DEF Extends

(* ... and a list that extends another keeps its elements.                 *)
LEMMA ExtendsKeeps ==
  ASSUME NEW S, NEW s \in Seq(S), NEW t \in Seq(S), Extends(s, t)
  PROVE  /\ \A i \in DOMAIN s : i \in DOMAIN t /\ t[i] = s[i]
         /\ Range(s) \subseteq Range(t)
         /\ \A name : hasVolume(s, name) => hasVolume(t, name)
<1>1. \A i \in DOMAIN s : i \in DOMAIN t /\ t[i] = SubSeq(t, 1, Len(s))[i]
  BY DEF Extends
<1>2. \A i \in DOMAIN s : i \in DOMAIN t /\ t[i] = s[i]
  BY <1>1 DEF Extends
<1>. QED
  BY <1>2 DEF Range, hasVolume

(* Appending adds one element.                                             *)
LEMMA AppendRange ==
  ASSUME NEW S, NEW s \in Seq(S), NEW x \in S
  PROVE  Range(Append(s, x)) = Range(s) \cup {x}
<1>1. \A k \in DOMAIN Append(s, x) : \/ k \in DOMAIN s /\ Append(s, x)[k] = s[k]
                                     \/ Append(s, x)[k] = x
  OBVIOUS
<1>2. \A k \in DOMAIN s : k \in DOMAIN Append(s, x) /\ Append(s, x)[k] = s[k]
  OBVIOUS
<1>3. Len(s) + 1 \in DOMAIN Append(s, x) /\ Append(s, x)[Len(s) + 1] = x
  OBVIOUS
<1>. QED
  BY <1>1, <1>2, <1>3 DEF Range

(* An extension of an extension is one.                                    *)
LEMMA ExtendsTrans ==
  ASSUME NEW S, NEW s \in Seq(S), NEW t \in Seq(S), NEW u \in Seq(S),
         Extends(s, t), Extends(t, u)
  PROVE  Extends(s, u)
<1>1. Len(s) \in Nat /\ Len(t) \in Nat /\ Len(u) \in Nat /\ Len(s) <= Len(t) /\ Len(t) <= Len(u)
  BY DEF Extends
<1>2. \A i \in 1..Len(s) : u[i] = s[i]
  BY <1>1, ExtendsKeeps
<1>. QED
  BY <1>1, <1>2 DEF Extends

(* addVolumes appends the plan's two volumes, after a socket volume of the *)
(* plan's driver when there is none.                                       *)
LEMMA AddVolumesGrow ==
  ASSUME NEW plan \in Plan, NEW volumes \in Seq(Volume)
  PROVE  LET new == addVolumes(volumes, plan)
         IN  /\ Extends(volumes, new)
             /\ hasVolume(new, plan.tokenVolume)
             /\ hasVolume(new, configVolumeName(plan.name))
             /\ hasVolume(new, socketVolumeName)
             /\ hasVolume(volumes, socketVolumeName) => Len(new) = Len(volumes) + 2
             /\ ~hasVolume(volumes, socketVolumeName) =>
                  /\ Len(new) = Len(volumes) + 3
                  /\ \E i \in DOMAIN new : /\ i = Len(volumes) + 1
                                           /\ new[i].name = socketVolumeName
                                           /\ new[i].csi = plan.csiDriver
<1>. DEFINE socket == [name |-> socketVolumeName, csi |-> plan.csiDriver, items |-> <<>>]
            token == [name |-> plan.tokenVolume, csi |-> NotCSI, items |-> <<>>]
            config == [name |-> configVolumeName(plan.name), csi |-> NotCSI,
                       items |-> <<HelperConfAnnotation(plan.name)>> \o
                         [i \in DOMAIN plan.files |-> fileAnnotation(plan.name, i)]]
            missing == IF hasVolume(volumes, socketVolumeName) THEN <<>> ELSE <<socket>>
            U == Volume \cup {socket, token, config}
<1>1. addVolumes(volumes, plan) =
        (IF hasVolume(volumes, socketVolumeName) THEN volumes ELSE Append(volumes, socket))
        \o <<token, config>>
  BY DEF addVolumes
<1>2. /\ socket.name = socketVolumeName /\ socket.csi = plan.csiDriver
      /\ token.name = plan.tokenVolume /\ config.name = configVolumeName(plan.name)
      /\ socket \in U /\ token \in U /\ config \in U
  OBVIOUS
<1>3. volumes \in Seq(U)
  BY ListWidened, Zenon
<1>. HIDE DEF socket, token, config, U
<1>. DEFINE n == Len(volumes)
            k == IF hasVolume(volumes, socketVolumeName) THEN 0 ELSE 1
            new == addVolumes(volumes, plan)
<1>4. /\ new \in Seq(U) /\ Len(new) = n + k + 2
      /\ \A i \in 1..n : new[i] = volumes[i]
      /\ k = 1 => new[n + 1] = socket
      /\ new[n + k + 1] = token /\ new[n + k + 2] = config
  <2>1. <<token, config>> \in Seq(U) /\ Len(<<token, config>>) = 2
        /\ <<token, config>>[1] = token /\ <<token, config>>[2] = config
    BY <1>2
  <2>2. CASE hasVolume(volumes, socketVolumeName)
    <3>1. new = volumes \o <<token, config>>
      BY <1>1, <2>2
    <3>. HIDE DEF new
    <3>. QED
      BY <1>3, <2>1, <2>2, <3>1, ConcatList
  <2>3. CASE ~hasVolume(volumes, socketVolumeName)
    <3>1. new = Append(volumes, socket) \o <<token, config>>
      BY <1>1, <2>3
    <3>2. /\ Append(volumes, socket) \in Seq(U) /\ Len(Append(volumes, socket)) = n + 1
          /\ \A i \in 1..n : Append(volumes, socket)[i] = volumes[i]
          /\ Append(volumes, socket)[n + 1] = socket
      BY <1>2, <1>3, AppendList
    <3>. HIDE DEF new
    <3>. QED
      BY <1>3, <2>1, <2>3, <3>1, <3>2, ConcatList
  <2>. QED
    BY <2>2, <2>3
<1>. HIDE DEF new
<1>5. n \in Nat /\ DOMAIN volumes = 1..n /\ DOMAIN new = 1..(n + k + 2)
  BY <1>3, <1>4
<1>6. Extends(volumes, new)
  BY <1>3, <1>4, <1>5 DEF Extends
<1>7. hasVolume(new, plan.tokenVolume) /\ hasVolume(new, configVolumeName(plan.name))
  <2>1. n + k + 1 \in DOMAIN new /\ n + k + 2 \in DOMAIN new
    BY <1>5
  <2>2. /\ new[n + k + 1].name = plan.tokenVolume
        /\ new[n + k + 2].name = configVolumeName(plan.name)
    BY <1>2, <1>4, Zenon
  <2>. QED
    BY <2>1, <2>2, Zenon DEF hasVolume
<1>8. hasVolume(volumes, socketVolumeName) => hasVolume(new, socketVolumeName)
  BY <1>4, <1>5 DEF hasVolume
<1>9. ~hasVolume(volumes, socketVolumeName) =>
        n + 1 \in DOMAIN new /\ new[n + 1].name = socketVolumeName
                             /\ new[n + 1].csi = plan.csiDriver
  BY <1>2, <1>4, <1>5
<1>10. hasVolume(new, socketVolumeName)
  BY <1>8, <1>9 DEF hasVolume
<1>. QED
  BY <1>4, <1>5, <1>6, <1>7, <1>9, <1>10 DEF new

(* Mounting a plan's volumes once or more often mounts all of them.        *)
LEMMA RepeatCovers ==
  ASSUME NEW S, NEW s \in Seq(S), Len(s) > 0, NEW n \in Nat \ {0}
  PROVE  Range(s) \subseteq Range(Repeat(s, n))
<1>1. Len(s) <= n * Len(s)
  OBVIOUS
<1>2. ASSUME NEW k \in DOMAIN s
      PROVE  k \in DOMAIN Repeat(s, n) /\ Repeat(s, n)[k] = s[k]
  <2>1. k \in 1..(n * Len(s)) /\ (k - 1) % Len(s) = k - 1
    BY <1>1
  <2>. QED
    BY <2>1 DEF Repeat
<1>. QED
  BY <1>2 DEF Range

(* injectIntoContainers keeps every container with its mounts and env, and *)
(* gives each target the plan's mounts and the env vars it lacks.          *)
LEMMA InjectGrows ==
  ASSUME Counting, NEW plan \in Plan, NEW p \in Pod, NEW i \in DOMAIN p.containers
  PROVE  LET targets == resolveTargets(p, plan)
             c == p.containers[i]
             new == injectIntoContainers(p, plan, targets)[i]
         IN  /\ new \in Container /\ new.name = c.name
             /\ Extends(c.mounts, new.mounts)
             /\ c.env \subseteq new.env
             /\ i \in Targeted(p, targets) =>
                  /\ Range(ContainerMounts(plan)) \subseteq Range(new.mounts)
                  /\ MissingEnv(c, plan) \subseteq new.env
<1>. DEFINE targets == resolveTargets(p, plan)
            c == p.containers[i]
            cm == ContainerMounts(plan)
            new == injectIntoContainers(p, plan, targets)[i]
<1>1. c \in Container /\ p.containers \in Seq(Container)
  BY DEF Pod
<1>2. c.mounts \in Seq(Mount)
  BY <1>1 DEF Container
<1>3. new \in Container
  <2>1. injectIntoContainers(p, plan, targets) \in Seq(Container)
        /\ Len(injectIntoContainers(p, plan, targets)) = Len(p.containers)
    BY TargetsType, InjectType
  <2>2. i \in 1..Len(p.containers)
    BY <1>1
  <2>. QED
    BY <2>1, <2>2
<1>4. CASE i \notin Targeted(p, targets)
  <2>1. new = c
    BY <1>4, Zenon DEF injectIntoContainers
  <2>2. Extends(c.mounts, c.mounts)
    BY <1>2 DEF Extends
  <2>. HIDE DEF new, c, targets
  <2>. QED
    BY <1>1, <1>4, <2>1, <2>2 DEF new, c, targets
<1>5. CASE i \in Targeted(p, targets)
  <2>. DEFINE n == Visits(targets, c.name)
  <2>1. new = [c EXCEPT !.mounts = c.mounts \o Repeat(cm, n),
                        !.env = c.env \cup MissingEnv(c, plan)]
    BY <1>5, Zenon DEF injectIntoContainers
  <2>2. n \in Nat \ {0}
    BY <1>5, TargetsType DEF Targeted
  <2>3. cm \in Seq(Mount) /\ Len(cm) > 0
    BY ContainerMountsType
  <2>. HIDE DEF n, c, cm, new, targets
  <2>4. new.name = c.name /\ new.mounts = c.mounts \o Repeat(cm, n)
        /\ new.env = c.env \cup MissingEnv(c, plan)
    BY <1>1, <2>1 DEF Container
  <2>5. Repeat(cm, n) \in Seq(Mount)
    BY <2>2, <2>3, RepeatType
  <2>6. Range(cm) \subseteq Range(Repeat(cm, n))
    BY <2>2, <2>3, RepeatCovers
  <2>7. Extends(c.mounts, new.mounts) /\ Range(Repeat(cm, n)) \subseteq Range(new.mounts)
    BY <1>2, <2>4, <2>5, ConcatExtends
  <2>. QED
    BY <1>3, <2>4, <2>6, <2>7 DEF n, c, cm, new, targets
<1>. QED
  BY <1>4, <1>5

(* Which containers a plan selects depends on the names of the containers  *)
(* and on the pod's filter, and on nothing that an injection adds.         *)
SameSelection(p, q) ==
  /\ p.filter = q.filter
  /\ DOMAIN p.containers = DOMAIN q.containers
  /\ \A i \in DOMAIN p.containers : p.containers[i].name = q.containers[i].name

(* Such pods have the same targets and the same names are not found.       *)
LEMMA SelectionStable ==
  ASSUME NEW p \in Pod, NEW q \in Pod, SameSelection(p, q), NEW plan
  PROVE  /\ Requested(p, plan) = Requested(q, plan)
         /\ resolveTargets(p, plan) = resolveTargets(q, plan)
         /\ Targeted(p, resolveTargets(p, plan)) = Targeted(q, resolveTargets(q, plan))
         /\ NotFoundWarnings(p, plan) = NotFoundWarnings(q, plan)
<1>1. Requested(p, plan) = Requested(q, plan)
  BY DEF SameSelection, Requested, containersFromAnnotation
<1>2. \A name : hasContainerNamed(p.containers, name) = hasContainerNamed(q.containers, name)
  BY DEF SameSelection, hasContainerNamed
<1>3. resolveTargets(p, plan) = resolveTargets(q, plan)
  <2>1. [i \in DOMAIN p.containers |-> p.containers[i].name]
          = [i \in DOMAIN q.containers |-> q.containers[i].name]
    BY DEF SameSelection
  <2>. QED
    BY <1>1, <1>2, <2>1, Zenon DEF resolveTargets
<1>4. \A i \in DOMAIN p.containers : IsFirst(p.containers, i) = IsFirst(q.containers, i)
  <2>1. p.containers \in Seq(Container)
    BY DEF Pod
  <2>2. \A i \in DOMAIN p.containers : \A j \in 1..(i - 1) : j \in DOMAIN p.containers
    BY <2>1
  <2>. QED
    BY <2>2 DEF SameSelection, IsFirst
<1>5. Targeted(p, resolveTargets(p, plan)) = Targeted(q, resolveTargets(q, plan))
  BY <1>3, <1>4 DEF SameSelection, Targeted
<1>6. NotFoundWarnings(p, plan) = NotFoundWarnings(q, plan)
  BY <1>1, <1>2, Zenon DEF NotFoundWarnings
<1>. QED
  BY <1>1, <1>3, <1>5, <1>6

(* Every requested container that exists is a target, and a plan that is   *)
(* not skipped has one.                                                    *)
LEMMA TargetsFound ==
  ASSUME Counting, NEW p \in Pod, NEW plan \in Plan
  PROVE  LET targets == resolveTargets(p, plan)
         IN  /\ \A n \in Range(Requested(p, plan)) :
                  hasContainerNamed(p.containers, n) =>
                    \E i \in Targeted(p, targets) : p.containers[i].name = n
             /\ p.containers # <<>> /\ ~(DOMAIN Requested(p, plan) # {} /\ DOMAIN targets = {})
                  => Targeted(p, targets) # {}
<1>. DEFINE targets == resolveTargets(p, plan)
<1>1. p.containers \in Seq(Container)
  BY DEF Pod
<1>2. ASSUME NEW n, hasContainerNamed(p.containers, n), n \in Range(targets)
      PROVE  \E i \in Targeted(p, targets) : p.containers[i].name = n
  <2>1. PICK i \in DOMAIN p.containers : p.containers[i].name = n /\ IsFirst(p.containers, i)
    BY <1>1, <1>2, FirstOfName, Zenon DEF hasContainerNamed
  <2>. QED
    BY <1>2, <2>1 DEF Targeted
<1>3. ASSUME NEW n \in Range(Requested(p, plan)), hasContainerNamed(p.containers, n)
      PROVE  n \in Range(targets)
  BY <1>3 DEF resolveTargets, Range, Restrict
<1>4. ASSUME p.containers # <<>>, ~(DOMAIN Requested(p, plan) # {} /\ DOMAIN targets = {})
      PROVE  Targeted(p, targets) # {}
  <2>1. CASE DOMAIN Requested(p, plan) = {}
    <3>1. 1 \in DOMAIN p.containers
      BY <1>1, <1>4
    <3>2. hasContainerNamed(p.containers, p.containers[1].name)
          /\ p.containers[1].name \in Range(targets)
      BY <2>1, <3>1 DEF hasContainerNamed, resolveTargets, Range
    <3>. QED
      BY <1>2, <3>2
  <2>2. CASE DOMAIN Requested(p, plan) # {}
    <3>1. PICK k \in DOMAIN targets : TRUE
      BY <1>4, <2>2, Zenon
    <3>2. hasContainerNamed(p.containers, targets[k]) /\ targets[k] \in Range(targets)
      BY <2>2, <3>1 DEF resolveTargets, Range, Restrict
    <3>. QED
      BY <1>2, <3>2
  <2>. QED
    BY <2>1, <2>2, Zenon
<1>. QED
  BY <1>2, <1>3, <1>4

-----------------------------------------------------------------------------
(* The type invariant.                                                     *)

(* What the loop visits is a plan.                                         *)
LEMMA CurrentPlan ==
  ASSUME TypeOK, InLoop
  PROVE  /\ plans[at] \in Plan
         /\ at + 1 \in 1..(Len(plans) + 1)
<1>1. plans \in Seq(Plan) /\ plans \in PlanLists
  BY ConstantsTyped DEF TypeOK
<1>2. at \in 1..Len(plans)
  BY <1>1 DEF TypeOK, InLoop
<1>3. at \in DOMAIN plans /\ at + 1 \in 1..(Len(plans) + 1)
  BY <1>1, <1>2
<1>. QED
  BY <1>1, <1>2, <1>3, ConstantsTyped

(* Injecting a plan keeps the pod a pod.                                   *)
LEMMA ApplyPlanPodType ==
  ASSUME Counting, TypeOK, ApplyPlan
  PROVE  pod' \in Pod
<1>. DEFINE plan == plans[at]
            targets == resolveTargets(pod, plan)
<1>1. pod \in Pod /\ plan \in Plan
  BY CurrentPlan DEF ApplyPlan, TypeOK
<1>2. pod' = [pod EXCEPT !.volumes = addVolumes(pod.volumes, plan),
                         !.containers = injectIntoContainers(pod, plan, targets),
                         !.annotations = setAnnotation(pod.annotations, PlanAnnotations(plan)),
                         !.labels = setAnnotation(pod.labels, {PlanLabel(plan)})]
  BY <1>1 DEF ApplyPlan, Pod
<1>. HIDE DEF plan
<1>3. addVolumes(pod.volumes, plan) \in Seq(Volume)
  BY <1>1, AddVolumesType DEF Pod
<1>4. injectIntoContainers(pod, plan, targets) \in Seq(Container)
  BY <1>1, TargetsType, InjectType
<1>5. setAnnotation(pod.annotations, PlanAnnotations(plan)) \subseteq Annotation
  <2>1. PlanAnnotations(plan) \subseteq Annotation
    BY <1>1, MetadataType, EmptyList, Zenon
  <2>. QED
    BY <1>1, <2>1 DEF setAnnotation, Pod
<1>6. setAnnotation(pod.labels, {PlanLabel(plan)}) \subseteq Label
  <2>1. PlanLabel(plan) \in Label
    BY <1>1, MetadataType, EmptyList, Zenon
  <2>. QED
    BY <1>1, <2>1 DEF setAnnotation, Pod
<1>. HIDE DEF targets
<1>. QED
  BY <1>1, <1>2, <1>3, <1>4, <1>5, <1>6, Zenon DEF Pod

(* Finishing keeps the pod a pod.                                          *)
LEMMA FinishPodType ==
  ASSUME TypeOK, Finish
  PROVE  pod' \in Pod
<1>1. pod \in Pod /\ newInits \in Seq(Container) /\ applied \in Seq(Plan)
  BY DEF TypeOK
<1>2. CASE applied = <<>>
  BY <1>1, <1>2 DEF Finish
<1>3. CASE applied # <<>>
  <2>1. pod' = [pod EXCEPT
                  !.inits = newInits \o pod.inits,
                  !.annotations = setAnnotation(pod.annotations, StatusAnnotations(applied))]
    BY <1>1, <1>3 DEF Finish, PrependHelpers, Pod
  <2>2. newInits \o pod.inits \in Seq(Container)
    BY <1>1, ConcatList DEF Pod
  <2>3. StatusAnnotations(applied) \subseteq Annotation
    <3>1. applied[1] \in Plan
      BY <1>1, <1>3
    <3>. QED
      BY <1>1, <3>1, MetadataType
  <2>4. setAnnotation(pod.annotations, StatusAnnotations(applied)) \subseteq Annotation
    BY <1>1, <2>3 DEF setAnnotation, Pod
  <2>. QED
    BY <1>1, <2>1, <2>2, <2>4, Zenon DEF Pod
<1>. QED
  BY <1>2, <1>3

(* The variables have their types at first, and a step keeps them.         *)
LEMMA TypeInit == Init => TypeOK
<1>. SUFFICES ASSUME Init PROVE TypeOK
  OBVIOUS
<1>1. plans \in Seq(Plan)
  BY ConstantsTyped DEF Init
<1>. QED
  BY <1>1, ConstantsTyped DEF Init, TypeOK

(* Every step keeps the types.                                             *)
LEMMA TypeStep ==
  ASSUME Counting, TypeOK, [Next]_vars
  PROVE  TypeOK'
<1>0. MaxCalls \in Nat \ {0} /\ plans \in Seq(Plan)
  BY ConstantsTyped DEF TypeOK
<1>1. CASE AlreadyInjected
  <2>1. [shim |-> "", kind |-> "already injected", container |-> <<>>, env |-> ""]
          \in Warning
    <3>1. "" \in Text /\ "already injected" \in Text
      BY TextHasLiterals, Zenon
    <3>2. <<>> \in Name
      BY DEF Name
    <3>. QED
      BY <3>1, <3>2, Zenon DEF Warning
  <2>. QED
    BY <1>1, <2>1, Zenon DEF AlreadyInjected, TypeOK
<1>2. CASE BeginLoop
  BY <1>2 DEF BeginLoop, TypeOK
<1>3. ASSUME NEW warned \in SUBSET Warning, InLoop, Skip(warned)
      PROVE  TypeOK'
  BY <1>3, CurrentPlan DEF Skip, TypeOK
<1>4. CASE SkipOverBudget
  <2>1. InLoop
    BY <1>4 DEF SkipOverBudget
  <2>2. {BudgetWarning(plans[at])} \subseteq Warning
    BY <2>1, CurrentPlan, WarningsType, Zenon DEF TypeOK
  <2>. QED
    BY <1>3, <1>4, <2>1, <2>2 DEF SkipOverBudget
<1>5. CASE SkipNoTarget \/ SkipCollision
  <2>1. InLoop
    BY <1>5, Zenon DEF SkipNoTarget, SkipCollision
  <2>2. {Warn(plans[at], "skipped", <<>>, "")} \cup NotFoundWarnings(pod, plans[at])
          \subseteq Warning
    BY <2>1, CurrentPlan, WarningsType, Zenon DEF TypeOK
  <2>. QED
    BY <1>3, <1>5, <2>1, <2>2, Zenon DEF SkipNoTarget, SkipCollision
<1>6. CASE ApplyPlan
  <2>. DEFINE plan == plans[at]
  <2>1. InLoop
    BY <1>6 DEF ApplyPlan
  <2>2. plan \in Plan /\ renderedBytes(plan) \in Nat /\ at + 1 \in 1..(Len(plans) + 1)
    BY <2>1, CurrentPlan DEF Counting
  <2>3. /\ newInits' = newInits \o <<helperContainer(plan, FALSE), helperContainer(plan, TRUE)>>
        /\ warnings' = warnings \cup NotFoundWarnings(pod, plan)
                                \cup EnvWarnings(pod, plan, resolveTargets(pod, plan))
        /\ addedBytes' = addedBytes + renderedBytes(plan)
        /\ applied' = Append(applied, plan)
        /\ at' = at + 1
        /\ UNCHANGED <<base, plans, phase, calls, injections>>
    BY <1>6 DEF ApplyPlan
  <2>. HIDE DEF plan
  <2>4. newInits' \in Seq(Container)
    <3>1. helperContainer(plan, FALSE) \in Container /\ helperContainer(plan, TRUE) \in Container
      BY <2>2, HelperContainerType, Zenon
    <3>2. <<helperContainer(plan, FALSE), helperContainer(plan, TRUE)>> \in Seq(Container)
      BY <3>1, PairIsSeq, Zenon
    <3>. QED
      BY <2>3, <3>2, ConcatList, Zenon DEF TypeOK
  <2>5. warnings' \subseteq Warning
    BY <2>2, <2>3, WarningsType, Zenon DEF TypeOK
  <2>6. pod' \in Pod
    BY <1>6, ApplyPlanPodType
  <2>7. addedBytes' \in Nat /\ applied' \in Seq(Plan)
    BY <2>2, <2>3 DEF TypeOK
  <2>. QED
    BY <2>2, <2>3, <2>4, <2>5, <2>6, <2>7, Zenon DEF TypeOK
<1>7. CASE Finish
  <2>1. pod' \in Pod
    BY <1>7, FinishPodType
  <2>2. UNCHANGED <<base, plans, at, newInits, addedBytes, applied, warnings, calls>>
        /\ phase' = "done"
    BY <1>7 DEF Finish
  <2>3. injections' \in Nat
    BY <1>7 DEF Finish, TypeOK
  <2>. QED
    BY <2>1, <2>2, <2>3 DEF TypeOK
<1>8. CASE Reinvoke
  <2>1. PICK c \in Sidecars, list \in PlanLists :
          /\ pod' = [pod EXCEPT !.containers = Append(@, c)]
          /\ base' = pod'
          /\ plans' = list
    BY <1>8, Zenon DEF Reinvoke
  <2>2. Append(pod.containers, c) \in Seq(Container)
    BY ConstantsTyped DEF TypeOK, Pod
  <2>3. pod' \in Pod
    BY <2>1, <2>2, Zenon DEF TypeOK, Pod
  <2>4. /\ newInits' = <<>> /\ addedBytes' = 0 /\ applied' = <<>> /\ warnings' = {}
        /\ phase' = "called" /\ calls' = calls + 1 /\ calls < MaxCalls /\ at' = 1
        /\ UNCHANGED injections
    BY <1>8 DEF Reinvoke
  <2>5. plans' \in PlanLists /\ plans' \in Seq(Plan)
    BY <2>1, ConstantsTyped
  <2>6. at' \in 1..(Len(plans') + 1)
    BY <2>4, <2>5
  <2>7. calls' \in 1..MaxCalls
    BY <1>0, <2>4 DEF TypeOK
  <2>. QED
    BY <2>1, <2>3, <2>4, <2>5, <2>6, <2>7 DEF TypeOK
<1>9. CASE UNCHANGED vars
  BY <1>9 DEF vars, TypeOK
<1>. QED
  BY <1>1, <1>2, <1>4, <1>5, <1>6, <1>7, <1>8, <1>9 DEF Next

-----------------------------------------------------------------------------
(* Uniqueness is kept by concatenating lists that are apart.               *)

(* The elements of a concatenation come from its parts.                    *)
LEMMA ConcatElements ==
  ASSUME NEW S, NEW s \in Seq(S), NEW t \in Seq(S), NEW i \in DOMAIN (s \o t)
  PROVE  \/ i \in DOMAIN s /\ (s \o t)[i] = s[i]
         \/ i > Len(s) /\ i - Len(s) \in DOMAIN t /\ (s \o t)[i] = t[i - Len(s)]
  BY ConcatList

(* ... and the elements of its second part are in it.                      *)
LEMMA ConcatContains ==
  ASSUME NEW S, NEW s \in Seq(S), NEW t \in Seq(S)
  PROVE  \A k \in DOMAIN t : \E j \in DOMAIN (s \o t) : (s \o t)[j] = t[k]
<1>1. ASSUME NEW k \in DOMAIN t
      PROVE  /\ Len(s) + k \in DOMAIN (s \o t)
             /\ (s \o t)[Len(s) + k] = t[k]
  BY ConcatList
<1>. QED
  BY <1>1

(* Two lists with unique names and no name in common.                      *)
LEMMA UniqueNamesConcat ==
  ASSUME NEW S, NEW s \in Seq(S), NEW t \in Seq(S),
         UniqueNames(s), UniqueNames(t), Apart(s, t)
  PROVE  UniqueNames(s \o t)
<1>. SUFFICES ASSUME NEW i \in DOMAIN (s \o t), NEW j \in DOMAIN (s \o t), i # j
              PROVE  (s \o t)[i].name # (s \o t)[j].name
  BY DEF UniqueNames
<1>0. Len(s) \in Nat /\ i \in Nat /\ j \in Nat
  BY ConcatList
<1>1. CASE i \in DOMAIN s /\ (s \o t)[i] = s[i] /\ j \in DOMAIN s /\ (s \o t)[j] = s[j]
  BY <1>1 DEF UniqueNames
<1>2. CASE i \in DOMAIN s /\ (s \o t)[i] = s[i]
           /\ j - Len(s) \in DOMAIN t /\ (s \o t)[j] = t[j - Len(s)]
  BY <1>2 DEF Apart
<1>3. CASE i - Len(s) \in DOMAIN t /\ (s \o t)[i] = t[i - Len(s)]
           /\ j \in DOMAIN s /\ (s \o t)[j] = s[j]
  BY <1>3 DEF Apart
<1>4. CASE i - Len(s) \in DOMAIN t /\ (s \o t)[i] = t[i - Len(s)]
           /\ j - Len(s) \in DOMAIN t /\ (s \o t)[j] = t[j - Len(s)]
  <2>1. i - Len(s) # j - Len(s)
    BY <1>0
  <2>. QED
    BY <1>4, <2>1 DEF UniqueNames
<1>. QED
  BY <1>1, <1>2, <1>3, <1>4, ConcatElements

(* Two lists of mounts with unique paths and no path in common.            *)
LEMMA UniquePathsConcat ==
  ASSUME NEW S, NEW s \in Seq(S), NEW t \in Seq(S),
         UniquePaths(s), UniquePaths(t),
         \A i \in DOMAIN s, j \in DOMAIN t : s[i].path # t[j].path
  PROVE  UniquePaths(s \o t)
<1>. SUFFICES ASSUME NEW i \in DOMAIN (s \o t), NEW j \in DOMAIN (s \o t), i # j
              PROVE  (s \o t)[i].path # (s \o t)[j].path
  BY DEF UniquePaths
<1>0. Len(s) \in Nat /\ i \in Nat /\ j \in Nat
  BY ConcatList
<1>1. CASE i \in DOMAIN s /\ (s \o t)[i] = s[i] /\ j \in DOMAIN s /\ (s \o t)[j] = s[j]
  BY <1>1 DEF UniquePaths
<1>2. CASE i \in DOMAIN s /\ (s \o t)[i] = s[i]
           /\ j - Len(s) \in DOMAIN t /\ (s \o t)[j] = t[j - Len(s)]
  BY <1>2
<1>3. CASE i - Len(s) \in DOMAIN t /\ (s \o t)[i] = t[i - Len(s)]
           /\ j \in DOMAIN s /\ (s \o t)[j] = s[j]
  BY <1>3
<1>4. CASE i - Len(s) \in DOMAIN t /\ (s \o t)[i] = t[i - Len(s)]
           /\ j - Len(s) \in DOMAIN t /\ (s \o t)[j] = t[j - Len(s)]
  <2>1. i - Len(s) # j - Len(s)
    BY <1>0
  <2>. QED
    BY <1>4, <2>1 DEF UniquePaths
<1>. QED
  BY <1>1, <1>2, <1>3, <1>4, ConcatElements

(* Two lists of mounts that volumes back.                                  *)
LEMMA BackedConcat ==
  ASSUME NEW s \in Seq(Mount), NEW t \in Seq(Mount), NEW volumes,
         \A m \in DOMAIN s : hasVolume(volumes, s[m].volume),
         \A m \in DOMAIN t : hasVolume(volumes, t[m].volume)
  PROVE  \A m \in DOMAIN (s \o t) : hasVolume(volumes, (s \o t)[m].volume)
BY ConcatElements

(* A name of the first or of the second part is a name of the whole.       *)
LEMMA HasVolumeConcat ==
  ASSUME NEW S, NEW s \in Seq(S), NEW t \in Seq(S), NEW name,
         hasVolume(s, name) \/ hasVolume(t, name)
  PROVE  hasVolume(s \o t, name)
<1>1. CASE hasVolume(s, name)
  <2>1. PICK i \in DOMAIN s : s[i].name = name
    BY <1>1 DEF hasVolume
  <2>2. i \in DOMAIN (s \o t) /\ (s \o t)[i] = s[i]
    BY ConcatList
  <2>. QED
    BY <2>1, <2>2 DEF hasVolume
<1>2. CASE hasVolume(t, name)
  <2>1. PICK i \in DOMAIN t : t[i].name = name
    BY <1>2 DEF hasVolume
  <2>2. i + Len(s) \in DOMAIN (s \o t) /\ (s \o t)[i + Len(s)] = t[i]
    BY ConcatList
  <2>. QED
    BY <2>1, <2>2 DEF hasVolume
<1>. QED
  BY <1>1, <1>2

-----------------------------------------------------------------------------
(* What a plan adds.                                                       *)

(* addVolumes keeps every volume, keeps names unique when the plan's own   *)
(* volumes are new, and provides the three volumes the helpers mount.      *)
LEMMA AddVolumesSafe ==
  ASSUME NEW plan \in Plan, SafePlan(plan),
         NEW volumes \in Seq(Volume), UniqueNames(volumes),
         ~hasVolume(volumes, plan.tokenVolume),
         ~hasVolume(volumes, configVolumeName(plan.name))
  PROVE  /\ UniqueNames(addVolumes(volumes, plan))
         /\ \A name : hasVolume(volumes, name) => hasVolume(addVolumes(volumes, plan), name)
         /\ hasVolume(addVolumes(volumes, plan), socketVolumeName)
         /\ hasVolume(addVolumes(volumes, plan), plan.tokenVolume)
         /\ hasVolume(addVolumes(volumes, plan), configVolumeName(plan.name))
<1>. DEFINE socket == [name |-> socketVolumeName, csi |-> plan.csiDriver, items |-> <<>>]
            token == [name |-> plan.tokenVolume, csi |-> NotCSI, items |-> <<>>]
            config == [name |-> configVolumeName(plan.name), csi |-> NotCSI,
                       items |-> <<HelperConfAnnotation(plan.name)>> \o
                         [i \in DOMAIN plan.files |-> fileAnnotation(plan.name, i)]]
            first == IF hasVolume(volumes, socketVolumeName)
                     THEN volumes ELSE Append(volumes, socket)
            U == Volume \cup {socket, token, config}
<1>1. socketVolumeName # configVolumeName(plan.name)
  BY DEF socketVolumeName, configVolumeName
<1>2. plan.tokenVolume # socketVolumeName /\ plan.tokenVolume # configVolumeName(plan.name)
  BY DEF SafePlan
<1>3. addVolumes(volumes, plan) = first \o <<token, config>>
  BY DEF addVolumes
<1>4. /\ socket.name = socketVolumeName /\ token.name = plan.tokenVolume
      /\ config.name = configVolumeName(plan.name)
  OBVIOUS
<1>5. volumes \in Seq(U)
  BY ListWidened, Zenon
<1>. HIDE DEF socket, token, config, U
<1>6. /\ first \in Seq(U) /\ UniqueNames(first)
      /\ \A i \in DOMAIN first : \/ i \in DOMAIN volumes /\ first[i] = volumes[i]
                                 \/ first[i] = socket
      /\ \A name : hasVolume(volumes, name) => hasVolume(first, name)
      /\ hasVolume(first, socketVolumeName)
  <2>1. CASE hasVolume(volumes, socketVolumeName)
    BY <1>5, <2>1
  <2>2. CASE ~hasVolume(volumes, socketVolumeName)
    <3>1. first = Append(volumes, socket)
      BY <2>2
    <3>2. socket \in U
      BY DEF U
    <3>. HIDE DEF first
    <3>3. /\ first \in Seq(U) /\ Len(first) = Len(volumes) + 1
          /\ \A i \in 1..Len(volumes) : first[i] = volumes[i]
          /\ first[Len(volumes) + 1] = socket
      BY <1>5, <3>1, <3>2, AppendList
    <3>4. /\ DOMAIN first = 1..(Len(volumes) + 1) /\ DOMAIN volumes = 1..Len(volumes)
          /\ Len(volumes) \in Nat
      BY <1>5, <3>3
    <3>5. \A i \in DOMAIN volumes : volumes[i].name # socketVolumeName
      BY <2>2 DEF hasVolume
    <3>6. UniqueNames(first)
      BY <1>4, <3>3, <3>4, <3>5 DEF UniqueNames
    <3>7. \A name : hasVolume(volumes, name) => hasVolume(first, name)
      BY <3>3, <3>4 DEF hasVolume
    <3>8. hasVolume(first, socketVolumeName)
      BY <1>4, <3>3, <3>4 DEF hasVolume
    <3>. QED
      BY <3>3, <3>4, <3>6, <3>7, <3>8
  <2>. QED
    BY <2>1, <2>2
<1>. HIDE DEF first
<1>7. <<token, config>> \in Seq(U) /\ Len(<<token, config>>) = 2
  BY PairIsSeq DEF U
<1>8. UniqueNames(<<token, config>>)
  BY <1>2, <1>4, <1>7 DEF UniqueNames
<1>9. Apart(first, <<token, config>>)
  <2>1. \A i \in DOMAIN first : first[i].name # token.name /\ first[i].name # config.name
    BY <1>1, <1>2, <1>4, <1>6 DEF hasVolume
  <2>. QED
    BY <1>7, <2>1 DEF Apart
<1>10. UniqueNames(addVolumes(volumes, plan))
  BY <1>3, <1>6, <1>7, <1>8, <1>9, UniqueNamesConcat, Zenon
<1>11. ASSUME NEW name, hasVolume(first, name) \/ hasVolume(<<token, config>>, name)
       PROVE  hasVolume(addVolumes(volumes, plan), name)
  BY <1>3, <1>6, <1>7, <1>11, HasVolumeConcat, Zenon
<1>12. hasVolume(<<token, config>>, token.name) /\ hasVolume(<<token, config>>, config.name)
  BY <1>7 DEF hasVolume
<1>. QED
  BY <1>4, <1>6, <1>10, <1>11, <1>12

(* A helper mounts its three volumes at three different paths, ...         *)
LEMMA HelperMountsValid ==
  ASSUME NEW plan \in Plan, SafePlan(plan), NEW sidecar \in BOOLEAN, NEW volumes,
         hasVolume(volumes, socketVolumeName),
         hasVolume(volumes, plan.tokenVolume),
         hasVolume(volumes, configVolumeName(plan.name))
  PROVE  /\ UniquePaths(helperContainer(plan, sidecar).mounts)
         /\ \A m \in DOMAIN helperContainer(plan, sidecar).mounts :
              hasVolume(volumes, helperContainer(plan, sidecar).mounts[m].volume)
<1>0. PICK c : c = helperContainer(plan, sidecar)
  OBVIOUS
<1>1. /\ DOMAIN c.mounts = 1..3
      /\ c.mounts[1].path = plan.socketMountPath /\ c.mounts[1].volume = socketVolumeName
      /\ c.mounts[2].path = plan.mountPath /\ c.mounts[2].volume = plan.tokenVolume
      /\ c.mounts[3].path = configMountPath /\ c.mounts[3].volume = configVolumeName(plan.name)
  BY <1>0 DEF helperContainer
<1>2. /\ plan.socketMountPath # plan.mountPath
      /\ plan.socketMountPath # configMountPath
      /\ plan.mountPath # configMountPath
  <2>1. PICK paths : paths = <<plan.socketMountPath, plan.mountPath, configMountPath>>
    BY Zenon
  <2>2. /\ DOMAIN paths = 1..3 /\ paths[1] = plan.socketMountPath
        /\ paths[2] = plan.mountPath /\ paths[3] = configMountPath
    BY <2>1
  <2>3. \A i, j \in DOMAIN paths : i # j => paths[i] # paths[j]
    BY <2>1, Zenon DEF SafePlan, Distinct
  <2>. QED
    BY <2>2, <2>3
<1>3. UniquePaths(c.mounts)
  BY <1>1, <1>2 DEF UniquePaths
<1>4. \A m \in DOMAIN c.mounts : hasVolume(volumes, c.mounts[m].volume)
  BY <1>1
<1>. QED
  BY <1>0, <1>3, <1>4, Zenon

(* ... and writes its plan's token volume and nothing else.                *)
LEMMA HelperWrites ==
  ASSUME NEW plan, NEW sidecar \in BOOLEAN, NEW volume
  PROVE  /\ helperContainer(plan, sidecar).always = sidecar
         /\ Writes(helperContainer(plan, sidecar), volume) <=> volume = plan.tokenVolume
<1>1. PICK c : c = helperContainer(plan, sidecar)
  OBVIOUS
<1>2. /\ DOMAIN c.mounts = 1..3 /\ c.always = sidecar
      /\ c.mounts[1].readOnly = TRUE /\ c.mounts[3].readOnly = TRUE
      /\ c.mounts[2].readOnly = FALSE /\ c.mounts[2].volume = plan.tokenVolume
  BY <1>1 DEF helperContainer
<1>3. Writes(c, volume) <=> volume = plan.tokenVolume
  BY <1>2 DEF Writes
<1>. QED
  BY <1>1, <1>2, <1>3, Zenon

(* The mounts that a plan adds: its token directory, then its files.       *)
LEMMA ContainerMountsHave ==
  ASSUME NEW plan \in Plan
  PROVE  /\ \E t \in Range(ContainerMounts(plan)) :
              t.path = plan.mountPath /\ t.volume = plan.tokenVolume
         /\ \A f \in DOMAIN plan.files :
              \E t \in Range(ContainerMounts(plan)) :
                /\ t.path = plan.files[f].path /\ t.volume = configVolumeName(plan.name)
                /\ t.subPath = f + 1
<1>1. PICK a, rest :
        /\ a = [path |-> plan.mountPath, volume |-> plan.tokenVolume, subPath |-> 0,
                readOnly |-> TRUE]
        /\ rest = [i \in DOMAIN plan.files |->
                     [path |-> plan.files[i].path, volume |-> configVolumeName(plan.name),
                      subPath |-> i + 1, readOnly |-> TRUE]]
        /\ ContainerMounts(plan) = <<a>> \o rest
  BY Zenon DEF ContainerMounts
<1>2. plan.files \in Seq(File)
  BY DEF Plan
<1>3. PICK U : a \in U /\ rest \in Seq(U)
  <2>1. PICK U : U = {a} \cup {rest[i] : i \in DOMAIN plan.files}
    BY Zenon
  <2>2. /\ DOMAIN rest = DOMAIN plan.files /\ rest = [i \in DOMAIN plan.files |-> rest[i]]
        /\ DOMAIN plan.files = 1..Len(plan.files) /\ Len(plan.files) \in Nat
    BY <1>1, <1>2
  <2>3. rest \in Seq(U)
    BY <2>1, <2>2
  <2>. QED
    BY <2>1, <2>3
<1>4. <<a>> \in Seq(U) /\ a \in Range(<<a>>)
  BY <1>3 DEF Range
<1>5. Range(<<a>>) \subseteq Range(ContainerMounts(plan))
      /\ Range(rest) \subseteq Range(ContainerMounts(plan))
  <2>1. /\ \A i \in DOMAIN <<a>> : i \in DOMAIN (<<a>> \o rest) /\ (<<a>> \o rest)[i] = <<a>>[i]
        /\ Range(rest) \subseteq Range(<<a>> \o rest)
    BY <1>3, <1>4, ConcatExtends, Zenon
  <2>2. Range(<<a>>) \subseteq Range(<<a>> \o rest)
    BY <2>1, Zenon DEF Range
  <2>. QED
    BY <1>1, <2>1, <2>2, Zenon
<1>6. a.path = plan.mountPath /\ a.volume = plan.tokenVolume
  BY <1>1
<1>7. ASSUME NEW f \in DOMAIN plan.files
      PROVE  /\ rest[f] \in Range(rest)
             /\ rest[f].path = plan.files[f].path
             /\ rest[f].volume = configVolumeName(plan.name) /\ rest[f].subPath = f + 1
  BY <1>1, Zenon DEF Range
<1>. QED
  BY <1>4, <1>5, <1>6, <1>7, Zenon

-----------------------------------------------------------------------------
(* What the steps outside the loop leave.                                  *)

(* Finish prepends the helpers and writes the status, or leaves the pod.   *)
LEMMA FinishAdds ==
  ASSUME TypeOK, Finish
  PROVE  /\ phase = "applying" /\ phase' = "done" /\ UNCHANGED <<base, newInits, applied>>
         /\ applied = <<>> => UNCHANGED <<pod, injections>>
         /\ applied # <<>> =>
              /\ pod'.inits = newInits \o pod.inits
              /\ pod'.annotations = setAnnotation(pod.annotations, StatusAnnotations(applied))
              /\ pod'.volumes = pod.volumes /\ pod'.labels = pod.labels
              /\ pod'.containers = pod.containers /\ pod'.filter = pod.filter
              /\ injections' = injections + 1
<1>1. pod \in Pod
  BY DEF TypeOK
<1>. QED
  BY <1>1, Zenon DEF Finish, PrependHelpers, Pod

(* Reinvoke appends a container of another webhook.                        *)
LEMMA ReinvokeAdds ==
  ASSUME TypeOK, Reinvoke
  PROVE  /\ phase' = "called" /\ UNCHANGED injections
         /\ base' = pod' /\ newInits' = <<>> /\ applied' = <<>>
         /\ \E c \in Sidecars :
              /\ c \in Container
              /\ ~hasContainerNamed(pod.containers \o pod.inits, c.name)
              /\ pod'.containers = Append(pod.containers, c)
              /\ pod'.inits = pod.inits /\ pod'.volumes = pod.volumes
              /\ pod'.annotations = pod.annotations /\ pod'.labels = pod.labels
              /\ pod'.filter = pod.filter
<1>1. pod \in Pod
  BY DEF TypeOK
<1>2. PICK c \in Sidecars : /\ ~hasContainerNamed(pod.containers \o pod.inits, c.name)
                            /\ pod' = [pod EXCEPT !.containers = Append(@, c)]
                            /\ base' = pod'
  BY Zenon DEF Reinvoke
<1>3. c \in Container
  BY ConstantsTyped
<1>4. /\ pod'.containers = Append(pod.containers, c)
      /\ pod'.inits = pod.inits /\ pod'.volumes = pod.volumes
      /\ pod'.annotations = pod.annotations /\ pod'.labels = pod.labels
      /\ pod'.filter = pod.filter
  BY <1>1, <1>2, Zenon DEF Pod
<1>5. phase' = "called" /\ UNCHANGED injections /\ newInits' = <<>> /\ applied' = <<>>
  BY Zenon DEF Reinvoke
<1>. QED
  BY <1>2, <1>3, <1>4, <1>5, Zenon

-----------------------------------------------------------------------------
(* One injection.                                                          *)

(* A call that injects leaves the status annotation on the pod; no call    *)
(* enters the loop on a pod that carries it, and nothing removes it.       *)
OnceInv ==
  /\ injections \in {0, 1}
  /\ injections = 1 => Injected(pod) /\ phase # "applying"

(* Every step keeps what OnceInv says.                                     *)
LEMMA OnceStep ==
  ASSUME TypeOK, OnceInv, [Next]_vars
  PROVE  OnceInv'
<1>1. CASE AlreadyInjected \/ BeginLoop
  BY <1>1, Zenon DEF AlreadyInjected, BeginLoop, OnceInv, Injected
<1>2. CASE SkipOverBudget \/ SkipNoTarget \/ SkipCollision
  BY <1>2, Zenon DEF SkipOverBudget, SkipNoTarget, SkipCollision, Skip, OnceInv, Injected
<1>3. CASE ApplyPlan
  BY <1>3 DEF ApplyPlan, InLoop, OnceInv
<1>4. CASE Finish
  <2>1. CASE applied = <<>>
    BY <1>4, <2>1, FinishAdds DEF OnceInv
  <2>2. CASE applied # <<>>
    <3>1. [key |-> StatusAnnotation, from |-> StatusInjected, i |-> 0, bytes |-> 1]
            \in pod'.annotations
      BY <1>4, <2>2, FinishAdds DEF setAnnotation, StatusAnnotations
    <3>2. Injected(pod')
      BY <3>1 DEF Injected
    <3>3. injections = 0 /\ injections' = 1 /\ phase' = "done"
      BY <1>4, <2>2, FinishAdds DEF OnceInv
    <3>. QED
      BY <3>2, <3>3 DEF OnceInv, Injected
  <2>. QED
    BY <2>1, <2>2
<1>5. CASE Reinvoke
  <2>1. pod'.annotations = pod.annotations /\ phase' = "called" /\ UNCHANGED injections
    BY <1>5, ReinvokeAdds
  <2>. QED
    BY <2>1 DEF OnceInv, Injected
<1>6. CASE UNCHANGED vars
  BY <1>6 DEF vars, OnceInv, Injected
<1>. QED
  BY <1>1, <1>2, <1>3, <1>4, <1>5, <1>6 DEF Next

-----------------------------------------------------------------------------
(* A step only adds.                                                       *)

(* What ApplyPlan does to the pod, in terms of the plan at hand.           *)
LEMMA ApplyPlanAdds ==
  ASSUME Counting, TypeOK, ApplyPlan
  PROVE  /\ InLoop /\ plans[at] \in Plan /\ pod \in Pod
         /\ ~NoTarget(plans[at])
         /\ ~checkCollisions(pod, plans[at], newInits, resolveTargets(pod, plans[at]))
         /\ pod' \in Pod /\ SameSelection(pod', pod)
         /\ pod'.volumes = addVolumes(pod.volumes, plans[at])
         /\ pod'.containers = injectIntoContainers(pod, plans[at], resolveTargets(pod, plans[at]))
         /\ pod'.annotations = setAnnotation(pod.annotations, PlanAnnotations(plans[at]))
         /\ pod'.labels = setAnnotation(pod.labels, {PlanLabel(plans[at])})
         /\ pod'.inits = pod.inits
         /\ newInits' = newInits \o <<helperContainer(plans[at], FALSE),
                                      helperContainer(plans[at], TRUE)>>
         /\ applied' = Append(applied, plans[at]) /\ at' = at + 1
         /\ UNCHANGED <<base, plans, phase, calls, injections>>
<1>1. InLoop /\ plans[at] \in Plan /\ pod \in Pod /\ pod' \in Pod
  BY CurrentPlan, ApplyPlanPodType DEF ApplyPlan, TypeOK
<1>2. /\ pod'.volumes = addVolumes(pod.volumes, plans[at])
      /\ pod'.containers = injectIntoContainers(pod, plans[at], resolveTargets(pod, plans[at]))
      /\ pod'.annotations = setAnnotation(pod.annotations, PlanAnnotations(plans[at]))
      /\ pod'.labels = setAnnotation(pod.labels, {PlanLabel(plans[at])})
      /\ pod'.inits = pod.inits /\ pod'.filter = pod.filter
  BY <1>1, Zenon DEF ApplyPlan, Pod
<1>3. SameSelection(pod', pod)
  <2>1. DOMAIN pod'.containers = DOMAIN pod.containers
    BY <1>2, ZenonT(30) DEF injectIntoContainers
  <2>2. \A i \in DOMAIN pod.containers : pod'.containers[i].name = pod.containers[i].name
    BY <1>1, <1>2, InjectGrows
  <2>. QED
    BY <1>2, <2>1, <2>2 DEF SameSelection
<1>. QED
  BY <1>1, <1>2, <1>3, Zenon DEF ApplyPlan

(* Nothing a step does takes away from the pod.                            *)
LEMMA GrowthStep ==
  ASSUME Counting, TypeOK, Next, pod' # pod
  PROVE  PodGrows
<1>1. /\ pod \in Pod /\ pod.volumes \in Seq(Volume) /\ pod.inits \in Seq(Container)
      /\ pod.containers \in Seq(Container) /\ newInits \in Seq(Container)
  BY DEF TypeOK, Pod
<1>1a. \A i \in DOMAIN pod.containers : pod.containers[i] \in Container
  BY <1>1
<1>1b. \A i \in DOMAIN pod.containers : pod.containers[i].mounts \in Seq(Mount)
  BY <1>1a DEF Container
<1>2. Extends(pod.volumes, pod.volumes) /\ Len(pod.containers) <= Len(pod.containers)
      /\ \A i \in DOMAIN pod.containers :
           Extends(pod.containers[i].mounts, pod.containers[i].mounts)
  BY <1>1, <1>1b DEF Extends
<1>3. ASSUME NEW helpers \in Seq(Container), pod'.inits = helpers \o pod.inits
      PROVE  \E h \in {SubSeq(pod'.inits, 1, Len(pod'.inits) - Len(pod.inits))} :
               pod'.inits = h \o pod.inits
  <2>1. Len(helpers \o pod.inits) - Len(pod.inits) = Len(helpers)
    BY <1>1, ConcatList
  <2>2. SubSeq(helpers \o pod.inits, 1, Len(helpers)) = helpers
    BY <1>1, ConcatExtends DEF Extends
  <2>. QED
    BY <1>3, <2>1, <2>2, Zenon
<1>4. pod'.inits = pod.inits =>
        \E h \in {SubSeq(pod'.inits, 1, Len(pod'.inits) - Len(pod.inits))} :
          pod'.inits = h \o pod.inits
  <2>1. <<>> \in Seq(Container) /\ <<>> \o pod.inits = pod.inits
    BY <1>1, EmptyList, ConcatEmpty
  <2>. QED
    BY <1>3, <2>1, Zenon
<1>5. CASE ApplyPlan
  <2>0. PICK plan, targets :
          /\ plan \in Plan /\ targets = resolveTargets(pod, plan)
          /\ pod' \in Pod /\ SameSelection(pod', pod) /\ pod'.inits = pod.inits
          /\ pod'.volumes = addVolumes(pod.volumes, plan)
          /\ pod'.containers = injectIntoContainers(pod, plan, targets)
          /\ pod'.annotations = setAnnotation(pod.annotations, PlanAnnotations(plan))
          /\ pod'.labels = setAnnotation(pod.labels, {PlanLabel(plan)})
    BY <1>5, ApplyPlanAdds, Zenon
  <2>1. Extends(pod.volumes, pod'.volumes)
    BY <1>1, <2>0, AddVolumesGrow, Zenon
  <2>2. pod'.containers \in Seq(Container) /\ DOMAIN pod'.containers = DOMAIN pod.containers
    BY <2>0, Zenon DEF Pod, SameSelection
  <2>3. Len(pod.containers) <= Len(pod'.containers)
    BY <1>1, <2>2
  <2>4. \A i \in DOMAIN pod.containers :
          /\ pod'.containers[i].name = pod.containers[i].name
          /\ Extends(pod.containers[i].mounts, pod'.containers[i].mounts)
          /\ pod.containers[i].env \subseteq pod'.containers[i].env
    BY <1>1, <2>0, InjectGrows, Zenon
  <2>. QED
    BY <1>4, <2>0, <2>1, <2>3, <2>4, Zenon DEF PodGrows
<1>6. CASE Finish
  <2>1. /\ pod'.inits = newInits \o pod.inits
        /\ pod'.volumes = pod.volumes /\ pod'.containers = pod.containers
    <3>1. applied # <<>>
      BY <1>6, FinishAdds
    <3>. QED
      BY <1>6, <3>1, FinishAdds
  <2>2. \E h \in {SubSeq(pod'.inits, 1, Len(pod'.inits) - Len(pod.inits))} :
          pod'.inits = h \o pod.inits
    BY <1>1, <1>3, <2>1, Zenon
  <2>. QED
    BY <1>2, <2>1, <2>2, Zenon DEF PodGrows
<1>7. CASE Reinvoke
  <2>1. PICK c \in Container :
          /\ pod'.containers = Append(pod.containers, c)
          /\ pod'.inits = pod.inits /\ pod'.volumes = pod.volumes
    BY <1>7, ReinvokeAdds
  <2>2. Len(pod.containers) <= Len(pod'.containers)
        /\ \A i \in DOMAIN pod.containers : pod'.containers[i] = pod.containers[i]
    BY <1>1, <2>1
  <2>. QED
    BY <1>2, <1>4, <2>1, <2>2 DEF PodGrows
<1>. QED
  BY <1>5, <1>6, <1>7, Zenon DEF Next, AlreadyInjected, BeginLoop, SkipOverBudget,
     SkipNoTarget, SkipCollision, Skip

-----------------------------------------------------------------------------
(* The pieces of one injection.                                            *)

(* Safe inputs name no container twice, so a target is visited once.       *)
LEMMA TargetsDistinct ==
  ASSUME NEW plan \in Plan, SafePlan(plan), NEW p \in Pod,
         UniqueNames(p.containers), Distinct(containersFromAnnotation(p))
  PROVE  Distinct(resolveTargets(p, plan))
<1>1. Distinct(Requested(p, plan))
  BY DEF Requested, SafePlan
<1>2. CASE DOMAIN Requested(p, plan) = {}
  <2>1. resolveTargets(p, plan) = [i \in DOMAIN p.containers |-> p.containers[i].name]
    BY <1>2 DEF resolveTargets
  <2>. QED
    BY <2>1 DEF Distinct, UniqueNames
<1>3. CASE DOMAIN Requested(p, plan) # {}
  <2>. DEFINE found == {k \in DOMAIN Requested(p, plan) :
                          hasContainerNamed(p.containers, Requested(p, plan)[k])}
  <2>1. resolveTargets(p, plan) = [k \in found |-> Requested(p, plan)[k]]
    BY <1>3 DEF resolveTargets, Restrict
  <2>. QED
    BY <1>1, <2>1 DEF Distinct
<1>. QED
  BY <1>2, <1>3

(* A single repetition of a list is the list.                              *)
LEMMA RepeatOnce ==
  ASSUME NEW S, NEW s \in Seq(S), Len(s) > 0
  PROVE  Repeat(s, 1) = s
<1>1. 1 * Len(s) = Len(s) /\ Len(s) \in Nat
  OBVIOUS
<1>2. \A k \in 1..Len(s) : ((k - 1) % Len(s)) + 1 = k
  OBVIOUS
<1>3. Repeat(s, 1) = [k \in 1..Len(s) |-> s[k]]
  BY <1>1, <1>2 DEF Repeat
<1>. QED
  BY <1>3

(* The mounts a target receives have the plan's paths, each once, and are  *)
(* backed by the plan's two volumes.                                       *)
LEMMA ContainerMountsSafe ==
  ASSUME NEW plan \in Plan, SafePlan(plan)
  PROVE  /\ UniquePaths(ContainerMounts(plan))
         /\ \A m \in DOMAIN ContainerMounts(plan) :
              /\ ContainerMounts(plan)[m].path \in mountPaths(plan)
              /\ ContainerMounts(plan)[m].volume \in
                   {plan.tokenVolume, configVolumeName(plan.name)}
<1>. DEFINE cm == ContainerMounts(plan)
            paths == <<plan.mountPath>> \o [f \in DOMAIN plan.files |-> plan.files[f].path]
            n == Len(plan.files)
<1>1. plan.files \in Seq(File) /\ n \in Nat /\ DOMAIN plan.files = 1..n
      /\ plan.mountPath \in Path
  BY DEF Plan
<1>2. /\ DOMAIN cm = 1..(n + 1)
      /\ cm[1].path = plan.mountPath /\ cm[1].volume = plan.tokenVolume
      /\ \A m \in 2..(n + 1) : /\ cm[m].path = plan.files[m - 1].path
                               /\ cm[m].volume = configVolumeName(plan.name)
  <2>. DEFINE t == <<[path |-> plan.mountPath, volume |-> plan.tokenVolume,
                      subPath |-> 0, readOnly |-> TRUE]>>
              fs == [i \in DOMAIN plan.files |->
                       [path |-> plan.files[i].path,
                        volume |-> configVolumeName(plan.name),
                        subPath |-> i + 1, readOnly |-> TRUE]]
  <2>1. /\ t[1].path = plan.mountPath /\ t[1].volume = plan.tokenVolume
        /\ \A i \in 1..n : /\ fs[i].path = plan.files[i].path
                           /\ fs[i].volume = configVolumeName(plan.name)
    BY <1>1
  <2>2. t \in Seq({t[1]}) /\ Len(t) = 1
    OBVIOUS
  <2>3. fs \in Seq(Range(fs)) /\ Len(fs) = n
    <3>1. fs = [i \in DOMAIN plan.files |-> fs[i]] /\ DOMAIN fs = DOMAIN plan.files
      OBVIOUS
    <3>. HIDE DEF fs, n
    <3>2. \A i \in DOMAIN plan.files : fs[i] \in Range(fs)
      BY <3>1 DEF Range
    <3>. QED
      BY <1>1, <3>1, <3>2, SeqByPosition DEF n
  <2>. HIDE DEF t, fs, n
  <2>. DEFINE U == {t[1]} \cup Range(fs)
  <2>4. t \in Seq(U) /\ fs \in Seq(U)
    BY <2>2, <2>3, ListWidened
  <2>. HIDE DEF U
  <2>5. /\ Len(t \o fs) = n + 1 /\ t \o fs \in Seq(U)
        /\ \A i \in 1..(n + 1) : (t \o fs)[i] = IF i <= 1 THEN t[i] ELSE fs[i - 1]
    <3>1. /\ Len(t \o fs) = Len(t) + Len(fs) /\ t \o fs \in Seq(U)
          /\ \A i \in 1..(Len(t) + Len(fs)) :
               (t \o fs)[i] = IF i <= Len(t) THEN t[i] ELSE fs[i - Len(t)]
      BY <2>4, ConcatList
    <3>. QED
      BY <1>1, <2>2, <2>3, <3>1
  <2>6. cm = t \o fs
    BY DEF ContainerMounts, t, fs
  <2>. HIDE DEF cm
  <2>7. DOMAIN cm = 1..(n + 1)
    BY <2>5, <2>6
  <2>8. cm[1] = t[1] /\ \A m \in 2..(n + 1) : cm[m] = fs[m - 1] /\ m - 1 \in 1..n
    BY <1>1, <2>5, <2>6
  <2>. QED
    BY <2>1, <2>7, <2>8
<1>3. /\ DOMAIN paths = 1..(n + 1) /\ paths[1] = plan.mountPath
      /\ \A m \in 2..(n + 1) : paths[m] = plan.files[m - 1].path
  <2>. DEFINE fs == [f \in DOMAIN plan.files |-> plan.files[f].path]
  <2>1. \A f \in DOMAIN plan.files : plan.files[f] \in File
    BY <1>1
  <2>2. fs = [f \in DOMAIN plan.files |-> fs[f]] /\ \A f \in DOMAIN plan.files : fs[f] \in Path
    BY <2>1 DEF File
  <2>3. <<plan.mountPath>> \in Seq(Path) /\ Len(<<plan.mountPath>>) = 1
    BY <1>1
  <2>4. \A i \in 1..n : fs[i] = plan.files[i].path
    BY <1>1
  <2>. HIDE DEF fs, n
  <2>5. fs \in Seq(Path) /\ Len(fs) = n
    BY <1>1, <2>2, SeqByPosition DEF n
  <2>6. /\ <<plan.mountPath>> \o fs \in Seq(Path) /\ Len(<<plan.mountPath>> \o fs) = n + 1
        /\ \A i \in 1..(n + 1) : (<<plan.mountPath>> \o fs)[i] =
             IF i <= 1 THEN plan.mountPath ELSE fs[i - 1]
    BY <1>1, <2>3, <2>5, ConcatList
  <2>7. paths = <<plan.mountPath>> \o fs
    BY DEF fs
  <2>. HIDE DEF paths
  <2>. QED
    BY <1>1, <2>4, <2>6, <2>7
<1>4. \A i, j \in DOMAIN paths : i # j => paths[i] # paths[j]
  BY Zenon DEF SafePlan, Distinct
<1>5. \A m \in DOMAIN cm : cm[m].path = paths[m] /\ m \in DOMAIN paths
  <2>. HIDE DEF cm, paths, n
  <2>. QED
    BY <1>1, <1>2, <1>3
<1>6. \A m \in DOMAIN cm : cm[m].path \in mountPaths(plan)
  <2>1. \A m \in 2..(n + 1) : m - 1 \in DOMAIN plan.files
    BY <1>1
  <2>. HIDE DEF cm, paths, n
  <2>. QED
    BY <1>1, <1>2, <2>1 DEF mountPaths, Range
<1>7. \A m \in DOMAIN cm : cm[m].volume \in {plan.tokenVolume, configVolumeName(plan.name)}
  <2>. HIDE DEF cm, paths, n
  <2>. QED
    BY <1>1, <1>2
<1>. HIDE DEF cm, paths, n
<1>8. UniquePaths(cm)
  BY <1>4, <1>5 DEF UniquePaths
<1>. QED
  BY <1>6, <1>7, <1>8 DEF cm

(* Injecting into containers that mount none of the plan's paths keeps     *)
(* their names and their mounts valid.                                     *)
LEMMA InjectSafe ==
  ASSUME Counting, NEW plan \in Plan, SafePlan(plan), NEW p \in Pod,
         NEW targets, targets = resolveTargets(p, plan), Distinct(targets),
         \A i \in Targeted(p, targets), path \in mountPaths(plan) :
           ~hasMountPath(p.containers[i], path),
         NEW volumes,
         \A name : hasVolume(p.volumes, name) => hasVolume(volumes, name),
         hasVolume(volumes, plan.tokenVolume),
         hasVolume(volumes, configVolumeName(plan.name)),
         MountsValid(p.containers, p.volumes)
  PROVE  /\ DOMAIN injectIntoContainers(p, plan, targets) = DOMAIN p.containers
         /\ \A i \in DOMAIN p.containers :
              injectIntoContainers(p, plan, targets)[i].name = p.containers[i].name
         /\ MountsValid(injectIntoContainers(p, plan, targets), volumes)
<1>0. PICK new, cm : new = injectIntoContainers(p, plan, targets) /\ cm = ContainerMounts(plan)
  OBVIOUS
<1>1. p.containers \in Seq(Container)
  BY DEF Pod
<1>2. DOMAIN new = DOMAIN p.containers
  BY <1>0, Zenon DEF injectIntoContainers
<1>3. ASSUME NEW i \in DOMAIN p.containers
      PROVE  /\ new[i].name = p.containers[i].name
             /\ UniquePaths(new[i].mounts)
             /\ \A m \in DOMAIN new[i].mounts : hasVolume(volumes, new[i].mounts[m].volume)
  <2>0. PICK c : c = p.containers[i]
    OBVIOUS
  <2>1. c \in Container
    BY <1>1, <2>0
  <2>2. c.mounts \in Seq(Mount)
    BY <2>1 DEF Container
  <2>3. /\ UniquePaths(c.mounts)
        /\ \A m \in DOMAIN c.mounts : hasVolume(p.volumes, c.mounts[m].volume)
    BY <2>0, Zenon DEF MountsValid
  <2>4. CASE i \notin Targeted(p, targets)
    <3>1. new[i] = c
      BY <1>0, <2>0, <2>4, Zenon DEF injectIntoContainers
    <3>. QED
      BY <2>0, <2>3, <3>1, Zenon
  <2>5. CASE i \in Targeted(p, targets)
    <3>1. cm \in Seq(Mount) /\ Len(cm) > 0
      BY <1>0, ContainerMountsType
    <3>2. Repeat(cm, Visits(targets, c.name)) = cm
      <4>1. Visits(targets, c.name) = 1
        BY <2>0, <2>5, TargetsType DEF Targeted
      <4>. QED
        BY <3>1, <4>1, RepeatOnce
    <3>3. new[i] = [c EXCEPT !.mounts = c.mounts \o Repeat(cm, Visits(targets, c.name)),
                             !.env = c.env \cup MissingEnv(c, plan)]
      BY <1>0, <2>0, <2>5, Zenon DEF injectIntoContainers
    <3>4. new[i].name = c.name /\ new[i].mounts = c.mounts \o cm
      BY <2>1, <3>2, <3>3 DEF Container
    <3>5. /\ UniquePaths(cm)
          /\ \A k \in DOMAIN cm : cm[k].path \in mountPaths(plan) /\ hasVolume(volumes, cm[k].volume)
      BY <1>0, ContainerMountsSafe, Zenon
    <3>6. \A m \in DOMAIN c.mounts, k \in DOMAIN cm : c.mounts[m].path # cm[k].path
      <4>1. \A path \in mountPaths(plan) : ~hasMountPath(c, path)
        BY <2>0, <2>5, Zenon
      <4>. QED
        BY <3>5, <4>1, Zenon DEF hasMountPath
    <3>7. UniquePaths(c.mounts \o cm)
      BY <2>2, <2>3, <3>1, <3>5, <3>6, UniquePathsConcat, ZenonT(30)
    <3>8. \A m \in DOMAIN (c.mounts \o cm) : hasVolume(volumes, (c.mounts \o cm)[m].volume)
      <4>1. \A m \in DOMAIN c.mounts : hasVolume(volumes, c.mounts[m].volume)
        BY <2>3, ZenonT(30)
      <4>. QED
        BY <2>2, <3>1, <3>5, <4>1, BackedConcat, ZenonT(30)
    <3>. QED
      BY <2>0, <3>4, <3>7, <3>8, Zenon
  <2>. QED
    BY <2>4, <2>5, Zenon
<1>4. MountsValid(new, volumes)
  BY <1>2, <1>3, Zenon DEF MountsValid
<1>. QED
  BY <1>0, <1>2, <1>3, <1>4, Zenon

=============================================================================
