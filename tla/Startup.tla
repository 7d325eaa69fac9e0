------------------------------ MODULE Startup ------------------------------
(***************************************************************************)
(* cmd/main.go and internal/config: from the environment and the arguments *)
(* to the options that the webhook's handler gets, or to an exit.          *)
(*                                                                         *)
(* A name of a namespace is the tuple of its parts, as in Selection.  An   *)
(* element of a comma-separated list is such a name, with or without white *)
(* space around it.                                                        *)
(***************************************************************************)
EXTENDS Selection

CONSTANTS
  Environments,  \* values of the three variables, "" and <<>> when unset
  FlagValues,    \* the texts that each flag may be given
  AbsolutePaths, \* the texts that path.IsAbs accepts
  WithSlash,     \* the texts that contain a slash
  Malformed,     \* a number that strconv refuses
  Namespaces,    \* names of namespaces
  MaxArgs        \* bound: flags on the command line

Lists == {"excludedNamespaces", "excludedNamespacePrefixes"}
Texts == {"spiffeHelperImage", "spiffeHelperImagePullPolicy", "spiffeCSIDriver",
          "spiffeSocketMountPath", "spiffeSocketFile"}
Flags == Lists \cup Texts \cup {"ztwimNamespace", "maxRenderedBytes"}

Elements == [padded : BOOLEAN, name : Seq(STRING)]

ASSUME InputsTyped ==
  /\ DOMAIN FlagValues = Flags
  /\ \A f \in Lists : \A raw \in FlagValues[f] : \A i \in DOMAIN raw : raw[i] \in Elements
  /\ \A raw \in FlagValues["maxRenderedBytes"] \ {Malformed} : raw \in Int
  /\ Namespaces \subseteq Seq(STRING)
  /\ MaxArgs \in Nat

(* path.IsAbs refuses the empty path.                                      *)
ASSUME EmptyIsRelative == "" \notin AbsolutePaths

(* The provers know literals, but not that they are strings.               *)
ASSUME LiteralTyped == "kube-" \in STRING

VARIABLES
  pc,       \* how far main has come
  env,      \* the environment
  args,     \* the flags that have been parsed
  opts,     \* Options
  handlers, \* the options of the registered Handler, if there is one
  certs     \* the certificate paths that are given

startupVars == <<pc, env, args, opts, handlers, certs>>

-----------------------------------------------------------------------------
(* options.go                                                              *)

Defaults ==
  [spiffeHelperImage |-> "ghcr.io/spiffe/spiffe-helper:0.10.0",
   spiffeHelperImagePullPolicy |-> "IfNotPresent",
   spiffeCSIDriver |-> "csi.spiffe.io",
   spiffeSocketMountPath |-> "/spiffe-workload-api",
   spiffeSocketFile |-> "spire-agent.sock",
   excludedNamespaces |-> {},
   excludedNamespacePrefixes |-> {<<"kube-">>},
   ztwimNamespace |-> <<"zero-trust-workload-identity-manager">>,
   operatorNamespace |-> <<>>,
   maxRenderedBytes |-> 64 * 1024]

MutRelatedFirst(o) ==
  [o EXCEPT
     !.spiffeHelperImage = IF env.relatedImage # "" THEN env.relatedImage
                           ELSE IF env.helperImage # "" THEN env.helperImage ELSE @,
     !.operatorNamespace = IF env.podNamespace # <<>> THEN env.podNamespace ELSE @]

ApplyEnv(o) ==
  [o EXCEPT
     !.spiffeHelperImage = IF env.helperImage # "" THEN env.helperImage
                           ELSE IF env.relatedImage # "" THEN env.relatedImage ELSE @,
     !.operatorNamespace = IF env.podNamespace # <<>> THEN env.podNamespace ELSE @]

MutBlanksKept(raw) == {raw[i].name : i \in DOMAIN raw}

(* stringSliceValue.Set: trimmed, without the empty elements.              *)
SplitList(raw) == {raw[i].name : i \in DOMAIN raw} \ {<<>>}

(* flag.Value.Set of the flags that BindFlags registers.                   *)
FlagValue(f, raw) == IF f \in Lists THEN SplitList(raw) ELSE raw

MutPathUnchecked(o) ==
  /\ o.spiffeHelperImage # ""
  /\ o.spiffeHelperImagePullPolicy \in {"Always", "IfNotPresent", "Never"}
  /\ o.spiffeCSIDriver # ""
  /\ o.spiffeSocketFile # "" /\ o.spiffeSocketFile \notin WithSlash
  /\ o.maxRenderedBytes >= 0

Validate(o) ==
  /\ o.spiffeHelperImage # ""
  /\ o.spiffeHelperImagePullPolicy \in {"Always", "IfNotPresent", "Never"}
  /\ o.spiffeCSIDriver # ""
  /\ o.spiffeSocketMountPath \in AbsolutePaths
  /\ o.spiffeSocketFile # "" /\ o.spiffeSocketFile \notin WithSlash
  /\ o.maxRenderedBytes > 0

MutOnlyListed(o) == o.excludedNamespaces

ExcludedNamespaceNames(o) ==
  (o.excludedNamespaces \cup {o.operatorNamespace, o.ztwimNamespace}) \ {<<>>}

-----------------------------------------------------------------------------
(* main                                                                    *)

StartupInit ==
  /\ pc = "start"
  /\ env \in Environments
  /\ certs \in SUBSET {"webhook", "metrics"}
  /\ args = <<>>
  /\ opts = Defaults
  /\ handlers = {}

ReadEnvironment ==
  /\ pc = "start"
  /\ pc' = "parse"
  /\ opts' = ApplyEnv(opts)
  /\ UNCHANGED <<env, args, handlers, certs>>

(* flag.Parse, one flag after the other; the package exits on an error.    *)
ParseFlag(f, raw) ==
  /\ pc = "parse" /\ Len(args) < MaxArgs
  /\ IF raw = Malformed
     THEN pc' = "exited" /\ UNCHANGED <<args, opts>>
     ELSE /\ args' = Append(args, [flag |-> f, raw |-> raw])
          /\ opts' = [opts EXCEPT ![f] = FlagValue(f, raw)]
          /\ pc' = pc
  /\ UNCHANGED <<env, handlers, certs>>

ValidateOptions ==
  /\ pc = "parse"
  /\ pc' = IF Validate(opts) THEN "webhookCertWatcher" ELSE "exited"
  /\ UNCHANGED <<env, args, opts, handlers, certs>>

(* The steps that follow; each of them may fail.                           *)
After ==
  [webhookCertWatcher |-> "metricsCertWatcher",
   metricsCertWatcher |-> "newManager",
   newManager |-> "oidcShimController",
   oidcShimController |-> "clusterOIDCShimController",
   clusterOIDCShimController |-> "podWebhook",
   podWebhook |-> "addMetricsCertWatcher",
   addMetricsCertWatcher |-> "addWebhookCertWatcher",
   addWebhookCertWatcher |-> "healthz",
   healthz |-> "readyz",
   readyz |-> "running"]

(* A certificate watcher is made and added only for a path that is given.  *)
SkippedSteps ==
  {p \in {"webhookCertWatcher", "addWebhookCertWatcher"} : "webhook" \notin certs}
    \cup {p \in {"metricsCertWatcher", "addMetricsCertWatcher"} : "metrics" \notin certs}

SetUp ==
  /\ pc \in DOMAIN After
  /\ pc' = After[pc]
  /\ handlers' = IF pc = "podWebhook" THEN {opts} ELSE handlers
  /\ UNCHANGED <<env, args, opts, certs>>

SetUpFails ==
  /\ pc \in DOMAIN After \ SkippedSteps
  /\ pc' = "exited"
  /\ UNCHANGED <<env, args, opts, handlers, certs>>

(* mgr.Start returns: on a signal, or with an error.                       *)
Stop ==
  /\ pc = "running"
  /\ pc' = "exited"
  /\ UNCHANGED <<env, args, opts, handlers, certs>>

StartupNext ==
  \/ ReadEnvironment \/ ValidateOptions \/ SetUp \/ SetUpFails \/ Stop
  \/ \E f \in Flags : \E raw \in FlagValues[f] : ParseFlag(f, raw)

StartupSpec == StartupInit /\ [][StartupNext]_startupVars

-----------------------------------------------------------------------------
(* Properties.                                                             *)

(* The type invariant: lists hold names, and the options of a handler are  *)
(* ones that BuildPlan can use as the defaults of every shim.              *)
StartupTypeOK ==
  /\ pc \in DOMAIN After \cup {"start", "parse", "running", "exited"}
  /\ env \in Environments
  /\ Len(args) \in 0..MaxArgs
  /\ DOMAIN opts = Flags \cup {"operatorNamespace"}
  /\ \A f \in Lists : opts[f] \subseteq Seq(STRING)
  /\ handlers \subseteq {opts}
  /\ \A o \in handlers :
       /\ "" \notin {o[f] : f \in Texts}
       /\ o.spiffeHelperImagePullPolicy \in {"Always", "IfNotPresent", "Never"}
       /\ o.spiffeSocketMountPath \in AbsolutePaths
       /\ o.spiffeSocketFile \notin WithSlash
       /\ o.maxRenderedBytes \in Nat \ {0}
  /\ pc = "running" => handlers # {}

(* Every option that the handler works with is what its last flag says;    *)
(* without a flag it is the environment's, the helper image from           *)
(* SPIFFE_HELPER_IMAGE before RELATED_IMAGE_SPIFFE_HELPER; without either  *)
(* it is the default.                                                      *)
FlagThenEnvThenDefault ==
  \A o \in handlers, f \in Flags :
    LET given == {i \in DOMAIN args : args[i].flag = f}
        images == <<env.helperImage, env.relatedImage, Defaults.spiffeHelperImage>>
    IN  \/ \E i \in given : /\ \A j \in given : j <= i
                            /\ o[f] = FlagValue(f, args[i].raw)
        \/ given = {} /\ f # "spiffeHelperImage" /\ o[f] = Defaults[f]
        \/ /\ given = {} /\ f = "spiffeHelperImage"
           /\ \E i \in 1..3 : /\ images[i] # "" /\ o[f] = images[i]
                              /\ \A j \in 1..(i - 1) : images[j] = ""

(* The operator's own namespace and that of the workload identity manager  *)
(* are left alone whatever the lists on the command line say: the second   *)
(* line of defence behind the namespaceSelector.                           *)
OwnNamespaceExcluded ==
  \A o \in handlers : \A n \in {env.podNamespace, o.ztwimNamespace} \ {<<>>} :
    Excluded(ExcludedNamespaceNames(o), o.excludedNamespacePrefixes, n)

(* A namespace is excluded only by a name or a prefix that is written out  *)
(* somewhere: a stray comma or a blank value, whose empty prefix would     *)
(* match every name, excludes nothing.                                     *)
ExcludedOnlyAsNamed ==
  \A o \in handlers, n \in Namespaces :
    Excluded(ExcludedNamespaceNames(o), o.excludedNamespacePrefixes, n) =>
      \/ n \in {env.podNamespace, o.ztwimNamespace}
      \/ HasPrefix(n, <<"kube-">>)
      \/ \E i \in DOMAIN args :
           /\ args[i].flag \in Lists
           /\ \E e \in DOMAIN args[i].raw :
                args[i].raw[e].name # <<>> /\ HasPrefix(n, args[i].raw[e].name)

=============================================================================
