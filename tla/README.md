# A TLA+ verification of ztwim-oidc-shims

`ztwim-oidc-shims` is a Kubernetes operator. Users declare *shims* (`OIDCShim`
in a namespace, `ClusterOIDCShim` for the cluster); a mutating webhook injects
the helpers, token volume, files and env vars of every matching shim into each
new pod, and a controller reports on each shim whether its spec is valid and how
many pods carry it.

The modules here are translated from the Go code. TLC checks them on small
instances; TLAPS proves the main results for every value of the constants.

## The system

| part | source | state and operations |
|---|---|---|
| pod mutation | `internal/injection/mutate.go`, `collisions.go` | `Apply` runs a list of plans over one pod: budget, targets, collisions, then volumes, mounts, env vars, annotations, label; helpers are queued and prepended at the end |
| plan building | `internal/injection/plan.go` | `ResolveToken`, `BuildPlan`: defaults, overrides, templates, file rules, size limit |
| admission webhook | `internal/webhook/pod/handler.go`, `setup.go` | `Handle`: early returns, cached reads of Namespace, ServiceAccount and shims, ConfigMap reads, plans, `Apply`, answer; warm-up and readiness |
| selection | `internal/selection` | enrolment, selectors, opt-out, excluded namespaces |
| parameters and templates | `internal/params` | precedence of sources, defaults, required parameters, known keys |
| helper configuration | `internal/spiffehelper` | renders one file; fails on empty fields and bad modes |
| status reconcilers | `internal/controller` | `reconcileShim`: validate, count pods, update status, requeue |
| API types | `api/v1alpha1` | spec, status, keys of annotations and labels |
| options, process | `internal/config`, `cmd/main.go` | environment, flags, validation, set-up in order, leader election, exit |
| deployment | `config/manager` | two replicas behind one Service, rolling update, disruption budget |

How the parts interact:

* The API server calls the webhook of any ready replica for every pod, again
  after other webhooks changed the pod (`reinvocationPolicy: IfNeeded`), and
  refuses the pod if the webhook fails (`failurePolicy: Fail`).
* `Handle` hands the plans of all matching shims, namespaced ones first and each
  group by name, to one call of `Apply`. Shims meet only there: they share the
  pod's names, paths and annotation budget.
* The label that `Apply` writes is what `countMatchedPods` counts.
* Only the elected replica runs the reconcilers. It reads its own informer
  cache, while users and a deposed leader write to the API server.
* `validateShim` repeats the rules that `BuildPlan` enforces at admission.
* A replica is sent requests once its `Warmer` has synced the informers that `Handle`
  reads from. Until some replica is, no pod outside the operator's namespace can be created.

What is hard in it, and hardly reached by tests: combinations of shims on one
pod, each checked against what the earlier ones added; reinvocation; budgets shared by shims; reconciles that work on a stale
shim; two leaders; a delete and a create seen as one update; failing or
half-failing counts and updates; values that are empty, absent or hidden; two
copies of one set of rules; a request answered from caches that show different moments;
refusals and retries between calls; a rollout, a drain and a restart at once. `PROJECT.json` lists these hazards at their
lines.

## Modules

| module | what it is |
|---|---|
| `Injection` | `Apply` and everything below it, one action per way through an iteration of its loop |
| `MCInjection`, `MCInjectionEdge` | pods and shims for TLC |
| `InjectionLemmas`, `InjectionSteps`, `InjectionInvariants`, `InjectionProofs` | what its helpers compute, what its steps preserve, what holds while the loop runs, and the theorems about `Injection` |
| `Selection` | which pods a shim is for, and which the webhook leaves alone; used by `Planning`, `AdmissionRules` and `Startup` |
| `Planning` | one iteration of the webhook's `buildPlans`, and `validateShim` on the same shim |
| `MCPlanning` | shims and pods for TLC |
| `PlanningProofs` | theorems about `Planning` |
| `AdmissionRules` | the objects `Handle` reads, and what a pod should get from them |
| `AdmissionContract` | the abstract promise about created pods |
| `Admission` | `Handle` on replicas with lagging caches, and the API server that calls it |
| `MCAdmission` | objects and pods for TLC |
| `AdmissionProofs` | theorems about `Admission` |
| `Availability` | from a process that starts to an endpoint that answers, through rollouts and drains |
| `MCAvailability` | constants for TLC |
| `Startup` | `main` and the options, up to the registered handler |
| `MCStartup` | environments and flags for TLC |
| `OperatorProofs` | theorems about `Startup` and `Availability` |
| `ShimStatus` | a shim, its status and what `reconcileShim` computes |
| `StatusContract` | the abstract promise about a status |
| `Reconciler` | the replicas that keep the status of one shim |
| `MCReconciler` | constants for TLC |
| `ReconcilerProofs` | theorems about `Reconciler` |

Operators whose name starts with `Mut` are faulty variants of the definition
that follows them. Nothing uses them; replacing the definition by its variant
must make a property fail, which shows that the property depends on that code.

### Injection

State: the pod, the pod as this call received it, the plans, the loop index, the
local variables of `Apply` (`newInits`, `addedBytes`, `applied`, `warnings`), and
two counters for calls and injections.

* `AlreadyInjected`, `BeginLoop`: the early return on the status annotation.
* `SkipOverBudget`, `SkipNoTarget`, `SkipCollision`: the three `continue`s, in the
  code's order. Each is guarded by the failure of the ones before it.
* `ApplyPlan`: `addVolumes`, `injectIntoContainers`, `writePlanMetadata`, and the
  two helpers queued in `newInits`.
* `Finish`: helpers prepended, status annotations written, or nothing.
* `Reinvoke` (external): another webhook adds a container and the API server
  calls again, with any list of plans.

A name is a tuple of strings, so a derived name such as `oidcshim-init-gcp` is
`<<"oidcshim-init-", "gcp">>`, and a pod's author can write the same name. A path
is the tuple of its segments. File contents are reduced to the shim and index
they were rendered for and to their size. Lists of container names are functions
from positions, because a name listed twice is visited twice (`Visits`, `Repeat`).
Images, resources and security contexts decide nothing and are left out.
A sum of sizes is the number of the units they are made of (`Total`), which a proof can
split where a fold could not; TLC compares it with the fold of the library (`TotalIsSum`).
`ServerAccepts` is the part of the API server's pod validation that injection can
violate.

### Planning

From a shim and a pod to a plan. Iterations of `buildPlans` share nothing but the
list they append to, so one shim stands for all.

* `SelectorInvalid`, `NotMatched`, `Matched`: `selection.Matches`.
* `ResolveStatic`, `ResolveMetadata`, `ResolveConfigMap`, `ResolveTemplate` and their
  failures: `params.Resolve`, one step per parameter. A ConfigMap read may return a
  value, an empty one, nothing, or an error, each time anew.
* `RenderStrings`, `AddFile`, `RefuseFile`, `AllFiles`, `AudienceEmpty`, `TooLarge`,
  `Planned` and the failing templates: `BuildPlan` and `spiffehelper.Render`.
* `validateShim`, with `ParameterProblem`, `TemplateProblem`, `FileProblem`: the
  controller's rules, translated from its own code and not from the webhook's.

A text is the set of the origins of its parts, so the empty string is `{}` and
rendering is a union. That is enough to tell empty from absent and to follow a value
from an annotation through templates into a file. A template is a set of references,
each perhaps inside an `{{if}}`. A label selector is reduced to the labels it requires
and forbids. Lengths are not modelled: the size limit may strike any plan.

### Admission

Pods of one template are created, refused, retried and recreated while users change the
Namespace, the ServiceAccount, both kinds of shims and a ConfigMap. The API server is the
log of its contents, and each of the four informers of each replica shows one moment of it.

* `Change`, `CacheAdvances`, `Create`, `Delete`, `Call`, `Reinvoke`, `Persist` (external):
  users, watches and the API server, which calls any replica and may call again.
* `Allow`: the early returns for opted-out, injected and excluded pods.
* `ReadNamespace`, `ReadServiceAccount`, `ListOIDCShims`, `ListClusterOIDCShims`: the reads
  of `readTarget` and `listShims`, each a step. `ReadFails`: `admission.Errored`.
* `BuildPlan`, `GetConfigMapFails`: one shim of `buildPlans`, in the order of `listShims`.
  ConfigMaps are read from the API server and not from the cache.
* `ApplyPlan`, `Respond`: `Apply` and the answer.
* `Timeout`, `Restart`: a call that takes too long; a process that lists anew.

`Planning` and `Injection` are composed here by what they promise: a plan is a shim and the
value of its one parameter, it cannot be built without a value, and it is left out if a plan
before it has its name or its token path.

### Availability

State: for each operator pod its phase, synced informers, `Warmer.ready` and the kubelet's
condition; the Service's endpoints, the lease, the template's age, and one client.

* `Setup`, `StartCache`, `AcquireLease`, `GetInformer`, `StoreReady`, `Exit`: the process.
  The webhook's server listens before the caches start, as in `mgr.Start`; the `Warmer`
  does not wait for the lease.
* `Probe`, `UpdateEndpoints`, `CreatePod`, `Gone`, `Evict`, `Rollout`, `ScaleDown`
  (external): kubelet and controllers, with the numbers of `config/manager`. Budget and
  Deployment controller read the current conditions in one step; only the endpoints lag. So
  `EndpointNeverEmpty` says that the two rules do not take the last replica together; that
  the cluster's own counts may be stale is outside of it.
* `Send`, `Answer`, `Fail`, `Ask`: a creation, which fails if nothing listens or a cache is cold.

### Startup

`ReadEnvironment`, `ParseFlag`, `ValidateOptions`, then `SetUp` or `SetUpFails` for each step
of `main` in its order, and `Stop`. Certificate watchers are skipped without a path. A list
flag is a sequence of elements, which may be blank or padded. Its `StartupInit`, `StartupNext`,
`StartupSpec` and `StartupTypeOK` have names of their own because `OperatorProofs` extends
`Availability`, too.

### Reconciler

The API server is the log of the versions of one shim name; a resourceVersion is
a position in it and a replica's cache is the position it has reached. A replica
has a cache, a flag for the workqueue, a flag for a pending `RequeueAfter`, and one
worker (the controllers run one at a time per object).

* Users create, edit, relabel and delete the shim, and pods come and go
  (`MaxChanges`).
* `WatchEvent` moves a cache to the next version, or past several of them after a
  relist, and applies `GenerationChangedPredicate`.
* `StartReconcile`, `CountPods`/`CountFails`, `UpdateStatus`/`UpdateErrs` are
  `Reconcile`, cut where it waits for the API server. An update of any version but
  the stored one conflicts. An update that returns an error may have been stored.
* `Elect`, `LeaseExpires`, `Exit`, `Crash`: a deposed leader keeps working until its
  process exits, so two replicas may be active.

The seven parts of `validateShim` are booleans of a spec. Both kinds of shim share
this code, so one module stands for both controllers.

## Runs

| run | configuration | shows |
|---|---|---|
| `apply_plans` | `MCInjection.cfg` | all 64 lists from six shims on 15 pods, up to three calls with changing shims and added sidecars |
| `build_plan` | `MCPlanning.cfg` | 151 shims against 45 pods, from matching to plan |
| `admission` | `MCAdmission.cfg` | two replicas, pods of four kinds, two changes, one fault, safety and liveness |
| `availability` | `MCAvailability.cfg` | three pods, two disruptions, one of them perhaps an exit, safety and liveness |
| `startup` | `MCStartup.cfg` | 18 environments, up to two flags, a failure at any step |
| `status` | `MCReconciler.cfg` | two replicas, three changes, one fault, safety and liveness |
| `repeated_filter`, `token_over_own`, `file_under_token`, `bad_policy`, `odd_templates`, `trailing_slash` | see *Findings* | disagreements between code and what is said of it |

Properties of `Injection`:

* `NeverBreaksPod`: an acceptable pod stays acceptable.
* `AllOrNothing`: a shim is injected whole or leaves no trace.
* `OneRefresherPerToken`: what a container mounts at a token path is written by
  exactly one sidecar, that of the shim.
* `FilesReachContainers`: mount, volume item and annotation lead each file path to
  the right shim's rendering of the right file.
* `HelpersStartFirst`: the order of the init containers.
* `NothingLostSilently`: whatever is left out is warned about.
* `SkippedForCause`: the plans applied are exactly those that fit the pod as it came
  together with the plans applied before them. `Apply` asks the pod it is changing, its
  queued helpers and a running sum instead; the property says that this is the same.
* `AnnotationsWithinLimit`: many shims together respect the API server's limit,
  given headroom for keys and status entries (`HeadroomSuffices`, evaluated by TLC).
* `InjectedOnce`, `PodOnlyGrows`: reinvocation injects once, and no step removes or
  reorders anything.

Properties of `Planning`:

* `ReadySkippedOnlyForPod`: whatever is wrong with a spec alone, the controller reports.
* `RulesAgree`: both copies of the rules for files and selectors give one verdict.
* `PlanPathsDistinct`: what `Apply` relies on (`RenderedFile` in `plan.go` promises it).
* `MaskedStaysOut`: nothing of a hidden annotation or label gets into a plan.
* `RequiredHasValue`: no plan without the required parameters.
* `ResolvedOnce`: in a Ready shim a name never changes its value.

Properties of `Admission`:

* `CaughtUpIsExact`: a call on current caches gives the pod exactly what the stored objects
  call for.
* `NoSilentMiss`: a shim found to be for the pod is injected or warned about, over all calls.
* `NeverRetrofitted`: what one call injected no later call changes, on whatever replica.
* `ImplementsContract`: replicas, calls, retries and restarts behave like one decision
  (`AdmissionContract`) from each resource as it was at some moment.
* `RecreationHeals`: when changes and faults stop, recreating the pods that missed a shim
  leaves none that did.
* `RetriesSucceed`: a pod that is asked for is created, though calls fail closed.

Properties of `Availability`:

* `CalledWarm`: readiness keeps calls from replicas with cold caches.
* `EndpointNeverEmpty`: no order of rollouts and drains empties the endpoint.
* `CreationServed`: every creation is served, also after all replicas were gone.
* `RolloutEnds`: rollouts end with all replicas ready, leader or not.

The first two hold until a process ends by itself, which may be the last one that serves.

Properties of `Startup`:

* `FlagThenEnvThenDefault`: where each option of the handler comes from.
* `OwnNamespaceExcluded`: no list on the command line takes the operator's namespace or the
  manager's out of the exclusions.
* `ExcludedOnlyAsNamed`: a stray comma or blank element excludes nothing.

Properties of `Reconciler`:

* `ReadyIsCurrent`: a status that claims the current generation is the verdict on
  the current spec.
* `NeverForgotten`: a shim in the cache of an active replica is queued, being
  reconciled, or has a timer.
* `StatusNeverRegresses`: `observedGeneration` and a reported count are not taken
  back.
* `ImplementsContract`: the replicas refine `StatusContract`, where each status
  appears atomically as a verdict on the stored spec.
* `EventuallyConverged`: when users and faults stop, the status settles on the
  truth.

### Bounds

Six shims contain every pair that can meet on a pod: the same name in both kinds,
the same token volume, the same file path, different CSI drivers, and no conflict.
The 15 pods hold one possible conflict each, the container annotation in its forms,
and annotations near the budget. `MaxCalls = 3` lets a call follow one that
injected and one that did not. Three changes allow create, delete, create, which is
what a relist can merge; a fault is a lost lease, a crash or a failing call. The safety of
`Reconciler` is proved for all bounds. The shims of `MCPlanning` combine lists of up to three parameters (references
forward and backward, a reserved name, each source, each kind of default) with audiences
and files that use them; the pods have the keys in all combinations of absent, empty and
set on the three objects. The sizes in `MCInjection.cfg` are scaled down from 192 KiB and 256 KiB.

In `MCAdmission` the pod of the first kind meets two shims of one name, two with one token
path, one with a broken selector and one that reads a ConfigMap; two changes let the caches of
one replica show three moments; one fault lets a call fail between two others. The other three
kinds are the three early returns. In `MCAvailability` three pods are two replicas and the
surge; two disruptions are a drain or a lost process during a rollout, or one after
another. One informer stands for the four: the safety properties are proved for any number.
Those of `Admission` and `Startup` are proved for all constants too.
Two flags are the least that let one repeat or contradict another.

Deadlock is checked in `availability`. Elsewhere runs end by design: a call of the webhook, the
building of a plan and `main` end, a ServiceAccount may be gone for good, and the bounded users stop.

### Fairness

`FairSpec` assumes weak fairness of watches, queue, timers, count and update (all are
retried by controller-runtime), of the API server's watch cache, of the election, and
of the exit of a replica that lost its lease (`mgr.Start` returns and `main` exits).
Nothing is assumed of users, pods or faults.

In `Admission` the caches of some replica go on catching up as long as one is behind, and the
one thread of an admission goes on: client, API server, handler. That includes clients that
retry, and users who delete a pod that missed a shim, which the comment on `Handler.Reader`
asks of them. Faults, changes and reinvocation owe nothing. In `Availability` each process goes
on starting, and kubelet, controllers, lease, API server and client act; exits, evictions and
rollouts owe nothing.

## Proofs

Everything below is proved by TLAPS from the named assumptions on constants.

* `TypeCorrect`, `PlanningTypeCorrect`, `ReconcilerTypeCorrect`, `AvailabilityTypeCorrect`,
  `AdmissionTyped`, `HandlersAreUsable`: type invariants. They carry the facts the
  other proofs use, such as that `plans[at]` is a plan and that a worker's version
  is a version of an existing shim. `AdmissionTyped` follows from `Inv` (below) and
  `ShapeInv`, which has the bounds and the shape of an absent pod. `HandlersAreUsable` needs
  `ValidInv`: the options stay valid from `Validate` on, and the handler is registered
  before the steps that lead to `running`.
* `AtMostOneInjection`: `InjectedOnce` is not inductive; the invariant adds that
  after an injection the pod carries the status annotation or the call that wrote
  it has ended, so every later call returns early.
* `InjectionNeverBreaksPod`: for plans and pods that satisfy `SafeInputs`, the pod is
  acceptable in every state. The invariant `SafetyInv` holds in the loop as well:
  the pod is acceptable, the queued helpers have distinct names that occur neither
  on the pod nor among its app containers and mount only volumes of the pod, and the
  container filter has no repetition. `SafeInputs` is an explicit hypothesis: nothing in the code ensures it, and
  the first two findings are what happens without it.
* `PodNeverShrinks`: by cases of `Next`, from lemmas on what `addVolumes`,
  `injectIntoContainers` and the other helpers add.
* `HelpersPrecede`: the invariant `CallInv` says that in the loop `newInits` is the list of
  helpers of the plans applied so far, while the pod keeps the init containers it came with.
* `InjectedWhole`: `WholeInv` adds that each applied plan has its volumes, mounts, env vars,
  annotations and label in place, that later plans leave them there, and that volumes,
  annotations and labels are accounted for. It assumes `PodsHaveContainers`: the API server
  stores no pod without one, and a plan without a target would be skipped.
* `LossIsReported`: `LostInv` says that each plan behind the loop index is applied or has a
  warning, but not both, and that an applied plan has warned of each container and env var
  it left out. It assumes `KeysIdentify`: a plan's key is kind, namespace and name of its
  shim with slashes between them (`ShimKey` in `api/v1alpha1/shim.go`), so two plans never share
  one and no name equals one.
* `RefresherIsUnique`, `FilesArrive`: `OwnInv` says that no other applied plan and nothing the
  pod came with has an applied plan's token volume or one of its file annotations. With
  `WholeInv` the plan's own volume and annotation are there, and with `SafetyInv` a container
  has one mount per path, so the mount that was found is the plan's. `SafeInputs` is needed
  for that last part.
* `SelectionIsExact`: `HoldsInv` says exactly what the pod holds in the loop: the volumes,
  mounts and helper names it came with and those of the applied plans, nothing else. So a
  collision with the pod as it is splits into one with the pod as it came and one with an
  applied plan (`CollisionSplit`). `ChosenInv` says that the plans behind the loop index are
  applied exactly when they were not `Unfit`, and that `addedBytes` is the sum over them. It
  assumes `KeysIdentify`, since plans are told apart by their keys.
* `QueueHidesNoCollision`: `checkCollisions` is also given the helpers that wait in `newInits`.
  With or without them its answer is the same, since by `HoldsInv` the config volume of the plan
  that queued a helper is on the pod, and it is named after the same shim (`PendingRedundant`).
  That holds without any hypothesis, even for shims of different kinds that share a name.
* `AnnotationsFit`: `BudgetInv` bounds the bytes of the pod's annotations by those it came
  with, `addedBytes`, and a key for each entry of an applied plan. `OverBudget` keeps the
  first two within `MaxPodAnnotationBytes`; `HeadroomSuffices` says that the rest, with the
  status entries, fits above it. The code picks its numbers for that (192 of 256 KiB) but
  does not count the keys, so it is a hypothesis.
* `PathsDistinct`, `ControllerAndWebhookAgree`: the invariant `FilesInv` says that after
  n files `seenPaths` holds the token's path and exactly the paths of those n files, none
  of which breaks a rule of `validateFiles`. So the next file is refused exactly when
  `validateFiles` reports it.
* `InvalidPlannedIsUnchecked`: `RenderedInv` says that every template behind the current
  step has been rendered, so that the keys it reads outside of branches are there, and with
  `KeysInv` those are the keys that `validateShim` allows. With `RulesAgree` that leaves, for
  a shim that is injected though it is `InvalidSpec`, only what the webhook does not check:
  the length of its name, its pull policy (the run `bad_policy`), the names of its
  parameters, and branches of templates.
* `ReadyIsBuildable`, `NamesKeepTheirValues`: the invariant `KeysInv` says that the keys
  resolved before the i-th parameter are those that `params.Validate` lets it use.
  `ReadyIsBuildable` is `ReadySkippedOnlyForPod` for shims that are `Plain`, that is whose
  templates name keys only as `{{.key}}`; the run `odd_templates` shows the others.
* `HiddenStaysOut`: `MaskInv` says it of the resolved values, which templates read, and of
  every text rendered so far. A value that is looked up comes from the first object that has
  the key, and rendering only joins values.
* `RequiredIsGiven`: `RequiredInv` says that each required parameter before the current one
  has a value, and all of them once `Resolve` has ended. It assumes `ParametersIdentified`,
  since a second parameter of the name could replace the value: the CRD keeps the list as a
  map by name (`+listMapKey=name` in `common_types.go`).
* `ReadyTrusted`: with `observed <= gen`, because an edit must not make an old status
  current.
* `ShimNeverForgotten`, `StatusOnlyAdvances`, `ReconcilerImplementsContract`: every
  step appends at most one version to the log, and a status write succeeds only on
  the stored version, so it is a step of the contract.
* `OptionPrecedence`, `NeverInjectsIntoItself`, `BlanksExcludeNothing`: `SourcesInv` says that
  from the first parsed flag on every option is what its last flag gave, or else what the
  environment or the default did. `OptsInv` says that the operator's namespace comes from the
  environment alone and that no excluded name or prefix is empty or unwritten. `HandlersInv`
  says that the handler holds the options `main` ended with.
* `FreshCallsAreExact`, `MissesAreTold`, `InjectionIsFinal`, `AdmissionImplementsContract`: one
  invariant, `Inv`. What a call has read was stored at some moment of its own (`ReadInv`), and
  is what is stored while the call is `fresh` (`FreshInv`). `BuildInv` describes the loops of
  `buildPlans` and `Apply`: the shims done so far come before those to do, the plans wait in
  that order, and a plan that was decided on is applied exactly when no applied plan before it
  conflicts. When nothing waits any more, that is the rule of `IsExpected`. So the answer is
  justified by those moments (`Justified`), stays so as the log grows, and storing the pod is
  the contract's `Create`. `NamesUnique` is needed: with two objects of a kind under one name
  the order would leave the result open. All this holds for any sets of replicas, pods, objects
  and shims and any number of changes and faults.
* `NoColdCalls`, `EndpointStaysFilled`: the invariant `Undisturbed` says that, until a process
  ends by itself, whatever kubelet or endpoints call ready is ready or has been told to stop,
  and that some pod is ready once the endpoint is not empty. The second part is what the
  budget and the rolling update preserve: each takes a pod away only if another is available.

TLC evaluates the hypotheses `SafeInputs`, `PodsHaveContainers`, `KeysIdentify`,
`HeadroomSuffices` and `ParametersIdentified` on the inputs of `apply_plans` and
`build_plan`. `AnnotationsFinite` says that the annotations of a pod are finitely many. Two assumptions of
`Startup` are about strings: `EmptyIsRelative`, because `path.IsAbs` refuses the empty path,
and `LiteralTyped`, because the provers do not know that a literal is a string. `Counting` and
`Adding` are no assumptions: the modules below `InjectionProofs` take them as hypotheses, and
it proves them from the library on finite sets (`CountingHolds`, `AddingHolds`).

Model-checked only: the liveness properties (`RecreationHeals`, `RetriesSucceed`,
`CreationServed`, `RolloutEnds`, `EventuallyConverged`). They rest on fairness, which the
provers do not handle. Every other property of a passing run is a theorem
(`ReadySkippedOnlyForPod` for `Plain` shims). For four of the
findings below a theorem says what is left: its hypothesis takes the place of the check that
the code lacks (`SafeInputs`, `Plain`, and the four exceptions of `InvalidPlannedIsUnchecked`).
For `file_under_token` and `trailing_slash` such a hypothesis would be the rule itself, so
there is none.

## Findings

Each is a run in which TLC violates what a comment or the documentation says.

* `repeated_filter`: `oidcshim.kemo.dev/containers: "app,app"` mounts everything twice.
* `token_over_own`: `token.volumeName: spiffe-workload-api` adds that volume twice, and
  `token.mountPath: /etc/oidcshim` gives helpers two mounts at a path.
* `file_under_token`: a file of one shim below the token directory of another.
* `trailing_slash`: `token.mountPath: /run/token/` lets the shim's own file `/run/token/x`
  pass both copies of the rule. `Clean` resolves both paths as the runtime does, so the
  property speaks of every spelling, such as `/run/./token/x`; the code resolves none.
* `bad_policy`: a shim with an unknown `imagePullPolicy` is `InvalidSpec` and injected.
* `odd_templates`: `{{.tokenPath.x}}` or `{{$.unknown}}` is Ready and skipped everywhere.

The first two make the API server reject the pod, against "a broken shim must
never keep a pod from being created" (`handler.go`) and the uniqueness that `plan.go`
promises. The next two break the rule `plan.go` states for files and tokens. The last two
contradict the README on `READY=False` and the comment on `validateShim`.

## Not modelled, and the plan

`ShimStatus` over the rules of `Planning` in place of booleans would join the two models of the
controller. Of what `SafePlan` asks of a plan's paths, `PlanPathsDistinct` is the part that
`BuildPlan` ensures (the token's path and the files' paths differ); the rest nothing does.

No property is stated about a ConfigMap that changes between two reads of one request: each
parameter is read by itself and the code promises no snapshot.

Left out for good: requests that do not decode, the contents of certificates and the TLS and
metrics settings of `main` (I/O of libraries), generated deep copies, other manifests, and the
wording of messages and log lines.
