------------------------------ MODULE Planning ------------------------------
(***************************************************************************)
(* From a shim and a pod to a plan: one iteration of the webhook's         *)
(* buildPlans, with selection.Matches, params.Resolve and BuildPlan as its *)
(* steps, beside validateShim, the verdict that the controller reports on  *)
(* the same shim.                                                          *)
(*                                                                         *)
(* A text is the set of the origins of its characters: the empty string is *)
(* {} and rendering a template joins the texts it refers to.  A template   *)
(* is a set of references, each perhaps inside an {{if}}.  File modes are  *)
(* left out: the CRD's pattern admits only modes that both sides accept.   *)
(***************************************************************************)
EXTENDS Selection, FiniteSets

CONSTANTS
  Text,            \* names of keys, parameters and path segments
  Shims,           \* the shims that listShims may return
  Targets          \* the pods being admitted, each with its two objects

VARIABLES
  shim, target,
  stage,    \* "match", "resolve", "render", "files", "conf" or "done"
  at,       \* the parameter or the file that the loop visits next
  values,   \* the template values resolved so far
  audience, \* the rendered audience
  rendered, \* the rendered extra audiences and env values
  seen,     \* seenPaths of BuildPlan
  files,    \* the rendered files so far
  result,   \* "", "unmatched", "skipped" or "planned"
  reason    \* why the shim was skipped

vars == <<shim, target, stage, at, values, audience, rendered, seen, files,
          result, reason>>

-----------------------------------------------------------------------------
(* Objects.                                                                *)

Builtins == {"podNamespace", "serviceAccountName", "shimName", "tokenDir", "tokenPath"}

Precedence == <<"pod", "serviceAccount", "namespace">>

(* Where a character comes from: an object, a map of it and a key.         *)
Origin == Text \X Text \X Text
Value == SUBSET Origin

(* {{.key}} is a field, {{.key.x}} nested, {{$.key}} root; when is the key *)
(* of the {{if}} around it, or "".                                         *)
Ref == [form : {"field", "nested", "root"}, key : Text, when : Text]
Template == [parses : BOOLEAN, text : BOOLEAN, refs : SUBSET Ref]

(* default is "none", "blank" or "text"; blank is a static value of "".    *)
Parameter == [name : Text, required : BOOLEAN, default : {"none", "blank", "text"},
              source : {"static", "annotation", "label", "configMap", "template"},
              key : Text, blank : BOOLEAN, template : Template]

Path == Seq(Text)
File == [path : Path, content : Template]
Rendered == [path : Path, content : Value]

ResolveToken(s) ==
  IF s.mountPath = <<>>
  THEN <<"var", "run", "secrets", "oidcshim", s.name>> ELSE s.mountPath

(* A path below a directory: it has the directory's path and a "/" first.  *)
Beneath(path, dir) == Len(path) > Len(dir) /\ SubSeq(path, 1, Len(dir)) = dir

ASSUME TextHasLiterals ==
  Builtins \cup Kinds \cup
  {"", "var", "run", "secrets", "oidcshim", "template", "builtin", "default",
   "static", "annotation", "label", "configMap"} \subseteq Text

ASSUME ShimsTyped ==
  \A s \in Shims :
    /\ s.name \in Text /\ s.mountPath \in Path
    /\ s.parameters \in Seq(Parameter) /\ s.files \in Seq(File)
    /\ s.audience \in Template
    /\ s.extraAudiences \subseteq Template /\ s.env \subseteq Template

(* Parameters are a list that the API server keeps as a map by name.       *)
ParametersIdentified ==
  \A s \in Shims : \A i, j \in DOMAIN s.parameters :
    i # j => s.parameters[i].name # s.parameters[j].name

-----------------------------------------------------------------------------
(* internal/params                                                         *)

(* walkNode looks into branches but not at variables such as {{$.key}}.    *)
ReferencedKeys(t) ==
  {r.key : r \in {q \in t.refs : q.form # "root"}} \cup
  {r.when : r \in {q \in t.refs : q.when # ""}}

Executed(t, vals) ==
  {r \in t.refs : r.when = "" \/ (r.when \in DOMAIN vals /\ vals[r.when] # {})}

(* missingkey=error; a value is a string and has no fields.                *)
RenderFails(t, vals) ==
  \/ ~t.parses
  \/ \E r \in t.refs : r.when # "" /\ r.when \notin DOMAIN vals
  \/ \E r \in Executed(t, vals) : r.key \notin DOMAIN vals \/ r.form = "nested"

Render(t, vals) ==
  (IF t.text THEN {<<"template", "", "">>} ELSE {}) \cup
  UNION {vals[r.key] : r \in Executed(t, vals)}

(* The metadata that a parameter's source looks its key up in.             *)
Metadata(p, t, k) ==
  IF p.source = "annotation" THEN t[k].annotations ELSE t[k].labels

Holders(p, t) == {i \in 1..3 : p.key \in DOMAIN Metadata(p, t, Precedence[i])}

MutEmptyFallsThrough(p, t) ==
  {i \in Holders(p, t) : /\ Metadata(p, t, Precedence[i])[p.key] # "blank"
                         /\ \A j \in 1..(i - 1) : j \in Holders(p, t) =>
                              Metadata(p, t, Precedence[j])[p.key] = "blank"}

(* The first of the three objects that has the key, even with "".          *)
lookupMetadata(p, t) ==
  {i \in Holders(p, t) : \A j \in Holders(p, t) : i <= j}

LookedUp(p, t) ==
  {<<Precedence[i], p.source, p.key>> :
     i \in {j \in lookupMetadata(p, t) : Metadata(p, t, Precedence[j])[p.key] # "blank"}}

MutForwardReferences(params, i) == Builtins \cup {params[j].name : j \in DOMAIN params}

(* What the template of the i-th parameter may refer to.                   *)
Defined(params, i) == Builtins \cup {params[j].name : j \in 1..(i - 1)}

MutReservedAllowed(params, i) ==
  \/ \E j \in 1..(i - 1) : params[j].name = params[i].name
  \/ /\ params[i].source = "template"
     /\ \/ ~params[i].template.parses
        \/ ~(ReferencedKeys(params[i].template) \subseteq Defined(params, i))

(* params.Validate; the CRD's rule leaves each parameter one source.       *)
ParameterProblem(params, i) ==
  \/ \E j \in 1..(i - 1) : params[j].name = params[i].name
  \/ params[i].name \in Builtins
  \/ /\ params[i].source = "template"
     /\ \/ ~params[i].template.parses
        \/ ~(ReferencedKeys(params[i].template) \subseteq Defined(params, i))

-----------------------------------------------------------------------------
(* internal/controller: the verdict on a shim.                             *)

(* The templates of a shim other than those of its parameters.             *)
Templates(s) ==
  {s.audience} \cup s.extraAudiences \cup s.env \cup
  {s.files[i].content : i \in DOMAIN s.files}

TemplateProblem(s, t) ==
  \/ ~t.parses
  \/ ~(ReferencedKeys(t) \subseteq Defined(s.parameters, Len(s.parameters) + 1))

MutDuplicatesUnchecked(s, i) ==
  LET mount == ResolveToken(s)
  IN  s.files[i].path = mount \/ Beneath(s.files[i].path, mount)

(* validateFiles, for the i-th file.                                       *)
FileProblem(s, i) ==
  LET mount == ResolveToken(s)
  IN  \/ s.files[i].path = mount
      \/ \E j \in 1..(i - 1) : s.files[j].path = s.files[i].path
      \/ Beneath(s.files[i].path, mount)

PullPolicies == {"", "Always", "IfNotPresent", "Never"}

(* Without validateToken: what it refuses, an empty file name or a bad     *)
(* mode, the defaults and the CRD's pattern exclude.                       *)
validateShim(s) ==
  [name |-> ~s.longName,
   parameters |-> \A i \in DOMAIN s.parameters : ~ParameterProblem(s.parameters, i),
   selection |-> ~compileFails(s.selection),
   helper |-> s.pullPolicy \in PullPolicies,
   templates |-> \A t \in Templates(s) : ~TemplateProblem(s, t),
   files |-> \A i \in DOMAIN s.files : ~FileProblem(s, i)]

Ready(s) == \A check \in DOMAIN validateShim(s) : validateShim(s)[check]

-----------------------------------------------------------------------------
(* buildPlans: matching.                                                   *)

Init ==
  /\ shim \in Shims /\ target \in Targets
  /\ stage = "match" /\ at = 1
  /\ values = [k \in Builtins |-> {<<"builtin", "", k>>}]
  /\ audience = {} /\ rendered = {}
  /\ seen = {} /\ files = <<>>
  /\ result = "" /\ reason = ""

inputs == <<shim, target>>
output == <<audience, rendered, seen, files>>

Stop(outcome, why) ==
  /\ stage' = "done" /\ result' = outcome /\ reason' = why
  /\ UNCHANGED <<inputs, at, values, output>>

Continue(next) == stage' = next /\ UNCHANGED <<inputs, result, reason>>

(* An invalid selector is reported even for a pod that is enrolled.        *)
SelectorInvalid ==
  /\ stage = "match" /\ compileFails(shim.selection)
  /\ Stop("skipped", "selector")

NotMatched ==
  /\ stage = "match" /\ ~compileFails(shim.selection) /\ ~Matches(shim, target)
  /\ Stop("unmatched", "")

Matched ==
  /\ stage = "match" /\ ~compileFails(shim.selection) /\ Matches(shim, target)
  /\ Continue("resolve")
  /\ UNCHANGED <<at, values, output>>

-----------------------------------------------------------------------------
(* params.Resolve, one step per parameter.                                 *)

Bind(p, value) ==
  /\ values' = [k \in DOMAIN values \cup {p.name} |->
                  IF k = p.name THEN value ELSE values[k]]
  /\ at' = at + 1
  /\ Continue("resolve")
  /\ UNCHANGED output

MutRequiredIgnored(p, found, value) ==
  \/ found /\ Bind(p, value)
  \/ ~found /\ Bind(p, IF p.default = "text" THEN {<<"default", "", p.name>>} ELSE {})

(* A value that was found is used even when it is empty.                   *)
Settle(p, found, value) ==
  \/ found /\ Bind(p, value)
  \/ ~found /\ p.default = "text" /\ Bind(p, {<<"default", "", p.name>>})
  \/ ~found /\ p.default = "blank" /\ Bind(p, {})
  \/ ~found /\ p.default = "none" /\ p.required /\ Stop("skipped", "parameter")
  \/ ~found /\ p.default = "none" /\ ~p.required /\ Bind(p, {})

Resolving(source) ==
  /\ stage = "resolve" /\ at <= Len(shim.parameters)
  /\ shim.parameters[at].source \in source

ResolveStatic ==
  /\ Resolving({"static"})
  /\ LET p == shim.parameters[at]
     IN  Settle(p, TRUE, IF p.blank THEN {} ELSE {<<"static", "", p.name>>})

ResolveMetadata ==
  /\ Resolving({"annotation", "label"})
  /\ LET p == shim.parameters[at]
     IN  Settle(p, lookupMetadata(p, target) # {}, LookedUp(p, target))

(* ConfigMaps are read anew for each parameter and may change in between;  *)
(* a missing ConfigMap is a missing key.                                   *)
ResolveConfigMap ==
  /\ Resolving({"configMap"})
  /\ LET p == shim.parameters[at]
     IN  \/ Settle(p, TRUE, {<<"configMap", "", p.name>>})
         \/ Settle(p, TRUE, {})
         \/ Settle(p, FALSE, {})

ConfigMapFails == Resolving({"configMap"}) /\ Stop("skipped", "configMap")

(* An empty rendering counts as no value.                                  *)
ResolveTemplate ==
  /\ Resolving({"template"})
  /\ LET p == shim.parameters[at]
     IN  /\ ~RenderFails(p.template, values)
         /\ Settle(p, Render(p.template, values) # {}, Render(p.template, values))

ParameterTemplateFails ==
  /\ Resolving({"template"})
  /\ RenderFails(shim.parameters[at].template, values)
  /\ Stop("skipped", "template")

MutAtNotReset ==
  /\ stage = "resolve" /\ at > Len(shim.parameters)
  /\ Continue("render")
  /\ UNCHANGED <<at, values, output>>

Resolved ==
  /\ stage = "resolve" /\ at > Len(shim.parameters)
  /\ Continue("render")
  /\ at' = 1
  /\ UNCHANGED <<values, output>>

-----------------------------------------------------------------------------
(* BuildPlan.                                                              *)

Strings(s) == {s.audience} \cup s.extraAudiences \cup s.env

RenderStrings ==
  /\ stage = "render"
  /\ \A t \in Strings(shim) : ~RenderFails(t, values)
  /\ audience' = Render(shim.audience, values)
  /\ rendered' = {Render(t, values) : t \in shim.extraAudiences \cup shim.env}
  /\ seen' = {ResolveToken(shim)}
  /\ Continue("files")
  /\ UNCHANGED <<at, values, files>>

StringTemplateFails ==
  /\ stage = "render"
  /\ \E t \in Strings(shim) : RenderFails(t, values)
  /\ Stop("skipped", "template")

AtFile == stage = "files" /\ at <= Len(shim.files)

FileTemplateFails ==
  /\ AtFile /\ RenderFails(shim.files[at].content, values)
  /\ Stop("skipped", "template")

MutSeenNotChecked(path) == Beneath(path, ResolveToken(shim))

PathRefused(path) == path \in seen \/ Beneath(path, ResolveToken(shim))

RefuseFile ==
  /\ AtFile /\ ~RenderFails(shim.files[at].content, values)
  /\ PathRefused(shim.files[at].path)
  /\ Stop("skipped", "file")

AddFile ==
  /\ AtFile /\ ~RenderFails(shim.files[at].content, values)
  /\ ~PathRefused(shim.files[at].path)
  /\ seen' = seen \cup {shim.files[at].path}
  /\ files' = Append(files, [path |-> shim.files[at].path,
                             content |-> Render(shim.files[at].content, values)])
  /\ at' = at + 1
  /\ Continue("files")
  /\ UNCHANGED <<values, audience, rendered>>

AllFiles ==
  /\ stage = "files" /\ at > Len(shim.files)
  /\ Continue("conf")
  /\ UNCHANGED <<at, values, output>>

(* spiffehelper.Render: of what a shim that the CRD admits can leave empty *)
(* only the audience remains.                                              *)
AudienceEmpty ==
  /\ stage = "conf" /\ audience = {}
  /\ Stop("skipped", "audience")

(* Whether the contents pass MaxRenderedBytes, which the manager's options *)
(* keep positive, depends on lengths that the origins do not tell.         *)
TooLarge ==
  /\ stage = "conf" /\ audience # {}
  /\ Stop("skipped", "size")

Planned ==
  /\ stage = "conf" /\ audience # {}
  /\ Stop("planned", "")

Next ==
  \/ SelectorInvalid \/ NotMatched \/ Matched
  \/ ResolveStatic \/ ResolveMetadata \/ ResolveConfigMap \/ ConfigMapFails
  \/ ResolveTemplate \/ ParameterTemplateFails \/ Resolved
  \/ RenderStrings \/ StringTemplateFails
  \/ FileTemplateFails \/ RefuseFile \/ AddFile \/ AllFiles
  \/ AudienceEmpty \/ TooLarge \/ Planned

Spec == Init /\ [][Next]_vars

-----------------------------------------------------------------------------
(* Properties.                                                             *)

(* The type invariant.                                                     *)
TypeOK ==
  /\ shim \in Shims /\ target \in Targets
  /\ stage \in {"match", "resolve", "render", "files", "conf", "done"}
  /\ at \in Nat \ {0}
  /\ stage \in {"match", "resolve"} => at <= Len(shim.parameters) + 1
  /\ stage \in {"render", "files", "conf"} => at <= Len(shim.files) + 1
  /\ values = [k \in DOMAIN values |-> values[k]]
  /\ DOMAIN values \subseteq Text
  /\ \A k \in DOMAIN values : values[k] \in Value
  /\ audience \in Value /\ rendered \subseteq Value
  /\ seen \subseteq Path
  /\ files \in Seq(Rendered)
  /\ result \in {"", "unmatched", "skipped", "planned"}
  /\ reason \in {"", "selector", "parameter", "configMap", "template", "file",
                 "audience", "size"}

(* A shim reported Ready is skipped only for what a pod, a ConfigMap or    *)
(* the length of the contents decide: whatever is wrong with its spec      *)
(* alone, the controller has found.                                        *)
ReadySkippedOnlyForPod ==
  Ready(shim) /\ result = "skipped" =>
    reason \in {"parameter", "configMap", "audience", "size"}

(* The controller's and the webhook's copies of the rules for files and    *)
(* selectors agree: a file or a selector that one refuses so does the      *)
(* other.                                                                  *)
RulesAgree ==
  /\ reason = "file" => ~validateShim(shim).files
  /\ reason = "selector" => ~validateShim(shim).selection
  /\ result = "planned" => validateShim(shim).files /\ validateShim(shim).selection

(* An InvalidSpec shim is never injected, as the documentation says of     *)
(* READY=False.                                                            *)
InvalidNeverPlanned == result = "planned" => Ready(shim)

(* In a plan every file has a path of its own, none of them the token's:   *)
(* what Apply relies on to mount them side by side.                        *)
PlanPathsDistinct ==
  result = "planned" =>
    /\ \A i, j \in DOMAIN files : i # j => files[i].path # files[j].path
    /\ \A i \in DOMAIN files : files[i].path # ResolveToken(shim)

(* The path that a spelling stands for once the runtime resolves it: empty *)
(* segments and "." stay where they are, ".." goes back to the parent.     *)
Clean(path) ==
  LET clean[n \in 0..Len(path)] ==
        IF n = 0 THEN <<>>
        ELSE LET dir == clean[n - 1]
             IN  CASE path[n] \in {"", "."} -> dir
                   [] path[n] = ".." -> SubSeq(dir, 1, Len(dir) - 1)
                   [] OTHER -> Append(dir, path[n])
  IN  clean[Len(path)]

(* No file of a plan lies in the directory of the shim's own token, which  *)
(* the containers mount read-only, however the two paths are spelled.      *)
FilesOutsideOwnToken ==
  result = "planned" =>
    \A i \in DOMAIN files : ~Beneath(Clean(files[i].path), Clean(ResolveToken(shim)))

Contents ==
  {audience} \cup rendered \cup {files[i].content : i \in DOMAIN files}

(* A key on the pod hides the same key on its service account, and that    *)
(* one the namespace's, even with an empty value: nothing of a hidden      *)
(* value gets into a plan, through however many templates.                 *)
MaskedStaysOut ==
  result = "planned" =>
    \A v \in Contents : \A p \in {shim.parameters[n] : n \in DOMAIN shim.parameters} :
      \A i \in 1..3 : \A j \in 1..(i - 1) :
        <<Precedence[i], p.source, p.key>> \in v =>
          p.key \notin DOMAIN Metadata(p, target, Precedence[j])

(* A pod that gives a required parameter nothing gets no plan: neither a   *)
(* template that renders to nothing nor a key that no object has will do.  *)
RequiredHasValue ==
  result = "planned" =>
    \A n \in DOMAIN shim.parameters :
      LET p == shim.parameters[n]
      IN  p.required /\ p.default = "none" =>
            /\ p.source = "template" => values[p.name] # {}
            /\ p.source \in {"annotation", "label"} => Holders(p, target) # {}

(* In a Ready shim a name keeps its value: no parameter replaces a builtin *)
(* or an earlier parameter that a template may have used already.          *)
ResolvedOnce ==
  [][Ready(shim) => \A k \in DOMAIN values : values'[k] = values[k]]_vars

=============================================================================
