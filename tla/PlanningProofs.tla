--------------------------- MODULE PlanningProofs ---------------------------
(***************************************************************************)
(* Theorems about Planning, for every set of shims and pods.               *)
(***************************************************************************)
EXTENDS Planning, TLAPS

(* Rendering joins texts into a text.                                      *)
LEMMA RenderType ==
  ASSUME NEW t \in Template, NEW vals, \A k \in DOMAIN vals : vals[k] \in Value,
         ~RenderFails(t, vals)
  PROVE  Render(t, vals) \in Value
<1>1. \A r \in Executed(t, vals) : vals[r.key] \in Value
  BY DEF RenderFails
<1>2. <<"template", "", "">> \in Origin
  BY TextHasLiterals DEF Origin
<1>3. (IF t.text THEN {<<"template", "", "">>} ELSE {}) \subseteq Origin
  BY <1>2
<1>4. UNION {vals[r.key] : r \in Executed(t, vals)} \subseteq Origin
  BY <1>1 DEF Value
<1>. QED
  BY <1>3, <1>4 DEF Render, Value

(* What a parameter without a template contributes is a text.              *)
LEMMA SourceType ==
  ASSUME NEW p \in Parameter
  PROVE  /\ \A source \in {"static", "default", "configMap"} :
              {<<source, "", p.name>>} \in Value
         /\ LookedUp(p, target) \in Value
<1>1. /\ p.name \in Text /\ p.key \in Text /\ p.source \in Text
      /\ {"", "static", "default", "configMap"} \subseteq Text
  BY TextHasLiterals DEF Parameter
<1>2. \A i \in 1..3 : Precedence[i] \in Text
  <2>1. {"pod", "serviceAccount", "namespace"} \subseteq Text
    BY TextHasLiterals DEF Kinds
  <2>. QED
    BY <2>1 DEF Precedence
<1>3. \A i \in lookupMetadata(p, target) : i \in 1..3
  BY DEF lookupMetadata, Holders
<1>4. ASSUME NEW o \in LookedUp(p, target)
      PROVE  o \in Origin
  <2>1. PICK i \in lookupMetadata(p, target) : o = <<Precedence[i], p.source, p.key>>
    BY DEF LookedUp
  <2>2. Precedence[i] \in Text
    BY <1>2, <1>3
  <2>. QED
    BY <1>1, <2>1, <2>2 DEF Origin
<1>5. ASSUME NEW source \in {"static", "default", "configMap"}
      PROVE  <<source, "", p.name>> \in Origin
  BY <1>1 DEF Origin
<1>. QED
  BY <1>4, <1>5 DEF Value

(* The token's directory is a path.                                        *)
LEMMA TokenType ==
  ASSUME NEW s \in Shims
  PROVE  ResolveToken(s) \in Path
<1>1. {"var", "run", "secrets", "oidcshim", s.name} \subseteq Text
  BY TextHasLiterals, ShimsTyped
<1>2. <<"var", "run", "secrets", "oidcshim", s.name>> \in Seq(Text)
  BY <1>1
<1>. QED
  BY <1>2, ShimsTyped DEF ResolveToken, Path

-----------------------------------------------------------------------------
(* Type correctness.                                                       *)

(* The steps that end in a result.                                         *)
LEMMA StopType ==
  ASSUME TypeOK,
         NEW outcome \in {"", "unmatched", "skipped", "planned"},
         NEW why \in {"", "selector", "parameter", "configMap", "template", "file",
                      "audience", "size"},
         Stop(outcome, why)
  PROVE  TypeOK'
BY DEF TypeOK, Stop, inputs, output

(* The shim's parts have their types.                                      *)
LEMMA ShimParts ==
  ASSUME TypeOK
  PROVE  /\ shim.parameters \in Seq(Parameter) /\ Len(shim.parameters) \in Nat
         /\ shim.files \in Seq(File) /\ Len(shim.files) \in Nat
         /\ shim.audience \in Template
         /\ shim.extraAudiences \subseteq Template /\ shim.env \subseteq Template
<1>1. shim \in Shims
  BY DEF TypeOK
<1>2. shim.parameters \in Seq(Parameter) /\ shim.files \in Seq(File)
  BY <1>1, ShimsTyped
<1>3. Len(shim.parameters) \in Nat
  BY <1>2
<1>4. Len(shim.files) \in Nat
  BY <1>2
<1>. QED
  BY <1>1, <1>2, <1>3, <1>4, ShimsTyped

(* Binding a parameter keeps the values a map of texts.                    *)
LEMMA BindType ==
  ASSUME TypeOK, NEW value \in Value, NEW p \in Parameter,
         stage = "resolve", at <= Len(shim.parameters), Bind(p, value)
  PROVE  TypeOK'
<1>1. /\ DOMAIN values' = DOMAIN values \cup {p.name}
      /\ \A k \in DOMAIN values' : values'[k] = IF k = p.name THEN value ELSE values[k]
      /\ values' = [k \in DOMAIN values' |-> values'[k]]
  BY DEF Bind
<1>2. p.name \in Text
  BY DEF Parameter
<1>3. DOMAIN values' \subseteq Text /\ \A k \in DOMAIN values' : values'[k] \in Value
  BY <1>1, <1>2 DEF TypeOK
<1>4. /\ at' \in Nat \ {0} /\ at' <= Len(shim'.parameters) + 1
      /\ stage' = "resolve"
  <2>1. shim' = shim /\ at' = at + 1 /\ stage' = "resolve"
    BY DEF Bind, Continue, inputs
  <2>2. Len(shim.parameters) \in Nat
    BY ShimParts
  <2>3. at \in Nat \ {0}
    BY DEF TypeOK
  <2>. QED
    BY <2>1, <2>2, <2>3
<1>. QED
  BY <1>1, <1>3, <1>4 DEF TypeOK, Bind, Continue, inputs, output

(* Settling a parameter, whatever its source gave.                         *)
LEMMA SettleType ==
  ASSUME TypeOK, NEW value \in Value, NEW p \in Parameter, NEW found \in BOOLEAN,
         stage = "resolve", at <= Len(shim.parameters), Settle(p, found, value)
  PROVE  TypeOK'
<1>1. {} \in Value /\ {<<"default", "", p.name>>} \in Value
  BY SourceType DEF Value
<1>2. CASE Bind(p, value)
  BY <1>2, BindType
<1>3. CASE Bind(p, {<<"default", "", p.name>>})
  BY <1>1, <1>3, BindType
<1>4. CASE Bind(p, {})
  BY <1>1, <1>4, BindType
<1>5. CASE Stop("skipped", "parameter")
  BY <1>5, StopType
<1>. QED
  BY <1>2, <1>3, <1>4, <1>5 DEF Settle

(* The steps of params.Resolve.                                            *)
LEMMA ResolveType ==
  ASSUME TypeOK,
         \/ ResolveStatic \/ ResolveMetadata \/ ResolveConfigMap \/ ConfigMapFails
         \/ ResolveTemplate \/ ParameterTemplateFails \/ Resolved
  PROVE  TypeOK'
<1> DEFINE p == shim.parameters[at]
<1>1. CASE Resolved
  <2>1. at' = 1 /\ stage' = "render" /\ shim' = shim
    BY <1>1 DEF Resolved, Continue, inputs
  <2>2. at' <= Len(shim'.files) + 1
    BY <2>1, ShimParts
  <2>3. at' \in Nat \ {0}
    BY <2>1
  <2>4. UNCHANGED <<shim, target, values, audience, rendered, seen, files, result, reason>>
    BY <1>1 DEF Resolved, Continue, inputs, output
  <2>. QED
    BY <2>1, <2>2, <2>3, <2>4 DEF TypeOK
<1>2. CASE ConfigMapFails
  BY <1>2, StopType DEF ConfigMapFails
<1>3. CASE ParameterTemplateFails
  BY <1>3, StopType DEF ParameterTemplateFails
<1>4. ASSUME NEW sources, Resolving(sources)
      PROVE  /\ stage = "resolve" /\ at <= Len(shim.parameters)
             /\ p \in Parameter
  <2>1. stage = "resolve" /\ at <= Len(shim.parameters) /\ at \in Nat \ {0}
    BY <1>4 DEF Resolving, TypeOK
  <2>. QED
    BY <2>1, ShimParts
<1>. HIDE DEF p
<1>5. {} \in Value
  BY DEF Value
<1>6. CASE ResolveStatic
  <2>1. /\ Resolving({"static"})
        /\ Settle(p, TRUE, IF p.blank THEN {} ELSE {<<"static", "", p.name>>})
    BY <1>6 DEF ResolveStatic, p
  <2>2. p \in Parameter /\ stage = "resolve" /\ at <= Len(shim.parameters)
    BY <1>4, <2>1
  <2>3. (IF p.blank THEN {} ELSE {<<"static", "", p.name>>}) \in Value
    BY <1>5, <2>2, SourceType
  <2>. QED
    BY <2>1, <2>2, <2>3, SettleType
<1>7. CASE ResolveMetadata
  <2>1. /\ Resolving({"annotation", "label"})
        /\ Settle(p, lookupMetadata(p, target) # {}, LookedUp(p, target))
    BY <1>7 DEF ResolveMetadata, p
  <2>2. p \in Parameter /\ stage = "resolve" /\ at <= Len(shim.parameters)
    BY <1>4, <2>1
  <2>. QED
    BY <2>1, <2>2, SourceType, SettleType
<1>8. CASE ResolveConfigMap
  <2>1. /\ Resolving({"configMap"})
        /\ \/ Settle(p, TRUE, {<<"configMap", "", p.name>>})
           \/ Settle(p, TRUE, {})
           \/ Settle(p, FALSE, {})
    BY <1>8 DEF ResolveConfigMap, p
  <2>2. p \in Parameter /\ stage = "resolve" /\ at <= Len(shim.parameters)
    BY <1>4, <2>1
  <2>3. {<<"configMap", "", p.name>>} \in Value
    BY <2>2, SourceType
  <2>. QED
    BY <1>5, <2>1, <2>2, <2>3, SettleType
<1>9. CASE ResolveTemplate
  <2>1. /\ Resolving({"template"})
        /\ ~RenderFails(p.template, values)
        /\ Settle(p, Render(p.template, values) # {}, Render(p.template, values))
    BY <1>9 DEF ResolveTemplate, p
  <2>2. p \in Parameter /\ stage = "resolve" /\ at <= Len(shim.parameters)
    BY <1>4, <2>1
  <2>3. p.template \in Template
    BY <2>2 DEF Parameter
  <2>4. Render(p.template, values) \in Value
    BY <2>1, <2>3, RenderType DEF TypeOK
  <2>. QED
    BY <2>1, <2>2, <2>4, SettleType, Zenon
<1>. QED
  BY <1>1, <1>2, <1>3, <1>6, <1>7, <1>8, <1>9

(* The file that AddFile appends.                                          *)
LEMMA AddFileStep ==
  ASSUME TypeOK, AddFile
  PROVE  \E f \in Rendered :
           /\ f.path = shim.files[at].path
           /\ files' = Append(files, f)
           /\ seen' = seen \cup {f.path}
           /\ at \in 1..Len(shim.files) /\ at' = at + 1
           /\ shim' = shim /\ stage = "files" /\ stage' = "files"
<1> DEFINE s == shim.files[at]
           f == [path |-> s.path, content |-> Render(s.content, values)]
<1>1. at \in 1..Len(shim.files)
  <2>1. at \in Nat \ {0} /\ at <= Len(shim.files)
    BY DEF AddFile, AtFile, TypeOK
  <2>. QED
    BY <2>1, ShimParts
<1>2. s \in File
  BY <1>1, ShimParts
<1>3. s.path \in Path /\ s.content \in Template
  BY <1>2 DEF File
<1>4. Render(s.content, values) \in Value
  BY <1>3, RenderType DEF AddFile, TypeOK
<1>5. f \in Rendered
  BY <1>3, <1>4 DEF Rendered
<1>. QED
  BY <1>1, <1>5 DEF AddFile, AtFile, Continue, inputs

(* The steps of BuildPlan that go on.                                      *)
LEMMA BuildType ==
  ASSUME TypeOK, RenderStrings \/ AddFile \/ AllFiles
  PROVE  TypeOK'
<1>1. CASE RenderStrings
  <2>1. \A t \in Strings(shim) : t \in Template /\ Render(t, values) \in Value
    BY <1>1, ShimParts, RenderType DEF RenderStrings, Strings, TypeOK
  <2>2. audience' \in Value /\ rendered' \subseteq Value
    BY <1>1, <2>1 DEF RenderStrings, Strings
  <2>3. seen' \subseteq Path
    BY <1>1, TokenType DEF RenderStrings, TypeOK
  <2>. QED
    BY <1>1, <2>2, <2>3 DEF RenderStrings, TypeOK, Continue, inputs
<1>2. CASE AddFile
  <2>1. PICK f \in Rendered :
          /\ files' = Append(files, f)
          /\ seen' = seen \cup {f.path}
          /\ at \in 1..Len(shim.files) /\ at' = at + 1
          /\ shim' = shim /\ stage' = "files"
    BY <1>2, AddFileStep
  <2>2. files' \in Seq(Rendered)
    <3>1. files \in Seq(Rendered)
      BY DEF TypeOK
    <3>. QED
      BY <2>1, <3>1
  <2>3. seen' \subseteq Path
    BY <2>1 DEF TypeOK, Rendered
  <2>4. at' \in Nat \ {0} /\ at' <= Len(shim'.files) + 1
    BY <2>1, ShimParts
  <2>. QED
    BY <1>2, <2>1, <2>2, <2>3, <2>4 DEF AddFile, TypeOK, Continue, inputs
<1>3. CASE AllFiles
  BY <1>3 DEF AllFiles, TypeOK, Continue, inputs, output
<1>. QED
  BY <1>1, <1>2, <1>3

(* Planning keeps every variable in its type, whatever the shims and pods. *)
THEOREM PlanningTypeCorrect == Spec => []TypeOK
<1>1. Init => TypeOK
  <2>. SUFFICES ASSUME Init PROVE TypeOK
    OBVIOUS
  <2>1. /\ DOMAIN values = Builtins /\ Builtins \subseteq Text
        /\ \A k \in Builtins : values[k] = {<<"builtin", "", k>>}
        /\ values = [k \in DOMAIN values |-> values[k]]
    BY TextHasLiterals DEF Init
  <2>2. \A k \in Builtins : <<"builtin", "", k>> \in Origin
    BY <2>1, TextHasLiterals DEF Origin
  <2>3. at = 1 /\ shim \in Shims /\ stage = "match"
    BY DEF Init
  <2>4. shim.parameters \in Seq(Parameter)
    BY <2>3, ShimsTyped
  <2>5. Len(shim.parameters) \in Nat
    BY <2>4
  <2>6. at \in Nat \ {0} /\ at <= Len(shim.parameters) + 1
    BY <2>3, <2>5
  <2>7. \A k \in DOMAIN values : values[k] \in Value
    <3>1. \A o \in Origin : {o} \in Value
      BY DEF Value
    <3>2. \A k \in Builtins : values[k] = {<<"builtin", "", k>>}
      BY <2>1
    <3>3. ASSUME NEW k \in Builtins PROVE values[k] \in Value
      BY <2>2, <3>1, <3>2
    <3>4. DOMAIN values = Builtins
      BY <2>1
    <3>. QED
      BY <3>3, <3>4
  <2>8. {} \in Value /\ <<>> \in Seq(Rendered)
    BY DEF Value
  <2>. QED
    BY <2>1, <2>3, <2>6, <2>7, <2>8 DEF Init, TypeOK
<1>2. TypeOK /\ [Next]_vars => TypeOK'
  <2>. SUFFICES ASSUME TypeOK, [Next]_vars PROVE TypeOK'
    OBVIOUS
  <2>1. CASE \/ ResolveStatic \/ ResolveMetadata \/ ResolveConfigMap \/ ConfigMapFails
             \/ ResolveTemplate \/ ParameterTemplateFails \/ Resolved
    BY <2>1, ResolveType
  <2>2. CASE RenderStrings \/ AddFile \/ AllFiles
    BY <2>2, BuildType
  <2>3. CASE SelectorInvalid \/ NotMatched
    BY <2>3, StopType DEF SelectorInvalid, NotMatched
  <2>4. CASE StringTemplateFails \/ FileTemplateFails \/ RefuseFile
    BY <2>4, StopType DEF StringTemplateFails, FileTemplateFails, RefuseFile
  <2>5. CASE AudienceEmpty \/ TooLarge \/ Planned
    BY <2>5, StopType DEF AudienceEmpty, TooLarge, Planned
  <2>6. CASE Matched
    BY <2>6 DEF Matched, TypeOK, Continue, inputs, output
  <2>7. CASE UNCHANGED vars
    BY <2>7 DEF vars, TypeOK
  <2>. QED
    BY <2>1, <2>2, <2>3, <2>4, <2>5, <2>6, <2>7 DEF Next
<1>. QED
  BY <1>1, <1>2, PTL DEF Spec

-----------------------------------------------------------------------------
(* The loop over files.                                                    *)

(* The first n files have passed, and seenPaths holds exactly their paths  *)
(* and the token's.                                                        *)
Passed(n) ==
  /\ n \in Nat /\ n <= Len(shim.files)
  /\ \A i \in 1..n : ~FileProblem(shim, i)
  /\ seen = {ResolveToken(shim)} \cup {shim.files[i].path : i \in 1..n}
  /\ Len(files) = n
  /\ \A i \in 1..n : files[i].path = shim.files[i].path

(* The loop's invariant, with what is known of selectors once the pod has  *)
(* been matched.                                                           *)
FilesInv ==
  /\ stage \in {"match", "resolve", "render"} => files = <<>>
  /\ stage = "render" => at = 1
  /\ stage = "files" => Passed(at - 1)
  /\ stage = "conf" \/ result = "planned" => Passed(Len(shim.files))
  /\ stage # "done" => result = ""
  /\ stage \notin {"match", "done"} \/ result = "planned" => ~compileFails(shim.selection)
  /\ reason = "file" => \E i \in DOMAIN shim.files : FileProblem(shim, i)
  /\ reason = "selector" => compileFails(shim.selection)

(* The file at the loop's index is refused exactly when it breaks a rule.  *)
LEMMA RefusedIffProblem ==
  ASSUME Passed(at - 1), at \in Nat \ {0}
  PROVE  PathRefused(shim.files[at].path) <=> FileProblem(shim, at)
BY Zenon DEF Passed, PathRefused, FileProblem

(* A file that passes extends the prefix.                                  *)
LEMMA PassedExtends ==
  ASSUME TypeOK, Passed(at - 1), AddFile
  PROVE  Passed(at - 1)'
<1>1. PICK f \in Rendered :
        /\ f.path = shim.files[at].path
        /\ files' = Append(files, f)
        /\ seen' = seen \cup {f.path}
        /\ at \in 1..Len(shim.files) /\ at' = at + 1
        /\ shim' = shim
  BY AddFileStep
<1>2. Len(shim.files) \in Nat /\ files \in Seq(Rendered)
  BY ShimParts DEF TypeOK
<1>3. at' - 1 = at /\ at \in Nat \ {0} /\ at <= Len(shim.files)
  BY <1>1, <1>2
<1>4. Len(files) = at - 1
  BY DEF Passed
<1>5. Len(files') = at
  BY <1>1, <1>2, <1>3, <1>4
<1>6. files'[at] = f /\ \A i \in 1..(at - 1) : files'[i] = files[i]
  BY <1>1, <1>2, <1>3, <1>4
<1>7. \A i \in 1..at : i \in 1..(at - 1) \/ i = at
  BY <1>3
<1>8. \A i \in 1..at : files'[i].path = shim.files[i].path
  BY <1>1, <1>6, <1>7 DEF Passed
<1>9. ~FileProblem(shim, at)
  BY <1>3, RefusedIffProblem DEF AddFile
<1>10. \A i \in 1..at : ~FileProblem(shim, i)
  BY <1>7, <1>9 DEF Passed
<1>11. seen' = {ResolveToken(shim)} \cup {shim.files[i].path : i \in 1..at}
  <2>1. seen = {ResolveToken(shim)} \cup {shim.files[i].path : i \in 1..(at - 1)}
    BY DEF Passed
  <2>2. {shim.files[i].path : i \in 1..at} =
          {shim.files[i].path : i \in 1..(at - 1)} \cup {shim.files[at].path}
    BY <1>3, <1>7
  <2>. QED
    BY <1>1, <2>1, <2>2
<1>12. \A i \in 1..at : ~FileProblem(shim', i)
  BY <1>1, <1>10
<1>13. ResolveToken(shim') = ResolveToken(shim)
  BY <1>1
<1>14. seen' = {ResolveToken(shim')} \cup {shim'.files[i].path : i \in 1..at}
  BY <1>1, <1>11, <1>13
<1>15. \A i \in 1..at : files'[i].path = shim'.files[i].path
  BY <1>1, <1>8, Zenon
<1>16. at \in Nat /\ at <= Len(shim'.files)
  BY <1>1, <1>3
<1>17. ASSUME NEW n, n = at PROVE Passed(n)'
  BY <1>5, <1>12, <1>14, <1>15, <1>16, <1>17 DEF Passed, FileProblem, ResolveToken
<1>. QED
  BY <1>3, <1>17

(* The loop's invariant is one.                                            *)
LEMMA FilesInvariant == Spec => []FilesInv
<1>1. Init => FilesInv
  BY DEF Init, FilesInv
<1>2. TypeOK /\ FilesInv /\ [Next]_vars => FilesInv'
  <2>. SUFFICES ASSUME TypeOK, FilesInv, [Next]_vars PROVE FilesInv'
    OBVIOUS
  <2>1. ASSUME NEW why \in {"parameter", "configMap", "template", "audience", "size", ""},
               NEW outcome \in {"skipped", "unmatched"}, Stop(outcome, why)
        PROVE  FilesInv'
    BY <2>1 DEF Stop, FilesInv, inputs, output
  <2>2. ASSUME NEW p, NEW value, Bind(p, value), stage = "resolve"
        PROVE  FilesInv'
    BY <2>2 DEF Bind, Continue, FilesInv, inputs, output
  <2>3. ASSUME NEW p, NEW found, NEW value, Settle(p, found, value), stage = "resolve"
        PROVE  FilesInv'
    BY <2>1, <2>2, <2>3 DEF Settle
  <2>4. CASE SelectorInvalid \/ NotMatched \/ Matched
    <3>1. CASE SelectorInvalid
      BY <3>1 DEF SelectorInvalid, Stop, FilesInv, inputs, output
    <3>2. CASE NotMatched
      BY <2>1, <3>2 DEF NotMatched
    <3>3. CASE Matched
      BY <3>3 DEF Matched, Continue, FilesInv, inputs, output
    <3>. QED
      BY <2>4, <3>1, <3>2, <3>3
  <2>5. CASE ResolveStatic \/ ResolveMetadata \/ ResolveConfigMap \/ ResolveTemplate
    BY <2>3, <2>5 DEF ResolveStatic, ResolveMetadata, ResolveConfigMap, ResolveTemplate,
                      Resolving
  <2>6. CASE ConfigMapFails \/ ParameterTemplateFails
    BY <2>1, <2>6 DEF ConfigMapFails, ParameterTemplateFails
  <2>7. CASE Resolved
    BY <2>7 DEF Resolved, Continue, FilesInv, inputs, output
  <2>8. CASE RenderStrings
    <3>1. /\ shim' = shim /\ at' = 1 /\ files' = <<>> /\ stage' = "files"
          /\ seen' = {ResolveToken(shim)} /\ result' = "" /\ reason' = reason
      BY <2>8 DEF RenderStrings, Continue, FilesInv, inputs
    <3>2. ~compileFails(shim.selection)
      BY <2>8 DEF RenderStrings, FilesInv
    <3>3. at' = 1 /\ files' = <<>> /\ shim' = shim
      BY <3>1
    <3>4. Len(shim.files) \in Nat
      BY ShimParts
    <3>5. at' - 1 = 0
      BY <3>3
    <3>6. Len(files') = 0 /\ 0 <= Len(shim'.files)
      BY <3>4, <3>3
    <3>7. \A i \in 1..0 : FALSE
      OBVIOUS
    <3>8. seen' = {ResolveToken(shim')} \cup {shim'.files[i].path : i \in 1..0}
      BY <3>1, <3>7
    <3>9. Passed(0)'
      BY <3>6, <3>7, <3>8 DEF Passed, ResolveToken
    <3>10. Passed(at - 1)'
      BY <3>5, <3>9 DEF Passed
    <3>. QED
      BY <3>1, <3>10, <3>2 DEF FilesInv
  <2>9. CASE AddFile
    <3>1. Passed(at - 1)'
      BY <2>9, PassedExtends DEF FilesInv, AddFile, AtFile
    <3>2. /\ shim' = shim /\ stage = "files" /\ stage' = "files"
          /\ result' = result /\ reason' = reason
      BY <2>9 DEF AddFile, AtFile, Continue, inputs
    <3>. QED
      BY <3>1, <3>2 DEF FilesInv
  <2>10. CASE AllFiles
    <3>1. /\ UNCHANGED <<shim, files, seen, at, result, reason>>
          /\ stage = "files" /\ stage' = "conf" /\ at > Len(shim.files)
      BY <2>10 DEF AllFiles, Continue, inputs, output
    <3>2. Passed(at - 1)
      BY <3>1 DEF FilesInv
    <3>3. at \in Nat /\ at <= Len(shim.files) + 1
      BY <3>1 DEF TypeOK
    <3>4. Len(shim.files) \in Nat
      BY ShimParts
    <3>5. at - 1 = Len(shim.files)
      BY <3>1, <3>3, <3>4
    <3>6. Passed(Len(shim.files))
      BY <3>2, <3>5
    <3>7. Passed(Len(shim.files))'
      BY <3>1, <3>6, SMTT(30) DEF Passed, FileProblem, ResolveToken
    <3>. QED
      BY <3>1, <3>7 DEF FilesInv
  <2>11. CASE RefuseFile
    <3>1. /\ stage = "files" /\ stage' = "done" /\ result' = "skipped" /\ reason' = "file"
          /\ UNCHANGED <<shim, files, seen>>
          /\ at <= Len(shim.files) /\ PathRefused(shim.files[at].path)
      BY <2>11 DEF RefuseFile, AtFile, Stop, inputs, output
    <3>2. at \in Nat \ {0}
      BY DEF TypeOK
    <3>3. at \in DOMAIN shim.files
      BY <3>1, <3>2, ShimParts
    <3>4. FileProblem(shim, at)
      BY <3>1, <3>2, RefusedIffProblem DEF FilesInv
    <3>. QED
      BY <3>1, <3>3, <3>4 DEF FilesInv
  <2>12. CASE StringTemplateFails \/ FileTemplateFails
    BY <2>1, <2>12 DEF StringTemplateFails, FileTemplateFails
  <2>13. CASE AudienceEmpty \/ TooLarge
    BY <2>1, <2>13 DEF AudienceEmpty, TooLarge
  <2>14. CASE Planned
    <3>1. /\ stage = "conf" /\ stage' = "done" /\ result' = "planned" /\ reason' = ""
          /\ UNCHANGED <<shim, files, seen>>
      BY <2>14 DEF Planned, Stop, inputs, output
    <3>2. Passed(Len(shim.files)) /\ ~compileFails(shim.selection)
      BY <3>1 DEF FilesInv
    <3>3. Passed(Len(shim.files))'
      BY <3>1, <3>2 DEF Passed, FileProblem, ResolveToken
    <3>. QED
      BY <3>1, <3>2, <3>3 DEF FilesInv
  <2>15. CASE UNCHANGED vars
    <3>1. UNCHANGED <<shim, stage, at, seen, files, result, reason>>
      BY <2>15 DEF vars
    <3>2. Passed(at - 1) => Passed(at - 1)'
      BY <3>1, ZenonT(30) DEF Passed, FileProblem, ResolveToken
    <3>3. Passed(Len(shim.files)) => Passed(Len(shim.files))'
      BY <3>1, ZenonT(30) DEF Passed, FileProblem, ResolveToken
    <3>. QED
      BY <3>1, <3>2, <3>3 DEF FilesInv
  <2>. QED
    BY <2>4, <2>5, <2>6, <2>7, <2>8, <2>9, <2>10, <2>11, <2>12, <2>13, <2>14, <2>15
    DEF Next
<1>. QED
  BY <1>1, <1>2, PlanningTypeCorrect, PTL DEF Spec

(* A plan's paths are distinct and none is the token's, for every shim:    *)
(* seenPaths in BuildPlan starts with the token's path and holds the path  *)
(* of every file added.                                                    *)
THEOREM PathsDistinct == Spec => []PlanPathsDistinct
<1>1. TypeOK /\ FilesInv => PlanPathsDistinct
  <2>. SUFFICES ASSUME TypeOK, FilesInv, result = "planned"
                PROVE  /\ \A i, j \in DOMAIN files : i # j => files[i].path # files[j].path
                       /\ \A i \in DOMAIN files : files[i].path # ResolveToken(shim)
    BY DEF PlanPathsDistinct
  <2>1. Passed(Len(shim.files))
    BY DEF FilesInv
  <2>2. Len(shim.files) \in Nat /\ files \in Seq(Rendered)
    BY ShimParts DEF TypeOK
  <2>3. Len(files) = Len(shim.files)
    BY <2>1 DEF Passed
  <2>4. DOMAIN files = 1..Len(shim.files)
    BY <2>2, <2>3
  <2>5. \A i \in DOMAIN files : files[i].path = shim.files[i].path /\ ~FileProblem(shim, i)
    BY <2>1, <2>4 DEF Passed
  <2>6. ASSUME NEW i \in DOMAIN files, NEW j \in DOMAIN files, j < i
        PROVE  files[i].path # files[j].path
    <3>1. j \in 1..(i - 1)
      BY <2>2, <2>4, <2>6
    <3>. QED
      BY <2>5, <3>1 DEF FileProblem
  <2>7. \A i, j \in DOMAIN files : i # j => i < j \/ j < i
    BY <2>2, <2>4
  <2>8. \A i \in DOMAIN files : files[i].path # ResolveToken(shim)
    BY <2>5 DEF FileProblem
  <2>. QED
    BY <2>6, <2>7, <2>8
<1>. QED
  BY <1>1, PlanningTypeCorrect, FilesInvariant, PTL

(* validateFiles and BuildPlan, and compile at both ends, give one verdict *)
(* on files and selectors, for every shim.                                 *)
THEOREM ControllerAndWebhookAgree == Spec => []RulesAgree
<1>1. TypeOK /\ FilesInv => RulesAgree
  <2>. SUFFICES ASSUME TypeOK, FilesInv PROVE RulesAgree
    OBVIOUS
  <2>1. /\ validateShim(shim).files <=> \A i \in DOMAIN shim.files : ~FileProblem(shim, i)
        /\ validateShim(shim).selection <=> ~compileFails(shim.selection)
    BY Zenon DEF validateShim
  <2>2. reason = "file" => ~validateShim(shim).files
    BY <2>1 DEF FilesInv
  <2>3. reason = "selector" => ~validateShim(shim).selection
    BY <2>1 DEF FilesInv
  <2>4. result = "planned" => validateShim(shim).files
    <3>1. shim.files \in Seq(File) /\ Len(shim.files) \in Nat
      BY ShimParts
    <3>2. DOMAIN shim.files = 1..Len(shim.files)
      BY <3>1
    <3>. QED
      BY <2>1, <3>2 DEF FilesInv, Passed
  <2>5. result = "planned" => validateShim(shim).selection
    BY <2>1 DEF FilesInv
  <2>. QED
    BY <2>2, <2>3, <2>4, <2>5 DEF RulesAgree
<1>. QED
  BY <1>1, PlanningTypeCorrect, FilesInvariant, PTL

-----------------------------------------------------------------------------
(* The values that templates may use.                                      *)

(* A shim whose templates name keys only as {{.key}}, the form that        *)
(* walkNode looks at.                                                      *)
Plain(s) ==
  \A t \in Templates(s) \cup {s.parameters[i].template : i \in DOMAIN s.parameters} :
    \A r \in t.refs : r.form = "field"

(* The keys of values are those that params.Validate counts on: before the *)
(* i-th parameter the builtins and the earlier names, afterwards all.      *)
KeysInv ==
  /\ stage \in {"match", "resolve"} => DOMAIN values = Defined(shim.parameters, at)
  /\ stage \in {"render", "files", "conf"} =>
       DOMAIN values = Defined(shim.parameters, Len(shim.parameters) + 1)
  /\ stage # "done" => reason = "" /\ result = ""
  /\ result = "skipped" => reason # ""
  /\ reason = "template" => ~(Ready(shim) /\ Plain(shim))

(* A template whose references are all plain and known renders.            *)
LEMMA PlainRenders ==
  ASSUME NEW t, NEW vals, t.parses, ReferencedKeys(t) \subseteq DOMAIN vals,
         \A r \in t.refs : r.form = "field"
  PROVE  ~RenderFails(t, vals)
<1>1. \A r \in t.refs : r.key \in ReferencedKeys(t)
  BY DEF ReferencedKeys
<1>2. \A r \in t.refs : r.when # "" => r.when \in ReferencedKeys(t)
  BY DEF ReferencedKeys
<1>. QED
  BY <1>1, <1>2 DEF RenderFails, Executed

(* The checks behind Ready.                                                *)
LEMMA ReadyChecks ==
  ASSUME NEW s, Ready(s)
  PROVE  /\ \A i \in DOMAIN s.parameters : ~ParameterProblem(s.parameters, i)
         /\ \A t \in Templates(s) : ~TemplateProblem(s, t)
<1>1. /\ "parameters" \in DOMAIN validateShim(s) /\ "templates" \in DOMAIN validateShim(s)
  BY DEF validateShim
<1>2. validateShim(s).parameters /\ validateShim(s).templates
  BY <1>1 DEF Ready
<1>. QED
  BY <1>2 DEF validateShim

(* Resolving a parameter adds its name.                                    *)
LEMMA DefinedExtends ==
  ASSUME NEW params, NEW i \in Nat \ {0}
  PROVE  Defined(params, i + 1) = Defined(params, i) \cup {params[i].name}
<1>1. 1..((i + 1) - 1) = 1..(i - 1) \cup {i}
  OBVIOUS
<1>. QED
  BY <1>1 DEF Defined

(* No template of a Ready, plain shim fails in BuildPlan.                  *)
LEMMA TemplatesRender ==
  ASSUME KeysInv, stage \in {"render", "files"}, Ready(shim), Plain(shim),
         NEW t \in Templates(shim)
  PROVE  ~RenderFails(t, values)
<1>1. ~TemplateProblem(shim, t)
  BY ReadyChecks
<1>2. t.parses /\ ReferencedKeys(t) \subseteq Defined(shim.parameters, Len(shim.parameters) + 1)
  BY <1>1 DEF TemplateProblem
<1>3. DOMAIN values = Defined(shim.parameters, Len(shim.parameters) + 1)
  BY DEF KeysInv
<1>4. \A r \in t.refs : r.form = "field"
  BY DEF Plain
<1>. QED
  BY <1>2, <1>3, <1>4, PlainRenders

(* Nor does one in params.Resolve.                                         *)
LEMMA ParameterRenders ==
  ASSUME TypeOK, KeysInv, Resolving({"template"}), Ready(shim), Plain(shim)
  PROVE  ~RenderFails(shim.parameters[at].template, values)
<1>. DEFINE t == shim.parameters[at].template
<1>1. stage = "resolve" /\ at <= Len(shim.parameters) /\ shim.parameters[at].source = "template"
  BY DEF Resolving
<1>2. at \in Nat \ {0}
  BY DEF TypeOK
<1>3. shim.parameters \in Seq(Parameter) /\ Len(shim.parameters) \in Nat
  BY ShimParts
<1>4. at \in DOMAIN shim.parameters
  BY <1>1, <1>2, <1>3
<1>5. ~ParameterProblem(shim.parameters, at)
  BY <1>4, ReadyChecks
<1>6. t.parses /\ ReferencedKeys(t) \subseteq Defined(shim.parameters, at)
  BY <1>1, <1>5 DEF ParameterProblem
<1>7. DOMAIN values = Defined(shim.parameters, at)
  BY <1>1 DEF KeysInv
<1>8. \A r \in t.refs : r.form = "field"
  BY <1>4 DEF Plain
<1>. HIDE DEF t
<1>9. ~RenderFails(t, values)
  BY <1>6, <1>7, <1>8, PlainRenders
<1>. QED
  BY <1>9 DEF t

(* The keys are as KeysInv says.                                           *)
LEMMA KeysInvariant == Spec => []KeysInv
<1>1. Init => KeysInv
  <2>. SUFFICES ASSUME Init PROVE KeysInv
    OBVIOUS
  <2>1. /\ values = [k \in Builtins |-> {<<"builtin", "", k>>}] /\ at = 1
        /\ stage = "match" /\ reason = "" /\ result = ""
    BY DEF Init
  <2>2. DOMAIN values = Builtins
    BY <2>1
  <2>3. at = 1 => \A i \in 1..(at - 1) : FALSE
    OBVIOUS
  <2>4. DOMAIN values = Defined(shim.parameters, at)
    BY <2>1, <2>2, <2>3 DEF Defined
  <2>. QED
    BY <2>1, <2>4 DEF KeysInv
<1>2. TypeOK /\ KeysInv /\ [Next]_vars => KeysInv'
  <2>. SUFFICES ASSUME TypeOK, KeysInv, [Next]_vars PROVE KeysInv'
    OBVIOUS
  <2>0. at \in Nat \ {0}
    BY DEF TypeOK
  <2>1. ASSUME NEW why \in {"selector", "parameter", "configMap", "file", "audience", "size"},
               Stop("skipped", why)
        PROVE  KeysInv'
    BY <2>1 DEF Stop, KeysInv
  <2>2. ASSUME Stop("skipped", "template"), ~(Ready(shim) /\ Plain(shim))
        PROVE  KeysInv'
    <3>1. shim' = shim /\ stage' = "done" /\ result' = "skipped" /\ reason' = "template"
      BY <2>2, SMTT(30) DEF Stop, inputs
    <3>2. ~(Ready(shim) /\ Plain(shim))'
      BY <2>2, <3>1 DEF Ready, Plain, validateShim, Templates
    <3>. QED
      BY <3>1, <3>2 DEF KeysInv
  <2>3. ASSUME NEW value, Bind(shim.parameters[at], value), stage = "resolve"
        PROVE  KeysInv'
    <3>1. /\ DOMAIN values' = DOMAIN values \cup {shim.parameters[at].name}
          /\ at' = at + 1 /\ stage' = "resolve"
          /\ UNCHANGED <<shim, result, reason>>
      BY <2>3 DEF Bind, Continue, inputs
    <3>2. DOMAIN values = Defined(shim.parameters, at) /\ reason = "" /\ result = ""
      BY <2>3 DEF KeysInv
    <3>3. DOMAIN values' = Defined(shim.parameters, at + 1)
      BY <2>0, <3>1, <3>2, DefinedExtends
    <3>4. (DOMAIN values = Defined(shim.parameters, at))'
      BY <3>1, <3>3, SMTT(30) DEF Defined
    <3>. QED
      BY <3>1, <3>2, <3>4 DEF KeysInv
  <2>4. ASSUME NEW found, NEW value, Settle(shim.parameters[at], found, value),
               stage = "resolve"
        PROVE  KeysInv'
    BY <2>1, <2>3, <2>4 DEF Settle
  <2>5. ASSUME NEW next \in {"resolve", "render", "files", "conf"}, Continue(next),
               values' = values, stage # "done",
               next = "resolve" => stage = "match" /\ at' = at,
               next = "render" => stage = "resolve" /\ at > Len(shim.parameters),
               next = "files" => stage \in {"render", "files"},
               next = "conf" => stage = "files"
        PROVE  KeysInv'
    <3>1. UNCHANGED <<shim, result, reason>> /\ stage' = next /\ reason = "" /\ result = ""
      BY <2>5 DEF Continue, inputs, KeysInv
    <3>2. CASE next = "resolve"
      <4>1. DOMAIN values = Defined(shim.parameters, at)
        BY <2>5, <3>2 DEF KeysInv
      <4>2. (DOMAIN values = Defined(shim.parameters, at))'
        BY <2>5, <3>1, <3>2, <4>1 DEF Defined
      <4>. QED
        BY <3>1, <3>2, <4>2 DEF KeysInv
    <3>3. ASSUME next # "resolve",
                 DOMAIN values = Defined(shim.parameters, Len(shim.parameters) + 1)
          PROVE  KeysInv'
      <4>1. (DOMAIN values = Defined(shim.parameters, Len(shim.parameters) + 1))'
        BY <2>5, <3>1, <3>3 DEF Defined
      <4>. QED
        BY <3>1, <3>3, <4>1 DEF KeysInv
    <3>4. CASE next = "render"
      <4>1. at <= Len(shim.parameters) + 1 /\ at > Len(shim.parameters)
        BY <2>5, <3>4 DEF TypeOK
      <4>2. Len(shim.parameters) \in Nat
        BY ShimParts
      <4>3. at = Len(shim.parameters) + 1
        BY <2>0, <4>1, <4>2
      <4>4. DOMAIN values = Defined(shim.parameters, at)
        BY <2>5, <3>4 DEF KeysInv
      <4>. QED
        BY <3>3, <3>4, <4>3, <4>4
    <3>5. CASE next \in {"files", "conf"}
      <4>1. DOMAIN values = Defined(shim.parameters, Len(shim.parameters) + 1)
        BY <2>5, <3>5 DEF KeysInv
      <4>. QED
        BY <3>3, <3>5, <4>1
    <3>. QED
      BY <3>2, <3>4, <3>5
  <2>6. CASE SelectorInvalid \/ ConfigMapFails \/ RefuseFile \/ AudienceEmpty \/ TooLarge
    BY <2>1, <2>6 DEF SelectorInvalid, ConfigMapFails, RefuseFile, AudienceEmpty, TooLarge
  <2>7. CASE NotMatched \/ Planned
    BY <2>7 DEF NotMatched, Planned, Stop, KeysInv
  <2>8. CASE Matched
    BY <2>5, <2>8 DEF Matched
  <2>9. CASE ResolveStatic \/ ResolveMetadata \/ ResolveConfigMap \/ ResolveTemplate
    BY <2>4, <2>9 DEF ResolveStatic, ResolveMetadata, ResolveConfigMap, ResolveTemplate,
                      Resolving
  <2>10. CASE ParameterTemplateFails
    BY <2>2, <2>10, ParameterRenders DEF ParameterTemplateFails
  <2>11. CASE Resolved
    BY <2>5, <2>11 DEF Resolved
  <2>12. CASE RenderStrings
    BY <2>5, <2>12 DEF RenderStrings
  <2>13. CASE AddFile
    BY <2>5, <2>13 DEF AddFile, AtFile
  <2>14. CASE AllFiles
    BY <2>5, <2>14 DEF AllFiles
  <2>15. CASE StringTemplateFails
    <3>1. PICK t \in Templates(shim) : RenderFails(t, values)
      BY <2>15 DEF StringTemplateFails, Strings, Templates
    <3>2. stage = "render" /\ Stop("skipped", "template")
      BY <2>15 DEF StringTemplateFails
    <3>. QED
      BY <2>2, <3>1, <3>2, TemplatesRender
  <2>16. CASE FileTemplateFails
    <3>1. /\ stage = "files" /\ at <= Len(shim.files) /\ Stop("skipped", "template")
          /\ RenderFails(shim.files[at].content, values)
      BY <2>16 DEF FileTemplateFails, AtFile
    <3>2. shim.files \in Seq(File) /\ Len(shim.files) \in Nat
      BY ShimParts
    <3>3. at \in DOMAIN shim.files
      BY <2>0, <3>1, <3>2
    <3>4. shim.files[at].content \in Templates(shim)
      BY <3>3, SMTT(30) DEF Templates
    <3>. QED
      BY <2>2, <3>1, <3>4, TemplatesRender
  <2>17. CASE UNCHANGED vars
    BY <2>17 DEF vars, KeysInv, Defined, Ready, Plain, validateShim, Templates
  <2>. QED
    BY <2>6, <2>7, <2>8, <2>9, <2>10, <2>11, <2>12, <2>13, <2>14, <2>15, <2>16, <2>17
    DEF Next
<1>. QED
  BY <1>1, <1>2, PlanningTypeCorrect, PTL DEF Spec

(* Every reason to skip a shim that lies in its spec alone is one that     *)
(* validateShim reports, for every shim with plain templates; the run on   *)
(* other templates shows that the hypothesis is needed.                    *)
THEOREM ReadyIsBuildable == Spec => [](Plain(shim) => ReadySkippedOnlyForPod)
<1>1. TypeOK /\ KeysInv /\ RulesAgree => (Plain(shim) => ReadySkippedOnlyForPod)
  <2>. SUFFICES ASSUME TypeOK, KeysInv, RulesAgree, Plain(shim), Ready(shim),
                       result = "skipped"
                PROVE  reason \in {"parameter", "configMap", "audience", "size"}
    BY DEF ReadySkippedOnlyForPod
  <2>1. reason # "" /\ reason # "template"
    BY DEF KeysInv
  <2>2. "files" \in DOMAIN validateShim(shim) /\ "selection" \in DOMAIN validateShim(shim)
    BY DEF validateShim
  <2>3. validateShim(shim).files /\ validateShim(shim).selection
    BY <2>2 DEF Ready
  <2>4. reason # "file" /\ reason # "selector"
    BY <2>3 DEF RulesAgree
  <2>. QED
    BY <2>1, <2>4 DEF TypeOK
<1>. QED
  BY <1>1, PlanningTypeCorrect, KeysInvariant, ControllerAndWebhookAgree, PTL

(* params.Resolve assigns each name of a Ready shim once: Validate refuses *)
(* the builtins' names and repeated ones.                                  *)
THEOREM NamesKeepTheirValues == Spec => ResolvedOnce
<1>1. TypeOK /\ KeysInv /\ [Next]_vars =>
        [Ready(shim) => \A k \in DOMAIN values : values'[k] = values[k]]_vars
  <2>. SUFFICES ASSUME TypeOK, KeysInv, Next, Ready(shim), NEW k \in DOMAIN values
                PROVE  values'[k] = values[k]
    OBVIOUS
  <2>1. ASSUME NEW value, Bind(shim.parameters[at], value), stage = "resolve",
               at <= Len(shim.parameters)
        PROVE  values'[k] = values[k]
    <3>1. at \in Nat \ {0}
      BY DEF TypeOK
    <3>2. shim.parameters \in Seq(Parameter) /\ Len(shim.parameters) \in Nat
      BY ShimParts
    <3>3. at \in DOMAIN shim.parameters
      BY <2>1, <3>1, <3>2
    <3>4. ~ParameterProblem(shim.parameters, at)
      BY <3>3, ReadyChecks
    <3>5. shim.parameters[at].name \notin Defined(shim.parameters, at)
      BY <3>4 DEF ParameterProblem, Defined
    <3>6. k # shim.parameters[at].name
      BY <2>1, <3>5 DEF KeysInv
    <3>. QED
      BY <2>1, <3>6 DEF Bind
  <2>2. ASSUME NEW found, NEW value, Settle(shim.parameters[at], found, value),
               stage = "resolve", at <= Len(shim.parameters)
        PROVE  values'[k] = values[k]
    BY <2>1, <2>2 DEF Settle, Stop
  <2>3. CASE ResolveStatic \/ ResolveMetadata \/ ResolveConfigMap \/ ResolveTemplate
    BY <2>2, <2>3 DEF ResolveStatic, ResolveMetadata, ResolveConfigMap, ResolveTemplate,
                      Resolving
  <2>4. CASE SelectorInvalid \/ NotMatched \/ Matched \/ ConfigMapFails
             \/ ParameterTemplateFails \/ Resolved \/ RenderStrings
    BY <2>4 DEF SelectorInvalid, NotMatched, Matched, ConfigMapFails,
                ParameterTemplateFails, Resolved, RenderStrings, Stop
  <2>5. CASE StringTemplateFails \/ FileTemplateFails \/ RefuseFile \/ AddFile
             \/ AllFiles \/ AudienceEmpty \/ TooLarge \/ Planned
    BY <2>5 DEF StringTemplateFails, FileTemplateFails, RefuseFile, AddFile,
                AllFiles, AudienceEmpty, TooLarge, Planned, Stop
  <2>. QED
    BY <2>3, <2>4, <2>5 DEF Next
<1>. QED
  BY <1>1, PlanningTypeCorrect, KeysInvariant, PTL DEF Spec, ResolvedOnce

-----------------------------------------------------------------------------
(* What a hidden key holds stays out of the values and of the texts.       *)

Parameters == {shim.parameters[n] : n \in DOMAIN shim.parameters}

(* The origin is not a key that an object of higher precedence has, too.   *)
Unmasked(o) ==
  \A p \in Parameters : \A i \in 1..3 : \A j \in 1..(i - 1) :
    o = <<Precedence[i], p.source, p.key>> =>
      p.key \notin DOMAIN Metadata(p, target, Precedence[j])

(* A template reads the values, so it is the values that must be clean,    *)
(* and each text that has been rendered from them.                         *)
MaskInv ==
  /\ \A k \in DOMAIN values : \A o \in values[k] : Unmasked(o)
  /\ \A v \in {audience} \cup rendered : \A o \in v : Unmasked(o)
  /\ \A i \in DOMAIN files : \A o \in files[i].content : Unmasked(o)

(* What is not metadata is not hidden by metadata.                         *)
LEMMA OthersUnmasked ==
  ASSUME NEW a \in {"template", "static", "default", "configMap", "builtin"}, NEW b, NEW c
  PROVE  Unmasked(<<a, b, c>>)
<1>1. \A i \in 1..3 : Precedence[i] \in {"pod", "serviceAccount", "namespace"}
  BY DEF Precedence
<1>2. \A i \in 1..3 : a # Precedence[i]
  BY <1>1
<1>3. \A i \in 1..3 : \A d, e : <<a, b, c>> # <<Precedence[i], d, e>>
  BY <1>2
<1>. QED
  BY <1>3, Zenon DEF Unmasked

(* The first object that has the key hides the others.                     *)
LEMMA FirstUnmasked ==
  ASSUME NEW q, NEW o \in LookedUp(q, target)
  PROVE  Unmasked(o)
<1>1. PICK n \in lookupMetadata(q, target) : o = <<Precedence[n], q.source, q.key>>
  BY Zenon DEF LookedUp
<1>2. n \in 1..3 /\ \A j \in Holders(q, target) : n <= j
  BY <1>1, Zenon DEF lookupMetadata, Holders
<1>. SUFFICES ASSUME NEW p \in Parameters, NEW i \in 1..3, NEW j \in 1..(i - 1),
                     o = <<Precedence[i], p.source, p.key>>,
                     p.key \in DOMAIN Metadata(p, target, Precedence[j])
              PROVE  FALSE
  BY Zenon DEF Unmasked
<1>3. Precedence[n] = Precedence[i] /\ q.source = p.source /\ q.key = p.key
  BY <1>1
<1>4. n = i
  BY <1>2, <1>3 DEF Precedence
<1>5. Metadata(p, target, Precedence[j]) = Metadata(q, target, Precedence[j])
  BY <1>3, Zenon DEF Metadata
<1>6. j \in 1..3 /\ ~(n <= j)
  BY <1>4
<1>7. j \in Holders(q, target)
  BY <1>3, <1>5, <1>6, Zenon DEF Holders
<1>. QED
  BY <1>2, <1>6, <1>7, Zenon

(* Rendering adds nothing to the values but the template's own text.       *)
LEMMA RenderUnmasked ==
  ASSUME NEW t, ~RenderFails(t, values), \A k \in DOMAIN values : \A o \in values[k] : Unmasked(o),
         NEW o \in Render(t, values)
  PROVE  Unmasked(o)
<1>1. o = <<"template", "", "">> \/ \E r \in Executed(t, values) : o \in values[r.key]
  BY Zenon DEF Render
<1>2. \A r \in Executed(t, values) : r.key \in DOMAIN values
  BY Zenon DEF RenderFails
<1>3. Unmasked(<<"template", "", "">>)
  BY OthersUnmasked
<1>. QED
  BY <1>1, <1>2, <1>3, Zenon

(* While the shim and the pod stay, so does what is hidden.                *)
LEMMA UnmaskedKept ==
  ASSUME UNCHANGED <<shim, target>>, NEW o
  PROVE  Unmasked(o)' <=> Unmasked(o)
BY DEF Unmasked, Parameters

(* A parameter that is bound to a clean value leaves the values clean.     *)
LEMMA SettleUnmasked ==
  ASSUME MaskInv, NEW p, NEW found, NEW value, \A o \in value : Unmasked(o),
         Settle(p, found, value)
  PROVE  MaskInv'
<1>0. \A o \in {<<"default", "", p.name>>} : Unmasked(o)
  BY OthersUnmasked
<1>1. ASSUME NEW v, \A o \in v : Unmasked(o), Bind(p, v)
      PROVE  MaskInv'
  <2>1. /\ UNCHANGED <<shim, target, audience, rendered, files>>
        /\ DOMAIN values' = DOMAIN values \cup {p.name}
        /\ \A k \in DOMAIN values' : values'[k] = IF k = p.name THEN v ELSE values[k]
    BY <1>1 DEF Bind, Continue, inputs, output
  <2>2. \A o : Unmasked(o)' <=> Unmasked(o)
    BY <2>1, UnmaskedKept
  <2>3. \A k \in DOMAIN values' : \A o \in values'[k] : Unmasked(o)
    BY <1>1, <2>1, Zenon DEF MaskInv
  <2>. QED
    BY <2>1, <2>2, <2>3, Zenon DEF MaskInv
<1>2. CASE Stop("skipped", "parameter")
  <2>1. UNCHANGED <<shim, target, audience, rendered, files, values>>
    BY <1>2 DEF Stop, inputs, output
  <2>2. \A o : Unmasked(o)' <=> Unmasked(o)
    BY <2>1, UnmaskedKept
  <2>. QED
    BY <2>1, <2>2, Zenon DEF MaskInv
<1>. QED
  BY <1>0, <1>1, <1>2, Zenon DEF Settle

(* The texts are as MaskInv says.                                         *)
LEMMA MaskInvariant == Spec => []MaskInv
<1>1. Init => MaskInv
  <2>. SUFFICES ASSUME Init PROVE MaskInv
    OBVIOUS
  <2>1. \A k \in DOMAIN values : values[k] = {<<"builtin", "", k>>}
    BY DEF Init
  <2>2. audience = {} /\ rendered = {} /\ files = <<>>
    BY DEF Init
  <2>3. DOMAIN files = {}
    BY <2>2
  <2>4. \A k : Unmasked(<<"builtin", "", k>>)
    BY OthersUnmasked
  <2>5. \A k \in DOMAIN values : \A o \in values[k] : Unmasked(o)
    BY <2>1, <2>4, Zenon
  <2>. QED
    BY <2>2, <2>3, <2>5, Zenon DEF MaskInv
<1>2. TypeOK /\ MaskInv /\ [Next]_vars => MaskInv'
  <2>. SUFFICES ASSUME TypeOK, MaskInv, [Next]_vars PROVE MaskInv'
    OBVIOUS
  <2>1. ASSUME UNCHANGED <<shim, target, values, audience, rendered, files>>
        PROVE  MaskInv'
    <3>1. \A o : Unmasked(o)' <=> Unmasked(o)
      BY <2>1, UnmaskedKept
    <3>. QED
      BY <2>1, <3>1, Zenon DEF MaskInv
  <2>2. CASE ResolveStatic \/ ResolveConfigMap
    <3>1. PICK p, found, value :
            /\ Settle(p, found, value)
            /\ value \in {{}, {<<"static", "", p.name>>}, {<<"configMap", "", p.name>>}}
      BY <2>2, Zenon DEF ResolveStatic, ResolveConfigMap
    <3>2. Unmasked(<<"static", "", p.name>>) /\ Unmasked(<<"configMap", "", p.name>>)
      BY OthersUnmasked
    <3>3. \A o \in value : Unmasked(o)
      BY <3>1, <3>2, Zenon
    <3>. QED
      BY <3>1, <3>3, SettleUnmasked, Zenon
  <2>3. CASE ResolveMetadata
    BY <2>3, FirstUnmasked, SettleUnmasked, Zenon DEF ResolveMetadata
  <2>4. CASE ResolveTemplate
    <3>1. \A t : ~RenderFails(t, values) => \A o \in Render(t, values) : Unmasked(o)
      BY RenderUnmasked, Zenon DEF MaskInv
    <3>. QED
      BY <2>4, <3>1, SettleUnmasked, Zenon DEF ResolveTemplate
  <2>5. CASE RenderStrings
    <3>1. /\ UNCHANGED <<shim, target, values, files>>
          /\ audience' = Render(shim.audience, values)
          /\ rendered' = {Render(t, values) : t \in shim.extraAudiences \cup shim.env}
          /\ \A t \in Strings(shim) : ~RenderFails(t, values)
      BY <2>5 DEF RenderStrings, Continue, inputs
    <3>2. \A o : Unmasked(o)' <=> Unmasked(o)
      BY <3>1, UnmaskedKept
    <3>3. \A t \in Strings(shim) : \A o \in Render(t, values) : Unmasked(o)
      BY <3>1, RenderUnmasked, Zenon DEF MaskInv
    <3>4. \A v \in {audience'} \cup rendered' : \A o \in v : Unmasked(o)
      BY <3>1, <3>3, Zenon DEF Strings
    <3>. QED
      BY <3>1, <3>2, <3>4, Zenon DEF MaskInv
  <2>6. CASE AddFile
    <3>1. /\ UNCHANGED <<shim, target, values, audience, rendered>>
          /\ ~RenderFails(shim.files[at].content, values)
      BY <2>6 DEF AddFile, Continue, inputs
    <3>2. PICK text, f : /\ text = Render(shim.files[at].content, values)
                         /\ f = [path |-> shim.files[at].path, content |-> text]
                         /\ files' = Append(files, f)
      BY <2>6, Zenon DEF AddFile
    <3>3. \A o : Unmasked(o)' <=> Unmasked(o)
      BY <3>1, UnmaskedKept
    <3>4. \A o \in f.content : Unmasked(o)
      BY <3>1, <3>2, RenderUnmasked DEF MaskInv
    <3>5. files \in Seq(Rendered)
      BY DEF TypeOK
    <3>6. \A i \in DOMAIN files' : (i \in DOMAIN files /\ files'[i] = files[i]) \/ files'[i] = f
      BY <3>2, <3>5
    <3>7. \A i \in DOMAIN files' : \A o \in files'[i].content : Unmasked(o)
      BY <3>4, <3>6, Zenon DEF MaskInv
    <3>. QED
      BY <3>1, <3>3, <3>7, Zenon DEF MaskInv
  <2>7. CASE SelectorInvalid \/ NotMatched \/ Matched \/ ConfigMapFails
             \/ ParameterTemplateFails \/ Resolved \/ UNCHANGED vars
    BY <2>1, <2>7 DEF SelectorInvalid, NotMatched, Matched, ConfigMapFails,
                      ParameterTemplateFails, Resolved, Stop, Continue, inputs, output, vars
  <2>8. CASE StringTemplateFails \/ FileTemplateFails \/ RefuseFile
             \/ AllFiles \/ AudienceEmpty \/ TooLarge \/ Planned
    BY <2>1, <2>8 DEF StringTemplateFails, FileTemplateFails, RefuseFile,
                      AllFiles, AudienceEmpty, TooLarge, Planned, Stop, Continue, inputs, output
  <2>. QED
    BY <2>2, <2>3, <2>4, <2>5, <2>6, <2>7, <2>8 DEF Next
<1>. QED
  BY <1>1, <1>2, PlanningTypeCorrect, PTL DEF Spec

(* lookupMetadata takes the first object that has the key, so nothing of a *)
(* hidden value reaches a plan, through any chain of templates.            *)
THEOREM HiddenStaysOut == Spec => []MaskedStaysOut
<1>1. MaskInv => MaskedStaysOut
  BY Zenon DEF MaskInv, MaskedStaysOut, Contents, Unmasked, Parameters
<1>. QED
  BY <1>1, MaskInvariant, PTL

-----------------------------------------------------------------------------
(* A required parameter that is settled has a value.                       *)

Satisfied(n) ==
  LET p == shim.parameters[n]
  IN  p.required /\ p.default = "none" =>
        /\ p.source = "template" => p.name \in DOMAIN values /\ values[p.name] # {}
        /\ p.source \in {"annotation", "label"} => Holders(p, target) # {}

RequiredInv ==
  /\ stage # "done" => result = ""
  /\ stage = "match" => at = 1
  /\ stage = "resolve" => \A n \in 1..(at - 1) : Satisfied(n)
  /\ stage \in {"render", "files", "conf"} \/ result = "planned" =>
       \A n \in DOMAIN shim.parameters : Satisfied(n)

(* Settling a parameter leaves the ones before it alone.                   *)
LEMMA SettleRequired ==
  ASSUME ParametersIdentified, TypeOK, RequiredInv, NEW p, p = shim.parameters[at],
         stage = "resolve", at <= Len(shim.parameters),
         NEW found \in BOOLEAN, NEW value, Settle(p, found, value),
         found /\ p.source = "template" => value # {},
         found /\ p.source \in {"annotation", "label"} => Holders(p, target) # {}
  PROVE  RequiredInv'
<1>0. shim.parameters \in Seq(Parameter)
  BY ShimParts
<1>1. /\ at \in Nat \ {0} /\ Len(shim.parameters) \in Nat /\ shim \in Shims
      /\ DOMAIN shim.parameters = 1..Len(shim.parameters)
  <2>1. at \in Nat \ {0} /\ shim \in Shims
    BY DEF TypeOK
  <2>. QED
    BY <1>0, <2>1
<1>2. CASE Stop("skipped", "parameter")
  BY <1>2 DEF Stop, RequiredInv
<1>3. CASE \E v : Bind(p, v) /\ (p.required /\ p.default = "none" => found /\ v = value)
  <2>1. PICK v : Bind(p, v) /\ (p.required /\ p.default = "none" => found /\ v = value)
    BY <1>3
  <2>2. /\ UNCHANGED <<shim, target, result>> /\ stage' = "resolve" /\ at' = at + 1
        /\ DOMAIN values' = DOMAIN values \cup {p.name}
        /\ \A k \in DOMAIN values' : values'[k] = IF k = p.name THEN v ELSE values[k]
    BY <2>1 DEF Bind, Continue, inputs
  <2>3. ASSUME NEW n \in 1..(at - 1)
        PROVE  Satisfied(n)'
    <3>1. Satisfied(n)
      BY DEF RequiredInv
    <3>2. n \in DOMAIN shim.parameters /\ at \in DOMAIN shim.parameters /\ n # at
      BY <1>1
    <3>3. shim.parameters[n].name # p.name
      BY <1>1, <3>2, Zenon DEF ParametersIdentified
    <3>. QED
      BY <2>2, <3>1, <3>3, Zenon DEF Satisfied
  <2>4. ASSUME NEW n, n = at
        PROVE  Satisfied(n)'
    BY <2>1, <2>2, <2>4, Zenon DEF Satisfied
  <2>5. \A n \in 1..at : n \in 1..(at - 1) \/ n = at
    BY <1>1
  <2>6. \A n \in 1..(at' - 1) : Satisfied(n)'
    BY <1>1, <2>2, <2>3, <2>4, <2>5
  <2>7. result' = ""
    BY <2>2 DEF RequiredInv
  <2>. QED
    BY <2>2, <2>6, <2>7 DEF RequiredInv
<1>. QED
  BY <1>2, <1>3, Zenon DEF Settle

(* Every step keeps what RequiredInv says.                                 *)
LEMMA RequiredStep ==
  ASSUME ParametersIdentified, TypeOK, RequiredInv, [Next]_vars
  PROVE  RequiredInv'
<1>1. ASSUME NEW why, Stop("skipped", why) PROVE RequiredInv'
  BY <1>1 DEF Stop, RequiredInv
<1>2. ASSUME UNCHANGED <<shim, target, values>>, NEW n PROVE Satisfied(n)' <=> Satisfied(n)
  BY <1>2 DEF Satisfied
<1>3. CASE NotMatched
  BY <1>3 DEF NotMatched, Stop, RequiredInv
<1>4. CASE Matched
  <2>1. stage' = "resolve" /\ at' = 1 /\ result' = ""
    BY <1>4 DEF Matched, Continue, RequiredInv
  <2>2. \A m : m = 1 => 1..(m - 1) = {}
    OBVIOUS
  <2>3. 1..(at' - 1) = {}
    BY <2>1, <2>2, Zenon
  <2>. QED
    BY <2>1, <2>3 DEF RequiredInv
<1>5. CASE ResolveStatic \/ ResolveConfigMap
  <2>1. PICK p, found, value :
          /\ p = shim.parameters[at] /\ Settle(p, found, value) /\ found \in {TRUE, FALSE}
          /\ stage = "resolve" /\ at <= Len(shim.parameters)
          /\ p.source \in {"static"} \cup {"configMap"}
    <3>1. CASE ResolveStatic
      BY <3>1, Zenon DEF ResolveStatic, Resolving
    <3>2. CASE ResolveConfigMap
      BY <3>2, Zenon DEF ResolveConfigMap, Resolving
    <3>. QED
      BY <1>5, <3>1, <3>2, Zenon
  <2>2. p.source # "template" /\ p.source \notin {"annotation", "label"}
    BY <2>1
  <2>. QED
    BY <2>1, <2>2, SettleRequired, Zenon
<1>6. CASE ResolveMetadata
  <2>1. PICK p :
          /\ p = shim.parameters[at]
          /\ Settle(p, lookupMetadata(p, target) # {}, LookedUp(p, target))
          /\ stage = "resolve" /\ at <= Len(shim.parameters)
          /\ p.source \in {"annotation", "label"}
    BY <1>6, Zenon DEF ResolveMetadata, Resolving
  <2>2. p.source # "template"
    BY <2>1
  <2>3. lookupMetadata(p, target) # {} => Holders(p, target) # {}
    BY DEF lookupMetadata
  <2>. QED
    BY <2>1, <2>2, <2>3, SettleRequired, Zenon
<1>7. CASE ResolveTemplate
  <2>1. PICK p, value :
          /\ p = shim.parameters[at] /\ Settle(p, value # {}, value)
          /\ stage = "resolve" /\ at <= Len(shim.parameters)
          /\ p.source = "template"
    BY <1>7, Zenon DEF ResolveTemplate, Resolving
  <2>2. p.source \notin {"annotation", "label"}
    BY <2>1
  <2>. QED
    BY <2>1, <2>2, SettleRequired, Zenon
<1>8. CASE Resolved
  <2>1. /\ UNCHANGED <<shim, target, values, result>> /\ stage' = "render"
        /\ stage = "resolve" /\ at > Len(shim.parameters)
    BY <1>8 DEF Resolved, Continue, inputs
  <2>2. at \in Nat /\ shim.parameters \in Seq(Parameter)
    BY ShimParts DEF TypeOK
  <2>3. \A n \in DOMAIN shim.parameters : n \in 1..(at - 1)
    BY <2>1, <2>2
  <2>4. \A n \in DOMAIN shim.parameters : Satisfied(n)'
    BY <1>2, <2>1, <2>3, Zenon DEF RequiredInv
  <2>. QED
    BY <2>1, <2>4 DEF RequiredInv
<1>9. CASE RenderStrings \/ AddFile \/ AllFiles
  <2>1. /\ UNCHANGED <<shim, target, values, result>> /\ stage' \in {"files", "conf"}
        /\ stage \in {"render", "files"}
    BY <1>9 DEF RenderStrings, AddFile, AllFiles, AtFile, Continue, inputs
  <2>2. \A n \in DOMAIN shim.parameters : Satisfied(n)'
    BY <1>2, <2>1 DEF RequiredInv
  <2>. QED
    BY <2>1, <2>2 DEF RequiredInv
<1>10. CASE Planned
  <2>1. UNCHANGED <<shim, target, values>> /\ stage' = "done" /\ stage = "conf"
    BY <1>10 DEF Planned, Stop, inputs
  <2>2. \A n \in DOMAIN shim.parameters : Satisfied(n)'
    BY <1>2, <2>1 DEF RequiredInv
  <2>. QED
    BY <2>1, <2>2 DEF RequiredInv
<1>11. CASE \/ SelectorInvalid \/ ConfigMapFails \/ ParameterTemplateFails
            \/ StringTemplateFails \/ FileTemplateFails \/ RefuseFile
            \/ AudienceEmpty \/ TooLarge
  BY <1>1, <1>11 DEF SelectorInvalid, ConfigMapFails, ParameterTemplateFails, TooLarge,
                     StringTemplateFails, FileTemplateFails, RefuseFile, AudienceEmpty
<1>12. CASE UNCHANGED vars
  <2>1. UNCHANGED <<shim, target, values, result, stage, at>>
    BY <1>12 DEF vars
  <2>. QED
    BY <1>2, <2>1, Zenon DEF RequiredInv
<1>. QED
  BY <1>3, <1>4, <1>5, <1>6, <1>7, <1>8, <1>9, <1>10, <1>11, <1>12 DEF Next

(* A pod that leaves a required parameter without a value gets no plan,    *)
(* for every shim that the API server stores: names are the list's keys.   *)
THEOREM RequiredIsGiven == ParametersIdentified => (Spec => []RequiredHasValue)
<1>. SUFFICES ASSUME ParametersIdentified PROVE Spec => []RequiredHasValue
  BY Zenon
<1>1. Init => RequiredInv
  <2>. SUFFICES ASSUME Init PROVE RequiredInv
    OBVIOUS
  <2>1. stage = "match" /\ at = 1 /\ result = ""
    BY DEF Init
  <2>. QED
    BY <2>1 DEF RequiredInv
<1>2. TypeOK /\ RequiredInv /\ [Next]_vars => RequiredInv'
  BY RequiredStep
<1>3. RequiredInv => RequiredHasValue
  BY Zenon DEF RequiredInv, RequiredHasValue, Satisfied
<1>. QED
  BY <1>1, <1>2, <1>3, PlanningTypeCorrect, PTL DEF Spec

-----------------------------------------------------------------------------
(* The templates of a plan.                                                *)

(* What a rendering that succeeds shows of a template: it parses, and keys *)
(* that it reads outside of branches are there.                            *)
Reads(t, keys) == t.parses /\ \A r \in t.refs : r.when = "" => r.key \in keys

AllKeys == Defined(shim.parameters, Len(shim.parameters) + 1)

ParameterReads(n) ==
  shim.parameters[n].source = "template" =>
    Reads(shim.parameters[n].template, Defined(shim.parameters, n))

(* Every template that Resolve and BuildPlan have come past was rendered   *)
(* with the keys that the controller lets it use.                          *)
RenderedInv ==
  /\ stage # "done" => result = ""
  /\ stage = "match" => at = 1
  /\ stage = "render" => at = 1
  /\ stage = "resolve" => \A n \in 1..(at - 1) : ParameterReads(n)
  /\ stage \in {"render", "files", "conf"} \/ result = "planned" =>
       \A n \in DOMAIN shim.parameters : ParameterReads(n)
  /\ stage \in {"files", "conf"} \/ result = "planned" =>
       \A t \in Strings(shim) : Reads(t, AllKeys)
  /\ stage = "files" => \A n \in 1..(at - 1) : Reads(shim.files[n].content, AllKeys)
  /\ stage = "conf" \/ result = "planned" =>
       \A n \in DOMAIN shim.files : Reads(shim.files[n].content, AllKeys)

(* A template that renders has read its keys.                              *)
LEMMA RenderedReads ==
  ASSUME NEW t, ~RenderFails(t, values)
  PROVE  Reads(t, DOMAIN values)
BY Zenon DEF RenderFails, Executed, Reads

(* The last of a prefix.                                                   *)
LEMMA LastOfPrefix ==
  ASSUME NEW n \in Nat \ {0}
  PROVE  (\A m \in 1..n : m \in 1..(n - 1) \/ m = n) /\ (n + 1) - 1 = n
OBVIOUS

(* A parameter that is settled has had its template rendered.              *)
LEMMA SettleReads ==
  ASSUME TypeOK, RenderedInv, NEW p, p = shim.parameters[at],
         stage = "resolve", at <= Len(shim.parameters), ParameterReads(at),
         NEW found, NEW value, Settle(p, found, value)
  PROVE  RenderedInv'
<1>1. CASE Stop("skipped", "parameter")
  BY <1>1 DEF Stop, RenderedInv
<1>2. CASE \E v : Bind(p, v)
  <2>1. shim' = shim /\ result' = result /\ stage' = "resolve" /\ at' = at + 1
    BY <1>2 DEF Bind, Continue, inputs
  <2>2. at \in Nat \ {0} /\ result = ""
    BY DEF TypeOK, RenderedInv
  <2>3. \A n \in 1..at : n \in 1..(at - 1) \/ n = at
    BY <2>2, LastOfPrefix, Zenon
  <2>4. \A n \in 1..at : ParameterReads(n)
    BY <2>3 DEF RenderedInv
  <2>5. ASSUME NEW n PROVE ParameterReads(n)' <=> ParameterReads(n)
    BY <2>1 DEF ParameterReads
  <2>6. at' - 1 = at
    BY <2>1, <2>2, LastOfPrefix, Zenon
  <2>7. \A n \in 1..(at' - 1) : ParameterReads(n)'
    BY <2>4, <2>5, <2>6
  <2>. QED
    BY <2>1, <2>2, <2>7 DEF RenderedInv
<1>. QED
  BY <1>1, <1>2, Zenon DEF Settle

(* Every step of the loop over parameters keeps what RenderedInv says.     *)
LEMMA ResolveReads ==
  ASSUME TypeOK, KeysInv, RenderedInv,
         ResolveStatic \/ ResolveMetadata \/ ResolveConfigMap \/ ResolveTemplate
  PROVE  RenderedInv'
<1>1. PICK p, found, value :
        /\ p = shim.parameters[at] /\ Settle(p, found, value)
        /\ stage = "resolve" /\ at <= Len(shim.parameters)
        /\ \/ p.source \in {"static", "annotation", "label", "configMap"}
           \/ p.source = "template" /\ ~RenderFails(p.template, values)
  <2>1. CASE ResolveStatic
    BY <2>1, Zenon DEF ResolveStatic, Resolving
  <2>2. CASE ResolveMetadata
    BY <2>2, Zenon DEF ResolveMetadata, Resolving
  <2>3. CASE ResolveConfigMap
    BY <2>3, Zenon DEF ResolveConfigMap, Resolving
  <2>4. CASE ResolveTemplate
    BY <2>4, Zenon DEF ResolveTemplate, Resolving
  <2>. QED
    BY <2>1, <2>2, <2>3, <2>4, Zenon
<1>2. DOMAIN values = Defined(shim.parameters, at)
  BY <1>1, Zenon DEF KeysInv
<1>3. p.source = "template" => ~RenderFails(p.template, values)
  BY <1>1
<1>4. ParameterReads(at)
  BY <1>1, <1>2, <1>3, RenderedReads, Zenon DEF ParameterReads
<1>. QED
  BY <1>1, <1>4, SettleReads, Zenon

(* Every step keeps what RenderedInv says.                                 *)
LEMMA RenderedStep ==
  ASSUME TypeOK, KeysInv, RenderedInv, [Next]_vars
  PROVE  RenderedInv'
<1>1. ASSUME NEW why, Stop("skipped", why) PROVE RenderedInv'
  BY <1>1 DEF Stop, RenderedInv
<1>2. ASSUME shim' = shim, NEW n PROVE ParameterReads(n)' <=> ParameterReads(n)
  BY <1>2 DEF ParameterReads
<1>3. ASSUME shim' = shim PROVE AllKeys' = AllKeys /\ Strings(shim)' = Strings(shim)
  BY <1>3 DEF AllKeys, Strings
<1>4. CASE NotMatched
  BY <1>4 DEF NotMatched, Stop, RenderedInv
<1>5. CASE Matched
  <2>1. stage' = "resolve" /\ at' = 1 /\ result' = ""
    BY <1>5 DEF Matched, Continue, RenderedInv
  <2>2. \A m : m = 1 => 1..(m - 1) = {}
    OBVIOUS
  <2>3. 1..(at' - 1) = {}
    BY <2>1, <2>2, Zenon
  <2>. QED
    BY <2>1, <2>3 DEF RenderedInv
<1>6. CASE ResolveStatic \/ ResolveMetadata \/ ResolveConfigMap \/ ResolveTemplate
  BY <1>6, ResolveReads
<1>7. CASE Resolved
  <2>1. /\ shim' = shim /\ result' = result /\ stage' = "render" /\ at' = 1
        /\ stage = "resolve" /\ at > Len(shim.parameters)
    BY <1>7 DEF Resolved, Continue, inputs
  <2>2. at \in Nat /\ shim.parameters \in Seq(Parameter)
    BY ShimParts DEF TypeOK
  <2>3. \A n \in DOMAIN shim.parameters : n \in 1..(at - 1)
    BY <2>1, <2>2
  <2>4. \A n \in DOMAIN shim.parameters : ParameterReads(n)'
    BY <1>2, <2>1, <2>3, Zenon DEF RenderedInv
  <2>5. result' = ""
    BY <2>1 DEF RenderedInv
  <2>. QED
    BY <2>1, <2>4, <2>5 DEF RenderedInv
<1>8. ASSUME stage \in {"render", "files"}, NEW t, ~RenderFails(t, values)
      PROVE  Reads(t, AllKeys)
  <2>1. DOMAIN values = AllKeys
    BY <1>8 DEF KeysInv, AllKeys
  <2>. QED
    BY <1>8, <2>1, RenderedReads
<1>9. ASSUME RenderStrings \/ AddFile \/ AllFiles
      PROVE  /\ shim' = shim /\ result' = "" /\ stage' \in {"files", "conf"}
             /\ \A n \in DOMAIN shim.parameters : ParameterReads(n)'
  <2>1. /\ shim' = shim /\ result' = result /\ stage' \in {"files", "conf"}
        /\ stage \in {"render", "files"}
    BY <1>9 DEF RenderStrings, AddFile, AllFiles, AtFile, Continue, inputs
  <2>2. \A n \in DOMAIN shim.parameters : ParameterReads(n)'
    BY <1>2, <2>1 DEF RenderedInv
  <2>. QED
    BY <2>1, <2>2 DEF RenderedInv
<1>10. CASE RenderStrings
  <2>1. /\ stage = "render" /\ stage' = "files" /\ at' = at /\ at = 1
        /\ \A t \in Strings(shim) : ~RenderFails(t, values)
    BY <1>10 DEF RenderStrings, Continue, RenderedInv
  <2>2. \A t \in Strings(shim)' : Reads(t, AllKeys')
    BY <1>3, <1>8, <1>9, <1>10, <2>1
  <2>3. \A m : m = 1 => 1..(m - 1) = {}
    OBVIOUS
  <2>4. 1..(at' - 1) = {}
    BY <2>1, <2>3, Zenon
  <2>. QED
    BY <1>9, <1>10, <2>1, <2>2, <2>4 DEF RenderedInv
<1>11. CASE AddFile
  <2>1. /\ stage = "files" /\ stage' = "files" /\ at' = at + 1
        /\ ~RenderFails(shim.files[at].content, values)
    BY <1>11 DEF AddFile, AtFile, Continue
  <2>2. Reads(shim.files[at].content, AllKeys)
    BY <1>8, <2>1
  <2>3. at \in Nat \ {0}
    BY DEF TypeOK
  <2>4. \A n \in 1..at : n \in 1..(at - 1) \/ n = at
    BY <2>3
  <2>5. \A n \in 1..at : Reads(shim.files[n].content, AllKeys)
    BY <2>1, <2>2, <2>4 DEF RenderedInv
  <2>6. at' - 1 = at
    BY <2>1, <2>3
  <2>7. \A t \in Strings(shim) : Reads(t, AllKeys)
    BY <2>1 DEF RenderedInv
  <2>. QED
    BY <1>3, <1>9, <1>11, <2>1, <2>5, <2>6, <2>7 DEF RenderedInv
<1>12. CASE AllFiles
  <2>1. stage = "files" /\ stage' = "conf" /\ at > Len(shim.files)
    BY <1>12 DEF AllFiles, Continue
  <2>2. at \in Nat /\ shim.files \in Seq(File)
    BY ShimParts DEF TypeOK
  <2>3. \A n \in DOMAIN shim.files : n \in 1..(at - 1)
    BY <2>1, <2>2
  <2>4. \A n \in DOMAIN shim.files : Reads(shim.files[n].content, AllKeys)
    BY <2>1, <2>3 DEF RenderedInv
  <2>5. \A t \in Strings(shim) : Reads(t, AllKeys)
    BY <2>1 DEF RenderedInv
  <2>. QED
    BY <1>3, <1>9, <1>12, <2>1, <2>4, <2>5 DEF RenderedInv
<1>13. CASE Planned
  <2>1. shim' = shim /\ stage' = "done" /\ stage = "conf"
    BY <1>13 DEF Planned, Stop, inputs
  <2>2. \A n \in DOMAIN shim.parameters : ParameterReads(n)'
    BY <1>2, <2>1 DEF RenderedInv
  <2>3. /\ \A t \in Strings(shim) : Reads(t, AllKeys)
        /\ \A n \in DOMAIN shim.files : Reads(shim.files[n].content, AllKeys)
    BY <2>1 DEF RenderedInv
  <2>. QED
    BY <1>3, <2>1, <2>2, <2>3 DEF RenderedInv
<1>14. CASE \/ SelectorInvalid \/ ConfigMapFails \/ ParameterTemplateFails
            \/ StringTemplateFails \/ FileTemplateFails \/ RefuseFile
            \/ AudienceEmpty \/ TooLarge
  BY <1>1, <1>14 DEF SelectorInvalid, ConfigMapFails, ParameterTemplateFails, TooLarge,
                     StringTemplateFails, FileTemplateFails, RefuseFile, AudienceEmpty
<1>15. CASE UNCHANGED vars
  <2>1. UNCHANGED <<shim, result, stage, at>>
    BY <1>15 DEF vars
  <2>. QED
    BY <1>2, <1>3, <2>1, Zenon DEF RenderedInv
<1>. QED
  BY <1>4, <1>5, <1>6, <1>7, <1>10, <1>11, <1>12, <1>13, <1>14, <1>15 DEF Next

ParameterTemplates(s) ==
  {s.parameters[i].template : i \in {j \in DOMAIN s.parameters : s.parameters[j].source = "template"}}

(* A shim that is injected though the controller has found it invalid      *)
(* fails only checks that BuildPlan does without: the length of its name,  *)
(* its pull policy, the names of its parameters, and the keys in a branch  *)
(* of a template, which the controller reads even where it is not taken.   *)
InvalidPlannedOnlyUnchecked ==
  result = "planned" /\ ~Ready(shim) =>
    \/ shim.longName \/ shim.pullPolicy \notin PullPolicies
    \/ \E i \in DOMAIN shim.parameters :
         \/ shim.parameters[i].name \in Builtins
         \/ \E j \in 1..(i - 1) : shim.parameters[j].name = shim.parameters[i].name
    \/ \E t \in Templates(shim) \cup ParameterTemplates(shim) : \E r \in t.refs : r.when # ""

(* What a template without branches has read, the controller lets it read. *)
LEMMA ReadsUnbranched ==
  ASSUME NEW t, NEW keys, Reads(t, keys), \A r \in t.refs : r.when = ""
  PROVE  t.parses /\ ReferencedKeys(t) \subseteq keys
BY Zenon DEF Reads, ReferencedKeys

(* BuildPlan renders every template with the keys that validateShim lets   *)
(* it use, and repeats the rules for files and selectors: an invalid shim  *)
(* that is injected fails another check, whatever its templates and files. *)
THEOREM InvalidPlannedIsUnchecked == Spec => []InvalidPlannedOnlyUnchecked
<1>1. Init => RenderedInv
  <2>. SUFFICES ASSUME Init PROVE RenderedInv
    OBVIOUS
  <2>1. stage = "match" /\ at = 1 /\ result = ""
    BY DEF Init
  <2>. QED
    BY <2>1 DEF RenderedInv
<1>2. TypeOK /\ KeysInv /\ RenderedInv /\ [Next]_vars => RenderedInv'
  BY RenderedStep
<1>3. TypeOK /\ RenderedInv /\ RulesAgree => InvalidPlannedOnlyUnchecked
  <2>. DEFINE branched == \E t \in Templates(shim) \cup ParameterTemplates(shim) :
                            \E r \in t.refs : r.when # ""
              named(i) == \/ shim.parameters[i].name \in Builtins
                          \/ \E j \in 1..(i - 1) : shim.parameters[j].name = shim.parameters[i].name
  <2>. SUFFICES ASSUME TypeOK, RenderedInv, RulesAgree, result = "planned",
                       ~shim.longName, shim.pullPolicy \in PullPolicies,
                       ~branched, \A i \in DOMAIN shim.parameters : ~named(i)
                PROVE  Ready(shim)
    BY Zenon DEF InvalidPlannedOnlyUnchecked
  <2>1. ASSUME NEW t \in Templates(shim) PROVE ~TemplateProblem(shim, t)
    <3>1. Reads(t, AllKeys)
      BY Zenon DEF RenderedInv, Templates, Strings
    <3>2. \A r \in t.refs : r.when = ""
      BY Zenon
    <3>. QED
      BY <3>1, <3>2, ReadsUnbranched, Zenon DEF TemplateProblem, AllKeys
  <2>2. ASSUME NEW i \in DOMAIN shim.parameters PROVE ~ParameterProblem(shim.parameters, i)
    <3>1. CASE shim.parameters[i].source = "template"
      <4>1. shim.parameters[i].template \in ParameterTemplates(shim)
        BY <3>1, Zenon DEF ParameterTemplates
      <4>2. \A r \in shim.parameters[i].template.refs : r.when = ""
        BY <4>1, Zenon
      <4>3. Reads(shim.parameters[i].template, Defined(shim.parameters, i))
        BY <3>1, Zenon DEF RenderedInv, ParameterReads
      <4>. QED
        BY <4>2, <4>3, ReadsUnbranched, Zenon DEF ParameterProblem
    <3>2. CASE shim.parameters[i].source # "template"
      BY <3>2, Zenon DEF ParameterProblem
    <3>. QED
      BY <3>1, <3>2, Zenon
  <2>3. validateShim(shim).files /\ validateShim(shim).selection
    BY Zenon DEF RulesAgree
  <2>4. /\ validateShim(shim).parameters /\ validateShim(shim).templates
        /\ validateShim(shim).name /\ validateShim(shim).helper
    BY <2>1, <2>2, Zenon DEF validateShim
  <2>5. DOMAIN validateShim(shim) =
          {"name", "parameters", "selection", "helper", "templates", "files"}
    BY DEF validateShim
  <2>6. \A check \in DOMAIN validateShim(shim) : validateShim(shim)[check]
    BY <2>3, <2>4, <2>5, Zenon
  <2>. QED
    BY <2>6, Zenon DEF Ready
<1>. QED
  BY <1>1, <1>2, <1>3, PlanningTypeCorrect, KeysInvariant, ControllerAndWebhookAgree, PTL DEF Spec

=============================================================================
