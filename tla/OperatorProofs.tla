--------------------------- MODULE OperatorProofs ---------------------------
(***************************************************************************)
(* What is proved of the operator's own process: the options that its main *)
(* hands to the handler, for every environment and every command line, and *)
(* the endpoint of its webhook, for any number of pods and disruptions.    *)
(***************************************************************************)
EXTENDS Startup, Availability, FiniteSetTheorems, TLAPS

-----------------------------------------------------------------------------
(* Startup.                                                                *)

(* A name that some element of a list flag on the command line writes out. *)
WrittenOut(name) ==
  \E i \in DOMAIN args :
    /\ args[i].flag \in Lists
    /\ \E e \in DOMAIN args[i].raw : args[i].raw[e].name = name

(* Options are those of Defaults with some replaced, the operator's        *)
(* namespace comes from the environment alone, and every excluded name or  *)
(* prefix is the default one or an element of a flag that is not blank.    *)
OptsInv ==
  /\ args \in Seq([flag : Flags, raw : UNION {FlagValues[f] : f \in Flags}])
  /\ DOMAIN opts = DOMAIN Defaults
  /\ opts = [f \in DOMAIN opts |-> opts[f]]
  /\ pc = "start" => opts = Defaults
  /\ pc # "start" =>
       opts.operatorNamespace = IF env.podNamespace # <<>> THEN env.podNamespace ELSE <<>>
  /\ \A n \in opts.excludedNamespaces : n # <<>> /\ WrittenOut(n)
  /\ \A n \in opts.excludedNamespacePrefixes : n # <<>> /\ (n = <<"kube-">> \/ WrittenOut(n))

(* Where the option f comes from: its last flag, or else the environment,  *)
(* or else the default.                                                    *)
Images == <<env.helperImage, env.relatedImage, Defaults.spiffeHelperImage>>
Given(f) == {i \in DOMAIN args : args[i].flag = f}
LastGiven(f, i) == i \in Given(f) /\ \A j \in Given(f) : j <= i
FromImage(i) ==
  /\ Images[i] # "" /\ opts.spiffeHelperImage = Images[i]
  /\ \A j \in 1..(i - 1) : Images[j] = ""
Sourced(f) ==
  \/ \E i \in DOMAIN args : LastGiven(f, i) /\ opts[f] = FlagValue(f, args[i].raw)
  \/ Given(f) = {} /\ f # "spiffeHelperImage" /\ opts[f] = Defaults[f]
  \/ Given(f) = {} /\ f = "spiffeHelperImage" /\ \E i \in 1..3 : FromImage(i)

SourcesInv ==
  /\ pc = "start" => args = <<>>
  /\ pc # "start" => \A f \in Flags : Sourced(f)

(* The handler holds the options that main ended with.                     *)
HandlersInv ==
  /\ handlers \subseteq {opts}
  /\ handlers # {} => pc \notin {"start", "parse"}

OptionsInv == OptsInv /\ HandlersInv

(* Nothing is excluded by name at first, and kube- by prefix.              *)
LEMMA OptionsInit == StartupInit => OptionsInv
  BY DEF StartupInit, OptionsInv, OptsInv, HandlersInv, Defaults

(* A flag that is added at the end leaves what was written out written.    *)
LEMMA StillWrittenOut ==
  ASSUME NEW a, NEW n, args \in Seq(a), NEW x \in a, args' = Append(args, x), WrittenOut(n)
  PROVE  WrittenOut(n)'
  BY DEF WrittenOut

(* main and its helpers preserve the invariant.                            *)
LEMMA OptionsStep == OptionsInv /\ [StartupNext]_startupVars => OptionsInv'
<1> SUFFICES ASSUME OptionsInv, [StartupNext]_startupVars PROVE OptionsInv'
  OBVIOUS
<1>1. CASE ReadEnvironment
  <2>1. /\ opts = Defaults /\ handlers' = {} /\ args' = args /\ pc' = "parse"
        /\ env' = env /\ opts' = ApplyEnv(opts)
    BY <1>1 DEF ReadEnvironment, OptionsInv, OptsInv, HandlersInv
  <2>2. /\ DOMAIN opts' = DOMAIN Defaults
        /\ opts' = [f \in DOMAIN opts' |-> opts'[f]]
    BY <2>1, Zenon DEF OptionsInv, OptsInv, ApplyEnv
  <2>3. /\ opts'.excludedNamespaces = opts.excludedNamespaces
        /\ opts'.excludedNamespacePrefixes = opts.excludedNamespacePrefixes
    BY <2>1 DEF ApplyEnv, Defaults
  <2>4. opts'.operatorNamespace = IF env.podNamespace # <<>> THEN env.podNamespace ELSE <<>>
    BY <2>1 DEF ApplyEnv, Defaults
  <2> QED
    BY <2>1, <2>2, <2>3, <2>4 DEF OptionsInv, OptsInv, HandlersInv, WrittenOut
<1>2. ASSUME NEW f \in Flags, NEW raw \in FlagValues[f], ParseFlag(f, raw) PROVE OptionsInv'
  <2>1. CASE raw = Malformed
    BY <1>2, <2>1 DEF ParseFlag, OptionsInv, OptsInv, HandlersInv, WrittenOut
  <2>2. CASE raw # Malformed
    <3> DEFINE arg == [flag |-> f, raw |-> raw]
               Arg == [flag : Flags, raw : UNION {FlagValues[g] : g \in Flags}]
    <3>1. /\ args' = Append(args, arg)
          /\ opts' = [opts EXCEPT ![f] = FlagValue(f, raw)]
          /\ pc = "parse" /\ pc' = pc /\ env' = env /\ handlers' = handlers
      BY <1>2, <2>2 DEF ParseFlag
    <3>2. arg \in Arg /\ args \in Seq(Arg)
      BY DEF OptionsInv, OptsInv
    <3>3. args' \in Seq(Arg) /\ handlers = {}
      BY <3>1, <3>2 DEF OptionsInv, HandlersInv
    <3>4. /\ DOMAIN opts' = DOMAIN Defaults
          /\ opts' = [g \in DOMAIN opts' |-> opts'[g]]
          /\ \A g \in DOMAIN Defaults :
               opts'[g] = IF g = f THEN FlagValue(f, raw) ELSE opts[g]
      BY <3>1, Zenon DEF OptionsInv, OptsInv
    <3>5. opts'.operatorNamespace = opts.operatorNamespace
      BY <3>4 DEF Flags, Lists, Texts, Defaults
    <3>6. ASSUME NEW n, WrittenOut(n) PROVE WrittenOut(n)'
      BY <3>1, <3>2, <3>6, StillWrittenOut, Zenon
    <3>7. ASSUME f \in Lists, NEW n \in FlagValue(f, raw) PROVE n # <<>> /\ WrittenOut(n)'
      <4>1. Len(args') \in DOMAIN args' /\ args'[Len(args')] = arg
        BY <3>1, <3>2
      <4>2. n # <<>> /\ \E e \in DOMAIN raw : raw[e].name = n
        BY <3>7 DEF FlagValue, SplitList
      <4> QED
        BY <4>1, <4>2, <3>7 DEF WrittenOut
    <3>8. \A n \in opts'.excludedNamespaces : n # <<>> /\ WrittenOut(n)'
      BY <3>4, <3>6, <3>7 DEF OptionsInv, OptsInv, Lists, Defaults
    <3>9. \A n \in opts'.excludedNamespacePrefixes :
            n # <<>> /\ (n = <<"kube-">> \/ WrittenOut(n)')
      BY <3>4, <3>6, <3>7 DEF OptionsInv, OptsInv, Lists, Defaults
    <3> QED
      BY <3>1, <3>3, <3>4, <3>5, <3>8, <3>9 DEF OptionsInv, OptsInv, HandlersInv
  <2> QED
    BY <2>1, <2>2
<1>3. CASE ValidateOptions \/ SetUp \/ SetUpFails \/ Stop
  BY <1>3 DEF ValidateOptions, SetUp, SetUpFails, Stop, OptionsInv, OptsInv, HandlersInv, WrittenOut, After
<1>4. CASE UNCHANGED startupVars
  BY <1>4 DEF startupVars, OptionsInv, OptsInv, HandlersInv, WrittenOut
<1> QED BY <1>1, <1>2, <1>3, <1>4 DEF StartupNext

(* The invariant holds in every state.                                     *)
LEMMA OptionsHold == StartupSpec => []OptionsInv
  BY OptionsInit, OptionsStep, PTL DEF StartupSpec

(* The images by their order.                                              *)
LEMMA ImageList ==
  /\ Images[1] = env.helperImage
  /\ Images[2] = env.relatedImage
  /\ Images[3] = Defaults.spiffeHelperImage
  BY DEF Images

(* A step that changes no option, flag or variable changes no source.      *)
LEMMA SameSources ==
  ASSUME args' = args, opts' = opts, env' = env, NEW f
  PROVE  Sourced(f) => Sourced(f)'
<1>1. Images' = Images /\ Given(f)' = Given(f)
  BY DEF Images, Given
<1>2. \A i : FromImage(i)' <=> FromImage(i)
  BY <1>1 DEF FromImage
<1>3. \A i : LastGiven(f, i)' <=> LastGiven(f, i)
  BY <1>1 DEF LastGiven
<1> QED
  BY <1>1, <1>2, <1>3 DEF Sourced

(* Reading the environment settles the image and leaves the other options. *)
LEMMA EnvironmentSourced ==
  ASSUME OptionsInv, SourcesInv, ReadEnvironment PROVE SourcesInv'
<1>1. /\ opts = Defaults /\ args' = <<>> /\ pc' = "parse"
      /\ env' = env /\ opts' = ApplyEnv(opts)
  BY DEF ReadEnvironment, OptionsInv, OptsInv, SourcesInv
<1>2. \A f \in Flags : Given(f)' = {}
  BY <1>1 DEF Given
<1>3. ASSUME NEW f \in Flags, f # "spiffeHelperImage" PROVE opts'[f] = Defaults[f]
  <2>1. f \in DOMAIN Defaults /\ f # "operatorNamespace"
    BY DEF Flags, Lists, Texts, Defaults
  <2> QED
    BY <1>1, <1>3, <2>1, Zenon DEF ApplyEnv
<1>4. opts'.spiffeHelperImage = IF env.helperImage # "" THEN env.helperImage
                                ELSE IF env.relatedImage # "" THEN env.relatedImage
                                ELSE Defaults.spiffeHelperImage
  BY <1>1 DEF ApplyEnv, Defaults
<1>5. Images' = Images /\ Defaults.spiffeHelperImage # ""
  BY <1>1 DEF Images, Defaults
<1>6. CASE env.helperImage # ""
  <2>1. /\ Images[1] # "" /\ opts'.spiffeHelperImage = Images[1]
        /\ \A j \in 1..(1 - 1) : Images[j] = ""
    <3>1. 1..(1 - 1) = {}
      OBVIOUS
    <3>2. Images[1] # "" /\ opts'.spiffeHelperImage = Images[1]
      BY <1>4, <1>5, <1>6, ImageList, Zenon
    <3>3. \A j \in {} : Images[j] = ""
      BY <1>6, ImageList, Zenon
    <3> QED
      BY <3>1, <3>2, <3>3, Zenon
  <2>2. FromImage(1)'
    BY <1>5, <2>1 DEF FromImage
  <2> QED
    BY <1>1, <1>2, <1>3, <2>2 DEF SourcesInv, Sourced
<1>7. CASE env.helperImage = "" /\ env.relatedImage # ""
  <2>1. /\ Images[2] # "" /\ opts'.spiffeHelperImage = Images[2]
        /\ \A j \in 1..(2 - 1) : Images[j] = ""
    <3>1. 1..(2 - 1) = {1}
      OBVIOUS
    <3>2. Images[2] # "" /\ opts'.spiffeHelperImage = Images[2]
      BY <1>4, <1>5, <1>7, ImageList, Zenon
    <3>3. \A j \in {1} : Images[j] = ""
      BY <1>7, ImageList, Zenon
    <3> QED
      BY <3>1, <3>2, <3>3, Zenon
  <2>2. FromImage(2)'
    BY <1>5, <2>1 DEF FromImage
  <2> QED
    BY <1>1, <1>2, <1>3, <2>2 DEF SourcesInv, Sourced
<1>8. CASE env.helperImage = "" /\ env.relatedImage = ""
  <2>1. /\ Images[3] # "" /\ opts'.spiffeHelperImage = Images[3]
        /\ \A j \in 1..(3 - 1) : Images[j] = ""
    <3>1. 1..(3 - 1) = {1, 2}
      OBVIOUS
    <3>2. Images[3] # "" /\ opts'.spiffeHelperImage = Images[3]
      BY <1>4, <1>5, <1>8, ImageList, Zenon
    <3>3. \A j \in {1, 2} : Images[j] = ""
      BY <1>8, ImageList, Zenon
    <3> QED
      BY <3>1, <3>2, <3>3, Zenon
  <2>2. FromImage(3)'
    BY <1>5, <2>1 DEF FromImage
  <2> QED
    BY <1>1, <1>2, <1>3, <2>2 DEF SourcesInv, Sourced
<1> QED
  BY <1>6, <1>7, <1>8

(* A flag is the last one for its own option and none for the others.      *)
LEMMA FlagSourced ==
  ASSUME OptionsInv, SourcesInv, NEW f \in Flags, NEW raw \in FlagValues[f], ParseFlag(f, raw)
  PROVE  SourcesInv'
<1>1. CASE raw = Malformed
  <2>1. args' = args /\ opts' = opts /\ env' = env /\ pc = "parse" /\ pc' = "exited"
    BY <1>1 DEF ParseFlag
  <2> QED
    BY <2>1, SameSources DEF SourcesInv
<1>2. CASE raw # Malformed
  <2> DEFINE arg == [flag |-> f, raw |-> raw]
             Arg == [flag : Flags, raw : UNION {FlagValues[g] : g \in Flags}]
  <2>1. /\ args' = Append(args, arg)
        /\ opts' = [opts EXCEPT ![f] = FlagValue(f, raw)]
        /\ pc = "parse" /\ pc' = pc /\ env' = env
    BY <1>2 DEF ParseFlag
  <2>2. arg \in Arg /\ args \in Seq(Arg)
    BY DEF OptionsInv, OptsInv
  <2>0. PICK last \in Nat : last = Len(args) + 1
    BY <2>2
  <2>3. /\ DOMAIN args' = DOMAIN args \cup {last} /\ DOMAIN args = 1..Len(args)
        /\ Len(args) \in Nat
        /\ args'[last] = arg /\ \A i \in DOMAIN args : args'[i] = args[i]
    BY <2>0, <2>1, <2>2
  <2>4. f \in DOMAIN opts /\ \A g \in Flags : g \in DOMAIN opts
    BY DEF OptionsInv, OptsInv, Defaults, Flags, Lists, Texts
  <2>5. opts'[f] = FlagValue(f, raw) /\ \A g \in Flags \ {f} : opts'[g] = opts[g]
    BY <2>1, <2>4
  <2>6. Sourced(f)'
    <3>1. LastGiven(f, last)'
      BY <2>0, <2>3 DEF LastGiven, Given
    <3> QED
      BY <2>3, <2>5, <3>1 DEF Sourced
  <2>7. ASSUME NEW g \in Flags \ {f} PROVE Sourced(g)'
    <3>1. Given(g)' = Given(g)
      BY <2>3 DEF Given
    <3>2. Sourced(g)
      BY <2>1 DEF SourcesInv
    <3>3. ASSUME NEW i \in DOMAIN args, LastGiven(g, i), opts[g] = FlagValue(g, args[i].raw)
          PROVE  Sourced(g)'
      <4>1. LastGiven(g, i)' /\ i \in DOMAIN args' /\ args'[i] = args[i]
        BY <2>3, <3>1, <3>3 DEF LastGiven
      <4> QED
        BY <2>5, <3>3, <4>1 DEF Sourced
    <3>4. CASE Given(g) = {} /\ g # "spiffeHelperImage" /\ opts[g] = Defaults[g]
      BY <2>5, <3>1, <3>4 DEF Sourced
    <3>5. CASE Given(g) = {} /\ g = "spiffeHelperImage" /\ \E i \in 1..3 : FromImage(i)
      <4>1. Images' = Images /\ opts'.spiffeHelperImage = opts.spiffeHelperImage
        BY <2>1, <2>5, <3>5 DEF Images
      <4>2. \E i \in 1..3 : FromImage(i)'
        BY <3>5, <4>1 DEF FromImage
      <4> QED
        BY <3>1, <3>5, <4>2 DEF Sourced
    <3> QED
      BY <3>2, <3>3, <3>4, <3>5 DEF Sourced
  <2> QED
    BY <2>1, <2>6, <2>7 DEF SourcesInv
<1> QED
  BY <1>1, <1>2

(* For every environment and command line each option of the handler is    *)
(* its last flag's value, or else the environment's, or else the default.  *)
THEOREM OptionPrecedence == StartupSpec => []FlagThenEnvThenDefault
<1>1. StartupInit => SourcesInv
  BY DEF StartupInit, SourcesInv
<1>2. OptionsInv /\ SourcesInv /\ [StartupNext]_startupVars => SourcesInv'
  <2> SUFFICES ASSUME OptionsInv, SourcesInv, [StartupNext]_startupVars PROVE SourcesInv'
    OBVIOUS
  <2>1. CASE ValidateOptions \/ SetUp \/ SetUpFails \/ Stop \/ UNCHANGED startupVars
    <3>1. /\ args' = args /\ opts' = opts /\ env' = env
          /\ (pc = "start") <=> (pc' = "start")
      BY <2>1 DEF ValidateOptions, SetUp, SetUpFails, Stop, startupVars, After
    <3> QED
      BY <3>1, SameSources DEF SourcesInv
  <2> QED
    BY <2>1, EnvironmentSourced, FlagSourced DEF StartupNext
<1>3. OptionsInv /\ SourcesInv => FlagThenEnvThenDefault
  <2> SUFFICES ASSUME OptionsInv, SourcesInv, NEW o \in handlers, NEW f \in Flags
               PROVE  \/ \E i \in Given(f) : /\ \A j \in Given(f) : j <= i
                                            /\ o[f] = FlagValue(f, args[i].raw)
                      \/ Given(f) = {} /\ f # "spiffeHelperImage" /\ o[f] = Defaults[f]
                      \/ /\ Given(f) = {} /\ f = "spiffeHelperImage"
                         /\ \E i \in 1..3 : /\ Images[i] # "" /\ o[f] = Images[i]
                                            /\ \A j \in 1..(i - 1) : Images[j] = ""
    BY Zenon DEF FlagThenEnvThenDefault, Given, Images
  <2>1. o = opts /\ Sourced(f)
    BY DEF OptionsInv, HandlersInv, SourcesInv
  <2> QED
    BY <2>1 DEF Sourced, LastGiven, FromImage
<1> QED
  BY <1>1, <1>2, <1>3, OptionsHold, PTL DEF StartupSpec

(* For every environment and command line the handler leaves alone the     *)
(* operator's own namespace and that of the workload identity manager.     *)
THEOREM NeverInjectsIntoItself == StartupSpec => []OwnNamespaceExcluded
<1>1. OptionsInv => OwnNamespaceExcluded
  <2> SUFFICES ASSUME OptionsInv, NEW o \in handlers,
                      NEW n \in {env.podNamespace, o.ztwimNamespace} \ {<<>>}
               PROVE  n \in ExcludedNamespaceNames(o)
    BY DEF OwnNamespaceExcluded, Excluded
  <2>1. o = opts /\ pc # "start"
    BY DEF OptionsInv, HandlersInv
  <2> QED
    BY <2>1 DEF OptionsInv, OptsInv, ExcludedNamespaceNames
<1> QED
  BY <1>1, OptionsHold, PTL

(* For every environment and command line nothing is excluded that is not  *)
(* written out, so no blank element ever switches the webhook off.         *)
THEOREM BlanksExcludeNothing == StartupSpec => []ExcludedOnlyAsNamed
<1>1. OptionsInv => ExcludedOnlyAsNamed
  <2> SUFFICES ASSUME OptionsInv, NEW o \in handlers, NEW n \in Namespaces,
                      Excluded(ExcludedNamespaceNames(o), o.excludedNamespacePrefixes, n)
               PROVE  \/ n \in {env.podNamespace, o.ztwimNamespace}
                      \/ HasPrefix(n, <<"kube-">>)
                      \/ \E p : p # <<>> /\ HasPrefix(n, p) /\ WrittenOut(p)
    BY DEF ExcludedOnlyAsNamed, WrittenOut
  <2>1. o = opts /\ pc # "start"
    BY DEF OptionsInv, HandlersInv
  <2>2. CASE n \in ExcludedNamespaceNames(o)
    <3>1. CASE n \in opts.excludedNamespaces
      <4>1. HasPrefix(n, n)
        BY InputsTyped DEF HasPrefix
      <4> QED
        BY <2>1, <3>1, <4>1 DEF OptionsInv, OptsInv
    <3> QED
      BY <2>1, <2>2, <3>1 DEF OptionsInv, OptsInv, ExcludedNamespaceNames
  <2>3. ASSUME NEW p \in o.excludedNamespacePrefixes, HasPrefix(n, p)
        PROVE  HasPrefix(n, <<"kube-">>) \/ (p # <<>> /\ HasPrefix(n, p) /\ WrittenOut(p))
    BY <2>1, <2>3 DEF OptionsInv, OptsInv
  <2> QED
    BY <2>2, <2>3 DEF Excluded
<1> QED
  BY <1>1, OptionsHold, PTL

(* Once main is past Validate the options stay valid, and the handler that *)
(* it registers before it runs has them.                                   *)
ValidInv ==
  /\ pc \in DOMAIN After \cup {"start", "parse", "running", "exited"}
  /\ env \in Environments
  /\ Len(args) \in 0..MaxArgs
  /\ \A f \in Lists : opts[f] \subseteq Seq(STRING)
  /\ opts.maxRenderedBytes \in Int
  /\ pc \in DOMAIN After \cup {"running"} \/ handlers # {} => Validate(opts)
  /\ pc \in {"addMetricsCertWatcher", "addWebhookCertWatcher", "healthz", "readyz", "running"}
       => handlers # {}

(* The options of a list flag are names, those of the size are numbers.    *)
LEMMA FlagValueType ==
  ASSUME NEW f \in Flags, NEW raw \in FlagValues[f], raw # Malformed
  PROVE  /\ f \in Lists => FlagValue(f, raw) \subseteq Seq(STRING)
         /\ f = "maxRenderedBytes" => FlagValue(f, raw) \in Int
<1>1. CASE f \in Lists
  <2>1. \A i \in DOMAIN raw : raw[i].name \in Seq(STRING)
    BY <1>1, InputsTyped DEF Elements
  <2>2. FlagValue(f, raw) \subseteq Seq(STRING)
    BY <1>1, <2>1, Zenon DEF FlagValue, SplitList
  <2>3. f # "maxRenderedBytes"
    BY <1>1 DEF Lists
  <2>. QED
    BY <2>2, <2>3
<1>2. CASE f \notin Lists
  <2>1. FlagValue(f, raw) = raw
    BY <1>2, Zenon DEF FlagValue
  <2>. QED
    BY <1>2, <2>1, InputsTyped
<1>. QED
  BY <1>1, <1>2

(* Every step of main keeps what ValidInv says.                            *)
LEMMA ValidStep ==
  ASSUME OptionsInv, ValidInv, [StartupNext]_startupVars
  PROVE  ValidInv'
<1>1. CASE ReadEnvironment
  <2>1. /\ opts = Defaults /\ pc' = "parse" /\ opts' = ApplyEnv(opts)
        /\ UNCHANGED <<env, args, handlers>> /\ handlers = {}
    BY <1>1 DEF ReadEnvironment, OptionsInv, OptsInv, HandlersInv
  <2>2. /\ \A f \in Lists : opts'[f] = opts[f]
        /\ opts'.maxRenderedBytes = opts.maxRenderedBytes
    BY <2>1 DEF ApplyEnv, Defaults, Lists
  <2>3. /\ "parse" \notin DOMAIN After \cup {"running"}
        /\ "parse" \notin {"addMetricsCertWatcher", "addWebhookCertWatcher", "healthz", "readyz",
                           "running"}
    BY DEF After
  <2>. QED
    BY <2>1, <2>2, <2>3 DEF ValidInv
<1>2. ASSUME NEW f \in Flags, NEW raw \in FlagValues[f], ParseFlag(f, raw) PROVE ValidInv'
  <2>1. /\ pc = "parse" /\ UNCHANGED <<env, handlers>> /\ handlers = {} /\ Len(args) < MaxArgs
    BY <1>2 DEF ParseFlag, OptionsInv, HandlersInv
  <2>2. /\ "parse" \notin DOMAIN After \cup {"running"}
        /\ "exited" \notin DOMAIN After \cup {"running"}
        /\ \A p \in {"parse", "exited"} :
             p \notin {"addMetricsCertWatcher", "addWebhookCertWatcher", "healthz", "readyz",
                       "running"}
    BY DEF After
  <2>3. CASE raw = Malformed
    <3>1. pc' = "exited" /\ UNCHANGED <<args, opts>>
      BY <1>2, <2>3 DEF ParseFlag
    <3>. QED
      BY <2>1, <2>2, <3>1 DEF ValidInv
  <2>4. CASE raw # Malformed
    <3>1. /\ args' = Append(args, [flag |-> f, raw |-> raw]) /\ pc' = "parse"
          /\ opts' = [opts EXCEPT ![f] = FlagValue(f, raw)]
      BY <1>2, <2>1, <2>4 DEF ParseFlag
    <3>2. Len(args') \in 0..MaxArgs
      <4>1. PICK S : args \in Seq(S)
        BY DEF OptionsInv, OptsInv
      <4>2. MaxArgs \in Nat
        BY InputsTyped
      <4>3. PICK x : args' = Append(args, x)
        BY <3>1, Zenon
      <4>4. Len(args') = Len(args) + 1 /\ Len(args) \in Nat
        BY <4>1, <4>3
      <4>. QED
        BY <2>1, <4>2, <4>4
    <3>3. \A g \in DOMAIN Defaults : opts'[g] = IF g = f THEN FlagValue(f, raw) ELSE opts[g]
      BY <3>1, Zenon DEF OptionsInv, OptsInv
    <3>4. Lists \cup {"maxRenderedBytes"} \subseteq DOMAIN Defaults
      BY DEF Lists, Defaults
    <3>5. /\ \A g \in Lists : opts'[g] \subseteq Seq(STRING)
          /\ opts'.maxRenderedBytes \in Int
      BY <2>4, <3>3, <3>4, FlagValueType DEF ValidInv
    <3>. QED
      BY <2>1, <2>2, <3>1, <3>2, <3>5 DEF ValidInv
  <2>. QED
    BY <2>3, <2>4
<1>3. CASE ValidateOptions
  <2>1. /\ UNCHANGED <<env, args, opts, handlers>> /\ handlers = {}
        /\ \/ Validate(opts) /\ pc' = "webhookCertWatcher"
           \/ pc' = "exited"
    BY <1>3, Zenon DEF ValidateOptions, OptionsInv, HandlersInv
  <2>2. Validate(opts)' <=> Validate(opts)
    BY <2>1 DEF Validate
  <2>. QED
    BY <2>1, <2>2 DEF ValidInv, After
<1>4. CASE SetUp
  <2>1. /\ UNCHANGED <<env, args, opts>> /\ pc \in DOMAIN After /\ pc' = After[pc]
        /\ handlers' = IF pc = "podWebhook" THEN {opts} ELSE handlers
    BY <1>4 DEF SetUp
  <2>2. Validate(opts)' <=> Validate(opts)
    BY <2>1 DEF Validate
  <2>3. pc' \in DOMAIN After \cup {"running"}
    BY <2>1 DEF After
  <2>4. pc' \in {"addMetricsCertWatcher", "addWebhookCertWatcher", "healthz", "readyz", "running"}
          => pc \in {"podWebhook", "addMetricsCertWatcher", "addWebhookCertWatcher", "healthz",
                     "readyz"}
    BY <2>1 DEF After
  <2>. QED
    BY <2>1, <2>2, <2>3, <2>4 DEF ValidInv
<1>5. CASE SetUpFails \/ Stop
  <2>1. UNCHANGED <<env, args, opts, handlers>> /\ pc' = "exited" /\ pc \in DOMAIN After \cup {"running"}
    BY <1>5 DEF SetUpFails, Stop
  <2>2. Validate(opts)' <=> Validate(opts)
    BY <2>1 DEF Validate
  <2>. QED
    BY <2>1, <2>2 DEF ValidInv
<1>6. CASE UNCHANGED startupVars
  <2>1. Validate(opts)' <=> Validate(opts)
    BY <1>6 DEF Validate, startupVars
  <2>. QED
    BY <1>6, <2>1 DEF ValidInv, startupVars
<1>. QED
  BY <1>1, <1>2, <1>3, <1>4, <1>5, <1>6 DEF StartupNext

(* A handler is only ever registered with options that Validate accepts,   *)
(* for every environment and command line, and main runs with one.         *)
THEOREM HandlersAreUsable == StartupSpec => []StartupTypeOK
<1>1. StartupInit => ValidInv
  <2>. SUFFICES ASSUME StartupInit PROVE ValidInv
    OBVIOUS
  <2>1. /\ pc = "start" /\ env \in Environments /\ args = <<>> /\ handlers = {}
        /\ opts = Defaults
    BY DEF StartupInit
  <2>2. \A f \in Lists : opts[f] \subseteq Seq(STRING)
    <3>1. <<"kube-">> \in Seq(STRING)
      BY LiteralTyped
    <3>2. opts.excludedNamespaces = {} /\ opts.excludedNamespacePrefixes = {<<"kube-">>}
      BY <2>1 DEF Defaults
    <3>. QED
      BY <3>1, <3>2, Zenon DEF Lists
  <2>3. opts.maxRenderedBytes \in Int
    BY <2>1 DEF Defaults
  <2>4. Len(args) \in 0..MaxArgs
    <3>1. MaxArgs \in Nat
      BY InputsTyped
    <3>. QED
      BY <2>1, <3>1
  <2>. QED
    BY <2>1, <2>2, <2>3, <2>4 DEF ValidInv, After
<1>2. OptionsInv /\ ValidInv /\ [StartupNext]_startupVars => ValidInv'
  BY ValidStep
<1>3. OptionsInv /\ ValidInv => StartupTypeOK
  <2>. SUFFICES ASSUME OptionsInv, ValidInv PROVE StartupTypeOK
    OBVIOUS
  <2>1. DOMAIN opts = Flags \cup {"operatorNamespace"}
    BY DEF OptionsInv, OptsInv, Flags, Lists, Texts, Defaults
  <2>2. handlers \subseteq {opts}
    BY DEF OptionsInv, HandlersInv
  <2>3. ASSUME NEW o \in handlers
        PROVE  /\ "" \notin {o[f] : f \in Texts}
               /\ o.spiffeHelperImagePullPolicy \in {"Always", "IfNotPresent", "Never"}
               /\ o.spiffeSocketMountPath \in AbsolutePaths
               /\ o.spiffeSocketFile \notin WithSlash
               /\ o.maxRenderedBytes \in Nat \ {0}
    <3>1. o = opts /\ Validate(o) /\ o.maxRenderedBytes \in Int
      BY <2>2 DEF ValidInv
    <3>2. \A f \in Texts : o[f] # ""
      BY <3>1, EmptyIsRelative, Zenon DEF Validate, Texts
    <3>3. "" \notin {o[f] : f \in Texts}
      BY <3>2, Zenon
    <3>4. o.maxRenderedBytes \in Nat \ {0}
      <4>1. o.maxRenderedBytes \in Int /\ o.maxRenderedBytes > 0
        BY <3>1, Zenon DEF Validate
      <4>. QED
        BY <4>1
    <3>. QED
      BY <3>1, <3>3, <3>4, Zenon DEF Validate
  <2>. QED
    BY <2>1, <2>2, <2>3 DEF ValidInv, StartupTypeOK
<1>. QED
  BY <1>1, <1>2, <1>3, OptionsHold, PTL DEF StartupSpec

-----------------------------------------------------------------------------
(* Availability: rollouts and drains never empty the endpoint of the       *)
(* webhook, and never send a call to a cold replica.                       *)


(* What holds as long as no process has ended by itself: the kubelet and   *)
(* the endpoints know as ready only processes that are, or that have been  *)
(* told to stop, and the replica behind the endpoint is never the last.    *)
Undisturbed ==
  exits = 0 =>
    /\ \A s \in Slots : podReady[s] => Readyz(s)
    /\ \A s \in Slots : s \in endpoints \cup {callee} => phase[s] = "terminating" \/ ready[s]
    /\ endpoints # {} => \E s \in Slots : podReady[s]

Inv == TypeOK /\ Undisturbed

(* The cluster without the operator satisfies the invariant.               *)
LEMMA InitInv == Init => Inv
  BY SlotsAssumption, CountsAssumption, SMTT(30)
  DEF Init, Inv, TypeOK, Undisturbed, Phases, Live, Readyz

(* The type invariant is inductive by itself.                              *)
LEMMA TypeStep == TypeOK /\ [Next]_vars => TypeOK'
<1> SUFFICES ASSUME TypeOK, [Next]_vars PROVE TypeOK'
  OBVIOUS
<1> USE SlotsAssumption, CountsAssumption DEF TypeOK, Phases, Live
<1>1. ASSUME NEW s \in Slots, Setup(s) PROVE TypeOK'
  BY <1>1 DEF Setup, Fresh
<1>2. ASSUME NEW s \in Slots, StartCache(s) PROVE TypeOK'
  BY <1>2 DEF StartCache
<1>3. ASSUME NEW s \in Slots, AcquireLease(s) PROVE TypeOK'
  BY <1>3 DEF AcquireLease
<1>4. ASSUME NEW s \in Slots, GetInformer(s) PROVE TypeOK'
  BY <1>4 DEF GetInformer, Warming
<1>5. ASSUME NEW s \in Slots, StoreReady(s) PROVE TypeOK'
  BY <1>5 DEF StoreReady, WarmedUp, Warming
<1>6. ASSUME NEW s \in Slots, Exit(s) PROVE TypeOK'
  BY <1>6 DEF Exit, Disrupt, Fresh
<1>7. ASSUME NEW s \in Slots, Probe(s) PROVE TypeOK'
  BY <1>7 DEF Probe, Readyz
<1>8. ASSUME NEW s \in Slots, CreatePod(s) PROVE TypeOK'
  BY <1>8 DEF CreatePod, Fresh
<1>9. ASSUME NEW s \in Slots, Gone(s) PROVE TypeOK'
  BY <1>9 DEF Gone
<1>10. ASSUME NEW s \in Slots, Evict(s) PROVE TypeOK'
  BY <1>10 DEF Evict, Disrupt, Terminate, Fresh
<1>11. ASSUME NEW s \in Slots, ScaleDown(s) PROVE TypeOK'
  BY <1>11 DEF ScaleDown, Terminate, Fresh
<1>12. ASSUME NEW s \in Slots, Send(s) PROVE TypeOK'
  BY <1>12 DEF Send
<1>13. CASE UpdateEndpoints
  BY <1>13 DEF UpdateEndpoints, Available
<1>14. CASE Rollout
  BY <1>14 DEF Rollout, Disrupt
<1>15. CASE Answer \/ Fail \/ Ask
  BY <1>15 DEF Answer, Fail, Ask
<1>16. CASE UNCHANGED vars
  BY <1>16 DEF vars
<1> QED
  BY <1>1, <1>2, <1>3, <1>4, <1>5, <1>6, <1>7, <1>8, <1>9, <1>10, <1>11, <1>12,
     <1>13, <1>14, <1>15, <1>16, Zenon DEF Next

(* A set that has a positive number of elements has one.                   *)
LEMMA Inhabited == ASSUME NEW S, NEW n \in Nat \ {0}, Cardinality(S) >= n PROVE S # {}
  BY FS_EmptySet

(* A pod that is told to stop leaves another one that is ready.            *)
LEMMA TerminateStep ==
  ASSUME Inv, NEW s \in Slots, Terminate(s), Available \ {s} # {},
         UNCHANGED <<endpoints, callee, exits>>
  PROVE  Undisturbed'
<1>1. PICK t \in Slots : t # s /\ podReady[t]
  BY SMTT(30) DEF Available, Live
<1> QED
  BY <1>1 DEF Inv, TypeOK, Undisturbed, Terminate, Fresh, Readyz

(* The rest of the invariant is kept by every step.                        *)
LEMMA UndisturbedStep == Inv /\ [Next]_vars => Undisturbed'
<1> SUFFICES ASSUME Inv, [Next]_vars PROVE Undisturbed'
  OBVIOUS
<1> USE SlotsAssumption, CountsAssumption DEF Inv, TypeOK, Undisturbed, Readyz
<1>1. ASSUME NEW s \in Slots, Setup(s) PROVE Undisturbed'
  BY <1>1 DEF Setup, Fresh
<1>2. ASSUME NEW s \in Slots, StartCache(s) PROVE Undisturbed'
  BY <1>2 DEF StartCache
<1>3. ASSUME NEW s \in Slots, AcquireLease(s) PROVE Undisturbed'
  BY <1>3 DEF AcquireLease
<1>4. ASSUME NEW s \in Slots, GetInformer(s) PROVE Undisturbed'
  BY <1>4 DEF GetInformer
<1>5. ASSUME NEW s \in Slots, StoreReady(s) PROVE Undisturbed'
  BY <1>5 DEF StoreReady
<1>6. ASSUME NEW s \in Slots, Exit(s) PROVE Undisturbed'
  BY <1>6 DEF Exit
<1>7. ASSUME NEW s \in Slots, Probe(s) PROVE Undisturbed'
  BY <1>7 DEF Probe
<1>8. ASSUME NEW s \in Slots, CreatePod(s) PROVE Undisturbed'
  BY <1>8 DEF CreatePod, Fresh, Live
<1>9. ASSUME NEW s \in Slots, Gone(s) PROVE Undisturbed'
  BY <1>9, SMTT(30) DEF Gone
<1>10. ASSUME NEW s \in Slots, Evict(s) PROVE Undisturbed'
  <2>1. Available \ {s} # {}
    BY <1>10, Inhabited, SMTT(30) DEF Evict, Evictable, minAvailable
  <2> QED
    BY <1>10, <2>1, TerminateStep DEF Evict
<1>11. ASSUME NEW s \in Slots, ScaleDown(s) PROVE Undisturbed'
  <2>1. Available \ {s} # {}
    BY <1>11, Inhabited DEF ScaleDown, replicas
  <2> QED
    BY <1>11, <2>1, TerminateStep, Zenon DEF ScaleDown
<1>12. ASSUME NEW s \in Slots, Send(s) PROVE Undisturbed'
  BY <1>12 DEF Send
<1>13. CASE UpdateEndpoints
  BY <1>13 DEF UpdateEndpoints, Available, Live
<1>14. CASE Rollout
  BY <1>14 DEF Rollout
<1>15. CASE Answer \/ Fail \/ Ask
  BY <1>15 DEF Answer, Fail, Ask
<1>16. CASE UNCHANGED vars
  BY <1>16 DEF vars
<1> QED
  BY <1>1, <1>2, <1>3, <1>4, <1>5, <1>6, <1>7, <1>8, <1>9, <1>10, <1>11, <1>12,
     <1>13, <1>14, <1>15, <1>16, Zenon DEF Next

(* The invariant holds in every state.                                     *)
LEMMA InvHolds == Spec => []Inv
<1>1. Inv /\ [Next]_vars => Inv'
  BY TypeStep, UndisturbedStep DEF Inv
<1> QED
  BY InitInv, <1>1, PTL DEF Spec

(* Every variable keeps its type, and the Warmer's flag is set only when   *)
(* all informers are synced.                                               *)
THEOREM AvailabilityTypeCorrect == Spec => []TypeOK
<1>1. Inv => TypeOK
  BY DEF Inv
<1> QED
  BY InvHolds, <1>1, PTL

(* The readiness check keeps calls away from cold replicas.                *)
THEOREM NoColdCalls == Spec => []CalledWarm
<1>1. Inv => CalledWarm
  BY DEF Inv, TypeOK, Undisturbed, CalledWarm
<1> QED
  BY InvHolds, <1>1, PTL

(* Rollouts and drains never empty the endpoint.                           *)
THEOREM EndpointStaysFilled == Spec => EndpointNeverEmpty
<1>1. ASSUME Inv, [Next]_vars, endpoints # {}, exits = 0
      PROVE  endpoints' # {} /\ \E s \in Slots : Readyz(s)
  <2>1. PICK s \in Slots : podReady[s]
    BY <1>1 DEF Inv, Undisturbed
  <2>2. Readyz(s)
    BY <1>1, <2>1 DEF Inv, Undisturbed
  <2>3. s \in Available
    BY <1>1, <2>1, SMTT(30) DEF Inv, TypeOK, Available
  <2>4. endpoints' = endpoints \/ endpoints' = Available
    BY <1>1, Zenon DEF Next, vars, Setup, StartCache, AcquireLease,
       GetInformer, StoreReady, Exit, Probe, CreatePod, Gone, Evict, ScaleDown, Send,
       UpdateEndpoints, Rollout, Answer, Fail, Ask
  <2> QED
    BY <1>1, <2>2, <2>3, <2>4
<1> QED
  BY InvHolds, <1>1, PTL DEF Spec, EndpointNeverEmpty

=============================================================================
