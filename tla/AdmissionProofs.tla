------------------------ MODULE AdmissionProofs -------------------------
(***************************************************************************)
(* The invariant of Admission, that users, caches, the API server, the     *)
(* reads of Handle and the loops of buildPlans and Apply keep it, and what *)
(* follows: the theorems on fresh calls, misses and later calls, and that  *)
(* Admission implements AdmissionContract.                                 *)
(***************************************************************************)
EXTENDS Admission, TLAPS

-----------------------------------------------------------------------------
(* The invariant.                                                          *)

Values == UNION {Contents(k) : k \in Resources}
Shims == UNION (Contents("oidcshims") \cup Contents("clusteroidcshims"))
ReadSet == {log[j].configMap : j \in DOMAIN log} \cup {Failed}

(* The log holds only what it may, and each resource has a last change.    *)
LogInv ==
  /\ log \in Seq([Resources -> Values]) /\ log # <<>>
  /\ \A j \in DOMAIN log : \A k \in Resources : log[j][k] \in Contents(k)
  /\ \A k \in Resources : \E j \in Moments(k) :
       log[j][k] = Stored[k] /\ \A i \in Moments(k) : i <= j

PosInv ==
  /\ pos \in [Replicas -> [Informers -> DOMAIN log]]
  /\ \A r \in Replicas, k \in Informers : pos[r][k] \in Moments(k)

(* The first contents are a last change of everything.                     *)
LEMMA InitLog == Init => LogInv /\ PosInv
<1> SUFFICES ASSUME Init PROVE LogInv /\ PosInv
  OBVIOUS
<1>1. PICK s \in Stores : log = <<s>>
  BY DEF Init
<1>2. \A k \in Resources : s[k] \in Contents(k) /\ s[k] \in Values
  BY DEF Contents, Values
<1>3. s \in [Resources -> Values]
  BY <1>2, StoresTyped
<1>4. log \in Seq([Resources -> Values]) /\ DOMAIN log = {1} /\ log[1] = s /\ Len(log) = 1
  BY <1>1, <1>3
<1>5. \A k : Moments(k) = {1}
  BY <1>4 DEF Moments
<1>6. LogInv
  BY <1>2, <1>4, <1>5 DEF LogInv, Stored
<1>7. PosInv
  BY <1>4, <1>5 DEF PosInv, Init
<1> QED
  BY <1>6, <1>7

(* A change of one resource adds its last moment, and leaves the others.   *)
LEMMA ChangeLog ==
  ASSUME LogInv, PosInv, NEW k \in Resources, Change(k)
  PROVE  /\ LogInv' /\ PosInv'
         /\ DOMAIN log \subseteq DOMAIN log'
         /\ \A j \in DOMAIN log : log'[j] = log[j]
<1>1. PICK v \in Versions[k] \ {Stored[k]} : log' = Append(log, [Stored EXCEPT ![k] = v])
  BY DEF Change
<1> DEFINE new == [Stored EXCEPT ![k] = v]
<1>2. PICK n \in Nat \ {0} : n = Len(log)
  BY DEF LogInv
<1>3. /\ DOMAIN log = 1..n /\ Stored = log[n] /\ Stored \in [Resources -> Values]
      /\ \A x \in Resources : Stored[x] \in Contents(x)
  BY <1>2 DEF LogInv, Stored
<1>4. v \in Contents(k) /\ v \in Values
  BY DEF Contents, Values
<1>5. /\ new \in [Resources -> Values] /\ new[k] = v
      /\ \A x \in Resources \ {k} : new[x] = Stored[x]
  BY <1>3, <1>4
<1>6. /\ log' \in Seq([Resources -> Values]) /\ log' # <<>> /\ Len(log') = n + 1
      /\ DOMAIN log' = 1..(n + 1) /\ log'[n + 1] = new
      /\ \A j \in DOMAIN log : log'[j] = log[j]
  BY <1>1, <1>2, <1>3, <1>5 DEF LogInv
<1>7. Stored' = new
  BY <1>6 DEF Stored
<1>8. Moments(k)' = Moments(k) \cup {n + 1}
  BY <1>1, <1>3, <1>5, <1>6 DEF Moments
<1>9. \A x \in Resources \ {k} : Moments(x)' = Moments(x)
  BY <1>3, <1>5, <1>6 DEF Moments
<1>10. \A x : Moments(x) \subseteq 1..n
  BY <1>3 DEF Moments
<1>11. ASSUME NEW x \in Resources
       PROVE  \E j \in Moments(x)' : /\ log'[j][x] = Stored'[x]
                                     /\ \A i \in Moments(x)' : i <= j
  <2>1. CASE x = k
    <3>1. /\ n + 1 \in Moments(k)' /\ log'[n + 1][k] = Stored'[k]
          /\ \A i \in Moments(k)' : i <= n + 1
      BY <1>6, <1>7, <1>8, <1>10
    <3> QED
      BY <2>1, <3>1, Zenon
  <2>2. CASE x # k
    <3>1. PICK j \in Moments(x) : log[j][x] = Stored[x] /\ \A i \in Moments(x) : i <= j
      BY DEF LogInv
    <3> QED
      BY <1>3, <1>5, <1>6, <1>7, <1>9, <1>10, <2>2, <3>1
  <2> QED
    BY <2>1, <2>2
<1>12. \A j \in DOMAIN log' : \A x \in Resources : log'[j][x] \in Contents(x)
  BY <1>3, <1>4, <1>5, <1>6 DEF LogInv
<1>13. LogInv'
  BY <1>6, <1>11, <1>12 DEF LogInv
<1>14. pos' = pos /\ DOMAIN log \subseteq DOMAIN log'
  BY <1>3, <1>6 DEF Change
<1>15. \A x \in Resources : Moments(x) \subseteq Moments(x)'
  BY <1>8, <1>9
<1>16. PosInv'
  BY <1>14, <1>15 DEF PosInv, Resources
<1> QED
  BY <1>6, <1>13, <1>14, <1>16

-----------------------------------------------------------------------------
(* Types.                                                                  *)

PlanSet ==
  {PlanOf(s, Target(request, n, a), read) :
     s \in Shims, n \in Values, a \in Values, read \in Values \cup {Failed}}

CallType ==
  [pc : {"none", "called", "readServiceAccount", "listOIDCShims", "listClusterOIDCShims",
         "buildPlans", "answered"},
   replica : Replicas, namespace : Values \cup {NoValue},
   serviceAccount : Values \cup {NoValue}, listed : SUBSET Shims, todo : SUBSET Shims,
   plans : Seq(PlanSet), applied : SUBSET PlanSet, failed : SUBSET Shims,
   warned : SUBSET Shims, fresh : BOOLEAN]

PodType ==
  [phase : {"absent", "creating", "refused", "running"}, shims : SUBSET PlanSet,
   warned : SUBSET Shims, reinvoked : BOOLEAN]

TypeInv == call \in CallType /\ pod \in PodType

(* A call belongs to a pod that is being created, it reads only for a pod  *)
(* without shims, and exempt pods never get one.                           *)
PodInv ==
  /\ call.pc = "none" => call = NoCall
  /\ call.pc # "none" => pod.phase = "creating"
  /\ pod.phase \in {"absent", "refused"} => pod.shims = {}
  /\ Exempt(request) => pod.shims = {}
  /\ InCall /\ call.pc # "called" => ~Exempt(request) /\ pod.shims = {}

(* What has been read was in the log, each at a moment of its own.         *)
Shown(k, x) == \E j \in DOMAIN log : x = log[j][k]

ReadInv ==
  /\ call.pc \in {"readServiceAccount", "listOIDCShims", "listClusterOIDCShims", "buildPlans"}
       => Shown("namespace", call.namespace)
  /\ call.pc \in {"listOIDCShims", "listClusterOIDCShims", "buildPlans"}
       => Shown("serviceAccount", call.serviceAccount)
  /\ call.pc \in {"none", "called", "readServiceAccount", "listOIDCShims"} => call.listed = {}
  /\ call.pc = "listClusterOIDCShims" => Shown("oidcshims", call.listed)
  /\ call.pc = "buildPlans" =>
       \E i, j \in DOMAIN log : call.listed = log[i].oidcshims \cup log[j].clusteroidcshims
  /\ call.pc \notin {"buildPlans", "answered"} =>
       call.plans = <<>> /\ call.applied = {} /\ call.failed = {} /\ call.warned = {}

(* A fresh call has read what is stored.                                   *)
FreshInv ==
  call.fresh =>
    /\ InCall => CaughtUp(call.replica) /\ pod.shims = {}
    /\ call.pc \in {"readServiceAccount", "listOIDCShims", "listClusterOIDCShims", "buildPlans"}
         => call.namespace = Stored.namespace
    /\ call.pc \in {"listOIDCShims", "listClusterOIDCShims", "buildPlans"}
         => call.serviceAccount = Stored.serviceAccount
    /\ call.pc = "listClusterOIDCShims" => call.listed = Stored.oidcshims
    /\ call.pc = "buildPlans" => call.listed = Listed(Stored)

(* How far buildPlans and Apply have come, when the ConfigMap has been     *)
(* read as given: the plans built so far wait in order behind those that   *)
(* Apply is done with, and these are applied unless they conflict.         *)
Done == call.listed \ call.todo
Waiting == {call.plans[i] : i \in DOMAIN call.plans}
BuiltFrom(read) == {PlanOf(s, Seen, read[s]) : s \in {x \in Done : HasPlan(x, Seen, read[x])}}
Decided(read) == BuiltFrom(read) \ Waiting

Progress(read) ==
  /\ read \in [call.listed -> ReadSet]
  /\ Waiting \subseteq BuiltFrom(read)
  /\ call.applied \subseteq Decided(read)
  /\ call.todo # {} => Decided(read) = {}
  /\ \A i, j \in DOMAIN call.plans : i < j => Before(call.plans[i].shim, call.plans[j].shim)
  /\ \A p \in Decided(read), q \in Waiting : Before(p.shim, q.shim)
  /\ \A p \in Decided(read) :
       p \in call.applied <=>
         ~\E q \in call.applied : Before(q.shim, p.shim) /\ Conflicts(q.shim, p.shim)
  /\ call.fresh => \A s \in Done : read[s] = IF s \in call.failed THEN Failed
                                             ELSE Stored.configMap

(* buildPlans goes through the shims in order and accounts for each.       *)
BuildInv ==
  call.pc = "buildPlans" =>
    /\ call.todo \subseteq call.listed /\ call.failed \subseteq Done
    /\ \A x \in Done, y \in call.todo : Before(x, y)
    /\ \A s \in Done : Skipped(s) => \/ s \in call.warned
                                     \/ \E p \in Waiting \cup call.applied : p.shim = s
    /\ \E read \in [call.listed -> ReadSet] : Progress(read)

(* A pod's shims are what the rules give for some moments of the log.      *)
Justified(shims) ==
  \E m \in [Informers -> DOMAIN log] :
    \E read \in [Listed([k \in Resources |-> IF k \in Informers THEN log[m[k]][k] ELSE NoValue])
                   -> ReadSet] :
      IsExpected(shims, [k \in Resources |-> IF k \in Informers THEN log[m[k]][k] ELSE NoValue],
                 request, read)

AnswerInv ==
  /\ pod.shims # {} \/ call.pc = "answered" => Justified(pod.shims)
  /\ CaughtUpIsExact
  /\ NoSilentMiss

Inv ==
  /\ LogInv /\ PosInv /\ TypeInv /\ PodInv
  /\ ReadInv /\ FreshInv /\ BuildInv /\ AnswerInv

(* Nothing is called at first.                                             *)
LEMMA InitInv == Init => Inv
<1> SUFFICES ASSUME Init PROVE Inv
  OBVIOUS
<1>1. LogInv /\ PosInv
  BY InitLog
<1>2. (CHOOSE r \in Replicas : TRUE) \in Replicas
  BY ReplicasAssumption
<1>3. <<>> \in Seq(PlanSet)
  OBVIOUS
<1>4. TypeInv
  BY <1>2, <1>3 DEF Init, TypeInv, CallType, PodType, NoCall, NoPod
<1>5. call.pc = "none" /\ call.fresh = FALSE /\ pod.shims = {} /\ pod.phase = "absent"
  BY DEF Init, NoCall, NoPod
<1>6. /\ call.listed = {} /\ call.plans = <<>> /\ call.applied = {}
      /\ call.failed = {} /\ call.warned = {}
  BY DEF Init, NoCall
<1>7. call = NoCall
  BY DEF Init
<1>8. PodInv /\ ReadInv /\ FreshInv /\ BuildInv /\ AnswerInv
  BY <1>5, <1>6, <1>7 DEF PodInv, ReadInv, FreshInv, BuildInv, AnswerInv, CaughtUpIsExact,
                    NoSilentMiss, InCall
<1> QED
  BY <1>1, <1>4, <1>8 DEF Inv

-----------------------------------------------------------------------------
(* The world around the handler.                                           *)

Grows == DOMAIN log \subseteq DOMAIN log' /\ \A j \in DOMAIN log : log'[j] = log[j]

(* What the log has justified it goes on justifying.                       *)
LEMMA StillJustified ==
  ASSUME Grows, request' = request, NEW shims, Justified(shims)
  PROVE  Justified(shims)'
<1> DEFINE View(m) == [k \in Resources |-> IF k \in Informers THEN log[m[k]][k] ELSE NoValue]
<1>1. PICK m \in [Informers -> DOMAIN log] : \E read \in [Listed(View(m)) -> ReadSet] :
        IsExpected(shims, View(m), request, read)
  BY Zenon DEF Justified
<1>2. PICK read \in [Listed(View(m)) -> ReadSet] : IsExpected(shims, View(m), request, read)
  BY <1>1, Zenon
<1>3. m \in [Informers -> DOMAIN log'] /\ View(m)' = View(m)
  BY DEF Grows
<1>4. ReadSet \subseteq ReadSet'
  BY DEF ReadSet, Grows
<1>5. read \in [Listed(View(m)) -> ReadSet']
  BY <1>4
<1> HIDE DEF View
<1>6. IsExpected(shims, View(m)', request', read) /\ read \in [Listed(View(m)') -> ReadSet']
  BY <1>2, <1>3, <1>5
<1> QED
  BY <1>3, <1>6, Zenon DEF Justified, View

(* A step that ends a call, or takes place without one.                    *)
LEMMA IdleStep ==
  ASSUME Inv, log' = log, request' = request, PosInv', call' = NoCall,
         pod' \in PodType, pod'.shims \in {{}, pod.shims},
         pod'.phase \in {"absent", "refused"} => pod'.shims = {}
  PROVE  Inv'
<1>1. LogInv'
  BY DEF Inv, LogInv, Moments, Stored
<1>2. PlanSet' = PlanSet
  BY DEF PlanSet
<1>3. (CHOOSE r \in Replicas : TRUE) \in Replicas
  BY ReplicasAssumption
<1>4. TypeInv'
  BY <1>2, <1>3 DEF TypeInv, CallType, PodType, NoCall
<1>5. /\ call'.pc = "none" /\ call'.fresh = FALSE /\ call'.listed = {} /\ call'.plans = <<>>
      /\ call'.applied = {} /\ call'.failed = {} /\ call'.warned = {}
  BY DEF NoCall
<1>6. PodInv'
  BY <1>5 DEF Inv, PodInv, InCall
<1>7. ReadInv' /\ FreshInv' /\ BuildInv'
  BY <1>5 DEF ReadInv, FreshInv, BuildInv
<1>8. Grows
  BY DEF Grows
<1>9. ASSUME pod'.shims # {} PROVE Justified(pod.shims)'
  <2>1. PICK x : x = pod.shims
    OBVIOUS
  <2>2. Justified(x) /\ pod'.shims = x
    BY <1>9, <2>1 DEF Inv, AnswerInv
  <2>3. Justified(x)'
    BY <1>8, <2>2, StillJustified
  <2> QED
    BY <2>2, <2>3, Zenon DEF Justified
<1>10. AnswerInv'
  BY <1>5, <1>9 DEF AnswerInv, CaughtUpIsExact, NoSilentMiss
<1> QED
  BY <1>1, <1>4, <1>6, <1>7, <1>10 DEF Inv

(* A cache that moves does not disturb a call that found it current.       *)
LEMMA CacheStep ==
  ASSUME Inv, UNCHANGED <<log, request, pod, call>>, PosInv',
         call.fresh /\ InCall => CaughtUp(call.replica)'
  PROVE  Inv'
<1>1. LogInv'
  BY DEF Inv, LogInv, Moments, Stored
<1>2. TypeInv' /\ PodInv' /\ ReadInv'
  BY DEF Inv, TypeInv, CallType, PodType, PlanSet, PodInv, InCall, ReadInv, Shown
<1>3. FreshInv'
  BY DEF Inv, FreshInv, InCall, Stored
<1>4. Done' = Done /\ Waiting' = Waiting /\ Seen' = Seen /\ ReadSet' = ReadSet /\ Stored' = Stored
  BY DEF Done, Waiting, Seen, ReadSet, Stored
<1>5. \A read : Decided(read)' = Decided(read) /\ BuiltFrom(read)' = BuiltFrom(read)
  BY <1>4 DEF Decided, BuiltFrom
<1>6. \A read : Progress(read)' <=> Progress(read)
  BY <1>4, <1>5 DEF Progress
<1>7. \A s : Skipped(s)' <=> Skipped(s)
  BY <1>4 DEF Skipped
<1>8. BuildInv'
  BY <1>4, <1>6, <1>7 DEF Inv, BuildInv
<1>9. Grows
  BY DEF Grows
<1>10. AnswerInv'
  BY <1>4, <1>7, <1>9, StillJustified DEF Inv, AnswerInv, CaughtUpIsExact, NoSilentMiss
<1> QED
  BY <1>1, <1>2, <1>3, <1>8, <1>10 DEF Inv

(* Users change something: no call is fresh any more.                      *)
LEMMA ChangeStep ==
  ASSUME Inv, NEW k \in Resources, Change(k) PROVE Inv'
<1>1. /\ LogInv' /\ PosInv' /\ Grows
  BY ChangeLog DEF Inv, Grows
<1>2. /\ request' = request /\ pod' = pod
      /\ call' = [call EXCEPT !.fresh = FALSE]
  BY DEF Change
<1>3. call \in CallType
  BY DEF Inv, TypeInv
<1>4. /\ call'.fresh = FALSE /\ call'.pc = call.pc /\ call'.replica = call.replica
      /\ call'.namespace = call.namespace /\ call'.serviceAccount = call.serviceAccount
      /\ call'.listed = call.listed /\ call'.todo = call.todo /\ call'.plans = call.plans
      /\ call'.applied = call.applied /\ call'.failed = call.failed
      /\ call'.warned = call.warned
  BY <1>2, <1>3 DEF CallType
<1>5. TypeInv'
  <2>1. call' \in CallType
    BY <1>2, <1>3, Zenon DEF CallType
  <2>2. PlanSet' = PlanSet
    BY <1>2 DEF PlanSet
  <2> QED
    BY <1>2, <2>1, <2>2, Zenon DEF Inv, TypeInv, CallType, PodType
<1>6. PodInv'
  <2>1. ASSUME call'.pc = "none" PROVE call' = NoCall
    <3>1. call = NoCall
      BY <1>4, <2>1 DEF Inv, PodInv
    <3> QED
      BY <1>2, <3>1, Zenon DEF NoCall
  <2> QED
    BY <1>2, <1>4, <2>1 DEF Inv, PodInv, InCall
<1>7. /\ Shown("namespace", call.namespace) => Shown("namespace", call.namespace)'
      /\ Shown("serviceAccount", call.serviceAccount)
           => Shown("serviceAccount", call.serviceAccount)'
      /\ Shown("oidcshims", call.listed) => Shown("oidcshims", call.listed)'
  BY <1>1, <1>4 DEF Shown, Grows
<1>8. ReadInv'
  <2>1. ASSUME call.pc = "buildPlans"
        PROVE  (\E i, j \in DOMAIN log :
                  call.listed = log[i].oidcshims \cup log[j].clusteroidcshims)'
    BY <1>1, <1>4, <2>1 DEF Inv, ReadInv, Grows
  <2> QED
    BY <1>4, <1>7, <2>1 DEF Inv, ReadInv
<1>9. FreshInv'
  BY <1>4 DEF FreshInv
<1>10. Done' = Done /\ Waiting' = Waiting /\ Seen' = Seen /\ ReadSet \subseteq ReadSet'
  BY <1>1, <1>2, <1>4 DEF Done, Waiting, Seen, ReadSet, Grows
<1>11. \A read : Decided(read)' = Decided(read) /\ BuiltFrom(read)' = BuiltFrom(read)
  BY <1>10 DEF Decided, BuiltFrom
<1>12. \A read : Progress(read) => Progress(read)' /\ read \in [call'.listed -> ReadSet']
  BY <1>4, <1>10, <1>11 DEF Progress
<1>13. \A s : Skipped(s)' <=> Skipped(s)
  BY <1>10 DEF Skipped
<1>14. BuildInv'
  BY <1>4, <1>10, <1>12, <1>13 DEF Inv, BuildInv
<1>15. ASSUME Justified(pod.shims) PROVE Justified(pod.shims)'
  <2>1. PICK x : x = pod.shims
    OBVIOUS
  <2>2. Justified(x)'
    BY <1>1, <1>2, <1>15, <2>1, StillJustified
  <2> QED
    BY <1>2, <2>1, <2>2, Zenon DEF Justified
<1>16. AnswerInv'
  BY <1>2, <1>4, <1>13, <1>15 DEF Inv, AnswerInv, CaughtUpIsExact, NoSilentMiss
<1> QED
  BY <1>1, <1>5, <1>6, <1>8, <1>9, <1>14, <1>16 DEF Inv

(* Clients, the API server and faults.                                     *)
LEMMA OutsideStep ==
  ASSUME Inv,
         \/ Create \/ Delete \/ Reinvoke \/ Persist \/ Timeout \/ ReadFails
         \/ \E r \in Replicas : Restart(r) \/ \E k \in Informers : CacheAdvances(r, k)
  PROVE  Inv'
<1> USE DEF Refuse, Errored
<1>1. pod \in PodType /\ {} \in SUBSET PlanSet
  BY DEF Inv, TypeInv
<1>2. ASSUME UNCHANGED <<log, pos>> PROVE PosInv'
  BY <1>2 DEF Inv, PosInv, Moments
<1>3. \A p \in {"absent", "creating", "refused"} : [NoPod EXCEPT !.phase = p] \in PodType
  BY <1>1, Zenon DEF NoPod, PodType
<1>4. CASE Create
  <2>1. call' = NoCall /\ pod' = [NoPod EXCEPT !.phase = "creating"] /\ pod'.shims = {}
    BY <1>4 DEF Create, Inv, PodInv, NoPod
  <2> QED
    BY <1>2, <1>3, <1>4, <2>1, IdleStep DEF Create, NoPod
<1>5. CASE Delete
  <2>1. call' = NoCall /\ pod' = [NoPod EXCEPT !.phase = "absent"] /\ pod'.shims = {}
    BY <1>5 DEF Delete, Inv, PodInv, NoPod
  <2> QED
    BY <1>2, <1>3, <1>5, <2>1, IdleStep, Zenon DEF Delete
<1>6. CASE Reinvoke \/ Persist
  <2>1. pod' \in PodType /\ pod'.shims = pod.shims /\ pod'.phase \in {"creating", "running"}
    BY <1>1, <1>6, Zenon DEF Reinvoke, Persist, PodType, Inv, PodInv
  <2> QED
    BY <1>2, <1>6, <2>1, IdleStep DEF Reinvoke, Persist
<1>7. ASSUME Refuse, PosInv', UNCHANGED <<log, request>> PROVE Inv'
  <2>1. pod' \in PodType /\ pod'.shims = {}
    BY <1>3, <1>7 DEF NoPod
  <2> QED
    BY <1>7, <2>1, IdleStep
<1>8. CASE Timeout \/ ReadFails
  BY <1>2, <1>7, <1>8 DEF Timeout, ReadFails
<1>9. ASSUME NEW r \in Replicas, Restart(r) PROVE Inv'
  <2>1. PICK m \in [Informers -> DOMAIN log] :
          /\ \A k \in Informers : m[k] \in Moments(k)
          /\ pos' = [pos EXCEPT ![r] = m]
    BY <1>9, Zenon DEF Restart
  <2>2. PosInv' /\ UNCHANGED <<log, request>>
    BY <1>9, <2>1 DEF Restart, Inv, PosInv, Moments
  <2>3. CASE InCall /\ call.replica = r
    BY <1>7, <1>9, <2>2, <2>3 DEF Restart
  <2>4. CASE ~(InCall /\ call.replica = r)
    <3>1. UNCHANGED <<log, request, pod, call>>
      BY <1>9, <2>4 DEF Restart
    <3>2. ASSUME call.fresh, InCall PROVE CaughtUp(call.replica)'
      <4>1. call.replica \in Replicas \ {r} /\ CaughtUp(call.replica)
        BY <2>4, <3>2 DEF Inv, TypeInv, CallType, FreshInv
      <4>2. pos'[call.replica] = pos[call.replica]
        BY <2>1, <4>1 DEF Inv, PosInv
      <4> QED
        BY <2>2, <3>1, <4>1, <4>2 DEF CaughtUp, Moments
    <3> QED
      BY <2>2, <3>1, <3>2, CacheStep
  <2> QED
    BY <2>3, <2>4
<1>10. ASSUME NEW r \in Replicas, NEW k \in Informers, CacheAdvances(r, k) PROVE Inv'
  <2>1. PICK j \in Moments(k) : j > pos[r][k] /\ pos' = [pos EXCEPT ![r][k] = j]
    BY <1>10, Zenon DEF CacheAdvances
  <2>2. UNCHANGED <<log, request, pod, call>> /\ j \in DOMAIN log
    BY <1>10, <2>1 DEF CacheAdvances, Moments
  <2>3. \A x : Moments(x)' = Moments(x)
    BY <2>2 DEF Moments
  <2>4. PosInv'
    BY <2>1, <2>2, <2>3 DEF Inv, PosInv
  <2>5. ASSUME call.fresh, InCall PROVE CaughtUp(call.replica)'
    <3>1. call.replica \in Replicas /\ CaughtUp(call.replica)
      BY <2>5 DEF Inv, TypeInv, CallType, FreshInv
    <3>2. call.replica # r
      <4>1. pos[r][k] \in Nat /\ j \in Nat
        BY <2>2 DEF Inv, PosInv, LogInv
      <4> QED
        BY <2>1, <3>1, <4>1 DEF CaughtUp
    <3>3. pos'[call.replica] = pos[call.replica]
      BY <2>1, <3>1, <3>2 DEF Inv, PosInv
    <3> QED
      BY <2>2, <2>3, <3>1, <3>3 DEF CaughtUp
  <2> QED
    BY <2>2, <2>4, <2>5, CacheStep
<1> QED
  BY <1>4, <1>5, <1>6, <1>8, <1>9, <1>10

-----------------------------------------------------------------------------
(* Handle up to its reads.                                                 *)

(* A replica whose cache has caught up shows what is stored.               *)
LEMMA CaughtUpShowsStored ==
  ASSUME LogInv, PosInv, NEW r \in Replicas, CaughtUp(r), NEW k \in Informers
  PROVE  Cached(r, k) = Stored[k]
<1>1. k \in Resources
  BY DEF Resources
<1>2. PICK j \in Moments(k) : log[j][k] = Stored[k] /\ \A i \in Moments(k) : i <= j
  BY <1>1 DEF LogInv
<1>3. pos[r][k] \in Moments(k) /\ \A i \in Moments(k) : i \in Nat
  BY DEF PosInv, Moments, LogInv
<1>4. j <= pos[r][k] /\ pos[r][k] <= j /\ j \in Nat /\ pos[r][k] \in Nat
  BY <1>2, <1>3 DEF CaughtUp
<1>5. j = pos[r][k]
  BY <1>4
<1> QED
  BY <1>2, <1>5 DEF Cached

(* Whatever a cache shows was in the log.                                  *)
LEMMA CachedShown ==
  ASSUME LogInv, PosInv, NEW r \in Replicas, NEW k \in Informers
  PROVE  /\ pos[r][k] \in DOMAIN log /\ Cached(r, k) = log[pos[r][k]][k]
         /\ Cached(r, k) \in Contents(k) /\ Cached(r, k) \in Values
  BY DEF LogInv, PosInv, Cached, Values, Resources

(* What a step of the call leaves alone while nothing is built.            *)
LEMMA SameWorld ==
  ASSUME LogInv, PosInv, UNCHANGED <<log, pos, request>>
  PROVE  /\ LogInv' /\ PosInv' /\ PlanSet' = PlanSet /\ ReadSet' = ReadSet
         /\ Stored' = Stored /\ Grows
  BY DEF LogInv, PosInv, Moments, Stored, PlanSet, ReadSet, Grows

(* No call is a call too.                                                  *)
LEMMA NoCallTyped == NoCall \in CallType
<1>1. (CHOOSE r \in Replicas : TRUE) \in Replicas
  BY ReplicasAssumption
<1> QED
  BY <1>1 DEF NoCall, CallType

(* A new call has read nothing.                                            *)
LEMMA CallStep ==
  ASSUME Inv, NEW r \in Replicas, Call(r) PROVE Inv'
<1>1. UNCHANGED <<log, pos, request, pod>> /\ pod.phase = "creating"
  BY DEF Call
<1>2. LogInv' /\ PosInv' /\ PlanSet' = PlanSet /\ Stored' = Stored /\ Grows
  BY <1>1, SameWorld DEF Inv
<1>3. call' = [NoCall EXCEPT !.pc = "called", !.replica = r,
                             !.fresh = CaughtUp(r) /\ pod.shims = {}]
  BY DEF Call
<1>4. /\ call'.pc = "called" /\ call'.replica = r
      /\ call'.fresh = (CaughtUp(r) /\ pod.shims = {})
      /\ call'.listed = {} /\ call'.plans = <<>> /\ call'.applied = {}
      /\ call'.failed = {} /\ call'.warned = {}
  BY <1>3 DEF NoCall
<1>5. TypeInv'
  <2>1. PICK b \in BOOLEAN : b = (CaughtUp(r) /\ pod.shims = {})
    BY Zenon DEF CaughtUp
  <2>2. call' = [NoCall EXCEPT !.pc = "called", !.replica = r, !.fresh = b]
    BY <1>3, <2>1, Zenon
  <2>3. call' \in CallType
    BY <2>2, NoCallTyped, Zenon DEF CallType
  <2> QED
    BY <1>1, <1>2, <2>3 DEF Inv, TypeInv, CallType, PodType
<1>6. PodInv' /\ ReadInv' /\ BuildInv'
  BY <1>1, <1>4 DEF Inv, PodInv, ReadInv, BuildInv, InCall
<1>7. FreshInv'
  <2>1. CaughtUp(r)' <=> CaughtUp(r)
    BY <1>1 DEF CaughtUp, Moments
  <2> QED
    BY <1>1, <1>4, <2>1, Zenon DEF FreshInv, CaughtUp
<1>8. ASSUME pod'.shims # {} PROVE Justified(pod.shims)'
  <2>1. PICK x : x = pod.shims
    OBVIOUS
  <2>2. Justified(x)'
    BY <1>1, <1>2, <1>8, <2>1, StillJustified, SMTT(30) DEF Inv, AnswerInv
  <2> QED
    BY <1>1, <2>1, <2>2, Zenon DEF Justified
<1>9. AnswerInv'
  BY <1>4, <1>8 DEF AnswerInv, CaughtUpIsExact, NoSilentMiss
<1> QED
  BY <1>2, <1>5, <1>6, <1>7, <1>9 DEF Inv

(* Nothing is what every moment gives an exempt pod.                       *)
LEMMA ExemptJustified == ASSUME LogInv, Exempt(request) PROVE Justified({})
<1> DEFINE View(m) == [k \in Resources |-> IF k \in Informers THEN log[m[k]][k] ELSE NoValue]
           m1 == [k \in Informers |-> 1]
           read == [s \in Listed(View(m1)) |-> Failed]
<1>1. m1 \in [Informers -> DOMAIN log]
  BY DEF LogInv
<1>2. read \in [Listed(View(m1)) -> ReadSet]
  BY DEF ReadSet
<1>3. IsExpected({}, View(m1), request, read)
  BY DEF IsExpected
<1> HIDE DEF m1, read
<1> QED
  BY <1>1, <1>2, <1>3, Zenon DEF Justified

(* The early returns.                                                      *)
LEMMA AllowStep == ASSUME Inv, Allow PROVE Inv'
<1>1. /\ UNCHANGED <<log, pos, request, faults>>
      /\ call.pc = "called" /\ LeftAlone
      /\ call' = [call EXCEPT !.pc = "answered"]
      /\ pod' = [pod EXCEPT !.shims = pod.shims, !.warned = pod.warned \cup {}]
  BY DEF Allow, Answer
<1>2. LogInv' /\ PosInv' /\ PlanSet' = PlanSet /\ Stored' = Stored /\ Grows
  BY <1>1, SameWorld DEF Inv
<1>3. /\ call'.pc = "answered" /\ call'.fresh = call.fresh /\ call'.listed = {}
      /\ call'.failed = call.failed
  BY <1>1 DEF Inv, TypeInv, CallType, ReadInv
<1>4. pod'.shims = pod.shims /\ pod'.phase = pod.phase
  BY <1>1 DEF Inv, TypeInv, PodType
<1>5. TypeInv'
  <2>1. call' \in CallType
    BY <1>1 DEF Inv, TypeInv, CallType
  <2>2. pod' \in PodType
    BY <1>1, Zenon DEF Inv, TypeInv, PodType
  <2> QED
    BY <1>2, <2>1, <2>2 DEF TypeInv, CallType, PodType
<1>6. PodInv' /\ ReadInv' /\ FreshInv' /\ BuildInv'
  BY <1>1, <1>3, <1>4 DEF Inv, PodInv, ReadInv, FreshInv, BuildInv, InCall
<1>7. Justified(pod.shims)'
  <2>1. PICK x : x = pod.shims
    OBVIOUS
  <2>2. Justified(x)
    BY <1>1, <2>1, ExemptJustified DEF Inv, AnswerInv, PodInv, LeftAlone
  <2>3. Justified(x)'
    BY <1>1, <1>2, <2>2, StillJustified
  <2> QED
    BY <1>4, <2>1, <2>3, Zenon DEF Justified
<1>8. CaughtUpIsExact'
  <2> SUFFICES ASSUME call'.fresh PROVE pod'.shims = {} /\ Exempt(request')
    BY DEF CaughtUpIsExact, IsExpected
  <2>1. pod.shims = {}
    BY <1>1, <1>3 DEF Inv, FreshInv, InCall
  <2> QED
    BY <1>1, <1>4, <2>1 DEF LeftAlone
<1>9. NoSilentMiss'
  BY <1>3 DEF NoSilentMiss
<1> QED
  BY <1>2, <1>5, <1>6, <1>7, <1>8, <1>9 DEF Inv, AnswerInv

(* What is left to show for a step that reads: what it has read.           *)
LEMMA ReadingStep ==
  ASSUME Inv, UNCHANGED <<log, pos, request, pod>>, call' \in CallType,
         call.pc \in Reading, call'.pc \in Reading \ {"called"}, ~LeftAlone,
         call'.replica = call.replica, call'.fresh = call.fresh,
         ReadInv', FreshInv'
  PROVE  Inv'
<1>1. LogInv' /\ PosInv' /\ PlanSet' = PlanSet /\ Grows
  BY SameWorld DEF Inv
<1>2. TypeInv'
  BY <1>1 DEF Inv, TypeInv, CallType, PodType
<1>3. PodInv'
  BY DEF Inv, PodInv, InCall, Reading, LeftAlone
<1>4. BuildInv' /\ CaughtUpIsExact' /\ NoSilentMiss'
  BY DEF BuildInv, CaughtUpIsExact, NoSilentMiss, Reading
<1>5. pod'.shims = {} /\ call'.pc # "answered"
  BY DEF LeftAlone, Reading
<1>6. AnswerInv'
  BY <1>4, <1>5 DEF AnswerInv
<1> QED
  BY <1>1, <1>2, <1>3, <1>4, <1>6 DEF Inv

(* A cache that is current shows what is stored, after the read as before. *)
LEMMA ReadIsStored ==
  ASSUME Inv, UNCHANGED <<log, pos>>, call.fresh, InCall, NEW k \in Informers
  PROVE  Cached(call.replica, k) = Stored[k] /\ CaughtUp(call.replica)
<1>1. call.replica \in Replicas /\ CaughtUp(call.replica)
  BY DEF Inv, TypeInv, CallType, FreshInv
<1> QED
  BY <1>1, CaughtUpShowsStored DEF Inv

(* readTarget reads the Namespace, then the ServiceAccount.                *)
LEMMA ReadNamespaceStep == ASSUME Inv, ReadNamespace PROVE Inv'
<1> DEFINE x == Cached(call.replica, "namespace")
<1>1. /\ UNCHANGED <<log, pos, request, pod>> /\ call.pc = "called"
      /\ call' = [call EXCEPT !.pc = "readServiceAccount", !.namespace = x]
  BY Zenon DEF ReadNamespace, Read
<1>2. call \in CallType /\ "namespace" \in Informers /\ ~LeftAlone
  BY DEF Inv, TypeInv, Informers, ReadNamespace
<1>3. PICK j \in DOMAIN log : x = log[j].namespace /\ x \in Values
  BY <1>2, CachedShown DEF Inv, CallType
<1> HIDE DEF x
<1>4. /\ call' \in CallType
      /\ call'.pc = "readServiceAccount" /\ call'.namespace = x
      /\ call'.replica = call.replica /\ call'.fresh = call.fresh
      /\ call'.listed = call.listed /\ call'.plans = call.plans
      /\ call'.applied = call.applied /\ call'.failed = call.failed
      /\ call'.warned = call.warned
  BY <1>1, <1>2, <1>3, Zenon DEF CallType
<1>5. ReadInv'
  BY <1>1, <1>3, <1>4 DEF Inv, ReadInv, Shown
<1>6. FreshInv'
  <2>1. ASSUME call.fresh PROVE x = Stored.namespace /\ CaughtUp(call.replica) /\ pod.shims = {}
    BY <1>1, <1>2, <2>1, ReadIsStored DEF InCall, x, LeftAlone
  <2>2. Stored' = Stored /\ (CaughtUp(call.replica) => CaughtUp(call.replica)')
    BY <1>1, <1>4 DEF Stored, CaughtUp, Moments
  <2> QED
    BY <1>1, <1>4, <2>1, <2>2 DEF FreshInv
<1>7. call.pc \in Reading /\ call'.pc \in Reading \ {"called"}
  BY <1>1, <1>4 DEF Reading
<1> QED
  BY <1>1, <1>2, <1>4, <1>5, <1>6, <1>7, ReadingStep

(* The ServiceAccount, from a cache that lags on its own.                  *)
LEMMA ReadServiceAccountStep == ASSUME Inv, ReadServiceAccount PROVE Inv'
<1> DEFINE x == Cached(call.replica, "serviceAccount")
<1>1. /\ UNCHANGED <<log, pos, request, pod>> /\ call.pc = "readServiceAccount"
      /\ call' = [call EXCEPT !.pc = "listOIDCShims", !.serviceAccount = x]
  BY Zenon DEF ReadServiceAccount, Read
<1>2. call \in CallType /\ "serviceAccount" \in Informers /\ ~LeftAlone
  BY <1>1 DEF Inv, TypeInv, Informers, PodInv, InCall, LeftAlone
<1>3. PICK j \in DOMAIN log : x = log[j].serviceAccount /\ x \in Values
  BY <1>2, CachedShown DEF Inv, CallType
<1> HIDE DEF x
<1>4. /\ call' \in CallType
      /\ call'.pc = "listOIDCShims" /\ call'.serviceAccount = x
      /\ call'.namespace = call.namespace
      /\ call'.replica = call.replica /\ call'.fresh = call.fresh
      /\ call'.listed = call.listed /\ call'.plans = call.plans
      /\ call'.applied = call.applied /\ call'.failed = call.failed
      /\ call'.warned = call.warned
  BY <1>1, <1>2, <1>3, Zenon DEF CallType
<1>5. ReadInv'
  BY <1>1, <1>3, <1>4 DEF Inv, ReadInv, Shown
<1>6. FreshInv'
  <2>1. ASSUME call.fresh
        PROVE  /\ x = Stored.serviceAccount /\ CaughtUp(call.replica) /\ pod.shims = {}
               /\ call.namespace = Stored.namespace
    BY <1>1, <1>2, <2>1, ReadIsStored DEF InCall, x, LeftAlone, Inv, FreshInv
  <2>2. Stored' = Stored /\ (CaughtUp(call.replica) => CaughtUp(call.replica)')
    BY <1>1, <1>4 DEF Stored, CaughtUp, Moments
  <2> QED
    BY <1>1, <1>4, <2>1, <2>2 DEF FreshInv
<1>7. call.pc \in Reading /\ call'.pc \in Reading \ {"called"}
  BY <1>1, <1>4 DEF Reading
<1> QED
  BY <1>1, <1>2, <1>4, <1>5, <1>6, <1>7, ReadingStep

(* listShims reads the shims of the namespace, then those of the cluster.  *)
LEMMA ListOIDCShimsStep == ASSUME Inv, ListOIDCShims PROVE Inv'
<1> DEFINE x == Cached(call.replica, "oidcshims")
<1>1. /\ UNCHANGED <<log, pos, request, pod>> /\ call.pc = "listOIDCShims"
      /\ call' = [call EXCEPT !.pc = "listClusterOIDCShims", !.listed = call.listed \cup x,
                              !.todo = call.listed \cup x]
  BY DEF ListOIDCShims, List
<1>2. /\ call \in CallType /\ call.replica \in Replicas
      /\ "oidcshims" \in Informers /\ ~LeftAlone /\ call.listed = {}
  BY <1>1 DEF Inv, TypeInv, CallType, Informers, PodInv, InCall, LeftAlone, ReadInv
<1>3. PICK j \in DOMAIN log : x = log[j].oidcshims /\ x \in Contents("oidcshims")
  BY <1>2, CachedShown DEF Inv
<1>4. x \in SUBSET Shims /\ call.listed \cup x = x
  BY <1>2, <1>3 DEF Shims
<1> HIDE DEF x
<1>5. /\ call' \in CallType
      /\ call'.pc = "listClusterOIDCShims" /\ call'.listed = x
      /\ call'.namespace = call.namespace /\ call'.serviceAccount = call.serviceAccount
      /\ call'.replica = call.replica /\ call'.fresh = call.fresh
      /\ call'.plans = call.plans
      /\ call'.applied = call.applied /\ call'.failed = call.failed
      /\ call'.warned = call.warned
  BY <1>1, <1>2, <1>4, Zenon DEF CallType
<1>6. ReadInv'
  BY <1>1, <1>3, <1>5 DEF Inv, ReadInv, Shown
<1>7. FreshInv'
  <2>1. ASSUME call.fresh
        PROVE  /\ x = Stored.oidcshims /\ CaughtUp(call.replica) /\ pod.shims = {}
               /\ call.namespace = Stored.namespace
               /\ call.serviceAccount = Stored.serviceAccount
    BY <1>1, <1>2, <2>1, ReadIsStored DEF InCall, x, LeftAlone, Inv, FreshInv
  <2>2. Stored' = Stored /\ (CaughtUp(call.replica) => CaughtUp(call.replica)')
    BY <1>1, <1>5 DEF Stored, CaughtUp, Moments
  <2> QED
    BY <1>1, <1>5, <2>1, <2>2 DEF FreshInv
<1>8. call.pc \in Reading /\ call'.pc \in Reading \ {"called"}
  BY <1>1, <1>5 DEF Reading
<1> QED
  BY <1>1, <1>2, <1>5, <1>6, <1>7, <1>8, ReadingStep

(* The shims of the cluster join those of the namespace.                   *)
LEMMA ListClusterOIDCShimsStep == ASSUME Inv, ListClusterOIDCShims PROVE Inv'
<1> DEFINE x == Cached(call.replica, "clusteroidcshims")
<1>1. /\ UNCHANGED <<log, pos, request, pod>> /\ call.pc = "listClusterOIDCShims"
      /\ call' = [call EXCEPT !.pc = "buildPlans", !.listed = call.listed \cup x,
                              !.todo = call.listed \cup x]
  BY DEF ListClusterOIDCShims, List
<1>2. /\ call \in CallType /\ call.replica \in Replicas
      /\ "clusteroidcshims" \in Informers /\ ~Exempt(request) /\ pod.shims = {}
  BY <1>1 DEF Inv, TypeInv, CallType, Informers, PodInv, InCall
<1>3. PICK j \in DOMAIN log : x = log[j].clusteroidcshims /\ x \in Contents("clusteroidcshims")
  BY <1>2, CachedShown DEF Inv
<1>4. PICK i \in DOMAIN log : call.listed = log[i].oidcshims
  BY <1>1 DEF Inv, ReadInv, Shown
<1>5. x \in SUBSET Shims
  BY <1>3 DEF Shims
<1> HIDE DEF x
<1>6. /\ call' \in CallType
      /\ call'.pc = "buildPlans" /\ call'.listed = call.listed \cup x
      /\ call'.todo = call'.listed
      /\ call'.namespace = call.namespace /\ call'.serviceAccount = call.serviceAccount
      /\ call'.replica = call.replica /\ call'.fresh = call.fresh
      /\ call'.plans = <<>> /\ call'.applied = {} /\ call'.failed = {} /\ call'.warned = {}
  <2>1. call.plans = <<>> /\ call.applied = {} /\ call.failed = {} /\ call.warned = {}
    BY <1>1 DEF Inv, ReadInv
  <2> QED
    BY <1>1, <1>2, <1>5, <2>1, Zenon DEF CallType
<1>7. LogInv' /\ PosInv' /\ PlanSet' = PlanSet /\ Stored' = Stored
  BY <1>1, SameWorld DEF Inv
<1>8. TypeInv' /\ PodInv'
  BY <1>1, <1>2, <1>6, <1>7 DEF Inv, TypeInv, CallType, PodType, PodInv, InCall
<1>9. ReadInv'
  BY <1>1, <1>3, <1>4, <1>6 DEF Inv, ReadInv, Shown
<1>10. FreshInv'
  <2>1. ASSUME call.fresh
        PROVE  /\ x = Stored.clusteroidcshims /\ CaughtUp(call.replica)
               /\ call.namespace = Stored.namespace
               /\ call.serviceAccount = Stored.serviceAccount
               /\ call.listed = Stored.oidcshims
    BY <1>1, <1>2, <2>1, ReadIsStored DEF InCall, x, Inv, FreshInv
  <2>2. CaughtUp(call.replica) => CaughtUp(call.replica)'
    BY <1>1, <1>6 DEF CaughtUp, Moments
  <2> QED
    BY <1>1, <1>2, <1>6, <1>7, <2>1, <2>2 DEF FreshInv, Listed
<1>11. Done' = {} /\ Waiting' = {}
  BY <1>6 DEF Done, Waiting
<1>12. \A read : BuiltFrom(read)' = {} /\ Decided(read)' = {}
  BY <1>11 DEF BuiltFrom, Decided
<1>13. [s \in call'.listed |-> Failed] \in [call'.listed -> ReadSet']
  BY DEF ReadSet
<1>14. \A read \in [call'.listed -> ReadSet'] : Progress(read)'
  BY <1>6, <1>11, <1>12 DEF Progress
<1>15. BuildInv'
  BY <1>6, <1>11, <1>13, <1>14, Zenon DEF BuildInv
<1>16. AnswerInv'
  BY <1>1, <1>2, <1>6 DEF AnswerInv, CaughtUpIsExact, NoSilentMiss
<1> QED
  BY <1>7, <1>8, <1>9, <1>10, <1>15, <1>16 DEF Inv

-----------------------------------------------------------------------------
(* buildPlans and Apply.                                                   *)

(* The order of listShims is total on what was listed.                     *)
LEMMA ListedInOrder ==
  ASSUME Inv, call.pc = "buildPlans", NEW a \in call.listed, NEW b \in call.listed
  PROVE  /\ a # b => Before(a, b) \/ Before(b, a)
         /\ ~(Before(a, b) /\ Before(b, a))
<1>1. PICK i, j \in DOMAIN log : call.listed = log[i].oidcshims \cup log[j].clusteroidcshims
  BY DEF Inv, ReadInv
<1> DEFINE n == log[i].oidcshims
           c == log[j].clusteroidcshims
<1>2. n \in Contents("oidcshims") /\ c \in Contents("clusteroidcshims")
  BY DEF Inv, LogInv, Resources, Informers
<1>3. \A x, y \in n : x.cluster = FALSE /\ x.name \in Nat /\ (x.name = y.name => x = y)
  BY <1>2, NamesUnique DEF Unique
<1>4. \A x, y \in c : x.cluster = TRUE /\ x.name \in Nat /\ (x.name = y.name => x = y)
  BY <1>2, NamesUnique DEF Unique
<1>5. a \in n \cup c /\ b \in n \cup c
  BY <1>1
<1> HIDE DEF n, c
<1>6. CASE a \in n /\ b \in n
  <2>1. a.cluster = FALSE /\ b.cluster = FALSE /\ a.name \in Nat /\ b.name \in Nat
    BY <1>3, <1>6
  <2>2. a # b => a.name < b.name \/ b.name < a.name
    BY <1>3, <1>6
  <2>3. (Before(a, b) <=> a.name < b.name) /\ (Before(b, a) <=> b.name < a.name)
    BY <2>1, Zenon DEF Before
  <2> QED
    BY <2>1, <2>2, <2>3
<1>7. CASE a \in c /\ b \in c
  <2>1. a.cluster = TRUE /\ b.cluster = TRUE /\ a.name \in Nat /\ b.name \in Nat
    BY <1>4, <1>7
  <2>2. a # b => a.name < b.name \/ b.name < a.name
    BY <1>4, <1>7
  <2>3. (Before(a, b) <=> a.name < b.name) /\ (Before(b, a) <=> b.name < a.name)
    BY <2>1, Zenon DEF Before
  <2> QED
    BY <2>1, <2>2, <2>3
<1>8. CASE a \in n /\ b \in c
  BY <1>3, <1>4, <1>8, Zenon DEF Before
<1>9. CASE a \in c /\ b \in n
  BY <1>3, <1>4, <1>9, Zenon DEF Before
<1> QED
  BY <1>5, <1>6, <1>7, <1>8, <1>9, SMTT(30)

(* A plan of a listed shim has the type of plans.                          *)
LEMMA PlanTyped ==
  ASSUME Inv, call.pc = "buildPlans", NEW s \in call.listed, NEW r \in ReadSet
  PROVE  PlanOf(s, Seen, r) \in PlanSet
<1>1. call.namespace \in Values /\ call.serviceAccount \in Values
  BY DEF Inv, ReadInv, Shown, LogInv, Values, Resources, Informers
<1>2. r \in Values \cup {Failed} /\ s \in Shims
  BY DEF Inv, LogInv, TypeInv, CallType, ReadSet, Values, Resources
<1> QED
  BY <1>1, <1>2 DEF PlanSet, Seen

(* What every step of buildPlans and Apply has and leaves.                 *)
LEMMA BuildingStep ==
  ASSUME Inv, UNCHANGED <<log, pos, request, pod>>, call.pc = "buildPlans",
         call' \in CallType, call'.pc = "buildPlans", call'.listed = call.listed,
         call'.namespace = call.namespace, call'.serviceAccount = call.serviceAccount,
         call'.replica = call.replica, call'.fresh = call.fresh, BuildInv'
  PROVE  Inv'
<1>1. LogInv' /\ PosInv' /\ PlanSet' = PlanSet /\ Stored' = Stored
  BY SameWorld, SMTT(30) DEF Inv
<1>2. TypeInv' /\ PodInv'
  BY <1>1 DEF Inv, TypeInv, CallType, PodType, PodInv, InCall
<1>3. ReadInv'
  BY DEF Inv, ReadInv, Shown
<1>4. FreshInv'
  <2>1. CaughtUp(call.replica) => CaughtUp(call.replica)'
    BY DEF CaughtUp, Moments
  <2> QED
    BY <1>1, <2>1 DEF Inv, FreshInv, InCall
<1>5. pod.shims = {}
  BY DEF Inv, PodInv, InCall
<1>6. AnswerInv'
  BY <1>5 DEF AnswerInv, CaughtUpIsExact, NoSilentMiss
<1> QED
  BY <1>1, <1>2, <1>3, <1>4, <1>6 DEF Inv

(* buildPlans is done with a shim after reading r: its plan, if it has     *)
(* one, waits as the last.                                                 *)
DoneWith(s, r) ==
  /\ UNCHANGED <<log, pos, request, pod>> /\ NextInOrder(s)
  /\ call' \in CallType /\ call'.pc = "buildPlans"
  /\ call'.listed = call.listed /\ call'.todo = call.todo \ {s}
  /\ call'.namespace = call.namespace /\ call'.serviceAccount = call.serviceAccount
  /\ call'.replica = call.replica /\ call'.fresh = call.fresh
  /\ call'.applied = call.applied
  /\ call'.plans = IF HasPlan(s, Seen, r) THEN Append(call.plans, PlanOf(s, Seen, r))
                   ELSE call.plans
  /\ call.warned \subseteq call'.warned
  /\ Skipped(s) /\ ~HasPlan(s, Seen, r) => s \in call'.warned
  /\ call'.failed = call.failed \/ call'.failed = call.failed \cup {s}
  /\ call.fresh => r = IF s \in call'.failed THEN Failed ELSE Stored.configMap

(* One more shim that is done with keeps the invariant.                    *)
LEMMA PlannedStep ==
  ASSUME Inv, NEW s, NEW r \in ReadSet, DoneWith(s, r)
  PROVE  Inv'
<1>a. /\ UNCHANGED <<log, pos, request, pod>> /\ NextInOrder(s)
      /\ call'.namespace = call.namespace /\ call'.serviceAccount = call.serviceAccount
      /\ call'.replica = call.replica /\ call'.fresh = call.fresh
  BY Zenon DEF DoneWith
<1>b. /\ call' \in CallType /\ call'.pc = "buildPlans"
      /\ call'.listed = call.listed /\ call'.todo = call.todo \ {s}
      /\ call'.applied = call.applied
  BY Zenon DEF DoneWith
<1>c. call'.plans = IF HasPlan(s, Seen, r) THEN Append(call.plans, PlanOf(s, Seen, r))
                    ELSE call.plans
  BY Zenon DEF DoneWith
<1>d. /\ call.warned \subseteq call'.warned
      /\ Skipped(s) /\ ~HasPlan(s, Seen, r) => s \in call'.warned
  BY Zenon DEF DoneWith
<1>e. /\ call'.failed = call.failed \/ call'.failed = call.failed \cup {s}
      /\ call.fresh => r = IF s \in call'.failed THEN Failed ELSE Stored.configMap
  BY Zenon DEF DoneWith
<1>1. /\ call.pc = "buildPlans" /\ s \in call.todo /\ \A o \in call.todo : ~Before(o, s)
  BY <1>a DEF NextInOrder
<1>2. /\ call.todo \subseteq call.listed /\ call.failed \subseteq Done
      /\ \A x \in Done, y \in call.todo : Before(x, y)
      /\ \A x \in Done : Skipped(x) => \/ x \in call.warned
                                       \/ \E p \in Waiting \cup call.applied : p.shim = x
  BY <1>1 DEF Inv, BuildInv
<1>3. PICK read \in [call.listed -> ReadSet] : Progress(read)
  BY <1>1 DEF Inv, BuildInv
<1> DEFINE new == [read EXCEPT ![s] = r]
<1>4. /\ new \in [call.listed -> ReadSet] /\ new[s] = r
      /\ \A x \in Done : new[x] = read[x]
  BY <1>1, <1>2 DEF Done
<1>5. Done' = Done \cup {s} /\ s \notin Done /\ Done \subseteq call.listed
  BY <1>1, <1>2, <1>b DEF Done
<1>6. Seen' = Seen /\ ReadSet' = ReadSet /\ Stored' = Stored
  BY <1>a DEF Seen, ReadSet, Stored
<1>7. Decided(read) = {} /\ BuiltFrom(read) = Waiting /\ call.applied = {}
  BY <1>1, <1>3 DEF Progress, Decided
<1> DEFINE one == IF HasPlan(s, Seen, r) THEN {PlanOf(s, Seen, r)} ELSE {}
<1> HIDE DEF new
<1>8. BuiltFrom(new)' = BuiltFrom(read) \cup one
  BY <1>4, <1>5, <1>6 DEF BuiltFrom
<1> DEFINE n == Len(call.plans)
           p == PlanOf(s, Seen, r)
<1>9. /\ call.plans \in Seq(PlanSet) /\ n \in Nat /\ DOMAIN call.plans = 1..n
      /\ p \in PlanSet /\ p.shim = s
  <2>1. call \in CallType
    BY DEF Inv, TypeInv
  <2>2. call.plans \in Seq(PlanSet)
    BY <2>1 DEF CallType
  <2>3. n \in Nat /\ DOMAIN call.plans = 1..n
    BY <2>2
  <2>4. s \in call.listed
    BY <1>1, <1>2
  <2>5. p \in PlanSet
    BY <1>1, <2>4, PlanTyped
  <2>6. p.shim = s
    BY DEF PlanOf
  <2> QED
    BY <2>2, <2>3, <2>5, <2>6
<1>10. /\ Waiting' = Waiting \cup one
       /\ \A i, j \in DOMAIN call'.plans :
            i < j => Before(call'.plans[i].shim, call'.plans[j].shim)
  <2>1. CASE HasPlan(s, Seen, r)
    <3>1. /\ DOMAIN call'.plans = 1..(n + 1) /\ call'.plans[n + 1] = p
          /\ \A i \in 1..n : call'.plans[i] = call.plans[i]
      BY <1>9, <1>c, <2>1
    <3>2. Waiting' = Waiting \cup {p} /\ one = {p}
      <4>1. PICK last : /\ DOMAIN call'.plans = DOMAIN call.plans \cup {last}
                        /\ call'.plans[last] = p
        BY <1>9, <3>1
      <4>2. \A i \in DOMAIN call.plans : call'.plans[i] = call.plans[i]
        BY <1>9, <3>1
      <4>3. Waiting' = Waiting \cup {p}
        <5> HIDE DEF p
        <5>1. Waiting' \subseteq Waiting \cup {p}
          BY <4>1, <4>2, Zenon DEF Waiting
        <5>2. Waiting \cup {p} \subseteq Waiting'
          BY <4>1, <4>2, Zenon DEF Waiting
        <5> QED
          BY <5>1, <5>2, Zenon
      <4> QED
        BY <2>1, <4>3 DEF p
    <3>3. \A q \in Waiting : q.shim \in Done
      <4> SUFFICES ASSUME NEW q \in BuiltFrom(read) PROVE q.shim \in Done
        BY <1>7
      <4>1. PICK x \in Done : q = PlanOf(x, Seen, read[x])
        BY DEF BuiltFrom
      <4> QED
        BY <4>1, ZenonT(30) DEF PlanOf
    <3>4. \A i \in 1..n : call.plans[i] \in Waiting
      BY <1>9 DEF Waiting
    <3>5. \A i, j \in DOMAIN call'.plans :
            i < j => Before(call'.plans[i].shim, call'.plans[j].shim)
      <4> SUFFICES ASSUME NEW i \in 1..(n + 1), NEW j \in 1..(n + 1), i < j
                   PROVE  Before(call'.plans[i].shim, call'.plans[j].shim)
        BY <3>1
      <4>1. CASE j = n + 1
        <5>1. i \in 1..n
          BY <1>9, <4>1
        <5>2. call.plans[i].shim \in Done /\ call'.plans[i] = call.plans[i]
          BY <3>1, <3>3, <3>4, <5>1
        <5>3. call'.plans[j].shim = s
          BY <1>9, <3>1, <4>1
        <5> QED
          BY <1>1, <1>2, <5>2, <5>3
      <4>2. CASE j # n + 1
        <5>1. i \in 1..n /\ j \in 1..n
          BY <1>9, <4>2
        <5> QED
          BY <1>3, <1>9, <3>1, <5>1, SMTT(30) DEF Progress
      <4> QED
        BY <4>1, <4>2
    <3> QED
      BY <3>2, <3>5
  <2>2. CASE ~HasPlan(s, Seen, r)
    <3>1. Waiting' = Waiting /\ one = {}
      BY <1>c, <2>2, ZenonT(30) DEF Waiting
    <3> QED
      BY <1>3, <1>c, <2>2, <3>1, Zenon DEF Progress
  <2> QED
    BY <2>1, <2>2, Zenon
<1>11. Decided(new)' = {}
  BY <1>7, <1>8, <1>10, Zenon DEF Decided
<1>12. \A x \in Done' : call'.fresh => new[x] = IF x \in call'.failed THEN Failed
                                                ELSE Stored'.configMap
  BY <1>2, <1>3, <1>4, <1>5, <1>6, <1>a, <1>e, ZenonT(30) DEF Progress
<1>13. Progress(new)'
  BY <1>4, <1>6, <1>7, <1>8, <1>10, <1>11, <1>12, <1>b, ZenonT(30) DEF Progress
<1>14. \A x \in Done', y \in call'.todo : Before(x, y)
  <2>1. \A y \in call.todo \ {s} : Before(s, y)
    BY <1>1, <1>2, ListedInOrder
  <2> QED
    BY <1>2, <1>5, <1>b, <2>1, ZenonT(30)
<1>15. ASSUME NEW x \in Done', Skipped(x)'
       PROVE  \/ x \in call'.warned
              \/ \E q \in Waiting' \cup call'.applied : q.shim = x
  <2>1. Skipped(x)
    BY <1>6, <1>15, <1>a DEF Skipped
  <2>2. CASE x = s
    <3>1. HasPlan(s, Seen, r) => p \in Waiting' /\ p.shim = s
      BY <1>9, <1>10, Zenon
    <3> QED
      BY <1>d, <2>1, <2>2, <3>1
  <2>3. CASE x \in Done
    BY <1>2, <1>10, <1>b, <1>d, <2>1, <2>3, SMTT(30)
  <2> QED
    BY <1>5, <2>2, <2>3
<1>16. call'.todo \subseteq call'.listed /\ call'.failed \subseteq Done'
  BY <1>2, <1>5, <1>b, <1>e
<1>17. new \in [call'.listed -> ReadSet']
  BY <1>4, <1>6, <1>b
<1>18. BuildInv'
  BY <1>13, <1>14, <1>15, <1>16, <1>17 DEF BuildInv
<1> QED
  BY <1>1, <1>18, <1>a, <1>b, BuildingStep, Zenon

(* buildPlans with the ConfigMap as it is stored, or unreadable.           *)
LEMMA BuildPlanStep == ASSUME Inv, NEW s \in call.todo, BuildPlan(s) PROVE Inv'
<1> DEFINE r == Stored.configMap
<1>1. UNCHANGED <<log, pos, request, pod>> /\ NextInOrder(s) /\ Planned(s, r)
  BY SMTT(30) DEF BuildPlan
<1>2. call \in CallType /\ call.pc = "buildPlans" /\ s \in call.listed /\ s \notin call.failed
  BY <1>1, Zenon DEF Inv, TypeInv, NextInOrder, BuildInv, Done
<1>3. r \in ReadSet
  BY DEF Inv, LogInv, ReadSet, Stored
<1> HIDE DEF r
<1>4. PlanOf(s, Seen, r) \in PlanSet
  BY <1>2, <1>3, PlanTyped
<1> DEFINE plans == IF HasPlan(s, Seen, r) THEN Append(call.plans, PlanOf(s, Seen, r))
                    ELSE call.plans
           warned == IF ~HasPlan(s, Seen, r) /\ Skipped(s) THEN call.warned \cup {s}
                     ELSE call.warned
<1>5. call' = [call EXCEPT !.todo = call.todo \ {s}, !.plans = plans, !.warned = warned]
  BY <1>1 DEF Planned
<1>6. /\ plans \in Seq(PlanSet) /\ warned \in SUBSET Shims /\ call.warned \subseteq warned
      /\ Skipped(s) /\ ~HasPlan(s, Seen, r) => s \in warned
  BY <1>2, <1>4 DEF CallType
<1> HIDE DEF plans, warned
<1>7. /\ call' \in CallType /\ call'.pc = "buildPlans" /\ call'.listed = call.listed
      /\ call'.todo = call.todo \ {s} /\ call'.plans = plans /\ call'.warned = warned
      /\ call'.namespace = call.namespace /\ call'.serviceAccount = call.serviceAccount
      /\ call'.replica = call.replica /\ call'.fresh = call.fresh
      /\ call'.applied = call.applied /\ call'.failed = call.failed
  <2>1. PlanSet' = PlanSet
    BY <1>1 DEF PlanSet
  <2> QED
    BY <1>2, <1>5, <1>6, Zenon DEF CallType
<1>8. r = IF s \in call'.failed THEN Failed ELSE Stored.configMap
  BY <1>2, <1>7 DEF r
<1>9. DoneWith(s, r)
  BY <1>1, <1>6, <1>7, <1>8, Zenon DEF plans, DoneWith
<1> QED
  BY <1>3, <1>9, PlannedStep, Zenon

(* A ConfigMap that cannot be read costs the one shim, with a warning.     *)
LEMMA GetConfigMapFailsStep == ASSUME Inv, NEW s \in call.todo, GetConfigMapFails(s) PROVE Inv'
<1>1. /\ UNCHANGED <<log, pos, request, pod>> /\ NextInOrder(s) /\ s.source = "configMap"
      /\ call' = [call EXCEPT !.todo = call.todo \ {s}, !.warned = call.warned \cup {s},
                              !.failed = call.failed \cup {s}]
  BY DEF GetConfigMapFails, ConfigMapUnread
<1>2. call \in CallType /\ call.pc = "buildPlans" /\ s \in Shims
  BY <1>1 DEF Inv, TypeInv, CallType, NextInOrder
<1>3. Failed \in ReadSet
  BY DEF ReadSet
<1>4. ~HasPlan(s, Seen, Failed)
  <2>1. Value(s, Seen, Failed) = Failed
    BY <1>1 DEF Value
  <2> QED
    BY <2>1 DEF HasPlan
<1>5. /\ call' \in CallType /\ call'.pc = "buildPlans" /\ call'.listed = call.listed
      /\ call'.todo = call.todo \ {s} /\ call'.plans = call.plans
      /\ call'.warned = call.warned \cup {s}
      /\ call'.namespace = call.namespace /\ call'.serviceAccount = call.serviceAccount
      /\ call'.replica = call.replica /\ call'.fresh = call.fresh
      /\ call'.applied = call.applied /\ call'.failed = call.failed \cup {s}
  BY <1>1, <1>2, ZenonT(30) DEF CallType
<1>6. DoneWith(s, Failed)
  BY <1>1, <1>4, <1>5, Zenon DEF DoneWith
<1> QED
  BY <1>3, <1>6, PlannedStep, Zenon

(* Apply decides on the first plan that waits.  Whatever is applied comes  *)
(* before it, so that a conflict is one with an earlier plan.              *)
LEMMA ApplyPlanStep == ASSUME Inv, ApplyPlan PROVE Inv'
<1> DEFINE p == Head(call.plans)
           n == Len(call.plans)
           applied == IF Collides(p) THEN call.applied ELSE call.applied \cup {p}
           warned == call.warned \cup CollisionWarning(p)
<1>1. /\ UNCHANGED <<log, pos, request, pod>> /\ call.pc = "buildPlans" /\ call.todo = {}
      /\ call.plans # <<>>
      /\ call' = [call EXCEPT !.plans = Tail(call.plans), !.applied = applied,
                              !.warned = warned]
  BY DEF ApplyPlan, PlansBuilt
<1>2. call \in CallType /\ call.plans \in Seq(PlanSet)
  BY DEF Inv, TypeInv, CallType
<1>3. /\ n \in Nat \ {0} /\ DOMAIN call.plans = 1..n /\ p = call.plans[1] /\ p \in PlanSet
      /\ Tail(call.plans) \in Seq(PlanSet) /\ DOMAIN Tail(call.plans) = 1..(n - 1)
      /\ \A i \in 1..(n - 1) : Tail(call.plans)[i] = call.plans[i + 1]
  BY <1>1, <1>2
<1>4. PICK read \in [call.listed -> ReadSet] : Progress(read)
  BY <1>1 DEF Inv, BuildInv
<1>5. p \in Waiting /\ p \in BuiltFrom(read) /\ p \notin Decided(read) /\ p \notin call.applied
  BY <1>3, <1>4 DEF Waiting, Progress, Decided
<1>6. \A q \in BuiltFrom(read) : q.shim \in Done /\ q.shim \in call.listed /\ q.shim \in Shims
  BY <1>2 DEF BuiltFrom, PlanOf, Done, CallType
<1>7. /\ applied \in SUBSET PlanSet /\ warned \in SUBSET Shims /\ call.warned \subseteq warned
      /\ p \in applied \/ p.shim \in warned
      /\ call.applied \subseteq applied /\ applied \subseteq call.applied \cup {p}
      /\ p \in applied <=> ~\E q \in call.applied : Conflicts(q.shim, p.shim)
  BY <1>2, <1>3, <1>5, <1>6, Zenon DEF CallType, CollisionWarning, Collides
<1> HIDE DEF p, n, applied, warned
<1>8. /\ call' \in CallType /\ call'.pc = "buildPlans" /\ call'.listed = call.listed
      /\ call'.todo = {} /\ call'.plans = Tail(call.plans) /\ call'.warned = warned
      /\ call'.namespace = call.namespace /\ call'.serviceAccount = call.serviceAccount
      /\ call'.replica = call.replica /\ call'.fresh = call.fresh
      /\ call'.applied = applied /\ call'.failed = call.failed
  BY <1>1, <1>2, <1>3, <1>7, Zenon DEF CallType
<1>9. Done' = Done /\ Seen' = Seen /\ ReadSet' = ReadSet /\ Stored' = Stored
  BY <1>1, <1>8 DEF Done, Seen, ReadSet, Stored
<1>10. BuiltFrom(read)' = BuiltFrom(read)
  BY <1>9 DEF BuiltFrom
<1>11. \A i \in 2..n : /\ call.plans[i] \in Waiting
                       /\ Before(p.shim, call.plans[i].shim)
                       /\ call.plans[i] # p
  <2>1. \A i \in 2..n : call.plans[i] \in Waiting /\ Before(p.shim, call.plans[i].shim)
    BY <1>3, <1>4 DEF Progress, Waiting
  <2>2. ~Before(p.shim, p.shim)
    BY <1>1, <1>5, <1>6, ListedInOrder
  <2> QED
    BY <2>1, <2>2, SMTT(30)
<1>12. Waiting' = Waiting \ {p}
  <2>1. Waiting' = {call.plans[i] : i \in 2..n}
    <3>1. \A i \in 2..n : i - 1 \in 1..(n - 1) /\ Tail(call.plans)[i - 1] = call.plans[i]
      BY <1>3
    <3>2. \A i \in 1..(n - 1) : i + 1 \in 2..n
      BY <1>3
    <3>3. Waiting' = {Tail(call.plans)[i] : i \in 1..(n - 1)}
      BY <1>3, <1>8, Zenon DEF Waiting
    <3> HIDE DEF n
    <3>4. \A x : x \in Waiting' => x \in {call.plans[i] : i \in 2..n}
      BY <1>3, <3>2, <3>3
    <3>5. \A x : x \in {call.plans[i] : i \in 2..n} => x \in Waiting'
      <4> SUFFICES ASSUME NEW i \in 2..n PROVE call.plans[i] \in Waiting'
        OBVIOUS
      <4> QED
        BY <3>1, <3>3, Zenon
    <3> QED
      BY <3>4, <3>5
  <2>2. Waiting = {p} \cup {call.plans[i] : i \in 2..n}
    BY <1>3 DEF Waiting
  <2> QED
    BY <1>11, <2>1, <2>2
<1>13. Decided(read)' = Decided(read) \cup {p}
  BY <1>5, <1>10, <1>12, SMTT(30) DEF Decided
<1>14. Progress(read)'
  <2>1. read \in [call.listed -> ReadSet]' /\ (Waiting \subseteq BuiltFrom(read))'
        /\ (call.applied \subseteq Decided(read))' /\ call'.todo = {}
    BY <1>4, <1>7, <1>8, <1>9, <1>10, <1>12, <1>13, SMTT(30) DEF Progress
  <2>2. (\A i, j \in DOMAIN call.plans :
            i < j => Before(call.plans[i].shim, call.plans[j].shim))'
    <3>1. \A i, j \in 1..n : i < j => Before(call.plans[i].shim, call.plans[j].shim)
      BY <1>3, <1>4 DEF Progress
    <3>2. \A i, j \in 1..(n - 1) : i < j =>
             Before(Tail(call.plans)[i].shim, Tail(call.plans)[j].shim)
      BY <1>3, <3>1
    <3> QED
      BY <1>3, <1>8, <3>2
  <2>3. (\A d \in Decided(read), q \in Waiting : Before(d.shim, q.shim))'
    <3>1. \A q \in Waiting \ {p} : Before(p.shim, q.shim)
      BY <1>3, <1>11 DEF Waiting
    <3>2. \A d \in Decided(read), q \in Waiting : Before(d.shim, q.shim)
      BY <1>4 DEF Progress
    <3> QED
      BY <1>12, <1>13, <3>1, <3>2
  <2>4. (\A d \in Decided(read) :
           d \in call.applied <=>
             ~\E q \in call.applied : Before(q.shim, d.shim) /\ Conflicts(q.shim, d.shim))'
    <3>1. \A d \in Decided(read) :
            d \in call.applied <=>
              ~\E q \in call.applied : Before(q.shim, d.shim) /\ Conflicts(q.shim, d.shim)
      BY <1>4 DEF Progress
    <3>2. \A d \in Decided(read) : Before(d.shim, p.shim) /\ ~Before(p.shim, d.shim)
      <4> SUFFICES ASSUME NEW d \in Decided(read)
                   PROVE  Before(d.shim, p.shim) /\ ~Before(p.shim, d.shim)
        OBVIOUS
      <4>1. Before(d.shim, p.shim)
        BY <1>4, <1>5 DEF Progress
      <4>2. d.shim \in call.listed /\ p.shim \in call.listed
        BY <1>5, <1>6 DEF Decided
      <4> QED
        BY <1>1, <4>1, <4>2, ListedInOrder
    <3>3. call.applied \subseteq Decided(read) /\ ~Before(p.shim, p.shim)
      BY <1>1, <1>4, <1>5, <1>6, ListedInOrder, SMTT(30) DEF Progress
    <3>4. \A d \in Decided(read) :
            d \in applied <=>
              ~\E q \in applied : Before(q.shim, d.shim) /\ Conflicts(q.shim, d.shim)
      BY <1>5, <1>7, <3>1, <3>2, <3>3
    <3>5. p \in applied <=>
            ~\E q \in applied : Before(q.shim, p.shim) /\ Conflicts(q.shim, p.shim)
      BY <1>7, <3>2, <3>3
    <3> QED
      BY <1>8, <1>13, <3>4, <3>5
  <2>5. call'.fresh => \A s \in Done' : read[s] = IF s \in call'.failed THEN Failed
                                                 ELSE Stored'.configMap
    BY <1>4, <1>8, <1>9 DEF Progress
  <2> QED
    BY <2>1, <2>2, <2>3, <2>4, <2>5, SMTT(30) DEF Progress
<1>15. BuildInv'
  <2>1. \A s \in Done : Skipped(s) => \/ s \in warned
                                      \/ \E q \in (Waiting \ {p}) \cup applied : q.shim = s
    BY <1>1, <1>7 DEF Inv, BuildInv
  <2>2. \A s : Skipped(s)' <=> Skipped(s)
    BY <1>9 DEF Skipped
  <2>3. call.failed \subseteq Done
    BY <1>1, SMTT(30) DEF Inv, BuildInv
  <2> QED
    BY <1>4, <1>8, <1>9, <1>12, <1>14, <2>1, <2>2, <2>3 DEF BuildInv
<1> QED
  BY <1>1, <1>8, <1>15, BuildingStep

(* The plans built from what the call read are those of any contents that  *)
(* agree with what it read.                                                *)
LEMMA BuiltIsBuildable ==
  ASSUME NEW store, NEW read, call.todo = {}, ~Exempt(request), call.plans = <<>>,
         store.namespace = call.namespace, store.serviceAccount = call.serviceAccount,
         Listed(store) = call.listed, Progress(read)
  PROVE  IsExpected(call.applied, store, request, read)
<1>1. Done = Listed(store) /\ Waiting = {} /\ Decided(read) = BuiltFrom(read)
  BY DEF Done, Waiting, Decided
<1>2. Seen = Target(request, store.namespace, store.serviceAccount)
  BY SMTT(30) DEF Seen
<1>3. BuiltFrom(read) = Buildable(store, request, read)
  BY <1>1, <1>2, Zenon DEF BuiltFrom, Buildable
<1> QED
  BY <1>1, <1>3, Zenon DEF Progress, IsExpected

(* A call that has read each resource at some moment has a justification.  *)
LEMMA AppliedJustified ==
  ASSUME Inv, PlansBuilt, call.plans = <<>> PROVE Justified(call.applied)
<1> DEFINE View(m) == [k \in Resources |-> IF k \in Informers THEN log[m[k]][k] ELSE NoValue]
<1>1. PICK a \in DOMAIN log : call.namespace = log[a]["namespace"]
  BY Zenon DEF PlansBuilt, Inv, ReadInv, Shown
<1>2. PICK b \in DOMAIN log : call.serviceAccount = log[b]["serviceAccount"]
  BY DEF PlansBuilt, Inv, ReadInv, Shown
<1>3. PICK i, j \in DOMAIN log : call.listed = log[i].oidcshims \cup log[j].clusteroidcshims
  BY DEF PlansBuilt, Inv, ReadInv
<1> DEFINE m == [k \in Informers |-> IF k = "namespace" THEN a
                                     ELSE IF k = "serviceAccount" THEN b
                                     ELSE IF k = "oidcshims" THEN i ELSE j]
<1>4. m \in [Informers -> DOMAIN log]
  OBVIOUS
<1>5. /\ View(m).namespace = call.namespace /\ View(m).serviceAccount = call.serviceAccount
      /\ Listed(View(m)) = call.listed
  BY <1>1, <1>2, <1>3, SMTT(30) DEF Listed, Informers, Resources
<1>6. PICK read \in [call.listed -> ReadSet] : Progress(read)
  BY DEF PlansBuilt, Inv, BuildInv
<1>7. ~Exempt(request) /\ call.todo = {}
  BY DEF PlansBuilt, Inv, PodInv, InCall
<1> HIDE DEF m
<1>8. IsExpected(call.applied, View(m), request, read)
  <2> DEFINE store == View(m)
  <2>1. /\ store.namespace = call.namespace /\ store.serviceAccount = call.serviceAccount
        /\ Listed(store) = call.listed
    BY <1>5, SMTT(30)
  <2> HIDE DEF store
  <2>2. IsExpected(call.applied, store, request, read)
    BY <1>6, <1>7, <2>1, BuiltIsBuildable
  <2> QED
    BY <2>2 DEF store
<1>9. read \in [Listed(View(m)) -> ReadSet]
  BY <1>5
<1> QED
  BY <1>4, <1>8, <1>9, Zenon DEF Justified

(* The answer is what the rules give, and warns of what it leaves out.     *)
LEMMA RespondStep == ASSUME Inv, Respond PROVE Inv'
<1>1. /\ UNCHANGED <<log, pos, request, faults>> /\ PlansBuilt
      /\ call.pc = "buildPlans" /\ call.todo = {} /\ call.plans = <<>>
      /\ call' = [call EXCEPT !.pc = "answered"]
      /\ pod' = [pod EXCEPT !.shims = call.applied, !.warned = pod.warned \cup call.warned]
  BY DEF Respond, PlansBuilt, Answer
<1>2. LogInv' /\ PosInv' /\ PlanSet' = PlanSet /\ Stored' = Stored /\ Grows
  BY <1>1, SameWorld DEF Inv
<1>3. /\ call'.pc = "answered" /\ call'.fresh = call.fresh /\ call'.listed = call.listed
      /\ call'.failed = call.failed /\ call'.namespace = call.namespace
      /\ call'.serviceAccount = call.serviceAccount
  BY <1>1 DEF Inv, TypeInv, CallType
<1>4. /\ pod'.shims = call.applied /\ pod'.phase = pod.phase
      /\ pod'.warned = pod.warned \cup call.warned
  BY <1>1 DEF Inv, TypeInv, PodType
<1>5. ~Exempt(request) /\ pod.phase = "creating"
  BY <1>1 DEF Inv, PodInv, InCall
<1>6. TypeInv'
  BY <1>1, <1>2, Zenon DEF Inv, TypeInv, CallType, PodType
<1>7. PodInv' /\ ReadInv' /\ FreshInv' /\ BuildInv'
  BY <1>1, <1>3, <1>4, <1>5 DEF PodInv, ReadInv, FreshInv, BuildInv, InCall
<1>8. Justified(pod.shims)'
  <2>1. PICK shims : shims = call.applied
    OBVIOUS
  <2>2. Justified(shims)
    BY <1>1, <2>1, AppliedJustified
  <2>3. Justified(shims)'
    BY <1>1, <1>2, <2>2, StillJustified
  <2> QED
    BY <1>4, <2>1, <2>3
<1>9. CaughtUpIsExact'
  <2> SUFFICES ASSUME call.fresh
               PROVE IsExpected(call.applied, Stored, request,
                        [s \in Listed(Stored) |-> IF s \in call.failed THEN Failed
                                                  ELSE Stored.configMap])
    BY <1>1, <1>2, <1>3, <1>4 DEF CaughtUpIsExact
  <2>1. /\ Stored.namespace = call.namespace /\ Stored.serviceAccount = call.serviceAccount
        /\ Listed(Stored) = call.listed
    BY <1>1 DEF Inv, FreshInv
  <2>2. PICK read \in [call.listed -> ReadSet] : Progress(read)
    BY <1>1 DEF Inv, BuildInv
  <2>3. \A s \in call.listed : read[s] = IF s \in call.failed THEN Failed ELSE Stored.configMap
    BY <1>1, <2>2 DEF Progress, Done
  <2>4. read = [s \in Listed(Stored) |-> IF s \in call.failed THEN Failed
                                         ELSE Stored.configMap]
    BY <2>1, <2>2, <2>3
  <2>5. IsExpected(call.applied, Stored, request, read)
    BY <1>1, <1>5, <2>1, <2>2, BuiltIsBuildable
  <2> QED
    BY <2>4, <2>5
<1>10. NoSilentMiss'
  <2>1. \A s : Skipped(s)' <=> Skipped(s)
    BY <1>1, <1>3 DEF Skipped, Seen
  <2>2. \A s \in call.listed : Skipped(s) => \/ s \in call.warned
                                            \/ \E p \in call.applied : p.shim = s
    BY <1>1 DEF Inv, BuildInv, Done, Waiting
  <2> QED
    BY <1>3, <1>4, <2>1, <2>2 DEF NoSilentMiss
<1> QED
  BY <1>2, <1>6, <1>7, <1>8, <1>9, <1>10 DEF Inv, AnswerInv

(* Every step keeps the invariant.                                         *)
LEMMA InvStep == Inv /\ [Next]_vars => Inv'
<1> SUFFICES ASSUME Inv, [Next]_vars PROVE Inv'
  OBVIOUS
<1>1. CASE UNCHANGED vars
  <2>1. PosInv' /\ (call.fresh /\ InCall => CaughtUp(call.replica)')
    BY <1>1 DEF vars, Inv, PosInv, FreshInv, Moments, CaughtUp
  <2> QED
    BY <1>1, <2>1, CacheStep, SMTT(30) DEF vars
<1>2. CASE Next
  BY <1>2, ChangeStep, OutsideStep, CallStep, AllowStep, ReadNamespaceStep,
     ReadServiceAccountStep, ListOIDCShimsStep, ListClusterOIDCShimsStep, BuildPlanStep,
     GetConfigMapFailsStep, ApplyPlanStep, RespondStep, Zenon DEF Next
<1> QED
  BY <1>1, <1>2

(* The invariant holds in every behaviour.                                 *)
THEOREM InvHolds == Spec => []Inv
  BY InitInv, InvStep, PTL DEF Spec

(* However the caches of the replicas lag, a call that began on current    *)
(* ones and met no change answers with exactly the shims that the stored   *)
(* objects call for.                                                       *)
THEOREM FreshCallsAreExact == Spec => []CaughtUpIsExact
<1>1. Inv => CaughtUpIsExact
  BY DEF Inv, AnswerInv
<1> QED
  BY <1>1, InvHolds, PTL

(* Handle never leaves out a shim that matches the pod without a warning,  *)
(* whichever of its reads, builds and collisions is to blame.              *)
THEOREM MissesAreTold == Spec => []NoSilentMiss
<1>1. Inv => NoSilentMiss
  BY DEF Inv, AnswerInv
<1> QED
  BY <1>1, InvHolds, PTL

(* What an admission has injected stays as it is, over reinvocations and   *)
(* on every replica, until the pod is refused or deleted.                  *)
THEOREM InjectionIsFinal == Spec => NeverRetrofitted
<1>1. Inv /\ [Next]_vars =>
        [pod.shims # {} \/ pod.phase = "running" =>
           pod'.shims = pod.shims \/ pod'.phase \in {"absent", "refused"}]_vars
  <2> SUFFICES ASSUME Inv, Next, pod.shims # {} \/ pod.phase = "running"
               PROVE  pod'.shims = pod.shims \/ pod'.phase \in {"absent", "refused"}
    OBVIOUS
  <2>1. pod \in PodType
    BY DEF Inv, TypeInv
  <2>2. pod.phase \notin {"absent", "refused"} /\ call.pc # "buildPlans"
    BY DEF Inv, PodInv, InCall
  <2>3. \/ pod' = pod \/ Create \/ Delete \/ Reinvoke \/ Persist \/ Allow \/ Respond
        \/ pod' = [NoPod EXCEPT !.phase = "refused"]
    BY Zenon DEF Next, Change, Timeout, Call, Restart, CacheAdvances, ReadNamespace,
           ReadServiceAccount, ListOIDCShims, ListClusterOIDCShims, Read, List, ReadFails,
           BuildPlan, GetConfigMapFails, ApplyPlan, Refuse, Errored
  <2>4. ~Create /\ ~Respond
    BY <2>2 DEF Create, Respond, PlansBuilt
  <2>5. Reinvoke \/ Persist \/ Allow => pod'.shims = pod.shims
    BY <2>1, Zenon DEF Reinvoke, Persist, Allow, Answer, PodType
  <2>6. Delete => pod'.phase = "absent"
    BY DEF Delete, NoPod
  <2>7. [NoPod EXCEPT !.phase = "refused"].phase = "refused"
    BY DEF NoPod
  <2> QED
    BY <2>3, <2>4, <2>5, <2>6, <2>7, Zenon
<1> QED
  BY <1>1, InvHolds, PTL DEF Spec, NeverRetrofitted

-----------------------------------------------------------------------------
(* The type invariant: beside Inv, the bounds, the shape of a pod that is  *)
(* not there, and the shims that buildPlans has left.                      *)

ShapeInv ==
  /\ Len(log) <= MaxChanges + 1
  /\ request \in Requests
  /\ pod.phase \in {"absent", "refused"} => pod = [NoPod EXCEPT !.phase = pod.phase]
  /\ call.todo \subseteq call.listed
  /\ faults \in 0..MaxFaults

(* At first nothing has changed, failed or been called.                    *)
LEMMA InitShape == Init => ShapeInv
<1> SUFFICES ASSUME Init PROVE ShapeInv
  OBVIOUS
<1>1. Len(log) = 1
  BY DEF Init
<1>2. NoPod = [NoPod EXCEPT !.phase = "absent"] /\ NoPod.phase = "absent"
  BY DEF NoPod
<1>3. call.todo = {} /\ request \in Requests /\ pod = NoPod /\ faults = 0
  BY DEF Init, NoCall
<1> QED
  BY <1>1, <1>2, <1>3, BoundsAssumption DEF ShapeInv

(* A pod is made anew, refused, or changed while it is being created or    *)
(* runs; no step gives an absent pod anything.                             *)
LEMMA PodShape ==
  ASSUME Inv, ShapeInv, Next
  PROVE  pod'.phase \in {"absent", "refused"} => pod' = [NoPod EXCEPT !.phase = pod'.phase]
<1>1. pod \in PodType
  BY DEF Inv, TypeInv
<1>2. \/ pod' = pod
      \/ \E p \in {"absent", "creating", "refused"} : pod' = [NoPod EXCEPT !.phase = p]
      \/ call.pc # "none" /\ pod'.phase \in {pod.phase, "running"}
  <2>1. NoPod = [NoPod EXCEPT !.phase = "absent"]
    BY DEF NoPod
  <2>2. \A x : [pod EXCEPT !.reinvoked = x].phase = pod.phase
    BY <1>1 DEF PodType
  <2>3. [pod EXCEPT !.phase = "running"].phase = "running"
    BY <1>1 DEF PodType
  <2>4. \A x, y : [pod EXCEPT !.shims = x, !.warned = @ \cup y].phase = pod.phase
    BY <1>1 DEF PodType
  <2>5. \/ pod' = pod \/ Create \/ Delete \/ Reinvoke \/ Persist \/ Allow \/ Respond
        \/ pod' = [NoPod EXCEPT !.phase = "refused"]
    BY ZenonT(30)
       DEF Next, Change, Timeout, Call, Restart, Refuse, CacheAdvances, ReadNamespace,
           ReadServiceAccount, Read, ListOIDCShims, ListClusterOIDCShims, List, ReadFails,
           Errored, BuildPlan, GetConfigMapFails, ApplyPlan
  <2>6. Create \/ Delete => \E p \in {"absent", "creating"} : pod' = [NoPod EXCEPT !.phase = p]
    BY <2>1, Zenon DEF Create, Delete
  <2>7. Reinvoke \/ Persist => call.pc # "none" /\ pod'.phase \in {pod.phase, "running"}
    BY <2>2, <2>3, Zenon DEF Reinvoke, Persist
  <2>8. Allow \/ Respond => call.pc # "none" /\ pod'.phase = pod.phase
    <3>1. Allow \/ Respond => \E x, y : pod' = [pod EXCEPT !.shims = x, !.warned = @ \cup y]
      BY Zenon DEF Allow, Respond, Answer
    <3>2. Allow \/ Respond => call.pc # "none"
      BY DEF Allow, Respond, PlansBuilt
    <3>3. \A x, y : pod' = [pod EXCEPT !.shims = x, !.warned = @ \cup y] => pod'.phase = pod.phase
      BY <2>4
    <3> QED
      BY <3>1, <3>2, <3>3, Zenon
  <2> QED
    BY <2>5, <2>6, <2>7, <2>8, Zenon
<1>3. CASE \E p \in {"absent", "creating", "refused"} : pod' = [NoPod EXCEPT !.phase = p]
  BY <1>3 DEF NoPod
<1>4. CASE call.pc # "none" /\ pod'.phase \in {pod.phase, "running"}
  BY <1>4 DEF Inv, PodInv
<1> QED
  BY <1>2, <1>3, <1>4 DEF ShapeInv

(* buildPlans takes its shims from those that were listed.                 *)
LEMMA TodoShape == ASSUME Inv, ShapeInv, Next PROVE call'.todo \subseteq call'.listed
<1>1. call \in CallType
  BY DEF Inv, TypeInv
<1>2. call' = NoCall => call'.todo = {}
  BY DEF NoCall
<1>3. CASE \E k \in Resources : Change(k)
  BY <1>1, <1>3 DEF Change, CallType, ShapeInv
<1>4. CASE UNCHANGED call \/ call' = NoCall
  BY <1>2, <1>4 DEF ShapeInv
<1>5. CASE Allow \/ Respond
  BY <1>1, <1>5 DEF Allow, Respond, Answer, CallType, ShapeInv
<1>6. CASE ReadNamespace \/ ReadServiceAccount
  <2>1. \E to, x : \/ call' = [call EXCEPT !.pc = to, !["namespace"] = x]
                   \/ call' = [call EXCEPT !.pc = to, !["serviceAccount"] = x]
    BY <1>6, Zenon DEF ReadNamespace, ReadServiceAccount, Read
  <2>2. call'.todo = call.todo /\ call'.listed = call.listed
    BY <1>1, <2>1, Zenon DEF CallType
  <2> QED
    BY <2>2 DEF ShapeInv
<1>7. CASE ListOIDCShims \/ ListClusterOIDCShims
  <2>1. \E to, found : call' = [call EXCEPT !.pc = to, !.listed = found, !.todo = found]
    BY <1>7, Zenon DEF ListOIDCShims, ListClusterOIDCShims, List
  <2> QED
    BY <1>1, <2>1 DEF CallType
<1>8. CASE \E s \in call.todo : BuildPlan(s) \/ GetConfigMapFails(s)
  <2>1. PICK s \in call.todo : BuildPlan(s) \/ GetConfigMapFails(s)
    BY <1>8
  <2>2. \/ \E p, w : call' = [call EXCEPT !.todo = @ \ {s}, !.plans = p, !.warned = w]
        \/ \E w, f : call' = [call EXCEPT !.todo = @ \ {s}, !.warned = w, !.failed = f]
    BY <2>1, Zenon DEF BuildPlan, Planned, GetConfigMapFails, ConfigMapUnread
  <2>3. call'.todo \subseteq call.todo /\ call'.listed = call.listed
    BY <1>1, <2>2, ZenonT(30) DEF CallType
  <2> QED
    BY <2>3 DEF ShapeInv
<1>9. CASE ApplyPlan
  <2>1. \E p, a, w : call' = [call EXCEPT !.plans = p, !.applied = a, !.warned = w]
    BY <1>9, Zenon DEF ApplyPlan
  <2>2. call'.todo = call.todo /\ call'.listed = call.listed
    BY <1>1, <2>1 DEF CallType
  <2> QED
    BY <2>2 DEF ShapeInv
<1>10. CASE \E r \in Replicas : Call(r)
  <2>1. \E r, x : call' = [NoCall EXCEPT !.pc = "called", !.replica = r, !.fresh = x]
    BY <1>10, Zenon DEF Call
  <2>2. call'.todo = {}
    BY <2>1 DEF NoCall
  <2> QED
    BY <2>2
<1> QED
  BY <1>3, <1>4, <1>5, <1>6, <1>7, <1>8, <1>9, <1>10, ZenonT(60)
     DEF Next, Create, Delete, Reinvoke, Persist, Timeout, Restart, Refuse, CacheAdvances,
         ReadFails, Errored

(* Changes and faults stop at their bounds.                                *)
LEMMA BoundShape ==
  ASSUME Inv, ShapeInv, Next
  PROVE  Len(log') <= MaxChanges + 1 /\ request' = request /\ faults' \in 0..MaxFaults
<1>1. request' = request
  BY ZenonT(60) DEF Next, Change, Create, Delete, Reinvoke, Persist, Timeout, Call, Restart, CacheAdvances,
           Allow, Answer, ReadNamespace, ReadServiceAccount, Read,
           ListOIDCShims, ListClusterOIDCShims, List, ReadFails, BuildPlan,
           GetConfigMapFails, ApplyPlan, Respond
<1>2. \/ log' = log \/ \E k \in Resources : Change(k)
  BY ZenonT(60) DEF Next, Create, Delete, Reinvoke, Persist, Timeout, Call, Restart, CacheAdvances,
           Allow, Answer, ReadNamespace, ReadServiceAccount, Read,
           ListOIDCShims, ListClusterOIDCShims, List, ReadFails, BuildPlan,
           GetConfigMapFails, ApplyPlan, Respond
<1>3. faults' = faults \/ Fault
  BY ZenonT(60) DEF Next, Change, Create, Delete, Reinvoke, Persist, Timeout, Call, Restart, CacheAdvances,
           Allow, Answer, ReadNamespace, ReadServiceAccount, Read,
           ListOIDCShims, ListClusterOIDCShims, List, ReadFails, BuildPlan,
           GetConfigMapFails, ApplyPlan, Respond
<1>4. faults' \in 0..MaxFaults
  BY <1>3, BoundsAssumption DEF Fault, ShapeInv
<1>5. ASSUME NEW k \in Resources, Change(k) PROVE Len(log') <= MaxChanges + 1
  <2>1. PICK x : log' = Append(log, x) /\ Len(log) <= MaxChanges
    BY <1>5 DEF Change
  <2>2. Len(log') = Len(log) + 1 /\ Len(log) \in Nat
    BY <2>1 DEF Inv, LogInv
  <2> QED
    BY <2>1, <2>2, BoundsAssumption
<1> QED
  BY <1>1, <1>2, <1>4, <1>5 DEF ShapeInv

(* The caches show moments of the log, a call is about a pod that is being *)
(* created, and what buildPlans works on was in the log.                   *)
THEOREM AdmissionTyped == Spec => []TypeOK
<1>1. Inv /\ ShapeInv /\ [Next]_vars => ShapeInv'
  <2> SUFFICES ASSUME Inv, ShapeInv, [Next]_vars PROVE ShapeInv'
    OBVIOUS
  <2>1. CASE Next
    BY <2>1, PodShape, TodoShape, BoundShape DEF ShapeInv
  <2>2. CASE UNCHANGED vars
    BY <2>2 DEF vars, ShapeInv
  <2> QED
    BY <2>1, <2>2
<1>2. Inv /\ ShapeInv => TypeOK
  <2> SUFFICES ASSUME Inv, ShapeInv PROVE TypeOK
    OBVIOUS
  <2>1. Len(log) \in 1..(MaxChanges + 1)
    BY BoundsAssumption DEF Inv, LogInv, ShapeInv
  <2>2. call \in CallType /\ pod \in PodType
    BY DEF Inv, TypeInv
  <2>3. /\ call.pc \in Reading \cup {"none", "buildPlans", "answered"}
        /\ call.replica \in Replicas
        /\ pod.phase \in {"absent", "creating", "refused", "running"}
    BY <2>2 DEF CallType, PodType, Reading
  <2>4. call.pc # "none" => pod.phase = "creating"
    BY SMTT(30) DEF Inv, PodInv
  <2>5. call.pc = "buildPlans" =>
          \E i, j \in DOMAIN log : /\ call.namespace = log[i].namespace
                                   /\ call.serviceAccount = log[j].serviceAccount
    BY Zenon DEF Inv, ReadInv, Shown
  <2> QED
    BY <2>1, <2>3, <2>4, <2>5, Zenon DEF TypeOK, ShapeInv, Inv, PosInv
<1> QED
  BY <1>1, <1>2, InitShape, InvHolds, PTL DEF Spec


-----------------------------------------------------------------------------
(* The contract.                                                           *)

(* The contract speaks of the same rules.                                  *)
LEMMA SameRules ==
  ASSUME NEW plans, NEW store, NEW req, NEW read
  PROVE  Contract!IsExpected(plans, store, req, read) <=> IsExpected(plans, store, req, read)
<1>1. Contract!Exempt(req) <=> Exempt(req)
  BY DEF Contract!Exempt, Exempt, Contract!OptedOut, OptedOut, Contract!Excluded, Excluded,
         Contract!HasPrefix, HasPrefix
<1>2. \A s, t : Contract!Matches(s, t) <=> Matches(s, t)
  BY DEF Contract!Matches, Matches, Contract!Enrolled, Enrolled, Contract!Kinds, Kinds
<1>3. \A s, t, x : Contract!Value(s, t, x) = Value(s, t, x)
  BY DEF Contract!Value, Value, Contract!Lookup, Lookup
<1>4. \A s, t, x : /\ Contract!HasPlan(s, t, x) <=> HasPlan(s, t, x)
                   /\ Contract!PlanOf(s, t, x) = PlanOf(s, t, x)
  BY <1>2, <1>3, SMTT(30) DEF Contract!HasPlan, HasPlan, Contract!PlanOf, PlanOf, Contract!Selected,
         Selected, Contract!compileFails, compileFails
<1>5. Contract!Buildable(store, req, read) = Buildable(store, req, read)
  BY <1>4 DEF Contract!Buildable, Buildable, Contract!Listed, Listed, Contract!Target, Target
<1>6. \A a, b : /\ Contract!Before(a, b) <=> Before(a, b)
                /\ Contract!Conflicts(a, b) <=> Conflicts(a, b)
  BY DEF Contract!Before, Before, Contract!Conflicts, Conflicts
<1> QED
  BY <1>1, <1>5, <1>6, Zenon DEF Contract!IsExpected, IsExpected

(* A justified answer is one that the contract allows.                     *)
LEMMA JustifiedByContract ==
  ASSUME NEW shims, Justified(shims)
  PROVE  \E m \in [Informers -> DOMAIN log] :
           \E read \in [Listed(Contract!View(m)) -> Contract!Reads] :
             Contract!IsExpected(shims, Contract!View(m), request, read)
<1>1. Contract!Reads = ReadSet
  BY DEF Contract!Reads, ReadSet
<1>2. \A m : Contract!View(m) =
        [k \in Resources |-> IF k \in Informers THEN log[m[k]][k] ELSE NoValue]
  BY DEF Contract!View, Contract!Resources, Resources, Contract!Informers, Informers
<1> QED
  BY <1>1, <1>2, SameRules DEF Justified

(* Replicas, retries and restarts implement the contract: a pod is stored  *)
(* with what the rules give for objects that were there at some time.      *)
THEOREM AdmissionImplementsContract == Spec => ImplementsContract
<1> DEFINE created == [exists |-> pod.phase = "running",
                       shims |-> IF pod.phase = "running" THEN pod.shims ELSE {}]
<1>1. Init => Contract!Init
  <2> SUFFICES ASSUME Init PROVE Contract!Init
    OBVIOUS
  <2>1. (pod.phase = "running") = FALSE
    BY DEF Init, NoPod
  <2>2. created = [exists |-> FALSE, shims |-> {}]
    BY <2>1, Zenon
  <2> QED
    BY <2>2 DEF Init, Contract!Init
<1>2. Inv /\ [Next]_vars => [Contract!Next]_<<log, request, created>>
  <2> SUFFICES ASSUME Inv, Next, ~UNCHANGED <<log, request, created>>
               PROVE  Contract!Next
    BY DEF vars
  <2>1. pod \in PodType
    BY DEF Inv, TypeInv
  <2>2. CASE \E k \in Resources : Change(k)
    BY <2>2, SMTT(30) DEF Change, Contract!Next, Contract!Change, Contract!Resources, Resources,
                Contract!Informers, Informers, Stored
  <2>3. CASE Delete
    <3>1. pod.phase = "running" /\ pod'.phase # "running" /\ UNCHANGED <<log, request>>
      BY <2>3 DEF Delete, NoPod
    <3> QED
      BY <3>1, Zenon DEF Contract!Next, Contract!Delete
  <2>4. CASE Persist
    <3>1. /\ UNCHANGED <<log, request>> /\ call.pc = "answered"
          /\ pod'.phase = "running" /\ pod'.shims = pod.shims
      BY <2>1, <2>4, SMTT(30) DEF Persist, PodType
    <3>2. pod.phase = "creating" /\ Justified(pod.shims)
      BY <3>1 DEF Inv, PodInv, AnswerInv
    <3>3. PICK shims : shims = pod.shims
      BY SMTT(30)
    <3>4. \E m \in [Informers -> DOMAIN log] :
            \E read \in [Listed(Contract!View(m)) -> Contract!Reads] :
              Contract!IsExpected(shims, Contract!View(m), request, read)
      BY <3>2, <3>3, JustifiedByContract, Zenon
    <3>5. /\ ~created.exists /\ created'.exists /\ created'.shims = shims
      BY <3>1, <3>2, <3>3, Zenon
    <3> QED
      BY <3>1, <3>4, <3>5, Zenon DEF Contract!Next, Contract!Create, Contract!Informers, Informers,
             Contract!Listed, Listed
  <2>5. ASSUME ~\E k \in Resources : Change(k), ~Delete, ~Persist PROVE FALSE
    <3>1. UNCHANGED <<log, request>>
      BY <2>5, ZenonT(30) DEF Next, Create, Reinvoke, Timeout, Call, Restart, CacheAdvances,
             Allow, Answer, ReadNamespace, ReadServiceAccount, ListOIDCShims,
             ListClusterOIDCShims, Read, List,
             ReadFails, BuildPlan, GetConfigMapFails, ApplyPlan, Respond
    <3>2. \/ pod' = pod \/ Create \/ Reinvoke \/ Allow \/ Respond
          \/ pod' = [NoPod EXCEPT !.phase = "refused"] /\ call.pc # "none"
      BY <2>5, Zenon DEF Next, Timeout, Call, Restart, CacheAdvances, ReadNamespace, InCall,
             Reading, ReadServiceAccount, ListOIDCShims, ListClusterOIDCShims, Read, List,
             ReadFails, BuildPlan, GetConfigMapFails, ApplyPlan, Refuse, Errored
    <3>3. CASE pod' = pod
      BY <2>5, <3>1, <3>3
    <3>4. CASE ~(pod' = pod)
      <4>1. pod.phase # "running"
        BY <3>2, <3>4 DEF Create, Reinvoke, Allow, Respond, PlansBuilt, Inv, PodInv
      <4>2. pod'.phase # "running"
        BY <2>1, <3>2, <3>4, <4>1, Zenon
           DEF Create, Reinvoke, Allow, Respond, Answer, NoPod, PodType
      <4> QED
        BY <3>1, <4>1, <4>2
    <3> QED
      BY <3>3, <3>4
  <2> QED
    BY <2>2, <2>3, <2>4, <2>5, SMTT(30)
<1> QED
  BY <1>1, <1>2, InvHolds, PTL DEF Spec, ImplementsContract, Contract!Spec

=============================================================================
