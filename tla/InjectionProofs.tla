-------------------------- MODULE InjectionProofs --------------------------
(***************************************************************************)
(* What is proved of Injection, for every set of pods, plan lists and      *)
(* sidecars.                                                               *)
(***************************************************************************)
EXTENDS InjectionInvariants, FiniteSetTheorems

-----------------------------------------------------------------------------
(* Sums, and the bytes of annotations.                                     *)

(* The image of a finite set under a function.                             *)
LEMMA ImageBound ==
  ASSUME NEW S, IsFiniteSet(S), NEW T, NEW f \in [S -> T],
         \A t \in T : \E s \in S : f[s] = t
  PROVE  IsFiniteSet(T) /\ Cardinality(T) <= Cardinality(S)
<1>1. f \in Surjection(S, T)
  BY DEF Surjection
<1>. QED
  BY <1>1, FS_Surjection

(* The units of a function are its arguments with the positions below      *)
(* their values.                                                           *)
LEMMA UnitsAre ==
  ASSUME NEW f
  PROVE  \A x, n : <<x, n>> \in Units(f) <=> x \in DOMAIN f /\ n \in 1..f[x]
BY DEF Units

(* There are no other units.                                               *)
LEMMA UnitsArePairs ==
  ASSUME NEW f, NEW u \in Units(f)
  PROVE  \E x \in DOMAIN f : \E n \in 1..f[x] : u = <<x, n>>
BY DEF Units

(* A sum over a finite set is a number.                                    *)
LEMMA TotalType ==
  ASSUME NEW S, IsFiniteSet(S), NEW f \in [S -> Nat]
  PROVE  IsFiniteSet(Units(f)) /\ Total(f) \in Nat
<1>. DEFINE U(x) == {x} \X (1..f[x])
            All == {U(x) : x \in S}
<1>1. IsFiniteSet(All)
  <2>. DEFINE g == [x \in S |-> U(x)]
  <2>1. g \in [S -> All] /\ \A t \in All : \E x \in S : g[x] = t
    OBVIOUS
  <2>. HIDE DEF g, All
  <2>. QED
    BY <2>1, ImageBound
<1>2. ASSUME NEW x \in S PROVE IsFiniteSet(U(x))
  <2>1. IsFiniteSet({x})
    BY FS_Singleton
  <2>2. 1 \in Int /\ f[x] \in Int
    OBVIOUS
  <2>3. IsFiniteSet(1..f[x])
    BY <2>2, FS_Interval
  <2>. QED
    BY <2>1, <2>3, FS_Product, Zenon
<1>3. IsFiniteSet(UNION All)
  <2>1. \A T \in All : IsFiniteSet(T)
    BY <1>2
  <2>. HIDE DEF All
  <2>. QED
    BY <1>1, <2>1, FS_UNION
<1>. QED
  BY <1>3, FS_CardinalityType DEF Units, Total

(* The units of one argument are as many as its value.                     *)
LEMMA ProductOfOne ==
  ASSUME NEW x, NEW n \in Nat
  PROVE  IsFiniteSet({x} \X (1..n)) /\ Cardinality({x} \X (1..n)) = n
<1>1. IsFiniteSet({x}) /\ Cardinality({x}) = 1
  BY FS_Singleton
<1>2. 1 \in Int /\ n \in Int
  OBVIOUS
<1>3. IsFiniteSet(1..n) /\ Cardinality(1..n) = IF 1 > n THEN 0 ELSE n - 1 + 1
  BY <1>2, FS_Interval
<1>4. Cardinality(1..n) = n
  BY <1>3
<1>5. IsFiniteSet({x} \X (1..n)) /\ Cardinality({x} \X (1..n)) = Cardinality({x}) * Cardinality(1..n)
  BY <1>1, <1>3, FS_Product, Zenon
<1>. QED
  BY <1>1, <1>4, <1>5

(* One more argument adds its value.                                       *)
LEMMA TotalOneMore ==
  ASSUME NEW f, NEW g, NEW x, IsFiniteSet(DOMAIN f), x \notin DOMAIN f,
         f \in [DOMAIN f -> Nat], g \in [DOMAIN g -> Nat], DOMAIN g = DOMAIN f \cup {x},
         \A y \in DOMAIN f : g[y] = f[y]
  PROVE  Total(g) = Total(f) + g[x]
<1>. DEFINE U == {x} \X (1..g[x])
<1>1. IsFiniteSet(Units(f)) /\ Cardinality(Units(f)) \in Nat
  BY TotalType DEF Total
<1>2. IsFiniteSet(U) /\ Cardinality(U) = g[x]
  BY ProductOfOne, Zenon
<1>3. Units(g) = Units(f) \cup U
  BY DEF Units
<1>4. Units(f) \cap U = {}
  BY DEF Units
<1>5. Cardinality({}) = 0
  BY FS_EmptySet
<1>6. Cardinality(Units(f) \cup U) = Cardinality(Units(f)) + Cardinality(U) - Cardinality(Units(f) \cap U)
  <2>. HIDE DEF U
  <2>. QED
    BY <1>1, <1>2, FS_Union
<1>7. g[x] \in Nat
  OBVIOUS
<1>. HIDE DEF U
<1>. QED
  <2>1. Cardinality(Units(f) \cap U) = 0
    BY <1>4, <1>5
  <2>2. Total(g) = Cardinality(Units(f) \cup U) /\ Total(f) = Cardinality(Units(f))
    BY <1>3 DEF Total
  <2>. QED
    BY <1>1, <1>2, <1>6, <1>7, <2>1, <2>2

(* The bytes of a set of annotations.                                      *)
Weight(entries) == Total([e \in entries |-> KeyBytes + e.bytes])

(* The bytes of finitely many annotations are a number, fewer are lighter, *)
(* and two sets together are no heavier than each for itself.              *)
LEMMA WeightUnion ==
  ASSUME NEW S \in SUBSET Annotation, NEW T \in SUBSET Annotation,
         IsFiniteSet(S), IsFiniteSet(T)
  PROVE  /\ IsFiniteSet(S \cup T)
         /\ Weight(S) \in Nat /\ Weight(T) \in Nat /\ Weight(S \cup T) \in Nat
         /\ Weight(S \cup T) <= Weight(S) + Weight(T)
<1>. DEFINE w(X) == [e \in X |-> KeyBytes + e.bytes]
<1>1. IsFiniteSet(S \cup T)
  BY FS_Union, Zenon
<1>2. ASSUME NEW X \in SUBSET Annotation PROVE w(X) \in [X -> Nat]
  BY ConstantsTyped DEF Annotation
<1>3. w(S) \in [S -> Nat] /\ w(T) \in [T -> Nat] /\ w(S \cup T) \in [S \cup T -> Nat]
  BY <1>2
<1>4. Units(w(S \cup T)) = Units(w(S)) \cup Units(w(T))
  BY Zenon DEF Units
<1>. HIDE DEF w
<1>5. /\ IsFiniteSet(Units(w(S))) /\ Total(w(S)) \in Nat
      /\ IsFiniteSet(Units(w(T))) /\ Total(w(T)) \in Nat
      /\ Total(w(S \cup T)) \in Nat
  BY <1>1, <1>3, TotalType
<1>6. /\ Cardinality(Units(w(S)) \cap Units(w(T))) \in Nat
      /\ Cardinality(Units(w(S)) \cup Units(w(T)))
           = Cardinality(Units(w(S))) + Cardinality(Units(w(T)))
             - Cardinality(Units(w(S)) \cap Units(w(T)))
  BY <1>5, FS_Union, FS_Intersection, FS_CardinalityType, Zenon
<1>7. Total(w(S \cup T)) <= Total(w(S)) + Total(w(T))
  <2>1. /\ Total(w(S)) = Cardinality(Units(w(S)))
        /\ Total(w(T)) = Cardinality(Units(w(T)))
        /\ Total(w(S \cup T)) = Cardinality(Units(w(S)) \cup Units(w(T)))
    BY <1>4 DEF Total
  <2>. QED
    BY <1>5, <1>6, <2>1
<1>. QED
  BY <1>1, <1>5, <1>7 DEF Weight, w

(* Fewer annotations are lighter.                                          *)
LEMMA WeightSubset ==
  ASSUME NEW T \in SUBSET Annotation, IsFiniteSet(T), NEW S \in SUBSET T
  PROVE  IsFiniteSet(S) /\ Weight(S) \in Nat /\ Weight(S) <= Weight(T)
<1>. DEFINE w(X) == [e \in X |-> KeyBytes + e.bytes]
<1>1. IsFiniteSet(S)
  BY FS_Subset
<1>2. w(S) \in [S -> Nat] /\ w(T) \in [T -> Nat]
  BY ConstantsTyped DEF Annotation
<1>3. Units(w(S)) \subseteq Units(w(T))
  BY DEF Units
<1>. HIDE DEF w
<1>4. IsFiniteSet(Units(w(T))) /\ Total(w(S)) \in Nat
  BY <1>1, <1>2, TotalType
<1>5. Total(w(S)) <= Total(w(T))
  BY <1>3, <1>4, FS_Subset DEF Total
<1>. QED
  BY <1>1, <1>4, <1>5 DEF Weight, w

(* An annotation takes its key and its value.                              *)
LEMMA WeightOne ==
  ASSUME NEW e \in Annotation
  PROVE  IsFiniteSet({e}) /\ Weight({e}) = KeyBytes + e.bytes
<1>1. KeyBytes + e.bytes \in Nat
  BY ConstantsTyped DEF Annotation
<1>2. Units([a \in {e} |-> KeyBytes + a.bytes]) = {e} \X (1..(KeyBytes + e.bytes))
  BY DEF Units
<1>3. IsFiniteSet({e})
  BY FS_Singleton, Zenon
<1>. QED
  BY <1>1, <1>2, <1>3, ProductOfOne, Zenon DEF Weight, Total

(* The files of a plan take their bytes and a key each.                    *)
LEMMA WeightFiles ==
  ASSUME NEW plan \in Plan
  PROVE  LET files == {FileEntry(plan, i) : i \in DOMAIN plan.files}
             bytes == [i \in DOMAIN plan.files |-> plan.files[i].bytes]
         IN  /\ IsFiniteSet(files) /\ files \subseteq Annotation
             /\ Total(bytes) \in Nat
             /\ Weight(files) \in Nat
             /\ Weight(files) <= Total(bytes) + Len(plan.files) * KeyBytes
<1>. DEFINE D == DOMAIN plan.files
            E(i) == FileEntry(plan, i)
            files == {E(i) : i \in D}
            bytes == [i \in D |-> plan.files[i].bytes]
            w == [e \in files |-> KeyBytes + e.bytes]
            X == {<<E(u[1]), u[2]>> : u \in Units(bytes)}
            Y == {<<E(u[1]), E(u[1]).bytes + u[2]>> : u \in D \X (1..KeyBytes)}
<1>1. /\ plan.files \in Seq(File) /\ Len(plan.files) \in Nat /\ D = 1..Len(plan.files)
      /\ KeyBytes \in Nat
  BY ConstantsTyped DEF Plan
<1>2. \A i \in D : plan.files[i].bytes \in Nat /\ E(i).bytes = plan.files[i].bytes
  <2>1. \A i \in D : plan.files[i] \in File
    BY <1>1
  <2>. QED
    BY <2>1 DEF File, FileEntry
<1>3. files \subseteq Annotation
  <2>1. files \subseteq PlanAnnotations(plan)
    BY Zenon DEF PlanAnnotations, FileEntry
  <2>2. <<>> \in Seq(Plan)
    OBVIOUS
  <2>. HIDE DEF files
  <2>. QED
    BY <2>1, <2>2, MetadataType, ZenonT(30)
<1>4. IsFiniteSet(D) /\ Cardinality(D) = Len(plan.files)
  BY <1>1, FS_Interval, SMTT(30)
<1>5. bytes \in [D -> Nat]
  BY <1>2, SMTT(30)
<1>6. IsFiniteSet(files)
  <2>. DEFINE g == [i \in D |-> E(i)]
  <2>1. g \in [D -> files] /\ \A e \in files : \E i \in D : g[i] = e
    OBVIOUS
  <2>. HIDE DEF g, D, files
  <2>. QED
    BY <1>4, <2>1, ImageBound
<1>7. w \in [files -> Nat]
  BY <1>1, <1>2
<1>8. IsFiniteSet(Units(bytes)) /\ Total(bytes) \in Nat /\ Total(w) \in Nat
  <2>. HIDE DEF D, files, bytes, w
  <2>. QED
    BY <1>4, <1>5, <1>6, <1>7, TotalType
<1>9. IsFiniteSet(X) /\ Cardinality(X) <= Total(bytes)
  <2>. DEFINE g == [u \in Units(bytes) |-> <<E(u[1]), u[2]>>]
  <2>1. g \in [Units(bytes) -> X] /\ \A t \in X : \E u \in Units(bytes) : g[u] = t
    BY Zenon
  <2>. HIDE DEF g, X, bytes
  <2>. QED
    BY <1>8, <2>1, ImageBound DEF Total
<1>10. IsFiniteSet(Y) /\ Cardinality(Y) <= Len(plan.files) * KeyBytes
  <2>. DEFINE Z == D \X (1..KeyBytes)
              g == [u \in Z |-> <<E(u[1]), E(u[1]).bytes + u[2]>>]
  <2>1. g \in [Z -> Y] /\ \A t \in Y : \E u \in Z : g[u] = t
    BY Zenon
  <2>2. IsFiniteSet(1..KeyBytes) /\ Cardinality(1..KeyBytes) = KeyBytes
    BY <1>1, FS_Interval, SMTT(30)
  <2>. HIDE DEF D, E, g, Y
  <2>3. IsFiniteSet(Z) /\ Cardinality(Z) = Len(plan.files) * KeyBytes
    BY <1>4, <2>2, FS_Product, ZenonT(30)
  <2>. HIDE DEF Z
  <2>. QED
    BY <2>1, <2>3, ImageBound
<1>11. Units(w) \subseteq X \cup Y
  <2>. SUFFICES ASSUME NEW u \in Units(w) PROVE u \in X \cup Y
    OBVIOUS
  <2>1. PICK e \in files : \E n \in 1..w[e] : u = <<e, n>>
    <3>1. DOMAIN w = files
      OBVIOUS
    <3>. HIDE DEF w, files
    <3>. QED
      BY <3>1, UnitsArePairs
  <2>2. PICK n \in 1..w[e] : u = <<e, n>>
    BY <2>1
  <2>3. PICK i \in D : e = E(i)
    OBVIOUS
  <2>4. e.bytes \in Nat /\ bytes[i] = e.bytes /\ w[e] = KeyBytes + e.bytes
    BY <1>2, <2>3
  <2>5. n \in 1..(KeyBytes + e.bytes)
    BY <2>4
  <2>6. CASE n <= e.bytes
    <3>1. n \in 1..bytes[i] /\ DOMAIN bytes = D
      BY <1>1, <2>4, <2>5, <2>6
    <3>. HIDE DEF bytes, D, E
    <3>2. <<i, n>> \in Units(bytes)
      BY <3>1, UnitsAre
    <3>3. <<E(<<i, n>>[1]), <<i, n>>[2]>> = u
      BY <2>2, <2>3
    <3>. QED
      BY <3>2, <3>3
  <2>7. CASE n > e.bytes
    <3>1. n - e.bytes \in 1..KeyBytes /\ e.bytes + (n - e.bytes) = n
      BY <1>1, <2>4, <2>5, <2>7, SMTT(30)
    <3>. HIDE DEF bytes, D, E
    <3>2. <<i, n - e.bytes>> \in D \X (1..KeyBytes)
      BY <3>1
    <3>3. <<E(<<i, n - e.bytes>>[1]), E(<<i, n - e.bytes>>[1]).bytes + <<i, n - e.bytes>>[2]>> = u
      BY <2>2, <2>3, <3>1, SMTT(30)
    <3>. QED
      BY <3>2, <3>3
  <2>8. n <= e.bytes \/ n > e.bytes
    BY <1>1, <2>4, <2>5, SMTT(30)
  <2>. QED
    BY <2>6, <2>7, <2>8
<1>12. Cardinality(Units(w)) <= Cardinality(X) + Cardinality(Y)
  <2>. HIDE DEF X, Y, w
  <2>1. /\ IsFiniteSet(X \cup Y) /\ Cardinality(X \cap Y) \in Nat
        /\ Cardinality(X \cup Y) = Cardinality(X) + Cardinality(Y) - Cardinality(X \cap Y)
        /\ Cardinality(X) \in Nat /\ Cardinality(Y) \in Nat
    BY <1>9, <1>10, FS_Union, FS_Intersection, FS_CardinalityType, Zenon
  <2>2. Cardinality(Units(w)) <= Cardinality(X \cup Y) /\ Cardinality(Units(w)) \in Nat
    BY <1>11, <2>1, FS_Subset, FS_CardinalityType
  <2>. QED
    BY <2>1, <2>2
<1>13. Cardinality(X) \in Nat /\ Cardinality(Y) \in Nat
  <2>. HIDE DEF X, Y
  <2>. QED
    BY <1>9, <1>10, FS_CardinalityType
<1>14. Total(w) = Cardinality(Units(w)) /\ Weight(files) = Total(w)
  BY DEF Total, Weight
<1>15. Len(plan.files) * KeyBytes \in Nat
  BY <1>1
<1>16. Weight(files) <= Total(bytes) + Len(plan.files) * KeyBytes
  <2>. HIDE DEF X, Y, w, bytes, files
  <2>. QED
    BY <1>8, <1>9, <1>10, <1>12, <1>13, <1>14, <1>15
<1>. QED
  BY <1>3, <1>6, <1>8, <1>14, <1>16

(* A plan's annotations take what it renders and a key each.               *)
LEMMA WeightPlan ==
  ASSUME NEW plan \in Plan
  PROVE  /\ renderedBytes(plan) \in Nat /\ PlanEntries(plan) \in Nat
         /\ PlanAnnotations(plan) \subseteq Annotation /\ IsFiniteSet(PlanAnnotations(plan))
         /\ Weight(PlanAnnotations(plan)) \in Nat
         /\ Weight(PlanAnnotations(plan)) <= renderedBytes(plan) + KeyBytes * PlanEntries(plan)
<1>. DEFINE conf == [key |-> HelperConfAnnotation(plan.name), from |-> <<plan.key>>, i |-> 0,
                     bytes |-> plan.confBytes]
            files == {FileEntry(plan, i) : i \in DOMAIN plan.files}
            bytes == Total([i \in DOMAIN plan.files |-> plan.files[i].bytes])
<1>1. PlanAnnotations(plan) = {conf} \cup files
  BY Zenon DEF PlanAnnotations, FileEntry
<1>2. PlanAnnotations(plan) \subseteq Annotation
  <2>1. <<>> \in Seq(Plan)
    OBVIOUS
  <2>. QED
    BY <2>1, MetadataType, Zenon
<1>3. /\ IsFiniteSet(files) /\ files \subseteq Annotation /\ bytes \in Nat /\ Weight(files) \in Nat
      /\ Weight(files) <= bytes + Len(plan.files) * KeyBytes
  BY WeightFiles
<1>4. conf \in Annotation
  BY <1>1, <1>2
<1>5. conf.bytes = plan.confBytes /\ plan.confBytes \in Nat /\ Len(plan.files) \in Nat /\ KeyBytes \in Nat
  BY ConstantsTyped DEF Plan
<1>6. renderedBytes(plan) = plan.confBytes + bytes /\ PlanEntries(plan) = 1 + Len(plan.files)
  BY DEF renderedBytes, PlanEntries
<1>. HIDE DEF conf, files, bytes
<1>7. IsFiniteSet({conf}) /\ Weight({conf}) = KeyBytes + plan.confBytes
  BY <1>4, <1>5, WeightOne
<1>8. /\ IsFiniteSet({conf} \cup files) /\ Weight({conf} \cup files) \in Nat
      /\ Weight({conf} \cup files) <= Weight({conf}) + Weight(files)
  BY <1>3, <1>4, <1>7, WeightUnion, Zenon
<1>9. KeyBytes * (1 + Len(plan.files)) = KeyBytes + Len(plan.files) * KeyBytes
  BY <1>5
<1>10. Len(plan.files) * KeyBytes \in Nat /\ renderedBytes(plan) \in Nat /\ PlanEntries(plan) \in Nat
  BY <1>3, <1>5, <1>6, SMTT(30)
<1>11. Weight(PlanAnnotations(plan)) <= renderedBytes(plan) + KeyBytes * PlanEntries(plan)
  <2>1. KeyBytes * PlanEntries(plan) = KeyBytes + Len(plan.files) * KeyBytes
    BY <1>6, <1>9
  <2>2. Weight({conf} \cup files) <= KeyBytes + plan.confBytes + (bytes + Len(plan.files) * KeyBytes)
    BY <1>3, <1>5, <1>7, <1>8, <1>10
  <2>. QED
    BY <1>1, <1>3, <1>5, <1>6, <1>10, <2>1, <2>2
<1>. QED
  BY <1>1, <1>2, <1>8, <1>10, <1>11, SMTT(30)

(* The status annotations take two keys and name each applied shim.        *)
LEMMA WeightStatus ==
  ASSUME NEW list \in Seq(Plan), list # <<>>
  PROVE  /\ StatusAnnotations(list) \subseteq Annotation /\ IsFiniteSet(StatusAnnotations(list))
         /\ Weight(StatusAnnotations(list)) \in Nat
         /\ Weight(StatusAnnotations(list)) <= KeyBytes * 2 + 1 + Len(list)
<1>1. PICK a, b : /\ StatusAnnotations(list) = {a} \cup {b}
                  /\ a.bytes = 1 /\ b.bytes = Len(list)
  <2>. DEFINE a == [key |-> StatusAnnotation, from |-> StatusInjected, i |-> 0, bytes |-> 1]
              b == [key |-> ShimsAnnotation, from |-> [n \in DOMAIN list |-> list[n].key],
                    i |-> 0, bytes |-> Len(list)]
  <2>1. StatusAnnotations(list) = {a} \cup {b}
    BY Zenon DEF StatusAnnotations
  <2>2. a.bytes = 1 /\ b.bytes = Len(list)
    OBVIOUS
  <2>. HIDE DEF a, b
  <2>. QED
    BY <2>1, <2>2
<1>2. a \in Annotation /\ b \in Annotation
  <2>0. list[1] \in Plan
    OBVIOUS
  <2>1. StatusAnnotations(list) \subseteq Annotation
    BY <2>0, MetadataType
  <2>. QED
    BY <1>1, <2>1
<1>3. /\ IsFiniteSet({a}) /\ Weight({a}) = KeyBytes + 1
      /\ IsFiniteSet({b}) /\ Weight({b}) = KeyBytes + Len(list)
  BY <1>1, <1>2, WeightOne, ZenonT(30)
<1>4. /\ IsFiniteSet({a} \cup {b}) /\ Weight({a} \cup {b}) \in Nat
      /\ Weight({a} \cup {b}) <= Weight({a}) + Weight({b})
  BY <1>2, <1>3, WeightUnion, Zenon
<1>5. KeyBytes \in Nat /\ Len(list) \in Nat
  BY ConstantsTyped
<1>6. StatusAnnotations(list) \subseteq Annotation
  BY <1>1, <1>2
<1>7. PICK S : S = StatusAnnotations(list)
  OBVIOUS
<1>8. /\ IsFiniteSet(S) /\ Weight(S) \in Nat
      /\ Weight(S) <= (KeyBytes + 1) + (KeyBytes + Len(list))
  BY <1>1, <1>3, <1>4, <1>7, ZenonT(30)
<1>9. Weight(S) <= KeyBytes * 2 + 1 + Len(list)
  BY <1>5, <1>8
<1>. QED
  BY <1>6, <1>7, <1>8, <1>9, Zenon

-----------------------------------------------------------------------------
(* The budget.                                                             *)

(* The entries that the plans before the n-th may write.                   *)
EntriesBefore(list, n) == Total([k \in 1..(n - 1) |-> PlanEntries(list[k])])

(* What the loop counts bounds what it writes, but for the keys: the       *)
(* budget it respects is the one for the annotations it has still to pay   *)
(* the keys of.                                                            *)
BudgetInv ==
  /\ IsFiniteSet(base.annotations) /\ IsFiniteSet(pod.annotations)
  /\ Len(applied) < at
  /\ applied # <<>> => annotationBytes(base) + addedBytes <= MaxPodAnnotationBytes
  /\ phase # "done" =>
       annotationBytes(pod) <= annotationBytes(base) + addedBytes + KeyBytes * EntriesBefore(plans, at)
  /\ phase = "done" /\ applied # <<>> => annotationBytes(pod) <= APIAnnotationLimit

(* A pod's annotations take a number of bytes.                             *)
LEMMA PodBytes ==
  ASSUME NEW p \in Pod, IsFiniteSet(p.annotations)
  PROVE  annotationBytes(p) = Weight(p.annotations) /\ annotationBytes(p) \in Nat
<1>1. p.annotations \in SUBSET Annotation
  BY DEF Pod
<1>2. Weight(p.annotations) \in Nat
  BY <1>1, WeightSubset
<1>. QED
  BY <1>2 DEF annotationBytes, Weight

(* Visiting a plan adds its entries.                                       *)
LEMMA EntriesNext ==
  ASSUME NEW list \in Seq(Plan), NEW n \in 1..(Len(list) + 1)
  PROVE  /\ EntriesBefore(list, n) \in Nat
         /\ n <= Len(list) =>
              EntriesBefore(list, n + 1) = EntriesBefore(list, n) + PlanEntries(list[n])
<1>. DEFINE f(m) == [k \in 1..(m - 1) |-> PlanEntries(list[k])]
<1>1. \A k \in 1..Len(list) : PlanEntries(list[k]) \in Nat
  BY WeightPlan
<1>2. f(n) \in [1..(n - 1) -> Nat]
  BY <1>1
<1>3. 1 \in Int /\ n - 1 \in Int
  OBVIOUS
<1>4. IsFiniteSet(1..(n - 1))
  BY <1>3, FS_Interval
<1>5. Total(f(n)) \in Nat
  <2>. HIDE DEF f
  <2>. QED
    BY <1>2, <1>4, TotalType
<1>6. ASSUME n <= Len(list)
      PROVE  Total(f(n + 1)) = Total(f(n)) + PlanEntries(list[n])
  <2>1. 1..(n + 1 - 1) = 1..(n - 1) \cup {n} /\ n \notin 1..(n - 1)
    BY <1>6
  <2>2. f(n + 1) \in [1..(n - 1) \cup {n} -> Nat] /\ f(n + 1)[n] = PlanEntries(list[n])
    BY <1>1, <1>6, <2>1
  <2>3. \A k \in 1..(n - 1) : f(n + 1)[k] = f(n)[k]
    OBVIOUS
  <2>. DEFINE D == 1..(n - 1)
  <2>4. n \notin D /\ IsFiniteSet(D) /\ f(n) \in [D -> Nat] /\ f(n + 1) \in [D \cup {n} -> Nat]
        /\ \A k \in D : f(n + 1)[k] = f(n)[k]
    BY <1>2, <1>4, <2>1, <2>2, <2>3
  <2>. HIDE DEF f, D
  <2>5. PICK a, b : a = f(n) /\ b = f(n + 1)
    OBVIOUS
  <2>6. /\ n \notin DOMAIN a /\ IsFiniteSet(DOMAIN a) /\ DOMAIN b = DOMAIN a \cup {n}
        /\ a \in [DOMAIN a -> Nat] /\ b \in [DOMAIN b -> Nat]
        /\ \A k \in DOMAIN a : b[k] = a[k]
    BY <2>4, <2>5
  <2>7. Total(b) = Total(a) + b[n]
    BY <2>5, <2>6, TotalOneMore
  <2>. QED
    BY <2>2, <2>5, <2>7
<1>. QED
  BY <1>5, <1>6 DEF EntriesBefore

(* A call starts within its budget.                                        *)
LEMMA BudgetStart ==
  ASSUME NEW p \in Pod, IsFiniteSet(p.annotations), NEW list \in Seq(Plan)
  PROVE  annotationBytes(p) <= annotationBytes(p) + 0 + KeyBytes * EntriesBefore(list, 1)
<1>1. annotationBytes(p) \in Nat
  BY PodBytes
<1>2. 1 \in 1..(Len(list) + 1)
  OBVIOUS
<1>3. EntriesBefore(list, 1) \in Nat /\ KeyBytes \in Nat
  BY <1>2, EntriesNext, ConstantsTyped
<1>4. KeyBytes * EntriesBefore(list, 1) \in Nat
  BY <1>3
<1>. QED
  BY <1>1, <1>4

(* Injecting a plan stays within the budget.                               *)
LEMMA BudgetApply ==
  ASSUME Counting, TypeOK, BudgetInv, ApplyPlan
  PROVE  BudgetInv'
<1>. DEFINE plan == plans[at]
            old == Weight(pod.annotations)
            new == Weight(pod'.annotations)
            paid == annotationBytes(base)
<1>1. /\ InLoop /\ ~OverBudget(plan)
      /\ pod'.annotations = setAnnotation(pod.annotations, PlanAnnotations(plan))
      /\ addedBytes' = addedBytes + renderedBytes(plan)
      /\ applied' = Append(applied, plan) /\ at' = at + 1
      /\ base' = base /\ plans' = plans /\ phase' = "applying"
  BY DEF ApplyPlan, InLoop, TypeOK, Pod
<1>2. plan \in Plan /\ plans \in Seq(Plan) /\ at \in 1..(Len(plans) + 1) /\ at <= Len(plans)
  BY <1>1, CurrentPlan, ConstantsTyped, SMTT(30) DEF TypeOK, InLoop
<1>3. /\ base \in Pod /\ pod \in Pod /\ pod' \in Pod /\ addedBytes \in Nat /\ applied \in Seq(Plan)
      /\ KeyBytes \in Nat /\ MaxPodAnnotationBytes \in Nat
  BY ApplyPlanPodType, ConstantsTyped DEF TypeOK
<1>4. paid \in Nat /\ old \in Nat /\ annotationBytes(pod) = old
  BY <1>3, PodBytes DEF BudgetInv
<1>5. /\ renderedBytes(plan) \in Nat /\ PlanEntries(plan) \in Nat
      /\ PlanAnnotations(plan) \subseteq Annotation /\ IsFiniteSet(PlanAnnotations(plan))
      /\ Weight(PlanAnnotations(plan)) \in Nat
      /\ Weight(PlanAnnotations(plan)) <= renderedBytes(plan) + KeyBytes * PlanEntries(plan)
  BY <1>2, WeightPlan, SMTT(30)
<1>6. pod.annotations \in SUBSET Annotation /\ IsFiniteSet(pod.annotations)
  BY <1>3 DEF BudgetInv, Pod
<1>. HIDE DEF plan
<1>7. /\ IsFiniteSet(pod'.annotations) /\ new \in Nat
      /\ new <= old + Weight(PlanAnnotations(plan))
  <2>1. /\ IsFiniteSet(pod.annotations \cup PlanAnnotations(plan))
        /\ Weight(pod.annotations \cup PlanAnnotations(plan)) \in Nat
        /\ Weight(pod.annotations \cup PlanAnnotations(plan)) <= old + Weight(PlanAnnotations(plan))
    BY <1>5, <1>6, WeightUnion
  <2>2. pod'.annotations \subseteq pod.annotations \cup PlanAnnotations(plan)
    BY <1>1, Zenon DEF setAnnotation
  <2>3. pod.annotations \cup PlanAnnotations(plan) \in SUBSET Annotation
    BY <1>5, <1>6
  <2>4. IsFiniteSet(pod'.annotations) /\ new \in Nat
        /\ new <= Weight(pod.annotations \cup PlanAnnotations(plan))
    BY <2>1, <2>2, <2>3, WeightSubset, SMTT(30)
  <2>. QED
    BY <1>4, <1>5, <2>1, <2>4
<1>8. annotationBytes(pod') = new
  BY <1>3, <1>7, PodBytes
<1>9. EntriesBefore(plans, at) \in Nat /\ EntriesBefore(plans', at') = EntriesBefore(plans, at) + PlanEntries(plan)
  BY <1>1, <1>2, EntriesNext DEF plan
<1>10. KeyBytes * EntriesBefore(plans', at') = KeyBytes * EntriesBefore(plans, at) + KeyBytes * PlanEntries(plan)
  BY <1>3, <1>5, <1>9
<1>11. KeyBytes * EntriesBefore(plans, at) \in Nat /\ KeyBytes * PlanEntries(plan) \in Nat
  BY <1>3, <1>5, <1>9, SMTT(30)
<1>12. old <= paid + addedBytes + KeyBytes * EntriesBefore(plans, at)
  BY <1>1, <1>4 DEF BudgetInv, InLoop
<1>13. new <= paid + (addedBytes + renderedBytes(plan)) + KeyBytes * EntriesBefore(plans', at')
  <2>1. new <= old + (renderedBytes(plan) + KeyBytes * PlanEntries(plan))
    BY <1>4, <1>5, <1>7, <1>11
  <2>2. PICK keys, more : /\ keys = KeyBytes * EntriesBefore(plans, at)
                          /\ more = KeyBytes * PlanEntries(plan)
    OBVIOUS
  <2>3. /\ keys \in Nat /\ more \in Nat /\ old <= paid + addedBytes + keys
        /\ new <= old + (renderedBytes(plan) + more)
    BY <1>11, <1>12, <2>1, <2>2, SMTT(30)
  <2>. HIDE DEF new, old, paid
  <2>4. addedBytes \in Nat /\ renderedBytes(plan) \in Nat /\ paid \in Nat /\ old \in Nat /\ new \in Nat
    BY <1>3, <1>4, <1>5, <1>7
  <2>5. new <= paid + (addedBytes + renderedBytes(plan)) + (keys + more)
    BY <2>3, <2>4, SMTT(30)
  <2>. QED
    BY <1>10, <2>2, <2>5, SMTT(30)
<1>14. paid + (addedBytes + renderedBytes(plan)) <= MaxPodAnnotationBytes
  BY <1>1, <1>3, <1>4, <1>5, SMTT(30) DEF OverBudget
<1>15. Len(applied') < at'
  BY <1>1, <1>2, <1>3, SMTT(30) DEF BudgetInv
<1>16. IsFiniteSet(base'.annotations) /\ annotationBytes(base') = paid /\ phase' # "done"
  BY <1>1 DEF BudgetInv
<1>. QED
  BY <1>1, <1>7, <1>8, <1>13, <1>14, <1>15, <1>16 DEF BudgetInv

(* The last step of a call, with room for what the budget does not count.  *)
LEMMA BudgetFinish ==
  ASSUME HeadroomSuffices, TypeOK, CallInv, BudgetInv, Finish
  PROVE  BudgetInv'
<1>1. /\ phase = "applying" /\ phase' = "done" /\ at > Len(plans)
      /\ base' = base /\ plans' = plans /\ at' = at /\ applied' = applied /\ addedBytes' = addedBytes
      /\ applied = <<>> => pod' = pod
      /\ applied # <<>> =>
           pod'.annotations = setAnnotation(pod.annotations, StatusAnnotations(applied))
  BY ZenonT(30) DEF Finish, TypeOK, Pod
<1>2. CASE applied = <<>>
  BY <1>1, <1>2 DEF BudgetInv
<1>3. CASE applied # <<>>
  <2>. DEFINE old == Weight(pod.annotations)
              new == Weight(pod'.annotations)
              paid == annotationBytes(base)
              status == StatusAnnotations(applied)
  <2>1. /\ base \in Pod /\ pod \in Pod /\ pod' \in Pod /\ addedBytes \in Nat /\ applied \in Seq(Plan)
        /\ plans \in Seq(Plan) /\ plans \in PlanLists /\ at = Len(plans) + 1
        /\ KeyBytes \in Nat /\ MaxPodAnnotationBytes \in Nat /\ APIAnnotationLimit \in Nat
    BY <1>1, FinishPodType, ConstantsTyped, SMTT(30) DEF TypeOK
  <2>2. paid \in Nat /\ old \in Nat /\ annotationBytes(pod) = old
    BY <2>1, PodBytes DEF BudgetInv
  <2>3. pod.annotations \in SUBSET Annotation /\ IsFiniteSet(pod.annotations)
    BY <2>1 DEF BudgetInv, Pod
  <2>4. /\ status \subseteq Annotation /\ IsFiniteSet(status) /\ Weight(status) \in Nat
        /\ Weight(status) <= KeyBytes * 2 + 1 + Len(applied)
    BY <1>3, <2>1, WeightStatus, SMTT(30)
  <2>. HIDE DEF status
  <2>5. /\ IsFiniteSet(pod'.annotations) /\ new \in Nat /\ new <= old + Weight(status)
    <3>1. /\ IsFiniteSet(pod.annotations \cup status)
          /\ Weight(pod.annotations \cup status) \in Nat
          /\ Weight(pod.annotations \cup status) <= old + Weight(status)
      BY <2>3, <2>4, WeightUnion, Zenon
    <3>2. pod'.annotations \subseteq pod.annotations \cup status
      BY <1>1, <1>3, ZenonT(30) DEF setAnnotation, status
    <3>3. pod.annotations \cup status \in SUBSET Annotation
      BY <2>3, <2>4, SMTT(30)
    <3>4. IsFiniteSet(pod'.annotations) /\ new \in Nat
          /\ new <= Weight(pod.annotations \cup status)
      BY <3>1, <3>2, <3>3, WeightSubset
    <3>. QED
      BY <2>2, <2>4, <3>1, <3>4
  <2>6. annotationBytes(pod') = new
    BY <2>1, <2>5, PodBytes
  <2>7. PICK all : all = EntriesBefore(plans, at)
    OBVIOUS
  <2>8. all \in Nat /\ MaxPodAnnotationBytes + (KeyBytes * (2 + all) + 1 + Len(plans)) <= APIAnnotationLimit
    <3>1. at \in 1..(Len(plans) + 1) /\ 1..(at - 1) = DOMAIN plans
      BY <2>1
    <3>2. all \in Nat
      BY <2>1, <2>7, <3>1, EntriesNext
    <3>3. all = Total([k \in DOMAIN plans |-> PlanEntries(plans[k])])
      BY <2>7, <3>1 DEF EntriesBefore
    <3>4. MaxPodAnnotationBytes + UncountedBytes(plans) <= APIAnnotationLimit
      BY <2>1 DEF HeadroomSuffices
    <3>. QED
      BY <3>2, <3>3, <3>4, SMTT(30) DEF UncountedBytes
  <2>9. old <= paid + addedBytes + KeyBytes * all /\ paid + addedBytes <= MaxPodAnnotationBytes
    BY <1>1, <1>3, <2>2, <2>7 DEF BudgetInv
  <2>10. Len(applied) \in Nat /\ Len(plans) \in Nat /\ Len(applied) <= Len(plans)
    BY <2>1 DEF BudgetInv
  <2>11. PICK keys : keys = KeyBytes * all
    OBVIOUS
  <2>12. keys \in Nat /\ KeyBytes * (2 + all) = KeyBytes * 2 + keys
    BY <2>1, <2>8, <2>11, SMTT(30)
  <2>13. /\ new <= old + Weight(status) /\ Weight(status) <= KeyBytes * 2 + 1 + Len(applied)
         /\ old <= paid + addedBytes + keys /\ paid + addedBytes <= MaxPodAnnotationBytes
         /\ MaxPodAnnotationBytes + ((KeyBytes * 2 + keys) + 1 + Len(plans)) <= APIAnnotationLimit
         /\ Weight(status) \in Nat /\ new \in Nat /\ old \in Nat /\ paid \in Nat /\ addedBytes \in Nat
    BY <2>1, <2>2, <2>4, <2>5, <2>8, <2>9, <2>11, <2>12
  <2>. HIDE DEF new, old, paid
  <2>14. new <= APIAnnotationLimit
    BY <2>1, <2>10, <2>12, <2>13
  <2>. QED
    BY <1>1, <2>5, <2>6, <2>14 DEF BudgetInv
<1>. QED
  BY <1>2, <1>3

(* Every step keeps the budget.                                            *)
LEMMA BudgetStep ==
  ASSUME Counting, HeadroomSuffices, TypeOK, TypeOK', CallInv, BudgetInv, [Next]_vars
  PROVE  BudgetInv'
<1>1. CASE AlreadyInjected \/ BeginLoop \/ UNCHANGED vars
  <2>1. /\ UNCHANGED <<pod, base, plans, at, addedBytes, applied>>
        /\ phase' = phase \/ phase = "called"
    BY <1>1, Zenon DEF AlreadyInjected, BeginLoop, vars
  <2>2. phase = "called" => applied = <<>>
    BY DEF CallInv
  <2>. QED
    BY <2>1, <2>2 DEF BudgetInv
<1>2. CASE SkipOverBudget \/ SkipNoTarget \/ SkipCollision
  <2>1. /\ InLoop /\ at' = at + 1 /\ UNCHANGED <<pod, base, plans, addedBytes, applied, phase>>
    BY <1>2, Zenon DEF SkipOverBudget, SkipNoTarget, SkipCollision, Skip
  <2>2. /\ plans \in Seq(Plan) /\ at \in 1..(Len(plans) + 1) /\ at <= Len(plans) /\ plans[at] \in Plan
        /\ base \in Pod /\ addedBytes \in Nat /\ KeyBytes \in Nat /\ applied \in Seq(Plan) /\ pod \in Pod
    BY <2>1, CurrentPlan, ConstantsTyped, SMTT(30) DEF TypeOK, InLoop
  <2>3. PICK entries, more : entries = EntriesBefore(plans, at) /\ more = PlanEntries(plans[at])
    OBVIOUS
  <2>4. entries \in Nat /\ more \in Nat /\ EntriesBefore(plans', at') = entries + more
    BY <2>1, <2>2, <2>3, EntriesNext, WeightPlan, Zenon
  <2>5. KeyBytes * (entries + more) = KeyBytes * entries + KeyBytes * more
        /\ KeyBytes * entries \in Nat /\ KeyBytes * more \in Nat
    BY <2>2, <2>4
  <2>6. annotationBytes(base) \in Nat /\ annotationBytes(pod) \in Nat
    BY <2>2, PodBytes DEF BudgetInv
  <2>7. annotationBytes(pod) <= annotationBytes(base) + addedBytes + KeyBytes * entries
    BY <2>1, <2>3 DEF BudgetInv, InLoop
  <2>8. annotationBytes(pod) <= annotationBytes(base) + addedBytes + KeyBytes * (entries + more)
    BY <2>2, <2>5, <2>6, <2>7, SMTT(30)
  <2>9. Len(applied) < at + 1 /\ phase # "done"
    BY <2>1, <2>2 DEF BudgetInv, InLoop
  <2>. QED
    BY <2>1, <2>4, <2>8, <2>9 DEF BudgetInv
<1>3. CASE Reinvoke
  <2>1. /\ pod' \in Pod /\ plans' \in Seq(Plan) /\ base' = pod' /\ at' = 1 /\ addedBytes' = 0
        /\ applied' = <<>> /\ phase' = "called"
    BY <1>3, ConstantsTyped DEF Reinvoke, TypeOK
  <2>2. pod'.annotations = pod.annotations
    BY <1>3 DEF Reinvoke, TypeOK, Pod
  <2>3. IsFiniteSet(pod'.annotations)
    BY <2>2 DEF BudgetInv
  <2>4. annotationBytes(pod') <= annotationBytes(pod') + 0 + KeyBytes * EntriesBefore(plans', 1)
    BY <2>1, <2>3, BudgetStart
  <2>. QED
    BY <2>1, <2>3, <2>4, SMTT(30) DEF BudgetInv
<1>. QED
  BY <1>1, <1>2, <1>3, BudgetApply, BudgetFinish DEF Next

-----------------------------------------------------------------------------
(* The theorems.                                                           *)

(* The facts about numbers and finite sets that the steps rest on.         *)
LEMMA CountingHolds == Counting
<1>1. ASSUME NEW S \in SUBSET Nat, S # {}
      PROVE  \E n \in S : \A m \in S : n <= m
  <2>1. PICK n \in S : \A m \in S : ~(<<m, n>> \in OpToRel(<, Nat))
    BY <1>1, NatLessThanWellFounded, WFMin, Zenon
  <2>2. \A m \in S : ~(m < n)
    BY <1>1, <2>1, Zenon DEF OpToRel
  <2>. QED
    BY <1>1, <2>2
<1>2. ASSUME NEW n \in Nat, NEW targets, NEW name, DOMAIN targets \subseteq 1..n
      PROVE  /\ Visits(targets, name) \in Nat
             /\ name \in Range(targets) => Visits(targets, name) > 0
             /\ name \in Range(targets) /\ Distinct(targets) => Visits(targets, name) = 1
  <2>. DEFINE V == {t \in DOMAIN targets : targets[t] = name}
  <2>1. IsFiniteSet(V)
    <3>1. IsFiniteSet(1..n)
      BY FS_Interval
    <3>. QED
      BY <1>2, <3>1, FS_Subset
  <2>2. Cardinality(V) \in Nat /\ (V # {} => Cardinality(V) # 0)
    BY <2>1, FS_CardinalityType, FS_EmptySet
  <2>3. name \in Range(targets) => V # {}
    BY DEF Range
  <2>4. ASSUME name \in Range(targets), Distinct(targets)
        PROVE  Cardinality(V) = 1
    <3>1. PICK t \in DOMAIN targets : targets[t] = name
      BY <2>4 DEF Range
    <3>2. V = {t}
      BY <2>4, <3>1 DEF Distinct
    <3>. QED
      BY <3>2, FS_Singleton, Zenon
  <2>. QED
    BY <2>2, <2>3, <2>4 DEF Visits
<1>3. ASSUME NEW plan \in Plan PROVE renderedBytes(plan) \in Nat
  BY WeightPlan
<1>. QED
  BY <1>1, <1>2, <1>3 DEF Counting

(* InjectionInvariants' hypothesis about sums is a fact.                   *)
LEMMA AddingHolds == Adding
<1>1. \A f : DOMAIN f = {} => Total(f) = 0
  <2>. TAKE f
  <2>. HAVE DOMAIN f = {}
  <2>1. Units(f) = {}
    BY DEF Units
  <2>. QED
    BY <2>1, FS_EmptySet DEF Total
<1>2. \A n \in Nat : \A f, g : \A x \in (1..n) \ DOMAIN f :
        /\ DOMAIN f \subseteq 1..n /\ DOMAIN g = DOMAIN f \cup {x}
        /\ f \in [DOMAIN f -> Nat] /\ g \in [DOMAIN g -> Nat]
        /\ \A y \in DOMAIN f : g[y] = f[y]
        => Total(g) = Total(f) + g[x]
  <2>. TAKE n \in Nat
  <2>. TAKE f, g
  <2>. TAKE x \in (1..n) \ DOMAIN f
  <2>0. HAVE /\ DOMAIN f \subseteq 1..n /\ DOMAIN g = DOMAIN f \cup {x}
             /\ f \in [DOMAIN f -> Nat] /\ g \in [DOMAIN g -> Nat]
             /\ \A y \in DOMAIN f : g[y] = f[y]
  <2>1. IsFiniteSet(1..n)
    BY FS_Interval
  <2>2. IsFiniteSet(DOMAIN f)
    BY <2>0, <2>1, FS_Subset
  <2>. QED
    BY <2>0, <2>2, TotalOneMore
<1>. QED
  BY <1>1, <1>2, Zenon DEF Adding

(* Every variable keeps its type, for every set of pods and plan lists.    *)
THEOREM TypeCorrect == Spec => []TypeOK
<1>1. TypeOK /\ [Next]_vars => TypeOK'
  BY TypeStep, CountingHolds
<1>. QED
  BY <1>1, TypeInit, PTL DEF Spec

(* However often the API server calls the webhook on a pod, whatever other *)
(* webhooks add and whichever shims exist by then, one call injects.       *)
THEOREM AtMostOneInjection == Spec => []InjectedOnce
<1>1. Init => OnceInv
  BY DEF Init, OnceInv
<1>2. TypeOK /\ OnceInv /\ [Next]_vars => OnceInv'
  BY OnceStep
<1>3. OnceInv => InjectedOnce
  BY DEF OnceInv, InjectedOnce
<1>. QED
  BY <1>1, <1>2, <1>3, TypeCorrect, PTL DEF Spec

(* Nothing the webhook does, and nothing another webhook does between two  *)
(* calls, takes away from the pod.                                         *)
THEOREM PodNeverShrinks == Spec => PodOnlyGrows
<1>1. TypeOK /\ [Next]_vars => [PodGrows]_pod
  BY GrowthStep, CountingHolds, SMTT(30) DEF vars
<1>. QED
  BY <1>1, TypeCorrect, PTL DEF Spec, PodOnlyGrows

(* The helpers run before the pod's own init containers, in the order of   *)
(* the shims, each fetch before its refresh, for any number of shims.      *)
THEOREM HelpersPrecede == Spec => []HelpersStartFirst
<1>1. TypeOK /\ CallInv /\ [Next]_vars => CallInv'
  BY CallStep, CountingHolds
<1>2. CallInv => HelpersStartFirst
  BY DEF CallInv, HelpersStartFirst
<1>. QED
  BY <1>1, <1>2, CallInit, TypeCorrect, PTL DEF Spec

(* A shim is injected whole or leaves no trace, whatever shims apply and   *)
(* collide, for every pod that has a container.                            *)
THEOREM InjectedWhole == PodsHaveContainers => (Spec => []AllOrNothing)
<1>. SUFFICES ASSUME PodsHaveContainers PROVE Spec => []AllOrNothing
  BY Zenon
<1>1. Init => WholeInv
  BY WholeInit
<1>2. /\ TypeOK /\ CallInv /\ [Next]_vars => CallInv'
      /\ TypeOK /\ CallInv /\ WholeInv /\ [Next]_vars => WholeInv'
  BY CallStep, WholeStep, CountingHolds
<1>3. TypeOK /\ CallInv /\ WholeInv => AllOrNothing
  BY WholeComplete
<1>. QED
  BY <1>1, <1>2, <1>3, CallInit, TypeCorrect, PTL DEF Spec

(* Injection never breaks a pod: with safe inputs, no pod that the webhook *)
(* returns is one the API server rejects, whatever the shims, their order, *)
(* the pods, the budgets and the number of calls of the webhook.           *)
THEOREM InjectionNeverBreaksPod == SafeInputs => (Spec => []NeverBreaksPod)
<1>. SUFFICES ASSUME SafeInputs PROVE Spec => []NeverBreaksPod
  BY SMTT(30)
<1>1. Init => SafetyInv
  BY DEF Init, SafeInputs, SafetyInv, QueuedHelpers, UniqueNames, Apart, MountsValid
<1>2. TypeOK /\ SafetyInv /\ [Next]_vars => SafetyInv'
  BY SafetyStep, CountingHolds
<1>3. SafetyInv => NeverBreaksPod
  BY DEF SafetyInv, NeverBreaksPod
<1>. QED
  BY <1>1, <1>2, <1>3, TypeCorrect, PTL DEF Spec

(* No shim and no request of a pod is lost without a trace: when a call is *)
(* done, each plan is injected or warned of, and so is each container that *)
(* was asked for by name and each env var that was left alone.             *)
THEOREM LossIsReported == KeysIdentify => (Spec => []NothingLostSilently)
<1>. SUFFICES ASSUME KeysIdentify PROVE Spec => []NothingLostSilently
  BY Zenon
<1>1. /\ TypeOK /\ CallInv /\ [Next]_vars => CallInv'
      /\ TypeOK /\ CallInv /\ LostInv /\ [Next]_vars => LostInv'
  BY CallStep, LostStep, CountingHolds
<1>2. TypeOK /\ LostInv => NothingLostSilently
  BY LostReported
<1>. QED
  BY <1>1, <1>2, CallInit, LostInit, TypeCorrect, PTL DEF Spec

(* The pod as a call finds it is one that the API server accepts.          *)
BaseInv == SafetyInv /\ ServerAccepts(base)

(* Between calls too the API server accepts the pod.                       *)
LEMMA BaseHolds ==
  ASSUME SafeInputs
  PROVE  Spec => []BaseInv
<1>1. Init => BaseInv
  BY SMTT(30) DEF Init, SafeInputs, SafetyInv, BaseInv, QueuedHelpers, UniqueNames, Apart, MountsValid
<1>2. TypeOK /\ BaseInv /\ [Next]_vars => BaseInv'
  <2>. SUFFICES ASSUME TypeOK, BaseInv, [Next]_vars PROVE BaseInv'
    OBVIOUS
  <2>1. SafetyInv'
    BY SafetyStep, CountingHolds DEF BaseInv
  <2>2. UNCHANGED base \/ base' = pod'
    BY Zenon DEF Next, vars, AlreadyInjected, BeginLoop, SkipOverBudget, SkipNoTarget, SkipCollision, Skip,
           ApplyPlan, Finish, Reinvoke
  <2>. QED
    BY <2>1, <2>2 DEF BaseInv, SafetyInv, ServerAccepts
<1>. QED
  BY <1>1, <1>2, TypeCorrect, PTL DEF Spec

(* Every invariant of an injection, from inputs that are safe.             *)
LEMMA InjectionInvariant ==
  ASSUME SafeInputs, PodsHaveContainers
  PROVE  Spec => [](TypeOK /\ CallInv /\ WholeInv /\ OwnInv /\ BaseInv)
<1>1. /\ TypeOK /\ CallInv /\ [Next]_vars => CallInv'
      /\ TypeOK /\ CallInv /\ WholeInv /\ [Next]_vars => WholeInv'
  BY CallStep, WholeStep, CountingHolds, SMTT(30)
<1>2. TypeOK /\ CallInv /\ WholeInv /\ OwnInv /\ [Next]_vars => OwnInv'
  BY OwnStep, CountingHolds
<1>. QED
  BY <1>1, <1>2, CallInit, WholeInit, OwnInit, TypeCorrect, BaseHolds, PTL DEF Spec

(* Whatever else a pod came with and however many shims it selects, what a *)
(* target reads at a plan's mount path is refreshed by the sidecar of that *)
(* plan and by no other container.                                         *)
THEOREM RefresherIsUnique ==
  SafeInputs /\ PodsHaveContainers => (Spec => []OneRefresherPerToken)
<1>. SUFFICES ASSUME SafeInputs, PodsHaveContainers PROVE Spec => []OneRefresherPerToken
  BY Zenon
<1>1. TypeOK /\ CallInv /\ WholeInv /\ OwnInv /\ BaseInv => OneRefresherPerToken
  BY OwnRefreshed DEF BaseInv, SafetyInv
<1>. QED
  BY <1>1, InjectionInvariant, PTL

(* What a target reads at the path of a rendered file is that file of that *)
(* plan: annotation, downwardAPI item and mount agree on it.               *)
THEOREM FilesArrive ==
  SafeInputs /\ PodsHaveContainers => (Spec => []FilesReachContainers)
<1>. SUFFICES ASSUME SafeInputs, PodsHaveContainers PROVE Spec => []FilesReachContainers
  BY Zenon
<1>1. TypeOK /\ CallInv /\ WholeInv /\ OwnInv /\ BaseInv => FilesReachContainers
  BY OwnFiles DEF BaseInv, SafetyInv
<1>. QED
  BY <1>1, InjectionInvariant, PTL

(* What the loop of Apply has put into the pod.                            *)
LEMMA HoldsInvariant ==
  Spec => [](TypeOK /\ CallInv /\ HoldsInv)
<1>1. Init => HoldsInv
  <2>. SUFFICES ASSUME Init PROVE HoldsInv
    OBVIOUS
  <2>1. applied = <<>> /\ pod = base
    BY DEF Init
  <2>. QED
    BY <2>1, TypeInit, HoldsStart, SMTT(30)
<1>2. /\ TypeOK /\ CallInv /\ [Next]_vars => CallInv'
      /\ TypeOK /\ TypeOK' /\ CallInv /\ CallInv' /\ HoldsInv /\ [Next]_vars => HoldsInv'
  BY CallStep, HoldsStep, CountingHolds, SMTT(30)
<1>. QED
  BY <1>1, <1>2, CallInit, TypeCorrect, PTL DEF Spec

(* And which plans it took.                                                *)
LEMMA ChoiceInvariant ==
  ASSUME KeysIdentify
  PROVE  Spec => [](TypeOK /\ CallInv /\ HoldsInv /\ ChosenInv)
<1>1. Init => ChosenInv
  <2>. SUFFICES ASSUME Init PROVE ChosenInv
    OBVIOUS
  <2>1. /\ applied = <<>> /\ pod = base /\ at = 1 /\ addedBytes = 0 /\ phase = "called"
    BY DEF Init
  <2>. QED
    BY <2>1, TypeInit, ChosenStart, AddingHolds, SMTT(30)
<1>2. TypeOK /\ CallInv /\ HoldsInv /\ ChosenInv /\ [Next]_vars => ChosenInv'
  BY ChosenStep, CountingHolds, AddingHolds, SMTT(30)
<1>. QED
  BY <1>1, <1>2, HoldsInvariant, PTL DEF Spec

(* The loop checks each plan against a pod that it is changing, yet what   *)
(* it takes is told by the pod as it came: the plans, in order, that fit   *)
(* it and the plans taken before them, for any number of shims.            *)
THEOREM SelectionIsExact == KeysIdentify => (Spec => []SkippedForCause)
<1>. SUFFICES ASSUME KeysIdentify PROVE Spec => []SkippedForCause
  BY Zenon
<1>1. TypeOK /\ ChosenInv => SkippedForCause
  BY ChosenDone
<1>. QED
  BY <1>1, ChoiceInvariant, PTL

(* The plan at hand collides with the pod and the helpers that wait in     *)
(* newInits exactly when it collides with the pod alone.                   *)
PendingNeverDecides ==
  InLoop =>
    LET plan == plans[at]
        targets == resolveTargets(pod, plan)
    IN  checkCollisions(pod, plan, newInits, targets)
          <=> checkCollisions(pod, plan, <<>>, targets)

(* checkCollisions is given the helpers that Apply has queued and not yet  *)
(* put on the pod. It could do without: whatever shims meet on a pod, even *)
(* two of one name, the config volume of the first stops the second, so    *)
(* that queueing the helpers hides no collision from the loop.             *)
THEOREM QueueHidesNoCollision == Spec => []PendingNeverDecides
<1>1. TypeOK /\ CallInv /\ HoldsInv => PendingNeverDecides
  <2>. SUFFICES ASSUME TypeOK, CallInv, HoldsInv, InLoop
                PROVE  checkCollisions(pod, plans[at], newInits, resolveTargets(pod, plans[at]))
                         <=> checkCollisions(pod, plans[at], <<>>, resolveTargets(pod, plans[at]))
    BY Zenon DEF PendingNeverDecides
  <2>1. phase = "applying" /\ plans[at] \in Plan
    BY CurrentPlan DEF InLoop
  <2>. QED
    BY <2>1, PendingRedundant, Zenon
<1>. QED
  BY <1>1, HoldsInvariant, PTL

(* However many shims apply to a pod, the annotations they add keep it     *)
(* storable, although the loop counts neither keys nor the status entries: *)
(* it is enough that those fit between the two limits.                     *)
THEOREM AnnotationsFit == HeadroomSuffices => (Spec => []AnnotationsWithinLimit)
<1>. SUFFICES ASSUME HeadroomSuffices PROVE Spec => []AnnotationsWithinLimit
  BY Zenon
<1>1. Init => BudgetInv
  <2>. SUFFICES ASSUME Init PROVE BudgetInv
    OBVIOUS
  <2>1. /\ pod \in Pod /\ IsFiniteSet(pod.annotations) /\ plans \in Seq(Plan) /\ base = pod
        /\ at = 1 /\ addedBytes = 0 /\ applied = <<>> /\ phase = "called"
    BY ConstantsTyped, AnnotationsFinite DEF Init
  <2>2. annotationBytes(pod) <= annotationBytes(pod) + 0 + KeyBytes * EntriesBefore(plans, 1)
    BY <2>1, BudgetStart
  <2>. QED
    BY <2>1, <2>2 DEF BudgetInv
<1>2. /\ TypeOK /\ CallInv /\ [Next]_vars => CallInv'
      /\ TypeOK /\ TypeOK' /\ CallInv /\ BudgetInv /\ [Next]_vars => BudgetInv'
  BY CallStep, BudgetStep, CountingHolds, SMTT(30)
<1>3. CallInv /\ BudgetInv => AnnotationsWithinLimit
  BY DEF CallInv, BudgetInv, AnnotationsWithinLimit
<1>. QED
  BY <1>1, <1>2, <1>3, CallInit, TypeCorrect, PTL DEF Spec

=============================================================================
