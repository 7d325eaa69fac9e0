---------------------------- MODULE MCAdmission ----------------------------
(***************************************************************************)
(* Pods, objects and shims for Admission.                                  *)
(***************************************************************************)
EXTENDS Admission

aws == 1
gcp == 2

Enrolling == [enrollment |-> [k \in Kinds |-> TRUE], selectors |-> <<>>]
Selecting(k, valid) ==
  [Enrolling EXCEPT !.selectors =
     [x \in {k} |-> [valid |-> valid, requires |-> {"app"}, forbids |-> {}]]]

S(name, cluster, path, source, sel) ==
  [name |-> name, cluster |-> cluster, path |-> path, source |-> source, selection |-> sel]

NamespacedGCP == S(gcp, FALSE, "p", "annotation", Enrolling)
ClusterGCP == S(gcp, TRUE, "q", "static", Enrolling)
ClusterAWS == S(aws, TRUE, "q", "configMap", Selecting("pod", TRUE))
BrokenAWS == S(aws, FALSE, "r", "static", Selecting("namespace", FALSE))

Object(enrolls, param) ==
  [exists |-> TRUE, enrolls |-> enrolls, labels |-> <<>>, param |-> param]
Missing == [Object({}, NoValue) EXCEPT !.exists = FALSE]

MCVersions ==
  [namespace |-> {Object({}, NoValue), Object({gcp}, "ns")},
   serviceAccount |-> {Missing, Object({}, "sa")},
   oidcshims |-> {{}, {NamespacedGCP, BrokenAWS}},
   clusteroidcshims |-> {{ClusterGCP}, {ClusterGCP, ClusterAWS}},
   configMap |-> {NoValue, "cm"}]

MCStores ==
  {[namespace |-> Object({gcp}, "ns"), serviceAccount |-> Object({}, NoValue),
    oidcshims |-> {}, clusteroidcshims |-> {ClusterGCP, ClusterAWS}, configMap |-> "cm"]}

Pod(enrolls, app, inject, injected) ==
  [exists |-> TRUE, enrolls |-> enrolls, param |-> NoValue, inject |-> inject,
   injected |-> injected,
   labels |-> [l \in IF app THEN {"app"} ELSE {} |-> "text"]]

Req(p, namespace) == [pod |-> p, namespace |-> namespace]

MCRequests ==
  {Req(Pod({}, TRUE, "", FALSE), <<"team">>),
   Req(Pod({gcp}, TRUE, "false", FALSE), <<"team">>),
   Req(Pod({gcp}, TRUE, "", TRUE), <<"team">>),
   Req(Pod({gcp}, TRUE, "", FALSE), <<"kube-", "system">>)}

MCNames == {<<"operator">>}
MCPrefixes == {<<"kube-">>}
=============================================================================
