---------------------------- MODULE MCInjection ----------------------------
(***************************************************************************)
(* Pods and shims for Injection: every list of shims that a subset of six  *)
(* gives, in the order of listShims, against pods that already hold what   *)
(* an injection may collide with.                                          *)
(***************************************************************************)
EXTENDS Injection

MCText == STRING

Shim(key, name, cluster, volume, mount, driver) ==
  [key |-> key, name |-> name, clusterScoped |-> cluster, tokenVolume |-> volume,
   mountPath |-> mount, socketMountPath |-> <<"spiffe">>, csiDriver |-> driver,
   confBytes |-> 5, files |-> <<>>, env |-> {}, containers |-> <<>>]

App == <<"app">>
Web == <<"web">>
Run(dir) == <<"var", "run", dir>>
SpiffeCSI == "csi.spiffe.io"

Aws == [Shim("OIDCShim/ns/aws", "aws", FALSE, <<"oidcshim-token-", "aws">>, Run("aws"), SpiffeCSI)
          EXCEPT !.env = {"ROLE", "REGION"}, !.containers = <<App>>]
Azure == [Shim("OIDCShim/ns/azure", "azure", FALSE, <<"shared">>, Run("azure"), SpiffeCSI)
            EXCEPT !.env = {"REGION"}, !.containers = <<<<"ghost">>, Web>>,
                   !.files = << [path |-> <<"etc", "azure.json">>, bytes |-> 1] >>]
Gcp == [Shim("OIDCShim/ns/gcp", "gcp", FALSE, <<"oidcshim-token-", "gcp">>, Run("gcp"), SpiffeCSI)
          EXCEPT !.files = << [path |-> <<"etc", "gcp.json">>, bytes |-> 2],
                              [path |-> <<"etc", "adc.json">>, bytes |-> 1] >>]
ClusterGcp == [Shim("ClusterOIDCShim/gcp", "gcp", TRUE, <<"cluster">>, Run("gcp2"), SpiffeCSI)
                 EXCEPT !.files = << [path |-> <<"etc", "cluster.json">>, bytes |-> 1] >>]
Legacy == Shim("ClusterOIDCShim/legacy", "legacy", TRUE, <<"legacy">>, Run("legacy"), "csi.legacy.io")
Vault == [Shim("ClusterOIDCShim/vault", "vault", TRUE, <<"shared">>, Run("vault"), SpiffeCSI)
            EXCEPT !.files = << [path |-> <<"etc", "gcp.json">>, bytes |-> 1] >>]

Shims == <<Aws, Azure, Gcp, ClusterGcp, Legacy, Vault>>
ListShims(all) == {SelectSeq(all, LAMBDA s : s \in chosen) : chosen \in SUBSET Range(all)}
MCPlanLists == ListShims(Shims)

Box(name, mounts, env) ==
  [name |-> name, mounts |-> mounts, env |-> env, always |-> FALSE]
Data(path) == <<[path |-> path, volume |-> <<"data">>, subPath |-> 0, readOnly |-> FALSE]>>
Note(kind, bytes) ==
  {[key |-> [kind |-> kind, shim |-> "", i |-> 0], from |-> <<kind>>, i |-> 0,
    bytes |-> bytes]}
Vol(name, csi) == [name |-> name, csi |-> csi, items |-> <<>>]

Plain ==
  [volumes |-> <<Vol(<<"data">>, NotCSI)>>,
   inits |-> <<Box(<<"migrate">>, Data(<<"data">>), {})>>,
   containers |-> <<Box(App, Data(<<"data">>), {[name |-> "REGION", from |-> "pod"]}),
                    Box(Web, <<>>, {})>>,
   annotations |-> {}, labels |-> {}, filter |-> <<>>]

MCPods ==
  { Plain,
    [Plain EXCEPT !.filter = <<BlankPart, Web>>, !.annotations = Note("containers", 4)],
    [Plain EXCEPT !.filter = <<BlankPart>>, !.annotations = Note("containers", 1)],
    [Plain EXCEPT !.filter = <<<<"ghost">>>>, !.annotations = Note("containers", 5)],
    [Plain EXCEPT !.annotations = Note("status", 8)],
    [Plain EXCEPT !.annotations = Note("team", 14)],
    [Plain EXCEPT !.annotations = Note("team", 30)],
    [Plain EXCEPT !.volumes = Append(@, Vol(socketVolumeName, SpiffeCSI))],
    [Plain EXCEPT !.volumes = Append(@, Vol(socketVolumeName, "csi.legacy.io"))],
    [Plain EXCEPT !.volumes = Append(@, Vol(socketVolumeName, NotCSI))],
    [Plain EXCEPT !.volumes = Append(@, Vol(configVolumeName("aws"), NotCSI))],
    [Plain EXCEPT !.inits = Append(@, Box(refreshContainerName("gcp"), <<>>, {}))],
    [Plain EXCEPT !.containers[2].mounts = Data(<<"etc", "adc.json">>)],
    [Plain EXCEPT !.containers[1].mounts = Data(Run("legacy"))],
    [Plain EXCEPT !.annotations =
       {[key |-> HelperConfAnnotation("gcp"), from |-> <<"pod">>, i |-> 0, bytes |-> 3]},
       !.labels = {[key |-> "gcp", value |-> "cluster"]}] }

ASSUME InputsAreSafe ==
  SafeInputs /\ PodsHaveContainers /\ KeysIdentify /\ HeadroomSuffices

(* Counting units adds a function's values up.                             *)
ASSUME TotalIsSum == \A f \in [1..3 -> 0..3] : Total(f) = SumFunction(f)

MCSidecars == {Box(<<"mesh">>, <<>>, {}), Box(<<"ghost">>, <<>>, {})}
=============================================================================
