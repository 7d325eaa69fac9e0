-------------------------- MODULE MCInjectionEdge --------------------------
(***************************************************************************)
(* Shims and pods that the CRD schemas, the reconcilers' validation and    *)
(* BuildPlan all let through, and that Apply does not expect.              *)
(***************************************************************************)
EXTENDS Injection

MCText == STRING

App == <<"app">>

Shim(name, volume, mount) ==
  [key |-> name, name |-> name, clusterScoped |-> FALSE, tokenVolume |-> volume,
   mountPath |-> mount, socketMountPath |-> <<"spiffe">>, csiDriver |-> "csi.spiffe.io",
   confBytes |-> 1, files |-> <<>>, env |-> {}, containers |-> <<>>]

Aws == Shim("aws", <<"oidcshim-token-", "aws">>, <<"var", "run", "aws">>)
Gcp == Shim("gcp", <<"oidcshim-token-", "gcp">>, <<"var", "run", "gcp">>)

Plain ==
  [volumes |-> <<>>, inits |-> <<>>,
   containers |-> <<[name |-> App, mounts |-> <<>>, env |-> {}, always |-> FALSE]>>,
   annotations |-> {}, labels |-> {}, filter |-> <<>>]

PlainPods == {Plain}
NoSidecars == {}

(* oidcshim.kemo.dev/containers: "app,app"                                 *)
RepeatedFilter == {[Plain EXCEPT !.filter = <<App, App>>]}
OneShim == {<<Aws>>}

(* token.volumeName: spiffe-workload-api, token.mountPath: /etc/oidcshim   *)
TokenOverOwn ==
  {<<[Aws EXCEPT !.tokenVolume = socketVolumeName, !.mountPath = configMountPath]>>}

(* gcp writes a file into the directory where aws mounts its token         *)
FileUnderOtherToken ==
  {<<Aws, [Gcp EXCEPT !.files =
             <<[path |-> <<"var", "run", "aws", "adc.json">>, bytes |-> 1]>>]>>}
=============================================================================
