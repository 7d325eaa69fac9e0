----------------------------- MODULE MCStartup -----------------------------
(***************************************************************************)
(* Environments and flags for Startup, the unusable ones included.         *)
(***************************************************************************)
EXTENDS Startup

El(name) == [padded |-> FALSE, name |-> name]
Padded(name) == [padded |-> TRUE, name |-> name]

Images == {"", "image:1", "image:2"}

MCEnvironments ==
  [helperImage : Images, relatedImage : Images, podNamespace : {<<>>, <<"operator">>}]

MCFlagValues ==
  [f \in Flags |->
     CASE f = "spiffeHelperImage" -> {"", "image:3"}
       [] f = "spiffeHelperImagePullPolicy" -> {"Never", "Sometimes"}
       [] f = "spiffeCSIDriver" -> {"", "csi.example"}
       [] f = "spiffeSocketMountPath" -> {"/run/spiffe", "run/spiffe"}
       [] f = "spiffeSocketFile" -> {"", "agent.sock", "run/agent.sock"}
       [] f = "excludedNamespaces" ->
            {<<El(<<>>)>>, <<El(<<"team", "a">>), Padded(<<"team", "b">>)>>}
       [] f = "excludedNamespacePrefixes" ->
            {<<El(<<>>)>>, <<El(<<"openshift-">>), Padded(<<>>)>>, <<Padded(<<"team">>)>>}
       [] f = "ztwimNamespace" -> {<<>>, <<"ztwim">>}
       [] f = "maxRenderedBytes" -> {-1, 0, 1, Malformed}]

MCNamespaces ==
  {<<"operator">>, <<"ztwim">>, <<"kube-", "system">>, <<"openshift-", "dns">>,
   <<"team", "a">>, <<"team", "c">>, <<"other">>}
=============================================================================
