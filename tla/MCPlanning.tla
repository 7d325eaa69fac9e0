----------------------------- MODULE MCPlanning -----------------------------
(***************************************************************************)
(* Shims and pods for Planning: lists of parameters that feed templates,   *)
(* lists of files that get in each other's way, selections, and pods whose *)
(* three objects have a key, have it empty, or lack it.                    *)
(***************************************************************************)
EXTENDS Planning

MCText == STRING

Field(key) == [form |-> "field", key |-> key, when |-> ""]
Guarded(key, cond) == [form |-> "field", key |-> key, when |-> cond]
Tpl(refs) == [parses |-> TRUE, text |-> FALSE, refs |-> refs]
Fixed == [parses |-> TRUE, text |-> TRUE, refs |-> {}]
Broken == [parses |-> FALSE, text |-> TRUE, refs |-> {}]

Param(name, source, key) ==
  [name |-> name, required |-> FALSE, default |-> "none", source |-> source,
   key |-> key, blank |-> FALSE, template |-> Fixed]
FromTemplate(name, t) == [Param(name, "template", "") EXCEPT !.template = t]

Pool == Param("pool", "annotation", "pool")
Zone == [Param("zone", "label", "zone") EXCEPT !.default = "text"]
Secret == [Param("cm", "configMap", "") EXCEPT !.required = TRUE]
Role == [Param("role", "static", "") EXCEPT !.blank = TRUE]
Path2 == FromTemplate("path", Tpl({Field("pool"), Guarded("zone", "pool")}))

MCParameters ==
  { <<>>,
    <<Pool>>,
    <<[Pool EXCEPT !.required = TRUE], Zone, [Path2 EXCEPT !.default = "blank"]>>,
    <<Pool, Zone, [Path2 EXCEPT !.required = TRUE]>>,
    <<Path2, Pool, Zone>>,
    <<Role, Secret>>,
    <<Role, FromTemplate("tokenPath", Tpl({Field("role")}))>>,
    <<Param("tokenPath", "static", ""), FromTemplate("path", Broken)>> }

Audiences == {Fixed, Tpl({Field("pool")}), Tpl({Field("path"), Field("tokenPath")})}

Dir == <<"run", "token">>
F(path, t) == [path |-> path, content |-> t]
MCFiles ==
  { <<>>,
    <<F(<<"a">>, Tpl({Guarded("path", "pool")})), F(<<"b">>, Fixed)>>,
    <<F(<<"a">>, Fixed), F(<<"b">>, Fixed), F(<<"a">>, Fixed)>>,
    <<F(Dir, Fixed)>>,
    <<F(<<"run", "tokens">>, Fixed), F(Dir \o <<"x">>, Fixed)>>,
    <<F(<<"a">>, Broken)>> }

AllKinds == [k \in Kinds |-> TRUE]
Selector(requires) == [valid |-> TRUE, requires |-> requires, forbids |-> {}]
Enrolling == [enrollment |-> AllKinds, selectors |-> [k \in {} |-> Selector({})]]

Base ==
  [name |-> "gcp", longName |-> FALSE, mountPath |-> Dir, pullPolicy |-> "",
   selection |-> Enrolling, parameters |-> <<>>, audience |-> Fixed,
   extraAudiences |-> {}, env |-> {}, files |-> <<>>]

MCSelections ==
  { [Enrolling EXCEPT !.enrollment = [AllKinds EXCEPT !["pod"] = FALSE]],
    [Enrolling EXCEPT !.selectors = [k \in {"pod"} |-> Selector({"zone"})]],
    [Enrolling EXCEPT !.selectors =
       [k \in {"pod", "serviceAccount"} |-> Selector(IF k = "pod" THEN {} ELSE {"zone"})]],
    [Enrolling EXCEPT !.selectors =
       [k \in {"serviceAccount"} |-> [Selector({}) EXCEPT !.forbids = {"zone"}]]],
    [Enrolling EXCEPT !.selectors =
       [k \in {"namespace"} |-> [Selector({}) EXCEPT !.valid = FALSE]]] }

MCShims ==
  {[Base EXCEPT !.parameters = x[1], !.audience = x[2], !.files = x[3]] :
     x \in MCParameters \X Audiences \X MCFiles}
  \cup {[Base EXCEPT !.selection = sel] : sel \in MCSelections}
  \cup {[Base EXCEPT !.mountPath = <<>>, !.env = {Tpl({Field("tokenDir")})},
                     !.extraAudiences = {Fixed, Broken}],
        [Base EXCEPT !.pullPolicy = "Sometimes"]}

(* An object with the annotation pool and the label zone, by presence.     *)
Absences == {"absent", "blank", "text"}
Map(key, state) == [k \in IF state = "absent" THEN {} ELSE {key} |-> state]
Object(state, enrolls) ==
  [exists |-> TRUE, enrolls |-> enrolls, annotations |-> Map("pool", state),
   labels |-> Map("zone", state)]
Missing == [exists |-> FALSE, enrolls |-> {}, annotations |-> Map("pool", "absent"),
            labels |-> Map("zone", "absent")]

Target(pod, sa, ns) == [pod |-> pod, serviceAccount |-> sa, namespace |-> ns]
MCTargets ==
  {Target(Object(x[1], {"gcp"}), Object(x[2], {}), Object(x[3], {})) :
     x \in Absences \X Absences \X Absences}
  \cup {Target(Object(x[1], {}), sa, Object(x[2], {"aws"})) :
     x \in Absences \X Absences, sa \in {Missing, Object("text", {})}}

-----------------------------------------------------------------------------
(* Shims that the CRD admits and one side does not expect.                 *)

BadPolicy == {[Base EXCEPT !.pullPolicy = "Sometimes"]}

(* {{.tokenPath.x}} and {{$.unknown}}                                      *)
OddTemplates ==
  {[Base EXCEPT !.audience = Tpl({[form |-> "nested", key |-> "tokenPath", when |-> ""]})],
   [Base EXCEPT !.audience = Tpl({[form |-> "root", key |-> "unknown", when |-> ""]})]}

(* token.mountPath: /run/token/ and a file /run/token/x                    *)
TrailingSlash ==
  {[Base EXCEPT !.mountPath = Dir \o <<"">>, !.files = <<F(Dir \o <<"x">>, Fixed)>>]}

-----------------------------------------------------------------------------
ASSUME ShimsAreStored == ParametersIdentified

=============================================================================
