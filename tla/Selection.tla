----------------------------- MODULE Selection -----------------------------
(***************************************************************************)
(* internal/selection: which pods a shim is for, and which pods the        *)
(* webhook leaves alone.                                                   *)
(*                                                                         *)
(* A target is a pod with its ServiceAccount and its Namespace, each with  *)
(* whether it exists, the shims its enrolment key names and its labels.    *)
(* A name of a namespace is the tuple of its parts, and a prefix of the    *)
(* name is a prefix of that tuple.                                         *)
(***************************************************************************)
EXTENDS Integers, Sequences

Kinds == {"pod", "serviceAccount", "namespace"}

-----------------------------------------------------------------------------
(* match.go                                                                *)

compileFails(sel) == \E k \in DOMAIN sel.selectors : ~sel.selectors[k].valid

Enrolled(s, t) ==
  \E k \in Kinds : s.selection.enrollment[k] /\ t[k].exists /\ s.name \in t[k].enrolls

(* Enrolled, or some selector set and every set one matching its object.   *)
(* A selector is reduced to the labels it requires and those it forbids.   *)
Matches(s, t) ==
  \/ Enrolled(s, t)
  \/ /\ DOMAIN s.selection.selectors # {}
     /\ \A k \in DOMAIN s.selection.selectors :
          /\ t[k].exists
          /\ s.selection.selectors[k].requires \subseteq DOMAIN t[k].labels
          /\ s.selection.selectors[k].forbids \cap DOMAIN t[k].labels = {}

(* Values of the inject annotation: "false" stands for every spelling that *)
(* is false once trimmed and without regard to case.                       *)
OptedOut(pod) == pod.inject = "false"

-----------------------------------------------------------------------------
(* exclusions.go                                                           *)

HasPrefix(name, prefix) ==
  Len(prefix) <= Len(name) /\ SubSeq(name, 1, Len(prefix)) = prefix

Excluded(names, prefixes, namespace) ==
  \/ namespace \in names
  \/ \E prefix \in prefixes : HasPrefix(namespace, prefix)

=============================================================================
