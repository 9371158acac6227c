----------------------------- MODULE HelmValues ------------------------------
(***************************************************************************)
(* The values of a Helm chart and how the reconciler merges them           *)
(* (internal/controller/helm.go). A map is a function from some keys to    *)
(* nodes; a node is a leaf or a map. Parsing and printing of YAML and JSON *)
(* keep the tree and are left out.                                         *)
(***************************************************************************)
EXTENDS Sequences, FiniteSets

LOCAL INSTANCE SequencesExt

Leaf(x) == [kind |-> "leaf", leaf |-> x]
Map(m) == [kind |-> "map", map |-> m]
IsMap(v) == v.kind = "map"

EmptyMap == [k \in {} |-> Leaf("none")]

\* Defect: a map of the second argument replaces one of the first.
mergeMaps_Shallow(m1, m2) ==
    [k \in DOMAIN m1 \cup DOMAIN m2 |-> IF k \in DOMAIN m2 THEN m2[k] ELSE m1[k]]

RECURSIVE mergeMaps(_, _)
mergeMaps(m1, m2) ==
    LET inner(k) == k \in DOMAIN m1 /\ IsMap(m1[k]) /\ IsMap(m2[k])
    IN  [k \in DOMAIN m1 \cup DOMAIN m2 |->
            CASE k \notin DOMAIN m2             -> m1[k]
              [] k \in DOMAIN m2 /\ inner(k)    -> Map(mergeMaps(m1[k].map, m2[k].map))
              [] k \in DOMAIN m2 /\ ~inner(k)   -> m2[k]]
-----------------------------------------------------------------------------
(* Reference: values as sets of paths.                                     *)

\* What is found at a path; a path leads through maps only.
RECURSIVE Nodes(_)
Nodes(m) ==
    UNION {{[path |-> <<k>>, node |-> IF IsMap(m[k]) THEN "map" ELSE m[k].leaf]}
             \cup (IF IsMap(m[k])
                   THEN {[n EXCEPT !.path = <<k>> \o @] : n \in Nodes(m[k].map)}
                   ELSE {})
           : k \in DOMAIN m}

\* Of the nodes below, those that the nodes above leave visible: all that lies
\* above on the way there are maps, and the node itself is not replaced.
Overlay(below, above) ==
    above \cup
    {n \in below : \A a \in above : IsPrefix(a.path, n.path) =>
                       a.node = "map" /\ (a.path = n.path => n.node = "map")}

Merged(installed, release, user) ==
    Overlay(Overlay(Nodes(installed), Nodes(release)), Nodes(user))
=============================================================================
