-------------------------- MODULE MCComponentReads ---------------------------
(***************************************************************************)
(* An instance of ComponentReads for TLC, with the merge of HelmValues.    *)
(***************************************************************************)
EXTENDS ComponentReads, HelmValues

MCComponents == <<"ingress", "metrics">>
MCInstalledContainers == [d \in Deployment |-> {"server", "logger"}]
MCContainers == [d \in Deployment |-> {"server", "proxy"}]

\* Without the key k, with a leaf, an empty map or a map with the keys K there.
Shapes(x, K) ==
    LET leaves(S) == [y \in S |-> Leaf(x)]
    IN  {EmptyMap, leaves({"k"})} \cup {[k \in {"k"} |-> Map(leaves(S))] : S \in {{}, K}}

MCInstalled == Shapes("installed", {"k", "l"})
MCRelease == Shapes("release", {"k", "l"})
MCUser == Shapes("user", {"l", "m"})
MCAdmin == {[k \in {"k"} |-> Leaf("admin")],
            [k \in {"k"} |-> Map([l \in {"l"} |-> Leaf("admin")])]}
-----------------------------------------------------------------------------
\* README, stage 3: a component "may receive additional values coming from
\* either the release manifest or the upgrade plan, or both". What is written
\* into a HelmChart is what the chart has, overlaid with the values of the
\* release and then with those of the plan, node by node.
ValuesMerged ==
    [][pc = "write" /\ pc' # pc /\ hc' # hc =>
         Nodes(hc'[Workload].vals) =
            Merged(IF hc[Workload].ver = 0 THEN got.helm.vals ELSE hc[Workload].vals,
                   release, user)]_vars
=============================================================================
