------------------------- MODULE MCUpgradeController -------------------------
(***************************************************************************)
(* Instances of UpgradeController for TLC.                                 *)
(***************************************************************************)
EXTENDS UpgradeProperties, TLC

\* The suffixes are interchangeable: no definition singles one out.
SuffixSymmetry == Permutations(Suffix)
\* So are the nodes of one role.
NodeSymmetry == Permutations(ControlPlane) \cup Permutations(Worker)

\* A release that raises every version, and one after it.
MCVersion == [r \in Release |-> r]
MCChartVersion == [r \in Release |-> [h \in Chart |-> r + 1]]
\* All releases ask for one version of every chart.
MCSameChartVersion == [r \in Release |-> [h \in Chart |-> 2]]
\* All releases share one OS image: package updates only.
MCSameOS == [r \in Release |-> 0]

MCArchs == [r \in Release |-> {"x86_64"}]
\* The second of three releases does not support the cluster.
MCNotSecond == [r \in Release |-> IF r = 2 THEN {"x86_64"} ELSE Arch]
MCArmNodes == [n \in Node |-> "aarch64"]
MCNodeArch == [n \in Node |-> "amd64"]

\* One component with a dependency and an add-on.
MCOneChart == {"crd", "app", "ext"}
MCOneWorkloads == [r \in Release |-> <<"app">>]
MCOneDependencies == [h \in Chart |-> IF h = "app" THEN <<"crd">> ELSE <<>>]
MCOneAddons == [h \in Chart |-> IF h = "app" THEN <<"ext">> ELSE <<>>]

\* Two components, the first with a dependency.
MCTwoChart == {"crd", "app", "tool"}
MCTwoDependencies == MCOneDependencies
MCTwoAddons == [h \in Chart |-> <<>>]
MCTwoWorkloads == [r \in Release |-> <<"app", "tool">>]

\* No workloads.
MCNoChart == {}
MCNoWorkloads == [r \in Release |-> <<>>]
MCNoDependencies == [h \in Chart |-> <<>>]
MCNoAddons == [h \in Chart |-> <<>>]
=============================================================================
