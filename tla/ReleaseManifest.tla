--------------------------- MODULE ReleaseManifest ---------------------------
(***************************************************************************)
(* The ReleaseManifest custom resource (api/v1alpha1/                      *)
(* releasemanifest_types.go): what a release prescribes for the operating  *)
(* system, for Kubernetes and for the Helm workloads, and the architecture *)
(* tables that go with it.                                                 *)
(*                                                                         *)
(* A version is a natural number: versions are compared for equality by    *)
(* the controller and for order by the admission webhook and by the        *)
(* external upgraders, which never install an older one. 0 is "none" (an   *)
(* empty or malformed release version, a chart that is not installed).     *)
(***************************************************************************)
EXTENDS Naturals, Sequences, FiniteSets

CONSTANTS
    Release,         \* the release versions a manifest image exists for
    Chart,           \* the Helm releases the manifests mention
    OSVersion,       \* [Release -> version]: operatingSystem
    KubeVersion,     \* [Release -> version]: kubernetes.k3s / kubernetes.rke2
    SupportedArchs,  \* [Release -> set of Arch]: operatingSystem.supportedArchs
    Workloads,       \* [Release -> Seq(Chart)]: workloads.helm, in order
    Dependencies,    \* [Chart -> Seq(Chart)]: dependencyCharts
    Addons,          \* [Chart -> Seq(Chart)]: addonCharts
    ChartVersion     \* [Release -> [Chart -> version]]

ASSUME ReleaseAssumption == Release \subseteq Nat \ {0}

ASSUME VersionAssumption ==
    /\ OSVersion \in [Release -> Nat]
    /\ KubeVersion \in [Release -> Nat]
    /\ ChartVersion \in [Release -> [Chart -> Nat \ {0}]]

ASSUME WorkloadAssumption ==
    /\ Workloads \in [Release -> Seq(Chart)]
    /\ Dependencies \in [Chart -> Seq(Chart)]
    /\ Addons \in [Chart -> Seq(Chart)]

\* Condition types share one name space with the two fixed ones.
ASSUME ConditionAssumption == Chart \cap {"OS", "K8s"} = {}
-----------------------------------------------------------------------------
\* type Arch: the values the manifest's enum admits.
Arch == {"x86_64", "aarch64"}

ASSUME ArchAssumption == SupportedArchs \in [Release -> SUBSET Arch]

\* Arch.Short: the Go/Kubernetes name of the architecture (kubelets report it).
Short(a) == IF a = "x86_64" THEN "amd64" ELSE "arm64"

\* Node status uses either name of an architecture.
NodeArch == Arch \cup {Short(a) : a \in Arch}

\* SupportedArchitectures: both names of every supported architecture.
SupportedArchitectures(archs) == archs \cup {Short(a) : a \in archs}
=============================================================================
