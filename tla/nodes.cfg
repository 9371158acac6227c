SPECIFICATION Spec
CONSTANTS
    Release = {1}
    Chart <- MCNoChart
    OSVersion <- MCVersion
    KubeVersion <- MCVersion
    SupportedArchs <- MCArchs
    Workloads <- MCNoWorkloads
    Dependencies <- MCNoDependencies
    Addons <- MCNoAddons
    ChartVersion <- MCChartVersion
    Suffix = {s1}
    ControlPlane = {c1, c2}
    Worker = {w1}
    NodeArchitecture <- MCNodeArch
    InitialOS = {0}
    InitialKube = {0}
    InitialChart = {0}
    Managed = {}
    InitialManifests = {}
    MaxManifestFailures = 1
    MaxGeneration = 1
    MaxFaults = 1
INVARIANTS ControlPlaneFirst OSBeforeKubernetes OneNodeAtATime DrainLeavesNode TruthfulStatus OneUnseenObject AtMostOneOrphan NoLostWakeUp
SYMMETRY NodeSymmetry
CHECK_DEADLOCK FALSE
