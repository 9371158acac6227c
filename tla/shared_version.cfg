SPECIFICATION Spec
CONSTANTS
    Release = {1, 2}
    Chart = {"app"}
    OSVersion <- MCVersion
    KubeVersion <- MCVersion
    SupportedArchs <- MCArchs
    Workloads <- MCOneWorkloads
    Dependencies <- MCNoDependencies
    Addons <- MCNoAddons
    ChartVersion <- MCSameChartVersion
    Suffix = {s1, s2}
    ControlPlane = {c1}
    Worker = {}
    NodeArchitecture <- MCNodeArch
    InitialOS = {0}
    InitialKube = {0}
    InitialChart = {1}
    Managed = {}
    InitialManifests = {1, 2}
    MaxManifestFailures = 0
    MaxGeneration = 2
    MaxFaults = 0
INVARIANT SkippedMeansInstalled
CHECK_DEADLOCK FALSE
