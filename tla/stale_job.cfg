SPECIFICATION Spec
CONSTANTS
    Release = {1}
    Chart <- MCOneChart
    OSVersion <- MCVersion
    KubeVersion <- MCVersion
    SupportedArchs <- MCArchs
    Workloads <- MCOneWorkloads
    Dependencies <- MCOneDependencies
    Addons <- MCOneAddons
    ChartVersion <- MCChartVersion
    Suffix = {s1}
    ControlPlane = {c1}
    Worker = {}
    NodeArchitecture <- MCNodeArch
    InitialOS = {0}
    InitialKube = {0}
    InitialChart = {1}
    Managed = {"app"}
    InitialManifests = {1}
    MaxManifestFailures = 0
    MaxGeneration = 1
    MaxFaults = 0
INVARIANT SucceededMeansInstalled
CHECK_DEADLOCK FALSE
