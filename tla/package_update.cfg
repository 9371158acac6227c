SPECIFICATION Spec
CONSTANTS
    Release = {1}
    Chart <- MCNoChart
    OSVersion <- MCSameOS
    KubeVersion <- MCVersion
    SupportedArchs <- MCArchs
    Workloads <- MCNoWorkloads
    Dependencies <- MCNoDependencies
    Addons <- MCNoAddons
    ChartVersion <- MCChartVersion
    Suffix = {s1}
    ControlPlane = {c1}
    Worker = {w1}
    NodeArchitecture <- MCNodeArch
    InitialOS = {0}
    InitialKube = {0}
    InitialChart = {0}
    Managed = {}
    InitialManifests = {1}
    MaxManifestFailures = 0
    MaxGeneration = 1
    MaxFaults = 0
INVARIANT OneNodeAtATime
CHECK_DEADLOCK FALSE
