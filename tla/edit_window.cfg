SPECIFICATION Spec
CONSTANTS
    Release = {1, 2}
    Chart <- MCNoChart
    OSVersion <- MCVersion
    KubeVersion <- MCVersion
    SupportedArchs <- MCArchs
    Workloads <- MCNoWorkloads
    Dependencies <- MCNoDependencies
    Addons <- MCNoAddons
    ChartVersion <- MCChartVersion
    Suffix = {s1, s2}
    ControlPlane = {c1}
    Worker = {}
    NodeArchitecture <- MCNodeArch
    InitialOS = {0}
    InitialKube = {0}
    InitialChart = {0}
    Managed = {}
    InitialManifests = {1, 2}
    MaxManifestFailures = 0
    MaxGeneration = 2
    MaxFaults = 0
PROPERTY EditsIncrementRelease
CHECK_DEADLOCK FALSE
