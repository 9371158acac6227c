SPECIFICATION FairSpec
CONSTANTS
    Release = {1}
    Chart <- MCOneChart
    OSVersion <- MCVersion
    KubeVersion <- MCVersion
    SupportedArchs <- MCArchs
    Workloads <- MCOneWorkloads
    Dependencies <- MCOneDependencies
    Addons <- MCOneAddons
    ChartVersion <- MCChartVersion
    Suffix = {s1}
    ControlPlane = {c1}
    Worker = {}
    NodeArchitecture <- MCNodeArch
    InitialOS = {0}
    InitialKube = {0}
    InitialChart = {1}
    Managed = {}
    InitialManifests = {}
    MaxManifestFailures = 1
    MaxGeneration = 1
    MaxFaults = 1
INVARIANT NoLostWakeUp
PROPERTIES UpgradeCompletes DeletionCompletes
CHECK_DEADLOCK FALSE
