SPECIFICATION Spec
CONSTANTS
    Release = {1}
    Chart <- MCTwoChart
    OSVersion <- MCVersion
    KubeVersion <- MCVersion
    SupportedArchs <- MCArchs
    Workloads <- MCTwoWorkloads
    Dependencies <- MCTwoDependencies
    Addons <- MCTwoAddons
    ChartVersion <- MCChartVersion
    Suffix = {s1}
    ControlPlane = {c1}
    Worker = {}
    NodeArchitecture <- MCNodeArch
    InitialOS = {0}
    InitialKube = {0}
    InitialChart = {0, 1, 2}
    Managed = {}
    InitialManifests = {1}
    MaxManifestFailures = 0
    MaxGeneration = 1
    MaxFaults = 0
INVARIANTS SucceededMeansInstalled NoLostWakeUp
PROPERTIES ComponentOrder DependenciesFirst UpgradesInStages
CHECK_DEADLOCK FALSE
