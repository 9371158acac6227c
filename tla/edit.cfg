SPECIFICATION Spec
CONSTANTS
    Release = {1, 2, 3}
    Chart <- MCNoChart
    OSVersion <- MCVersion
    KubeVersion <- MCVersion
    SupportedArchs <- MCNotSecond
    Workloads <- MCNoWorkloads
    Dependencies <- MCNoDependencies
    Addons <- MCNoAddons
    ChartVersion <- MCChartVersion
    Suffix = {s1, s2}
    ControlPlane = {c1}
    Worker = {}
    NodeArchitecture <- MCArmNodes
    InitialOS = {0}
    InitialKube = {0}
    InitialChart = {0}
    Managed = {}
    InitialManifests = {1, 2, 3}
    MaxManifestFailures = 0
    MaxGeneration = 2
    MaxFaults = 0
INVARIANTS TruthfulStatus ArchitectureRespected
PROPERTIES WritesForStoredPlan LastVersionMonotone UpgradesInStages
SYMMETRY SuffixSymmetry
CHECK_DEADLOCK FALSE
