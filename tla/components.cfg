SPECIFICATION Spec
CONSTANTS
    CoreChart = {"ingress"}
    Deployment = {"metrics"}
    CoreComponents <- MCComponents
    Container = {"server", "proxy", "logger"}
    Installed <- MCInstalledContainers
    Containers <- MCContainers
    Workload = "app"
    Values <- MCInstalled
    ReleaseValues <- MCRelease
    UserValues <- MCUser
    AdminValues <- MCAdmin
    NoValues <- EmptyMap
    Merge <- mergeMaps
    MaxEdits = 1
    MaxFaults = 1
INVARIANT CoreReportSound
PROPERTIES CurrentValuesMerged ValuesMerged ComponentsTriggered
CHECK_DEADLOCK FALSE
