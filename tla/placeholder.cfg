SPECIFICATION Spec
CONSTANTS
    MaxJobs = 2
    CPE <- MCCPE
    Packages <- MCPackages
    InitialCPE = 0
    InitialPackages = 0
    EarlyExit = TRUE
    MaxFaults = 0
INVARIANT PlaceholderMeansUpgraded
CHECK_DEADLOCK FALSE
