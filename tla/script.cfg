SPECIFICATION FairSpec
CONSTANTS
    MaxJobs = 3
    CPE <- MCCPE
    Packages <- MCPackages
    InitialCPE = 0
    InitialPackages = 0
    EarlyExit = FALSE
    MaxFaults = 5
INVARIANTS PlaceholderMeansUpgraded RebootsAreUseful
PROPERTIES UpgradesNode JobCompletes
CHECK_DEADLOCK FALSE
