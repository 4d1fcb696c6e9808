SPECIFICATION FairSpec
CONSTANTS
    MaxFaults = 1
    MaxRescueFaults = 1
    MaxResumes = 1
    MaxTrouble = 2
INVARIANTS
    DiskAccounted
    ReadyIsWhole
    WorkspaceKept
PROPERTY
    SessionSettles
CHECK_DEADLOCK FALSE
