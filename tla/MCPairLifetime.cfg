CONSTANTS
    MaxGen = 3
    MaxFaults = 2
    MaxTurns = 1
SPECIFICATION FairSpec
INVARIANTS  TeardownLeavesRight
PROPERTIES  RecoveryEnds IdleEnds
CHECK_DEADLOCK FALSE
