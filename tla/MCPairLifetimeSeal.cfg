SPECIFICATION Spec
CONSTANTS
    MaxGen = 3
    MaxFaults = 2
    MaxTurns = 1
INVARIANT
    SealAcceptsEvidence
CHECK_DEADLOCK FALSE
