SPECIFICATION FairSpec
CONSTANTS
    Execs = {e1, e2, e3}
    Idents = {i1}
    Oversize = {e3}
    Shutdowns = {s1, s2}
    None = None
    Failures = TRUE
    MaxRestarts = 1
INVARIANTS
    QuietAfterShutdownAck
    ResultBeforeShutdownAck
PROPERTIES
    SlotNeverRuns
    ShutdownAcknowledged
CHECK_DEADLOCK FALSE
