SPECIFICATION FairSpec
CONSTANTS
    Execs = {e1}
    Pods = {p1, p2}
    T = 3
    MaxTime = 8
INVARIANTS
    ResultExcludesControls
    TimeoutCannotCrossReply
    CollectorSparesOpenDeadlines
PROPERTIES
    RowNeverRevives
    EveryCallEnds
