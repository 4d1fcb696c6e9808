SPECIFICATION Spec
CONSTANTS
    Execs = {e1, e2, e3}
    Pids = {2, 3, 4}
    MaxPods = 2
    MaxCrashes = 1
    None = None
INVARIANT AbortReaps
CHECK_DEADLOCK FALSE
