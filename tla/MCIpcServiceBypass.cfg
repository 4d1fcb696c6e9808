SPECIFICATION Spec
CONSTANTS
    Execs = {e1, e2}
    Idents = {i1}
    Oversize = {}
    Shutdowns = {s1}
    None = None
    Failures = TRUE
    MaxRestarts = 0
INVARIANTS
    NoResultBypassed
CHECK_DEADLOCK FALSE
