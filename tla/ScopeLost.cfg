\* A target with a window of its own is deleted before another's report is built.
SPECIFICATION Spec
CONSTANTS
    t1 = t1
    t2 = t2
    ann = ann
    root = root
    None = None
    Targets = {t1, t2}
    Callers = {ann, root}
    Admins = {root}
    Owner <- MCOwner
    Tags <- MCTags
    Windows <- MCWindows
    Asked = {3}
    Compared <- MCCompared
    Situations <- MCSituations
    StartClock = 4
    MaxClock = 5
    MaxMoves = 1
INVARIANT ScopeKept
CHECK_DEADLOCK FALSE
