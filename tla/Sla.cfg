\* Pages built while incidents open and close, windows are created and a target
\* is deleted.
SPECIFICATION Spec
CONSTANTS
    t1 = t1
    t2 = t2
    ann = ann
    root = root
    None = None
    Targets = {t1, t2}
    Callers = {ann, root}
    Admins = {root}
    Owner <- MCOwner
    Tags <- MCTags
    Windows <- MCWindows
    Asked = {3}
    Compared <- MCCompared
    Situations <- MCSituations
    StartClock = 4
    MaxClock = 5
    MaxMoves = 2
INVARIANT CountedBySecond
INVARIANT SummaryAddsUp
INVARIANT WiderSeesMore
CHECK_DEADLOCK FALSE
