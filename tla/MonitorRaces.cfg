\* Two invocations that may be alive at one time, a crash and every error.
SPECIFICATION Spec
CONSTANTS
    Targets = {t1}
    Invocations = {i1, i2}
    IncidentIds = {n1, n2}
    SuccessThreshold <- One
    FailureThreshold <- One
    RetryCount <- NoRetry
    Interval <- One
    BatchLimit = 2
    MinutesPerHour = 3
    Faulty <- AllFaults
    MaxClock = 2
    MaxCrashes = 1
    MaxMoves = 2
    NoTarget = NoTarget
SYMMETRY Symmetry
INVARIANT OneOpenIncident
INVARIANT RowsCoherent
INVARIANT AlertOncePerOutage
PROPERTY AdminResolutionKept
CHECK_DEADLOCK FALSE
