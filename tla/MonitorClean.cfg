\* One invocation at a time, no error and no crash; two targets of different
\* intervals swept one at a time, an administrator and a window interfere.
SPECIFICATION Spec
CONSTANTS
    Targets = {t1, t2}
    Invocations = {i1}
    IncidentIds = {n1, n2}
    SuccessThreshold <- One
    FailureThreshold <- Two
    RetryCount <- One
    Interval <- Mixed
    BatchLimit = 1
    MinutesPerHour = 3
    Faulty <- NoFaults
    MaxClock = 5
    MaxCrashes = 0
    MaxMoves = 1
    NoTarget = NoTarget
INVARIANT TransitionHandled
PROPERTY TransitionsJustified
PROPERTY OutageImplemented
PROPERTY NoOvertaking
CHECK_DEADLOCK FALSE
