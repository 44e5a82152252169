\* One pass after another over every policy table, aborted and started over.
SPECIFICATION FairSpec
CONSTANTS
    CheckResults = {c1, c2}
    Incidents = {n1}
    AuditLogs = {}
    Passes = {p1}
    Configurations <- AnyPolicies
    BatchSize = 1
    Paced = TRUE
    MaxClock = 3
    MaxAborts = 1
INVARIANT ArchivedBeforeDeleted
INVARIANT ArchivedOnce
INVARIANT PassClears
PROPERTY DeletesOnlyExpired
PROPERTY PassEnds
CHECK_DEADLOCK FALSE
