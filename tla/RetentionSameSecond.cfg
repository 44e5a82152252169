\* Two batches of one size in one second.
SPECIFICATION Spec
CONSTANTS
    CheckResults = {c1, c2}
    Incidents = {}
    AuditLogs = {}
    Passes = {p1}
    Configurations <- OnlyChecks
    BatchSize = 1
    Paced = FALSE
    MaxClock = 2
    MaxAborts = 0
INVARIANT ArchivedBeforeDeleted
CHECK_DEADLOCK FALSE
