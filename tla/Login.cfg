CONSTANTS
    PerMin = 2
    PerHour = 2
    MinutesPerHour = 2
    Handlers = {h1, h2}
    s1 = s1
    States = {s1, s2}
    c1 = c1
    c2 = c2
    Codes = {c1, c2, c3}
    k1 = k1
    k2 = k2
    k3 = k3
    SessionIds = {k1, k2, k3}
    PageSize = 2
    a1 = a1
    a2 = a2
    Accounts = {a1, a2}
    Addresses = {"Ada", "ada", "bob"}
    Mailboxes = {"ada", "bob"}
    Fold <- MCFold
    u1 = u1
    u2 = u2
    Users = {u1, u2}
    Starts <- MCStarts
    None = None
    Unused = Unused
    Gone = Gone
    MaxMinute = 1
SPECIFICATION Spec
INVARIANT AdmissionBounded
INVARIANT ServedAsItself
PROPERTY SubKept
PROPERTY RevokesExactly
CHECK_DEADLOCK FALSE
