\* One importer that retries after a call failed.
SPECIFICATION ExportSpec
CONSTANTS
    u1 = u1
    u2 = u2
    t1 = t1
    t2 = t2
    c1 = c1
    w1 = w1
    l1 = l1
    Rows = {u1, u2, t1, t2, c1, w1, l1}
    KindOf <- MCKindOf
    Documents <- MCDocuments
    Tables <- MCTables
    i1 = i1
    i2 = i2
    Importers = {i1}
    Versions = {1, 2, 3}
    Addresses = {"ann"}
    Tags = {"web", "api"}
    Absent = Absent
    None = None
    MaxImports = 2
    MaxTroubles = 1
INVARIANT Monitorable
CHECK_DEADLOCK FALSE
