SPECIFICATION Spec
CONSTANTS
    p1 = p1
    p2 = p2
    ConfigOf <- MCConfigOf
    Procs = {p1, p2}
    Files = {f}
    Contents = {1, 2}
    Configs = {"a", "b"}
    Quota = 2
    Target = 1
    MinWrites = 1
    Batch = 3
    MaxTime = 1
    MaxWal = 1
    MaxCrashes = 1
CHECK_DEADLOCK FALSE
INVARIANTS Transparent QuotaKept
PROPERTIES RowsLeaveByEviction
