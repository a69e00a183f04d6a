SPECIFICATION FairSpec
CONSTANTS
    Jobs = {j1}
    Encrypted = {j1}
    Members = {1, 2}
    Threads = {t1, t2}
    Requests = {r1, r2}
    NoOne = NoOne
    MaxRequests = 3
    MaxCrashes = 1
    MayHang = TRUE
CHECK_DEADLOCK FALSE
INVARIANTS NoOrphan NoDuplicateMembers CompletedIsWhole
PROPERTY AllSettles
