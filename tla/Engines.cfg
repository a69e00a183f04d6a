SPECIFICATION FairSpec
CONSTANTS
    j1 = j1
    j2 = j2
    Jobs <- MCJobs
    Worlds <- MCWorlds
    Documents <- MCDocuments
    Typical <- MCTypical
    Threads = 2
    MaxTasks = 4
    Addresses = {"c2", "cdn"}
    Domains = {"evil", "update"}
    Platform = {"cdn", "update"}
    MaxEvents = 3
INVARIANTS
    RanIsOwn
    ResubmittedForAFault
    ReportAccounted
PROPERTIES
    LeavesTheQueue
CHECK_DEADLOCK FALSE
