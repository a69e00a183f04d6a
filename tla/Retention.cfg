SPECIFICATION MCSpec
CONSTANTS
    Jobs <- MCJobs
    Hashes = {"a", "b"}
    Sha <- MCSha
    Parent <- MCParent
    Scheduler = scheduler
    Requests = {r1}
    SampleDays = 1
    ReportDays = 2
    MaxTime = 3
    MaxFaults = 1
INVARIANTS InWindowKept FilesAccounted
PROPERTY PurgedInTheEnd
