SPECIFICATION Spec
CONSTANTS
    Retries = 3
    MaxRedirects = 3
    Budget = 3
    Timeout = 2
    MaxPieces = 2
    Files = {"leaf", "inner", "outer"}
    Contents <- MCContents
    Uploads = {"outer"}
    MaxMembers = 3
    MaxMemberSize = 3
    MaxExpansion = 6
    MaxDepth = 2
    MaxChildJobs = 2
    MaxTotalJobs = 3
    MaxReanalyses = 1
    MaxFailures = 1
CHECK_DEADLOCK FALSE
INVARIANTS OnlyOutside Bounded MembersAccounted BlindSpotsSurface
