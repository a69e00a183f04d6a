SPECIFICATION FairSpec
CONSTANTS
    Jobs = {1, 2, 3}
    Unsupported = {2}
    Doomed = {1}
    Workers = {w1}
    Nobody = Nobody
    Requests = {r1}
    Limit = 2
    Ceiling = 3
    MaxRules = 2
    MaxReanalyses = 0
    Faults = {"blocked", "declined", "purged"}
CHECK_DEADLOCK FALSE
PROPERTIES
    BacklogDrains
    Implements
