SPECIFICATION Spec
CONSTANTS
    Jobs = {1}
    Unsupported = {}
    Doomed = {}
    Workers = {w1, w2}
    Nobody = Nobody
    Requests = {r1, r2}
    Limit = 1
    Ceiling = 1
    MaxRules = 2
    MaxReanalyses = 1
    Faults = {"lost", "raised"}
CHECK_DEADLOCK FALSE
SYMMETRY Symmetry
PROPERTY EvidenceSurvivesRun
