CONSTANTS
    t1 = t1
    t2 = t2
    k1 = k1
    c1 = c1
    c2 = c2
    Tenants = {t1, t2}
    Keys = {k1}
    TenantOf <- MCTenantOf
    Nobody = Nobody
    Unclaimed = Unclaimed
    Left = Left
    Callers = {c1, c2}
    Asked <- MCAsked
    Whole = 4
    Default = 2
    TTL = 0
    SecretKept = TRUE
    MaxTime = 1
    MaxTokens = 2
    MaxJobs = 1
    MaxRestarts = 1
    MaxChanges = 2
    s1 = s1
    s2 = s2
    unset = unset
    w1 = w1
    w2 = w2
    SigningKeys = {s1, s2}
    Unusable = {unset}
    NoKey = NoKey
    Workers = {w1, w2}
    Brief = {w2}
    Nothing = Nothing
    MaxBuild = 2
    MaxReports = 2
    MaxSheets = 2
SPECIFICATION MCSpec
INVARIANTS RevokedIsDead WeightsAccounted AcceptedIsExported UntouchedVerifies SameFindingsSameDigest StatedEngineRan
PROPERTY SightIsKept
SYMMETRY Symmetry
CHECK_DEADLOCK FALSE

