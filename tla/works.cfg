SPECIFICATION WorksSpec
CONSTANTS
    None = None
    u1 = u1
    u2 = u2
    o1 = o1
    o2 = o2
    o3 = o3
    Users = {u1, u2}
    SessionIds = {}
    Orcids = {o1, o2, o3}
    Workers = {w1, w2}
    Endpoints = {"unlink", "use"}
    SessionLifetime = 1
    RetirementAge = 0
    MaxTime = 1
    MaxTokens = 3
    MaxFaults = 1
    PageSize = 1
    Methods = {"get-orcid-works", "get-orcid-work", "create-orcid-work", "update-orcid-work", "delete-orcid-work", "get-orcid-profile"}
    HiddenNames = {o2}
    UnfitOwners = {o3}
    MaxCreates = 1
    Established <- MCEstablished
    Present <- MCPresent
SYMMETRY Slots
INVARIANTS WorksTypeOK ActsForCaller NoDuplicates
PROPERTIES StartsHonoured AnswersTruthful
CHECK_DEADLOCK FALSE
