SPECIFICATION SerialSpec
CONSTANTS
    Users = {u1, u2}
    SessionIds = {s1, s2, s3}
    Orcids = {o1, o2}
    Workers = {w1}
    Endpoints = {"create", "start", "continue", "finish", "cancel", "unlink", "use", "refresh_tokens", "delete_expired", "admin_delete"}
    SessionLifetime = 1
    RetirementAge = 0
    MaxTime = 1
    MaxTokens = 3
    MaxFaults = 0
    PageSize = 3
SYMMETRY Symmetry
INVARIANTS LinkUsable OneStagePerSession LinkTokensUnshared
PROPERTIES HandlersAreAtomic OnlyExpiredSwept TokensStayReachable
CHECK_DEADLOCK FALSE
