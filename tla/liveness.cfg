SPECIFICATION SweptSpec
CONSTANTS
    Users = {u1}
    SessionIds = {s1}
    Orcids = {o1}
    Workers = {w1, w2}
    Endpoints = {"create", "start", "continue", "finish", "cancel", "unlink", "refresh_tokens", "delete_expired"}
    SessionLifetime = 1
    RetirementAge = 0
    MaxTime = 1
    MaxTokens = 2
    MaxFaults = 1
    PageSize = 1
PROPERTIES RequestsAnswered ExpiredEventuallySwept
CHECK_DEADLOCK FALSE
