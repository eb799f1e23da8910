SPECIFICATION Spec
CONSTANTS
    Users = {u1, u2}
    SessionIds = {s1, s2}
    Orcids = {o1}
    Workers = {w1, w2}
    Endpoints = {"create", "start", "continue", "finish", "use", "refresh_tokens", "admin_delete"}
    SessionLifetime = 1
    RetirementAge = 0
    MaxTime = 1
    MaxTokens = 3
    MaxFaults = 0
    PageSize = 1
SYMMETRY Symmetry
INVARIANTS LinkUsable
CHECK_DEADLOCK FALSE
