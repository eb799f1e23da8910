SPECIFICATION Spec
CONSTANTS
    Users = {u1, u2}
    SessionIds = {s1, s2}
    Orcids = {o1}
    Workers = {w1, w2}
    Endpoints = {"create", "start", "continue", "finish", "cancel", "unlink", "use", "refresh_tokens", "delete_expired", "admin_delete"}
    SessionLifetime = 1
    RetirementAge = 0
    MaxTime = 1
    MaxTokens = 2
    MaxFaults = 0
    PageSize = 1
SYMMETRY Symmetry
INVARIANTS TypeOK TokensOwnedByHolder TasksOwnTokens SessionTermsFixed
PROPERTIES LinksAreRegistry
CHECK_DEADLOCK FALSE
