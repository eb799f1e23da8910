SPECIFICATION Spec
CONSTANTS
    Users = {u1}
    SessionIds = {s1}
    Orcids = {o1}
    Workers = {w1}
    Endpoints = {"create", "start", "continue", "finish", "delete_expired"}
    SessionLifetime = 1
    RetirementAge = 0
    MaxTime = 1
    MaxTokens = 1
    MaxFaults = 0
    PageSize = 1
PROPERTY SweptTokensRevoked
CHECK_DEADLOCK FALSE
