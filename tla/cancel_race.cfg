SPECIFICATION Spec
CONSTANTS
    Users = {u1}
    SessionIds = {s1}
    Orcids = {o1}
    Workers = {w1, w2}
    Endpoints = {"create", "start", "continue", "finish", "cancel"}
    SessionLifetime = 1
    RetirementAge = 0
    MaxTime = 0
    MaxTokens = 1
    MaxFaults = 0
    PageSize = 1
PROPERTY LinkFromOpenSession
CHECK_DEADLOCK FALSE
