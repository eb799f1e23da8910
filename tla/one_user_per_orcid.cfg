SPECIFICATION SerialSpec
CONSTANTS
    Users = {u1, u2}
    SessionIds = {s1, s2}
    Orcids = {o1}
    Workers = {w1}
    Endpoints = {"create", "start", "continue", "finish"}
    SessionLifetime = 1
    RetirementAge = 0
    MaxTime = 0
    MaxTokens = 2
    MaxFaults = 0
    PageSize = 1
INVARIANT OneUserPerOrcid
CHECK_DEADLOCK FALSE
