SPECIFICATION SerialSpec
CONSTANTS
    Users = {u1}
    SessionIds = {s1}
    Orcids = {o1}
    Workers = {w1}
    Endpoints = {"create", "start"}
    SessionLifetime = 1
    RetirementAge = 0
    MaxTime = 0
    MaxTokens = 1
    MaxFaults = 0
    PageSize = 1
PROPERTY RedirectMeansStarted
CHECK_DEADLOCK FALSE
