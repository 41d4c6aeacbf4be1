CONSTANTS
    c1 = c1
    c2 = c2
    c3 = c3
    p1 = p1
    p2 = p2
    Calls = {c1, c2, c3}
    TabOf <- MCTabOf
    Payloads = {p1, p2}
    Envs <- MCEnvs
    StorageFaults = TRUE
    MaxSent = 3
SPECIFICATION FairSpec
INVARIANTS
    OneRequest
    AnswersAgree
PROPERTIES
    KeepsContract
    CallsAnswered
CHECK_DEADLOCK FALSE
