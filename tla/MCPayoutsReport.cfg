CONSTANTS
    Clicks = {c1}
    Amounts = {3}
    MaxKeys = 1
    HttpRetries = 1
    Webs <- MCWebs
SPECIFICATION PayoutSpec
INVARIANT SuccessMeansAccepted
CHECK_DEADLOCK FALSE
