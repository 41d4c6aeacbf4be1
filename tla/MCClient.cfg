CONSTANTS
    r1 = r1
    r2 = r2
    r3 = r3
    r4 = r4
    e1 = e1
    e2 = e2
    e3 = e3
    Paths = {p}
    MaxLeaf = 2
    Edits = {e1, e2, e3}
    Calls = {r1, r2, r3, r4}
    EditOf <- MCEditOf
    Start <- MCStart
    MaxAttempts = 2
    Stores <- Store
    Users = {u1, u2}
    StakeAmounts = {1, 2}
    MaxStaked = 3
    MaxTime = 3
    Unbonding = 1
    Scale = 6
    IdOf <- MCIdOf
    Limits = {1, 3}
    MaxRuns = 3
    Targets = {g1, g2}
    Wallets = {w1, w2}
    Anyone = anyone
    MaxAudit = 4
    MaxReceipts = 1
    Inviters = {i1}
    Day = 2
    MaxExpiry = 2
    MaxPerDay = 2
    MaxClock = 3
    MaxInvitations = 3
SPECIFICATION MCSpec
INVARIANTS
    ClientTypeOK
    OrderIndependent
    TruthfulAnswer
    ExhaustionNeedsRivals
    RewardsAreShares
    PrincipalIsOwed
    ResumesCorrectly
PROPERTIES
    EditsAreAtomic
    GateFollowsAudit
    DecisionStands
SYMMETRY MCSymmetry
CHECK_DEADLOCK FALSE
