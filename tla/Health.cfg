SPECIFICATION FairSpec
CONSTANTS
    Provider = {p1}
    Model = {m1}
    Req = {r1, r2}
    Threshold = 2
    Cooldown = 2
    Persist = 1
    MaxLimit = 2
    Lockout = 1
    ForceChoices = {TRUE, FALSE}
    MaxGen = 2
INVARIANTS SlotHasOwner CircuitEarned
PROPERTIES StaleAttemptsAreInert AlwaysRecovers
