CONSTANTS
    r1 = r1
    r2 = r2
    w1 = w1
    NoRuntime = NoRuntime
    Runtimes = {r1, r2}
    Skew <- Behind
    Limits <- Unequal
    Ordinary = {w1}
    Cadence = 2
    MaxAttempts = 2
    MaxSeconds = 2
    Horizon = 3
    Scenes <- AllScenes

SPECIFICATION FairSpec
INVARIANTS ExplorationConsistent AllowanceKept
PROPERTIES StartsOnlyWhenAllowed DenialSettles AllowanceReturns
