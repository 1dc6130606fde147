CONSTANTS
    r1 = r1
    r2 = r2
    NoRuntime = NoRuntime
    Runtimes = {r1, r2}
    Skew <- Behind
    Subjects <- AboutFirst
    Identities <- Rows
    BatchLimit = 1
    Day = 1
    Horizon = 3
    MaxCycles = 3
    MaxAdminSteps = 1

SPECIFICATION FairSpec
INVARIANTS ReflectionConsistent RotationIsFair
PROPERTIES ReviewsWorthwhile ReviewReturns
