CONSTANTS
    fast = fast
    slow = slow
    opA = opA
    opB = opB
    key = key
    birth = birth
    other = other
    legacy = legacy
    first = first
    second = second
    NoRuntime = NoRuntime
    NoModel = NoModel
    NoConfig = NoConfig
    NoKey = NoKey
    NoWake = NoWake
    NoDecision = NoDecision
    Second = 1
    MaxUtc = 9
    Keys = {key}
    Bootstrap = birth
    BootstrapKey = key
    Policy <- Policies2
    Model <- Models2
    Runtimes = {slow}
    Skew <- TrueClocks
    Limits <- BriefLimits
    BoundModel <- BoundToFirst
    Configs = {first, second}
    InitialConfig = NoConfig
    Ops = {opA, opB}
    Posted = {other}
    Legacy = {}
    Decisions <- GovernanceDecisions
    AdminOps = {"pause", "resume"}
    MaxCycles = 2
    Horizon = 2
    MaxFaults = 0
    MaxAdminSteps = 3

SPECIFICATION FairSpec
INVARIANTS SchedulerConsistent
PROPERTIES ContextStaysFrozen PauseHonoured CycleTerminates HeartbeatResumes
