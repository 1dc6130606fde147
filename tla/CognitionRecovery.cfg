CONSTANTS
    fast = fast
    slow = slow
    opA = opA
    opB = opB
    key = key
    birth = birth
    other = other
    legacy = legacy
    first = first
    second = second
    NoRuntime = NoRuntime
    NoModel = NoModel
    NoConfig = NoConfig
    NoKey = NoKey
    NoWake = NoWake
    NoDecision = NoDecision
    Second = 1
    MaxUtc = 9
    Keys = {key}
    Bootstrap = birth
    BootstrapKey = key
    Policy <- Policies2
    Model <- Models2
    Runtimes = {fast, slow}
    Skew <- SkewedClocks
    Limits <- UnequalLimits
    BoundModel <- Unbound
    Configs = {first}
    InitialConfig = first
    Ops = {opA, opB}
    Posted = {}
    Legacy = {legacy}
    Decisions <- RecoveryDecisions
    AdminOps = {}
    MaxCycles = 1
    Horizon = 3
    MaxFaults = 2
    MaxAdminSteps = 0

SPECIFICATION Spec
INVARIANTS CyclesConsistent WithinLimits AppliedExactlyOnce MemoryIsCurrent
PROPERTIES DecisionNeverResampled ImplementsLedger
