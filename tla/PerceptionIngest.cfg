CONSTANTS
    ingest1 = ingest1
    ingest2 = ingest2
    run1 = run1
    run2 = run2
    inbox = inbox
    feed = feed
    plain = plain
    again = again
    clash = clash
    k1 = k1
    k2 = k2
    k3 = k3
    p1 = p1
    p2 = p2
    w1 = w1
    w2 = w2
    NoProcess = NoProcess
    NoBinding = NoBinding
    NoCursor = NoCursor
    Keys = {k1, k2, k3}
    Prints = {p1, p2}
    Content <- Content3
    Ingesters = {ingest1, ingest2}
    Runners = {}
    Skew <- TrueClocks
    AdminSkew = 0
    Bindings = {inbox}
    Registered = {inbox}
    Fixtures = {again, clash}
    InitialSource <- Again
    Ordinary = {}
    MaxWakes = 1
    MaxRefs = 2
    MaxPageItems = 3
    Horizon = 2
    MaxFaults = 1
    MaxAdminSteps = 2

SPECIFICATION Spec
INVARIANTS CheckpointMatchesEvidence
PROPERTIES NothingAcrossRevocation
