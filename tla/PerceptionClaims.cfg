CONSTANTS
    ingest1 = ingest1
    ingest2 = ingest2
    run1 = run1
    run2 = run2
    inbox = inbox
    feed = feed
    plain = plain
    again = again
    clash = clash
    k1 = k1
    k2 = k2
    k3 = k3
    p1 = p1
    p2 = p2
    w1 = w1
    w2 = w2
    NoProcess = NoProcess
    NoBinding = NoBinding
    NoCursor = NoCursor
    Keys = {k1, k2, k3}
    Prints = {p1, p2}
    Content <- Content3
    Ingesters = {ingest1}
    Runners = {run1}
    Skew <- FastIngest
    AdminSkew = 0
    Bindings = {inbox}
    Registered = {}
    Fixtures = {plain}
    InitialSource <- Plain
    Ordinary = {w1}
    MaxWakes = 2
    MaxRefs = 2
    MaxPageItems = 2
    Horizon = 3
    MaxFaults = 0
    MaxAdminSteps = 1

SPECIFICATION FairSpec
INVARIANTS InboundConsistent
PROPERTIES InboundAttended
