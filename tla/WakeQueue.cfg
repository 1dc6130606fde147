CONSTANTS
    s1 = s1
    s2 = s2
    run = run
    a = a
    b = b
    c = c
    d = d
    e = e
    f = f
    g = g
    lost = lost
    gone = gone
    anew = anew
    again = again
    k1 = k1
    k2 = k2
    NoKey = NoKey
    NoRow = NoRow
    NoWake = NoWake
    Posters = {s1, s2}
    Runtime = run
    Wakes = {a, b, c, d, e, f, g, lost, gone, anew, again}
    Keys = {k1, k2}
    Batch <- Crossed
    Legacy = {lost, gone}
    Renewal <- Renewed
    MaxWakes = 2
    Horizon = 1
    MaxFaults = 1

SPECIFICATION FairSpec
INVARIANTS OneRowPerKey DueWithEarliest
PROPERTIES ClaimsInOrder ImplementsPostBox EveryoneServed
