CONSTANTS
    a1 = a1
    a2 = a2
    a3 = a3
    a4 = a4
    one = one
    two = two
    three = three
    shared = shared
    own = own
    Attempts = {a1, a2, a3, a4}
    NoAttempt = NoAttempt
    Individuals = {one, two, three}
    Of <- Targets
    LockKeys = {shared, own}
    Key <- Hashes
    MaxFaults = 2

SPECIFICATION FairSpec
INVARIANTS OneOwner OwnersNeverAlternate
PROPERTIES AuthorityRelinquished
