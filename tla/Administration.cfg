CONSTANTS
    o1 = o1
    o2 = o2
    owner = owner
    stranger = stranger
    Operators = {o1, o2}
    Runtime = Runtime
    Ingester = Ingester
    Subjects = {owner, stranger}
    Subject <- SameSubject
    Configs = {c1, c2}
    Unlocked = Unlocked
    NoCall = NoCall
    NoSubject = NoSubject
    NoConfig = NoConfig
    NotRead = NotRead
    MaxCalls = 4

SYMMETRY Symmetry
SPECIFICATION Spec
INVARIANTS EvidenceReplays NoCircularWait
PROPERTIES AuditsAreExact
