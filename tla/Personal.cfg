CONSTANTS
    goal = goal
    project = project
    commitment = commitment
    belief = belief
    rival = rival
    episode = episode
    entity = entity
    relationship = relationship
    thread = thread
    interest = interest
    preference = preference
    self = self
    story = story
    e1 = e1
    e2 = e2
    e3 = e3
    found = found
    echo = echo
    bond = bond
    argue = argue
    settle = settle
    stage = stage
    again = again
    replace = replace
    return = return
    sleep = sleep
    wake = wake
    retire = retire
    s1 = s1
    s2 = s2
    None = None
    NoSession = NoSession
    Objects <- AllObjects
    KindOf <- Family
    Events = {e1, e2, e3}
    Sensed = {e1, e2, e3}
    Turns = {found, echo, bond, argue, settle, stage, again, replace, return, sleep, wake, retire}
    Decisions <- Menu
    Calls <- Requests
    Sessions = {s1, s2}
    Skew <- Ahead
    Day = 1
    Week = 2
    Arrival <- Instants
    Courses <- Lives

SPECIFICATION Spec
INVARIANTS HistoryComplete WholeOrNothing InterpretationsConsistent DevelopmentEarned
CHECK_DEADLOCK FALSE
