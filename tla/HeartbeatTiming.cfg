CONSTANTS
    Second = 2
    MaxUtc = 12
    MaxInterval = 9
    UsedPolicies <- SmallPolicies

SPECIFICATION TimingSpec
INVARIANTS ScheduleIsEarliestUseful
