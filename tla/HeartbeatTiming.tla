--------------------------- MODULE HeartbeatTiming ---------------------------
(***************************************************************************)
(* The heartbeat policy driven by every sequence of cycle outcomes: each   *)
(* finished cycle is classified, the interval and the anchor move, and the *)
(* next opportunity is computed, with or without a commitment that may     *)
(* shorten it (domain/heartbeat.py as stores/autonomy.py uses it).         *)
(***************************************************************************)
EXTENDS HeartbeatPolicy

CONSTANTS UsedPolicies,   \* the policies tried
          MaxInterval     \* bound: the largest interval retained at the start

ASSUME UsedPoliciesAssumption == UsedPolicies \subseteq Policies
ASSUME MaxIntervalAssumption == MaxInterval \in Nat \ {0}

VARIABLES policy, interval, anchor, due, quiet

tvars == <<policy, interval, anchor, due, quiet>>

Instants  == 0 .. MaxUtc
Deadlines == Instants \cup {NoDeadline}

TimingInit ==
    /\ policy \in UsedPolicies
    /\ interval \in {Clamp(policy, i) : i \in 1 .. MaxInterval}
    /\ anchor = 0 /\ quiet = FALSE
    /\ \E d \in Deadlines : due = Schedule(policy, anchor, interval, d)

\* A cycle finishes at an instant not before its anchor.
CycleEnds ==
    \E autonomous, activity \in BOOLEAN, now \in anchor .. MaxUtc, d \in Deadlines :
        /\ interval' = NextInterval(policy, interval, autonomous, activity)
        /\ quiet' = (autonomous /\ ~activity)
        /\ anchor' = now
        /\ due' = Schedule(policy, now, interval', d)
        /\ UNCHANGED policy

TimingSpec == TimingInit /\ [][CycleEnds]_tvars

\* docs/autonomy.md: the interval stays between the effective minimum and the
\* effective maximum whatever the outcomes were.
IntervalInPolicy ==
    /\ policy \in UsedPolicies
    /\ interval \in EffectiveMinimum(policy) .. EffectiveMaximum(policy)

\* An inactive autonomous cycle never shortens the interval, anything else
\* resets it, and the maximum is reached as soon as the product passes it.
BackoffMonotone ==
    [][IF quiet'
       THEN /\ interval' >= interval
            /\ interval' < EffectiveMaximum(policy) => interval' = interval * policy.factor
       ELSE interval' = EffectiveMinimum(policy)]_tvars

\* The earliest instant at or after the deadline, between the earliest and the
\* default opportunity; the calendar's end when that is nearer.
EarliestUseful(p, a, i, d) ==
    CHOOSE t \in Instants :
        /\ t >= Lesser(MaxUtc, a + EffectiveMinimum(p))
        /\ t <= Lesser(MaxUtc, a + i)
        /\ d > a => t >= Lesser(d, Lesser(MaxUtc, a + i))
        /\ d <= a => t = Lesser(MaxUtc, a + i)
        /\ \A u \in Instants :
            u < t => \/ u < Lesser(MaxUtc, a + EffectiveMinimum(p))
                     \/ d <= a
                     \/ u < Lesser(d, Lesser(MaxUtc, a + i))

\* The schedule agrees with that definition for every deadline: an overdue
\* commitment does not defeat backoff, a future one is honoured and never
\* brings the opportunity before the effective minimum.
ScheduleIsEarliestUseful ==
    \A d \in Deadlines :
        Schedule(policy, anchor, interval, d) = EarliestUseful(policy, anchor, interval, d)

=============================================================================
