-------------------------- MODULE HeartbeatPolicy --------------------------
(***************************************************************************)
(* The pure timing policy of the adaptive heartbeat (domain/heartbeat.py): *)
(* how a retained interval is clamped, how a finished cycle changes it,    *)
(* and when the next opportunity falls due.  Instants and durations are    *)
(* naturals counted in a unit of which Second make up one second, so that  *)
(* a configured minimum below one second can be expressed; the calendar    *)
(* ends at MaxUtc.  The code's floating-point seconds become whole units.  *)
(***************************************************************************)
EXTENDS Integers

CONSTANTS Second,    \* units in a second: the floor of the effective minimum
          MaxUtc     \* the last representable instant, datetime.max

ASSUME SecondAssumption == Second \in Nat \ {0}
ASSUME MaxUtcAssumption == MaxUtc \in Nat

\* No commitment shortens the schedule.
NoDeadline == -1

Lesser(a, b) == IF a <= b THEN a ELSE b
Greater(a, b) == IF a >= b THEN a ELSE b

\* What HeartbeatPolicy.__post_init__ accepts.
Policies == {p \in [minimum : Nat \ {0}, maximum : Nat \ {0}, factor : Nat \ {0}] :
                p.maximum >= p.minimum}

EffectiveMinimum(p) == Greater(Second, p.minimum)
EffectiveMaximum(p) == Greater(EffectiveMinimum(p), p.maximum)

Clamp(p, interval) ==
    Lesser(EffectiveMaximum(p), Greater(EffectiveMinimum(p), interval))

(***************************************************************************)
(* The interval after a cycle: activity or a wake from outside resets it,  *)
(* an inactive autonomous cycle multiplies it up to the maximum.  The code *)
(* compares with a quotient so as not to overflow the product.             *)
(***************************************************************************)
NextInterval(p, interval, autonomous, activity) ==
    IF activity \/ ~autonomous
    THEN EffectiveMinimum(p)
    ELSE Lesser(EffectiveMaximum(p), Clamp(p, interval) * p.factor)

\* Addition that saturates at the end of the calendar.
AddSeconds(anchor, seconds) ==
    IF seconds > MaxUtc - anchor THEN MaxUtc ELSE anchor + seconds

\* A plausible bug: an overdue commitment keeps forcing the next opportunity.
ScheduleOverdue(p, anchor, interval, deadline) ==
    LET default   == AddSeconds(anchor, Clamp(p, interval))
        shortened == Greater(AddSeconds(anchor, EffectiveMinimum(p)), deadline)
    IN  IF deadline # NoDeadline THEN Lesser(default, shortened) ELSE default

(***************************************************************************)
(* The instant of the next opportunity.  A commitment due after the anchor *)
(* may only bring it forward, and never before the effective minimum.      *)
(***************************************************************************)
Schedule(p, anchor, interval, deadline) ==
    LET default   == AddSeconds(anchor, Clamp(p, interval))
        shortened == Greater(AddSeconds(anchor, EffectiveMinimum(p)), deadline)
    IN  IF deadline > anchor THEN Lesser(default, shortened) ELSE default

=============================================================================
