----------------------------- MODULE Exploration -----------------------------
(***************************************************************************)
(* Internal exploration: an opt-in allowance to think about something of   *)
(* one's own choice, at most once per cadence, in a bounded cycle, and     *)
(* only when nothing else is due (stores/exploration.py,                   *)
(* stores/exploration_scope.py, runtime/exploration_admin.py, and what     *)
(* runtime/cognition.py and stores/cognition.py do with a grant).          *)
(*                                                                         *)
(* One runtime owns the individual at a time and may be interrupted        *)
(* anywhere; administrators change policy, lifecycle and governance        *)
(* between any two of its transactions.  What a model is asked and         *)
(* answers, and the inside of ordinary cycles, is the module Cognition.    *)
(***************************************************************************)
EXTENDS Lifecycle, Naturals, Sequences, FiniteSetsExt

CONSTANTS
    Runtimes, NoRuntime,
    Skew,              \* Skew[p]: how far the clock of p's host runs ahead
    Limits,            \* Limits[p]: attempts and seconds of the cycles p starts
    Ordinary,          \* wakes that are not grants
    Cadence,           \* CADENCE_SECONDS
    MaxAttempts,       \* MAX_ATTEMPTS
    MaxSeconds,        \* MAX_SECONDS
    Horizon,           \* bound: the last instant of the true clock
    Scenes             \* bounds: what a behavior begins with, and the interruptions
                       \* of a runtime and the changes by administrators it has

Policies == {"enabled", "disabled", "invalid"}

ASSUME RuntimeAssumption == /\ NoRuntime \notin Runtimes
                            /\ Skew \in [Runtimes -> Nat]
                            /\ Limits \in [Runtimes -> [attempts : Nat \ {0}, seconds : Nat \ {0}]]
ASSUME AllowanceAssumption == /\ Cadence \in Nat \ {0}
                              /\ MaxAttempts \in Nat \ {0}
                              /\ MaxSeconds \in Nat \ {0}
ASSUME ExplorationBounds ==
    /\ Horizon \in Nat
    /\ Scenes \subseteq [policy : Policies, hosts : SUBSET Runtimes, wakes : SUBSET Ordinary,
                         faults : Nat, adminSteps : Nat]

VARIABLES
    clock,
    operational, inferenceBlocked,
    policy,        \* the reserved entry of the individual's budget policy
    exploration,   \* exploration_state, exploration_grants with their wakes, outcomes
    ordinary,      \* the other wakes
    cycles,        \* cognition_cycles with their last turn and its attempts
    anchor,        \* autonomy_states.anchor_at
    owner, pc,
    at,            \* at[p]: the instant p read at the head of its loop
    faults, adminSteps     \* interruptions and changes left

authority == <<operational, inferenceBlocked, policy>>
store     == <<exploration, ordinary, cycles, anchor>>
process   == <<owner, pc, at>>
bounds    == <<faults, adminSteps>>
vars      == <<clock, authority, store, process, bounds>>

-----------------------------------------------------------------------------
(* Records *)

None  == 0      \* no grant, no cycle, no outcome
Never == 0      \* instants of the program start at 1

\* A grant and the wake that carries it.
GrantRecords == [created : Nat, notBefore : Nat, consumed : Nat,
                 status : {"pending", "claimed", "consumed", "cancelled"}]

OutcomeRecords == [kind : {"completed", "cancelled"}, grant : Nat, at : Nat, cycle : Nat]

Explorations == [present : BOOLEAN, next : Nat, managed : Nat, terminal : Nat,
                 outcome : Nat, deferred : BOOLEAN,
                 grants : Seq(GrantRecords), outcomes : Seq(OutcomeRecords)]

AttemptRecords == [status : {"started", "completed", "failed", "abandoned"}, started : Nat]

CycleRecords == [grant : Nat, wakes : SUBSET Ordinary,
                 status : {"active", "completed", "failed"},
                 started : Nat, deadline : Nat, completed : Nat, limit : Nat,
                 turn : {"prepared", "invoking", "decided", "applied", "rejected", "failed"},
                 frozen : BOOLEAN, attempts : Seq(AttemptRecords)]

Latest(s)   == s[Len(s)]
Now(p)      == clock + Skew[p]

Running == cycles # <<>> /\ Latest(cycles).status = "active"

RunAllowed == operational = "active" /\ ~inferenceBlocked

\* current_exploration_denial: only an enabled policy is no reason to deny.
Enabled == policy = "enabled"

-----------------------------------------------------------------------------
(* Checks the code makes of its own tables *)

CyclesOf(g, all) == {c \in DOMAIN all : all[c].grant = g}

\* get_cycle_exploration: the limits of a cycle lie within those of its grant.
WithinGrant(s, c) ==
    /\ c.limit \in 1 .. MaxAttempts
    /\ c.started >= s.grants[c.grant].notBefore
    /\ c.deadline > c.started /\ c.deadline <= c.started + MaxSeconds
    /\ c.wakes = {}

Live(s) == {g \in DOMAIN s.grants : s.grants[g].status \in {"pending", "claimed"}}

Completions(s) == {k \in DOMAIN s.outcomes : s.outcomes[k].kind = "completed"}

\* The retained pointers are the last outcome and the last cycle accounted for.
PointersValid(s, all) ==
    /\ s.outcome = Len(s.outcomes)
    /\ s.terminal = IF Completions(s) = {} THEN None
                    ELSE s.outcomes[Max(Completions(s))].cycle
    /\ s.terminal # None =>
        LET c == all[s.terminal]
        IN  /\ c.status # "active" /\ c.grant # None /\ WithinGrant(s, c)
            /\ s.grants[c.grant].status = "consumed"
            /\ s.grants[c.grant].consumed = c.completed
            /\ s.outcomes[Max(Completions(s))].grant = c.grant
            /\ s.outcomes[Max(Completions(s))].at = c.completed
    /\ s.outcome # None => s.next >= Latest(s.outcomes).at + Cadence

\* get_exploration_grant and after: the managed grant is pending, or has the cycle its status calls for.
ManagedValid(s, all, finishing) ==
    LET g == s.grants[s.managed]
    IN  /\ g.notBefore >= g.created
        /\ g.status \in {"pending", "claimed"} => g.notBefore >= s.next
        /\ g.status \in {"claimed", "consumed"} =>
            \E c \in DOMAIN all :
                /\ CyclesOf(s.managed, all) = {c} /\ WithinGrant(s, all[c])
                /\ IF g.status = "claimed" THEN all[c].status = "active"
                   ELSE /\ all[c].status # "active" /\ all[c].completed = g.consumed
                        /\ \/ finishing
                           \/ /\ s.deferred
                              /\ \E k \in Completions(s) : s.outcomes[k].grant = s.managed

\* validate_exploration_state
StateValid(s, all, finishing) ==
    /\ Live(s) \subseteq {s.managed}
    /\ IF s.present
       THEN PointersValid(s, all) /\ (s.managed # None => ManagedValid(s, all, finishing))
       ELSE s.grants = <<>>

\* A plausible bug: the clock is not compared with what is retained.
AnyClock(s, now) == TRUE

\* _clock: an instant before what is retained is refused.
ClockValid(s, now) ==
    /\ now >= IF s.outcomes = <<>> THEN s.next ELSE Latest(s.outcomes).at
    /\ s.managed # None => now >= s.grants[s.managed].created

-----------------------------------------------------------------------------
(* The allowance *)

\* _cancel: a grant withdrawn before it was used costs its cadence all the same.
Cancelled(s, now) ==
    [s EXCEPT !.grants[s.managed].status = "cancelled",
              !.next = Max({@, s.grants[s.managed].notBefore, now + Cadence}),
              !.outcomes = Append(@, [kind |-> "cancelled", grant |-> s.managed,
                                      at |-> now, cycle |-> None]),
              !.outcome = Len(s.outcomes) + 1, !.managed = None, !.deferred = FALSE]

Granted(s, now) ==
    [s EXCEPT !.grants = Append(@, [created |-> now, notBefore |-> Max({now, s.next}),
                                    consumed |-> Never, status |-> "pending"]),
              !.managed = Len(s.grants) + 1, !.deferred = FALSE]

\* A plausible bug: a consumed grant keeps its place.
MaterializedOnce(s, now) ==
    IF s.managed = None /\ Enabled THEN Granted(s, now) ELSE s

\* _materialize: withdraw what policy no longer grants, or grant anew.
Materialized(s, now) ==
    LET held == IF s.managed = None THEN "none" ELSE s.grants[s.managed].status
        free == IF held = "pending" THEN Cancelled(s, now) ELSE [s EXCEPT !.managed = None]
    IN  IF held = "claimed" \/ (held = "pending" /\ Enabled) THEN s
        ELSE IF Enabled THEN Granted(free, now)
        ELSE [free EXCEPT !.deferred = FALSE]

Materializable == RunAllowed /\ policy # "invalid"

FirstState(now) ==
    [present |-> TRUE, next |-> now, managed |-> None, terminal |-> None,
     outcome |-> None, deferred |-> TRUE, grants |-> <<>>, outcomes |-> <<>>]

\* A plausible bug: under a disabled policy there is nothing to do.
EnsuredIfEnabled(now) ==
    IF Running \/ ~Materializable \/ ~Enabled THEN exploration
    ELSE Materialized(IF exploration.present THEN exploration ELSE FirstState(now), now)

\* ensure_exploration, once its checks have passed.
Ensured(now) ==
    IF Running \/ ~Materializable \/ (~exploration.present /\ ~Enabled) THEN exploration
    ELSE Materialized(IF exploration.present THEN exploration ELSE FirstState(now), now)

Completed(s, c, g, now) ==
    [s EXCEPT !.next = now + Cadence, !.terminal = c, !.deferred = TRUE,
              !.outcomes = Append(@, [kind |-> "completed", grant |-> g,
                                      at |-> now, cycle |-> c]),
              !.outcome = Len(s.outcomes) + 1]

\* record_exploration_outcome, once its checks have passed.
Accounted(s, c, g, now) ==
    IF Materializable THEN Materialized(Completed(s, c, g, now), now)
    ELSE Completed(s, c, g, now)

-----------------------------------------------------------------------------
(* Runs.  What Ownership and Cognition say of processes is taken from there: *)
(* at most one acts, and one that lost its session commits nothing more.     *)

Goto(p, place) == pc' = [pc EXCEPT ![p] = place]
Owns(p, place) == owner = p /\ pc[p] = place

Leave(p) == /\ owner' = NoRuntime /\ Goto(p, "idle")
            /\ at' = [at EXCEPT ![p] = Never]

\* The run returns, or its transaction is rolled back: nothing is written.
RunEnds(p) == Leave(p) /\ UNCHANGED <<clock, authority, store, bounds>>

Acquire(p) ==
    /\ owner = NoRuntime /\ pc[p] = "idle"
    /\ owner' = p /\ Goto(p, "ready")
    /\ UNCHANGED <<clock, authority, store, at, bounds>>

\* A crash, a lost session or a failed transaction, at any point.
Interrupted(p) ==
    /\ owner = p /\ faults > 0
    /\ faults' = faults - 1
    /\ Leave(p)
    /\ UNCHANGED <<clock, authority, store, adminSteps>>

\* ensure_heartbeat and ensure_exploration refuse a clock that is behind.
Startable(now) ==
    /\ RunAllowed /\ now >= anchor
    /\ StateValid(exploration, cycles, FALSE)
    /\ exploration.present => ClockValid(exploration, now)

StartFails(p) == Owns(p, "ready") /\ ~Startable(Now(p)) /\ RunEnds(p)

Starts(p) == Owns(p, "ready") /\ Startable(Now(p))

Resume(p) ==
    /\ Starts(p) /\ Running
    /\ Goto(p, "loop")
    /\ UNCHANGED <<clock, authority, store, owner, at, bounds>>

DueOrdinary(now) == {w \in Ordinary : ordinary[w].status = "pending" /\ ordinary[w].due <= now}

\* discover_exploration: the managed grant, if it may be used now.
Eligible(s, now) ==
    {g \in Live(s) : s.grants[g].status = "pending"
                     /\ s.next <= s.grants[g].notBefore /\ s.grants[g].notBefore <= now
                     /\ Enabled /\ RunAllowed}

\* Nothing is due; or the earliest ordinary wake is locked by some session,
\* which lets no other class overtake it.
Idle(p) ==
    /\ Starts(p) /\ ~Running
    /\ exploration' = Ensured(Now(p))
    /\ DueOrdinary(Now(p)) # {} \/ Eligible(exploration', Now(p)) = {}
    /\ Leave(p)
    /\ UNCHANGED <<clock, authority, ordinary, cycles, anchor, bounds>>

NewCycle(g, W, now, attempts, seconds) ==
    [grant |-> g, wakes |-> W, status |-> "active", started |-> now,
     deadline |-> now + seconds, completed |-> Never, limit |-> attempts,
     turn |-> "prepared", frozen |-> FALSE, attempts |-> <<>>]

StartCycle(p, c) ==
    /\ cycles' = Append(cycles, c)
    /\ Goto(p, "loop")
    /\ UNCHANGED <<clock, authority, anchor, owner, at, bounds>>

\* How a batch is chosen among the due wakes is the module Cognition.
ClaimOrdinary(p) ==
    /\ Starts(p) /\ ~Running
    /\ exploration' = Ensured(Now(p))
    /\ \E W \in SUBSET DueOrdinary(Now(p)) \ {{}} :
        /\ ordinary' = [w \in Ordinary |-> IF w \in W
                                           THEN [ordinary[w] EXCEPT !.status = "claimed"]
                                           ELSE ordinary[w]]
        /\ StartCycle(p, NewCycle(None, W, Now(p), Limits[p].attempts, Limits[p].seconds))

\* A grant is used only when no ordinary wake is due, locked or not.
NothingElseDue(now) == DueOrdinary(now) = {}

ClaimGrant(p) ==
    /\ Starts(p) /\ ~Running /\ NothingElseDue(Now(p))
    /\ \E g \in Eligible(Ensured(Now(p)), Now(p)) :
        /\ exploration' = [Ensured(Now(p)) EXCEPT !.grants[g].status = "claimed"]
        /\ StartCycle(p, NewCycle(g, {}, Now(p), Min({Limits[p].attempts, MaxAttempts}),
                                                 Min({Limits[p].seconds, MaxSeconds})))
    /\ UNCHANGED ordinary

-----------------------------------------------------------------------------
(***************************************************************************)
(* The loop of a run.  finish_cycle consumes the wakes and accounts for    *)
(* heartbeat and exploration; where one of them refuses, everything its    *)
(* transaction wrote is lost with it.                                      *)
(***************************************************************************)

Consumed(s, c, now) ==
    IF c.grant = None THEN s
    ELSE [s EXCEPT !.grants[c.grant].status = "consumed", !.grants[c.grant].consumed = now]

Finish(p, c, status, now) ==
    LET all == [cycles EXCEPT ![Len(cycles)] =
                    [c EXCEPT !.status = status, !.completed = now]]
        s   == Consumed(exploration, c, now)
    IN  IF /\ now >= anchor
           /\ StateValid(s, all, TRUE)
           /\ c.grant # None => s.managed = c.grant /\ ClockValid(s, now)
        THEN /\ cycles' = all
             /\ anchor' = now
             /\ exploration' = IF c.grant = None THEN s
                               ELSE Accounted(s, Len(cycles), c.grant, now)
             /\ ordinary' = [w \in Ordinary |-> IF w \in c.wakes
                                                THEN [ordinary[w] EXCEPT !.status = "consumed"]
                                                ELSE ordinary[w]]
             /\ Goto(p, "loop")
             /\ UNCHANGED <<clock, authority, owner, at, bounds>>
        ELSE RunEnds(p)

Replace(c) == cycles' = [cycles EXCEPT ![Len(cycles)] = c]

Continue(p, c, place) ==
    /\ Replace(c) /\ Goto(p, place)
    /\ UNCHANGED <<clock, authority, exploration, ordinary, anchor, owner, bounds>>

Exploring(p, place) == Owns(p, place) /\ Running /\ Latest(cycles).grant # None

LeaveLoop(p) ==
    /\ Owns(p, "loop")
    /\ ~Running \/ ~RunAllowed
    /\ RunEnds(p)

\* An ordinary cycle ends, however it does, or its run leaves it active.
OrdinaryCycle(p) ==
    /\ Owns(p, "loop") /\ Running /\ Latest(cycles).grant = None
    /\ \/ \E status \in {"completed", "failed"} :
              Finish(p, Latest(cycles), status, Now(p))
       \/ RunEnds(p)

\* Its one turn decided, the cycle ends whatever the decision says: a request
\* for wakes, or anything else the validation refuses, has it rejected.
Apply(p) ==
    /\ Exploring(p, "loop") /\ RunAllowed
    /\ Latest(cycles).turn = "decided"
    /\ \/ Finish(p, [Latest(cycles) EXCEPT !.turn = "applied"], "completed", Now(p))
       \/ Finish(p, [Latest(cycles) EXCEPT !.turn = "rejected"], "failed", Now(p))

\* Attempts a predecessor left started are given up.
Abandon(c) == [c EXCEPT !.attempts = [k \in DOMAIN @ |->
                  IF @[k].status = "started" THEN [@[k] EXCEPT !.status = "abandoned"]
                  ELSE @[k]]]

\* Plausible bugs: policy is not looked at; whoever continues a cycle goes by
\* its own limits, not by those the cycle was claimed with.
SpentWithoutDenial(c, now) == Len(c.attempts) >= c.limit \/ now >= c.deadline
SpentByOwnLimits(c, now) ==
    \/ Len(c.attempts) >= Min({Limits[owner].attempts, MaxAttempts})
    \/ now >= c.started + Min({Limits[owner].seconds, MaxSeconds})
    \/ ~Enabled

Spent(c, now) == Len(c.attempts) >= c.limit \/ now >= c.deadline \/ ~Enabled

\* settle_invocation_budget at the head of the loop.
Settle(p) ==
    LET c == Abandon(Latest(cycles))
    IN  /\ Exploring(p, "loop") /\ RunAllowed
        /\ c.turn \in {"prepared", "invoking"}
        /\ IF Spent(c, Now(p))
           THEN Finish(p, [c EXCEPT !.turn = "failed"], "failed", Now(p))
           ELSE /\ Continue(p, c, "freeze")
                /\ at' = [at EXCEPT ![p] = Now(p)]

\* The request is frozen with the clock of the loop and no look at policy.
Freeze(p) ==
    /\ Exploring(p, "freeze")
    /\ Continue(p, [Latest(cycles) EXCEPT !.frozen = TRUE], "invoke")
    /\ at' = [at EXCEPT ![p] = Never]

\* The mandatory context is beyond the budget.
CannotFreeze(p) ==
    /\ Exploring(p, "freeze") /\ ~Latest(cycles).frozen
    /\ Finish(p, [Latest(cycles) EXCEPT !.turn = "failed"], "failed", at[p])

\* Execution is not allowed, or the runtime has no model for the request.
InvokeBlocked(p) == Exploring(p, "invoke") /\ RunEnds(p)

Invoke(p) ==
    LET c == Abandon(Latest(cycles))
    IN  /\ Exploring(p, "invoke") /\ RunAllowed
        /\ IF Spent(c, Now(p))
           THEN Finish(p, [c EXCEPT !.turn = "failed"], "failed", Now(p))
           ELSE /\ Continue(p, [c EXCEPT !.turn = "invoking",
                                         !.attempts = Append(@, [status |-> "started",
                                                                 started |-> Now(p)])], "call")
                /\ UNCHANGED at

Answered(status) == [Latest(cycles) EXCEPT !.attempts[Len(Latest(cycles).attempts)].status = status]

\* A provider error, an invalid result, or one worth another attempt.
AttemptFails(p) ==
    /\ Exploring(p, "call")
    /\ Continue(p, Answered("failed"), "loop")
    /\ UNCHANGED at

\* A refusal, or a decision recorded before.
Refused(p) ==
    /\ Exploring(p, "call")
    /\ Finish(p, [Answered("failed") EXCEPT !.turn = "failed"], "failed", Now(p))

Decide(p) ==
    /\ Exploring(p, "call")
    /\ Continue(p, [Answered("completed") EXCEPT !.turn = "decided"], "loop")
    /\ UNCHANGED at

-----------------------------------------------------------------------------
(* The other actors *)

AdminStep == /\ adminSteps > 0 /\ adminSteps' = adminSteps - 1
             /\ UNCHANGED <<clock, store, process, faults>>

\* set_internal_exploration: also while paused, and to repair an invalid policy.
SetPolicy ==
    /\ AdminStep
    /\ policy' \in {"enabled", "disabled"}
    /\ UNCHANGED <<operational, inferenceBlocked>>

ChangeLifecycle ==
    /\ AdminStep
    /\ \E op \in {"pause", "resume"}, s \in Statuses :
        <<operational, op, s>> \in Transitions /\ operational' = s
    /\ UNCHANGED <<inferenceBlocked, policy>>

UpdateGovernance ==
    /\ AdminStep
    /\ inferenceBlocked' = ~inferenceBlocked
    /\ UNCHANGED <<operational, policy>>

PostOrdinary ==
    /\ \E w \in Ordinary :
        /\ ordinary[w].status = "none"
        /\ ordinary' = [ordinary EXCEPT ![w] = [status |-> "pending", due |-> clock]]
    /\ UNCHANGED <<clock, authority, exploration, cycles, anchor, process, bounds>>

Tick ==
    /\ clock < Horizon
    /\ clock' = clock + 1
    /\ UNCHANGED <<authority, store, process, bounds>>

-----------------------------------------------------------------------------
(* The specification *)

\* Birth takes any budget policy, the malformed included.
Begins(scene) ==
    /\ clock = 1
    /\ operational = "active" /\ inferenceBlocked = FALSE
    /\ policy = scene.policy
    /\ exploration = [FirstState(Never) EXCEPT !.present = FALSE, !.deferred = FALSE]
    /\ ordinary = [w \in Ordinary |-> [status |-> IF w \in scene.wakes THEN "none" ELSE "consumed",
                                      due |-> 0]]
    /\ cycles = <<>> /\ anchor = Never
    /\ owner = NoRuntime
    /\ pc = [p \in Runtimes |-> IF p \in scene.hosts THEN "idle" ELSE "away"]
    /\ at = [p \in Runtimes |-> Never]
    /\ faults = scene.faults /\ adminSteps = scene.adminSteps

Init == \E scene \in Scenes : Begins(scene)

Start(p) == StartFails(p) \/ Resume(p) \/ Idle(p) \/ ClaimOrdinary(p) \/ ClaimGrant(p)

Loop(p) == LeaveLoop(p) \/ OrdinaryCycle(p) \/ Apply(p) \/ Settle(p)

Invocation(p) == Freeze(p) \/ CannotFreeze(p) \/ InvokeBlocked(p) \/ Invoke(p)
                 \/ AttemptFails(p) \/ Refused(p) \/ Decide(p)

Run(p) == Acquire(p) \/ Start(p) \/ Loop(p) \/ Invocation(p)

Administer == SetPolicy \/ ChangeLifecycle \/ UpdateGovernance

Next == \/ \E p \in Runtimes : Run(p) \/ Interrupted(p)
        \/ Administer \/ PostOrdinary \/ Tick

Spec == Init /\ [][Next]_vars

(***************************************************************************)
(* The operator keeps starting every runtime, a run goes on, time passes,  *)
(* and a cycle that is resumed again and again ends (CycleTerminates of    *)
(* CognitionProperties).                                                   *)
(***************************************************************************)
Fairness == /\ \A p \in Runtimes : SF_vars(Acquire(p))
            /\ WF_vars(\E p \in Runtimes : Run(p))
            /\ SF_vars(\E p \in Runtimes : ClaimOrdinary(p) \/ (OrdinaryCycle(p) /\ ~Running'))
            /\ WF_vars(Tick)

FairSpec == Spec /\ Fairness

-----------------------------------------------------------------------------
(* Properties *)

TypeOK ==
    /\ clock \in Nat
    /\ operational \in Statuses /\ inferenceBlocked \in BOOLEAN
    /\ policy \in Policies
    /\ exploration \in Explorations
    /\ ordinary \in [Ordinary -> [status : {"none", "pending", "claimed", "consumed"},
                                  due : Nat]]
    /\ cycles \in Seq(CycleRecords) /\ anchor \in Nat
    /\ owner \in Runtimes \cup {NoRuntime}
    /\ pc \in [Runtimes -> {"away", "idle", "ready", "loop", "freeze", "invoke", "call"}]
    /\ at \in [Runtimes -> Nat]
    /\ faults \in Nat /\ adminSteps \in Nat

Outcomes(g) == {k \in DOMAIN exploration.outcomes : exploration.outcomes[k].grant = g}

\* db/exploration_checks.py, exploration_state, exploration_cycle and
\* exploration_outcome: the state always passes the validation that every run
\* makes before anything else, and a grant has exactly the outcome and the cycle
\* its status calls for, one that is pending neither.  Were it
\* otherwise the individual could never run again.
ExplorationConsistent ==
    /\ TypeOK
    /\ StateValid(exploration, cycles, FALSE)
    /\ \A g \in DOMAIN exploration.grants :
        LET grant == exploration.grants[g]
        IN  IF grant.status \in {"consumed", "cancelled"}
            THEN \E k \in DOMAIN exploration.outcomes :
                    LET o == exploration.outcomes[k]
                    IN  /\ Outcomes(g) = {k} /\ o.at >= grant.created
                        /\ IF grant.status = "consumed"
                           THEN /\ o.kind = "completed" /\ CyclesOf(g, cycles) = {o.cycle}
                                /\ o.at = cycles[o.cycle].completed
                           ELSE o.kind = "cancelled" /\ CyclesOf(g, cycles) = {}
            ELSE /\ Outcomes(g) = {}
                 /\ IF grant.status = "pending" THEN CyclesOf(g, cycles) = {}
                    ELSE \E c \in DOMAIN cycles :
                             CyclesOf(g, cycles) = {c} /\ cycles[c].status = "active"

\* An exploration starts a full cadence after whatever became of every earlier
\* grant, used or withdrawn.
CadenceKept ==
    \A c \in {x \in DOMAIN cycles : cycles[x].grant # None} :
        \A k \in DOMAIN exploration.outcomes :
            exploration.outcomes[k].grant < cycles[c].grant =>
                cycles[c].started >= exploration.outcomes[k].at + Cadence

\* domain/exploration.py, CADENCE_SECONDS, MAX_ATTEMPTS and MAX_SECONDS, and
\* db/exploration_checks.py, _check_attempts: whoever disables and enables the
\* policy, pauses or blocks meanwhile, a cadence passes between grants, and a
\* grant buys one cycle, claimed with limits within those of the grant.  However
\* many runtimes continue that cycle, and whatever more they would allow
\* themselves, it makes no more attempts than it was claimed with and none from
\* its deadline on, one at a time.
AllowanceKept ==
    /\ CadenceKept
    /\ \A c \in {x \in DOMAIN cycles : cycles[x].grant # None} :
        /\ CyclesOf(cycles[c].grant, cycles) = {c}
        /\ WithinGrant(exploration, cycles[c])
        /\ Len(cycles[c].attempts) <= cycles[c].limit
        /\ \A k \in DOMAIN cycles[c].attempts :
            /\ cycles[c].attempts[k].started < cycles[c].deadline
            /\ cycles[c].attempts[k].status = "started" => k = Len(cycles[c].attempts)

\* runtime/exploration_admin.py: a withdrawn policy denies new starts, of a cycle
\* and of every further attempt, and so does a pause; an exploration never
\* overtakes an ordinary wake that is due, not even one that is locked.
StartsOnlyWhenAllowed ==
    [][/\ Len(cycles') > Len(cycles) /\ Latest(cycles').grant # None =>
            /\ Enabled /\ RunAllowed
            /\ \A w \in Ordinary : ordinary[w].status = "pending" =>
                   ordinary[w].due > Latest(cycles').started
       /\ \A c \in DOMAIN cycles :
            cycles[c].grant # None /\ Len(cycles'[c].attempts) > Len(cycles[c].attempts) =>
                Enabled /\ RunAllowed]_vars

\* A policy disabled for good leaves no grant behind: what is pending is
\* withdrawn and what is claimed ends.
DenialSettles ==
    <>[](policy = "disabled" /\ RunAllowed) => <>[](Live(exploration) = {})

\* A policy enabled for good always has a grant to come, whatever a pause, a
\* malformed policy or an interruption deferred.
AllowanceReturns ==
    <>[](Enabled /\ RunAllowed) => []<>(Live(exploration) # {})

=============================================================================
