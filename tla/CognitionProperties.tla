------------------------ MODULE CognitionProperties ------------------------
(***************************************************************************)
(* What the durable cycle of the module Cognition promises: invariants,    *)
(* action properties and liveness.                                         *)
(***************************************************************************)
EXTENDS Cognition

-----------------------------------------------------------------------------
(* Properties *)

\* The tables hold what their columns and check constraints allow.
TypeOK ==
    /\ clock \in Nat
    /\ operational \in Statuses /\ inferenceBlocked \in BOOLEAN
    /\ config \in Configs \cup {NoConfig}
    /\ wake \in [Wakes -> WakeRecords]
    /\ link \in [Wakes -> {NoCycle} \cup Cycles]
    /\ cycle \in [Cycles -> CycleRecords]
    /\ turn \in [Cycles -> Seq(TurnRecords)]
    /\ applied \in [Ops -> AppliedRecords \cup {NotApplied}]
    /\ attention \in AttentionRecords
    /\ heartbeat \in HeartbeatRecords
    /\ owner \in Runtimes \cup {NoRuntime}
    /\ pc \in [Runtimes -> Places]
    /\ local \in [Runtimes -> LocalRecords]
    /\ faults \in Nat /\ adminSteps \in Nat

\* A wake a cycle took is claimed while that cycle is active and consumed once it
\* is finished; no two cycles are active and none is active without a wake.
ClaimsFollowCycle ==
    /\ Cardinality(ActiveCycles) <= 1
    /\ \A c \in ActiveCycles : \E w \in Wakes : link[w] = c
    /\ \A w \in Wakes :
        IF link[w] = NoCycle THEN wake[w].status # "consumed"
        ELSE wake[w].status =
                 IF cycle[link[w]].status = "active" THEN "claimed" ELSE "consumed"

\* db/checks.py, cycle_active_turn, invocation_turn, invocation_result and
\* claimed_wake_cycle: its wakes follow a cycle, whatever way it finished, and
\* whatever was interrupted, an active cycle has exactly one unfinished turn,
\* its latest, and a finished cycle has none; every turn before the latest was
\* applied.  An attempt in progress is the last one of an invoking turn, and a
\* turn carries a decision exactly when its last attempt completed, against a
\* context frozen before.
CyclesConsistent ==
    /\ ClaimsFollowCycle
    /\ \A c \in Cycles :
        /\ cycle[c].status = "active" => turn[c] # <<>>
        /\ \A o \in DOMAIN turn[c] :
            LET t == turn[c][o]
            IN  /\ t.status \in Unfinished <=> cycle[c].status = "active" /\ o = Latest(c)
                /\ o < Latest(c) => t.status = "applied"
                /\ \A i \in DOMAIN t.attempts :
                    /\ t.attempts[i] = "started" =>
                           i = Len(t.attempts) /\ t.status = "invoking"
                    /\ t.attempts[i] = "completed" =>
                           i = Len(t.attempts) /\ t.decision # NoDecision
                    /\ t.context # NoConfig
                /\ t.decision # NoDecision <=> t.status \in {"decided", "applied", "rejected"}
                /\ t.decision # NoDecision =>
                       t.attempts # <<>> /\ t.attempts[Len(t.attempts)] = "completed"

\* The limits persisted with a cycle hold across crashes, failovers and
\* runtimes constructed with other limits: attempts per turn, turns and wakes.
WithinLimits ==
    \A c \in Cycles :
        /\ Latest(c) <= cycle[c].limits.turns
        /\ \A o \in DOMAIN turn[c] :
               Len(turn[c][o].attempts) <= cycle[c].limits.attempts
        /\ Cardinality({w \in Wakes : link[w] = c}) <= cycle[c].limits.wakes

\* The applied turns of every cycle.
Enacted == {p \in UNION {{c} \X DOMAIN turn[c] : c \in Cycles} :
                turn[p[1]][p[2]].status = "applied"}

\* Application is atomic and happens once: an operation is recorded for a turn
\* exactly when that turn is applied and its decision carries it, and the
\* attention row has been advanced once per applied turn.
AppliedExactlyOnce ==
    /\ \A c \in Cycles : \A o \in DOMAIN turn[c] :
        {op \in Ops : applied[op].cycle = c /\ applied[op].ordinal = o} =
            IF turn[c][o].status = "applied" THEN Operations(turn[c][o].decision) ELSE {}
    /\ attention.revision = IF Enacted = {} THEN 0 ELSE 1 + Cardinality(Enacted)

\* Between cycles the managed heartbeat is pending or its materialization is
\* deferred; it is the only live one and due when the retained policy says.
HeartbeatKept ==
    /\ \A w \in Wakes : wake[w].kind = "heartbeat" /\ wake[w].status \in {"pending", "claimed"}
                            => w = heartbeat.managed
    /\ ActiveCycles = {} /\ ~heartbeat.pending =>
        /\ wake[heartbeat.managed].status = "pending"
        /\ wake[heartbeat.managed].due =
               Schedule(Policy[heartbeat.config], heartbeat.anchor,
                        heartbeat.interval, NoDeadline)

\* docs/autonomy.md, one durable managed heartbeat: nothing a run, a pause, a
\* crash or a configuration change leaves behind loses it or moves it, or makes
\* the next run refuse the scheduler state (the ValueErrors of _state).
SchedulerConsistent ==
    heartbeat.exists => HeartbeatKept /\ SchedulerValid(wake, cycle, heartbeat, FALSE)

\* What a running owner remembers between two transactions still holds in the
\* database when it uses it: nobody else touched its cycle, turn or attempt.
MemoryIsCurrent ==
    \A r \in Runtimes :
        owner = r /\ pc[r] \in {"freeze", "invoke", "call"} =>
            /\ cycle[Held(r)].status = "active"
            /\ local[r].ordinal = Latest(Held(r))
            /\ pc[r] = "freeze" => Turn(r).status \in {"prepared", "invoking"}
            /\ pc[r] # "freeze" => Turn(r).context # NoConfig
            /\ pc[r] = "call" => /\ local[r].attempt = Len(Turn(r).attempts)
                                 /\ InProgress(r)

-----------------------------------------------------------------------------
(* Action properties *)

Same(c, o) == turn'[c][o] = turn[c][o]

\* A committed decision is never resampled, replaced or reopened: it stays as
\* recorded, and a finished turn stays as it is.
DecisionNeverResampled ==
    [][\A c \in Cycles : \A o \in DOMAIN turn[c] :
        /\ o \in DOMAIN turn'[c]
        /\ turn[c][o].decision # NoDecision =>
               /\ turn'[c][o].decision = turn[c][o].decision
               /\ turn'[c][o].attempts = turn[c][o].attempts
        /\ turn[c][o].status \in Finished => Same(c, o)]_vars

\* A frozen request survives retries, failovers and configuration changes.
ContextStaysFrozen ==
    [][\A c \in Cycles : \A o \in DOMAIN turn[c] :
        turn[c][o].context # NoConfig => turn'[c][o].context = turn[c][o].context]_vars

Attempts(t) == Len(t.attempts)

\* docs/autonomy.md, a pause prevents wake creation and retiming, new claims,
\* new inference and application: no step of a runtime takes any of them while
\* execution is blocked.
PauseHonoured ==
    [][~Allowed =>
        /\ link' = link /\ applied' = applied /\ attention' = attention
        /\ \A w \in Wakes : wake[w].kind = "heartbeat" \/ wake'[w].kind = "heartbeat"
                            => wake'[w].due = wake[w].due
        /\ \A c \in Cycles :
            /\ Len(turn'[c]) = Len(turn[c])
            /\ \A o \in DOMAIN turn[c] : Len(turn'[c][o].attempts) = Len(turn[c][o].attempts)]_vars

-----------------------------------------------------------------------------
(* Liveness *)

\* Once execution is allowed for good, every claimed cycle ends, however often
\* the model fails, is missing or is bound to another configuration.
CycleTerminates ==
    <>[]Allowed => []<>(\A c \in Cycles : cycle[c].status # "active")

\* A materialization deferred by a pause is made up for after the resume.
HeartbeatResumes ==
    <>[](Allowed /\ config # NoConfig) => []<>(heartbeat.exists => ~heartbeat.pending)

=============================================================================
