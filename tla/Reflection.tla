----------------------------- MODULE Reflection -----------------------------
(***************************************************************************)
(* Daily reflection: interpretations of itself that the individual has     *)
(* staged (candidate interests, tentative preferences, pending beliefs and *)
(* values) are put before it again in bounded batches, one live batch at a *)
(* time, a day apart, in rotation (stores/reflection.py,                   *)
(* stores/reflection_scope.py, stores/reflection_candidates.py, and what   *)
(* stores/development.py and stores/cognition.py do to their targets).     *)
(*                                                                         *)
(* One runtime owns the individual at a time.  It may be interrupted       *)
(* between any two of its transactions, and lifecycle and governance       *)
(* change there too.  The inside of a cycle is the module Cognition.       *)
(***************************************************************************)
EXTENDS Naturals, Sequences, FiniteSetsExt

CONSTANTS
    Runtimes, NoRuntime,
    Skew,              \* Skew[p]: how far the clock of p's host runs ahead
    Identities,        \* Identities[f]: bound on the rows of a family
    Subjects,          \* sets of targets that wakes other than batches are about
    BatchLimit,        \* REFLECTION_BATCH_LIMIT
    Day,               \* _CADENCE and _DAY, both 24 hours
    Horizon,           \* bound: the last instant of the true clock
    MaxCycles,         \* bound: cycles
    MaxAdminSteps      \* bound: changes by administrators

Families == {"interest", "preference", "self_state"}
Targets  == UNION {{f} \X (1 .. Identities[f]) : f \in Families}

ASSUME RuntimeAssumption == NoRuntime \notin Runtimes /\ Skew \in [Runtimes -> Nat]
ASSUME TargetAssumption  == /\ Identities \in [Families -> Nat]
                            /\ Subjects \subseteq SUBSET Targets
ASSUME ScheduleAssumption == Day \in Nat \ {0} /\ BatchLimit \in Nat \ {0}
ASSUME ReflectionBounds == Horizon \in Nat /\ MaxCycles \in Nat /\ MaxAdminSteps \in Nat

VARIABLES
    clock,
    allowed,       \* operational_state is active and inference is not blocked
    target,        \* interests, preferences and self_states
    reflection,    \* reflection_state, and the batches with their wakes and events
    cycles,        \* cognition_cycles
    about,         \* what the running cycle attends to besides a batch
    anchor,        \* autonomy_states.anchor_at
    owner,         \* the runtime in the loop of a cycle
    adminSteps

store == <<target, reflection, cycles, about, anchor>>
vars  == <<clock, allowed, store, owner, adminSteps>>

-----------------------------------------------------------------------------
(* Records *)

None  == 0      \* no batch, no cycle, no cursor
Never == 0      \* instants of the program start at 1

TargetRecords == [status : {"none", "staged", "settled"}, eligible : Nat]

\* A batch, its wake and whether its completion was recorded.
BatchRecords == [refs : Seq(Targets), selected : Nat, floor : Nat, due : Nat,
                 consumed : Nat, accounted : BOOLEAN,
                 status : {"pending", "claimed", "consumed", "cancelled"}]

Reflections == [present : BOOLEAN, next : Nat, managed : Nat, last : Nat,
                pending : BOOLEAN, cursor : [Families -> Nat], batches : Seq(BatchRecords)]

CycleRecords == [batch : Nat, completed : Nat, status : {"active", "completed", "failed"}]

Latest(s) == s[Len(s)]
Running   == cycles # <<>> /\ Latest(cycles).status = "active"

\* Bound: no clock reads past the horizon, where time ends for all of them.
Now(p) == Min({clock + Skew[p], Horizon})

Staged(tg) == {t \in Targets : tg[t].status = "staged"}

-----------------------------------------------------------------------------
(* Checks the code makes of its own tables *)

Live(s) == {b \in DOMAIN s.batches : s.batches[b].status \in {"pending", "claimed"}}

CyclesOf(b, all) == {c \in DOMAIN all : all[c].batch = b}

\* The retained cadence is that of the last cycle accounted for.
CadenceValid(s, all) ==
    s.last # None => /\ all[s.last].status # "active"
                     /\ s.next = all[s.last].completed + Day

\* managed_reflection_scope and after: the timing of the managed batch, and the
\* cycle its status calls for.
ManagedValid(s, all, finishing) ==
    LET b == s.batches[s.managed]
    IN  /\ b.due >= b.floor
        /\ b.status \in {"pending", "claimed"} => b.due >= s.next
        /\ b.status = "claimed" =>
               \E c \in CyclesOf(s.managed, all) : all[c].status = "active"
        /\ b.status = "consumed" =>
               /\ finishing \/ (s.pending /\ b.accounted)
               /\ \E c \in DOMAIN all :
                      /\ CyclesOf(s.managed, all) = {c} /\ all[c].status # "active"
                      /\ all[c].completed = b.consumed

\* validate_reflection_state
StateValid(s, all, finishing) ==
    IF s.present
    THEN /\ Live(s) \subseteq {s.managed}
         /\ CadenceValid(s, all)
         /\ s.managed # None => ManagedValid(s, all, finishing)
    ELSE Live(s) = {}

\* _validate_clock: an instant before what is retained is refused.
ClockValid(s, all, now) ==
    /\ now >= IF s.last = None THEN s.next ELSE all[s.last].completed
    /\ s.managed # None => now >= s.batches[s.managed].selected

-----------------------------------------------------------------------------
(* Selection *)

\* A family is read from after its cursor and then from its start.
Before(u, t, cursor) ==
    IF (u[2] > cursor) = (t[2] > cursor) THEN u[2] < t[2] ELSE u[2] > cursor

FamilyOrder(f) == CASE f = "interest" -> 0 [] f = "preference" -> 1 [] f = "self_state" -> 2

\* A plausible bug: every batch starts with the first row.
TurnFromStart(t, S, cursor) ==
    Cardinality({u \in S : u[1] = t[1] /\ u[2] < t[2]}) * 3 + FamilyOrder(t[1])

\* When t gets its slot: families take turns, each in the order of its pool.
Turn(t, S, cursor) ==
    Cardinality({u \in S : u[1] = t[1] /\ Before(u, t, cursor[t[1]])}) * 3
        + FamilyOrder(t[1])

\* select_reflection_candidates
Select(tg, due, cursor) ==
    LET eligible  == {t \in Staged(tg) : tg[t].eligible <= due}
        Earlier(t) == {u \in eligible : Turn(u, eligible, cursor) < Turn(t, eligible, cursor)}
    IN  [n \in 1 .. Min({BatchLimit, Cardinality(eligible)}) |->
            CHOOSE t \in eligible : Cardinality(Earlier(t)) = n - 1]

\* earliest_reflection_eligibility, where something is staged
Earliest(tg) == Min({tg[t].eligible : t \in Staged(tg)})

-----------------------------------------------------------------------------
(* The schedule *)

NewBatch(s, tg, now) ==
    LET due  == Max({now, Earliest(tg), s.next})
        refs == Select(tg, due, s.cursor)
    IN  [s EXCEPT !.batches = Append(@,
                      [refs |-> refs, selected |-> now, due |-> due, consumed |-> Never,
                       floor |-> Max({now} \cup {tg[refs[i]].eligible : i \in DOMAIN refs}),
                       accounted |-> FALSE, status |-> "pending"]),
                  !.managed = Len(s.batches) + 1, !.pending = FALSE]

Released(s) == [s EXCEPT !.managed = None, !.pending = FALSE]

StillPending(b, tg) == \E i \in DOMAIN b.refs : b.refs[i] \in Staged(tg)

\* A plausible bug: a batch is withdrawn only to make room for another.
ReconciledIfStaged(s, tg, now) ==
    LET held == IF s.managed = None THEN "none" ELSE s.batches[s.managed].status
    IN  IF Staged(tg) = {} \/ held \in {"pending", "claimed"} THEN s
        ELSE NewBatch(Released(s), tg, now)

\* _reconcile: a batch none of whose targets is staged any more is withdrawn,
\* at no cost; then whatever is staged gets the next one.
Reconciled(s, tg, now) ==
    LET held == IF s.managed = None THEN "none" ELSE s.batches[s.managed].status
        free == Released(IF held = "pending"
                         THEN [s EXCEPT !.batches[s.managed].status = "cancelled"] ELSE s)
    IN  IF held = "claimed" \/ (held = "pending" /\ StillPending(s.batches[s.managed], tg))
        THEN s
        ELSE IF Staged(tg) = {} THEN free ELSE NewBatch(free, tg, now)

FirstState(now) == [present |-> TRUE, next |-> now, managed |-> None, last |-> None,
                    pending |-> TRUE, cursor |-> [f \in Families |-> None],
                    batches |-> <<>>]

\* A plausible bug: what was deferred while running was not allowed is left.
EnsuredOnce(now) ==
    IF Running \/ reflection.present \/ Staged(target) = {} THEN reflection
    ELSE Reconciled(FirstState(now), target, now)

\* ensure_reflection, once its checks have passed
Ensured(now) ==
    IF Running \/ (~reflection.present /\ Staged(target) = {}) THEN reflection
    ELSE Reconciled(IF reflection.present THEN reflection ELSE FirstState(now), target, now)

\* A cursor moves to the last target of its family that was reviewed.
Moved(cursor, refs) ==
    [f \in Families |->
        LET mine == {i \in DOMAIN refs : refs[i][1] = f}
        IN  IF mine = {} THEN cursor[f] ELSE refs[Max(mine)][2]]

Completed(s, c, b, now) ==
    [s EXCEPT !.cursor = Moved(@, s.batches[b].refs), !.last = c, !.next = now + Day,
              !.pending = TRUE, !.batches[b].accounted = TRUE]

\* A plausible bug: the deferral is not marked.
AccountedQuietly(s, tg, c, b, now) ==
    LET done == [Completed(s, c, b, now) EXCEPT !.pending = FALSE]
    IN  IF allowed THEN Reconciled(done, tg, now) ELSE done

\* record_reflection_outcome, once its checks have passed
Accounted(s, tg, c, b, now) ==
    LET done == Completed(s, c, b, now)
    IN  IF allowed THEN Reconciled(done, tg, now) ELSE done

-----------------------------------------------------------------------------
(* Runs.  What Ownership and Cognition say of processes is taken from there: *)
(* at most one acts, and one that lost its session commits nothing more.  A  *)
(* run that does not get to the loop of a cycle is one step.                 *)

\* ensure_heartbeat and ensure_reflection refuse a clock that is behind.
Startable(now) ==
    /\ allowed /\ now >= anchor
    /\ StateValid(reflection, cycles, FALSE)
    /\ reflection.present => ClockValid(reflection, cycles, now)

Starts(p) == owner = NoRuntime /\ Startable(Now(p))

\* The run is refused, and returns.
Refused(p) == owner = NoRuntime /\ ~Startable(Now(p)) /\ UNCHANGED vars

Resume(p) ==
    /\ Starts(p) /\ Running
    /\ owner' = p
    /\ UNCHANGED <<clock, allowed, store, adminSteps>>

\* ensure_heartbeat, as far as reflection goes: the first start sets the anchor.
Anchored(now) == anchor' = IF anchor = Never THEN now ELSE anchor

DueBatch(s, now) == {b \in Live(s) : s.batches[b].status = "pending" /\ s.batches[b].due <= now}

\* Nothing is due; or an earlier wake is locked by some session, which nothing
\* overtakes.
Idle(p) ==
    /\ Starts(p) /\ ~Running
    /\ reflection' = Ensured(Now(p)) /\ Anchored(Now(p))
    /\ UNCHANGED <<clock, allowed, target, cycles, about, owner, adminSteps>>

\* Of the due wakes, the batch among them like any other, some are claimed
\* together; how a batch of wakes is chosen is the module Cognition.
Claim(p) ==
    /\ Starts(p) /\ ~Running /\ Len(cycles) < MaxCycles
    /\ \E s \in {Ensured(Now(p))}, A \in Subjects : \E B \in SUBSET DueBatch(s, Now(p)) :
        /\ reflection' = [s EXCEPT !.batches = [b \in DOMAIN s.batches |->
               IF b \in B THEN [s.batches[b] EXCEPT !.status = "claimed"] ELSE s.batches[b]]]
        /\ cycles' = Append(cycles, [batch |-> IF B = {} THEN None ELSE Max(B),
                                     status |-> "active", completed |-> Never])
        /\ about' = A
    /\ Anchored(Now(p)) /\ owner' = p
    /\ UNCHANGED <<clock, allowed, target, adminSteps>>

-----------------------------------------------------------------------------
(***************************************************************************)
(* The loop of a run.  finish_cycle consumes the wakes and accounts for    *)
(* heartbeat and reflection; where one of them refuses, everything its     *)
(* transaction wrote is lost with it.                                      *)
(***************************************************************************)

Consumed(s, c, now) ==
    IF c.batch = None THEN s
    ELSE [s EXCEPT !.batches[c.batch].status = "consumed", !.batches[c.batch].consumed = now]

Ended(status, now) ==
    [cycles EXCEPT ![Len(cycles)] = [@ EXCEPT !.status = status, !.completed = now]]

\* finish_heartbeat and record_reflection_outcome check before they write.
Finishable(status, now) ==
    LET c == Latest(cycles)
        s == Consumed(reflection, c, now)
    IN  /\ now >= anchor
        /\ StateValid(s, Ended(status, now), TRUE)
        /\ c.batch # None => s.managed = c.batch /\ ClockValid(s, Ended(status, now), now)

\* The run returns, crashes, loses its session or has its transaction rolled
\* back: nothing is written, and whoever comes next resumes the cycle.
LeaveLoop(p) ==
    /\ owner = p
    /\ owner' = NoRuntime
    /\ UNCHANGED <<clock, allowed, store, adminSteps>>

Finish(p, status, now, tg) ==
    LET c == Latest(cycles)
        s == Consumed(reflection, c, now)
    IN  IF Finishable(status, now)
        THEN /\ cycles' = Ended(status, now)
             /\ about' = {}
             /\ anchor' = now
             /\ target' = tg
             /\ reflection' = IF c.batch = None THEN s
                              ELSE Accounted(s, tg, Len(cycles), c.batch, now)
             /\ owner' = NoRuntime
             /\ UNCHANGED <<clock, allowed, adminSteps>>
        ELSE LeaveLoop(p)

\* _reflection: the cycle attends to a batch with the target in it, to another
\* reflection wake, or to a self-scheduled wake for this very target.
Deliberate(c, t) ==
    \/ c.batch # None /\ \E i \in DOMAIN reflection.batches[c.batch].refs :
                             reflection.batches[c.batch].refs[i] = t
    \/ t \in about

\* Creation; and for a belief or value also another proposal, at any time,
\* whose day starts anew.
Stageable(t) == target[t].status = "none" \/ t[1] = "self_state"

\* Establishment takes a day and deliberation; the first status of an interest
\* or preference may be retired from at any time.
Settleable(t, c, now) ==
    /\ target[t].status = "staged"
    /\ t[1] # "self_state" \/ (now >= target[t].eligible /\ Deliberate(c, t))

\* One of the operations of plan_development_operations, or none that matters
\* here: evidence, dormancy and later retirement leave a target settled.
Developed(c, now) ==
    {target}
    \cup {[target EXCEPT ![t] = [status |-> "staged", eligible |-> now + Day]] :
              t \in {x \in Targets : Stageable(x)}}
    \cup {[target EXCEPT ![t] = [status |-> "settled", eligible |-> Never]] :
              t \in {x \in Targets : Settleable(x, c, now)}}

\* A committed decision is applied, and the cycle goes on or ends with it.
Apply(p) ==
    /\ owner = p /\ allowed
    /\ \E tg \in Developed(Latest(cycles), Now(p)) :
        \/ /\ target' = tg
           /\ UNCHANGED <<clock, allowed, reflection, cycles, about, anchor, owner, adminSteps>>
        \/ Finish(p, "completed", Now(p), tg)

\* The cycle fails: what it has spent, a refusal, or a request that cannot be
\* frozen.  A refusal is recorded although execution is no longer allowed.
Fails(p) == owner = p /\ Finish(p, "failed", Now(p), target)

-----------------------------------------------------------------------------
(* The other actors *)

\* change_lifecycle or update_governance.
ChangeAuthority ==
    /\ adminSteps < MaxAdminSteps /\ adminSteps' = adminSteps + 1
    /\ allowed' = ~allowed
    /\ UNCHANGED <<clock, store, owner>>

Tick ==
    /\ clock < Horizon
    /\ clock' = clock + 1
    /\ UNCHANGED <<allowed, store, owner, adminSteps>>

-----------------------------------------------------------------------------
(* The specification *)

Init ==
    /\ clock = 1
    /\ allowed = TRUE
    /\ target = [t \in Targets |-> [status |-> "none", eligible |-> Never]]
    /\ reflection = [FirstState(Never) EXCEPT !.present = FALSE, !.pending = FALSE]
    /\ cycles = <<>> /\ about = {} /\ anchor = Never
    /\ owner = NoRuntime
    /\ adminSteps = 0

Run(p) == Refused(p) \/ Resume(p) \/ Idle(p) \/ Claim(p) \/ LeaveLoop(p) \/ Apply(p) \/ Fails(p)

Next == \/ \E p \in Runtimes : Run(p)
        \/ ChangeAuthority \/ Tick

Spec == Init /\ [][Next]_vars

(***************************************************************************)
(* The operator keeps starting runs, and a cycle that is resumed again and *)
(* again ends (CycleTerminates of CognitionProperties).  A clock that is   *)
(* behind does not stay so: time passes.                                   *)
(***************************************************************************)
CanEnd(p) == owner = p /\ Finishable("failed", Now(p))

Fairness == /\ WF_vars(\E p \in Runtimes : Run(p))
            /\ []<>(\E p \in Runtimes : CanEnd(p)) => []<>~Running
            /\ WF_vars(Tick)

FairSpec == Spec /\ Fairness

-----------------------------------------------------------------------------
(* Properties *)

TypeOK ==
    /\ clock \in Nat
    /\ allowed \in BOOLEAN
    /\ target \in [Targets -> TargetRecords]
    /\ reflection \in Reflections
    /\ cycles \in Seq(CycleRecords) /\ about \subseteq Targets /\ anchor \in Nat
    /\ owner \in Runtimes \cup {NoRuntime}
    /\ adminSteps \in Nat

\* db/reflection_checks.py: the state always passes the validation that every
\* run makes before anything else, and every batch ever made has the cycle and
\* the recorded outcome its status calls for.  Were it otherwise the individual
\* could never run again.
ReflectionConsistent ==
    /\ TypeOK
    /\ StateValid(reflection, cycles, FALSE)
    /\ \A b \in DOMAIN reflection.batches :
        LET batch == reflection.batches[b]
            mine  == CyclesOf(b, cycles)
        IN  /\ Len(batch.refs) \in 1 .. BatchLimit /\ IsInjective(batch.refs)
            /\ batch.accounted <=> batch.status = "consumed"
            /\ IF batch.status \in {"pending", "cancelled"} THEN mine = {}
               ELSE \E c \in DOMAIN cycles :
                        /\ mine = {c}
                        /\ (cycles[c].status = "active") <=> (batch.status = "claimed")
                        /\ batch.consumed = cycles[c].completed

\* A review is worth its cycle: when a batch is claimed a day has passed since
\* the last review, whoever paused, crashed or withdrew a batch meanwhile, and
\* something in it is staged still, though it may have been chosen long before.
ReviewsWorthwhile ==
    [][\A b \in DOMAIN reflection'.batches :
        reflection'.batches[b].status = "claimed"
        /\ (b \in DOMAIN reflection.batches => reflection.batches[b].status = "pending") =>
            /\ StillPending(reflection'.batches[b], target)
            /\ \A k \in 1 .. b - 1 : reflection'.batches[k].accounted =>
                   Now(owner') >= reflection'.batches[k].consumed + Day]_vars

\* stores/reflection_candidates.py, independently rotating cursors: a target is
\* not reviewed again before every other of its family that was staged by the
\* first time, and eligible when that was due, has had its turn, across
\* interruptions, failed cycles, withdrawn batches and new arrivals.
RotationIsFair ==
    \A j \in DOMAIN reflection.batches : \A i \in 1 .. j - 1 :
        LET Reviewed(k) == {reflection.batches[k].refs[n] : n \in DOMAIN reflection.batches[k].refs}
        IN  reflection.batches[i].accounted =>
            \A t \in Reviewed(i) \cap Reviewed(j) :
                \A u \in Staged(target) :
                    u[1] = t[1] /\ target[u].eligible <= reflection.batches[i].due
                    /\ target[u].eligible < reflection.batches[i].selected + Day =>
                        \E k \in i .. j : u \in Reviewed(k)

\* What is staged for good always has a review to come, whatever a pause or an
\* interruption deferred.
ReviewReturns ==
    <>[]allowed => \A t \in Targets : <>[](target[t].status = "staged")
                                             => []<>(Live(reflection) # {})

=============================================================================
