----------------------------- MODULE Cognition -----------------------------
(***************************************************************************)
(* The durable cognition cycle of one individual: the wakes it is given,   *)
(* the cycle that claims them, the turns, frozen contexts and model        *)
(* attempts of that cycle, the decisions applied from it, and the managed  *)
(* heartbeat that accounts for it (runtime/cognition.py,                   *)
(* stores/cognition.py, stores/attention.py, stores/autonomy.py).          *)
(*                                                                         *)
(* One action is one database transaction.  A runtime process moves        *)
(* through the transactions of run_once; it may crash between any two, its *)
(* session may end under it, and another runtime then takes over.  An      *)
(* administrator changes lifecycle, governance and configuration at any    *)
(* time, and other sessions post wakes.                                    *)
(*                                                                         *)
(* The individual has neither an exploration grant, staged reflection      *)
(* candidates nor inbound bindings, so those three parts of the claiming   *)
(* and finishing transactions have nothing to do.                          *)
(***************************************************************************)
EXTENDS HeartbeatPolicy, Lifecycle, FiniteSets, Sequences

CONSTANTS
    Runtimes,       \* runtime processes, possibly on several hosts
    NoRuntime,
    Skew,           \* Skew[r]: how far the clock of r's host runs ahead
    Limits,         \* Limits[r]: the CycleLimits r is constructed with
    BoundModel,     \* BoundModel[r]: the model r is bound to, or NoModel
    NoModel,
    Configs,        \* configuration revisions
    NoConfig,
    InitialConfig,  \* the active revision at the start, or NoConfig
    Policy,         \* Policy[g]: the heartbeat policy of revision g
    Model,          \* Model[g]: the model requested by revision g
    Ops,            \* operation identities a decision may carry
    Bootstrap,      \* the wake birth posts, and its key
    BootstrapKey,
    Posted,         \* wakes other sessions may post later
    Legacy,         \* wakes found claimed by no cycle at the start
    Keys, NoKey,    \* coalescing keys
    NoWake,
    Decisions,      \* decisions the model may return
    NoDecision,
    AdminOps,       \* lifecycle operations the administrator uses
    MaxCycles,      \* bound: cycles ever started
    Horizon,        \* bound: the last instant of the true clock
    MaxFaults,      \* bound: crashes, lost sessions and failed transactions
    MaxAdminSteps   \* bound: administrative and configuration changes

VARIABLES
    clock,          \* true time
    operational,    \* individuals.operational_status
    inferenceBlocked,
    config,         \* the active configuration revision
    wake,           \* wakes
    link,           \* cycle_wakes: the cycle a wake was claimed by
    cycle,          \* cognition_cycles
    turn,           \* cognition_turns of each cycle, by ordinal, each with
                    \* its context_snapshot and its model_invocations
    applied,        \* applied_operations
    attention,      \* attention_states
    heartbeat,      \* autonomy_states
    owner,          \* the runtime whose session holds the advisory lock
    pc,             \* the next transaction of each runtime
    local,          \* what a runtime holds in memory between transactions
    faults, adminSteps

control == <<operational, inferenceBlocked, config>>
store   == <<wake, link, cycle, turn, applied, attention, heartbeat>>
process == <<owner, pc, local>>
bounds  == <<faults, adminSteps>>
vars    == <<clock, control, store, process, bounds>>

-----------------------------------------------------------------------------
(* Identities and record types *)

Cycles  == 1 .. MaxCycles
NoCycle == 0

\* Every new heartbeat follows one that some cycle consumed (or is the first),
\* and every requeued wake stands for one that was superseded: those name it.
Beat(c)  == <<"beat", c>>
Again(w) == <<"again", w>>
Beats    == {Beat(c) : c \in {NoCycle} \cup Cycles}
Wakes    == Ops \cup {Bootstrap} \cup Posted \cup Legacy \cup Beats
                \cup {Again(w) : w \in Legacy}

WakeKinds    == {"heartbeat", "self_scheduled", "bootstrap"}
Autonomous   == {"heartbeat", "self_scheduled"}
WakeStatuses == {"none", "pending", "claimed", "consumed", "superseded"}
WakeRecords  == [status : WakeStatuses, kind : WakeKinds, due : Nat,
                 key : Keys \cup {NoKey}, refs : SUBSET Wakes]

LimitRecords == [turns : Nat \ {0}, attempts : Nat \ {0}, wakes : Nat \ {0},
                 seconds : Nat \ {0}, delay : Nat]

Reasons      == {"none", "decision_rejected", "wait", "sleep", "turn_limit",
                 "deadline", "attempt_limit", "missing_configuration",
                 "context_budget", "refused", "duplicate_decision_id"}
CycleRecords == [status : {"none", "active", "completed", "failed"},
                 reason : Reasons, completed : Nat, deadline : Nat,
                 limits : LimitRecords]

Unfinished  == {"prepared", "invoking", "decided"}
Finished    == {"applied", "rejected", "failed"}
\* record_result writes the decision of a turn together with its status.
TurnRecords ==
    {t \in [status : Unfinished \cup Finished,
            decision : Decisions \cup {NoDecision},
            context : Configs \cup {NoConfig},
            attempts : Seq({"started", "abandoned", "failed", "completed"})] :
        t.status = "decided" => t.decision # NoDecision}

\* One self-scheduled wake a decision asks for.
WakeRequests == [op : Ops, notBefore : Nat, key : Keys \cup {NoKey}]

\* A decision: its identity, whether validate_decision accepts it, the wakes it
\* requests and the personal operations it carries.
DecisionRecords == [id : Nat, valid : BOOLEAN,
                    disposition : {"continue", "wait", "sleep"},
                    requests : SUBSET WakeRequests, personal : SUBSET Ops]

Requested(d)  == {q.op : q \in d.requests}
Operations(d) == Requested(d) \cup d.personal

AppliedRecords == [cycle : Cycles, ordinal : Nat \ {0},
                   kind : {"wake_request", "personal"}]
NotApplied     == [cycle |-> NoCycle, ordinal |-> 0, kind |-> "none"]

HeartbeatRecords == [exists : BOOLEAN, interval : Nat, anchor : Nat,
                     managed : Wakes \cup {NoWake},
                     last : {NoCycle} \cup Cycles,
                     config : Configs \cup {NoConfig},
                     pending : BOOLEAN]

AttentionRecords == [last : {NoCycle} \cup Cycles, revision : Nat]

Places   == {"idle", "ready", "loop", "freeze", "invoke", "call", "closing"}

LocalRecords == [cycle : {NoCycle} \cup Cycles, ordinal : Nat,
                 now : Nat, attempt : Nat]
NoLocal      == [cycle |-> NoCycle, ordinal |-> 0, now |-> 0, attempt |-> 0]

-----------------------------------------------------------------------------
(* What the constants may be *)

ASSUME RuntimeAssumption == /\ NoRuntime \notin Runtimes
                            /\ Skew \in [Runtimes -> Nat]
                            /\ Limits \in [Runtimes -> LimitRecords]
ASSUME ConfigAssumption == /\ NoConfig \notin Configs
                           /\ InitialConfig \in Configs \cup {NoConfig}
                           /\ Policy \in [Configs -> Policies]
ASSUME DecisionAssumption == /\ NoDecision \notin Decisions
                             /\ Decisions \subseteq DecisionRecords
\* Identities are fresh UUIDs: two names never stand for the same wake.
ASSUME IdentityAssumption == /\ NoWake \notin Wakes
                             /\ NoKey \notin Keys
                             /\ BootstrapKey \in Keys \cup {NoKey}
                             /\ Bootstrap \notin Legacy
                             /\ (Ops \cup {Bootstrap} \cup Posted \cup Legacy)
                                   \cap (Beats \cup {Again(w) : w \in Legacy}) = {}
\* A table holds finitely many rows.
ASSUME FiniteAssumption == /\ IsFiniteSet(Ops) /\ IsFiniteSet(Posted)
                           /\ IsFiniteSet(Legacy)
ASSUME BoundAssumption == /\ MaxCycles \in Nat /\ Horizon \in Nat
                          /\ MaxFaults \in Nat /\ MaxAdminSteps \in Nat

-----------------------------------------------------------------------------
(* What a transaction reads *)

Now(r) == clock + Skew[r]

\* execution_allowed: under the locks of the individual and its governance.
Allowed == operational = "active" /\ ~inferenceBlocked

ActiveCycles == {c \in Cycles : cycle[c].status = "active"}
Latest(c)    == Len(turn[c])

LeastOf(S) == CHOOSE m \in S : \A n \in S : m <= n

-----------------------------------------------------------------------------
(***************************************************************************)
(* create_or_merge_pending_wake, for a set R of incoming wakes.  A wake    *)
(* without a key is inserted; a keyed one is merged into the pending wake  *)
(* with its key, which an earlier one of the same transaction may have     *)
(* created (which of them comes first is a fixed choice).                  *)
(***************************************************************************)
Incoming == [id : Wakes, kind : WakeKinds, due : Nat,
             key : Keys \cup {NoKey}, refs : SUBSET Wakes]

Holders(wk, k) == {w \in Wakes : wk[w].status = "pending" /\ wk[w].key = k}

Home(wk, R, q) ==
    IF q.key = NoKey THEN q.id
    ELSE IF Holders(wk, q.key) # {} THEN CHOOSE w \in Holders(wk, q.key) : TRUE
    ELSE CHOOSE w \in {p.id : p \in {p \in R : p.key = q.key}} : TRUE

Arrivals(wk, R, w) == {q \in R : Home(wk, R, q) = w}

Dues(in) == {q.due : q \in in}
Refs(in) == UNION {q.refs : q \in in}

MergedRow(row, in) ==
    [row EXCEPT !.due = LeastOf(Dues(in) \cup {@}), !.refs = @ \cup Refs(in)]

InsertedRow(w, in) ==
    LET own == CHOOSE q \in in : q.id = w
    IN  [status |-> "pending", kind |-> own.kind, key |-> own.key,
         due |-> LeastOf(Dues(in)), refs |-> Refs(in)]

Post(wk, R) ==
    [w \in Wakes |->
        LET in == Arrivals(wk, R, w)
        IN  IF in = {} THEN wk[w]
            ELSE IF wk[w].status = "pending" THEN MergedRow(wk[w], in)
            ELSE InsertedRow(w, in)]

-----------------------------------------------------------------------------
(* The managed heartbeat (stores/autonomy.py) *)

\* The validation of _state: a violation raises and the transaction is lost.
SchedulerValid(wk, cy, hb, finishing) ==
    /\ hb.interval >= Second
    /\ Clamp(Policy[hb.config], hb.interval) = hb.interval
    /\ hb.last # NoCycle => /\ cy[hb.last].status \in {"completed", "failed"}
                            /\ cy[hb.last].completed = hb.anchor
    /\ hb.managed = NoWake => hb.pending
    /\ hb.managed # NoWake =>
        /\ wk[hb.managed].kind = "heartbeat"
        /\ wk[hb.managed].key = NoKey
        /\ wk[hb.managed].status = "consumed" => hb.pending \/ finishing
        /\ wk[hb.managed].status = "claimed" =>
               link[hb.managed] # NoCycle /\ cy[link[hb.managed]].status = "active"

Initialize(g, now) ==
    [exists |-> TRUE, interval |-> EffectiveMinimum(Policy[g]), anchor |-> now,
     managed |-> NoWake, last |-> NoCycle, config |-> g, pending |-> TRUE]

\* The heartbeat that succeeds a spent one; no commitment shortens it here.
Successor(w) == Beat(IF w = NoWake THEN NoCycle ELSE link[w])

Spawned(due) == [status |-> "pending", kind |-> "heartbeat", due |-> due,
                 key |-> NoKey, refs |-> {}]

Retimed(row, due) == [row EXCEPT !.due = due]

Materialize(wk, hb, p) ==
    LET due == Schedule(p, hb.anchor, hb.interval, NoDeadline)
        new == \/ hb.managed = NoWake
               \/ wk[hb.managed].status \in {"consumed", "superseded"}
        w   == IF new THEN Successor(hb.managed) ELSE hb.managed
    IN  [wake |-> [wk EXCEPT ![w] =
                      IF new THEN Spawned(due) ELSE Retimed(@, due)],
         heartbeat |-> [hb EXCEPT !.managed = w, !.pending = FALSE]]

Current(now) == IF heartbeat.exists THEN heartbeat ELSE Initialize(config, now)

HeartbeatOk(now) ==
    /\ heartbeat.exists => SchedulerValid(wake, cycle, heartbeat, FALSE)
    /\ config # NoConfig => now >= Current(now).anchor

\* A plausible bug: state that exists is taken to have its wake.
EnsureHeartbeatOnce(now) ==
    IF config = NoConfig \/ heartbeat.exists
    THEN [wake |-> wake, heartbeat |-> heartbeat]
    ELSE Materialize(wake, Initialize(config, now), Policy[config])

\* ensure_heartbeat, when execution is allowed.
EnsureHeartbeat(now) ==
    IF config = NoConfig
    THEN [wake |-> wake, heartbeat |-> heartbeat]
    ELSE IF ActiveCycles # {}
    THEN [wake |-> wake, heartbeat |-> Current(now)]
    ELSE Materialize(wake,
                     [Current(now) EXCEPT !.config = config,
                                          !.interval = Clamp(Policy[config], @)],
                     Policy[config])

\* record_cycle_outcome: wk, cy and ap are the wakes, cycles and operations as
\* the transaction that finishes c has left them.
AccountConfig == IF config # NoConfig THEN config ELSE heartbeat.config

AccountOk(wk, cy, now) ==
    /\ heartbeat.exists => SchedulerValid(wk, cy, heartbeat, TRUE)
    /\ AccountConfig # NoConfig /\ heartbeat.exists => now >= heartbeat.anchor

AutonomousCycle(wk, c) ==
    LET mine == {w \in Wakes : link[w] = c}
    IN  mine # {} /\ \A w \in mine : wk[w].kind \in Autonomous

PersonalActivity(ap, c) ==
    \E op \in Ops : ap[op].cycle = c /\ ap[op].kind = "personal"

\* A plausible bug: the deferral is not marked.
UnmarkedOutcome(hb, interval, now, c, g) ==
    [hb EXCEPT !.interval = interval, !.anchor = now, !.last = c, !.config = g]

Outcome(hb, interval, now, c, g) ==
    [hb EXCEPT !.interval = interval, !.anchor = now, !.last = c, !.config = g,
               !.pending = TRUE]

Account(wk, ap, c, now) ==
    LET g    == AccountConfig
        old  == IF heartbeat.exists THEN heartbeat ELSE Initialize(g, now)
        next == Outcome(old, NextInterval(Policy[g], old.interval,
                                          AutonomousCycle(wk, c),
                                          PersonalActivity(ap, c)), now, c, g)
    IN  IF g = NoConfig
        THEN [wake |-> wk, heartbeat |-> heartbeat]
        ELSE IF Allowed /\ config # NoConfig /\ ActiveCycles \ {c} = {}
        THEN Materialize(wk, next, Policy[g])
        ELSE [wake |-> wk, heartbeat |-> next]

-----------------------------------------------------------------------------
(* Pieces shared by the transactions of a runtime *)

Goto(r, place) == pc' = [pc EXCEPT ![r] = place]

\* A plausible bug: a lost session reconnects and goes on without the lock.
Reconnects(r, place) == pc[r] = place

Owns(r, place) == owner = r /\ pc[r] = place

\* An exception leaves run_once: nothing is committed, ownership is closed.
RollBack(r) ==
    /\ Goto(r, "closing")
    /\ local' = [local EXCEPT ![r] = NoLocal]
    /\ UNCHANGED <<clock, control, store, owner, bounds>>

\* run_once returns; its caller runs it again or gives ownership up.
Return(r) ==
    /\ \E place \in {"ready", "closing"} : Goto(r, place)
    /\ local' = [local EXCEPT ![r] = NoLocal]
    /\ UNCHANGED <<clock, control, store, owner, bounds>>

\* The loop goes round: only the identity of the cycle is kept.
BackToLoop(r, c) ==
    /\ Goto(r, "loop")
    /\ local' = [local EXCEPT ![r] = [NoLocal EXCEPT !.cycle = c]]

Consume(wk, c) ==
    [w \in Wakes |-> IF link[w] = c /\ wk[w].status = "claimed"
                     THEN [wk[w] EXCEPT !.status = "consumed"]
                     ELSE wk[w]]

(***************************************************************************)
(* The rest of a transaction that ends cycle c (finish_cycle): tn, wk, ap  *)
(* and att are the turns, wakes, operations and attention it has written   *)
(* so far.  The accounting may refuse, and then all of it is lost.         *)
(***************************************************************************)
Finish(r, c, now, status, reason, tn, wk, ap, att) ==
    LET spent == Consume(wk, c)
        ended == [cycle EXCEPT ![c] = [@ EXCEPT !.status = status,
                                                !.reason = reason,
                                                !.completed = now]]
        acc   == Account(spent, ap, c, now)
    IN  IF AccountOk(spent, ended, now)
        THEN /\ cycle' = ended
             /\ wake' = acc.wake
             /\ heartbeat' = acc.heartbeat
             /\ turn' = tn /\ applied' = ap /\ attention' = att
             /\ BackToLoop(r, c)
             /\ UNCHANGED <<clock, control, link, owner, bounds>>
        ELSE RollBack(r)

WithStatus(c, o, s) == [turn EXCEPT ![c][o].status = s]

\* fail_turn, and every failed turn that ends its cycle.
FailTurn(r, c, o, now, tn, reason) ==
    Finish(r, c, now, "failed", reason, [tn EXCEPT ![c][o].status = "failed"],
           wake, applied, attention)

\* A plausible bug: nothing is abandoned.
KeepStarted(tries) == tries

\* An attempt whose outcome nobody recorded is abandoned, never reused.
Abandon(tries) ==
    [i \in DOMAIN tries |-> IF tries[i] = "started" THEN "abandoned" ELSE tries[i]]

Settled(c, o) == [turn EXCEPT ![c][o].attempts = Abandon(@)]

\* Plausible bugs: one attempt too many; the deadline is forgotten.
SpentLate(c, o, now) ==
    \/ Len(turn[c][o].attempts) > cycle[c].limits.attempts
    \/ now >= cycle[c].deadline
SpentByAttempts(c, o, now) == Len(turn[c][o].attempts) >= cycle[c].limits.attempts

\* settle_invocation_budget: the work already spent, judged before anything else.
Spent(c, o, now) ==
    \/ Len(turn[c][o].attempts) >= cycle[c].limits.attempts
    \/ now >= cycle[c].deadline

SpentReason(c, o) ==
    IF Len(turn[c][o].attempts) >= cycle[c].limits.attempts
    THEN "attempt_limit" ELSE "deadline"

NewTurn == [status |-> "prepared", decision |-> NoDecision,
            context |-> NoConfig, attempts |-> <<>>]

-----------------------------------------------------------------------------
(* Ownership: a session advisory lock, refined by the module Ownership *)

Acquire(r) ==
    /\ pc[r] = "idle" /\ owner = NoRuntime
    /\ owner' = r
    /\ Goto(r, "ready")
    /\ UNCHANGED <<clock, control, store, local, bounds>>

\* RuntimeOwnership.close, after run_once returned or raised.
Close(r) ==
    /\ Owns(r, "closing")
    /\ owner' = NoRuntime
    /\ Goto(r, "idle")
    /\ UNCHANGED <<clock, control, store, local, bounds>>

\* The process dies; the server has not noticed yet.
Crash(r) ==
    /\ pc[r] # "idle" /\ faults < MaxFaults
    /\ faults' = faults + 1
    /\ Goto(r, "idle")
    /\ local' = [local EXCEPT ![r] = NoLocal]
    /\ UNCHANGED <<clock, control, store, owner, adminSteps>>

\* The server ends the session of a process that is gone.
Reap ==
    /\ owner # NoRuntime /\ pc[owner] = "idle"
    /\ owner' = NoRuntime
    /\ UNCHANGED <<clock, control, store, pc, local, bounds>>

\* The server ends the session of a process that is still running.
SessionLost ==
    /\ owner # NoRuntime /\ pc[owner] # "idle" /\ faults < MaxFaults
    /\ owner' = NoRuntime
    /\ faults' = faults + 1
    /\ UNCHANGED <<clock, control, store, pc, local, adminSteps>>

\* The next use of a lost session raises; it is never reconnected.
NoticeLoss(r) ==
    /\ pc[r] # "idle" /\ owner # r
    /\ Goto(r, "idle")
    /\ local' = [local EXCEPT ![r] = NoLocal]
    /\ UNCHANGED <<clock, control, store, owner, bounds>>

\* A transaction fails (a serialization failure, a refused statement).
TransactionFails(r) ==
    /\ owner = r /\ pc[r] \notin {"idle", "closing"} /\ faults < MaxFaults
    /\ faults' = faults + 1
    /\ Goto(r, "closing")
    /\ local' = [local EXCEPT ![r] = NoLocal]
    /\ UNCHANGED <<clock, control, store, owner, adminSteps>>

-----------------------------------------------------------------------------
(***************************************************************************)
(* The first transaction of run_once: ensure the heartbeat, requeue        *)
(* orphaned claims, then resume the active cycle or claim a batch of due   *)
(* wakes.                                                                  *)
(***************************************************************************)

\* _recover_orphan_wakes takes the earliest ones, as many as a batch holds.
Orphans(wk) == {w \in Legacy : wk[w].status = "claimed" /\ link[w] = NoCycle}

EarliestBatch(wk, S, n) ==
    {B \in SUBSET S :
        /\ Cardinality(B) = Lesser(n, Cardinality(S))
        /\ \A b \in B, w \in S \ B : wk[b].due <= wk[w].due}

Requeued(wk, w) ==
    [id |-> Again(w), kind |-> wk[w].kind, due |-> wk[w].due,
     key |-> wk[w].key, refs |-> wk[w].refs \cup {w}]

Recover(wk, B) ==
    LET left == [w \in Wakes |-> IF w \in B THEN [wk[w] EXCEPT !.status = "superseded"]
                                 ELSE wk[w]]
    IN  Post(left, {Requeued(wk, w) : w \in B})

Due(wk, now) == {w \in Wakes : wk[w].status = "pending" /\ wk[w].due <= now}

\* What ensuring the heartbeat and recovering the orphans in B leave.
Prepared(r, B) == Recover(EnsureHeartbeat(Now(r)).wake, B)

StartBatch(r) ==
    LET wk == EnsureHeartbeat(Now(r)).wake
    IN  EarliestBatch(wk, Orphans(wk), Limits[r].wakes)

StartBlocked(r) ==
    /\ Owns(r, "ready") /\ ~Allowed
    /\ Return(r)

StartFails(r) ==
    /\ Owns(r, "ready") /\ Allowed /\ ~HeartbeatOk(Now(r))
    /\ RollBack(r)

Starting(r) == Owns(r, "ready") /\ Allowed /\ HeartbeatOk(Now(r))

Resume(r) ==
    /\ Starting(r)
    /\ \E c \in ActiveCycles, B \in StartBatch(r) :
        /\ wake' = Prepared(r, B)
        /\ heartbeat' = EnsureHeartbeat(Now(r)).heartbeat
        /\ BackToLoop(r, c)
    /\ UNCHANGED <<clock, control, link, cycle, turn, applied, attention,
                   owner, bounds>>

\* Rows a posting session holds locked: it can only be merging into a keyed wake.
Locked(wk) == SUBSET {w \in Wakes : wk[w].status = "pending" /\ wk[w].key # NoKey}

\* The earliest due wakes; a tie is broken by the random wake identity.
FirstDue(wk, now) ==
    {w \in Due(wk, now) : \A v \in Due(wk, now) : wk[w].due <= wk[v].due}

\* The bounds of the model: past them every due wake counts as locked.
Exhausted(r) == \/ Now(r) + Limits[r].seconds > Horizon
                \/ \A c \in Cycles : cycle[c].status # "none"

Idle(r) ==
    /\ Starting(r) /\ ActiveCycles = {}
    /\ \E B \in StartBatch(r) :
        LET wk == Prepared(r, B)
        IN  /\ \/ Due(wk, Now(r)) = {}
               \/ \E held \in Locked(wk) : FirstDue(wk, Now(r)) \cap held # {}
               \/ Exhausted(r)
            /\ wake' = wk
            /\ heartbeat' = EnsureHeartbeat(Now(r)).heartbeat
    /\ \E place \in {"ready", "closing"} : Goto(r, place)
    /\ UNCHANGED <<clock, control, link, cycle, turn, applied, attention,
                   owner, local, bounds>>

\* Cycle identities are taken in order.
NextCycle(c) == /\ cycle[c].status = "none"
                /\ \A d \in 1 .. c - 1 : cycle[d].status # "none"

Claim(r) ==
    /\ Starting(r) /\ ActiveCycles = {}
    /\ ~Exhausted(r)
    /\ \E c \in Cycles, B \in StartBatch(r) :
        LET wk == Prepared(r, B)
        IN  /\ NextCycle(c)
            /\ \E held \in Locked(wk) :
                /\ FirstDue(wk, Now(r)) \ held # {}
                /\ \E batch \in EarliestBatch(wk, Due(wk, Now(r)) \ held, Limits[r].wakes) :
                    /\ wake' = [w \in Wakes |->
                                   IF w \in batch THEN [wk[w] EXCEPT !.status = "claimed"]
                                   ELSE wk[w]]
                    /\ link' = [w \in Wakes |-> IF w \in batch THEN c ELSE link[w]]
            /\ cycle' = [cycle EXCEPT ![c] =
                            [status |-> "active", reason |-> "none", completed |-> 0,
                             deadline |-> Now(r) + Limits[r].seconds,
                             limits |-> Limits[r]]]
            /\ turn' = [turn EXCEPT ![c] = <<NewTurn>>]
            /\ BackToLoop(r, c)
    /\ heartbeat' = EnsureHeartbeat(Now(r)).heartbeat
    /\ UNCHANGED <<clock, control, applied, attention, owner, bounds>>

-----------------------------------------------------------------------------
(***************************************************************************)
(* The second transaction, at the head of the loop: reload the cycle,      *)
(* re-check governance, apply a committed decision or settle the budget.   *)
(***************************************************************************)

LeaveLoop(r) ==
    /\ Owns(r, "loop")
    /\ cycle[local[r].cycle].status # "active" \/ ~Allowed
    /\ Return(r)

\* A plausible bug: governance is consulted only when the run starts.
InLoopUngoverned(r, c, o) ==
    /\ Owns(r, "loop")
    /\ c = local[r].cycle /\ cycle[c].status = "active" /\ o = Latest(c)

InLoop(r, c, o) ==
    /\ Owns(r, "loop") /\ Allowed
    /\ c = local[r].cycle /\ cycle[c].status = "active" /\ o = Latest(c)

\* A plausible bug: identities are not compared with those already used.
NeverReused(d) == FALSE

\* An identity already used, by an operation or by a wake of that name.
Reused(d) == \/ \E op \in Operations(d) : applied[op] # NotApplied
             \/ \E op \in Requested(d) : wake[op].status # "none"

Rejected(d) == ~d.valid \/ Reused(d)

Reject(r, c, o) ==
    /\ InLoop(r, c, o) /\ turn[c][o].status = "decided"
    /\ Rejected(turn[c][o].decision)
    /\ Finish(r, c, Now(r), "failed", "decision_rejected",
              WithStatus(c, o, "rejected"), wake, applied, attention)

SelfScheduled(c, q, now) ==
    [id |-> q.op, kind |-> "self_scheduled", key |-> q.key, refs |-> {q.op},
     due |-> Greater(q.notBefore, now + cycle[c].limits.delay)]

\* A plausible bug: only wake requests are recorded as applied.
WithRequestsOnly(c, o, d) ==
    [op \in Ops |-> IF op \in Requested(d)
                   THEN [cycle |-> c, ordinal |-> o, kind |-> "wake_request"]
                   ELSE applied[op]]

WithOperations(c, o, d) ==
    [op \in Ops |->
        IF op \in d.personal
        THEN [cycle |-> c, ordinal |-> o, kind |-> "personal"]
        ELSE IF op \in Requested(d)
        THEN [cycle |-> c, ordinal |-> o, kind |-> "wake_request"]
        ELSE applied[op]]

\* The row is created with revision 1 and then advanced like any other.
Attended(c) ==
    [last |-> c, revision |-> Greater(1, attention.revision) + 1]

EndsCycle(c, o, d, now) == \/ d.disposition # "continue"
                           \/ o >= cycle[c].limits.turns
                           \/ now >= cycle[c].deadline

EndReason(c, o, d) == IF d.disposition # "continue" THEN d.disposition
                      ELSE IF o >= cycle[c].limits.turns THEN "turn_limit"
                      ELSE "deadline"

WithRequested(c, d, now) == Post(wake, {SelfScheduled(c, q, now) : q \in d.requests})

Apply(r, c, o) ==
    LET d    == turn[c][o].decision
        done == WithStatus(c, o, "applied")
        wk   == WithRequested(c, d, Now(r))
        ap   == WithOperations(c, o, d)
    IN  /\ InLoop(r, c, o) /\ turn[c][o].status = "decided" /\ ~Rejected(d)
        /\ IF EndsCycle(c, o, d, Now(r))
           THEN Finish(r, c, Now(r), "completed", EndReason(c, o, d), done, wk, ap, Attended(c))
           ELSE /\ turn' = [done EXCEPT ![c] = Append(@, NewTurn)]
                /\ wake' = wk /\ applied' = ap /\ attention' = Attended(c)
                /\ UNCHANGED <<clock, control, link, cycle, heartbeat,
                               process, bounds>>

Settle(r, c, o) ==
    /\ InLoop(r, c, o) /\ turn[c][o].status # "decided"
    /\ IF Spent(c, o, Now(r))
       THEN FailTurn(r, c, o, Now(r), Settled(c, o), SpentReason(c, o))
       ELSE /\ turn' = Settled(c, o)
            /\ local' = [local EXCEPT ![r] = [cycle |-> c, ordinal |-> o,
                                              now |-> Now(r), attempt |-> 0]]
            /\ Goto(r, "freeze")
            /\ UNCHANGED <<clock, control, wake, link, cycle, applied,
                           attention, heartbeat, owner, bounds>>

InLoopTurn(r) == \E c \in Cycles : \E o \in DOMAIN turn[c] :
                     Reject(r, c, o) \/ Apply(r, c, o) \/ Settle(r, c, o)

-----------------------------------------------------------------------------
(***************************************************************************)
(* The third transaction: a coherent snapshot freezes the request of the   *)
(* turn, once.  It re-checks neither governance nor the budget, and uses   *)
(* the instant read at the head of the loop.                               *)
(***************************************************************************)

Held(r) == local[r].cycle
Turn(r) == turn[Held(r)][local[r].ordinal]

Frozen(r) ==
    /\ Owns(r, "freeze") /\ Turn(r).context # NoConfig
    /\ Goto(r, "invoke")
    /\ local' = [local EXCEPT ![r].now = 0]
    /\ UNCHANGED <<clock, control, store, owner, bounds>>

\* A plausible bug: every attempt freezes the request anew.
Refreeze(r) ==
    /\ Owns(r, "freeze") /\ config # NoConfig
    /\ turn' = [turn EXCEPT ![Held(r)][local[r].ordinal].context = config]
    /\ Goto(r, "invoke")
    /\ local' = [local EXCEPT ![r].now = 0]
    /\ UNCHANGED <<clock, control, wake, link, cycle, applied, attention,
                   heartbeat, owner, bounds>>

Freeze(r) ==
    /\ Owns(r, "freeze") /\ Turn(r).context = NoConfig /\ config # NoConfig
    /\ turn' = [turn EXCEPT ![Held(r)][local[r].ordinal].context = config]
    /\ Goto(r, "invoke")
    /\ local' = [local EXCEPT ![r].now = 0]
    /\ UNCHANGED <<clock, control, wake, link, cycle, applied, attention,
                   heartbeat, owner, bounds>>

\* No configuration is active, or its mandatory context exceeds the budget.
CannotFreeze(r) ==
    /\ Owns(r, "freeze") /\ Turn(r).context = NoConfig
    /\ FailTurn(r, Held(r), local[r].ordinal, local[r].now, turn,
                IF config = NoConfig THEN "missing_configuration"
                                     ELSE "context_budget")

-----------------------------------------------------------------------------
(***************************************************************************)
(* The fourth transaction: governance and the model once more, then the    *)
(* budget again with a fresh clock, and only then a durable start.         *)
(***************************************************************************)

\* No model, a preflight refusal, or a model other than the frozen one.
InvokeBlocked(r) ==
    /\ Owns(r, "invoke")
    /\ Return(r)

Bindable(r) == BoundModel[r] = NoModel \/ Model[Turn(r).context] = BoundModel[r]

Invoke(r) ==
    /\ Owns(r, "invoke") /\ Allowed /\ Bindable(r)
    /\ LET c == Held(r)
           o == local[r].ordinal
           n == Len(turn[c][o].attempts)
       IN  IF Spent(c, o, Now(r))
           THEN FailTurn(r, c, o, Now(r), Settled(c, o), SpentReason(c, o))
           ELSE /\ turn' = [turn EXCEPT ![c][o].attempts = Append(Abandon(@), "started"),
                                        ![c][o].status = "invoking"]
                /\ local' = [local EXCEPT ![r].attempt = n + 1]
                /\ Goto(r, "call")
                /\ UNCHANGED <<clock, control, wake, link, cycle, applied,
                               attention, heartbeat, owner, bounds>>

-----------------------------------------------------------------------------
(***************************************************************************)
(* The fifth transaction records what the model answered.  No governance   *)
(* check: a pause in flight defers application, not evidence.              *)
(***************************************************************************)

InProgress(r) == Turn(r).attempts[local[r].attempt] = "started"

Attempt(r, s) ==
    [turn EXCEPT ![Held(r)][local[r].ordinal].attempts[local[r].attempt] = s]

\* The adapter raised, or its answer is invalid or belongs to another request:
\* the attempt is over, the turn may try again.
AttemptFails(r) ==
    /\ Owns(r, "call") /\ InProgress(r)
    /\ turn' = Attempt(r, "failed")
    /\ BackToLoop(r, Held(r))
    /\ UNCHANGED <<clock, control, wake, link, cycle, applied, attention,
                   heartbeat, owner, bounds>>

\* A refusal or an error that is not retryable ends turn and cycle.
Refused(r) ==
    /\ Owns(r, "call") /\ InProgress(r)
    /\ FailTurn(r, Held(r), local[r].ordinal, Now(r), Attempt(r, "failed"), "refused")

\* The identity of a decision is unique over every turn ever decided.
Known(d) == \E c \in Cycles : \E o \in DOMAIN turn[c] :
                /\ turn[c][o].decision # NoDecision
                /\ turn[c][o].decision.id = d.id

Duplicate(r) ==
    /\ Owns(r, "call") /\ InProgress(r)
    /\ \E d \in Decisions : Known(d)
    /\ FailTurn(r, Held(r), local[r].ordinal, Now(r), Attempt(r, "failed"),
                "duplicate_decision_id")

Decide(r) ==
    /\ Owns(r, "call") /\ InProgress(r)
    /\ \E d \in Decisions :
        /\ ~Known(d)
        /\ turn' = [Attempt(r, "completed") EXCEPT
                        ![Held(r)][local[r].ordinal].decision = d,
                        ![Held(r)][local[r].ordinal].status = "decided"]
    /\ BackToLoop(r, Held(r))
    /\ UNCHANGED <<clock, control, wake, link, cycle, applied, attention,
                   heartbeat, owner, bounds>>

-----------------------------------------------------------------------------
(* The other actors *)

AdminStep == /\ adminSteps < MaxAdminSteps
             /\ adminSteps' = adminSteps + 1

Administer ==
    /\ AdminStep
    /\ \E op \in AdminOps, s \in Statuses :
        /\ <<operational, op, s>> \in Transitions
        /\ operational' = s
    /\ UNCHANGED <<clock, inferenceBlocked, config, store, process, faults>>

UpdateGovernance ==
    /\ AdminStep
    /\ inferenceBlocked' = ~inferenceBlocked
    /\ UNCHANGED <<clock, operational, config, store, process, faults>>

ReplaceConfig ==
    /\ AdminStep
    /\ \E g \in Configs \ {config} : config' = g
    /\ UNCHANGED <<clock, operational, inferenceBlocked, store, process, faults>>

\* Another session posts a wake, as birth did the first one.
PostWake ==
    /\ \E w \in Posted, k \in Keys \cup {NoKey} :
        /\ wake[w].status = "none" /\ \A v \in Wakes : w \notin wake[v].refs
        /\ wake' = Post(wake, {[id |-> w, kind |-> "bootstrap", due |-> clock,
                                key |-> k, refs |-> {w}]})
    /\ UNCHANGED <<clock, control, link, cycle, turn, applied, attention,
                   heartbeat, process, bounds>>

Tick ==
    /\ clock < Horizon
    /\ clock' = clock + 1
    /\ UNCHANGED <<control, store, process, bounds>>

-----------------------------------------------------------------------------
(* The specification *)

NoWakeRow == [status |-> "none", kind |-> "bootstrap", due |-> 0,
              key |-> NoKey, refs |-> {}]

Init ==
    /\ clock = 0
    /\ operational = "active" /\ inferenceBlocked = FALSE
    /\ config = InitialConfig
    /\ wake = [w \in Wakes |->
                  IF w = Bootstrap
                  THEN [NoWakeRow EXCEPT !.status = "pending", !.refs = {w},
                                         !.key = BootstrapKey]
                  ELSE IF w \in Legacy
                  THEN [NoWakeRow EXCEPT !.status = "claimed", !.refs = {w}]
                  ELSE NoWakeRow]
    /\ link = [w \in Wakes |-> NoCycle]
    /\ cycle = [c \in Cycles |-> [status |-> "none", reason |-> "none",
                                  completed |-> 0, deadline |-> 0,
                                  limits |-> [turns |-> 1, attempts |-> 1,
                                              wakes |-> 1, seconds |-> 1,
                                              delay |-> 0]]]
    /\ turn = [c \in Cycles |-> <<>>]
    /\ applied = [op \in Ops |-> NotApplied]
    /\ attention = [last |-> NoCycle, revision |-> 0]
    /\ heartbeat = [exists |-> FALSE, interval |-> 0, anchor |-> 0,
                    managed |-> NoWake, last |-> NoCycle, config |-> NoConfig,
                    pending |-> FALSE]
    /\ owner = NoRuntime
    /\ pc = [r \in Runtimes |-> "idle"]
    /\ local = [r \in Runtimes |-> NoLocal]
    /\ faults = 0 /\ adminSteps = 0

RunOnce(r) ==
    \/ StartBlocked(r) \/ StartFails(r) \/ Resume(r) \/ Idle(r) \/ Claim(r)
    \/ LeaveLoop(r) \/ InLoopTurn(r)
    \/ Frozen(r) \/ Freeze(r) \/ CannotFreeze(r)
    \/ InvokeBlocked(r) \/ Invoke(r)
    \/ AttemptFails(r) \/ Refused(r) \/ Duplicate(r) \/ Decide(r)

Runtime(r) == Acquire(r) \/ RunOnce(r) \/ Close(r) \/ NoticeLoss(r)

Faults(r) == Crash(r) \/ TransactionFails(r)

Others == Administer \/ UpdateGovernance \/ ReplaceConfig \/ PostWake

Next == \/ \E r \in Runtimes : Runtime(r) \/ Faults(r)
        \/ SessionLost \/ Reap \/ Others \/ Tick

Spec == Init /\ [][Next]_vars

(***************************************************************************)
(* Somebody keeps invoking the runtime, the server notices dead sessions,  *)
(* and time passes.  Nothing is assumed of the model, the administrator or *)
(* posters.  Stated over states: a run always has a next step and takes    *)
(* only so many before it returns.                                         *)
(***************************************************************************)
Fairness == /\ \A r \in Runtimes : []<>(pc[r] = "idle")
            /\ []<>(owner # NoRuntime)
            /\ []<>(owner = NoRuntime \/ pc[owner] # "idle")
            /\ []<>(clock = Horizon)

FairSpec == Spec /\ Fairness

=============================================================================
