# A verification project for cognition

The program under `src/` runs one digital individual: a PostgreSQL database
holds everything it is, wakes make it think, a bounded *cycle* of model calls
decides what happens, and decisions are applied in transactions.  The process
that does this may die, lose its database session, be paused, be started twice,
or be restarted with other limits; the promise is that none of that resamples,
repeats, splits or loses a decision.

This directory models that promise in TLA+, checks it with TLC on small
instances, and proves all of it but liveness with TLAPS for all instances.
Paths below are relative to `src/src/cognition/` unless they start with `docs/`.

Contents: [1 Inventory](#1-inventory) | [2 Modules](#2-modules) |
[3 Abstractions](#3-abstractions) | [4 Runs](#4-runs) | [5 Proofs](#5-proofs) |
[6 Not modelled](#6-not-modelled) | [7 Plan](#7-plan)

## 1 Inventory

| component | code | state it keeps | operations |
| --- | --- | --- | --- |
| Durable cognition cycle | `runtime/cognition.py`, `stores/cognition.py`, `policy/cognition.py` | `cognition_cycles`, `cognition_turns`, `context_snapshots`, `model_invocations`, `applied_operations`, `attention_states`; in memory, what a run carries between its transactions | `run_once` and the five transactions it is made of: claim or resume, reload-apply-or-settle, freeze, start of an attempt, recording of its outcome |
| Wake queue | `stores/attention.py`, `stores/cognition.py` | `wakes`, `cycle_wakes` | post, merge by coalescing key, claim a batch, consume, requeue an orphan |
| Adaptive heartbeat | `domain/heartbeat.py`, `stores/autonomy.py` | `autonomy_states`, the managed wake | ensure, account for a finished cycle, validate, materialize or defer |
| Exclusive ownership | `db/locks.py`, `runtime/ownership.py`, `stores/runtime.py` | a session advisory lock; `runtime_instances` rows that only observe it | acquire, record start, mark stale rows, work, close |
| Lifecycle and governance | `runtime/lifecycle.py`, `runtime/exploration_admin.py`, `runtime/connector_admin.py`, `stores/governance.py`, `policy/governance.py` | `individuals.operational_status`, the governance flags and policy, the administrators, with revisions, events and audits | pause, resume, quiesce, retire, emergency block, enable and disable exploration, register and switch connectors |
| Configuration revisions | `stores/configuration.py`, `config/` | the revisions and the active one | replace the active configuration |
| Birth | `runtime/birth.py`, `stores/identity.py` | every initial row | one transaction that creates an individual and its bootstrap wake |
| Operator command `run` | `cli/commands/run.py`, `cli/main.py` | none | acquire ownership, `run_once`, close |
| Internal exploration | `stores/exploration.py`, `stores/exploration_scope.py`, `domain/exploration.py`, `runtime/exploration_admin.py` | grants, cadence | enable, disable, claim, record the outcome |
| Daily reflection | `stores/reflection.py`, `stores/reflection_scope.py`, `stores/reflection_candidates.py` | `reflection_state` (cadence, cursors, managed batch), batches and outcomes | ensure, select, withdraw, claim, record the outcome |
| Inbound perception | `runtime/perception.py`, `stores/perception.py`, `stores/inbound_scope.py`, `stores/connectors.py`, `runtime/connector_admin.py` | connectors, bindings, poll cursors, deliveries, the open inbound wake | poll, persist a page, seal, enable and disable |
| Personal state | `stores/personal.py`, `stores/personal_core.py`, `stores/executive_personal.py`, `stores/development.py`, `stores/relationships.py` | the current rows of thirteen families (goals to layers of self), their revisions and events, `applied_operations` | validate, plan and apply the batch of a decision; single calls of the stores |
| Evidence and audit | `stores/evidence.py` | append-only records | record, redact |
| Context compilation | `runtime/context.py`, `domain/attention.py`, `stores/lexical.py` | none (a pure function of a snapshot) | select and pack a context under a budget |
| Model adapters | `models/`, `protocols/` | none | freeze a request, call, parse a reply |
| Integrity checker | `db/checks.py`, `db/*_checks.py` | none | the SQL checks the invariants below translate |
| Schema and migrations | `db/models/`, `db/schema.py`, the repository's `alembic/` | the tables, constraints and indexes | |

How they interact.  Everything goes through the database: one *runtime* holds
the individual's advisory lock and runs transactions on that very session;
other sessions (operator commands, connectors, birth) post wakes and change
lifecycle, governance and configuration concurrently, and meet the runtime only
in row locks.  Inside a runtime's transaction, the cycle store calls the wake
store (merge), the heartbeat store (ensure, account), exploration, reflection
and inbound scope (seal), in an order that matters.

What is hard here, and what would make each component correct:

* **Cycle.** Five transactions with a model call between two of them; a crash,
  a lost session, a pause, a new configuration, a passed deadline or another
  runtime between any two.  Correct: a committed decision is never resampled;
  it is applied completely, once, or not at all; persisted limits hold whoever
  continues the cycle; every cycle ends; a frozen request stays.
* **Wake queue.** Concurrent merges into one row, each a loop of statements
  under READ COMMITTED; a claimer that skips locked rows; orphans; two keys
  locked in opposite orders.  Correct: no request is lost or carried twice, one
  pending row per key, claims in order, nobody waits for ever, and the claimed
  wakes are exactly those of the active cycle.
* **Heartbeat.** Two clocks, deferral while paused, policy changes, arithmetic
  at the end of the calendar.  Correct: one live heartbeat, due when policy
  says, and no legal history makes the next run refuse its own state.
* **Ownership.** Two starts at once, colliding keys, a close that fails half
  way, a predecessor that has not noticed its session is gone.  Correct: one
  owner acts; owners never alternate; the lock is always given up.
* **Governance.** A pause stops what it must stop at the next transaction, and
  keeps the evidence of what was in flight.
* **Administration.** Operators, births, reconciliations and redactions meet in
  row locks; sequence numbers are drawn before the commit; an emergency block
  reads governance before it locks it.  Correct: audits say what was and what
  is, the evidence alone tells how the individual came to be as it is, and
  nobody waits in a circle.
* **Perception.** A page polled against a stale snapshot; redelivery; a full
  inbound wake.  Correct: an item becomes evidence once, in a wake that is
  claimed or still open.
* **Exploration.** Cadence and priority across enable, disable and pause.
  Correct: at most one live grant, whose cadence neither shrinks nor restarts.
* **Reflection.** Targets of a waiting batch are settled or proposed anew by
  other cycles; a pause defers the next batch.  Correct: reviews come a day
  apart, of something still staged, in rotation, and never cease.
* **Personal state.** A batch is recorded in one transaction and applied in a
  later one, while others revise the same objects, and what matures over days
  must be earned on evidence.  Correct: gapless history, whole batches, no
  conclusion undone, nothing established before its time.

The full list of hazards, each at the line where it bites, with the properties
that watch it, is in `PROJECT.json`.

## 2 Modules

| module | models | read it with |
| --- | --- | --- |
| `HeartbeatPolicy` | the pure timing functions: `Clamp`, `NextInterval`, `AddSeconds`, `Schedule` | `domain/heartbeat.py` |
| `HeartbeatTiming` | those functions driven by every sequence of outcomes and commitments, and their reference definition | the same, as `stores/autonomy.py` uses it |
| `Cognition` | the durable cycle of one individual with its wake queue, managed heartbeat, governance, configuration and crashing runtimes | `runtime/cognition.py`, `stores/cognition.py`, `stores/attention.py`, `stores/autonomy.py` |
| `CognitionProperties` | what `Cognition` promises | `db/checks.py`, `docs/` |
| `DecisionLedger` | the abstract promise: turns open, get one decision, take effect once | |
| `CognitionLedger` | the refinement mapping from `Cognition` to `DecisionLedger` | |
| `Lifecycle` | the operational statuses and the operations between them, used by `Cognition`, `Perception`, `Exploration` and `Administration` | `policy/governance.py` |
| `Perception` | polling, page persistence, inbound wakes and their claim, connector administration | `runtime/perception.py`, `stores/perception.py`, `stores/inbound_scope.py`, `stores/connectors.py`, `connectors/local_json.py` |
| `Exploration` | the allowance to explore: grants, cadence, withdrawal, the bounded cycle of a grant and its outcome, under changing policy | `domain/exploration.py`, `stores/exploration.py`, `stores/exploration_scope.py`, `runtime/exploration_admin.py` |
| `Reflection` | daily reflection: selection by rotating cursors, the one managed batch, its withdrawal, claim and outcome | `stores/reflection.py`, `stores/reflection_scope.py`, `stores/reflection_candidates.py` |
| `WakeQueue` | posting and claiming wakes statement by statement, with row locks, `SKIP LOCKED`, waiting and deadlocks | `stores/attention.py`, `stores/cognition.py` |
| `PostBox` | the abstract promise of the queue: a batch is posted whole, each request handed out once | |
| `Personal` | personal state: status machines, gradual development, batches planned and written under the individual's lock | `stores/personal.py`, `stores/personal_core.py`, `stores/executive_personal.py`, `stores/development.py`, `stores/relationships.py`, `db/personal_checks.py` |
| `Administration` | birth, lifecycle, exploration policy, connectors, configuration and redaction statement by statement, with row locks and the shared reference of events to the individual | `runtime/birth.py`, `runtime/lifecycle.py`, `runtime/exploration_admin.py`, `runtime/connector_admin.py`, `config/recording.py`, `stores/governance.py`, `stores/identity.py`, `stores/configuration.py`, `stores/connectors.py`, `stores/evidence.py` |
| `Ownership` | acquisition, use, close and loss of ownership, with the observing rows | `db/locks.py`, `runtime/ownership.py`, `stores/runtime.py` |
| `CognitionProofs` | theorems about the cycle: its types, everything `CognitionProperties` states as safety, the refinement of `CognitionLedger`, and in its last section the timing policy of `HeartbeatTiming` | |
| `OwnershipProofs`, `WakeQueueProofs`, `PersonalProofs`, `AdministrationProofs`, `ExplorationProofs`, `PerceptionProofs`, `ReflectionProofs` | theorems about those modules | |
| `MC*` | values of the constants for TLC | |

### Cognition: state and actions

One action is one database transaction of the code, with everything it calls.
`pc[r]` says which transaction runtime `r` executes next, `local[r]` is what it
remembers from earlier ones: the cycle it runs, the turn, the instant read at
the head of the loop and the attempt it started.

| `pc` | transaction of `run_once` | actions |
| --- | --- | --- |
| `idle` | no process, or one without ownership | `Acquire` |
| `ready` | ensure the heartbeat, requeue orphans, resume the active cycle or claim due wakes | `StartBlocked`, `StartFails`, `Resume`, `Idle`, `Claim` |
| `loop` | reload, check governance, apply a committed decision or settle the budget | `LeaveLoop`, `Reject`, `Apply`, `Settle` |
| `freeze` | freeze the request of the turn in a coherent snapshot | `Frozen`, `Freeze`, `CannotFreeze` |
| `invoke` | governance, model and budget again, then a durable start | `InvokeBlocked`, `Invoke` |
| `call` | after the model call: record what it answered | `AttemptFails`, `Refused`, `Duplicate`, `Decide` |
| `closing` | `RuntimeOwnership.close` | `Close` |

A transaction that ends a cycle goes through `Finish`: the wakes are consumed,
the cycle closed and the heartbeat accounted for; if the accounting refuses,
everything the transaction wrote is lost (`RollBack`).  Wakes are inserted and
merged by `Post`; the heartbeat is ensured by `EnsureHeartbeat` and accounted
for by `Account`.  `Crash`, `SessionLost`, `TransactionFails`, `Reap` and
`NoticeLoss` are the failures; `Administer`, `UpdateGovernance`,
`ReplaceConfig`, `PostWake` and `Tick` are everybody else.

`owner` is the lock that `Ownership` models in detail: there an attempt to own
is one session, and the row it records, the steps of its close and the death of
its process are separate steps.  `Cognition` takes from it that at most one
session holds the lock and that a session which ended never commits again
(`OneOwner` and `OwnersNeverAlternate`, both proved).  Likewise `Post` and the
claim of a batch are single steps here and sequences of statements in
`WakeQueue`.

### Ownership: state and actions

An attempt `a` is one call of `acquire_runtime_ownership` and the close of what
it returned.  `TryLock` and `Refused` are the answer of
`pg_try_advisory_lock`; `RecordStart` marks stale rows and inserts its own in
one transaction; `Begin` and `Commit` stand for all work on the owned
connection; `RecordStop` and `StopFails` are the first half of `close`,
`Unlock` the second, which closes the physical connection whatever happened
before.  `written` is history: who committed work, in order.

### Perception: state and actions

Per binding there are its row (`binding`), the receipts in the order of their
revisions, the observations in the order of their events, and the inbound wakes
(`group`: the row of `inbound_wakes` and that of `wakes` together).

| actor | `pc` | action |
| --- | --- | --- |
| ingester (`ingest_once`) | `snapshot` | `Snapshot`: authority, cursor and checkpoint in one transaction |
| | `poll` | `Poll`, `PollFails`: the file is read with no transaction open |
| | `persist` | `Persist`: the snapshot is compared, the page judged as a whole, then observations, wakes, receipt and checkpoint are written together |
| runner (`claim_or_resume`) | `ready` | `StartBlocked`, `Resume`, `Idle`, `ClaimFails`, `ClaimInbound`, `ClaimBatch` |
| | `cycle` | `FinishCycle`, `LeaveCycle`: all that `Cognition` models in detail |
| administrator | | `Register`, `SetEnabled`, `ChangeLifecycle`, `UpdateGovernance` |
| the outside | | `EditSource`, `PostOrdinary`, `Tick`, `Crash`, `SessionLost`, `Reap` |

`anchor` is what the heartbeat remembers of the last finished cycle, since a
run whose clock is before it is refused (`Starting`, `FinishCycle`); a cycle
keeps the instants of its start and its end, which the validation of its inbound
wake compares.  `CheckpointValid` and `InboundValid` are the checks the code itself makes
before it acts (`validate_checkpoint`, `validate_inbound_wake`): in the model
they are guards, as in the code, and invariants, which says that the program
never locks itself out.  `mem[p].revoked` is history: authority changed while
`p` was fetching.

### Exploration: state and actions

`exploration` is the row of `exploration_state` with the grants, each together
with the wake that carries it, and the outcomes in the order of their
recording.  `cycles` holds what the validation of a grant reads of a cycle: its
instants, its limit, its one turn and the attempts with the instants of their
starts.  The individual's budget policy is reduced to what
`current_exploration_denial` says of it.

| `pc` | transaction of `run_once` | actions |
| --- | --- | --- |
| `ready` | validate, ensure the grant, resume the active cycle, claim ordinary wakes or, when none is due, the grant | `StartFails`, `Resume`, `Idle`, `ClaimOrdinary`, `ClaimGrant` |
| `loop` | apply what was decided, or settle the budget and the denial | `LeaveLoop`, `OrdinaryCycle`, `Apply`, `Settle` |
| `freeze` | freeze the request; policy is not looked at | `Freeze`, `CannotFreeze` |
| `invoke` | governance, denial and budget again, then a durable start | `InvokeBlocked`, `Invoke` |
| `call` | record what the model answered | `AttemptFails`, `Refused`, `Decide` |

`Ensured` is `ensure_exploration`, `Accounted` is `record_exploration_outcome`
and `Materialized` what both share: withdraw what policy no longer grants, or
grant anew.  `StateValid` and `ClockValid` are the checks the code makes of its
own tables before it acts.  As in `Perception` they are guards, as in the code,
and `StateValid` is an invariant too (`ExplorationConsistent`), so no legal
history makes the individual refuse itself.  `SetPolicy`, `ChangeLifecycle` and
`UpdateGovernance` are the administrators, who act between any two
transactions.

### Reflection: state and actions

`target` holds what the candidate queries read of interests, preferences and
layers of self: whether something is staged and when it becomes eligible.
`reflection` is the row of `reflection_state` with the batches, each together
with its wake.  A run that does not get as far as the loop of a cycle is one
step (`Refused`, `Resume`, `Idle`, `Claim`); inside the loop a decision may
stage, restage or settle one target (`Apply`), with or without ending the
cycle, or the cycle fails (`Fails`); `LeaveLoop` is a return, a crash, a lost
session or a rolled back transaction.  `Select` is the rotation through the
families and their cursors, `Ensured`, `Accounted` and `Reconciled` are
`ensure_reflection`, `record_reflection_outcome` and `_reconcile`, and
`StateValid` and `ClockValid` the validation the code makes first.

### WakeQueue: state and actions

`table` is what is committed; `draft[s]` the rows the transaction of session
`s` has locked, as it sees and will commit them, so `Seen` is what a statement
of `s` reads under READ COMMITTED.  `pc[s]` is the next statement.

| `pc` | statement | action |
| --- | --- | --- |
| `insert` | `INSERT ... ON CONFLICT DO NOTHING` on the partial index of pending keys | `Insert`, which waits for sessions whose change of that key is undecided |
| `read`, `take` | `SELECT ... FOR UPDATE` of the pending row | `Read` finds it or tries the insert again; `Take` gets the lock and judges the row anew |
| `look`, `first`, `batch` | peek, lock the earliest with `SKIP LOCKED`, lock and claim the others | `Look`, `First`, `ClaimBatch` |
| `end` | commit | `Commit` |

`BeginPost` is another session, `BeginClaim` the runtime's start, which locks
and supersedes orphans before it posts them anew, `BeginApply` the end of its
cycle, which posts what the decision asked for and consumes the claimed wakes.
`Fail` and `Abort` undo a transaction; `Abort` is the server's answer to a
deadlock.

### Personal: state and actions

`objects` holds the current rows, `history` the revisions, each with what it
started from, what it left, the operation and the turn or call it served.  The
turn goes through `Decide` (record the decision), and later, in another
transaction and possibly after a failure, through the steps below; a call of
the stores by another session takes the same steps with one operation.

| step | code |
| --- | --- |
| `BeginApply`, `BeginCall` | the instant is read, the transaction opened |
| `Plan` | `_lock_individual` (`FOR UPDATE`), then validation and planning of the whole batch against what is committed |
| `Refuse` | a decision that does not fit any more is rejected as a whole, a call raises |
| `Commit` | revisions, rows, applied operations and the turn become visible together |
| `Fail` | crash or lost connection before the commit |

`Allowed` is the guard of one operation by family, `Content` the row it
leaves, `Sound` the guards of a batch; `Anchors`, `Grounded` and `Novel` are
the evidence rules of `stores/development.py`.  Who may act when (ownership,
governance, the cycle) is the matter of `Ownership` and `Cognition`.

### Administration: state and actions

`table` holds the committed rows of the individual, `draft[s]` those session `s`
has locked with what it will commit in them, `sharing` the sessions that have
inserted a reference to the individual's row (PostgreSQL takes `FOR KEY SHARE`
for it) and `log` the events with their audits in the order of their commits;
`seq` is the sequence they draw their numbers from, earlier than they commit.
A call is a script of statements; `todo[s]` is what is left of it.

| statement | code | action |
| --- | --- | --- |
| `individual`, `principal`, `governance` | `SELECT ... FOR UPDATE` of every administrative call, of a run and of a page | `Lock`; `Accepted` has what each may raise |
| `look` | `load_governance`, without a lock | `Look` |
| `status`, `block`, `explore`, `binding` | the change itself | `SetStatus`, `UpdateGovernance`, `SetExploration`, `SetBinding`, `LockBinding` |
| `revise` | `replace_config_revision`, or an early return | `Revise` |
| `born`, `found`, `wake` | `birth` | `Bear`, `Found`, `PostBootstrap` |
| `event` | `append_event` and `record_admin_audit` | `AppendEvent` |
| `redact` | `redact_event_content` of the genesis event | `Redact` |
| `unblock` | `update_governance` by a trusted caller | `UpdateGovernance` |
| `mention` | events the runtime records in the transaction that later finishes its cycle | `Mention` |

A statement waits for `Blockers`; it raises in `Refuse`, a transaction fails
anywhere in `Fail` and ends in `Commit`.  The runtime and the ingester take
their locks here and do the rest in `Cognition` and `Perception`.  The runtime
is the only session that shares the individual's row before it locks it, which
is why there may be one of it only (`OneOwner`).

## 3 Abstractions

Control is kept: guards, early returns, error paths and the order of writes.
Data is abstracted to what the properties tell apart.

* *Decisions* are members of a small set: an identity, whether
  `validate_decision` accepts them, a disposition, the wakes they request and
  the personal operations they carry.  What a personal operation does is left
  to `Personal`; that it is recorded, once and atomically, is not.
* *Identities.* `new_id` never repeats, so new wakes are named after what they
  succeed: `Beat(c)` follows the heartbeat cycle `c` consumed, `Again(w)`
  replaces the superseded `w`.  Ties between wakes due at one instant are
  broken by random UUIDs in the code and are free here.
* *Time* is integral, in units of which `Second` make up a second.  Each
  runtime has a clock `Skew[r]` ahead of the true one.  In `Cognition` the clock
  that is read just before a transaction is taken as that of the transaction.
  In `Perception`, where a stale instant may be refused, it is any instant
  between an earlier reading and the action; an administrator's (`AdminNow`) is
  any instant up to the present.
* *Contexts* are represented by the configuration revision they were frozen
  under.  A revision whose content is activated again has the same name.
* *Sources* are fixtures of `local_json`: a cursor is the content it was made
  for and an offset.  An item is its delivery identity and the fingerprint of
  its content; how both are computed is left out.  A page ends at the item
  limit or, since the byte limit may come first, after any item before it.
* *Row locks.* In `Cognition`, `Locked` is any set of keyed pending wakes some other session is
  merging into, so `SKIP LOCKED` may hide any of them.  A wake of no key is
  never merged into and never hidden.  `WakeQueue` has the locks themselves.
  There `Batch` says what each session posts, and a session posts once.
* *Wording* in `Personal` (titles, terms, narrative, rationale) is one token
  per object; references are sets; an object has one parent and one other
  link.  Bounds on lengths and counts are left out, and so is the span of an
  episode, which may not lie in the future.
* *The freezing transaction* runs under REPEATABLE READ and may fail to
  serialize; `TransactionFails` covers that, and any refused statement in any
  transaction.
* *A commit whose outcome is not known* is a transaction that commits followed
  by `SessionLost`, or one that does not followed by `SessionLost`.
* *The individual* of `Cognition` has no exploration grant, no staged reflection
  candidates and no inbound bindings, so the calls into those parts find nothing
  to do (`Perception` models the bindings and their claim, `Exploration` the
  grants, `Reflection` the batches).
* *Commitments* do not shorten the heartbeat in `Cognition`; they do in
  `HeartbeatTiming`.
* *Governance* is the operational status and the inference block, the two that
  `execution_allowed` reads.  The emergency block sets a flag nothing in this
  state depends on.
* *In `Perception`* the owner lock, as in `Cognition`, is one variable, a cycle
  has no inside, and ordinary wakes neither merge nor hide inbound ones: inbound
  wakes have no key and are written only under ownership.
* *In `Exploration`* `Interrupted` stands for a crash, a lost session or a failed
  transaction at once.  A runtime that was interrupted has lost what it
  remembered and commits nothing more, which `OwnersNeverAlternate` and
  `MemoryIsCurrent` say of the detailed protocols.  A configuration is active
  throughout, as birth leaves it.  Only birth writes a malformed policy, and
  `set_internal_exploration` repairs it.  An ordinary batch is any set of due
  wakes.  A grant is never merged into by another session.  A cycle of a grant
  has one turn, since a decision that continues is rejected there.
* *In `Reflection`* the inside of a cycle is one step, an ordinary batch is
  about one of a few sets of targets (`Subjects`), evidence rules are those of
  `Personal` and left out, and clocks stop at the horizon.
* *In `Administration`* there are one individual, one connector source and one
  administrator, whom nothing in the code revokes.  `update_governance` (apart
  from the emergency block) and `redact_event_content` have trusted callers, none
  of them in the program; each joins one transaction here, the redaction with
  the event it is audited by.  Instants are left out: they are read before the locks and
  need not follow the sequence, for which a connector change may be refused
  (`Refuse`).  Deadlocks cannot happen, so no server breaks them.
* *In `Ownership`* an attempt is made once, and the invalidated flag of the
  client is folded into what the session really is: using a session that is
  gone raises, whether or not the client knew.

## 4 Runs

Deadlock is checked in every run but `personal`, where a course of events comes
to its end.

| run | configuration | distinct states | question |
| --- | --- | --- | --- |
| `recovery` | `CognitionRecovery.cfg` | 329k | Do two runtimes with different limits and clocks recover a cycle and requeue an orphan across crashes, lost sessions and failed transactions, and does all this implement the decision ledger? |
| `governance` | `CognitionGovernance.cfg` | 477k | Do pauses, blocks and new configurations between any two transactions leave claims, frozen requests and heartbeat as they must be, and does every cycle end and the heartbeat return once execution is allowed for good? |
| `heartbeat_timing` | `HeartbeatTiming.cfg` | 1.2k | Do the timing functions agree with their reference, to the end of the calendar? |
| `ownership` | `Ownership.cfg` | 372k | Do owners exclude and succeed each other, and is the lock always given up?  Four attempts, three individuals, two of which share a key, two faults. |
| `perception_ingest` | `PerceptionIngest.cfg` | 1.44M | Is evidence exactly what lies before the checkpoint, under redelivery, conflict, edits, faults and revocation? |
| `perception_claims` | `PerceptionClaims.cfg` | 463k | Do inbound wakes pass their own validation, whoever seals them and whosever clock is ahead, and is every one attended to? |
| `exploration` | `Exploration.cfg` | 210k | Do grants, outcomes and cadence stay valid when runtimes with other limits and clocks take over, does a withdrawn policy stop what it must, and does the allowance settle and return, while policy, lifecycle and governance change? |
| `administration` | `Administration.cfg` | 768k | Are audits exact, does the evidence replay to the state, and does nobody wait in a circle, when births, operators, reconciliations, redactions, a runtime and an ingester meet statement by statement? |
| `reflection` | `Reflection.cfg` | 512k | Do reviews stay valid, a day apart, in rotation and worthwhile, and do they return, while targets change under a waiting batch? |
| `wake_queue` | `WakeQueue.cfg` | 41k | Does the queue, statement by statement, implement a box that hands out each request once, in order, with nobody waiting for ever? |
| `personal` | `Personal.cfg` | 337k | Is personal history gapless and a decision whole or nothing under concurrent calls and crashes, and is everything established earned? |
| `perception_skew` | `PerceptionSkew.cfg` | violation | Does the validation of inbound wakes also hold when the host that finishes a cycle is behind the one that claimed it? (no, see below) |

### Where the code and its checker disagree

`finish_cycle` takes the end of a cycle from the clock of the host that
finishes it and compares it with the end of the previous cycle only.  If the
host that claimed an inbound wake was ahead and the one that resumes and ends
the cycle is behind, the cycle ends before it began, and from then on
`validate_inbound_wake`, which `db/perception_checks.py` applies to every
consumed wake, reports "Consumed inbound wake lacks its terminal cycle".
`perception_skew` finds this with two runners and no other fault than the loss
of the first; in `perception_claims`, where one runner's clock claims and
finishes, the same invariant holds.  The program itself reads no consumed wake
again, so only the report is affected.

The attempts of an exploration can lie before the start of their cycle for the
same reason: `start_invocation` compares its clock with the deadline alone,
while `db/exploration_checks.py:273` expects it not to precede the start.  That
comparison is therefore no part of `AllowanceKept`, which otherwise states what
`_check_attempts` demands: attempts within the limit, and before the deadline,
that were frozen with the cycle.

A dormant interest may be established again at any time, also by a host whose
clock is behind that of the one that created it.  Its row then has
`updated_at` before `promotion_not_before`, which the `development_eligibility`
rule of `db/personal_checks.py` reports.  `InterpretationsConsistent` states that
rule for every interest that never slept.

### Bounds, and why they are enough

* `MaxCycles` (1 or 2; 3 in `reflection`, where a target has to be
  reviewed, to wait its turn and to be reviewed again).  Cycles interact only
  through the queue, the heartbeat and `applied_operations`, each of which needs
  a predecessor and a successor.
  Runs about one cycle and its recovery take one, the others two.
* `Horizon` (1 to 4) and limits of one or two seconds: a deadline lies before,
  at and after the instants the runs reach.  Past the horizon, and when no
  cycle is left, `Exhausted` makes every due wake count as locked, so the
  bound is a schedule the code allows and never a deadlock.  Attempts carry
  their instant only in `Exploration`, so it is `AllowanceKept` that sees an
  attempt started after a deadline that passed since the loop was entered;
  `start_invocation` is the same code for every cycle.
* `MaxFaults` is 2 in `recovery` and `ownership`, for a fault that leaves
  something half done and one that interrupts its recovery; 1 in
  `perception_ingest`, `perception_skew` and `wake_queue`; 0 in `governance` and
  `perception_claims`, which ask about changes and clocks.
* `MaxAdminSteps` is 3 in `governance`: a first configuration, a pause and a
  resume, or either with a second configuration; the repair of what a pause
  deferred needs two.  It is 2 in `perception_ingest`, for a disablement and its
  undoing or one of them and an edit of the source; 1 in `perception_claims`, for
  the registration, and in `reflection`; 0 in `recovery` and `perception_skew`.
* Limits: one runtime allows two turns of one attempt, the other one turn of
  two attempts, so a successor always has other limits than the cycle
  it resumes.
* Decisions: one that continues and requests, one that repeats an identity, one
  that the validation refuses, one that carries a personal operation, one with
  two requests under one key.
* Inbound wakes hold two references, so that a page of three items fills one
  and opens another; the code's limit only scales this.  Contents: three
  distinct items; a redelivery inside a page and one across pages; one identity
  with two contents, which an edit of the source brings in half way.
* `Cadence = 2`, `Horizon = 3` in `exploration`: a grant is used
  or withdrawn, its cadence passes and the next one is used.  `MaxAttempts = 2`
  and `MaxSeconds = 2` lie between the limits of the two runtimes (1 and 3), so
  one claims with less than a grant allows and the other is capped by it.
  `Scenes` are four beginnings: two runtimes and one interruption, two runtimes
  and one administrative change, an ordinary wake and one change, and two
  changes from a policy that is enabled, disabled or malformed at birth.
* `MaxCalls = 4` in `administration`: two births that race, and whatever two
  sessions of one user do after one of them, who is the administrator or is
  not; the longest history takes a birth, a change, its undoing and a redaction
  or a repetition.  The calls of runtime and ingester and the failures are not
  bounded.  Two configurations replace each other and recur.
* `WakeQueue`: two posters and the runtime's decision use two keys in opposite
  orders, so every pair may deadlock, and two orphans are requeued under the
  same keys; `MaxWakes = 2` lets a claim take a keyed and an unkeyed wake and
  leave a third.  One failure undoes any one transaction; deadlocks are not
  bounded.
* `Personal`: `Courses` are four lives of twelve decisions over thirteen objects.
  In two, claims about the self and inclinations mature (`Day = 1`, `Week = 2`,
  three or four ticks) with evidence before, at and after the delay, a replaced
  claim that comes back, sleep and retirement.  In the third, four batches over
  all the objects meet two calls of another session and one failure, in any
  order, over one tick.  In the fourth, with one call and one failure, a decision
  names an operation of an earlier one again (`echo`), and is refused with
  everything else in its batch.  Two sessions with different clocks act in all of
  them.
* `reflection` has two targets of one family in batches of one: enough for a
  target to wait its turn, be settled while a batch with it waits, and come back.
  Batches that mix families, each of which goes on from its own cursor, larger
  batches and any number of targets rest on the theorems of `ReflectionProofs`,
  none of which bounds them.
* `governance`, which checks `SchedulerConsistent`, has one runtime.  Hosts whose
  clock is behind the anchor the other left are the theorem
  `SchedulerStaysConsistent`, for any clocks.  With two runtimes whose clocks
  differ the horizon would stop the one behind for good, and the liveness
  properties would fail for a bound, not for the code.
* `Second = 2`, `MaxUtc = 12` in `heartbeat_timing`: minima below, at and above
  a second, and every anchor up to the last instant.

### Fairness

`CycleTerminates` and `HeartbeatResumes` assume weak fairness of three things:
of each `Runtime(r)`, because `run` is invoked again and again by an operator
(its one invocation ends after `run_once`); of `Reap`, because PostgreSQL
ends the session of a dead client; of `Tick`, because time passes.  Nothing is
assumed of the model (it may fail for ever), of the administrator or of
posters.  The properties are conditional on execution being allowed for good,
as nothing obliges anyone to resume.  What ends a cycle whose frozen model is
bound by no runtime is the deadline alone, judged before the adapter is looked
at: the run gives the configurations two models and binds the runtime to one.

`InboundAttended` assumes weak fairness of what a process that has started
does, of `Reap` and `Tick`, and strong fairness of a runner's `Acquire` (ingest
commands and runs come at times of their own, so a run finds the lock free
sooner or later), of its claim (an ordinary wake that is locked, or a clock
that is behind, is not so for ever) and of `FinishCycle`: a cycle that is
resumed again and again ends, which is `CycleTerminates` of `Cognition`.

`DenialSettles` and `AllowanceReturns` assume weak fairness of what a run does
and of time, and strong fairness of the start of each runtime (an operator starts
every one again and again, so it finds the lock free sooner or later), of the
claim of ordinary wakes (locked ones are not so for ever) and of the end of an
ordinary cycle, as above.  The model may
go on failing.

`ReviewReturns` assumes weak fairness of runs and of time, and that a cycle that
can be ended again and again ends, as above; it is conditional on execution
being allowed and something staying staged for good.

`EveryoneServed` assumes that deadlocks are noticed and time passes (weak), and
strong fairness of each session's steps: PostgreSQL wakes a waiter when the
transaction it waits for ends, so a waiter that could go on again and again is
not passed over for ever.  Without a bound on failures the loop of the merge
could be undone for ever; `MaxFaults` bounds them.

`AuthorityRelinquished` assumes that a process that lives goes on with its
close and, again, that the server notices dead ones.

## 5 Proofs

`tlapm` checks every leaf.  The theorems hold for every number of attempts,
individuals, runtimes, cycles and configurations and every policy.  Every invariant
and every action property of the runs is proved, the two refinements with them; the
one theorem with a hypothesis on the constants is `InboundConsistent`, and a run
shows that it fails without.

**Ownership** (`OwnershipProofs`).  `OneOwner` is not inductive: it needs
`LockInvariant` (a lock is held only by a live session of an attempt for an
individual with that key, and an attempt past `new` with a live session holds
the lock of its individual).  `RowsFollowLock` follows with `RowsInvariant`
(a row that is `starting` belongs to an attempt that got at least as far, and
every earlier one of the individual has been marked).  `OwnersNeverAlternate`
is proved from an invariant that says the last to have written is the only one
that may write without appending, and that who has written before the last has
no live session (`FencedSuccession`).  Assumptions: those named in
`Ownership.tla`, types of the constants only.

**Heartbeat** (last section of `CognitionProofs`).  The interval stays between the effective
bounds; quiet cycles back off monotonically; the schedule is the earliest
useful instant, for every anchor, interval and commitment.  The code's quotient
comparison is the product here; both are exact on integers.

**Types of the cycle** (first part of `CognitionProofs`).  `TypeOK` is not inductive by itself:
a runtime indexes `turn` by what it remembers, so `CycleTypes` strengthens it with
the fact that the remembered cycle and ordinal exist, that an attempt remembered
by a runtime in `call` exists, and that only a started cycle has turns.  The proof
has one lemma per transaction and rests on lemmas about `Post`,
`EnsureHeartbeat`, `Account` and `Finish` that the later invariants cite.

**Cycle** (`CognitionProofs`).  All safety that `CognitionProperties` states is
proved, and the refinement.  The actions are many, what they do to a turn or to
a wake is not, so the proofs go through the shape of a step: cycles, turns and
operations change in one of seven ways (`Shape`), wakes and the heartbeat in
five (`WakeShape`), and every invariant is kept by the shapes.

* `TurnInv` says of the turns: one cycle is active and its latest turn alone is
  unfinished; only the last attempt of a turn may be in progress or completed;
  a decision is there exactly when one completed.  None of this is inductive
  without the owner's memory (`MemorySound`): a runtime inside a turn holds the
  latest turn of the active cycle, still open, and in `call` a positive attempt
  that is in progress.  That the attempt is positive rules out a runtime that
  has the number of an attempt it never made.  `MemoryIsCurrent`,
  `DecisionNeverResampled` and `ContextStaysFrozen` follow.
* `EffectsSound` says turn by turn which operations are recorded for it, and
  that the attention row counts the turns whose effects are (`Enacted`);
  `AppliedExactlyOnce` follows.
* `CycleRefinesLedger`: each step opens a turn, decides, judges, applies or
  fails one, or is none, in the sense of `DecisionLedger`.
* `WakeInv` adds the wakes.  A wake's status follows the cycle it is linked to
  (`ClaimRows`).  The beats are in line (`InLine`): each is named after the cycle
  that consumed the one before, the managed one is the last, and all earlier
  ones are spent.  Without that order nothing says that a beat about to be
  inserted is not there already.  What is retained fits policy (`Retained`), a
  beat that is missing or spent is owed (`Deferred`), and unless a cycle is
  active the managed one is pending at the instant of the schedule or owed
  (`OnTime`).  `CyclesConsistent`, `WithinLimits`, `SchedulerConsistent` and
  `PauseHonoured` follow.

The assumptions are those of `Cognition.tla`.  Two are more than types, and both
are about what the database is: names stand for fresh UUIDs, so no two of them
are the same wake (`IdentityAssumption`), and the tables are finite
(`FiniteAssumption`).  `AppliedExactlyOnce` had to be corrected for the proof: it
counted the applied turns up to a bound that only the limits of the runs respect.

**Wake queue** (`WakeQueueProofs`).  `OneRowPerKey` is inductive only with
`IInv`: types, and the fact that a new pending row of a key is drafted
only where no undecided change of that key exists, so that what two
transactions see cannot both become true.  One lemma per statement.  The rest
needs `QueueInv`, since a merge is judged by the transaction that makes it
and seen by others when it commits.  It has for every transaction what it is there
to post (`Owns`), where that is by now (`PostSound`: still to be posted, or in a row
it holds), and how rows it holds differ from those committed (`DraftSound`).
No two transactions own the same request, hence what one commits is in no row
another holds or sees (`OneHome`).  `DueWithEarliest` and `ClaimsInOrder` follow,
and the refinement to `PostBox`: a commit of a poster delivers its batch, that of a
claim hands out or renews, any other step is none.  It holds for every set of
sessions, requests, keys, orphans and failures.  Assumptions: those of
`WakeQueue.tla`; besides types, the wakes are finitely many and requests are told
apart by what they carry (`RequestsDiffer`: wakes have fresh identities).

**Administration** (`AdministrationProofs`).  `NoCircularWait` rests on
`LockInvariant`: every script keeps one order of its statements (`Ordered`), what
is locked comes before what is left to do (`Behind`), all but the redacted content
and a lone change of governance is locked under the individual's row (`Covered`),
that row has one holder and is not shared meanwhile (`Exclusive`), and only the
runtime locks it while it shares it (`Upgrades`).  Whoever waits in a circle then
waits for the individual's row, whoever holds that waits for nobody in the
circle, and of those that only share it one at most can wait.

`AuditsAreExact` needs `AuditInvariant`, which speaks of transactions that are not
committed yet, since an event is inserted some statements before its commit.
By the time it is inserted, what it tells of is locked (`Reached`); what it then says
of before is what is committed and of after what the transaction sees
(`EntrySound`), and stays so because nobody else has locked those rows
(`Exclusive`, `Covered`, `GovernanceAlone`).  An emergency block is the hard case: it
reads governance before it locks it, and an ordinary change of governance is not
made under the individual's row.  What it read may be old; it is accepted only
at the same revision, which every change moves on (`SawSound`, `GovernanceMoves`).
The converse, that nothing changes untold, is `Changes` (what a call changes is
what it tells of), `EventDue` (the event comes before the commit unless nothing is
revised) and `Lives` (after birth there is no other birth).

`EvidenceReplays` reads the whole log by its sequence; what it says of the last event
of a kind is about the rows, so it needs what transactions have drafted before they
commit.  `HistoryInvariant` orders the log by its commits instead (`Recorded`):

* apart from redactions, which are not made under the individual's row, events commit in
  the order of their numbers (`Ascends`), since a number is drawn under that row's
  lock and is later than those committed before (`Numbered`);
* birth is the first of all, a redaction included, because nothing but a birth finds an
  individual that is not born (`Genesis`, `Present`);
* what an event found is what the one before it of the same kind left (`Chained`).
  The step is exactly what `AuditInvariant` says of an entry that is not committed yet;
* the configurations are those told, none twice running (`Listed`): whoever appends
  one has locked the revisions and drafted them from what is committed (`Revising`);
* the content bears the number of the first redaction that committed
  (`FirstRedaction`, `Redacting`), whose row only one session holds (`ContentAlone`).

That the two orders agree, and that the position of a configuration can be counted
from either end, is `HistoryReplays`.

All three hold for any number of operators and of failures.  The assumptions say that
the runtime is one session and keep values apart: `Unlocked`, which stands in a
draft for a row that is not locked, is no row of any kind.

**Personal state** (`PersonalProofs`).  `HistoryComplete` needs
`PersonalInvariant`: only the holder of the individual's lock has planned, and
what it planned starts from exactly what is committed.  Without the lock the
second half breaks as soon as another session commits.

* `WholeOrNothing` needs `Current`: a decision that is being applied is recorded,
  not applied, and in one transaction only (`WorkSound`), and what was planned
  under the lock is still what would be planned (`PlansCurrent`).  That holds
  because nothing a plan was judged by is ever taken back: time only goes on,
  what an object was made from stays in its history, and the rows of the plan are
  those the lock protects (`Grows`, `RevisionsStay`).  The property itself was
  wrong before the proof: it said that an operation is used exactly when the
  decision that names it took effect, which fails when a second decision names it
  again.  It now counts the revisions of a decision, and says that the used
  operations are those of the applied decisions and belong to one each.
* `DevelopmentEarned` is about histories; to be inductive it needs what the
  current row carries towards the next revision: an emerging interest or preference has the
  delay of its first evidence (`Ripening`), a staged change has the instant
  and the evidence it was staged with (`Staging`).
* `InterpretationsConsistent` needs that only the last revision is final
  (`Concluded`), that what a row is tied to had a row before it (`LinksKnown`), and per
  family what the rules of `db/personal_checks.py` rest on (`BeliefSound`,
  `SocialSound`, `LayerSound`, `InclinationSound`).

Operations are any that pass through the schema: they name objects that exist,
have a text and cite evidence (`OperationAssumption`); events, objects and
revisions are told apart (`EventAssumption`).

**Exploration** (`ExplorationProofs`).  The allowance is a function of two rows,
the state of exploration and the cycles, which most operators read in one form and
leave in another within one transaction (a finished grant is consumed, accounted
for, freed and granted anew).  So the invariant (`Sound`) is stated of any two
such values, one lemma per operator says that it keeps it (`GrantedSound`,
`CancelledSound`, `FreedSound`, `CompletedSound`, then `MaterializedSound`,
`EnsuredSound`, `AccountedSound`), and one lemma per action puts them together.

* What `validate_exploration_state` requires is not inductive: it looks at the
  managed grant and the last outcome only.  `Sound` adds all the others.  A grant
  that is pending or claimed is the managed one and comes no earlier than
  `next`, and a cadence after every outcome of an earlier grant (`GrantsSound`);
  outcomes are in the order of their instants and one to a grant
  (`OutcomesSound`); what is managed is the last grant, and the retained pointers
  are the last of each (`PointersSound`); a claimed or consumed grant has one
  cycle, within it and as far as it (`CyclesSound`), and the attempts of that
  began before its deadline (`AttemptsSound`).  That a sound state is valid is
  a lemma (`SoundIsValid`); so the check a run begins with cannot fail for what the
  runs before it left, which is `ExplorationConsistent`.
* The clocks of the hosts disagree by any `Skew`.  That the order of the outcomes
  survives rests on `ClockValid`, which each of the steps that write an instant has
  checked before.
* `AllowanceKept` follows from `Sound`: a cycle starts no earlier than its grant
  allows, hence a cadence after each earlier outcome, with limits within those of
  the grant (`CyclesSound`), and `Spent` judges every attempt by the limits of the
  cycle (`AttemptsSound`), never by those of the runtime that continues it.
* `StartsOnlyWhenAllowed` is about steps: all but `ClaimGrant` and `Invoke` leave the
  cycles of grants and the number of their attempts alone.

Assumptions: those of `Exploration.tla`, types of the constants and that cadence,
limits and seconds are positive.

**Perception** (`PerceptionProofs`).  `CheckpointMatchesEvidence` compares what is
observed with what lies before the checkpoint, but a page is polled in one step
and written in a later one, by a process that remembers both ends of it.
`InboundStaysSound` therefore adds what ingesters hold (`FetchSound`):

* a page is the stretch of one content between the cursor of the snapshot and the
  next one (`PageSound`).  It extends the evidence only if the snapshot is still
  current, and then the cursor of the snapshot is the checkpoint;
* epochs and the revision of a binding never go back, and if authority changed since a
  snapshot, one of them is beyond what the snapshot has (`SnapshotSound`, kept by
  `Onward`).  A change that was undone has moved them twice.

That a page is filed whole, each new identity once, is a lemma about the recursive
function `Filings` (`PageTaken`).  Induction over the items of a page is out of the
provers' reach, so it goes by the least counterexample (`LeastExists`): were some
prefix of a page filed wrongly, the shortest such prefix would extend one filed right
by one item, which `AddNewTakes` excludes.  `EvidenceIsExact` is then the last
conjunct of the invariant; `RevokedPagesAreDropped` follows from `SnapshotSound`
and the comparison of snapshots in `PersistAllowed`: only `Persist` adds a receipt,
for the binding of its ingester, and a snapshot equal to what is committed has
seen no change of authority.  Both hold for any contents of the sources, page
sizes, processes, clocks and failures; the assumptions are types, and that `NoCursor`
is no cursor.

`InboundConsistent` is about the groups of observations that become wakes, and holds
while the clocks of the runners agree: with a runner behind the others a cycle ends
before it started, which is what `perception_skew` finds.  `InboundStaysWhole` says so
as a hypothesis on `Skew` and speaks of the runners only; ingesters may be as far apart
as they like.  It adds to the invariant above:

* what `InboundConsistent` says, binding by binding, and that a group that waits was not
  consumed (`WholeOf`).  A group lists exactly its members, and their receipts are
  recorded between its creation and its sealing; so a group that is open was created
  no later than its binding was last changed, which is what sealing it relies on;
* no cycle has a group that is not there (`CyclesKnown`): otherwise the group a page is
  about to open might have a cycle already;
* no runner's clock is behind the start of the cycle that runs (`Timely`).  This is
  the one part that needs the hypothesis, since whoever resumes a cycle ends it.

Beyond types the assumptions are that names of ordinary wakes are not names of groups
(`WakeAssumption`: both are fresh identities) and that time reaches at least the
instant it starts at.

**Reflection** (`ReflectionProofs`).  As for exploration, one operator reads the state,
withdraws, completes and selects anew within one transaction, so the parts of the
invariant are stated of any state, cycles and targets.  Nothing is assumed of the
clocks.

* `Sound` has what `validate_reflection_state` requires, which looks at the managed
  batch only, and what `ReflectionConsistent` says of every batch (`Kept`).  It needs
  `Numbered`: what is managed is the last batch made, only the last cycle may be
  running, and rows refer to rows there are.  A batch that is live is then the managed
  one, and a cycle that ends cannot end another's.
* A review is over before what comes after it is selected, and a day before `next`
  (`Rested`).  A clock behind what is retained would break that, and `_validate_clock`
  refuses one when a run starts; the runtime in the loop has passed it, and its own clock
  does not go back (`Attended`).
* `RotationIsFair` looks back over all batches between two reviews of one target.
  To be inductive it needs where the cursors are.  What a review passed over
  (`Overlooked`: staged, due then, and staged still) and no batch since has held comes
  before all that it reviewed in the order from the cursors (`NextInLine`); a live
  batch is what comes first in that order (`FirstInLine`).  When a batch is accounted for
  the cursors move to its last reference of each family, and what came after that, now
  comes before all that it held (`CursorMoves`).  Withdrawal leaves the cursors
  alone, and what is staged anew is eligible a day later, so it was never passed over
  (`DevelopedRotating`).
* That `Select` returns the first of the eligible targets, without repetition and in
  order, is `Selected`.  It counts, for each, those with an earlier turn.  That every
  place is taken (`PlacesTaken`) follows from the theorem that an injection of a finite
  set into one as large is onto.
* `ReviewsWorthwhile` is about steps: only `Claim` puts a batch before the individual,
  no earlier than its due date, which is no earlier than `next`.

The assumptions are types, and that the batch limit and the day are positive.

**What is only model-checked.**  Liveness: the prover has no support for fairness and
`ENABLED`, so `CycleTerminates`, `HeartbeatResumes`, `AuthorityRelinquished`,
`InboundAttended`, `DenialSettles`, `AllowanceReturns`, `ReviewReturns` and
`EveryoneServed` stay with TLC.  The other way round, `TypeOK` of `Cognition`,
`RowsFollowLock` and `BackoffMonotone` are proved and, being so, checked by no run any
more.

## 6 Not modelled

Adapters, protocols and parsing (I/O; a reply is a member of `Decisions`, a
failure or a refusal), schema and migrations (declarations, whose constraints
are conjuncts of the invariants), the command line apart from its `run`, test
doubles, and logging.  A configuration whose frozen contract is incompatible
with a newer executive ends a run before it touches anything and is left out.
The selection and packing of contexts is a pure function of a snapshot: the cycle
only needs to know that it may be beyond the budget.  `PROJECT.json` gives the status of each component.

## 7 Plan

What would come next: the packing of contexts, as a function checked against a
reference definition.
