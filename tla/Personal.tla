------------------------------ MODULE Personal ------------------------------
(***************************************************************************)
(* The personal state of an individual: goals, projects, commitments,      *)
(* beliefs, episodes, entities, relationships and their threads, and the   *)
(* gradually established interests, preferences and layers of self         *)
(* (stores/personal.py, stores/personal_core.py, stores/development.py,    *)
(* stores/executive_personal.py, stores/relationships.py).                 *)
(*                                                                         *)
(* A decision of the model carries a batch of operations.  It is recorded  *)
(* in one transaction and applied in a later one, possibly by another      *)
(* runtime after a crash, while other sessions write through the stores.   *)
(* Every transaction plans under a lock on the individual's row against    *)
(* what is committed, and writes all of its plan or nothing.               *)
(*                                                                         *)
(* Abstractions: the wording of an object (titles, terms, narrative,       *)
(* rationale) is one token, text; lists of references are sets; the links  *)
(* of an object are one parent and, for a thread, one commitment.          *)
(***************************************************************************)
EXTENDS Integers, Sequences, FiniteSets, TLC

CONSTANTS
    Objects, KindOf,    \* identities of objects, and the family of each
    Events, Sensed,     \* events from outside, and those of a connector or capability
    Arrival,            \* Arrival[e]: when the event e is recorded
    Turns, Decisions,   \* cognition turns: [ops, attends] is what each decides
    Calls,              \* what other sessions ask of the stores
    Sessions, NoSession,
    Skew,               \* Skew[s]: how far the clock of s's host is off
    Day, Week,          \* _DAY and _WEEK
    None,               \* null
    Courses             \* bounds: what may happen in one course of events is the
                        \* decisions made, the numbers of transactions of other
                        \* sessions, of failed ones, and of ticks of the clock

Kinds == {"goal", "project", "commitment", "belief", "episode", "entity",
          "relationship", "relationship_thread", "interest", "preference",
          "current_identity", "narrative", "self_belief"}

ASSUME FamilyAssumption  == KindOf \in [Objects -> Kinds] /\ None \notin Objects
ASSUME WorkAssumption    == /\ Turns \cap Calls = {} /\ NoSession \notin Sessions
                            /\ None \notin Turns
                            /\ \A c \in Calls : KindOf[c.target] \in {"entity", "project",
                                   "relationship", "relationship_thread"}
ASSUME EventAssumption   == /\ Sensed \subseteq Events /\ Events \cap Objects = {}
                            /\ Events \cap (Objects \X Nat) = {}
                            /\ Objects \cap (Objects \X Nat) = {}
                            /\ Arrival \in [Events -> Nat] /\ None \notin Nat
ASSUME DelayAssumption   == Day \in Nat \ {0} /\ Week \in Nat /\ Day <= Week
ASSUME ClockAssumption   == Skew \in [Sessions -> Nat]
ASSUME PersonalBounds    ==
    Courses \subseteq [turns : SUBSET Turns, calls : Nat, faults : Nat, ticks : Nat]

VARIABLES
    clock,
    objects,    \* the current row of every object
    history,    \* personal_state_revisions, with the event of each
    turns,      \* the status of cognition_turns
    used,       \* applied_operations
    txn,        \* the transaction of every session
    lock,       \* who holds the individual's row FOR UPDATE
    budget      \* bounds: calls, failures and ticks still to come

store == <<objects, history, turns, used>>
vars  == <<clock, store, txn, lock, budget>>

-----------------------------------------------------------------------------
(* Status machines *)

ObjectiveNext ==
    [active    |-> {"paused", "blocked", "completed", "abandoned"},
     paused    |-> {"active", "blocked", "completed", "abandoned"},
     blocked   |-> {"active", "paused", "completed", "abandoned"},
     completed |-> {}, abandoned |-> {}]

CommitmentNext ==
    [proposed |-> {"active", "released"},
     active   |-> {"fulfilled", "released", "broken", "disputed"},
     disputed |-> {"active", "released", "broken", "fulfilled"},
     fulfilled |-> {}, released |-> {}, broken |-> {}]

BeliefNext ==
    [tentative |-> {"accepted", "disputed", "withdrawn"},
     accepted  |-> {"tentative", "disputed", "withdrawn"},
     disputed  |-> {"tentative", "accepted", "withdrawn"},
     superseded |-> {}, withdrawn |-> {}]

ThreadNext == [open |-> {"resolved", "abandoned"}, resolved |-> {}, abandoned |-> {}]

Following ==
    [goal |-> ObjectiveNext, project |-> ObjectiveNext, commitment |-> CommitmentNext,
     belief |-> BeliefNext, relationship_thread |-> ThreadNext]

\* The statuses an object may be created with, the default first.
Starts ==
    [goal |-> <<"active", "paused", "blocked">>, project |-> <<"active", "paused", "blocked">>,
     commitment |-> <<"proposed", "active">>, relationship_thread |-> <<"open">>,
     belief |-> <<"tentative", "accepted", "disputed">>,
     interest |-> <<"candidate">>, preference |-> <<"tentative">>]

Objectives == {"goal", "project", "commitment"}
Immediate  == {"current_identity", "narrative"}
Layers     == Immediate \cup {"self_belief"}

Final(kind, status) ==
    \/ kind \in DOMAIN Following /\ Following[kind][status] = {}
    \/ kind \in {"interest", "preference"} /\ status = "retired"

-----------------------------------------------------------------------------
(* References and original events *)

NoRow == << >>      \* an object that was not created yet

Row(op) == objects[op.target]
Kind(op) == KindOf[op.target]

\* The event of the n-th revision of o is <<o, n>>.
Recorded(r) ==
    CASE r \in Events -> IF clock >= Arrival[r] THEN Arrival[r] ELSE None
      [] r \in Objects \X Nat -> IF r[2] \in DOMAIN history[r[1]]
                                 THEN history[r[1]][r[2]].at ELSE None

Known(r) == IF r \in Objects THEN objects[r] # NoRow ELSE Recorded(r) # None

\* Events from outside count, and the model's own choices of goals and commitments.
Eligible(r) ==
    \/ r \in Sensed
    \/ /\ r \notin Events
       /\ KindOf[r[1]] \in {"goal", "commitment"}
       /\ history[r[1]][r[2]].work \in Turns

\* An episode stands for the events it cites.
Expanded(refs) ==
    refs \cup UNION {objects[e].refs : e \in {r \in refs \cap Objects :
                                              KindOf[r] = "episode" /\ objects[r] # NoRow}}

Anchors(refs, now) ==
    {r \in Expanded(refs) \ Objects :
        Recorded(r) # None /\ Recorded(r) <= now /\ Eligible(r)}

Separated(anchors) == \E x, y \in anchors : Recorded(y) - Recorded(x) >= Day

Grounded(refs, now) == Separated(Anchors(refs, now))

Novel(old, refs, now) == Anchors(refs, now) \ Anchors(old, now) # {}

-----------------------------------------------------------------------------
(* What one operation asks, whether it may, and the row it leaves *)

Given(value, old) == IF value = None THEN old ELSE value

Wanted(op) == Given(op.status, IF Kind(op) \in DOMAIN Starts THEN Starts[Kind(op)][1] ELSE None)

Fresh(op, now) ==
    [status |-> Wanted(op), text |-> op.text, parent |-> op.parent, link |-> op.link,
     refs |-> IF Kind(op) = "entity" THEN {} ELSE op.refs, against |-> op.against,
     notBefore |-> None, retirement |-> None, pending |-> None, pendingRefs |-> {},
     created |-> now, updated |-> now, revision |-> 1]

\* Every family stamps the row it writes.
Stamped(row, old, now) ==
    LET stamp == [updated |-> now, revision |-> IF old = NoRow THEN 1 ELSE old.revision + 1]
    IN  [f \in DOMAIN row \cup DOMAIN stamp |-> IF f \in DOMAIN stamp THEN stamp[f] ELSE row[f]]

Rewritten(op) ==
    [Row(op) EXCEPT !.status = Given(op.status, @), !.text = op.text,
                    !.parent = Given(op.parent, @), !.link = Given(op.link, @),
                    !.refs = IF Kind(op) = "entity" THEN @ ELSE op.refs]

Creatable(op) ==
    /\ Row(op) = NoRow
    /\ Kind(op) \in DOMAIN Starts => Wanted(op) \in {Starts[Kind(op)][i] : i \in DOMAIN Starts[Kind(op)]}

CreateAllowed(op) == op.act = "create" /\ Creatable(op)

\* A clock behind the last revision is refused, where the family checks it.
Retrograde(op, now, byModel) ==
    /\ Row(op) # NoRow /\ now < Row(op).updated
    /\ \/ Kind(op) \in {"relationship", "relationship_thread"}
       \/ byModel /\ Kind(op) \in {"entity", "project"}

\* Goals, projects and commitments.  The stores, unlike a decision, may revise
\* wording and status at once.
ObjectiveAllowed(op, byModel) ==
    \/ CreateAllowed(op)
    \/ /\ Row(op) # NoRow /\ Following[Kind(op)][Row(op).status] # {}
       /\ \/ /\ op.act = "set_status" /\ byModel
             /\ op.parent = None /\ op.link = None
             /\ op.status \in Following[Kind(op)][Row(op).status]
          \/ /\ op.act = "revise"
             /\ op.status # None => ~byModel /\ op.status \in Following[Kind(op)][Row(op).status]
             /\ Rewritten(op) # Row(op)

\* A thread belongs to one relationship for good; the stores may conclude it
\* with its last wording.
ThreadAllowed(op, byModel) ==
    /\ op.refs # {}
    /\ \/ CreateAllowed(op) /\ op.parent # None
       \/ /\ Row(op) # NoRow /\ Row(op).status = "open" /\ op.parent = None
          /\ \/ /\ op.act = "set_status" /\ byModel
                /\ op.link = None /\ op.status \in ThreadNext["open"]
             \/ /\ op.act = "revise"
                /\ op.status # None => ~byModel /\ op.status \in DOMAIN ThreadNext
                /\ Rewritten(op) # Row(op)

EntityAllowed(op) ==
    \/ CreateAllowed(op)
    \/ op.act = "revise" /\ Row(op) # NoRow /\ Rewritten(op) # Row(op)

\* An entity is interpreted by one relationship.
RelationshipAllowed(op) ==
    /\ op.refs # {}
    /\ \/ /\ CreateAllowed(op) /\ op.parent # None
          /\ ~ \E r \in Objects : /\ KindOf[r] = "relationship" /\ objects[r] # NoRow
                                  /\ objects[r].parent = op.parent
       \/ op.act = "revise" /\ op.parent = None /\ Row(op) # NoRow /\ Rewritten(op) # Row(op)

EpisodeAllowed(op) == CreateAllowed(op) /\ op.refs # {}

BeliefRow(op, now) ==
    IF op.act = "set_status"
    THEN [Row(op) EXCEPT !.status = op.status, !.text = op.text,
                         !.refs = @ \cup op.refs, !.against = @ \cup op.against]
    ELSE Fresh(op, now)

BeliefAllowed(op, now) ==
    LET row == BeliefRow(op, now)
    IN  /\ \/ op.act = "set_status" /\ Row(op) # NoRow /\ op.status \in BeliefNext[Row(op).status]
           \/ CreateAllowed(op) /\ op.parent = None
           \/ /\ op.act = "supersede" /\ Creatable(op)
              /\ op.parent # None /\ objects[op.parent] # NoRow
              /\ objects[op.parent].status \notin {"superseded", "withdrawn"}
              /\ op.refs \cup op.against # {}
        /\ row.status = "accepted" => row.refs # {}
        /\ row.status = "disputed" => row.against # {}

-----------------------------------------------------------------------------
(* Gradual development *)

\* What an interest or a preference starts as, and what it is retired from.
Tentative(kind) == Starts[kind][1]
Retirable(kind) == IF kind = "interest" THEN "dormant" ELSE "established"

InclinationAllowed(op, now, attends) ==
    LET row == Row(op)
        all == row.refs \cup op.refs
    IN  \/ CreateAllowed(op)
        \/ /\ op.act = "establish" /\ row # NoRow /\ row.status = Tentative(Kind(op))
           /\ now >= row.notBefore /\ op.target \in attends /\ Grounded(all, now)
        \/ /\ op.act = "establish" /\ row # NoRow /\ row.status = "dormant"
           /\ op.target \in attends /\ Novel(row.refs, op.refs, now)
        \/ /\ op.act = "set_dormant" /\ row # NoRow /\ Kind(op) = "interest"
           /\ row.status = "established" /\ op.refs # {}
        \/ op.act = "retire" /\ row # NoRow /\ row.status = Tentative(Kind(op))
        \/ /\ op.act = "retire" /\ row # NoRow /\ row.status = Retirable(Kind(op))
           /\ row.retirement # None /\ now >= row.retirement
           /\ op.target \in attends /\ Novel(row.refs, op.refs, now)
           /\ Kind(op) = "preference" => Grounded(all, now)

InclinationRow(op, now) ==
    LET kept == [Row(op) EXCEPT !.text = op.text, !.refs = @ \cup op.refs]
    IN  CASE op.act = "create" -> [Fresh(op, now) EXCEPT !.notBefore = now + Day]
          [] op.act = "establish" ->
               [kept EXCEPT !.status = "established",
                            !.retirement = IF Kind(op) = "interest" THEN None ELSE now + Week]
          [] op.act = "set_dormant" ->
               [kept EXCEPT !.status = "dormant", !.retirement = now + Week]
          [] op.act = "retire" -> [kept EXCEPT !.status = "retired"]

\* A layer of self: text is its content, pending the claim that is staged for it.
Pending(op) == Row(op) # NoRow /\ Row(op).pending = op.text
Early(op, now) == Pending(op) /\ now < Row(op).notBefore

Layer(op, now) ==
    IF Row(op) # NoRow THEN Row(op)
    ELSE [Fresh(op, now) EXCEPT !.text = None, !.refs = {}]

LayerAllowed(op, now, attends) ==
    LET current == Row(op) # NoRow /\ Row(op).text = op.text /\ Row(op).pending = None
    IN  CASE Kind(op) \in Immediate -> ~current /\ (Kind(op) = "narrative" => op.refs # {})
          [] Kind(op) \notin Immediate /\ Early(op, now) ->
               ~ (op.refs \subseteq Row(op).pendingRefs)
          [] Kind(op) \notin Immediate /\ Pending(op) /\ ~Early(op, now) ->
               op.target \in attends /\ Grounded(Row(op).pendingRefs \cup op.refs, now)
          [] OTHER -> ~current

\* A plausible bug: a new claim inherits the evidence of the one it replaces.
StagedOnTop(op, now) ==
    [Layer(op, now) EXCEPT !.pending = op.text, !.pendingRefs = @ \cup op.refs,
                           !.notBefore = now + Day]

\* Another claim is staged: it starts evidence and delay of its own.
Staged(op, now) ==
    [Layer(op, now) EXCEPT !.pending = op.text, !.pendingRefs = op.refs,
                           !.notBefore = now + Day]

LayerRow(op, now) ==
    LET settled(refs) == [Layer(op, now) EXCEPT !.text = op.text, !.refs = refs,
                              !.pending = None, !.pendingRefs = {}, !.notBefore = None]
    IN  CASE Kind(op) \in Immediate -> settled(op.refs)
          [] Kind(op) \notin Immediate /\ Early(op, now) ->
               [Row(op) EXCEPT !.pendingRefs = @ \cup op.refs]
          [] Kind(op) \notin Immediate /\ Pending(op) /\ ~Early(op, now) ->
               settled(Row(op).pendingRefs \cup op.refs)
          [] OTHER -> Staged(op, now)

-----------------------------------------------------------------------------
(* A batch *)

Ops(work) == IF work \in Turns THEN Decisions[work].ops ELSE {work}

\* What an operation may name: objects, events and revisions; and that it
\* names objects of the right family.
References == Events \cup Objects \cup (Objects \X Nat)

AllOps == Calls \cup (UNION {Decisions[t].ops : t \in Turns})

ASSUME OperationAssumption ==
    \A op \in AllOps :
        /\ op.target \in Objects /\ op.text # None
        /\ {op.parent, op.link} \subseteq Objects \cup {None}
        /\ op.refs \cup op.against \subseteq References
        /\ op.act = "supersede" =>
              {KindOf[o] : o \in {op.target, op.parent} \ {None}} = {"belief"}

Attended(work) == IF work \in Turns THEN Decisions[work].attends ELSE {}

Allowed(op, now, work) ==
    /\ ~Retrograde(op, now, work \in Turns)
    /\ CASE Kind(op) \in Objectives -> ObjectiveAllowed(op, work \in Turns)
         [] Kind(op) = "entity" -> EntityAllowed(op)
         [] Kind(op) = "relationship" -> RelationshipAllowed(op)
         [] Kind(op) = "belief" -> BeliefAllowed(op, now)
         [] Kind(op) = "relationship_thread" -> ThreadAllowed(op, work \in Turns)
         [] Kind(op) = "episode" -> EpisodeAllowed(op)
         [] Kind(op) \in {"interest", "preference"} -> InclinationAllowed(op, now, Attended(work))
         [] Kind(op) \in Layers -> LayerAllowed(op, now, Attended(work))

\* A plausible bug: the predecessor is left as it is.
TouchedTarget(op) == {op.target}

\* A belief that supersedes another writes both.
Touched(op) == {op.target} \cup (IF op.act = "supersede" THEN {op.parent} ELSE {})

Content(op, o, now) ==
    CASE o # op.target -> [objects[o] EXCEPT !.status = "superseded"]
      [] o = op.target /\ Kind(op) = "belief" -> BeliefRow(op, now)
      [] o = op.target /\ Kind(op) \in {"interest", "preference"} -> InclinationRow(op, now)
      [] o = op.target /\ Kind(op) \in Layers -> LayerRow(op, now)
      [] OTHER -> IF op.act = "create" THEN Fresh(op, now) ELSE Rewritten(op)

Cited(op) == op.refs \cup op.against \cup ({op.parent, op.link} \ {None})

\* Two operations may not write one object, nor found one relationship twice.
Disjoint(ops) ==
    \A p, q \in ops : p # q =>
        /\ Touched(p) \cap Touched(q) = {}
        /\ {Kind(p), Kind(q)} = {"relationship"} /\ {p.act, q.act} = {"create"}
              => p.parent # q.parent

Sound(work, now) ==
    /\ Disjoint(Ops(work))
    /\ \A op \in Ops(work) :
          /\ op.act = "supersede" => op.parent # op.target
          /\ \A r \in Cited(op) : Known(r)
          /\ Allowed(op, now, work)
    /\ work \in Turns => {op.id : op \in Ops(work)} \cap used = {}

Revisions(work, now) ==
    LET Writer(o) == CHOOSE op \in Ops(work) : o \in Touched(op)
    IN  [o \in UNION {Touched(op) : op \in Ops(work)} |->
           [before |-> objects[o],
            after  |-> Stamped(Content(Writer(o), o, now), objects[o], now),
            op |-> Writer(o), work |-> work, at |-> now]]

-----------------------------------------------------------------------------
(* Transactions *)

NoChanges == [o \in {} |-> None]

Txn(phase, work, now, changes) ==
    [phase |-> phase, work |-> work, now |-> now, changes |-> changes]

Idle == Txn("idle", None, 0, NoChanges)

Now(s) == clock + Skew[s]

Init ==
    /\ clock = 0
    /\ objects = [o \in Objects |-> NoRow]
    /\ history = [o \in Objects |-> << >>]
    /\ used = {}
    /\ txn = [s \in Sessions |-> Idle]
    /\ lock = NoSession
    /\ \E course \in Courses :
          /\ turns = [t \in Turns |-> IF t \in course.turns THEN "open" ELSE "never"]
          /\ budget = [calls |-> course.calls, faults |-> course.faults, ticks |-> course.ticks]

Begin(s, work) ==
    /\ txn[s].phase = "idle"
    /\ txn' = [txn EXCEPT ![s] = Txn("waiting", work, Now(s), NoChanges)]

\* A cycle has one turn with a decision at a time.
Decide(t) ==
    /\ turns[t] = "open"
    /\ \A u \in Turns : turns[u] # "decided"
    /\ turns' = [turns EXCEPT ![t] = "decided"]
    /\ UNCHANGED <<clock, objects, history, used, txn, lock, budget>>

\* A plausible bug: the turn is not looked at again before it is applied.
BeginApplyAgain(s, t) ==
    /\ turns[t] \in {"decided", "applied"}
    /\ \A u \in Sessions : txn[u].work \notin Turns
    /\ Begin(s, t)
    /\ UNCHANGED <<clock, store, lock, budget>>

\* The one runtime that owns the individual applies the recorded decision.
BeginApply(s, t) ==
    /\ turns[t] = "decided"
    /\ \A u \in Sessions : txn[u].work \notin Turns
    /\ Begin(s, t)
    /\ UNCHANGED <<clock, store, lock, budget>>

BeginCall(s, c) ==
    /\ budget.calls > 0
    /\ budget' = [budget EXCEPT !.calls = @ - 1]
    /\ Begin(s, c)
    /\ UNCHANGED <<clock, store, lock>>

\* A plausible bug: the row is read without FOR UPDATE.
AvailableAlways(s) == TRUE

\* The row of the individual is locked, then everything is read and planned.
Available(s) == lock = NoSession

Plan(s) ==
    /\ txn[s].phase = "waiting" /\ Available(s)
    /\ Sound(txn[s].work, txn[s].now)
    /\ txn' = [txn EXCEPT ![s] = Txn("writing", txn[s].work, txn[s].now,
                                     Revisions(txn[s].work, txn[s].now))]
    /\ lock' = s
    /\ UNCHANGED <<clock, store, budget>>

\* A decision that does not fit is rejected as a whole, a call raises.
Refuse(s) ==
    /\ txn[s].phase = "waiting" /\ Available(s)
    /\ ~Sound(txn[s].work, txn[s].now)
    /\ IF txn[s].work \in Turns
       THEN /\ txn' = [txn EXCEPT ![s] = Txn("refusing", txn[s].work, txn[s].now, NoChanges)]
            /\ lock' = s
       ELSE /\ txn' = [txn EXCEPT ![s] = Idle]
            /\ UNCHANGED lock
    /\ UNCHANGED <<clock, store, budget>>

Closed(s) ==
    /\ txn' = [txn EXCEPT ![s] = Idle]
    /\ lock' = IF lock = s THEN NoSession ELSE lock
    /\ UNCHANGED clock

Commit(s) ==
    LET work == txn[s].work
        changes == txn[s].changes
    IN  /\ txn[s].phase \in {"writing", "refusing"}
        /\ objects' = [o \in Objects |-> IF o \in DOMAIN changes THEN changes[o].after
                                                                 ELSE objects[o]]
        /\ history' = [o \in Objects |-> IF o \in DOMAIN changes THEN Append(history[o], changes[o])
                                                                 ELSE history[o]]
        /\ IF work \in Turns
           THEN /\ turns' = [turns EXCEPT ![work] = IF txn[s].phase = "writing" THEN "applied"
                                                                                ELSE "rejected"]
                /\ used' = IF txn[s].phase = "writing" THEN used \cup {op.id : op \in Ops(work)}
                                                       ELSE used
           ELSE UNCHANGED <<turns, used>>
        /\ Closed(s)
        /\ UNCHANGED budget

\* The process dies, or its connection is lost, before the commit.
Fail(s) ==
    /\ budget.faults > 0 /\ txn[s].phase # "idle"
    /\ budget' = [budget EXCEPT !.faults = @ - 1]
    /\ Closed(s)
    /\ UNCHANGED store

Tick ==
    /\ budget.ticks > 0
    /\ budget' = [budget EXCEPT !.ticks = @ - 1]
    /\ clock' = clock + 1
    /\ UNCHANGED <<store, txn, lock>>

Next ==
    \/ \E t \in Turns : Decide(t)
    \/ \E s \in Sessions, t \in Turns : BeginApply(s, t)
    \/ \E s \in Sessions, c \in Calls : BeginCall(s, c)
    \/ \E s \in Sessions : Plan(s)
    \/ \E s \in Sessions : Refuse(s)
    \/ \E s \in Sessions : Commit(s)
    \/ \E s \in Sessions : Fail(s)
    \/ Tick

Spec == Init /\ [][Next]_vars

-----------------------------------------------------------------------------
(* Properties *)

\* What db/personal_checks.py calls a complete chain and a true projection:
\* the revisions of an object are numbered without a gap, each starts from
\* what the one before left, and the current row is what the last one left,
\* whichever sessions wrote them and however their transactions overlapped.
HistoryComplete ==
    \A o \in Objects :
        /\ objects[o] = IF history[o] = << >> THEN NoRow
                        ELSE history[o][Len(history[o])].after
        /\ \A n \in DOMAIN history[o] :
              /\ history[o][n].after.revision = n
              /\ history[o][n].before = IF n = 1 THEN NoRow ELSE history[o][n - 1].after

Links(o) == {objects[o].parent, objects[o].link} \ {None}

\* The other statements of db/personal_checks.py about what is stored: links
\* and evidence exist, a superseding belief has a distinct predecessor that
\* stays superseded, social parents never change and are interpreted once,
\* claims rest on evidence, layers of self pair content with its delay, what is
\* concluded stays, and eligibility times were respected.  An interest that slept may be
\* re-established by a host whose clock is behind: the code then stores what
\* the checker's eligibility rule refuses, and is exempt here.
InterpretationsConsistent ==
    \A o \in {x \in Objects : objects[x] # NoRow} :
        LET row == objects[o]
            kind == KindOf[o]
        IN  /\ \A n \in 1 .. Len(history[o]) - 1 : ~Final(kind, history[o][n].after.status)
            /\ \A r \in Links(o) \cup row.refs \cup row.against \cup row.pendingRefs : Known(r)
            /\ kind = "belief" /\ row.parent # None =>
                  row.parent # o /\ objects[row.parent].status = "superseded"
            /\ kind = "belief" /\ row.status = "accepted" => row.refs # {}
            /\ kind = "belief" /\ row.status = "disputed" => row.against # {}
            /\ kind \in {"relationship", "relationship_thread"} =>
                  /\ row.refs # {} /\ row.parent = history[o][1].after.parent
                  /\ \A x \in Objects \ {o} :
                        KindOf[x] = "relationship" /\ kind = "relationship" /\ objects[x] # NoRow
                            => objects[x].parent # row.parent
            /\ kind \in Immediate => row.text # None /\ row.pending = None
            /\ kind \in Layers => /\ row.text # None \/ row.pending # None
                                  /\ (row.pending = None) <=> (row.notBefore = None)
                                  /\ row.pending = None => row.pendingRefs = {}
            /\ kind \in {"interest", "preference"} =>
                  /\ row.status = "established" =>
                        \/ row.updated >= row.notBefore
                        \/ \E n \in DOMAIN history[o] : history[o][n].after.status = "dormant"
                  /\ row.status = "retired" /\ row.retirement # None => row.updated >= row.retirement
                  /\ row.status = "dormant" => row.retirement # None

Rev(o, n) == history[o][n]

\* An inclination was settled a Day after it was created, on two original
\* events a Day apart.
EstablishedEarned(o, n) ==
    KindOf[o] \in {"interest", "preference"} /\ n > 1 /\ Rev(o, n).after.status = "established"
        /\ Rev(o, n).before.status = Tentative(KindOf[o]) =>
          /\ Rev(o, n).at >= Rev(o, 1).at + Day
          /\ Grounded(Rev(o, n).after.refs, Rev(o, n).at)

\* A settled one was retired a Week after it was settled, or fell asleep,
\* and because of something that was not known before.
RetiredEarned(o, n) ==
    KindOf[o] \in {"interest", "preference"} /\ n > 1 /\ Rev(o, n).after.status = "retired"
        /\ Rev(o, n).before.status # Tentative(KindOf[o]) =>
          /\ Rev(o, n).at >= Rev(o, n - 1).at + Week
          /\ Novel(Rev(o, n).before.refs, Rev(o, n).op.refs, Rev(o, n).at)

\* The new content of a deferred layer was the claim staged for it, and no
\* other, throughout the Day before, and rests only on evidence offered for
\* that claim in that time.
ContentEarned(o, n) ==
    KindOf[o] = "self_belief" /\ Rev(o, n).after.text # None
        /\ (n = 1 \/ Rev(o, n).before.text # Rev(o, n).after.text) =>
          \E k \in 1 .. n - 1 :
            /\ \A m \in k .. n - 1 : Rev(o, m).after.pending = Rev(o, n).after.text
            /\ Rev(o, n).at >= Rev(o, k).at + Day
            /\ Rev(o, n).after.refs \subseteq UNION {Rev(o, m).op.refs : m \in k .. n}
            /\ Grounded(Rev(o, n).after.refs, Rev(o, n).at)

\* Gradual development (development policy 1): whatever is presented as
\* established, or as the content of a deferred layer of self, was earned
\* over time and on evidence of its own, judged on the whole history.
DevelopmentEarned ==
    \A o \in Objects : \A n \in DOMAIN history[o] :
        EstablishedEarned(o, n) /\ RetiredEarned(o, n) /\ ContentEarned(o, n)

Applied == {t \in Turns : turns[t] = "applied"}
Ids(t)  == {op.id : op \in Decisions[t].ops}

\* A recorded decision is applied whole and once, or never and not in part,
\* though what it was meant for has changed since, it is rejected, or its
\* application fails and another runtime takes it up again; and an operation
\* takes effect in one decision, though several name it
\* (stores/cognition.py apply_decision, stores/personal.py).
WholeOrNothing ==
    /\ \A t \in {u \in Turns : turns[u] # "never"}, o \in Objects :
          Cardinality({n \in DOMAIN history[o] : Rev(o, n).work = t}) =
              IF t \in Applied /\ o \in UNION {Touched(op) : op \in Decisions[t].ops}
              THEN 1 ELSE 0
    /\ used = UNION {Ids(t) : t \in Applied}
    /\ \A t, u \in Applied : t # u => Ids(t) \cap Ids(u) = {}

=============================================================================
