----------------------------- MODULE Perception -----------------------------
(***************************************************************************)
(* Inbound perception: connectors of an individual are polled outside      *)
(* transactions, a page of items becomes observations, a receipt, a        *)
(* checkpoint and inbound wakes in one transaction, and cognition claims   *)
(* those wakes (runtime/perception.py, stores/perception.py,               *)
(* stores/inbound_scope.py, stores/connectors.py, connectors/local_json.py *)
(* and the claim of stores/cognition.py).                                  *)
(*                                                                         *)
(* Ingesters and runners own the individual while they work, so they       *)
(* exclude each other; administrators do not, and change bindings,         *)
(* lifecycle and governance between any two of their steps.  What happens  *)
(* inside a cycle is the module Cognition: here a cycle is claimed,        *)
(* survives its runner, and finishes.                                      *)
(***************************************************************************)
EXTENDS Lifecycle, Naturals, Sequences, FiniteSetsExt

CONSTANTS
    Ingesters, Runners, NoProcess,
    Skew,                 \* Skew[p]: how far the clock of p's host runs ahead
    AdminSkew,            \* the same for the host of the administrator
    Bindings, NoBinding,
    Registered,           \* the bindings that are registered at the start
    Fixtures,             \* contents a source may have
    Keys, Prints,         \* delivery identities and fingerprints of content
    Content,              \* Content[f]: the items of f
    InitialSource,        \* InitialSource[b]: the fixture at the start
    NoCursor,
    Ordinary,             \* wakes that are not inbound
    MaxWakes,             \* CycleLimits.max_wakes
    MaxRefs,              \* MAX_INBOUND_REFS
    MaxPageItems,         \* MAX_PAGE_ITEMS
    Horizon,              \* bound: the last instant of the true clock
    MaxFaults,            \* bound: crashes, lost sessions, failed transactions
    MaxAdminSteps         \* bound: administrative changes and edited sources

Processes == Ingesters \cup Runners
Items     == [key : Keys, print : Prints]

ASSUME ProcessAssumption == /\ NoProcess \notin Processes
                            /\ Ingesters \cap Runners = {}
                            /\ Skew \in [Processes -> Nat] /\ AdminSkew \in Nat
ASSUME SourceAssumption == /\ Content \in [Fixtures -> Seq(Items)]
                           /\ InitialSource \in [Bindings -> Fixtures]
                           /\ NoBinding \notin Bindings
                           /\ NoCursor \notin [fixture : Fixtures, offset : Nat]
                           /\ Registered \subseteq Bindings
ASSUME WakeAssumption == \A w \in Ordinary : w \notin Bindings \X Nat
ASSUME LimitAssumption == /\ MaxWakes \in Nat \ {0}
                          /\ MaxRefs \in Nat \ {0}
                          /\ MaxPageItems \in Nat \ {0}
ASSUME PerceptionBounds == Horizon \in Nat \ {0} /\ MaxFaults \in Nat /\ MaxAdminSteps \in Nat

VARIABLES
    clock,
    operational, inferenceBlocked,
    epoch,         \* the revisions of the individual and of its governance
    source,        \* the fixture of each source now
    binding,       \* connector_bindings
    receipt,       \* ingestion_receipts of each binding, in order
    observation,   \* observations of each binding, in event order
    group,         \* inbound_wakes of each binding, with their rows in wakes
    ordinary,      \* the other wakes
    cycles,        \* cognition_cycles with their wakes, in order of claim
    anchor,        \* autonomy_states.anchor_at, Never before the first run
    owner, pc, mem,
    faults, adminSteps

authority == <<operational, inferenceBlocked, epoch>>
ingress   == <<binding, receipt, observation>>
attention == <<group, ordinary, cycles, anchor>>
process   == <<owner, pc, mem>>
bounds    == <<faults, adminSteps>>
vars      == <<clock, authority, source, ingress, attention, process, bounds>>

-----------------------------------------------------------------------------
(* Records *)

\* local_json: a cursor binds the exact content of the file and an offset.
Cursors == [fixture : Fixtures, offset : Nat]
Never   == 0          \* instants of the program start at 1
Nothing == 0          \* no receipt, no open wake

Snapshots == [enabled : BOOLEAN, cursor : Cursors \cup {NoCursor},
              cursorRevision : Nat, revision : Nat, epoch : Nat \X Nat,
              operational : Statuses]

BindingRecords == [registered : BOOLEAN, enabled : BOOLEAN,
                   cursor : Cursors \cup {NoCursor}, cursorRevision : Nat,
                   revision : Nat, pending : Nat, latest : Nat,
                   created : Nat, updated : Nat]

ReceiptRecords == [before : Cursors \cup {NoCursor}, after : Cursors, revision : Nat,
                   authorising : Nat, observed : Nat, recorded : Nat,
                   items : Nat, new : Nat]

ObservationRecords == [key : Keys, print : Prints, wake : Nat, receipt : Nat]

GroupRecords == [refs : Seq(Nat), created : Nat, sealed : Nat, claimed : Nat,
                 consumed : Nat, status : {"pending", "claimed", "consumed"}]

CycleRecords == [wakes : SUBSET (Ordinary \cup (Bindings \X Nat)),
                 started : Nat, completed : Nat]

NoSnap == [enabled |-> FALSE, cursor |-> NoCursor, cursorRevision |-> 0,
           revision |-> 0, epoch |-> <<0, 0>>, operational |-> "active"]
NoMem  == [at |-> NoBinding, started |-> 0, snap |-> NoSnap, page |-> <<>>,
           next |-> NoCursor, observed |-> 0, revoked |-> FALSE]

MemRecords == [at : Bindings \cup {NoBinding}, started : Nat, snap : Snapshots,
               page : Seq(Items), next : Cursors \cup {NoCursor},
               observed : Nat, revoked : BOOLEAN]

\* Bound: no clock reads past the horizon, where time ends for all of them.
Now(p)    == Min({clock + Skew[p], Horizon})

\* A run reads its clock before it waits for the locks.
Instants(p) == mem[p].started .. Now(p)
Latest(s) == s[Len(s)]

Goto(p, place) == pc' = [pc EXCEPT ![p] = place]
Owns(p, place) == owner = p /\ pc[p] = place

\* The process leaves its transaction, or its work, and closes its ownership.
Leave(p) == Goto(p, "closing") /\ mem' = [mem EXCEPT ![p] = NoMem] /\ UNCHANGED owner

-----------------------------------------------------------------------------
(* Checks the code makes of its own tables *)

\* validate_checkpoint: progress, the latest receipt and its predecessor agree.
CheckpointValid(b) ==
    LET n == Len(receipt[b])
        last == receipt[b][n]
    IN  /\ binding[b].latest = n
        /\ IF n = 0
           THEN binding[b].cursor = NoCursor /\ binding[b].cursorRevision = 0
           ELSE /\ binding[b].cursor = last.after
                /\ binding[b].cursorRevision = last.revision
                /\ IF n = 1
                   THEN last.before = NoCursor /\ last.revision = 1
                   ELSE /\ last.before = receipt[b][n - 1].after
                        /\ last.revision = receipt[b][n - 1].revision + 1
                        /\ receipt[b][n - 1].recorded <= last.recorded

InboundWakes == UNION {{<<b, n>> : n \in DOMAIN group[b]} : b \in Bindings}
Group(w)     == group[w[1]][w[2]]

Members(w)     == {i \in DOMAIN observation[w[1]] : observation[w[1]][i].wake = w[2]}
RecordedAt(b, i) == receipt[b][observation[b][i].receipt].recorded
CyclesOf(w)    == {c \in DOMAIN cycles : w \in cycles[c].wakes}

\* The last cycle is active.
Running == cycles # <<>> /\ Latest(cycles).completed = Never

\* validate_inbound_wake: membership, seal, pointer and cycle of a wake agree.
InboundValid(w) ==
    LET b == w[1]
        g == Group(w)
    IN  /\ Cardinality(Members(w)) \in 1 .. MaxRefs
        /\ {g.refs[i] : i \in DOMAIN g.refs} = Members(w)
        /\ \A i, j \in DOMAIN g.refs : i < j => g.refs[i] < g.refs[j]
        /\ \A i \in Members(w) : /\ RecordedAt(b, i) >= g.created
                                 /\ g.sealed # Never => RecordedAt(b, i) <= g.sealed
        /\ IF g.sealed = Never
           THEN g.status = "pending" /\ Len(g.refs) < MaxRefs /\ binding[b].pending = w[2]
           ELSE g.sealed >= g.created /\ binding[b].pending # w[2]
        /\ IF g.status = "pending"
           THEN CyclesOf(w) = {} /\ g.claimed = Never
           ELSE /\ g.sealed # Never /\ g.claimed >= g.sealed
                /\ \E c \in DOMAIN cycles :
                    /\ CyclesOf(w) = {c} /\ cycles[c].wakes = {w}
                    /\ cycles[c].started = g.claimed /\ cycles[c].completed = g.consumed
                    /\ IF g.status = "claimed" THEN g.consumed = Never
                       ELSE g.consumed # Never /\ g.consumed >= g.claimed

-----------------------------------------------------------------------------
(* Ownership, as in the module Ownership *)

Acquire(p) ==
    /\ pc[p] = "idle" /\ owner = NoProcess
    /\ owner' = p
    /\ \/ /\ p \in Ingesters
          /\ \E b \in {x \in Bindings : binding[x].registered} :
                 mem' = [mem EXCEPT ![p] = [NoMem EXCEPT !.at = b]]
          /\ Goto(p, "snapshot")
       \/ /\ p \in Runners
          /\ mem' = [mem EXCEPT ![p] = [NoMem EXCEPT !.started = Now(p)]]
          /\ Goto(p, "ready")
    /\ UNCHANGED <<clock, authority, source, ingress, attention, bounds>>

Close(p) ==
    /\ Owns(p, "closing")
    /\ owner' = NoProcess
    /\ Goto(p, "idle")
    /\ UNCHANGED <<clock, authority, source, ingress, attention, mem, bounds>>

Gone(p) == /\ Goto(p, "idle")
           /\ mem' = [mem EXCEPT ![p] = NoMem]
           /\ UNCHANGED <<clock, authority, source, ingress, attention, owner>>

Fault == faults < MaxFaults /\ faults' = faults + 1 /\ UNCHANGED adminSteps

Crash(p) == pc[p] # "idle" /\ Fault /\ Gone(p)

\* The next use of a lost session raises; nothing reconnects it.
NoticeLoss(p) ==
    /\ pc[p] \notin {"idle", "poll"} /\ owner # p
    /\ Gone(p) /\ UNCHANGED bounds

SessionEnds == /\ owner' = NoProcess
               /\ UNCHANGED <<clock, authority, source, ingress, attention, pc, mem>>

Reap == owner # NoProcess /\ pc[owner] = "idle" /\ SessionEnds /\ UNCHANGED bounds

SessionLost == owner # NoProcess /\ pc[owner] # "idle" /\ SessionEnds /\ Fault

TransactionFails(p) ==
    /\ owner = p /\ pc[p] \notin {"idle", "closing", "poll"} /\ Fault
    /\ Leave(p)
    /\ UNCHANGED <<clock, authority, source, ingress, attention>>

-----------------------------------------------------------------------------
(***************************************************************************)
(* ingest_once: a snapshot in one transaction, the poll outside any, and   *)
(* the page in a second one.                                               *)
(***************************************************************************)

Snap(b) == [enabled |-> binding[b].enabled, cursor |-> binding[b].cursor,
            cursorRevision |-> binding[b].cursorRevision,
            revision |-> binding[b].revision, epoch |-> epoch,
            operational |-> operational]

Receives(b) == binding[b].enabled /\ operational = "active"

Snapshot(p) ==
    LET b == mem[p].at
    IN  /\ Owns(p, "snapshot")
        /\ IF Receives(b) /\ CheckpointValid(b)
           THEN /\ mem' = [mem EXCEPT ![p].snap = Snap(b)]
                /\ Goto(p, "poll") /\ UNCHANGED owner
           ELSE Leave(p)
        /\ UNCHANGED <<clock, authority, source, ingress, attention, bounds>>

Offset(c) == IF c = NoCursor THEN 0 ELSE c.offset

\* At the end of the file a valid cursor stays exactly as it is.
NextCursor(f, n, c) ==
    IF n = Offset(c) /\ c # NoCursor THEN c ELSE [fixture |-> f, offset |-> n]

\* A page holds at least one item and at most MaxPageItems; its bytes may end
\* it anywhere between.
PageEnds(f, n) ==
    LET most == {m \in n .. n + MaxPageItems : m <= Len(Content[f])}
    IN  IF most = {n} THEN {n} ELSE most \ {n}

Poll(p) ==
    LET f == source[mem[p].at]
        c == mem[p].snap.cursor
    IN  /\ pc[p] = "poll"
        /\ c # NoCursor => c.fixture = f
        /\ \E m \in PageEnds(f, Offset(c)) :
               mem' = [mem EXCEPT ![p].page = SubSeq(Content[f], Offset(c) + 1, m),
                                  ![p].next = NextCursor(f, m, c),
                                  ![p].observed = Now(p)]
        /\ Goto(p, "persist")
        /\ UNCHANGED <<clock, authority, source, ingress, attention, owner, bounds>>

\* The cursor belongs to other content, or the file cannot be read.
PollFails(p) ==
    /\ pc[p] = "poll"
    /\ \/ /\ mem[p].snap.cursor # NoCursor
          /\ mem[p].snap.cursor.fixture # source[mem[p].at]
          /\ UNCHANGED bounds
       \/ Fault
    /\ Leave(p)
    /\ UNCHANGED <<clock, authority, source, ingress, attention>>

Seen(b, k) == {observation[b][i].print : i \in {j \in DOMAIN observation[b] :
                                                   observation[b][j].key = k}}

\* A plausible bug: content is not compared under a known identity.
NeverConflicts(b, page) == FALSE

\* One identity with two contents: the whole page is refused.
Conflicts(b, page) ==
    \E i \in DOMAIN page :
        \/ \E s \in Seen(b, page[i].key) : s # page[i].print
        \/ \E j \in 1 .. i - 1 : page[j].key = page[i].key /\ page[j].print # page[i].print

NewGroup(now) == [refs |-> <<>>, created |-> now, sealed |-> Never,
                  claimed |-> Never, consumed |-> Never, status |-> "pending"]

\* One fresh item: an observation in the open wake, which it may create or fill.
File(files, item, r, now) ==
    LET groups == IF files.open = Nothing THEN Append(files.groups, NewGroup(now))
                                          ELSE files.groups
        w      == IF files.open = Nothing THEN Len(groups) ELSE files.open
        refs   == Append(groups[w].refs, Len(files.seen) + 1)
        full   == Len(refs) = MaxRefs
    IN  [groups |-> [groups EXCEPT ![w].refs = refs,
                                   ![w].sealed = IF full THEN now ELSE @],
         open   |-> IF full THEN Nothing ELSE w,
         seen   |-> Append(files.seen, [key |-> item.key, print |-> item.print,
                                        wake |-> w, receipt |-> r])]

\* The items of a page in order, those already seen left out.
AddNew(files, item, r, now) ==
    IF \E i \in DOMAIN files.seen : files.seen[i].key = item.key THEN files
    ELSE File(files, item, r, now)

Filings(b, page, r, now) ==
    LET files[n \in 0 .. Len(page)] ==
            IF n = 0
            THEN [groups |-> group[b], open |-> binding[b].pending, seen |-> observation[b]]
            ELSE AddNew(files[n - 1], page[n], r, now)
    IN  files

Filed(b, page, r, now) == Filings(b, page, r, now)[Len(page)]

\* The complete snapshot is compared, under the locks of all it was taken from.
SnapshotCurrent(p) == Snap(mem[p].at) = mem[p].snap /\ Receives(mem[p].at)

OpenWakes(b) == {n \in DOMAIN group[b] : group[b][n].sealed = Never}

PersistAllowed(p, now) ==
    LET b == mem[p].at
    IN  /\ SnapshotCurrent(p)
        /\ now >= binding[b].updated /\ mem[p].observed >= binding[b].created
        /\ CheckpointValid(b)
        /\ OpenWakes(b) = {binding[b].pending} \ {Nothing}
        /\ \A n \in OpenWakes(b) : InboundValid(<<b, n>>)
        /\ ~Conflicts(b, mem[p].page)

Advanced(p, new, now) ==
    [before |-> mem[p].snap.cursor, after |-> mem[p].next,
     revision |-> mem[p].snap.cursorRevision + 1,
     authorising |-> mem[p].snap.revision,
     observed |-> mem[p].observed, recorded |-> now,
     items |-> Len(mem[p].page), new |-> new]

NewReceipt(p, fresh, now) == Advanced(p, fresh, now)

Written(p, now) ==
    LET b     == mem[p].at
        n     == Len(receipt[b]) + 1
        files == Filed(b, mem[p].page, n, now)
        fresh == Len(files.seen) - Len(observation[b])
    IN  IF fresh = 0 /\ mem[p].next = mem[p].snap.cursor
        THEN UNCHANGED <<ingress, group>>
        ELSE /\ group' = [group EXCEPT ![b] = files.groups]
             /\ observation' = [observation EXCEPT ![b] = files.seen]
             /\ receipt' = [receipt EXCEPT ![b] = Append(@, NewReceipt(p, fresh, now))]
             /\ binding' = [binding EXCEPT ![b] = [@ EXCEPT
                    !.cursor = mem[p].next, !.cursorRevision = mem[p].snap.cursorRevision + 1,
                    !.latest = n, !.pending = files.open,
                    !.revision = mem[p].snap.revision + 1, !.updated = now]]

\* The clock is read before the locks are taken.
Persist(p) ==
    /\ Owns(p, "persist")
    /\ \E now \in mem[p].observed .. Now(p) :
           IF PersistAllowed(p, now) THEN Written(p, now) ELSE UNCHANGED <<ingress, group>>
    /\ Leave(p)
    /\ UNCHANGED <<clock, authority, source, ordinary, cycles, anchor, bounds>>

-----------------------------------------------------------------------------
(***************************************************************************)
(* The claim of a runner: it resumes the active cycle or claims, alone, an *)
(* inbound wake that is the earliest due, or else a batch of ordinary ones.*)
(***************************************************************************)

DueAt(w) == IF w \in Ordinary THEN ordinary[w].due ELSE Group(w).created

DueOrdinary(now) == {w \in Ordinary : ordinary[w].status = "pending" /\ ordinary[w].due <= now}
DueInbound(now)  == {w \in InboundWakes : Group(w).status = "pending" /\ Group(w).created <= now}
DueWakes(now)    == DueOrdinary(now) \cup DueInbound(now)

\* A tie is broken by the random wake identity.
Earliest(S) == {w \in S : \A v \in S : DueAt(w) <= DueAt(v)}

RunAllowed == operational = "active" /\ ~inferenceBlocked

\* validate_inbound_claims comes before anything is recovered or claimed.
ClaimsValid == \A w \in InboundWakes : Group(w).status = "claimed" => InboundValid(w)

\* ensure_heartbeat refuses an instant before its anchor, and sets the first.
Starting(p, now) ==
    /\ Owns(p, "ready") /\ RunAllowed /\ ClaimsValid /\ now >= anchor

Anchored(now) == anchor' = IF anchor = Never THEN now ELSE anchor

\* seal_inbound_wake refuses an instant before what it retained.
SealRefused(w, now) ==
    IF Group(w).sealed = Never
    THEN now < Group(w).created \/ now < binding[w[1]].updated
    ELSE now < Group(w).sealed

RunEnds(p) == Leave(p) /\ UNCHANGED <<clock, authority, source, ingress, attention, bounds>>

StartBlocked(p) ==
    /\ Owns(p, "ready")
    /\ ~(RunAllowed /\ ClaimsValid) \/ mem[p].started < anchor
    /\ RunEnds(p)

\* A plausible bug: an active cycle is left alone.
ResumeNothing(p) == (\E now \in Instants(p) : Starting(p, now)) /\ Running /\ RunEnds(p)

Resume(p) ==
    /\ Running
    /\ \E now \in Instants(p) : Starting(p, now) /\ Anchored(now)
    /\ Goto(p, "cycle")
    /\ UNCHANGED <<clock, authority, source, ingress, group, ordinary, cycles,
                   owner, mem, bounds>>

\* Nothing is due, or the earliest is an ordinary wake some session has locked.
Idle(p) ==
    /\ ~Running
    /\ \E now \in Instants(p) :
        /\ Starting(p, now) /\ Anchored(now)
        /\ DueWakes(now) = {} \/ Earliest(DueWakes(now)) \cap Ordinary # {}
    /\ Leave(p)
    /\ UNCHANGED <<clock, authority, source, ingress, group, ordinary, cycles, bounds>>

ClaimFails(p) ==
    /\ ~Running
    /\ \E now \in Instants(p) :
        /\ Starting(p, now)
        /\ \E w \in Earliest(DueWakes(now)) \cap InboundWakes :
            ~InboundValid(w) \/ SealRefused(w, now)
    /\ RunEnds(p)

StartCycle(p, W, now) ==
    /\ cycles' = Append(cycles, [wakes |-> W, started |-> now, completed |-> Never])
    /\ Anchored(now)
    /\ Goto(p, "cycle")
    /\ UNCHANGED <<clock, authority, source, receipt, observation, owner, mem, bounds>>

\* A plausible bug: the claim leaves the wake open to further observations.
ClaimedOpen(g, now) == [g EXCEPT !.status = "claimed", !.claimed = now]

ClaimedGroup(g, now) ==
    [g EXCEPT !.status = "claimed", !.claimed = now,
              !.sealed = IF @ = Never THEN now ELSE @]

\* Sealing by a claim takes the pointer away and moves the binding's revision.
Unpointed(row, now) ==
    [row EXCEPT !.pending = Nothing, !.revision = @ + 1, !.updated = now]

ClaimInbound(p) ==
    /\ ~Running
    /\ \E now \in Instants(p) :
        /\ Starting(p, now)
        /\ \E w \in Earliest(DueWakes(now)) \cap InboundWakes :
            /\ InboundValid(w) /\ ~SealRefused(w, now)
            /\ group' = [group EXCEPT ![w[1]][w[2]] = ClaimedGroup(@, now)]
            /\ binding' = IF Group(w).sealed = Never
                          THEN [binding EXCEPT ![w[1]] = Unpointed(@, now)]
                          ELSE binding
            /\ StartCycle(p, {w}, now)
    /\ UNCHANGED ordinary

\* The earliest ordinary wakes not hidden by a lock, as many as a batch holds.
Batches(now, w) ==
    {B \in SUBSET DueOrdinary(now) :
        /\ w \in B /\ Cardinality(B) <= MaxWakes
        /\ \E hidden \in SUBSET (DueOrdinary(now) \ B) :
            LET left == DueOrdinary(now) \ (B \cup hidden)
            IN  /\ left # {} => Cardinality(B) = MaxWakes
                /\ \A x \in B, y \in left : ordinary[x].due <= ordinary[y].due}

ClaimBatch(p) ==
    /\ ~Running
    /\ \E now \in Instants(p) :
        /\ Starting(p, now)
        /\ \E w \in Earliest(DueWakes(now)) \cap Ordinary : \E B \in Batches(now, w) :
            /\ ordinary' = [x \in Ordinary |->
                               IF x \in B THEN [ordinary[x] EXCEPT !.status = "claimed"]
                               ELSE ordinary[x]]
            /\ StartCycle(p, B, now)
    /\ UNCHANGED <<binding, group>>

\* However the cycle ends, its wakes are consumed with it and the heartbeat is
\* accounted for, at an instant nothing compares with that of its start.
FinishCycle(p) ==
    LET W   == Latest(cycles).wakes
        now == Now(p)
    IN  /\ Owns(p, "cycle") /\ Running /\ now >= anchor
        /\ \A w \in W \cap InboundWakes : InboundValid(w)
        /\ cycles' = [cycles EXCEPT ![Len(cycles)].completed = now]
        /\ anchor' = now
        /\ group' = [b \in Bindings |-> [n \in DOMAIN group[b] |->
                        IF <<b, n>> \in W
                        THEN [group[b][n] EXCEPT !.status = "consumed", !.consumed = now]
                        ELSE group[b][n]]]
        /\ ordinary' = [x \in Ordinary |->
                           IF x \in W THEN [ordinary[x] EXCEPT !.status = "consumed"]
                           ELSE ordinary[x]]
        /\ Leave(p)
        /\ UNCHANGED <<clock, authority, source, ingress, bounds>>

\* The run returns with its cycle still active.
LeaveCycle(p) == Owns(p, "cycle") /\ RunEnds(p)

-----------------------------------------------------------------------------
(* The other actors *)

AdminStep == adminSteps < MaxAdminSteps /\ adminSteps' = adminSteps + 1

\* History: authority changed while a page was being fetched for p.
Revoke(B) == mem' = [p \in Processes |->
                        IF pc[p] \in {"poll", "persist"} /\ mem[p].at \in B
                        THEN [mem[p] EXCEPT !.revoked = TRUE] ELSE mem[p]]

\* An administrator reads its clock before it waits for the locks.
AdminNow == 1 .. clock + AdminSkew

NewBinding(e, now) ==
    [registered |-> TRUE, enabled |-> e, cursor |-> NoCursor, cursorRevision |-> 0,
     revision |-> 1, pending |-> Nothing, latest |-> Nothing,
     created |-> now, updated |-> now]

NoRow == [NewBinding(FALSE, 0) EXCEPT !.registered = FALSE, !.revision = 0]

\* create_connector_binding: an exact identity, once, with no progress.
Register ==
    /\ \E b \in Bindings, e \in BOOLEAN, now \in AdminNow :
        /\ ~binding[b].registered
        /\ binding' = [binding EXCEPT ![b] = NewBinding(e, now)]
    /\ UNCHANGED <<clock, authority, source, receipt, observation, attention, process, bounds>>

\* A plausible bug: enablement is not part of the operational epoch.
SwitchedQuietly(row, e, now) == [row EXCEPT !.enabled = e, !.updated = now]

Switched(row, e, now) ==
    [row EXCEPT !.enabled = e, !.revision = @ + 1, !.updated = now]

\* set_connector_enabled, whether or not it changes anything.
SetEnabled ==
    /\ AdminStep
    /\ \E b \in Bindings, e \in BOOLEAN, now \in AdminNow :
        /\ binding[b].registered /\ now >= binding[b].updated
        /\ binding' = [binding EXCEPT ![b] = Switched(@, e, now)]
        /\ Revoke({b})
    /\ UNCHANGED <<clock, authority, source, receipt, observation, attention,
                   owner, pc, faults>>

ChangeLifecycle ==
    /\ AdminStep
    /\ \E op \in {"pause", "resume"}, s \in Statuses :
        /\ <<operational, op, s>> \in Transitions
        /\ operational' = s
    /\ epoch' = <<epoch[1] + 1, epoch[2]>>
    /\ Revoke(Bindings)
    /\ UNCHANGED <<clock, inferenceBlocked, source, ingress, attention, owner, pc, faults>>

\* Evidence may be received while inference is blocked, but not across the change.
UpdateGovernance ==
    /\ AdminStep
    /\ inferenceBlocked' = ~inferenceBlocked
    /\ epoch' = <<epoch[1], epoch[2] + 1>>
    /\ Revoke(Bindings)
    /\ UNCHANGED <<clock, operational, source, ingress, attention, owner, pc, faults>>

\* Somebody edits the file of a source.
EditSource ==
    /\ AdminStep
    /\ \E b \in Bindings : \E f \in Fixtures \ {source[b]} :
           source' = [source EXCEPT ![b] = f]
    /\ UNCHANGED <<clock, authority, ingress, attention, process, faults>>

PostOrdinary ==
    /\ \E w \in Ordinary :
        /\ ordinary[w].status = "none"
        /\ ordinary' = [ordinary EXCEPT ![w] = [status |-> "pending", due |-> clock]]
    /\ UNCHANGED <<clock, authority, source, ingress, group, cycles, anchor,
                   process, bounds>>

Tick ==
    /\ clock < Horizon
    /\ clock' = clock + 1
    /\ UNCHANGED <<authority, source, ingress, attention, process, bounds>>

-----------------------------------------------------------------------------
(* The specification *)

Init ==
    /\ clock = 1
    /\ operational = "active" /\ inferenceBlocked = FALSE /\ epoch = <<1, 1>>
    /\ source = InitialSource
    /\ binding = [b \in Bindings |-> IF b \in Registered THEN NewBinding(TRUE, clock)
                                     ELSE NoRow]
    /\ receipt = [b \in Bindings |-> <<>>]
    /\ observation = [b \in Bindings |-> <<>>]
    /\ group = [b \in Bindings |-> <<>>]
    /\ ordinary = [w \in Ordinary |-> [status |-> "none", due |-> 0]]
    /\ cycles = <<>> /\ anchor = Never
    /\ owner = NoProcess
    /\ pc = [p \in Processes |-> "idle"]
    /\ mem = [p \in Processes |-> NoMem]
    /\ faults = 0 /\ adminSteps = 0

Ingest(p) == Snapshot(p) \/ Poll(p) \/ PollFails(p) \/ Persist(p)

Run(p) == StartBlocked(p) \/ Resume(p) \/ Idle(p) \/ ClaimFails(p)
          \/ ClaimInbound(p) \/ ClaimBatch(p) \/ FinishCycle(p) \/ LeaveCycle(p)

Process(p) == Acquire(p) \/ Ingest(p) \/ Run(p) \/ Close(p) \/ NoticeLoss(p)

Administer == Register \/ SetEnabled \/ ChangeLifecycle \/ UpdateGovernance \/ EditSource

Next == \/ \E p \in Processes : Process(p) \/ Crash(p) \/ TransactionFails(p)
        \/ SessionLost \/ Reap \/ Administer \/ PostOrdinary \/ Tick

Spec == Init /\ [][Next]_vars

(***************************************************************************)
(* Fairness, over states where that says the same, since a process passes  *)
(* each place once between two starts.  Processes go on, the server notices*)
(* dead sessions, time passes.  Runs are started at times of their own, so *)
(* one finds the lock free sooner or later; what can be claimed is not     *)
(* locked for ever; and a cycle that is resumed again and again ends: that *)
(* is CycleTerminates of CognitionProperties.                              *)
(***************************************************************************)
CanClaim(p) ==
    /\ ~Running
    /\ \E now \in Instants(p) :
        /\ Starting(p, now)
        /\ \E w \in Earliest(DueWakes(now)) :
            w \in InboundWakes => InboundValid(w) /\ ~SealRefused(w, now)

CanFinish(p) == /\ Owns(p, "cycle") /\ Running /\ Now(p) >= anchor
                /\ \A w \in Latest(cycles).wakes \cap InboundWakes : InboundValid(w)

Fairness ==
    /\ \A p \in Processes : []<>(pc[p] = "idle")
    /\ \A p \in Runners :
        /\ []<>(pc[p] = "idle" /\ owner = NoProcess) => []<>(pc[p] # "idle")
        /\ []<>CanClaim(p) => []<>Running
        /\ []<>CanFinish(p) => []<>~Running
    /\ []<>(owner = NoProcess \/ pc[owner] # "idle")
    /\ []<>(clock = Horizon)

FairSpec == Spec /\ Fairness

-----------------------------------------------------------------------------
(* Properties *)

TypeOK ==
    /\ clock \in Nat
    /\ operational \in Statuses /\ inferenceBlocked \in BOOLEAN /\ epoch \in Nat \X Nat
    /\ source \in [Bindings -> Fixtures]
    /\ binding \in [Bindings -> BindingRecords]
    /\ receipt \in [Bindings -> Seq(ReceiptRecords)]
    /\ observation \in [Bindings -> Seq(ObservationRecords)]
    /\ group \in [Bindings -> Seq(GroupRecords)]
    /\ ordinary \in [Ordinary -> [status : {"none", "pending", "claimed", "consumed"},
                                  due : Nat]]
    /\ cycles \in Seq(CycleRecords) /\ anchor \in Nat
    /\ owner \in Processes \cup {NoProcess}
    /\ pc \in [Processes -> {"idle", "snapshot", "poll", "persist", "ready", "cycle", "closing"}]
    /\ mem \in [Processes -> MemRecords]
    /\ faults \in Nat /\ adminSteps \in Nat

\* docs/perception.md: identical retries add no observation, changed content
\* under one identity is refused, nothing is skipped.  What is evidence is
\* exactly what lies before the checkpoint: each identity once, as it was first
\* delivered, whatever was polled again, refused, edited or interrupted.  And
\* the receipts form one chain that ends at the checkpoint, each counts its own
\* observations, moves progress, and was authorised by an earlier revision
\* (db/perception_checks.py, perception_receipt and perception_checkpoint).
CheckpointMatchesEvidence ==
    \A b \in Bindings :
        LET c    == binding[b].cursor
            read == IF c = NoCursor THEN <<>> ELSE SubSeq(Content[c.fixture], 1, c.offset)
            seen == observation[b]
        IN  /\ {[key |-> seen[i].key, print |-> seen[i].print] : i \in DOMAIN seen}
                   = {read[i] : i \in DOMAIN read}
            /\ \A i, j \in DOMAIN seen : seen[i].key = seen[j].key => i = j
            /\ CheckpointValid(b)
            /\ \A n \in DOMAIN receipt[b] :
                LET r == receipt[b][n]
                IN  /\ r.new = Cardinality({i \in DOMAIN seen : seen[i].receipt = n})
                    /\ r.new = 0 => r.before # r.after
                    /\ r.revision = n
                    /\ r.before = IF n = 1 THEN NoCursor ELSE receipt[b][n - 1].after
                    /\ r.authorising < binding[b].revision
                    /\ r.observed >= binding[b].created /\ r.recorded <= binding[b].updated

\* db/perception_checks.py, perception_inbound: every group the program ever
\* made passes its own validation, every observation is in one, the pointer of
\* a binding is its one open group, and no claim is left without a cycle.
InboundConsistent ==
    /\ TypeOK
    /\ \A w \in InboundWakes : InboundValid(w)
    /\ \A b \in Bindings :
        /\ OpenWakes(b) = {binding[b].pending} \ {Nothing}
        /\ \A i \in DOMAIN observation[b] : observation[b][i].wake \in DOMAIN group[b]

\* docs/perception.md: pause and resume, disable and enable, or another change
\* of authority during a fetch invalidate the page, even when it was undone.
NothingAcrossRevocation ==
    [][\A b \in Bindings : receipt'[b] # receipt[b] =>
           \E p \in Ingesters : /\ mem[p].at = b /\ pc[p] = "persist"
                                /\ pc'[p] = "closing" /\ ~mem[p].revoked]_vars

\* Once runs are allowed for good, every observation is attended to: its wake
\* is claimed and its cycle ends, whatever the ingesters do meanwhile.
InboundAttended ==
    <>[]RunAllowed => []<>(\A w \in InboundWakes : Group(w).status = "consumed")

=============================================================================
