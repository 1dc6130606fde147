----------------------------- MODULE WakeQueue -----------------------------
(***************************************************************************)
(* The wake table as sessions share it, statement by statement: what       *)
(* Cognition takes for one step, create_or_merge_pending_wake              *)
(* (stores/attention.py) and the claim of a batch (stores/cognition.py),   *)
(* is here a sequence of statements under READ COMMITTED, each on the rows *)
(* committed by then, with the row locks a transaction keeps to its end.   *)
(*                                                                         *)
(* Posters are other sessions that post wakes in one transaction; the      *)
(* runtime requeues orphans and claims in one, and posts what its decision *)
(* asked for and consumes its wakes in another.  The server makes waiters  *)
(* wait for the transaction that holds the row, and aborts one of those    *)
(* that wait for each other.                                               *)
(***************************************************************************)
EXTENDS Integers, Sequences, FiniteSets

CONSTANTS
    Posters,        \* sessions that post once
    Runtime,        \* the session of the owning runtime
    Wakes,          \* wake identities
    Keys, NoKey,    \* coalescing keys
    Batch,          \* Batch[s]: the requests s posts, in this order
    Legacy,         \* wakes found claimed by no cycle
    Renewal,        \* Renewal[w]: the request that requeues the orphan w
    NoRow, NoWake,
    MaxWakes,       \* CycleLimits.max_wakes
    Horizon,        \* bound: the last instant
    MaxFaults       \* bound: failed transactions and crashes

VARIABLES
    clock,
    table,          \* wakes, as committed
    draft,          \* draft[s]: the rows the transaction of s has locked,
                    \* as it sees and will commit them
    cycle,          \* the wakes of the active cycle, none if there is none
    posted,         \* sessions that have committed their batch
    pc,             \* the next statement of each session
    todo,           \* requests the transaction of s has still to post
    seen,           \* the row a session has read and is about to lock
    now,            \* the instant the claim works with
    faults

vars == <<clock, table, draft, cycle, posted, pc, todo, seen, now, faults>>

Sessions == Posters \cup {Runtime}

ASSUME SessionsDiffer == Runtime \notin Posters
ASSUME FiniteWakes == IsFiniteSet(Wakes)
ASSUME Markers == NoKey \notin Keys /\ NoWake \notin Wakes

\* A row carries its own request and every request merged into it.
Rows == [key : Keys \cup {NoKey}, due : Nat, refs : SUBSET Wakes,
         status : {"pending", "claimed", "consumed", "superseded"}]
Requests == [id : Wakes, key : Keys \cup {NoKey}, due : Nat, refs : SUBSET Wakes]

ASSUME NoRowIsNoRow    == NoRow \notin Rows
ASSUME BatchesOfRequests == Batch \in [Sessions -> Seq(Requests)]
ASSUME RenewalsOfOrphans == Legacy \subseteq Wakes /\ Renewal \in [Wakes -> Requests]

\* A request is known by what it carries: refs is not a column, it is how the
\* properties tell one request from another.
ASSUME RequestsDiffer ==
    /\ \A s, t \in Sessions : \A i \in DOMAIN Batch[s], j \in DOMAIN Batch[t] :
        Batch[s][i].refs \cap Batch[t][j].refs # {} => s = t /\ i = j
    /\ \A v, w \in Legacy : Renewal[v].refs \cap Renewal[w].refs # {} => v = w
    /\ \A s \in Sessions : \A i \in DOMAIN Batch[s], w \in Legacy :
        Batch[s][i].refs \cap Renewal[w].refs = {}
    /\ \A s \in Sessions : \A i \in DOMAIN Batch[s] : Batch[s][i].refs # {}
    /\ \A w \in Legacy : Renewal[w].refs # {}

-----------------------------------------------------------------------------
(* Rows and locks *)

Holds(s, w)  == draft[s][w] # NoRow
Free(s, w)   == \A t \in Sessions \ {s} : ~Holds(t, w)
Seen(s, w)   == IF Holds(s, w) THEN draft[s][w] ELSE table[w]

Pending(row)  == row # NoRow /\ row.status = "pending"
In(row, k)    == Pending(row) /\ row.key = k

\* The sessions whose uncommitted change of a row with the key an insert has
\* to wait out: a new row, or one they have changed rather than just locked.
Undecided(s, k) ==
    {t \in Sessions \ {s} : \E w \in Wakes :
        /\ Holds(t, w) /\ draft[t][w] # table[w]
        /\ In(draft[t][w], k) \/ In(table[w], k)}

Init ==
    /\ clock = 0 /\ now = 0 /\ faults = 0
    /\ table = [w \in Wakes |->
                    IF w \in Legacy
                    THEN [key |-> Renewal[w].key, due |-> Renewal[w].due,
                          refs |-> Renewal[w].refs, status |-> "claimed"]
                    ELSE NoRow]
    /\ draft = [s \in Sessions |-> [w \in Wakes |-> NoRow]]
    /\ cycle = {} /\ posted = {}
    /\ pc = [s \in Sessions |-> "idle"]
    /\ todo = [s \in Sessions |-> <<>>]
    /\ seen = [s \in Sessions |-> NoWake]

-----------------------------------------------------------------------------
(* create_or_merge_pending_wake *)

Posting(s) == pc[s] \in {"insert", "read", "take"}

\* After the last request the claiming transaction goes on, the others end.
After(s, rest) == IF rest # <<>> THEN "insert"
                  ELSE IF s = Runtime /\ cycle = {} THEN "look" ELSE "end"

\* The request is in row w of the session's transaction.
Place(s, w, row) ==
    /\ draft' = [draft EXCEPT ![s][w] = row]
    /\ todo' = [todo EXCEPT ![s] = Tail(@)]
    /\ pc' = [pc EXCEPT ![s] = After(s, Tail(todo[s]))]

\* Plausible bug: the merged row is due when the last request asked.
MergedLate(row, q) == [row EXCEPT !.due = q.due, !.refs = @ \cup q.refs]

NewRow(q) == [key |-> q.key, due |-> q.due, refs |-> q.refs, status |-> "pending"]
MergedRow(row, q) ==
    [row EXCEPT !.due = IF q.due < @ THEN q.due ELSE @, !.refs = @ \cup q.refs]

\* Plausible bug: a lookup before a plain insert sees only what is committed.
InsertUnchecked(s) ==
    LET q == Head(todo[s]) IN
    /\ pc[s] = "insert"
    /\ \/ /\ q.key = NoKey \/ \A w \in Wakes : ~In(Seen(s, w), q.key)
          /\ Free(s, q.id) /\ Seen(s, q.id) = NoRow
          /\ Place(s, q.id, NewRow(q))
       \/ /\ q.key # NoKey /\ \E w \in Wakes : In(Seen(s, w), q.key)
          /\ pc' = [pc EXCEPT ![s] = "read"]
          /\ UNCHANGED <<draft, todo>>
    /\ UNCHANGED <<clock, table, cycle, posted, seen, now, faults>>

\* INSERT ... ON CONFLICT DO NOTHING; wakes_pkey refuses an identity that was
\* used before, which new_id never draws.
Insert(s) ==
    LET q == Head(todo[s]) IN
    /\ pc[s] = "insert"
    /\ \/ /\ q.key = NoKey \/ \A w \in Wakes : ~In(Seen(s, w), q.key)
          /\ q.key = NoKey \/ Undecided(s, q.key) = {}
          /\ Free(s, q.id) /\ Seen(s, q.id) = NoRow
          /\ Place(s, q.id, NewRow(q))
       \/ /\ q.key # NoKey /\ Undecided(s, q.key) = {}
          /\ \E w \in Wakes : In(Seen(s, w), q.key)
          /\ pc' = [pc EXCEPT ![s] = "read"]
          /\ UNCHANGED <<draft, todo>>
    /\ UNCHANGED <<clock, table, cycle, posted, seen, now, faults>>

\* Plausible bugs: a row that is gone when it is read is taken for one that has
\* been merged into; or is read again without another insert.
ReadGivesUp(s) ==
    /\ pc[s] = "read"
    /\ \/ \E w \in Wakes : /\ In(Seen(s, w), Head(todo[s]).key)
                           /\ seen' = [seen EXCEPT ![s] = w]
                           /\ pc' = [pc EXCEPT ![s] = "take"]
                           /\ UNCHANGED todo
       \/ /\ \A w \in Wakes : ~In(Seen(s, w), Head(todo[s]).key)
          /\ todo' = [todo EXCEPT ![s] = Tail(@)]
          /\ pc' = [pc EXCEPT ![s] = After(s, Tail(todo[s]))]
          /\ UNCHANGED seen
    /\ UNCHANGED <<clock, table, draft, cycle, posted, now, faults>>

ReadForEver(s) ==
    /\ pc[s] = "read"
    /\ \/ \E w \in Wakes : /\ In(Seen(s, w), Head(todo[s]).key)
                           /\ seen' = [seen EXCEPT ![s] = w]
                           /\ pc' = [pc EXCEPT ![s] = "take"]
       \/ /\ \A w \in Wakes : ~In(Seen(s, w), Head(todo[s]).key)
          /\ UNCHANGED <<seen, pc>>
    /\ UNCHANGED <<clock, table, draft, cycle, posted, todo, now, faults>>

\* SELECT ... FOR UPDATE finds the row that refused the insert, or no row if a
\* consumer has taken it: then the insert is tried again.
Read(s) ==
    /\ pc[s] = "read"
    /\ \/ \E w \in Wakes : /\ In(Seen(s, w), Head(todo[s]).key)
                           /\ seen' = [seen EXCEPT ![s] = w]
                           /\ pc' = [pc EXCEPT ![s] = "take"]
       \/ /\ \A w \in Wakes : ~In(Seen(s, w), Head(todo[s]).key)
          /\ pc' = [pc EXCEPT ![s] = "insert"]
          /\ UNCHANGED seen
    /\ UNCHANGED <<clock, table, draft, cycle, posted, todo, now, faults>>

\* The lock is granted and the row is judged as it is by now.
Take(s) ==
    LET w == seen[s] IN
    /\ pc[s] = "take" /\ Free(s, w)
    /\ \/ /\ Pending(Seen(s, w))
          /\ Place(s, w, MergedRow(Seen(s, w), Head(todo[s])))
       \/ /\ ~Pending(Seen(s, w))
          /\ pc' = [pc EXCEPT ![s] = "insert"]
          /\ UNCHANGED <<draft, todo>>
    /\ UNCHANGED <<clock, table, cycle, posted, seen, now, faults>>

-----------------------------------------------------------------------------
(* Transactions *)

\* The first n of a set of rows by due_at; ties are broken by wake_id, which
\* is drawn at random.
Earliest(s, W, n) ==
    {F \in SUBSET W : /\ Cardinality(F) = IF Cardinality(W) < n THEN Cardinality(W) ELSE n
                      /\ \A v \in F, w \in W \ F : Seen(s, v).due <= Seen(s, w).due}

\* A transaction starts with requests to post.
Begins(s, requests) == /\ pc[s] = "idle"
                       /\ todo' = [todo EXCEPT ![s] = requests]
                       /\ pc' = [pc EXCEPT ![s] = After(s, requests)]

BeginPost(s) ==
    /\ s \in Posters
    /\ Begins(s, Batch[s])
    /\ UNCHANGED <<clock, table, draft, cycle, posted, seen, now, faults>>

\* The transaction that applies the decision of the active cycle; the cycle
\* decides one batch, the first time.
BeginApply ==
    /\ cycle # {}
    /\ Begins(Runtime, IF Runtime \in posted THEN <<>> ELSE Batch[Runtime])
    /\ UNCHANGED <<clock, table, draft, cycle, posted, seen, now, faults>>

Orphan(w) == table[w] # NoRow /\ table[w].status = "claimed"

\* The claiming transaction locks and supersedes the orphans it is about to
\* post anew.
BeginClaim ==
    /\ cycle = {} /\ now' = clock
    /\ \E F \in Earliest(Runtime, {w \in Wakes : Orphan(w)}, MaxWakes) :
        /\ \A w \in F : Free(Runtime, w)
        /\ draft' = [draft EXCEPT ![Runtime] =
               [w \in Wakes |-> IF w \in F THEN [table[w] EXCEPT !.status = "superseded"]
                                ELSE NoRow]]
        /\ \E order \in [1 .. Cardinality(F) -> F] :
            /\ \A i, j \in DOMAIN order :
                i < j => order[i] # order[j] /\ table[order[i]].due <= table[order[j]].due
            /\ Begins(Runtime, [i \in DOMAIN order |-> Renewal[order[i]]])
    /\ UNCHANGED <<clock, table, cycle, posted, seen, faults>>

Due(w) == Pending(Seen(Runtime, w)) /\ Seen(Runtime, w).due <= now

\* Peek without SKIP LOCKED.
Look ==
    /\ pc[Runtime] = "look"
    /\ \/ \E w \in Wakes : /\ {w} \in Earliest(Runtime, {v \in Wakes : Due(v)}, 1)
                           /\ seen' = [seen EXCEPT ![Runtime] = w]
                           /\ pc' = [pc EXCEPT ![Runtime] = "first"]
       \/ /\ \A w \in Wakes : ~Due(w)
          /\ pc' = [pc EXCEPT ![Runtime] = "end"]
          /\ UNCHANGED seen
    /\ UNCHANGED <<clock, table, draft, cycle, posted, todo, now, faults>>

\* Plausible bug: a locked first wake does not end the claim.
FirstSkips ==
    /\ pc[Runtime] = "first"
    /\ pc' = [pc EXCEPT ![Runtime] = "batch"]
    /\ UNCHANGED <<clock, table, draft, cycle, posted, todo, seen, now, faults>>

\* Lock the earliest with SKIP LOCKED; if another session holds it or has
\* taken it, nothing is claimed.
First ==
    LET w == seen[Runtime] IN
    /\ pc[Runtime] = "first"
    /\ \/ /\ Free(Runtime, w) /\ Pending(Seen(Runtime, w))
          /\ draft' = [draft EXCEPT ![Runtime][w] = Seen(Runtime, w)]
          /\ pc' = [pc EXCEPT ![Runtime] = "batch"]
       \/ /\ ~(Free(Runtime, w) /\ Pending(Seen(Runtime, w)))
          /\ pc' = [pc EXCEPT ![Runtime] = "end"]
          /\ UNCHANGED draft
    /\ UNCHANGED <<clock, table, cycle, posted, todo, seen, now, faults>>

\* Lock and claim the earliest of those that are due and not locked.
ClaimBatch ==
    /\ pc[Runtime] = "batch"
    /\ \E F \in Earliest(Runtime, {w \in Wakes : Due(w) /\ Free(Runtime, w)}, MaxWakes) :
        draft' = [draft EXCEPT ![Runtime] =
                     [w \in Wakes |-> IF w \in F THEN [Seen(Runtime, w) EXCEPT !.status = "claimed"]
                                      ELSE @[w]]]
    /\ pc' = [pc EXCEPT ![Runtime] = "end"]
    /\ UNCHANGED <<clock, table, cycle, posted, todo, seen, now, faults>>

-----------------------------------------------------------------------------
(* The end of a transaction *)

Ended(s) == IF s = Runtime THEN "idle" ELSE "over"

Released(s) == /\ draft' = [draft EXCEPT ![s] = [w \in Wakes |-> NoRow]]
               /\ todo' = [todo EXCEPT ![s] = <<>>]
               /\ seen' = [seen EXCEPT ![s] = NoWake]
               /\ pc' = [pc EXCEPT ![s] = Ended(s)]

Claimed == {w \in Wakes : Holds(Runtime, w) /\ draft[Runtime][w].status = "claimed"}

\* The commit: the application consumes the wakes of its cycle as well.
Commit(s) ==
    LET consumed == IF s = Runtime THEN cycle ELSE {} IN
    /\ pc[s] = "end"
    /\ table' = [w \in Wakes |-> IF w \in consumed THEN [table[w] EXCEPT !.status = "consumed"]
                                 ELSE Seen(s, w)]
    /\ cycle' = IF s # Runtime THEN cycle ELSE IF cycle = {} THEN Claimed ELSE {}
    /\ posted' = IF s = Runtime /\ cycle = {} THEN posted ELSE posted \cup {s}
    /\ Released(s)
    /\ UNCHANGED <<clock, now, faults>>

\* An error, or the end of the process, undoes the transaction.
Fail(s) ==
    /\ pc[s] \notin {"idle", "over"} /\ faults < MaxFaults
    /\ faults' = faults + 1
    /\ Released(s)
    /\ UNCHANGED <<clock, table, cycle, posted, now>>

-----------------------------------------------------------------------------
(* The server *)

\* The sessions s waits for.
Waits(s) == CASE pc[s] = "insert" /\ Head(todo[s]).key # NoKey -> Undecided(s, Head(todo[s]).key)
              [] pc[s] = "take" -> {t \in Sessions \ {s} : Holds(t, seen[s])}
              [] OTHER -> {}

\* They wait for each other; every transaction waits for one other at most.
Deadlocked(D) == /\ D # {}
                 /\ \A s \in D : Waits(s) \cap D # {} /\ \E t \in D : s \in Waits(t)

\* The server finds a deadlock and aborts one of its transactions.
Abort(s) ==
    /\ \E D \in SUBSET Sessions : s \in D /\ Deadlocked(D)
    /\ Released(s)
    /\ UNCHANGED <<clock, table, cycle, posted, now, faults>>

Tick == /\ clock < Horizon /\ clock' = clock + 1
        /\ UNCHANGED <<table, draft, cycle, posted, pc, todo, seen, now, faults>>

-----------------------------------------------------------------------------

Post(s) == Insert(s) \/ Read(s) \/ Take(s)
Claim   == BeginClaim \/ Look \/ First \/ ClaimBatch
Step(s) == BeginPost(s) \/ Post(s) \/ Commit(s)

Next == \/ \E s \in Sessions : Step(s) \/ Fail(s) \/ Abort(s)
        \/ BeginApply \/ Claim \/ Tick

Spec == Init /\ [][Next]_vars

\* Sessions go on, the operator keeps running the runtime, deadlocks are
\* noticed, time passes.  The server wakes a waiter whenever the transaction it
\* waits for ends, so it is not passed over for ever.
Fairness == /\ \A s \in Posters : SF_vars(Step(s))
            /\ SF_vars(Step(Runtime) \/ BeginApply \/ Claim)
            /\ WF_vars(\E s \in Sessions : Abort(s))
            /\ WF_vars(Tick)

FairSpec == Spec /\ Fairness

-----------------------------------------------------------------------------
(* Properties *)

\* The index uq_wakes_pending_coalesce across transactions: what a session holds
\* nobody else holds, and a key has one pending row, in what is committed as in
\* what any one transaction sees; a session may only make a second one after it
\* has taken the first (stores/attention.py).
OneRowPerKey ==
    /\ \A s \in Sessions, w \in Wakes : Holds(s, w) => Free(s, w)
    /\ \A s \in Sessions, v, w \in Wakes, k \in Keys :
        /\ In(table[v], k) /\ In(table[w], k) => v = w
        /\ In(Seen(s, v), k) /\ In(Seen(s, w), k) => v = w
        /\ In(table[v], k) /\ In(Seen(s, w), k) /\ v # w => Holds(s, v)

Asked == (UNION {{Batch[s][i] : i \in DOMAIN Batch[s]} : s \in Sessions})
             \cup {Renewal[w] : w \in Legacy}

\* A pending row is of the key of every request merged into it and due when the
\* earliest of them asked to be, whoever merged them in whatever order
\* (the min, the union and the revision of the merge).
DueWithEarliest ==
    \A w \in Wakes : Pending(table[w]) =>
        LET carried == {q \in Asked : q.refs \subseteq table[w].refs}
        IN  /\ \A q \in carried : q.key = table[w].key /\ table[w].due <= q.due
            /\ \E q \in carried : q.due = table[w].due

\* SKIP LOCKED never lets a claim overtake: a batch starts with a wake due no
\* later than the one the run found earliest, or there is no batch.
ClaimsInOrder ==
    [][cycle = {} /\ cycle' # {} =>
        \E w \in cycle' : table'[w].due <= Seen(Runtime, seen[Runtime]).due]_vars

Waiting   == {w \in Wakes : Pending(table[w]) \/ (Orphan(w) /\ w \notin cycle)}
HandedOut == {w \in Wakes : w \in cycle \/ (table[w] # NoRow /\ table[w].status = "consumed")}

RefsOf(W)    == UNION {table[w].refs : w \in W}
LettersOf(s) == UNION {Batch[s][i].refs : i \in DOMAIN Batch[s]}

Box == INSTANCE PostBox WITH
    Senders <- Sessions, Letters <- LettersOf,
    Left <- UNION {Renewal[w].refs : w \in Legacy},
    box <- RefsOf(Waiting), sent <- posted, handed <- RefsOf(HandedOut)

\* Nothing posted is lost, carried twice or posted in part, whatever merges,
\* waits, failures and deadlocks happen on the way.
ImplementsPostBox == Box!Spec

\* Every transaction ends, so no session waits for ever on another, and every
\* request that was posted is handed out.
EveryoneServed ==
    []<>(/\ \A s \in Sessions : pc[s] \in {"idle", "over"}
         /\ Waiting = {})

=============================================================================

