--------------------------- MODULE Administration ---------------------------
(***************************************************************************)
(* Birth and administration of an individual among the other transactions  *)
(* that lock its rows: birth (runtime/birth.py), lifecycle, exploration    *)
(* policy and connectors (runtime/lifecycle.py, exploration_admin.py,      *)
(* connector_admin.py), configuration (config/recording.py), redaction     *)
(* (stores/evidence.py), the runs of the owning runtime and the ingestion  *)
(* of pages.                                                               *)
(*                                                                         *)
(* A call is a transaction, a call's script its statements, each on the    *)
(* rows committed by then (READ COMMITTED) with the row locks it keeps to  *)
(* its end.  An event refers to its individual, so its insertion shares    *)
(* the individual's row, which a locked row makes it wait for.  What runs  *)
(* and pages do besides locking is in the modules Cognition, Perception.   *)
(***************************************************************************)
EXTENDS Lifecycle, Naturals, Sequences, FiniteSets

CONSTANTS
    Operators,      \* sessions of local operators
    Runtime,        \* the session that owns the individual
    Ingester,       \* a session that ingests pages
    Subjects,       \* local users
    Subject,        \* Subject[s]: as whom an operator is authenticated
    Configs,        \* behavior configurations, by content hash
    Unlocked, NoCall, NoSubject, NoConfig, NotRead,
    MaxCalls        \* bound: calls of operators

VARIABLES
    table,          \* the rows of the individual, as committed
    log,            \* its administrative events with their audits, in the
                    \* order of their commits
    seq,            \* events.event_sequence: drawn at the insertion, never given back
    draft,          \* draft[s]: the rows s has locked, as it will commit them
    sharing,        \* sessions with a reference to the individual's row
    call,           \* what each session is doing
    want,           \* the configuration it does it with
    todo,           \* the statements it has left
    saw,            \* the governance row it has read without a lock
    entry,          \* the event it has inserted
    calls

session == <<draft, sharing, call, want, todo, saw, entry>>
vars    == <<table, log, seq, session, calls>>

Sessions == Operators \cup {Runtime, Ingester}

\* The rows of an individual, as far as they matter here.
Individuals == [status : Statuses \cup {"unborn"}, revision : Nat]
Governances == [blocked : BOOLEAN, explore : BOOLEAN, revision : Nat]
Bindings    == [state : {"none", "enabled", "disabled"}, revision : Nat]
Contents    == [audit : Nat]

\* No event inserted yet.
NoEntry == << >>

ASSUME SessionAssumption ==
    Runtime \notin Operators /\ Ingester \notin Operators /\ Runtime # Ingester
ASSUME SubjectAssumption == Subject \in [Operators -> Subjects] /\ NoSubject \notin Subjects
ASSUME ConfigAssumption == NoConfig \notin Configs
\* No row of any kind is the mark of one that is not locked.
ASSUME UnlockedAssumption ==
    Unlocked \notin Individuals \cup Governances \cup Bindings \cup Contents
                    \cup Subjects \cup Seq(Configs) \cup Nat

Rows == {"individual", "principal", "governance", "binding", "revisions", "wake", "content"}

-----------------------------------------------------------------------------
(* Calls *)

LifecycleCalls == {t[2] : t \in Transitions}
PolicyCalls    == {"enable_exploration", "disable_exploration"}
BindingCalls   == {"connector.register", "connector.enable", "connector.disable"}
AdminCalls     == LifecycleCalls \cup {"emergency_block"} \cup PolicyCalls \cup BindingCalls

\* update_governance and redact_event_content have trusted callers, none of
\* them under src/; they join transactions of their own.
OperatorCalls == AdminCalls \cup {"individual.born", "config.changed", "unblock", "redact"}

\* Plausible bug: a connector change locks governance before the individual.
ScriptGovernanceFirst(c) ==
    CASE c \in LifecycleCalls  -> <<"individual", "principal", "look", "status", "event">>
      [] c = "emergency_block" -> <<"individual", "principal", "look", "block", "event">>
      [] c \in PolicyCalls     -> <<"individual", "principal", "explore", "event">>
      [] c \in BindingCalls    -> <<"governance", "individual", "principal", "binding", "event">>
      [] c = "individual.born" -> <<"born", "found", "event", "wake">>
      [] c = "config.changed"  -> <<"individual", "revise", "event">>
      [] c = "unblock"         -> <<"unblock">>
      [] c = "redact"          -> <<"event", "redact">>
      [] c = "run"             -> <<"individual", "governance">>
      [] c = "settle"          -> <<"mention", "individual", "governance">>
      [] c = "ingest"          -> <<"individual", "governance", "binding">>

\* The statements of a call, in their order.
Script(c) ==
    CASE c \in LifecycleCalls  -> <<"individual", "principal", "look", "status", "event">>
      [] c = "emergency_block" -> <<"individual", "principal", "look", "block", "event">>
      [] c \in PolicyCalls     -> <<"individual", "principal", "explore", "event">>
      [] c \in BindingCalls    -> <<"individual", "principal", "governance", "binding", "event">>
      [] c = "individual.born" -> <<"born", "found", "event", "wake">>
      [] c = "config.changed"  -> <<"individual", "revise", "event">>
      [] c = "unblock"         -> <<"unblock">>
      [] c = "redact"          -> <<"event", "redact">>
      [] c = "run"             -> <<"individual", "governance">>
      [] c = "settle"          -> <<"mention", "individual", "governance">>
      [] c = "ingest"          -> <<"individual", "governance", "binding">>

At(s, statement) == todo[s] # <<>> /\ Head(todo[s]) = statement

Row(statement) ==
    CASE statement \in {"individual", "born", "status"}              -> "individual"
      [] statement = "principal"                                     -> "principal"
      [] statement \in {"governance", "block", "explore", "unblock"} -> "governance"
      [] statement = "binding"                                       -> "binding"
      [] statement = "revise"                                        -> "revisions"
      [] statement = "redact"                                        -> "content"
      [] OTHER                                                       -> "none"

RuntimeCalls  == {"run", "settle"}
IngesterCalls == {"ingest"}

ASSUME CallAssumption == NoCall \notin OperatorCalls \cup RuntimeCalls \cup IngesterCalls

-----------------------------------------------------------------------------
(* Rows and locks *)

Holds(s, row) == row \in Rows /\ draft[s][row] # Unlocked
Seen(s, row)  == IF Holds(s, row) THEN draft[s][row] ELSE table[row]

\* Rows nobody has committed yet are not found, so nobody waits for them; only
\* a second insertion of the same identity waits for the first.
Born(s) == Seen(s, "individual").status # "unborn"

Refers(s) == At(s, "event") \/ At(s, "mention")

\* The sessions the next statement of s has to wait for.
Blockers(s) ==
    {t \in Sessions \ {s} :
        /\ todo[s] # <<>>
        /\ Born(s) \/ At(s, "born")
        /\ IF Refers(s) THEN Holds(t, "individual")
           ELSE \/ Holds(t, Row(Head(todo[s])))
                \/ Row(Head(todo[s])) = "individual" /\ t \in sharing}

\* The status a lifecycle operation leads to, if it may be taken.
NextStatuses(s) ==
    {t[3] : t \in {x \in Transitions : x[1] = Seen(s, "individual").status /\ x[2] = call[s]}}

\* Plausible bug: the revision that was read is not compared.
AcceptedUnchecked(s) ==
    /\ Born(s) <=> ~At(s, "born")
    /\ At(s, "principal") => Seen(s, "principal") = Subject[s]
    /\ At(s, "status") => NextStatuses(s) # {}
    /\ At(s, "binding") /\ s \in Operators =>
        (Seen(s, "binding").state = "none" <=> call[s] = "connector.register")
    /\ At(s, "event") /\ call[s] = "redact" => table["principal"] = Subject[s]

\* The errors a statement may raise: no such individual, already born, not its
\* administrator, no such transition, a changed revision, no or a second binding.
Accepted(s) ==
    /\ Born(s) <=> ~At(s, "born")
    /\ At(s, "principal") => Seen(s, "principal") = Subject[s]
    /\ At(s, "status") => NextStatuses(s) # {}
    /\ At(s, "block") => Seen(s, "governance").revision = saw[s].revision
    /\ At(s, "binding") /\ s \in Operators =>
        (Seen(s, "binding").state = "none" <=> call[s] = "connector.register")
    /\ At(s, "event") /\ call[s] = "redact" => table["principal"] = Subject[s]

Ready(s, statement) == At(s, statement) /\ Blockers(s) = {} /\ Accepted(s)

Proceed(s) == todo' = [todo EXCEPT ![s] = Tail(@)]

\* The statement locks the row and leaves this in it.
Write(s, row, value) ==
    /\ draft' = [draft EXCEPT ![s][row] = value]
    /\ Proceed(s)
    /\ UNCHANGED <<table, log, seq, sharing, call, want, saw, entry, calls>>

-----------------------------------------------------------------------------
(* Statements *)

\* load_individual, find_admin_principal, the governance lock of a connector
\* change; execution_allowed and _execution_lock; persist_page.
Lock(s) ==
    \E st \in {"individual", "principal", "governance"} :
        Ready(s, st) /\ Write(s, st, Seen(s, st))

LockBinding(s) ==
    /\ Ready(s, "binding") /\ s = Ingester
    /\ Write(s, "binding", Seen(s, "binding"))

\* load_governance takes no lock.
Look(s) ==
    /\ Ready(s, "look")
    /\ saw' = [saw EXCEPT ![s] = Seen(s, "governance")]
    /\ Proceed(s)
    /\ UNCHANGED <<table, log, seq, draft, sharing, call, want, entry, calls>>

SetStatus(s) ==
    /\ Ready(s, "status")
    /\ \E status \in NextStatuses(s) :
        Write(s, "individual", [status |-> status,
                                revision |-> Seen(s, "individual").revision + 1])

\* update_governance, by an emergency block or by a trusted caller.
UpdateGovernance(s) ==
    \E st \in {"block", "unblock"} :
        /\ Ready(s, st)
        /\ Write(s, "governance", [Seen(s, "governance") EXCEPT
                                       !.blocked = (st = "block"), !.revision = @ + 1])

SetExploration(s) ==
    /\ Ready(s, "explore")
    /\ Write(s, "governance", [Seen(s, "governance") EXCEPT
                                   !.explore = (call[s] = "enable_exploration"),
                                   !.revision = @ + 1])

\* create_connector_binding, set_connector_enabled.
SetBinding(s) ==
    /\ Ready(s, "binding") /\ s \in Operators
    /\ \E enabled \in IF call[s] = "connector.register" THEN BOOLEAN
                      ELSE {call[s] = "connector.enable"} :
        Write(s, "binding", [state |-> IF enabled THEN "enabled" ELSE "disabled",
                             revision |-> Seen(s, "binding").revision + 1])

Active(revisions) == IF revisions = <<>> THEN NoConfig ELSE revisions[Len(revisions)]

\* Plausible bug: a configuration is recorded again though it is the active one.
ReviseAlways(s) ==
    /\ Ready(s, "revise")
    /\ Write(s, "revisions", Append(Seen(s, "revisions"), want[s]))

\* replace_config_revision: the active one is superseded, unless it is the same.
Revise(s) ==
    /\ Ready(s, "revise")
    /\ IF Active(Seen(s, "revisions")) = want[s]
       THEN /\ todo' = [todo EXCEPT ![s] = <<>>]
            /\ UNCHANGED <<table, log, seq, draft, sharing, call, want, saw, entry, calls>>
       ELSE Write(s, "revisions", Append(Seen(s, "revisions"), want[s]))

\* create_individual; pk_individuals lets one birth through.
Bear(s) ==
    /\ Ready(s, "born")
    /\ Write(s, "individual", [status |-> "active", revision |-> 1])

\* create_governance, create_admin_principal and the first configuration; the
\* birth input names the administrator and the policy.
Found(s) ==
    /\ Ready(s, "found")
    /\ \E who \in Subjects, explore \in BOOLEAN :
        draft' = [draft EXCEPT ![s]["governance"] = [blocked |-> TRUE, explore |-> explore, revision |-> 1],
                               ![s]["principal"] = who,
                               ![s]["revisions"] = <<want[s]>>]
    /\ Proceed(s)
    /\ UNCHANGED <<table, log, seq, sharing, call, want, saw, entry, calls>>

\* The bootstrap wake refers to the genesis event.
PostBootstrap(s) == Ready(s, "wake") /\ Write(s, "wake", entry[s].seq)

\* redact_event_content of the genesis event: the first redaction stands.
Redact(s) ==
    /\ Ready(s, "redact")
    /\ Write(s, "content", IF Seen(s, "content").audit = 0 THEN [audit |-> entry[s].seq]
                           ELSE Seen(s, "content"))

\* The references a transaction of the runtime makes before it locks anything.
Mention(s) ==
    /\ Ready(s, "mention")
    /\ sharing' = sharing \cup {s}
    /\ Proceed(s)
    /\ UNCHANGED <<table, log, seq, draft, call, want, saw, entry, calls>>

-----------------------------------------------------------------------------
(* Evidence *)

\* What the event and the audit of a call tell.
Told(c) ==
    CASE c \in LifecycleCalls \cup {"emergency_block"} -> {"status", "blocked"}
      [] c \in PolicyCalls       -> {"explore", "governance"}
      [] c \in BindingCalls      -> {"binding"}
      [] c = "config.changed"    -> {"config"}
      [] c = "individual.born"   -> {"config", "principal"}
      [] OTHER                   -> {}

Value(row, field) ==
    CASE field = "status"     -> row["individual"].status
      [] field = "blocked"    -> row["governance"].blocked
      [] field = "explore"    -> row["governance"].explore
      [] field = "governance" -> row["governance"].revision
      [] field = "binding"    -> row["binding"]
      [] field = "config"     -> Active(row["revisions"])
      [] field = "principal"  -> row["principal"]

\* Before and after, as the transaction knows them: an operation of the
\* lifecycle only read whether external actions are blocked.
Before(s, field) == IF field = "blocked" THEN saw[s].blocked ELSE Value(table, field)
After(s, field) ==
    IF field = "blocked" /\ call[s] \in LifecycleCalls THEN saw[s].blocked
    ELSE Value([row \in Rows |-> Seen(s, row)], field)

\* append_event, and record_admin_audit where there is one.
AppendEvent(s) ==
    /\ Ready(s, "event")
    /\ seq' = seq + 1
    /\ entry' = [entry EXCEPT ![s] =
          [seq |-> seq + 1, op |-> call[s], by |-> Subject[s],
           before |-> [f \in IF call[s] \in AdminCalls THEN Told(call[s]) ELSE {} |-> Before(s, f)],
           after |-> [f \in Told(call[s]) |-> After(s, f)]]]
    /\ sharing' = sharing \cup {s}
    /\ Proceed(s)
    /\ UNCHANGED <<table, log, draft, call, want, saw, calls>>

-----------------------------------------------------------------------------
(* Transactions *)

Begins(s, c, w) ==
    /\ call[s] = NoCall
    /\ call' = [call EXCEPT ![s] = c]
    /\ want' = [want EXCEPT ![s] = w]
    /\ todo' = [todo EXCEPT ![s] = Script(c)]
    /\ UNCHANGED <<table, log, seq, draft, sharing, saw, entry>>

BeginCall(s) ==
    /\ s \in Operators /\ calls < MaxCalls
    /\ calls' = calls + 1
    /\ \E c \in OperatorCalls, w \in Configs \cup {NoConfig} :
        /\ w = NoConfig <=> c \notin {"individual.born", "config.changed"}
        /\ Begins(s, c, w)

\* A run takes the locks first, except where it records a result or a failure
\* and finishes the cycle over it.
BeginWork(s) ==
    /\ s \in {Runtime, Ingester}
    /\ \E c \in IF s = Runtime THEN RuntimeCalls ELSE IngesterCalls : Begins(s, c, NoConfig)
    /\ UNCHANGED calls

Released(s) ==
    /\ draft' = [draft EXCEPT ![s] = [row \in Rows |-> Unlocked]]
    /\ sharing' = sharing \ {s}
    /\ call' = [call EXCEPT ![s] = NoCall]
    /\ want' = [want EXCEPT ![s] = NoConfig]
    /\ todo' = [todo EXCEPT ![s] = <<>>]
    /\ saw' = [saw EXCEPT ![s] = NotRead]
    /\ entry' = [entry EXCEPT ![s] = NoEntry]

Commit(s) ==
    /\ call[s] # NoCall /\ todo[s] = <<>>
    /\ table' = [row \in Rows |-> Seen(s, row)]
    /\ log' = IF entry[s] = NoEntry THEN log ELSE Append(log, entry[s])
    /\ Released(s)
    /\ UNCHANGED <<seq, calls>>

\* A statement raises, and everything before it is undone.  A connector change
\* also raises when the clock it read before its locks is behind the binding's.
Refuse(s) ==
    /\ todo[s] # <<>> /\ Blockers(s) = {}
    /\ \/ ~Accepted(s)
       \/ At(s, "binding") /\ call[s] \in {"connector.enable", "connector.disable"}
    /\ Released(s)
    /\ UNCHANGED <<table, log, seq, calls>>

\* The transaction fails or loses its session; its sequence number is lost.
Fail(s) ==
    /\ call[s] # NoCall
    /\ Released(s)
    /\ UNCHANGED <<table, log, seq, calls>>

-----------------------------------------------------------------------------

Init ==
    /\ table = [row \in Rows |->
           CASE row = "individual" -> [status |-> "unborn", revision |-> 0]
             [] row = "governance" -> [blocked |-> TRUE, explore |-> FALSE, revision |-> 0]
             [] row = "principal"  -> NoSubject
             [] row = "binding"    -> [state |-> "none", revision |-> 0]
             [] row = "revisions"  -> <<>>
             [] row = "wake"       -> 0
             [] row = "content"    -> [audit |-> 0]]
    /\ log = <<>> /\ seq = 0
    /\ draft = [s \in Sessions |-> [row \in Rows |-> Unlocked]]
    /\ sharing = {}
    /\ call = [s \in Sessions |-> NoCall]
    /\ want = [s \in Sessions |-> NoConfig]
    /\ todo = [s \in Sessions |-> <<>>]
    /\ saw = [s \in Sessions |-> NotRead]
    /\ entry = [s \in Sessions |-> NoEntry]
    /\ calls = 0

Statement(s) ==
    \/ Lock(s) \/ LockBinding(s) \/ Look(s) \/ SetStatus(s) \/ UpdateGovernance(s)
    \/ SetExploration(s) \/ SetBinding(s) \/ Revise(s) \/ Bear(s) \/ Found(s)
    \/ PostBootstrap(s) \/ Redact(s) \/ Mention(s) \/ AppendEvent(s)

Next == \E s \in Sessions :
            BeginCall(s) \/ BeginWork(s) \/ Statement(s) \/ Commit(s) \/ Refuse(s) \/ Fail(s)

Spec == Init /\ [][Next]_vars

-----------------------------------------------------------------------------
(* Properties *)

Telling(f) == {i \in DOMAIN log : f \in DOMAIN log[i].after}

\* i is the last event before j that tells f, in the order of the sequence.
Precedes(i, j, f) ==
    /\ log[i].seq < log[j].seq
    /\ ~\E k \in Telling(f) : log[i].seq < log[k].seq /\ log[k].seq < log[j].seq

Later(i, f) == {k \in Telling(f) : log[k].seq > log[i].seq}

Redactions == {i \in DOMAIN log : log[i].op = "redact"}

\* stores/evidence.py, db/checks.py, individual_genesis and active_config_revision:
\* the evidence alone, read by its sequence, tells how the individual came to be
\* as it is, although calls race.  It begins with the one birth, whose rows are
\* all there; what an audit found is what the one before it left, and the last
\* one left what there is; every configuration but no unchanged one is told; and
\* content stays redacted under the first audit that says so.
EvidenceReplays ==
    /\ log = <<>> <=> table["individual"].status = "unborn"
    /\ \A i \in DOMAIN log :
        /\ log[i].op = "individual.born" <=> \A j \in DOMAIN log : log[i].seq <= log[j].seq
        /\ log[i].op = "individual.born" =>
               /\ table["principal"] = log[i].after["principal"]
               /\ table["revisions"][1] = log[i].after["config"]
               /\ table["wake"] = log[i].seq
        /\ log[i].op \in AdminCalls => log[i].by = table["principal"]
    /\ \A f \in {"status", "explore", "binding"} : \A i \in Telling(f) :
        /\ \A j \in Telling(f) : Precedes(i, j, f) => log[j].before[f] = log[i].after[f]
        /\ Later(i, f) = {} => log[i].after[f] = Value(table, f)
    /\ Len(table["revisions"]) = Cardinality(Telling("config"))
    /\ \A i \in Telling("config") :
        /\ log[i].after["config"] =
               table["revisions"][Len(table["revisions"]) - Cardinality(Later(i, "config"))]
        /\ \A j \in Telling("config") :
               Precedes(i, j, "config") => log[j].after["config"] # log[i].after["config"]
    /\ IF Redactions = {} THEN table["content"].audit = 0
       ELSE \E i \in Redactions : /\ \A j \in Redactions : i <= j
                                  /\ table["content"].audit = log[i].seq

\* Whether external actions are blocked is only read by a lifecycle operation.
Exact(e) == DOMAIN e.before \ IF e.op \in LifecycleCalls THEN {"blocked"} ELSE {}

\* runtime/lifecycle.py, runtime/exploration_admin.py, runtime/connector_admin.py:
\* at its commit an audit says what was there until then and what is from now on,
\* whoever changes governance without the locks of administration; and after
\* birth nothing but such a call changes what audits and events tell.
AuditsAreExact ==
    [][/\ log' # log =>
            LET e == log'[Len(log')]
            IN  \A f \in Exact(e) : e.before[f] = Value(table, f) /\ e.after[f] = Value(table', f)
       /\ \A f \in {"status", "explore", "binding", "config", "principal"} :
            log # <<>> /\ Value(table', f) # Value(table, f) =>
                log' # log /\ f \in DOMAIN log'[Len(log')].after]_vars

\* stores/cognition.py, execution_allowed: "All mutation paths lock identity
\* before governance, matching administration".  No transactions ever wait for
\* each other in a circle, whatever each of them has locked so far.
Waiting == {s \in Sessions : Blockers(s) # {}}

NoCircularWait ==
    \A D \in (SUBSET Waiting) \ {{}} : \E s \in D : Blockers(s) \cap D = {}

=============================================================================
