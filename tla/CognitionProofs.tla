--------------------------- MODULE CognitionProofs ---------------------------
(***************************************************************************)
(* What the durable cycle keeps true, for any runtimes, clocks, limits,    *)
(* policies, decisions and bounds: the owner's memory and the turns, the   *)
(* effects of decisions, the decision ledger, the wakes and the managed    *)
(* heartbeat, and a pause.  The proofs go through the shape of a step:     *)
(* whatever runtime, fault or administrator acts, cycles, turns and        *)
(* operations change in one of seven ways, wakes and heartbeat in five.    *)
(* The last section is about the timing policy that the cycle ends with.   *)
(***************************************************************************)
EXTENDS CognitionProperties, CognitionLedger, HeartbeatTiming, FiniteSetTheorems, TLAPS

-----------------------------------------------------------------------------
(* What the helpers return *)

LEMMA LeastOfType ==
    ASSUME NEW S \in SUBSET Nat, S # {}
    PROVE  LeastOf(S) \in S /\ \A n \in S : LeastOf(S) <= n
<1>1. PICK m \in S : \A n \in S : ~ (<<n, m>> \in OpToRel(<, Nat))
  BY WFMin, NatLessThanWellFounded
<1>2. \A n, k \in Nat : <<n, k>> \notin OpToRel(<, Nat) => ~ (n < k)
  BY Zenon DEF OpToRel
<1>3. m \in Nat /\ \A n \in S : n \in Nat
  OBVIOUS
<1>4. \A n \in S : ~ (n < m)
  BY <1>1, <1>2, <1>3, Zenon
<1>5. \A n \in S : m <= n
  BY <1>3, <1>4
<1> QED BY <1>5 DEF LeastOf

LEMMA DuesType ==
    ASSUME NEW in \in SUBSET Incoming, in # {}
    PROVE  Dues(in) \in SUBSET Nat /\ Dues(in) # {} /\ Refs(in) \in SUBSET Wakes
BY DEF Dues, Refs, Incoming

LEMMA MergedRowType ==
    ASSUME NEW row \in WakeRecords, NEW in \in SUBSET Incoming
    PROVE  MergedRow(row, in) \in WakeRecords
<1>1. Dues(in) \cup {row.due} \in SUBSET Nat /\ Refs(in) \in SUBSET Wakes
  BY DEF Dues, Refs, Incoming, WakeRecords
<1>2. LeastOf(Dues(in) \cup {row.due}) \in Nat
  BY <1>1, LeastOfType
<1> HIDE DEF Dues, Refs
<1> QED BY <1>1, <1>2 DEF MergedRow, WakeRecords

LEMMA InsertedRowType ==
    ASSUME NEW w, NEW in \in SUBSET Incoming, \E q \in in : q.id = w
    PROVE  InsertedRow(w, in) \in WakeRecords
<1> DEFINE mine == CHOOSE q \in in : q.id = w
<1>1. mine \in Incoming
  OBVIOUS
<1>2. LeastOf(Dues(in)) \in Nat /\ Refs(in) \in SUBSET Wakes
  BY DuesType, LeastOfType
<1> HIDE DEF mine
<1>3. InsertedRow(w, in) =
          [status |-> "pending", kind |-> mine.kind, key |-> mine.key,
           due |-> LeastOf(Dues(in)), refs |-> Refs(in)]
  BY DEF InsertedRow, mine
<1>4. mine.kind \in WakeKinds /\ mine.key \in Keys \cup {NoKey}
  BY <1>1 DEF Incoming
<1> QED BY <1>2, <1>3, <1>4 DEF WakeRecords, WakeStatuses

\* Whoever arrives at a wake that is not pending brings its identity.
LEMMA ArrivalBringsIdentity ==
    ASSUME NEW wk \in [Wakes -> WakeRecords], NEW R \in SUBSET Incoming,
           NEW w \in Wakes, wk[w].status # "pending", Arrivals(wk, R, w) # {}
    PROVE  \E q \in Arrivals(wk, R, w) : q.id = w
<1>1. PICK q \in R : Home(wk, R, q) = w
  BY DEF Arrivals
<1>2. CASE q.key = NoKey
  BY <1>1, <1>2 DEF Home, Arrivals
<1>3. CASE q.key # NoKey
  <2>1. Holders(wk, q.key) = {}
    BY <1>1, <1>3 DEF Home, Holders
  <2> DEFINE ids == {p.id : p \in {p \in R : p.key = q.key}}
  <2>2. w = CHOOSE v \in ids : TRUE
    BY <1>1, <1>3, <2>1 DEF Home
  <2>3. q.id \in ids
    OBVIOUS
  <2>4. w \in ids
    BY <2>2, <2>3
  <2>5. PICK p \in R : p.key = q.key /\ p.id = w
    BY <2>4
  <2>6. Home(wk, R, p) = Home(wk, R, q)
    BY <1>3, <2>1, <2>5 DEF Home
  <2> QED BY <1>1, <2>5, <2>6 DEF Arrivals
<1> QED BY <1>2, <1>3

\* Posting keeps every row well formed, whatever is merged with what.
LEMMA PostType ==
    ASSUME NEW wk \in [Wakes -> WakeRecords], NEW R \in SUBSET Incoming
    PROVE  Post(wk, R) \in [Wakes -> WakeRecords]
<1> SUFFICES ASSUME NEW w \in Wakes
             PROVE  (IF Arrivals(wk, R, w) = {} THEN wk[w]
                     ELSE IF wk[w].status = "pending" THEN MergedRow(wk[w], Arrivals(wk, R, w))
                     ELSE InsertedRow(w, Arrivals(wk, R, w))) \in WakeRecords
  BY DEF Post
<1>1. Arrivals(wk, R, w) \in SUBSET Incoming
  BY DEF Arrivals
<1>2. CASE Arrivals(wk, R, w) = {}
  BY <1>2
<1>3. CASE Arrivals(wk, R, w) # {} /\ wk[w].status = "pending"
  BY <1>1, <1>3, MergedRowType
<1>4. CASE Arrivals(wk, R, w) # {} /\ wk[w].status # "pending"
  BY <1>1, <1>4, ArrivalBringsIdentity, InsertedRowType
<1> QED BY <1>2, <1>3, <1>4


-----------------------------------------------------------------------------
(* The managed heartbeat *)

LEMMA BoundsType ==
    ASSUME NEW p \in Policies, NEW i \in Nat
    PROVE  EffectiveMinimum(p) \in Nat /\ Clamp(p, i) \in Nat
BY SecondAssumption DEF Policies, EffectiveMinimum, EffectiveMaximum, Clamp, Lesser, Greater

LEMMA ScheduleType ==
    ASSUME NEW p \in Policies, NEW a \in Nat, NEW i \in Nat
    PROVE  Schedule(p, a, i, NoDeadline) \in Nat
<1>1. AddSeconds(a, Clamp(p, i)) \in Nat
  BY BoundsType, MaxUtcAssumption DEF AddSeconds
<1>2. Schedule(p, a, i, NoDeadline) = AddSeconds(a, Clamp(p, i))
  BY DEF Schedule, NoDeadline
<1> QED BY <1>1, <1>2

LEMMA NextIntervalType ==
    ASSUME NEW p \in Policies, NEW i \in Nat, NEW autonomous, NEW activity
    PROVE  NextInterval(p, i, autonomous, activity) \in Nat
<1>1. p.factor \in Nat /\ EffectiveMaximum(p) \in Nat
  BY SecondAssumption DEF Policies, EffectiveMinimum, EffectiveMaximum, Greater
<1>2. Clamp(p, i) * p.factor \in Nat
  BY <1>1, BoundsType
<1> QED BY <1>1, <1>2, BoundsType DEF NextInterval, Lesser

LEMMA BeatType == ASSUME NEW c \in {NoCycle} \cup Cycles PROVE Beat(c) \in Wakes
BY DEF Wakes, Beats

LEMMA MaterializeType ==
    ASSUME NEW wk \in [Wakes -> WakeRecords], NEW hb \in HeartbeatRecords,
           NEW p \in Policies, link \in [Wakes -> {NoCycle} \cup Cycles]
    PROVE  /\ Materialize(wk, hb, p).wake \in [Wakes -> WakeRecords]
           /\ Materialize(wk, hb, p).heartbeat \in HeartbeatRecords
<1> DEFINE instant == Schedule(p, hb.anchor, hb.interval, NoDeadline)
           new == \/ hb.managed = NoWake
                  \/ wk[hb.managed].status \in {"consumed", "superseded"}
           w   == IF new THEN Successor(hb.managed) ELSE hb.managed
<1>1. instant \in Nat
  BY ScheduleType DEF HeartbeatRecords
<1>2. Successor(hb.managed) \in Wakes
  <2>1. CASE hb.managed = NoWake
    BY <2>1, BeatType DEF Successor
  <2>2. CASE hb.managed # NoWake
    <3>1. link[hb.managed] \in {NoCycle} \cup Cycles
      BY <2>2 DEF HeartbeatRecords
    <3> QED BY <2>2, <3>1, BeatType DEF Successor
  <2> QED BY <2>1, <2>2
<1>3. w \in Wakes
  BY <1>2 DEF HeartbeatRecords
<1>4. Spawned(instant) \in WakeRecords /\ Retimed(wk[w], instant) \in WakeRecords
  BY <1>1, <1>3 DEF Spawned, Retimed, WakeRecords, WakeStatuses, WakeKinds
<1>5. Materialize(wk, hb, p) =
          [wake |-> [wk EXCEPT ![w] = IF new THEN Spawned(instant) ELSE Retimed(wk[w], instant)],
           heartbeat |-> [hb EXCEPT !.managed = w, !.pending = FALSE]]
  BY DEF Materialize
<1> HIDE DEF instant, new, w
<1>6. [wk EXCEPT ![w] = IF new THEN Spawned(instant) ELSE Retimed(wk[w], instant)]
          \in [Wakes -> WakeRecords]
  BY <1>3, <1>4
<1>7. [hb EXCEPT !.managed = w, !.pending = FALSE] \in HeartbeatRecords
  BY <1>3 DEF HeartbeatRecords
<1> QED BY <1>5, <1>6, <1>7

LEMMA InitializeType ==
    ASSUME NEW g \in Configs, NEW now \in Nat
    PROVE  Initialize(g, now) \in HeartbeatRecords
<1>1. EffectiveMinimum(Policy[g]) \in Nat
  BY BoundsType, ConfigAssumption
<1> QED BY <1>1 DEF Initialize, HeartbeatRecords

LEMMA CurrentType ==
    ASSUME TypeOK, NEW now \in Nat, config # NoConfig
    PROVE  Current(now) \in HeartbeatRecords /\ Policy[config] \in Policies
BY InitializeType, ConfigAssumption DEF Current, TypeOK

LEMMA EnsureHeartbeatType ==
    ASSUME TypeOK, NEW now \in Nat
    PROVE  /\ EnsureHeartbeat(now).wake \in [Wakes -> WakeRecords]
           /\ EnsureHeartbeat(now).heartbeat \in HeartbeatRecords
<1>1. CASE config = NoConfig
  BY <1>1 DEF EnsureHeartbeat, TypeOK
<1>2. CASE config # NoConfig /\ ActiveCycles # {}
  BY <1>2, CurrentType DEF EnsureHeartbeat, TypeOK
<1>3. CASE config # NoConfig /\ ActiveCycles = {}
  <2> DEFINE hb == [Current(now) EXCEPT !.config = config,
                                        !.interval = Clamp(Policy[config], @)]
  <2>1. Policy[config] \in Policies /\ config \in Configs
    BY <1>3, CurrentType DEF TypeOK
  <2>2. Current(now) \in HeartbeatRecords
    BY <1>3, CurrentType
  <2>3. Clamp(Policy[config], Current(now).interval) \in Nat
    BY <2>1, <2>2, BoundsType DEF HeartbeatRecords
  <2>4. hb \in HeartbeatRecords
    BY <2>1, <2>2, <2>3 DEF HeartbeatRecords
  <2>5. EnsureHeartbeat(now) = Materialize(wake, hb, Policy[config])
    BY <1>3 DEF EnsureHeartbeat
  <2> HIDE DEF hb
  <2> QED BY <2>1, <2>4, <2>5, MaterializeType DEF TypeOK
<1> QED BY <1>1, <1>2, <1>3

LEMMA AccountType ==
    ASSUME TypeOK, NEW wk \in [Wakes -> WakeRecords], NEW ap,
           NEW c \in Cycles, NEW now \in Nat
    PROVE  /\ Account(wk, ap, c, now).wake \in [Wakes -> WakeRecords]
           /\ Account(wk, ap, c, now).heartbeat \in HeartbeatRecords
<1> DEFINE g   == AccountConfig
           old == IF heartbeat.exists THEN heartbeat ELSE Initialize(g, now)
           int == NextInterval(Policy[g], old.interval, AutonomousCycle(wk, c),
                               PersonalActivity(ap, c))
           hb  == Outcome(old, int, now, c, g)
<1>1. CASE g = NoConfig
  BY <1>1 DEF Account, TypeOK
<1>2. CASE g # NoConfig
  <2>1. g \in Configs
    BY <1>2 DEF AccountConfig, TypeOK, HeartbeatRecords
  <2>2. Policy[g] \in Policies
    BY <2>1, ConfigAssumption
  <2>3. old \in HeartbeatRecords
    BY <2>1, InitializeType DEF TypeOK
  <2>4. int \in Nat
    BY <2>2, <2>3, NextIntervalType DEF HeartbeatRecords
  <2> HIDE DEF old, int
  <2>5. hb \in HeartbeatRecords
    BY <2>1, <2>3, <2>4 DEF Outcome, HeartbeatRecords
  <2>6. \/ Account(wk, ap, c, now) = Materialize(wk, hb, Policy[g])
        \/ Account(wk, ap, c, now) = [wake |-> wk, heartbeat |-> hb]
    BY <1>2 DEF Account, old, int
  <2> HIDE DEF g, hb
  <2> QED BY <2>2, <2>5, <2>6, MaterializeType DEF TypeOK
<1> QED BY <1>1, <1>2

LEMMA ConsumeType ==
    ASSUME NEW wk \in [Wakes -> WakeRecords], NEW c
    PROVE  Consume(wk, c) \in [Wakes -> WakeRecords]
BY DEF Consume, WakeRecords, WakeStatuses


-----------------------------------------------------------------------------
(* The memory of a runtime always names a cycle and a turn that exist *)

Running  == {"loop", "freeze", "invoke", "call"}
Inside   == {"freeze", "invoke", "call"}

MemoryTyped ==
    \A r \in Runtimes :
        /\ pc[r] \in Running => local[r].cycle \in Cycles
        /\ pc[r] \in Inside => local[r].ordinal \in DOMAIN turn[local[r].cycle]

\* A cycle that has not started has no turns: claiming overwrites nothing.
Unstarted == \A c \in Cycles : cycle[c].status = "none" => Len(turn[c]) = 0

TypeInv == TypeOK /\ MemoryTyped /\ Unstarted

LEMMA SameUnstarted == Unstarted /\ UNCHANGED <<cycle, turn>> => Unstarted'
BY DEF Unstarted

\* No turn disappears.
Grows == \A c \in Cycles : DOMAIN turn[c] \subseteq DOMAIN turn'[c]

LEMMA SameTurnsGrow == UNCHANGED turn => Grows
BY DEF Grows

LEMMA NowType == ASSUME TypeOK, NEW r \in Runtimes PROVE Now(r) \in Nat
BY RuntimeAssumption DEF Now, TypeOK

LEMMA NoLocalType == NoLocal \in LocalRecords
BY DEF NoLocal, LocalRecords

\* A runtime that moves takes a memory that fits the place it moves to.
LEMMA Moves ==
    ASSUME TypeInv, Grows, NEW r \in Runtimes, NEW place \in Places,
           NEW l \in LocalRecords,
           pc' = [pc EXCEPT ![r] = place], local' = [local EXCEPT ![r] = l],
           place \in Running => l.cycle \in Cycles,
           place \in Inside => l.ordinal \in DOMAIN turn'[l.cycle]
    PROVE  /\ pc' \in [Runtimes -> Places] /\ local' \in [Runtimes -> LocalRecords]
           /\ MemoryTyped'
<1>1. \A q \in Runtimes : /\ pc'[q] = IF q = r THEN place ELSE pc[q]
                          /\ local'[q] = IF q = r THEN l ELSE local[q]
  BY DEF TypeInv, TypeOK
<1>2. pc' \in [Runtimes -> Places] /\ local' \in [Runtimes -> LocalRecords]
  BY DEF TypeInv, TypeOK
<1>3. ASSUME NEW q \in Runtimes
      PROVE  /\ pc'[q] \in Running => local'[q].cycle \in Cycles
             /\ pc'[q] \in Inside => local'[q].ordinal \in DOMAIN turn'[local'[q].cycle]
  <2>1. CASE q = r
    BY <1>1, <2>1
  <2>2. CASE q # r
    <3>1. pc'[q] = pc[q] /\ local'[q] = local[q]
      BY <1>1, <2>2
    <3>2. Inside \subseteq Running
      BY DEF Inside, Running
    <3> QED BY <3>1, <3>2 DEF TypeInv, MemoryTyped, Grows
  <2> QED BY <2>1, <2>2
<1> QED BY <1>2, <1>3 DEF MemoryTyped

\* Nobody moves.
LEMMA Stands ==
    ASSUME TypeInv, Grows, UNCHANGED <<pc, local>>
    PROVE  /\ pc' \in [Runtimes -> Places] /\ local' \in [Runtimes -> LocalRecords]
           /\ MemoryTyped'
<1>1. Inside \subseteq Running
  BY DEF Inside, Running
<1> QED BY <1>1 DEF TypeInv, TypeOK, MemoryTyped, Grows

\* The three ways out of run_once.
LEMMA ReturnType ==
    ASSUME TypeInv, NEW r \in Runtimes, RollBack(r) \/ Return(r)
    PROVE  TypeInv'
<1>1. UNCHANGED <<clock, control, store, owner, bounds>>
  BY DEF RollBack, Return
<1>2. PICK place \in {"ready", "closing"} : pc' = [pc EXCEPT ![r] = place]
  BY DEF RollBack, Return, Goto
<1>3. local' = [local EXCEPT ![r] = NoLocal]
  BY DEF RollBack, Return
<1>4. place \in Places /\ place \notin Running /\ place \notin Inside
  BY <1>2 DEF Places, Running, Inside
<1>5. Grows
  BY <1>1, SameTurnsGrow DEF store
<1>6. pc' \in [Runtimes -> Places] /\ local' \in [Runtimes -> LocalRecords] /\ MemoryTyped'
  BY <1>2, <1>3, <1>4, <1>5, NoLocalType, Moves
<1> QED BY <1>1, <1>6, SameUnstarted DEF TypeInv, TypeOK, control, store, bounds

LEMMA BackToLoopType ==
    ASSUME TypeInv, Grows, NEW r \in Runtimes, NEW c \in Cycles, BackToLoop(r, c)
    PROVE  /\ pc' \in [Runtimes -> Places] /\ local' \in [Runtimes -> LocalRecords]
           /\ MemoryTyped'
<1> DEFINE l == [NoLocal EXCEPT !.cycle = c]
<1>1. l \in LocalRecords /\ l.cycle = c
  BY DEF NoLocal, LocalRecords
<1>2. pc' = [pc EXCEPT ![r] = "loop"] /\ local' = [local EXCEPT ![r] = l]
  BY DEF BackToLoop, Goto
<1>3. "loop" \in Places /\ "loop" \notin Inside
  BY DEF Places, Inside
<1> HIDE DEF l
<1> QED BY <1>1, <1>2, <1>3, Moves

\* A transaction that ends a cycle keeps the tables well formed, whether it
\* commits or is rolled back.
LEMMA FinishType ==
    ASSUME TypeInv, NEW r \in Runtimes, NEW c \in Cycles, NEW now \in Nat,
           NEW status \in {"completed", "failed"}, NEW reason \in Reasons,
           NEW tn \in [Cycles -> Seq(TurnRecords)],
           \A b \in Cycles : DOMAIN tn[b] = DOMAIN turn[b] /\ Len(tn[b]) = Len(turn[b]),
           NEW wk \in [Wakes -> WakeRecords],
           NEW ap \in [Ops -> AppliedRecords \cup {NotApplied}],
           NEW att \in AttentionRecords,
           Finish(r, c, now, status, reason, tn, wk, ap, att)
    PROVE  TypeInv'
<1> DEFINE spent == Consume(wk, c)
           ended == [cycle EXCEPT ![c] = [@ EXCEPT !.status = status,
                                                   !.reason = reason,
                                                   !.completed = now]]
           acc   == Account(spent, ap, c, now)
<1>1. CASE AccountOk(spent, ended, now)
  <2>1. /\ cycle' = ended /\ wake' = acc.wake /\ heartbeat' = acc.heartbeat
        /\ turn' = tn /\ applied' = ap /\ attention' = att
        /\ BackToLoop(r, c) /\ UNCHANGED <<clock, control, link, owner, bounds>>
    BY <1>1 DEF Finish
  <2>2. ended \in [Cycles -> CycleRecords]
    BY DEF TypeInv, TypeOK, CycleRecords
  <2>3. acc.wake \in [Wakes -> WakeRecords] /\ acc.heartbeat \in HeartbeatRecords
    BY ConsumeType, AccountType DEF TypeInv
  <2>4. Grows
    BY <2>1 DEF Grows
  <2>5. pc' \in [Runtimes -> Places] /\ local' \in [Runtimes -> LocalRecords] /\ MemoryTyped'
    BY <2>1, <2>4, BackToLoopType
  <2>6. Unstarted'
    BY <2>1 DEF Unstarted, TypeInv, TypeOK
  <2> HIDE DEF ended, acc
  <2> QED BY <2>1, <2>2, <2>3, <2>5, <2>6 DEF TypeInv, TypeOK, control, bounds
<1>2. CASE ~AccountOk(spent, ended, now)
  BY <1>2, ReturnType DEF Finish
<1> QED BY <1>1, <1>2


-----------------------------------------------------------------------------
(* Changes of one turn *)

Tries == {"started", "abandoned", "failed", "completed"}

\* The turns with turn o of cycle c replaced by t.
Put(c, o, t) == [turn EXCEPT ![c] = [turn[c] EXCEPT ![o] = t]]

LEMMA PutType ==
    ASSUME TypeOK, NEW c \in Cycles, NEW o \in DOMAIN turn[c], NEW t \in TurnRecords
    PROVE  /\ Put(c, o, t) \in [Cycles -> Seq(TurnRecords)]
           /\ \A b \in Cycles : DOMAIN Put(c, o, t)[b] = DOMAIN turn[b]
                                /\ Len(Put(c, o, t)[b]) = Len(turn[b])
           /\ \A b \in Cycles : \A p \in DOMAIN turn[b] :
                  Put(c, o, t)[b][p] = IF b = c /\ p = o THEN t ELSE turn[b][p]
           /\ turn[c][o] \in TurnRecords
BY DEF Put, TypeOK

LEMMA AbandonType ==
    ASSUME NEW tries \in Seq(Tries)
    PROVE  /\ Abandon(tries) \in Seq(Tries)
           /\ Len(Abandon(tries)) = Len(tries)
           /\ DOMAIN Abandon(tries) = DOMAIN tries
           /\ \A i \in DOMAIN tries : Abandon(tries)[i] =
                  IF tries[i] = "started" THEN "abandoned" ELSE tries[i]
BY DEF Abandon, Tries

LEMMA TurnFields ==
    ASSUME NEW t \in TurnRecords
    PROVE  /\ t.attempts \in Seq(Tries)
           /\ \A s \in (Unfinished \cup Finished) \ {"decided"} : [t EXCEPT !.status = s] \in TurnRecords
           /\ \A n \in Seq(Tries) : [t EXCEPT !.attempts = n] \in TurnRecords
           /\ \A g \in Configs : [t EXCEPT !.context = g] \in TurnRecords
BY DEF TurnRecords, Tries

LEMMA NewTurnType == NewTurn \in TurnRecords
BY DEF NewTurn, TurnRecords, Unfinished

LEMMA SettledPut ==
    ASSUME TypeOK, NEW c \in Cycles, NEW o \in DOMAIN turn[c]
    PROVE  /\ Settled(c, o) = Put(c, o, [turn[c][o] EXCEPT !.attempts = Abandon(turn[c][o].attempts)])
           /\ Settled(c, o) \in [Cycles -> Seq(TurnRecords)]
           /\ \A b \in Cycles : DOMAIN Settled(c, o)[b] = DOMAIN turn[b]
                                /\ Len(Settled(c, o)[b]) = Len(turn[b])
<1> DEFINE t == [turn[c][o] EXCEPT !.attempts = Abandon(turn[c][o].attempts)]
<1>1. Settled(c, o) = Put(c, o, t)
  BY DEF Settled, Put
<1>2. turn[c][o] \in TurnRecords
  BY DEF TypeOK
<1>3. t \in TurnRecords
  BY <1>2, TurnFields, AbandonType
<1>4. /\ Put(c, o, t) \in [Cycles -> Seq(TurnRecords)]
      /\ \A b \in Cycles : DOMAIN Put(c, o, t)[b] = DOMAIN turn[b]
                           /\ Len(Put(c, o, t)[b]) = Len(turn[b])
  <2> HIDE DEF t
  <2> QED BY <1>3, PutType
<1> QED BY <1>1, <1>4

LEMMA WithStatusPut ==
    ASSUME TypeOK, NEW c \in Cycles, NEW o \in DOMAIN turn[c],
           NEW s \in (Unfinished \cup Finished) \ {"decided"}
    PROVE  /\ WithStatus(c, o, s) = Put(c, o, [turn[c][o] EXCEPT !.status = s])
           /\ WithStatus(c, o, s) \in [Cycles -> Seq(TurnRecords)]
           /\ \A b \in Cycles : DOMAIN WithStatus(c, o, s)[b] = DOMAIN turn[b]
                                /\ Len(WithStatus(c, o, s)[b]) = Len(turn[b])
<1> DEFINE t == [turn[c][o] EXCEPT !.status = s]
<1>1. WithStatus(c, o, s) = Put(c, o, t)
  BY DEF WithStatus, Put
<1>2. turn[c][o] \in TurnRecords
  BY DEF TypeOK
<1>3. t \in TurnRecords
  BY <1>2, TurnFields
<1>4. /\ Put(c, o, t) \in [Cycles -> Seq(TurnRecords)]
      /\ \A b \in Cycles : DOMAIN Put(c, o, t)[b] = DOMAIN turn[b]
                           /\ Len(Put(c, o, t)[b]) = Len(turn[b])
  <2> HIDE DEF t
  <2> QED BY <1>3, PutType
<1> QED BY <1>1, <1>4

\* A cycle that ends with a failed turn.
LEMMA FailTurnType ==
    ASSUME TypeInv, NEW r \in Runtimes, NEW c \in Cycles, NEW o \in DOMAIN turn[c],
           NEW now \in Nat, NEW reason \in Reasons,
           NEW t \in TurnRecords, NEW tn, tn = Put(c, o, t),
           FailTurn(r, c, o, now, tn, reason)
    PROVE  TypeInv'
<1> DEFINE failed == [tn EXCEPT ![c][o].status = "failed"]
           u      == [t EXCEPT !.status = "failed"]
<1>1. TypeOK
  BY DEF TypeInv
<1>2. failed = Put(c, o, u)
  BY <1>1 DEF Put, TypeOK
<1>3. u \in TurnRecords
  BY TurnFields DEF Finished
<1>4. failed \in [Cycles -> Seq(TurnRecords)]
      /\ \A b \in Cycles : DOMAIN failed[b] = DOMAIN turn[b] /\ Len(failed[b]) = Len(turn[b])
  <2> HIDE DEF failed, u
  <2>1. /\ Put(c, o, u) \in [Cycles -> Seq(TurnRecords)]
        /\ \A b \in Cycles : DOMAIN Put(c, o, u)[b] = DOMAIN turn[b]
                             /\ Len(Put(c, o, u)[b]) = Len(turn[b])
    BY <1>1, <1>3, PutType
  <2> QED BY <1>2, <2>1
<1>5. Finish(r, c, now, "failed", reason, failed, wake, applied, attention)
  BY DEF FailTurn
<1> HIDE DEF failed
<1> QED BY <1>1, <1>4, <1>5, FinishType DEF TypeOK

\* The memory of a runtime inside a turn.
LEMMA HeldType ==
    ASSUME TypeInv, NEW r \in Runtimes, pc[r] \in Inside
    PROVE  /\ Held(r) \in Cycles
           /\ local[r].ordinal \in DOMAIN turn[Held(r)]
           /\ Turn(r) \in TurnRecords
           /\ local[r] \in LocalRecords
           /\ local[r].now \in Nat /\ local[r].attempt \in Nat /\ local[r].ordinal \in Nat
<1>1. Held(r) \in Cycles /\ local[r].ordinal \in DOMAIN turn[Held(r)]
  BY DEF TypeInv, MemoryTyped, Held, Inside, Running
<1>2. turn[Held(r)] \in Seq(TurnRecords)
  BY <1>1 DEF TypeInv, TypeOK
<1> QED BY <1>1, <1>2 DEF TypeInv, TypeOK, Turn, LocalRecords


-----------------------------------------------------------------------------
(* One lemma per group of actions *)

LEMMA OwnershipType ==
    ASSUME TypeInv, NEW r \in Runtimes,
           \/ Acquire(r) \/ Close(r) \/ Crash(r) \/ NoticeLoss(r) \/ TransactionFails(r)
           \/ Reap \/ SessionLost
    PROVE  TypeInv'
<1>1. CASE Acquire(r) \/ Close(r)
  <2>1. PICK place \in {"ready", "idle"} : pc' = [pc EXCEPT ![r] = place]
    BY <1>1 DEF Acquire, Close, Goto
  <2>2. UNCHANGED <<clock, control, store, local, bounds>>
        /\ owner' \in Runtimes \cup {NoRuntime}
    BY <1>1 DEF Acquire, Close
  <2>3. place \in Places /\ place \notin Running /\ place \notin Inside
    BY DEF Places, Running, Inside
  <2>4. local' = [local EXCEPT ![r] = local[r]] /\ local[r] \in LocalRecords
    BY <2>2 DEF TypeInv, TypeOK
  <2>5. Grows
    BY <2>2, SameTurnsGrow DEF store
  <2>6. pc' \in [Runtimes -> Places] /\ local' \in [Runtimes -> LocalRecords] /\ MemoryTyped'
    BY <2>1, <2>3, <2>4, <2>5, Moves
  <2> QED BY <2>2, <2>6, SameUnstarted DEF TypeInv, TypeOK, control, store, bounds
<1>2. CASE Crash(r) \/ NoticeLoss(r) \/ TransactionFails(r)
  <2>1. PICK place \in {"closing", "idle"} : pc' = [pc EXCEPT ![r] = place]
    BY <1>2 DEF Crash, NoticeLoss, TransactionFails, Goto
  <2>2. /\ UNCHANGED <<clock, control, store, owner, adminSteps>>
        /\ faults' \in Nat /\ local' = [local EXCEPT ![r] = NoLocal]
    BY <1>2 DEF Crash, NoticeLoss, TransactionFails, TypeInv, TypeOK, bounds
  <2>3. place \in Places /\ place \notin Running /\ place \notin Inside
    BY DEF Places, Running, Inside
  <2>4. Grows
    BY <2>2, SameTurnsGrow DEF store
  <2>5. pc' \in [Runtimes -> Places] /\ local' \in [Runtimes -> LocalRecords] /\ MemoryTyped'
    BY <2>1, <2>2, <2>3, <2>4, NoLocalType, Moves
  <2> QED BY <2>2, <2>5, SameUnstarted DEF TypeInv, TypeOK, control, store
<1>3. CASE Reap \/ SessionLost
  <2>1. /\ UNCHANGED <<clock, control, store, pc, local, adminSteps>>
        /\ faults' \in Nat /\ owner' = NoRuntime
    BY <1>3 DEF Reap, SessionLost, TypeInv, TypeOK, bounds
  <2>2. Grows
    BY <2>1, SameTurnsGrow DEF store
  <2> QED BY <2>1, <2>2, Stands, SameUnstarted DEF TypeInv, TypeOK, control, store
<1> QED BY <1>1, <1>2, <1>3

LEMMA OthersType ==
    ASSUME TypeInv, Administer \/ UpdateGovernance \/ ReplaceConfig \/ PostWake \/ Tick
    PROVE  TypeInv'
<1>1. CASE Administer \/ UpdateGovernance \/ ReplaceConfig \/ Tick
  <2>1. /\ UNCHANGED <<store, process>>
        /\ clock' \in Nat /\ faults' \in Nat /\ adminSteps' \in Nat
        /\ operational' \in Statuses /\ inferenceBlocked' \in BOOLEAN
        /\ config' \in Configs \cup {NoConfig}
    <3>1. CASE Administer
      BY <3>1 DEF Administer, AdminStep, TypeInv, TypeOK
    <3>2. CASE UpdateGovernance
      BY <3>2 DEF UpdateGovernance, AdminStep, TypeInv, TypeOK
    <3>3. CASE ReplaceConfig
      BY <3>3 DEF ReplaceConfig, AdminStep, TypeInv, TypeOK
    <3>4. CASE Tick
      BY <3>4 DEF Tick, TypeInv, TypeOK, control, bounds
    <3> QED BY <1>1, <3>1, <3>2, <3>3, <3>4
  <2>2. Grows
    BY <2>1, SameTurnsGrow DEF store
  <2> QED BY <2>1, <2>2, Stands, SameUnstarted DEF TypeInv, TypeOK, store, process
<1>2. CASE PostWake
  <2>1. PICK w \in Posted, k \in Keys \cup {NoKey} :
            wake' = Post(wake, {[id |-> w, kind |-> "bootstrap", due |-> clock,
                                 key |-> k, refs |-> {w}]})
    BY <1>2 DEF PostWake
  <2>2. {[id |-> w, kind |-> "bootstrap", due |-> clock, key |-> k, refs |-> {w}]}
            \in SUBSET Incoming
    BY DEF Incoming, Wakes, WakeKinds, TypeInv, TypeOK
  <2>3. wake' \in [Wakes -> WakeRecords]
    BY <2>1, <2>2, PostType DEF TypeInv, TypeOK
  <2>4. UNCHANGED <<clock, control, link, cycle, turn, applied, attention,
                    heartbeat, process, bounds>>
    BY <1>2 DEF PostWake
  <2>5. Grows
    BY <2>4, SameTurnsGrow
  <2> QED BY <2>3, <2>4, <2>5, Stands, SameUnstarted DEF TypeInv, TypeOK, control, process, bounds
<1> QED BY <1>1, <1>2

\* What ensuring the heartbeat and requeueing orphans leave.
LEMMA PreparedType ==
    ASSUME TypeInv, NEW r \in Runtimes, NEW B \in StartBatch(r)
    PROVE  /\ Prepared(r, B) \in [Wakes -> WakeRecords]
           /\ EnsureHeartbeat(Now(r)).heartbeat \in HeartbeatRecords
<1> DEFINE wk   == EnsureHeartbeat(Now(r)).wake
           left == [w \in Wakes |-> IF w \in B THEN [wk[w] EXCEPT !.status = "superseded"]
                                    ELSE wk[w]]
           R    == {Requeued(wk, w) : w \in B}
<1>1. wk \in [Wakes -> WakeRecords] /\ EnsureHeartbeat(Now(r)).heartbeat \in HeartbeatRecords
  BY NowType, EnsureHeartbeatType DEF TypeInv
<1>2. B \in SUBSET Legacy
  BY DEF StartBatch, EarliestBatch, Orphans
<1> HIDE DEF wk
<1>3. left \in [Wakes -> WakeRecords]
  BY <1>1 DEF WakeRecords, WakeStatuses
<1>4. R \in SUBSET Incoming
  <2> SUFFICES ASSUME NEW w \in B PROVE Requeued(wk, w) \in Incoming
    OBVIOUS
  <2>1. w \in Wakes /\ Again(w) \in Wakes
    BY <1>2 DEF Wakes
  <2> QED BY <1>1, <2>1 DEF Requeued, Incoming, WakeRecords
<1>5. Prepared(r, B) = Post(left, R)
  BY DEF Prepared, Recover, wk
<1> QED BY <1>1, <1>3, <1>4, <1>5, PostType

LEMMA StartType ==
    ASSUME TypeInv, NEW r \in Runtimes,
           StartBlocked(r) \/ StartFails(r) \/ Resume(r) \/ Idle(r) \/ Claim(r)
    PROVE  TypeInv'
<1>1. CASE StartBlocked(r) \/ StartFails(r)
  BY <1>1, ReturnType DEF StartBlocked, StartFails
<1>2. CASE Resume(r)
  <2>1. PICK c \in ActiveCycles, B \in StartBatch(r) :
            wake' = Prepared(r, B) /\ BackToLoop(r, c)
    BY <1>2 DEF Resume
  <2>2. /\ UNCHANGED <<clock, control, link, cycle, turn, applied, attention, owner, bounds>>
        /\ heartbeat' = EnsureHeartbeat(Now(r)).heartbeat
    BY <1>2 DEF Resume
  <2>3. c \in Cycles
    BY DEF ActiveCycles
  <2>4. pc' \in [Runtimes -> Places] /\ local' \in [Runtimes -> LocalRecords] /\ MemoryTyped'
    BY <2>1, <2>2, <2>3, SameTurnsGrow, BackToLoopType
  <2> QED BY <2>1, <2>2, <2>4, PreparedType, SameUnstarted DEF TypeInv, TypeOK, control, bounds
<1>3. CASE Idle(r)
  <2>1. PICK B \in StartBatch(r) : /\ wake' = Prepared(r, B)
                                   /\ heartbeat' = EnsureHeartbeat(Now(r)).heartbeat
    BY <1>3 DEF Idle
  <2>2. PICK place \in {"ready", "closing"} : pc' = [pc EXCEPT ![r] = place]
    BY <1>3 DEF Idle, Goto
  <2>3. UNCHANGED <<clock, control, link, cycle, turn, applied, attention, owner, local, bounds>>
    BY <1>3 DEF Idle
  <2>4. place \in Places /\ place \notin Running /\ place \notin Inside
    BY DEF Places, Running, Inside
  <2>5. local' = [local EXCEPT ![r] = local[r]] /\ local[r] \in LocalRecords
    BY <2>3 DEF TypeInv, TypeOK
  <2>6. pc' \in [Runtimes -> Places] /\ local' \in [Runtimes -> LocalRecords] /\ MemoryTyped'
    BY <2>2, <2>3, <2>4, <2>5, SameTurnsGrow, Moves
  <2> QED BY <2>1, <2>3, <2>6, PreparedType, SameUnstarted DEF TypeInv, TypeOK, control, bounds
<1>4. CASE Claim(r)
  <2>1. PICK c \in Cycles, B \in StartBatch(r) :
            /\ NextCycle(c)
            /\ \E batch :
                  /\ wake' = [w \in Wakes |->
                            IF w \in batch THEN [Prepared(r, B)[w] EXCEPT !.status = "claimed"]
                            ELSE Prepared(r, B)[w]]
                  /\ link' = [w \in Wakes |-> IF w \in batch THEN c ELSE link[w]]
            /\ cycle' = [cycle EXCEPT ![c] =
                          [status |-> "active", reason |-> "none", completed |-> 0,
                           deadline |-> Now(r) + Limits[r].seconds,
                           limits |-> Limits[r]]]
            /\ turn' = [turn EXCEPT ![c] = <<NewTurn>>]
            /\ BackToLoop(r, c)
    BY <1>4 DEF Claim
  <2>2. /\ heartbeat' = EnsureHeartbeat(Now(r)).heartbeat
        /\ UNCHANGED <<clock, control, applied, attention, owner, bounds>>
    BY <1>4 DEF Claim
  <2>3. link' \in [Wakes -> {NoCycle} \cup Cycles]
    BY <2>1 DEF TypeInv, TypeOK
  <2>4. heartbeat' \in HeartbeatRecords /\ Prepared(r, B) \in [Wakes -> WakeRecords]
    BY <2>2, PreparedType
  <2>5. wake' \in [Wakes -> WakeRecords]
    <3>1. \A row \in WakeRecords : [row EXCEPT !.status = "claimed"] \in WakeRecords
      BY DEF WakeRecords, WakeStatuses
    <3> QED BY <2>1, <2>4, <3>1
  <2>6. cycle' \in [Cycles -> CycleRecords]
    <3> DEFINE row == [status |-> "active", reason |-> "none", completed |-> 0,
                       deadline |-> Now(r) + Limits[r].seconds, limits |-> Limits[r]]
    <3>1. Limits[r] \in LimitRecords
      BY RuntimeAssumption
    <3>2. Now(r) + Limits[r].seconds \in Nat
      BY <3>1, NowType DEF TypeInv, LimitRecords
    <3>3. row \in CycleRecords
      <4>1. \A l \in LimitRecords, d \in Nat :
                [status |-> "active", reason |-> "none", completed |-> 0,
                 deadline |-> d, limits |-> l] \in CycleRecords
        BY DEF CycleRecords, Reasons
      <4> QED BY <3>1, <3>2, <4>1
    <3>4. cycle' = [cycle EXCEPT ![c] = row]
      BY <2>1
    <3> HIDE DEF row
    <3> QED BY <3>3, <3>4 DEF TypeInv, TypeOK
  <2>7. turn' = [turn EXCEPT ![c] = <<NewTurn>>]
    BY <2>1
  <2>8. turn' \in [Cycles -> Seq(TurnRecords)]
    BY <2>7, NewTurnType DEF TypeInv, TypeOK
  <2>9. Grows
    <3>1. DOMAIN turn[c] = {}
      <4>1. cycle[c].status = "none"
        BY <2>1 DEF NextCycle
      <4>2. Len(turn[c]) = 0 /\ turn[c] \in Seq(TurnRecords)
        BY <4>1 DEF TypeInv, TypeOK, Unstarted
      <4> QED BY <4>2
    <3> QED BY <2>7, <3>1 DEF Grows, TypeInv, TypeOK
  <2>10. Unstarted'
    <3>1. \A b \in Cycles : b # c => cycle'[b] = cycle[b] /\ turn'[b] = turn[b]
      BY <2>1, <2>7 DEF TypeInv, TypeOK
    <3>2. cycle'[c].status = "active"
      BY <2>1 DEF TypeInv, TypeOK
    <3> QED BY <3>1, <3>2 DEF Unstarted, TypeInv
  <2>11. BackToLoop(r, c)
    BY <2>1
  <2>12. pc' \in [Runtimes -> Places] /\ local' \in [Runtimes -> LocalRecords] /\ MemoryTyped'
    BY <2>9, <2>11, BackToLoopType
  <2> QED BY <2>2, <2>3, <2>4, <2>5, <2>6, <2>8, <2>10, <2>12 DEF TypeInv, TypeOK, control, bounds
<1> QED BY <1>1, <1>2, <1>3, <1>4


LEMMA ReasonTypes ==
    /\ \A c \in Cycles, o \in Nat : SpentReason(c, o) \in Reasons
    /\ {"decision_rejected", "turn_limit", "deadline", "missing_configuration",
        "context_budget", "refused", "duplicate_decision_id"} \subseteq Reasons
    /\ \A d \in Decisions : d.disposition # "continue" => d.disposition \in Reasons
BY DecisionAssumption DEF SpentReason, Reasons, DecisionRecords

\* Turn o of cycle c as the transaction at the head of the loop sees it.
LEMMA InLoopType ==
    ASSUME TypeInv, NEW r \in Runtimes, NEW c \in Cycles, NEW o \in DOMAIN turn[c]
    PROVE  /\ TypeOK /\ turn[c] \in Seq(TurnRecords) /\ o \in Nat \ {0}
           /\ turn[c][o] \in TurnRecords /\ Now(r) \in Nat
BY NowType DEF TypeInv, TypeOK

LEMMA WithOperationsType ==
    ASSUME TypeOK, NEW c \in Cycles, NEW o \in Nat \ {0}, NEW d \in Decisions
    PROVE  WithOperations(c, o, d) \in [Ops -> AppliedRecords \cup {NotApplied}]
BY DEF WithOperations, AppliedRecords, TypeOK

LEMMA AttendedType ==
    ASSUME TypeOK, NEW c \in Cycles PROVE Attended(c) \in AttentionRecords
BY DEF Attended, AttentionRecords, Greater, TypeOK

LEMMA SelfScheduledType ==
    ASSUME TypeOK, NEW c \in Cycles, NEW d \in Decisions, NEW now \in Nat
    PROVE  {SelfScheduled(c, q, now) : q \in d.requests} \in SUBSET Incoming
<1> SUFFICES ASSUME NEW q \in d.requests PROVE SelfScheduled(c, q, now) \in Incoming
  OBVIOUS
<1>1. q \in WakeRequests
  BY DecisionAssumption DEF DecisionRecords
<1>2. cycle[c].limits.delay \in Nat
  BY DEF TypeOK, CycleRecords, LimitRecords
<1>3. Greater(q.notBefore, now + cycle[c].limits.delay) \in Nat
  BY <1>1, <1>2 DEF Greater, WakeRequests
<1>4. q.op \in Wakes /\ q.key \in Keys \cup {NoKey}
  BY <1>1 DEF WakeRequests, Wakes
<1> QED BY <1>3, <1>4 DEF SelfScheduled, Incoming, WakeKinds

LEMMA RejectType ==
    ASSUME TypeInv, NEW r \in Runtimes, NEW c \in Cycles, NEW o \in DOMAIN turn[c],
           Reject(r, c, o)
    PROVE  TypeInv'
<1> DEFINE tn == WithStatus(c, o, "rejected")
<1>1. TypeOK /\ Now(r) \in Nat
  BY InLoopType
<1>2. "rejected" \in (Unfinished \cup Finished) \ {"decided"}
  BY DEF Finished
<1>3. /\ tn \in [Cycles -> Seq(TurnRecords)]
      /\ \A b \in Cycles : DOMAIN tn[b] = DOMAIN turn[b] /\ Len(tn[b]) = Len(turn[b])
  BY <1>1, <1>2, WithStatusPut
<1>4. Finish(r, c, Now(r), "failed", "decision_rejected", tn, wake, applied, attention)
  BY DEF Reject
<1> HIDE DEF tn
<1> QED BY <1>1, <1>3, <1>4, ReasonTypes, FinishType DEF TypeOK

LEMMA AppliedPut ==
    ASSUME TypeOK, NEW c \in Cycles, NEW o \in DOMAIN turn[c]
    PROVE  /\ WithStatus(c, o, "applied") \in [Cycles -> Seq(TurnRecords)]
           /\ \A b \in Cycles : /\ DOMAIN WithStatus(c, o, "applied")[b] = DOMAIN turn[b]
                                /\ Len(WithStatus(c, o, "applied")[b]) = Len(turn[b])
<1>1. "applied" \in (Unfinished \cup Finished) \ {"decided"}
  BY DEF Finished
<1> QED BY <1>1, WithStatusPut

LEMMA ApplyType ==
    ASSUME TypeInv, NEW r \in Runtimes, NEW c \in Cycles, NEW o \in DOMAIN turn[c],
           Apply(r, c, o)
    PROVE  TypeInv'
<1> DEFINE d    == turn[c][o].decision
           done == WithStatus(c, o, "applied")
           wk   == WithRequested(c, d, Now(r))
           ap   == WithOperations(c, o, d)
           att  == Attended(c)
<1>1. TypeOK /\ Now(r) \in Nat /\ o \in Nat \ {0}
  BY InLoopType
<1>2. d \in Decisions
  BY InLoopType DEF Apply, TurnRecords
<1>3. /\ done \in [Cycles -> Seq(TurnRecords)]
      /\ \A b \in Cycles : DOMAIN done[b] = DOMAIN turn[b] /\ Len(done[b]) = Len(turn[b])
  BY <1>1, AppliedPut
<1>4. wk \in [Wakes -> WakeRecords]
  <2> DEFINE R == {SelfScheduled(c, q, Now(r)) : q \in d.requests}
  <2>1. R \in SUBSET Incoming
    <3> HIDE DEF d
    <3> QED BY <1>1, <1>2, SelfScheduledType
  <2>2. wk = Post(wake, R) /\ wake \in [Wakes -> WakeRecords]
    BY <1>1 DEF WithRequested, TypeOK
  <2> HIDE DEF R, wk, d
  <2> QED BY <2>1, <2>2, PostType
<1>5. ap \in [Ops -> AppliedRecords \cup {NotApplied}]
  <2> HIDE DEF d
  <2> QED BY <1>1, <1>2, WithOperationsType
<1>6. att \in AttentionRecords
  BY <1>1, AttendedType
<1>7. EndReason(c, o, d) \in Reasons
  <2> HIDE DEF d
  <2> QED BY <1>2, ReasonTypes DEF EndReason
<1>8. \/ Finish(r, c, Now(r), "completed", EndReason(c, o, d), done, wk, ap, att)
      \/ /\ turn' = [done EXCEPT ![c] = Append(done[c], NewTurn)]
         /\ wake' = wk /\ applied' = ap /\ attention' = att
         /\ cycle[c].status = "active"
         /\ UNCHANGED <<clock, control, link, cycle, heartbeat, process, bounds>>
  BY <1>3 DEF Apply, InLoop
<1> HIDE DEF d, done, wk, ap, att
<1>9. CASE Finish(r, c, Now(r), "completed", EndReason(c, o, d), done, wk, ap, att)
  BY <1>1, <1>3, <1>4, <1>5, <1>6, <1>7, <1>9, FinishType
<1>10. CASE /\ turn' = [done EXCEPT ![c] = Append(done[c], NewTurn)]
            /\ wake' = wk /\ applied' = ap /\ attention' = att
            /\ cycle[c].status = "active"
            /\ UNCHANGED <<clock, control, link, cycle, heartbeat, process, bounds>>
  <2>1. turn' \in [Cycles -> Seq(TurnRecords)]
    BY <1>3, <1>10, NewTurnType
  <2>2. Grows
    <3>1. DOMAIN turn'[c] = 1 .. Len(done[c]) + 1 /\ DOMAIN done[c] = 1 .. Len(done[c])
      BY <1>3, <1>10, NewTurnType
    <3>2. \A b \in Cycles : b # c => turn'[b] = done[b]
      BY <1>3, <1>10
    <3> QED BY <1>3, <3>1, <3>2 DEF Grows
  <2>3. Unstarted'
    <3>1. \A b \in Cycles : b # c => turn'[b] = done[b]
      BY <1>3, <1>10
    <3> QED BY <1>3, <1>10, <3>1 DEF Unstarted, TypeInv
  <2> QED BY <1>1, <1>4, <1>5, <1>6, <1>10, <2>1, <2>2, <2>3, Stands
          DEF TypeInv, TypeOK, control, process, bounds
<1> QED BY <1>8, <1>9, <1>10

\* A runtime that goes on inside a turn it has changed.
LEMMA InsideType ==
    ASSUME TypeInv, NEW r \in Runtimes, NEW c \in Cycles, NEW o \in DOMAIN turn[c],
           NEW t \in TurnRecords, turn' = Put(c, o, t),
           NEW place \in Inside, NEW l \in LocalRecords, l.cycle = c, l.ordinal = o,
           pc' = [pc EXCEPT ![r] = place], local' = [local EXCEPT ![r] = l],
           UNCHANGED <<clock, control, wake, link, cycle, applied, attention,
                       heartbeat, owner, bounds>>
    PROVE  TypeInv'
<1>1. /\ turn' \in [Cycles -> Seq(TurnRecords)]
      /\ \A b \in Cycles : DOMAIN turn'[b] = DOMAIN turn[b] /\ Len(turn'[b]) = Len(turn[b])
  BY PutType DEF TypeInv
<1>2. Grows
  BY <1>1 DEF Grows
<1>3. place \in Places
  BY DEF Inside, Places
<1>4. pc' \in [Runtimes -> Places] /\ local' \in [Runtimes -> LocalRecords] /\ MemoryTyped'
  BY <1>1, <1>2, <1>3, Moves
<1>5. Unstarted'
  BY <1>1 DEF Unstarted, TypeInv
<1> QED BY <1>1, <1>4, <1>5 DEF TypeInv, TypeOK, control, bounds

\* A runtime that goes back to the head of the loop after changing a turn.
LEMMA BackType ==
    ASSUME TypeInv, NEW r \in Runtimes, NEW c \in Cycles, NEW o \in DOMAIN turn[c],
           NEW t \in TurnRecords, turn' = Put(c, o, t), BackToLoop(r, c),
           UNCHANGED <<clock, control, wake, link, cycle, applied, attention,
                       heartbeat, owner, bounds>>
    PROVE  TypeInv'
<1>1. /\ turn' \in [Cycles -> Seq(TurnRecords)]
      /\ \A b \in Cycles : DOMAIN turn'[b] = DOMAIN turn[b] /\ Len(turn'[b]) = Len(turn[b])
  BY PutType DEF TypeInv
<1>2. Grows
  BY <1>1 DEF Grows
<1>3. pc' \in [Runtimes -> Places] /\ local' \in [Runtimes -> LocalRecords] /\ MemoryTyped'
  BY <1>2, BackToLoopType
<1>4. Unstarted'
  BY <1>1 DEF Unstarted, TypeInv
<1> QED BY <1>1, <1>3, <1>4 DEF TypeInv, TypeOK, control, bounds

LEMMA SettleType ==
    ASSUME TypeInv, NEW r \in Runtimes, NEW c \in Cycles, NEW o \in DOMAIN turn[c],
           Settle(r, c, o)
    PROVE  TypeInv'
<1> DEFINE t == [turn[c][o] EXCEPT !.attempts = Abandon(turn[c][o].attempts)]
           l == [cycle |-> c, ordinal |-> o, now |-> Now(r), attempt |-> 0]
<1>1. TypeOK /\ Now(r) \in Nat /\ o \in Nat \ {0} /\ turn[c][o] \in TurnRecords
  BY InLoopType
<1>2. t \in TurnRecords /\ Settled(c, o) = Put(c, o, t)
  BY <1>1, TurnFields, AbandonType, SettledPut
<1>3. SpentReason(c, o) \in Reasons
  BY <1>1, ReasonTypes
<1>4. l \in LocalRecords /\ l.cycle = c /\ l.ordinal = o
  BY <1>1 DEF LocalRecords
<1>5. \/ FailTurn(r, c, o, Now(r), Settled(c, o), SpentReason(c, o))
      \/ /\ turn' = Settled(c, o)
         /\ local' = [local EXCEPT ![r] = l] /\ pc' = [pc EXCEPT ![r] = "freeze"]
         /\ UNCHANGED <<clock, control, wake, link, cycle, applied,
                        attention, heartbeat, owner, bounds>>
  BY DEF Settle, Goto
<1>6. "freeze" \in Inside
  BY DEF Inside
<1> HIDE DEF t, l
<1> QED BY <1>1, <1>2, <1>3, <1>4, <1>5, <1>6, FailTurnType, InsideType


\* Only the memory of the instant is dropped when the request is frozen.
LEMMA FreezeType ==
    ASSUME TypeInv, NEW r \in Runtimes, Frozen(r) \/ Freeze(r) \/ CannotFreeze(r)
    PROVE  TypeInv'
<1> DEFINE c == Held(r)
           o == local[r].ordinal
           l == [local[r] EXCEPT !.now = 0]
           t == [Turn(r) EXCEPT !.context = config]
<1>1. /\ c \in Cycles /\ o \in DOMAIN turn[c] /\ Turn(r) \in TurnRecords
      /\ o \in Nat /\ local[r] \in LocalRecords /\ local[r].now \in Nat /\ TypeOK
  <2>1. pc[r] \in Inside
    BY DEF Frozen, Freeze, CannotFreeze, Owns, Inside
  <2> QED BY <2>1, HeldType DEF TypeInv
<1>2. l \in LocalRecords /\ l.cycle = c /\ l.ordinal = o
  BY <1>1 DEF LocalRecords, Held
<1>3. "invoke" \in Inside
  BY DEF Inside
<1>4. CASE Freeze(r)
  <2>1. t \in TurnRecords
    BY <1>1, <1>4, TurnFields DEF Freeze, TypeOK
  <2>2. /\ turn' = Put(c, o, t)
        /\ local' = [local EXCEPT ![r] = l] /\ pc' = [pc EXCEPT ![r] = "invoke"]
        /\ UNCHANGED <<clock, control, wake, link, cycle, applied, attention,
                       heartbeat, owner, bounds>>
    BY <1>1, <1>4 DEF Freeze, Goto, Put, Turn, Held, TypeOK
  <2> HIDE DEF c, o, l, t
  <2> QED BY <1>1, <1>2, <1>3, <2>1, <2>2, InsideType
<1>5. CASE Frozen(r)
  <2>1. /\ local' = [local EXCEPT ![r] = l] /\ pc' = [pc EXCEPT ![r] = "invoke"]
        /\ UNCHANGED <<clock, control, store, owner, bounds>>
    BY <1>5 DEF Frozen, Goto
  <2>2. Grows /\ UNCHANGED <<cycle, turn>>
    BY <2>1, SameTurnsGrow DEF store
  <2>3. "invoke" \in Places
    BY DEF Places
  <2> HIDE DEF c, o, l
  <2>4. pc' \in [Runtimes -> Places] /\ local' \in [Runtimes -> LocalRecords] /\ MemoryTyped'
    BY <1>1, <1>2, <2>1, <2>2, <2>3, Moves
  <2> QED BY <2>1, <2>2, <2>4, SameUnstarted DEF TypeInv, TypeOK, control, store, bounds
<1>6. CASE CannotFreeze(r)
  <2>1. PICK reason \in {"missing_configuration", "context_budget"} :
            FailTurn(r, c, o, local[r].now, turn, reason)
    BY <1>6 DEF CannotFreeze
  <2>2. turn = Put(c, o, Turn(r))
    <3>1. turn \in [Cycles -> Seq(TurnRecords)] /\ turn[c] \in Seq(TurnRecords)
      BY <1>1 DEF TypeOK
    <3>2. Turn(r) = turn[c][o]
      BY DEF Turn, Held
    <3> HIDE DEF c, o
    <3>3. [turn[c] EXCEPT ![o] = turn[c][o]] = turn[c]
      BY <3>1
    <3>4. [turn EXCEPT ![c] = turn[c]] = turn
      BY <3>1
    <3> QED BY <3>2, <3>3, <3>4 DEF Put
  <2>3. reason \in Reasons
    BY ReasonTypes
  <2> HIDE DEF c, o
  <2> QED BY <1>1, <2>1, <2>2, <2>3, FailTurnType
<1> QED BY <1>4, <1>5, <1>6

\* The attempts with one more, whose predecessors are settled.
LEMMA StartedType ==
    ASSUME NEW tries \in Seq(Tries)
    PROVE  Append(Abandon(tries), "started") \in Seq(Tries)
<1>1. Abandon(tries) \in Seq(Tries) /\ "started" \in Tries
  BY AbandonType DEF Tries
<1> QED BY <1>1

LEMMA InvokeType ==
    ASSUME TypeInv, NEW r \in Runtimes, Invoke(r)
    PROVE  TypeInv'
<1> DEFINE c == Held(r)
           o == local[r].ordinal
           n == Len(turn[c][o].attempts)
           l == [local[r] EXCEPT !.attempt = n + 1]
           s == [turn[c][o] EXCEPT !.attempts = Abandon(turn[c][o].attempts)]
           t == [turn[c][o] EXCEPT !.attempts = Append(Abandon(turn[c][o].attempts), "started"),
                                   !.status = "invoking"]
<1>1. /\ c \in Cycles /\ o \in DOMAIN turn[c] /\ turn[c][o] \in TurnRecords
      /\ o \in Nat /\ local[r] \in LocalRecords /\ TypeOK /\ Now(r) \in Nat
  <2>1. pc[r] \in Inside
    BY DEF Invoke, Owns, Inside
  <2> QED BY <2>1, HeldType, NowType DEF TypeInv, Turn
<1>2. turn[c][o].attempts \in Seq(Tries)
  BY <1>1, TurnFields
<1>3. l \in LocalRecords /\ l.cycle = c /\ l.ordinal = o
  BY <1>1, <1>2 DEF LocalRecords, Held
<1>4. s \in TurnRecords /\ t \in TurnRecords
  BY <1>1, <1>2, AbandonType, StartedType DEF TurnRecords, Unfinished, Tries
<1>5. Settled(c, o) = Put(c, o, s) /\ SpentReason(c, o) \in Reasons
  BY <1>1, SettledPut, ReasonTypes
<1>6. \/ FailTurn(r, c, o, Now(r), Settled(c, o), SpentReason(c, o))
      \/ /\ turn' = Put(c, o, t)
         /\ local' = [local EXCEPT ![r] = l] /\ pc' = [pc EXCEPT ![r] = "call"]
         /\ UNCHANGED <<clock, control, wake, link, cycle, applied, attention,
                        heartbeat, owner, bounds>>
  BY <1>1 DEF Invoke, Goto, Put, TypeOK
<1>7. "call" \in Inside
  BY DEF Inside
<1> HIDE DEF c, o, n, l, s, t
<1> QED BY <1>1, <1>3, <1>4, <1>5, <1>6, <1>7, FailTurnType, InsideType

LEMMA AnsweredType ==
    ASSUME NEW tries \in Seq(Tries), NEW i, NEW s \in Tries
    PROVE  [tries EXCEPT ![i] = s] \in Seq(Tries)
<1>1. CASE i \in DOMAIN tries
  BY <1>1
<1>2. CASE i \notin DOMAIN tries
  <2>1. [tries EXCEPT ![i] = s] = tries
    BY <1>2
  <2> QED BY <2>1
<1> QED BY <1>1, <1>2

LEMMA CallType ==
    ASSUME TypeInv, NEW r \in Runtimes,
           AttemptFails(r) \/ Refused(r) \/ Duplicate(r) \/ Decide(r)
    PROVE  TypeInv'
<1> DEFINE c == Held(r)
           o == local[r].ordinal
           i == local[r].attempt
           f == [turn[c][o] EXCEPT !.attempts = [turn[c][o].attempts EXCEPT ![i] = "failed"]]
<1>1. /\ c \in Cycles /\ o \in DOMAIN turn[c] /\ turn[c][o] \in TurnRecords
      /\ TypeOK /\ Now(r) \in Nat
  <2>1. pc[r] \in Inside
    BY DEF AttemptFails, Refused, Duplicate, Decide, Owns, Inside
  <2> QED BY <2>1, HeldType, NowType DEF TypeInv, Turn
<1>2. turn[c][o].attempts \in Seq(Tries)
  BY <1>1, TurnFields
<1>3. f \in TurnRecords
  BY <1>1, <1>2 DEF TurnRecords, Tries
<1>4. Attempt(r, "failed") = Put(c, o, f)
  BY <1>1 DEF Attempt, Put, TypeOK
<1>5. CASE AttemptFails(r)
  <2>1. /\ turn' = Put(c, o, f) /\ BackToLoop(r, c)
        /\ UNCHANGED <<clock, control, wake, link, cycle, applied, attention,
                       heartbeat, owner, bounds>>
    BY <1>4, <1>5 DEF AttemptFails
  <2> HIDE DEF c, o, i, f
  <2> QED BY <1>1, <1>3, <2>1, BackType
<1>6. CASE Refused(r) \/ Duplicate(r)
  <2>1. PICK reason \in {"refused", "duplicate_decision_id"} :
            FailTurn(r, c, o, Now(r), Attempt(r, "failed"), reason)
    BY <1>6 DEF Refused, Duplicate
  <2>2. reason \in Reasons
    BY ReasonTypes
  <2> HIDE DEF c, o, i, f
  <2> QED BY <1>1, <1>3, <1>4, <2>1, <2>2, FailTurnType
<1>7. CASE Decide(r)
  <2>1. PICK d \in Decisions :
            turn' = [Attempt(r, "completed") EXCEPT
                        ![Held(r)][local[r].ordinal].decision = d,
                        ![Held(r)][local[r].ordinal].status = "decided"]
    BY <1>7 DEF Decide
  <2> DEFINE t == [turn[c][o] EXCEPT
                      !.attempts = [turn[c][o].attempts EXCEPT ![i] = "completed"],
                      !.decision = d, !.status = "decided"]
  <2>2. t \in TurnRecords
    <3>1. [turn[c][o].attempts EXCEPT ![i] = "completed"] \in Seq(Tries)
      <4>1. "completed" \in Tries
        BY DEF Tries
      <4> HIDE DEF c, o, i
      <4> QED BY <1>2, <4>1, AnsweredType
    <3>2. d \in Decisions \cup {NoDecision} /\ d # NoDecision
      BY DecisionAssumption
    <3> DEFINE a == [turn[c][o].attempts EXCEPT ![i] = "completed"]
    <3>3. t = [turn[c][o] EXCEPT !.attempts = a, !.decision = d, !.status = "decided"]
      OBVIOUS
    <3>4. a \in Seq(Tries)
      BY <3>1
    <3> HIDE DEF c, o, i, a, t
    <3>5. turn[c][o] \in TurnRecords
      BY <1>1
    <3> QED BY <3>2, <3>3, <3>4, <3>5 DEF TurnRecords, Tries, Unfinished, Finished
  <2>3. turn' = Put(c, o, t)
    BY <1>1, <2>1 DEF Attempt, Put, TypeOK
  <2>4. /\ BackToLoop(r, c)
        /\ UNCHANGED <<clock, control, wake, link, cycle, applied, attention,
                       heartbeat, owner, bounds>>
    BY <1>7 DEF Decide
  <2> HIDE DEF c, o, i, f, t
  <2> QED BY <1>1, <2>2, <2>3, <2>4, BackType
<1> QED BY <1>5, <1>6, <1>7

-----------------------------------------------------------------------------

LEMMA InitType == Init => TypeInv
<1> SUFFICES ASSUME Init PROVE TypeInv
  OBVIOUS
<1>1. wake \in [Wakes -> WakeRecords]
  <2>1. NoWakeRow \in WakeRecords
    BY DEF NoWakeRow, WakeRecords, WakeStatuses, WakeKinds
  <2>2. ASSUME NEW w \in Wakes PROVE wake[w] \in WakeRecords
    <3>1. \/ wake[w] = [NoWakeRow EXCEPT !.status = "pending", !.refs = {w},
                                       !.key = BootstrapKey]
          \/ wake[w] = [NoWakeRow EXCEPT !.status = "claimed", !.refs = {w}]
          \/ wake[w] = NoWakeRow
      BY DEF Init
    <3>2. BootstrapKey \in Keys \cup {NoKey} /\ {w} \in SUBSET Wakes
      BY IdentityAssumption
    <3>3. "pending" \in WakeStatuses /\ "claimed" \in WakeStatuses
      BY DEF WakeStatuses
    <3> QED BY <2>1, <3>1, <3>2, <3>3 DEF WakeRecords
  <2>3. wake = [w \in Wakes |-> wake[w]]
    BY DEF Init
  <2> QED BY <2>2, <2>3
<1>2. cycle \in [Cycles -> CycleRecords]
  <2> DEFINE l == [turns |-> 1, attempts |-> 1, wakes |-> 1, seconds |-> 1, delay |-> 0]
             row == [status |-> "none", reason |-> "none", completed |-> 0,
                     deadline |-> 0, limits |-> l]
  <2>1. l \in LimitRecords
    BY DEF LimitRecords
  <2>2. cycle = [c \in Cycles |-> row]
    BY DEF Init
  <2> HIDE DEF l
  <2>3. row \in CycleRecords
    BY <2>1 DEF CycleRecords, Reasons
  <2> HIDE DEF row
  <2> QED BY <2>2, <2>3
<1>3. heartbeat \in HeartbeatRecords /\ attention \in AttentionRecords
  <2>1. heartbeat = [exists |-> FALSE, interval |-> 0, anchor |-> 0,
                     managed |-> NoWake, last |-> NoCycle, config |-> NoConfig,
                     pending |-> FALSE]
    BY DEF Init
  <2>2. attention = [last |-> NoCycle, revision |-> 0]
    BY DEF Init
  <2> QED BY <2>1, <2>2 DEF HeartbeatRecords, AttentionRecords
<1>4. turn \in [Cycles -> Seq(TurnRecords)] /\ Unstarted
  <2>1. turn = [c \in Cycles |-> <<>>]
    BY DEF Init
  <2>2. \A c \in Cycles : turn[c] = <<>> /\ <<>> \in Seq(TurnRecords)
    BY <2>1
  <2>3. \A c \in Cycles : Len(turn[c]) = 0
    BY <2>2
  <2>4. turn \in [Cycles -> Seq(TurnRecords)]
    BY <2>1, <2>2
  <2> QED BY <2>3, <2>4 DEF Unstarted
<1>5. /\ pc \in [Runtimes -> Places] /\ local \in [Runtimes -> LocalRecords]
      /\ MemoryTyped
  BY NoLocalType DEF Init, Places, MemoryTyped, Running, Inside
<1>6. /\ config \in Configs \cup {NoConfig} /\ operational \in Statuses
      /\ applied \in [Ops -> AppliedRecords \cup {NotApplied}]
      /\ link \in [Wakes -> {NoCycle} \cup Cycles]
  BY ConfigAssumption DEF Init, Statuses
<1> QED BY <1>1, <1>2, <1>3, <1>4, <1>5, <1>6 DEF Init, TypeInv, TypeOK

LEMMA StepType == TypeInv /\ [Next]_vars => TypeInv'
<1> SUFFICES ASSUME TypeInv, [Next]_vars PROVE TypeInv'
  OBVIOUS
<1>1. ASSUME NEW r \in Runtimes, RunOnce(r) PROVE TypeInv'
  <2>1. CASE InLoopTurn(r)
    BY <2>1, RejectType, ApplyType, SettleType DEF InLoopTurn
  <2>2. CASE LeaveLoop(r) \/ InvokeBlocked(r)
    BY <2>2, ReturnType DEF LeaveLoop, InvokeBlocked
  <2> QED BY <1>1, <2>1, <2>2, StartType, FreezeType, InvokeType, CallType DEF RunOnce
<1>2. ASSUME NEW r \in Runtimes, Runtime(r) \/ Faults(r) PROVE TypeInv'
  BY <1>1, <1>2, OwnershipType DEF Runtime, Faults
<1>3. CASE Reap \/ SessionLost
  <2>1. PICK r \in Runtimes : TRUE
    BY <1>3 DEF Reap, SessionLost, TypeInv, TypeOK
  <2> QED BY <1>3, OwnershipType
<1>4. CASE Others \/ Tick
  BY <1>4, OthersType DEF Others
<1>5. CASE UNCHANGED vars
  <2>1. Grows
    BY <1>5, SameTurnsGrow DEF vars, store
  <2> QED BY <1>5, <2>1, Stands, SameUnstarted
          DEF vars, TypeInv, TypeOK, control, store, process, bounds
<1> QED BY <1>2, <1>3, <1>4, <1>5 DEF Next

\* The tables and the memory of the runtimes stay well formed through every
\* crash, loss, pause and configuration change.
THEOREM CycleTypes == Spec => []TypeInv
BY InitType, StepType, PTL DEF Spec

\* The columns and check constraints of the tables.
THEOREM CycleTypeOK == Spec => []TypeOK
<1>1. TypeInv => TypeOK
  BY DEF TypeInv
<1> QED BY <1>1, CycleTypes, PTL

-----------------------------------------------------------------------------
(* The inductive invariant, turns and memory *)

Open       == {"prepared", "invoking"}
Carrying   == {"decided", "applied", "rejected"}
Started(c) == cycle[c].status # "none"
Row(c)     == turn[c][Latest(c)]

\* One turn: its attempts follow a frozen context, only the last one may be in
\* progress or completed, and a decision is there exactly when one completed.
TurnSound(t) ==
    /\ t.attempts # <<>> => t.context # NoConfig
    /\ \A i \in DOMAIN t.attempts :
        /\ t.attempts[i] = "started" => i = Len(t.attempts) /\ t.status = "invoking"
        /\ t.attempts[i] = "completed" => i = Len(t.attempts) /\ t.decision # NoDecision
    /\ t.decision # NoDecision <=> t.status \in Carrying
    /\ t.decision # NoDecision =>
           t.attempts # <<>> /\ t.attempts[Len(t.attempts)] = "completed"

OneActive == \A b, c \in ActiveCycles : b = c

StartedInOrder == \A c \in Cycles : \A b \in 1 .. c : Started(c) => Started(b)

\* The turns of one cycle, within its limits.
TurnsSound(c) ==
    /\ cycle[c].status = "active" => Latest(c) > 0
    /\ Latest(c) <= cycle[c].limits.turns
    /\ \A o \in DOMAIN turn[c] :
        /\ TurnSound(turn[c][o])
        /\ turn[c][o].status \in Unfinished <=> cycle[c].status = "active" /\ o = Latest(c)
        /\ o < Latest(c) => turn[c][o].status = "applied"
        /\ Len(turn[c][o].attempts) <= cycle[c].limits.attempts

CyclesSound == OneActive /\ StartedInOrder /\ \A c \in Cycles : TurnsSound(c)

\* The owner inside a turn holds the latest turn of the active cycle, open.
MemorySound ==
    \A r \in Runtimes :
        owner = r /\ pc[r] \in Inside =>
            /\ cycle[Held(r)].status = "active"
            /\ local[r].ordinal = Latest(Held(r))
            /\ Turn(r).status \in Open
            /\ pc[r] # "freeze" => Turn(r).context # NoConfig
            /\ pc[r] = "call" => /\ local[r].attempt = Len(Turn(r).attempts)
                                 /\ local[r].attempt > 0
                                 /\ InProgress(r)

-----------------------------------------------------------------------------
(* The shape of a step *)

Quiet == UNCHANGED <<cycle, link, turn, applied, attention>>

Closes(c) == \E s \in {"completed", "failed"}, why \in Reasons, now \in Nat :
    cycle' = [cycle EXCEPT ![c] = [cycle[c] EXCEPT !.status = s, !.reason = why,
                                                   !.completed = now]]

\* The open turn of c is replaced by t.
Edits(c, t) ==
    /\ c \in ActiveCycles /\ Row(c).status \in Open
    /\ t \in TurnRecords /\ TurnSound(t)
    /\ turn' = Put(c, Latest(c), t)
    /\ Row(c).context # NoConfig => t.context = Row(c).context
    /\ UNCHANGED <<link, applied, attention>>

SameTries(c, t) == Len(t.attempts) = Len(Row(c).attempts)

OneMoreTry(c, t) == /\ Allowed
                    /\ Len(t.attempts) = Len(Row(c).attempts) + 1
                    /\ Len(t.attempts) <= cycle[c].limits.attempts

\* The turn stays open.
GoesOn(c, t) == /\ Edits(c, t) /\ t.status \in Open
                /\ SameTries(c, t) \/ OneMoreTry(c, t)
                /\ UNCHANGED cycle

Decides(c, t) == /\ Edits(c, t) /\ t.status = "decided" /\ SameTries(c, t)
                 /\ t.decision \in Decisions
                 /\ \A b \in Cycles : \A o \in DOMAIN turn[b] :
                        turn[b][o].decision # t.decision
                 /\ UNCHANGED cycle

Fails(c, t) == /\ Edits(c, t) /\ t.status = "failed" /\ SameTries(c, t)
               /\ Closes(c)

\* A decided turn is finished, one way or the other.
Judges(c) == c \in ActiveCycles /\ Row(c).status = "decided" /\ Allowed

Rejects(c) == /\ Judges(c)
              /\ turn' = Put(c, Latest(c), [Row(c) EXCEPT !.status = "rejected"])
              /\ Closes(c)
              /\ UNCHANGED <<link, applied, attention>>

AppliedTurns(c) == Put(c, Latest(c), [Row(c) EXCEPT !.status = "applied"])

Applies(c) ==
    /\ Judges(c) /\ ~Rejected(Row(c).decision)
    /\ applied' = WithOperations(c, Latest(c), Row(c).decision)
    /\ attention' = Attended(c) /\ UNCHANGED link
    /\ \/ turn' = AppliedTurns(c) /\ Closes(c)
       \/ /\ turn' = [AppliedTurns(c) EXCEPT ![c] = Append(AppliedTurns(c)[c], NewTurn)]
          /\ Row(c).decision.disposition = "continue"
          /\ Latest(c) < cycle[c].limits.turns
          /\ UNCHANGED cycle

\* A batch of wakes starts the next cycle.
Claims(c, batch) ==
    /\ Allowed /\ ActiveCycles = {} /\ NextCycle(c)
    /\ turn' = [turn EXCEPT ![c] = <<NewTurn>>]
    /\ \E l \in LimitRecords, d \in Nat :
          cycle' = [cycle EXCEPT ![c] = [status |-> "active", reason |-> "none",
                                         completed |-> 0, deadline |-> d, limits |-> l]]
    /\ link' = [w \in Wakes |-> IF w \in batch THEN c ELSE link[w]]
    /\ UNCHANGED <<applied, attention>>

Shape(c) == \/ \E t \in TurnRecords : GoesOn(c, t) \/ Decides(c, t) \/ Fails(c, t)
            \/ Rejects(c) \/ Applies(c)
            \/ \E batch \in SUBSET Wakes : Claims(c, batch)

-----------------------------------------------------------------------------
(* One turn *)

LEMMA AbandonedSound ==
    ASSUME NEW t \in TurnRecords, TurnSound(t), t.status \in Open,
           NEW u, u = [t EXCEPT !.attempts = Abandon(t.attempts)]
    PROVE  /\ u \in TurnRecords /\ TurnSound(u) /\ u.status = t.status
           /\ u.context = t.context /\ u.decision = t.decision
           /\ Len(u.attempts) = Len(t.attempts)
           /\ \A i \in DOMAIN u.attempts : u.attempts[i] # "started"
<1>1. t.attempts \in Seq(Tries)
  BY TurnFields
<1>2. /\ Abandon(t.attempts) \in Seq(Tries)
      /\ Len(Abandon(t.attempts)) = Len(t.attempts)
      /\ DOMAIN Abandon(t.attempts) = DOMAIN t.attempts
      /\ \A i \in DOMAIN t.attempts : Abandon(t.attempts)[i] =
             IF t.attempts[i] = "started" THEN "abandoned" ELSE t.attempts[i]
  BY <1>1, AbandonType
<1>3. u \in TurnRecords /\ u.attempts = Abandon(t.attempts) /\ u.status = t.status
      /\ u.context = t.context /\ u.decision = t.decision
  BY <1>2, TurnFields DEF TurnRecords
<1>4. t.decision = NoDecision
  BY DEF TurnSound, Open, Carrying
<1>5. u.attempts # <<>> => t.attempts # <<>>
  BY <1>1, <1>2, <1>3
<1> QED BY <1>2, <1>3, <1>4, <1>5 DEF TurnSound

\* A turn nobody is trying any more can be failed.
LEMMA FailedSound ==
    ASSUME NEW t \in TurnRecords, TurnSound(t), t.status \in Open,
           \A i \in DOMAIN t.attempts : t.attempts[i] # "started",
           NEW u, u = [t EXCEPT !.status = "failed"]
    PROVE  /\ u \in TurnRecords /\ TurnSound(u) /\ u.status = "failed"
           /\ u.context = t.context /\ u.decision = NoDecision
           /\ u.attempts = t.attempts
<1>1. u \in TurnRecords /\ u.attempts = t.attempts /\ u.status = "failed"
      /\ u.context = t.context /\ u.decision = t.decision
  BY TurnFields DEF TurnRecords, Finished
<1>2. t.decision = NoDecision
  BY DEF TurnSound, Open, Carrying
<1> QED BY <1>1, <1>2 DEF TurnSound, Carrying

LEMMA FrozenSound ==
    ASSUME NEW t \in TurnRecords, TurnSound(t), NEW g \in Configs,
           NEW u, u = [t EXCEPT !.context = g]
    PROVE  /\ u \in TurnRecords /\ TurnSound(u) /\ u.status = t.status
           /\ u.context = g /\ g # NoConfig /\ u.attempts = t.attempts
<1>1. u \in TurnRecords /\ u.attempts = t.attempts /\ u.status = t.status
      /\ u.context = g /\ u.decision = t.decision
  BY TurnFields DEF TurnRecords
<1>2. g # NoConfig
  BY ConfigAssumption
<1> QED BY <1>1, <1>2 DEF TurnSound

LEMMA StartedSound ==
    ASSUME NEW t \in TurnRecords, TurnSound(t), t.status \in Open, t.context # NoConfig,
           NEW u, u = [t EXCEPT !.attempts = Append(Abandon(t.attempts), "started"),
                                !.status = "invoking"]
    PROVE  /\ u \in TurnRecords /\ TurnSound(u) /\ u.status = "invoking"
           /\ u.context = t.context
           /\ Len(u.attempts) = Len(t.attempts) + 1
           /\ u.attempts[Len(u.attempts)] = "started"
<1>1. t.attempts \in Seq(Tries)
  BY TurnFields
<1> DEFINE a == Abandon(t.attempts)
           b == Append(a, "started")
<1>2. /\ a \in Seq(Tries) /\ Len(a) = Len(t.attempts)
      /\ \A i \in DOMAIN a : a[i] = IF t.attempts[i] = "started" THEN "abandoned" ELSE t.attempts[i]
      /\ DOMAIN a = DOMAIN t.attempts
  BY <1>1, AbandonType
<1>3. b \in Seq(Tries)
  BY <1>1, StartedType
<1>4. t.decision = NoDecision
  BY DEF TurnSound, Open, Carrying
<1>5. \A i \in DOMAIN a : a[i] # "started" /\ a[i] # "completed"
  BY <1>2, <1>4 DEF TurnSound
<1> HIDE DEF a
<1>6. Len(b) = Len(a) + 1 /\ b[Len(b)] = "started" /\ b # <<>>
      /\ \A i \in DOMAIN b : i # Len(b) => i \in DOMAIN a /\ b[i] = a[i]
  BY <1>2 DEF Tries
<1>7. u \in TurnRecords /\ u.attempts = b /\ u.status = "invoking"
      /\ u.context = t.context /\ u.decision = t.decision
  <2>1. u = [t EXCEPT !.attempts = b, !.status = "invoking"]
    BY DEF a
  <2> HIDE DEF b
  <2> QED BY <1>3, <2>1 DEF TurnRecords, Tries, Unfinished
<1> HIDE DEF b
<1> QED BY <1>2, <1>4, <1>5, <1>6, <1>7 DEF TurnSound, Carrying

\* The attempt in progress is answered.
LEMMA AnsweredSound ==
    ASSUME NEW t \in TurnRecords, TurnSound(t), t.status \in Open,
           t.attempts[Len(t.attempts)] = "started", t.context # NoConfig,
           NEW u,
           u = [t EXCEPT !.attempts = [t.attempts EXCEPT ![Len(t.attempts)] = "failed"]]
    PROVE  /\ u \in TurnRecords /\ TurnSound(u) /\ u.status = t.status
           /\ u.context = t.context
           /\ Len(u.attempts) = Len(t.attempts)
           /\ \A j \in DOMAIN u.attempts : u.attempts[j] # "started"
<1> DEFINE i == Len(t.attempts)
           a == [t.attempts EXCEPT ![i] = "failed"]
<1>1. t.attempts \in Seq(Tries) /\ "failed" \in Tries
  BY TurnFields DEF Tries
<1>2. a \in Seq(Tries)
  BY <1>1, AnsweredType
<1>3. /\ Len(a) = Len(t.attempts) /\ DOMAIN a = DOMAIN t.attempts
      /\ \A j \in DOMAIN a : a[j] = IF j = i THEN "failed" ELSE t.attempts[j]
  BY <1>1
<1>4. t.decision = NoDecision
  BY DEF TurnSound, Open, Carrying
<1>5. u = [t EXCEPT !.attempts = a]
  OBVIOUS
<1>6. \A j \in DOMAIN a : a[j] # "started" /\ a[j] # "completed"
  BY <1>3, <1>4 DEF TurnSound
<1> HIDE DEF a
<1>7. u \in TurnRecords /\ u.attempts = a /\ u.status = t.status
      /\ u.context = t.context /\ u.decision = t.decision
  BY <1>2, <1>5, TurnFields DEF TurnRecords
<1> QED BY <1>3, <1>4, <1>6, <1>7 DEF TurnSound

WithDecision(t, d) ==
    [t EXCEPT !.attempts = [t.attempts EXCEPT ![Len(t.attempts)] = "completed"],
              !.decision = d, !.status = "decided"]

LEMMA DecidedSound ==
    ASSUME NEW t \in TurnRecords, TurnSound(t), t.status \in Open,
           Len(t.attempts) > 0, t.context # NoConfig, NEW d \in Decisions,
           NEW u, u = WithDecision(t, d)
    PROVE  /\ u \in TurnRecords /\ TurnSound(u) /\ u.status = "decided"
           /\ u.context = t.context /\ u.decision = d
           /\ Len(u.attempts) = Len(t.attempts)
<1> DEFINE i == Len(t.attempts)
           a == [t.attempts EXCEPT ![i] = "completed"]
<1>1. t.attempts \in Seq(Tries) /\ "completed" \in Tries
  BY TurnFields DEF Tries
<1>2. a \in Seq(Tries)
  BY <1>1, AnsweredType
<1>3. /\ Len(a) = Len(t.attempts) /\ DOMAIN a = DOMAIN t.attempts /\ i \in DOMAIN a
      /\ \A j \in DOMAIN a : a[j] = IF j = i THEN "completed" ELSE t.attempts[j]
  BY <1>1
<1>4. t.decision = NoDecision /\ d # NoDecision
  BY DecisionAssumption DEF TurnSound, Open, Carrying
<1>5. u = [t EXCEPT !.attempts = a, !.decision = d, !.status = "decided"]
  BY DEF WithDecision
<1>6. \A j \in DOMAIN a : a[j] # "started" /\ (a[j] = "completed" => j = i)
  BY <1>3, <1>4 DEF TurnSound
<1>7. a # <<>> /\ a[Len(a)] = "completed"
  BY <1>3
<1> HIDE DEF a
<1>8. u \in TurnRecords /\ u.attempts = a /\ u.status = "decided"
      /\ u.context = t.context /\ u.decision = d
  BY <1>2, <1>4, <1>5 DEF TurnRecords, Tries, Unfinished
<1> QED BY <1>3, <1>4, <1>6, <1>7, <1>8 DEF TurnSound, Carrying

\* A decided turn keeps everything but its status.
LEMMA JudgedSound ==
    ASSUME NEW t \in TurnRecords, TurnSound(t), t.status = "decided",
           NEW s \in {"applied", "rejected"}, NEW u, u = [t EXCEPT !.status = s]
    PROVE  /\ u \in TurnRecords /\ TurnSound(u) /\ u.status = s
           /\ u.context = t.context /\ u.decision = t.decision
           /\ u.attempts = t.attempts
<1>1. u \in TurnRecords /\ u.attempts = t.attempts /\ u.status = s
      /\ u.context = t.context /\ u.decision = t.decision
  BY TurnFields DEF TurnRecords, Finished
<1> QED BY <1>1 DEF TurnSound, Carrying

LEMMA NewTurnSound == TurnSound(NewTurn) /\ NewTurn \in TurnRecords
BY NewTurnType DEF TurnSound, NewTurn, Carrying

-----------------------------------------------------------------------------
(* Every step has one of the shapes *)

LEMMA LatestRow ==
    ASSUME TypeInv, CyclesSound, NEW c \in ActiveCycles
    PROVE  /\ c \in Cycles /\ Latest(c) \in DOMAIN turn[c] /\ Latest(c) \in Nat \ {0}
           /\ Row(c) \in TurnRecords /\ TurnSound(Row(c))
           /\ Row(c).status \in Unfinished
           /\ Row(c).status # "decided" => Row(c).status \in Open
<1>1. c \in Cycles /\ cycle[c].status = "active"
  BY DEF ActiveCycles
<1>2. turn[c] \in Seq(TurnRecords)
  BY <1>1 DEF TypeInv, TypeOK
<1>3. Latest(c) \in DOMAIN turn[c] /\ Latest(c) \in Nat \ {0}
  BY <1>1, <1>2 DEF CyclesSound, TurnsSound, Latest
<1>4. TurnSound(turn[c][Latest(c)]) /\ turn[c][Latest(c)].status \in Unfinished
  BY <1>1, <1>3 DEF CyclesSound, TurnsSound
<1> QED BY <1>1, <1>2, <1>3, <1>4 DEF Row, Unfinished, Open

\* A turn in the loop is the latest one of the active cycle.
LEMMA LoopRow ==
    ASSUME TypeInv, CyclesSound, NEW r \in Runtimes, NEW c \in Cycles, NEW o,
           InLoop(r, c, o)
    PROVE  c \in ActiveCycles /\ o = Latest(c) /\ turn[c][o] = Row(c) /\ Allowed
BY DEF InLoop, ActiveCycles, Row

\* What the owner inside a turn holds.
LEMMA HeldRow ==
    ASSUME TypeInv, CyclesSound, MemorySound, NEW r \in Runtimes, owner = r,
           pc[r] \in Inside
    PROVE  /\ Held(r) \in ActiveCycles /\ Held(r) \in Cycles
           /\ local[r].ordinal = Latest(Held(r))
           /\ Turn(r) = Row(Held(r)) /\ Row(Held(r)).status \in Open
           /\ Row(Held(r)) = turn[Held(r)][local[r].ordinal]
           /\ pc[r] # "freeze" => Row(Held(r)).context # NoConfig
           /\ pc[r] = "call" =>
                  /\ local[r].attempt = Len(Row(Held(r)).attempts)
                  /\ local[r].attempt > 0
                  /\ Row(Held(r)).attempts[local[r].attempt] = "started"
<1>1. Held(r) \in Cycles
  BY HeldType
<1> QED BY <1>1 DEF MemorySound, ActiveCycles, Turn, Row, InProgress

\* A transaction that ends a cycle commits all it has written or nothing.
LEMMA FinishShape ==
    ASSUME TypeInv, NEW r \in Runtimes, NEW c \in Cycles, NEW now \in Nat,
           NEW status \in {"completed", "failed"}, NEW reason \in Reasons,
           NEW tn, NEW wk, NEW ap, NEW att,
           Finish(r, c, now, status, reason, tn, wk, ap, att)
    PROVE  /\ \/ Quiet
              \/ /\ turn' = tn /\ applied' = ap /\ attention' = att
                 /\ UNCHANGED link /\ Closes(c)
           /\ owner' = owner /\ pc'[r] \notin Inside
<1> DEFINE spent == Consume(wk, c)
           ended == [cycle EXCEPT ![c] = [@ EXCEPT !.status = status,
                                                   !.reason = reason,
                                                   !.completed = now]]
<1>1. r \in DOMAIN pc
  BY DEF TypeInv, TypeOK
<1>2. CASE AccountOk(spent, ended, now)
  <2>1. /\ cycle' = ended /\ turn' = tn /\ applied' = ap /\ attention' = att
        /\ BackToLoop(r, c) /\ UNCHANGED <<clock, control, link, owner, bounds>>
    BY <1>2 DEF Finish
  <2>2. pc'[r] = "loop"
    BY <1>1, <2>1 DEF BackToLoop, Goto
  <2> QED BY <2>1, <2>2 DEF Closes, Inside
<1>3. CASE ~AccountOk(spent, ended, now)
  <2>1. RollBack(r)
    BY <1>3 DEF Finish
  <2>2. pc'[r] = "closing"
    BY <1>1, <2>1 DEF RollBack, Goto
  <2> QED BY <2>1, <2>2 DEF RollBack, Quiet, store, Inside
<1> QED BY <1>2, <1>3

\* A turn that is failed, from the form t in which the step has left it.
LEMMA FailShape ==
    ASSUME TypeInv, CyclesSound, NEW r \in Runtimes, NEW c \in ActiveCycles,
           Row(c).status \in Open, NEW now \in Nat, NEW reason \in Reasons,
           NEW t \in TurnRecords, TurnSound(t), t.status \in Open,
           t.context = Row(c).context, SameTries(c, t),
           \A i \in DOMAIN t.attempts : t.attempts[i] # "started",
           NEW tn, tn = Put(c, Latest(c), t),
           FailTurn(r, c, Latest(c), now, tn, reason)
    PROVE  /\ Quiet \/ \E u \in TurnRecords : Fails(c, u)
           /\ owner' = owner /\ pc'[r] \notin Inside
<1> DEFINE u      == [t EXCEPT !.status = "failed"]
           failed == [tn EXCEPT ![c][Latest(c)].status = "failed"]
<1>1. c \in Cycles /\ Latest(c) \in DOMAIN turn[c] /\ TypeOK
  BY LatestRow DEF TypeInv
<1>2. failed = Put(c, Latest(c), u)
  BY <1>1 DEF Put, TypeOK
<1>3. /\ u \in TurnRecords /\ TurnSound(u) /\ u.status = "failed"
      /\ u.context = t.context /\ u.attempts = t.attempts
  BY FailedSound
<1>4. Finish(r, c, now, "failed", reason, failed, wake, applied, attention)
  BY DEF FailTurn
<1> HIDE DEF u, failed
<1>5. /\ \/ Quiet
         \/ /\ turn' = failed /\ applied' = applied /\ attention' = attention
            /\ UNCHANGED link /\ Closes(c)
      /\ owner' = owner /\ pc'[r] \notin Inside
  BY <1>1, <1>4, FinishShape
<1>6. turn' = failed /\ UNCHANGED <<link, applied, attention>> /\ Closes(c) => Fails(c, u)
  BY <1>2, <1>3 DEF Fails, Edits, SameTries
<1> QED BY <1>3, <1>5, <1>6

LEMMA RejectShape ==
    ASSUME TypeInv, CyclesSound, NEW r \in Runtimes, NEW c \in Cycles, NEW o,
           Reject(r, c, o)
    PROVE  (Quiet \/ Rejects(c)) /\ owner' = owner /\ pc'[r] \notin Inside
<1> DEFINE tn == WithStatus(c, o, "rejected")
<1>1. c \in ActiveCycles /\ o = Latest(c) /\ turn[c][o] = Row(c) /\ Allowed
      /\ Row(c).status = "decided"
  BY LoopRow DEF Reject
<1>2. TypeOK /\ o \in DOMAIN turn[c] /\ Now(r) \in Nat
  BY <1>1, LatestRow, NowType DEF TypeInv
<1>3. tn = Put(c, o, [Row(c) EXCEPT !.status = "rejected"])
  BY <1>1, <1>2 DEF WithStatus, Put
<1>4. Finish(r, c, Now(r), "failed", "decision_rejected", tn, wake, applied, attention)
  BY DEF Reject
<1> HIDE DEF tn
<1>5. /\ \/ Quiet
         \/ /\ turn' = tn /\ applied' = applied /\ attention' = attention
            /\ UNCHANGED link /\ Closes(c)
      /\ owner' = owner /\ pc'[r] \notin Inside
  BY <1>2, <1>4, FinishShape, ReasonTypes
<1> QED BY <1>1, <1>3, <1>5 DEF Rejects, Judges

LEMMA ApplyShape ==
    ASSUME TypeInv, CyclesSound, NEW r \in Runtimes, NEW c \in Cycles, NEW o,
           Apply(r, c, o)
    PROVE  /\ Quiet \/ Applies(c)
           /\ owner' = owner
           /\ pc'[r] \notin Inside
<1> DEFINE d    == turn[c][o].decision
           done == WithStatus(c, o, "applied")
           wk   == WithRequested(c, d, Now(r))
           ap   == WithOperations(c, o, d)
<1>1. c \in ActiveCycles /\ o = Latest(c) /\ turn[c][o] = Row(c) /\ Allowed
      /\ Row(c).status = "decided" /\ ~Rejected(d) /\ pc[r] = "loop"
  BY LoopRow DEF Apply, InLoop, Owns
<1>2. TypeOK /\ o \in DOMAIN turn[c] /\ o \in Nat \ {0} /\ Now(r) \in Nat
  BY <1>1, LatestRow, NowType DEF TypeInv
<1>3. done = AppliedTurns(c)
  BY <1>1, <1>2 DEF WithStatus, Put, AppliedTurns
<1>4. d \in Decisions
  BY <1>1, LatestRow DEF TurnRecords
<1>5. EndReason(c, o, d) \in Reasons
  <2> HIDE DEF d
  <2> QED BY <1>4, ReasonTypes DEF EndReason
<1>6. \/ Finish(r, c, Now(r), "completed", EndReason(c, o, d), done, wk, ap, Attended(c))
      \/ /\ turn' = [done EXCEPT ![c] = Append(done[c], NewTurn)]
         /\ applied' = ap /\ attention' = Attended(c)
         /\ ~EndsCycle(c, o, d, Now(r))
         /\ UNCHANGED <<clock, control, link, cycle, heartbeat, process, bounds>>
  BY <1>2, AppliedPut DEF Apply
<1>7. CASE Finish(r, c, Now(r), "completed", EndReason(c, o, d), done, wk, ap, Attended(c))
  <2> HIDE DEF d, done, wk, ap
  <2>1. /\ \/ Quiet
           \/ /\ turn' = done /\ applied' = ap /\ attention' = Attended(c)
              /\ UNCHANGED link /\ Closes(c)
        /\ owner' = owner /\ pc'[r] \notin Inside
    BY <1>2, <1>5, <1>7, FinishShape
  <2> QED BY <1>1, <1>3, <2>1 DEF Applies, Judges, ap, d
<1>8. CASE /\ turn' = [done EXCEPT ![c] = Append(done[c], NewTurn)]
           /\ applied' = ap /\ attention' = Attended(c)
           /\ ~EndsCycle(c, o, d, Now(r))
           /\ UNCHANGED <<clock, control, link, cycle, heartbeat, process, bounds>>
  <2>1. d.disposition = "continue" /\ ~(o >= cycle[c].limits.turns)
    BY <1>8 DEF EndsCycle
  <2>2. cycle[c].limits.turns \in Nat
    BY <1>2 DEF TypeOK, CycleRecords, LimitRecords
  <2>3. o < cycle[c].limits.turns
    BY <1>2, <2>1, <2>2
  <2>4. owner' = owner /\ pc'[r] \notin Inside
    BY <1>1, <1>8 DEF process, Inside
  <2> HIDE DEF d, done, wk, ap
  <2> QED BY <1>1, <1>3, <1>8, <2>1, <2>3, <2>4 DEF Applies, Judges, ap, d
<1> QED BY <1>6, <1>7, <1>8

LEMMA SettleShape ==
    ASSUME TypeInv, CyclesSound, NEW r \in Runtimes, NEW c \in Cycles, NEW o,
           Settle(r, c, o)
    PROVE  /\ Quiet \/ \E t \in TurnRecords : GoesOn(c, t) \/ Fails(c, t)
           /\ owner' = owner
           /\ pc'[r] \in Inside => /\ pc'[r] = "freeze"
                                   /\ local'[r].cycle = c /\ local'[r].ordinal = o
                                   /\ \E t \in TurnRecords : GoesOn(c, t)
<1> DEFINE t == [Row(c) EXCEPT !.attempts = Abandon(Row(c).attempts)]
<1>1. c \in ActiveCycles /\ o = Latest(c) /\ turn[c][o] = Row(c)
      /\ Row(c).status # "decided"
  BY LoopRow DEF Settle
<1>2. /\ TypeOK /\ o \in DOMAIN turn[c] /\ Now(r) \in Nat /\ o \in Nat
      /\ Row(c) \in TurnRecords /\ TurnSound(Row(c)) /\ Row(c).status \in Open
  BY <1>1, LatestRow, NowType DEF TypeInv
<1>3. /\ t \in TurnRecords /\ TurnSound(t) /\ t.status = Row(c).status
      /\ t.context = Row(c).context /\ Len(t.attempts) = Len(Row(c).attempts)
      /\ \A i \in DOMAIN t.attempts : t.attempts[i] # "started"
  BY <1>2, AbandonedSound
<1>4. Settled(c, o) = Put(c, o, t)
  BY <1>1, <1>2, SettledPut
<1>5. SpentReason(c, o) \in Reasons
  BY <1>2, ReasonTypes
<1> HIDE DEF t
<1>6. CASE FailTurn(r, c, o, Now(r), Settled(c, o), SpentReason(c, o))
  BY <1>1, <1>2, <1>3, <1>4, <1>5, <1>6, FailShape DEF SameTries
<1>7. CASE /\ turn' = Settled(c, o)
           /\ local' = [local EXCEPT ![r] = [cycle |-> c, ordinal |-> o,
                                             now |-> Now(r), attempt |-> 0]]
           /\ Goto(r, "freeze")
           /\ UNCHANGED <<clock, control, wake, link, cycle, applied,
                          attention, heartbeat, owner, bounds>>
  <2>1. GoesOn(c, t)
    BY <1>1, <1>2, <1>3, <1>4, <1>7 DEF GoesOn, Edits, SameTries
  <2>2. pc'[r] = "freeze" /\ local'[r].cycle = c /\ local'[r].ordinal = o
    BY <1>2, <1>7 DEF Goto, TypeOK
  <2> QED BY <1>3, <1>7, <2>1, <2>2
<1> QED BY <1>6, <1>7 DEF Settle

LEMMA FreezeShape ==
    ASSUME TypeInv, CyclesSound, MemorySound, NEW r \in Runtimes,
           Frozen(r) \/ Freeze(r) \/ CannotFreeze(r)
    PROVE  /\ Quiet \/ \E t \in TurnRecords : GoesOn(Held(r), t) \/ Fails(Held(r), t)
           /\ owner' = owner
           /\ pc'[r] \in Inside =>
                 /\ pc'[r] = "invoke"
                 /\ local'[r].cycle = Held(r) /\ local'[r].ordinal = Latest(Held(r))
                 /\ \/ UNCHANGED <<cycle, turn>> /\ Row(Held(r)).context # NoConfig
                    \/ \E t \in TurnRecords : GoesOn(Held(r), t) /\ t.context # NoConfig
<1> DEFINE c == Held(r)
           t == [Row(c) EXCEPT !.context = config]
<1>1. owner = r /\ pc[r] = "freeze" /\ pc[r] \in Inside
  BY DEF Frozen, Freeze, CannotFreeze, Owns, Inside
<1>2. /\ c \in ActiveCycles /\ c \in Cycles /\ local[r].ordinal = Latest(c)
      /\ Turn(r) = Row(c) /\ Row(c).status \in Open
  BY <1>1, HeldRow
<1>3. /\ TypeOK /\ Latest(c) \in DOMAIN turn[c]
      /\ Row(c) \in TurnRecords /\ TurnSound(Row(c))
      /\ local[r] \in LocalRecords /\ local[r].now \in Nat
  BY <1>1, <1>2, LatestRow, HeldType DEF TypeInv
<1>4. r \in DOMAIN pc /\ r \in DOMAIN local
  BY <1>3 DEF TypeOK
<1>5. CASE Frozen(r)
  <2>1. Quiet /\ owner' = owner /\ UNCHANGED <<cycle, turn>>
    BY <1>5 DEF Frozen, store, Quiet
  <2>2. local'[r].cycle = c /\ local'[r].ordinal = Latest(c) /\ pc'[r] = "invoke"
    BY <1>2, <1>3, <1>4, <1>5 DEF Frozen, Goto, Held, LocalRecords
  <2>3. Row(c).context # NoConfig
    BY <1>2, <1>5 DEF Frozen
  <2> QED BY <2>1, <2>2, <2>3
<1>6. CASE Freeze(r)
  <2>1. config \in Configs /\ Row(c).context = NoConfig
    BY <1>2, <1>3, <1>6 DEF Freeze, TypeOK
  <2>2. /\ t \in TurnRecords /\ TurnSound(t) /\ t.status = Row(c).status
        /\ t.context # NoConfig /\ t.attempts = Row(c).attempts
    BY <1>3, <2>1, FrozenSound
  <2>3. turn' = Put(c, Latest(c), t)
    BY <1>2, <1>3, <1>6 DEF Freeze, Put, Row, TypeOK
  <2>4. UNCHANGED <<cycle, link, applied, attention, owner>>
    BY <1>6 DEF Freeze
  <2>5. local'[r].cycle = c /\ local'[r].ordinal = Latest(c) /\ pc'[r] = "invoke"
    BY <1>2, <1>3, <1>4, <1>6 DEF Freeze, Goto, Held, LocalRecords
  <2> HIDE DEF t
  <2>6. GoesOn(c, t)
    BY <1>2, <2>1, <2>2, <2>3, <2>4 DEF GoesOn, Edits, SameTries
  <2> QED BY <2>2, <2>4, <2>5, <2>6
<1>7. CASE CannotFreeze(r)
  <2>1. PICK reason \in {"missing_configuration", "context_budget"} :
            FailTurn(r, c, Latest(c), local[r].now, turn, reason)
    BY <1>2, <1>7 DEF CannotFreeze
  <2>2. turn = Put(c, Latest(c), Row(c))
    BY <1>2, <1>3 DEF Put, Row, TypeOK
  <2>3. \A i \in DOMAIN Row(c).attempts : Row(c).attempts[i] # "started"
    <3>1. Row(c).context = NoConfig
      BY <1>2, <1>7 DEF CannotFreeze
    <3> QED BY <1>3, <3>1 DEF TurnSound
  <2>4. reason \in Reasons
    BY ReasonTypes
  <2>5. SameTries(c, Row(c))
    BY DEF SameTries
  <2> QED BY <1>2, <1>3, <2>1, <2>2, <2>3, <2>4, <2>5, FailShape
<1> QED BY <1>5, <1>6, <1>7

LEMMA InvokeShape ==
    ASSUME TypeInv, CyclesSound, MemorySound, NEW r \in Runtimes, Invoke(r)
    PROVE  /\ Quiet \/ \E t \in TurnRecords : GoesOn(Held(r), t) \/ Fails(Held(r), t)
           /\ owner' = owner
           /\ pc'[r] \in Inside =>
                 /\ pc'[r] = "call"
                 /\ local'[r].cycle = Held(r) /\ local'[r].ordinal = Latest(Held(r))
                 /\ \E t \in TurnRecords :
                       /\ GoesOn(Held(r), t) /\ t.context # NoConfig
                       /\ local'[r].attempt = Len(t.attempts)
                       /\ t.attempts[Len(t.attempts)] = "started"
                       /\ Len(t.attempts) > 0
<1> DEFINE c == Held(r)
           s == [Row(c) EXCEPT !.attempts = Abandon(Row(c).attempts)]
           t == [Row(c) EXCEPT !.attempts = Append(Abandon(Row(c).attempts), "started"),
                               !.status = "invoking"]
<1>1. owner = r /\ pc[r] = "invoke" /\ pc[r] \in Inside /\ Allowed
  BY DEF Invoke, Owns, Inside
<1>2. /\ c \in ActiveCycles /\ c \in Cycles /\ local[r].ordinal = Latest(c)
      /\ Row(c).status \in Open /\ Row(c).context # NoConfig
      /\ Row(c) = turn[c][local[r].ordinal]
  BY <1>1, HeldRow
<1>3. /\ TypeOK /\ Latest(c) \in DOMAIN turn[c] /\ Now(r) \in Nat /\ Latest(c) \in Nat
      /\ Row(c) \in TurnRecords /\ TurnSound(Row(c))
      /\ local[r] \in LocalRecords
  BY <1>1, <1>2, LatestRow, HeldType, NowType DEF TypeInv
<1>4. /\ s \in TurnRecords /\ TurnSound(s) /\ s.status = Row(c).status
      /\ s.context = Row(c).context /\ Len(s.attempts) = Len(Row(c).attempts)
      /\ \A i \in DOMAIN s.attempts : s.attempts[i] # "started"
  BY <1>2, <1>3, AbandonedSound
<1>5. /\ t \in TurnRecords /\ TurnSound(t) /\ t.status = "invoking"
      /\ t.context = Row(c).context
      /\ Len(t.attempts) = Len(Row(c).attempts) + 1
      /\ t.attempts[Len(t.attempts)] = "started"
  BY <1>2, <1>3, StartedSound
<1>0. Len(t.attempts) > 0
  <2>1. Row(c).attempts \in Seq(Tries)
    BY <1>3, TurnFields
  <2> HIDE DEF t
  <2> QED BY <1>5, <2>1
<1>6. Settled(c, Latest(c)) = Put(c, Latest(c), s) /\ SpentReason(c, Latest(c)) \in Reasons
  BY <1>2, <1>3, SettledPut, ReasonTypes DEF Row
<1>7. CASE FailTurn(r, c, Latest(c), Now(r), Settled(c, Latest(c)), SpentReason(c, Latest(c)))
  <2> HIDE DEF s, t
  <2> QED BY <1>2, <1>3, <1>4, <1>6, <1>7, FailShape DEF SameTries
<1>8. CASE ~FailTurn(r, c, Latest(c), Now(r), Settled(c, Latest(c)), SpentReason(c, Latest(c)))
  <2>1. /\ ~Spent(c, Latest(c), Now(r))
        /\ turn' = [turn EXCEPT ![c][Latest(c)].attempts = Append(Abandon(@), "started"),
                                ![c][Latest(c)].status = "invoking"]
        /\ local' = [local EXCEPT ![r].attempt = Len(Row(c).attempts) + 1]
        /\ Goto(r, "call")
        /\ UNCHANGED <<clock, control, wake, link, cycle, applied,
                       attention, heartbeat, owner, bounds>>
    BY <1>2, <1>8 DEF Invoke, Held
  <2>2. turn' = Put(c, Latest(c), t)
    BY <1>2, <1>3, <2>1 DEF Put, Row, TypeOK
  <2>3. /\ local'[r].cycle = c /\ local'[r].ordinal = Latest(c) /\ pc'[r] = "call"
        /\ local'[r].attempt = Len(t.attempts)
    BY <1>2, <1>3, <1>5, <2>1 DEF Goto, Held, LocalRecords, TypeOK
  <2>4. Len(t.attempts) <= cycle[c].limits.attempts
    <3>1. ~(Len(Row(c).attempts) >= cycle[c].limits.attempts)
      BY <2>1 DEF Spent, Row
    <3>2. cycle[c].limits.attempts \in Nat /\ Len(Row(c).attempts) \in Nat
      BY <1>2, <1>3, TurnFields DEF TypeOK, CycleRecords, LimitRecords
    <3> QED BY <1>5, <3>1, <3>2
  <2> HIDE DEF t
  <2>5. GoesOn(c, t)
    BY <1>1, <1>2, <1>5, <2>1, <2>2, <2>4 DEF GoesOn, Edits, OneMoreTry, Open
  <2> QED BY <1>0, <1>2, <1>5, <2>1, <2>3, <2>5
<1> QED BY <1>7, <1>8

LEMMA CallShape ==
    ASSUME TypeInv, CyclesSound, MemorySound, NEW r \in Runtimes,
           AttemptFails(r) \/ Refused(r) \/ Duplicate(r) \/ Decide(r)
    PROVE  /\ \/ Quiet
              \/ \E t \in TurnRecords :
                    GoesOn(Held(r), t) \/ Decides(Held(r), t) \/ Fails(Held(r), t)
           /\ owner' = owner /\ pc'[r] \notin Inside
<1> DEFINE c == Held(r)
           i == local[r].attempt
           f == [Row(c) EXCEPT !.attempts = [Row(c).attempts EXCEPT ![i] = "failed"]]
<1>1. owner = r /\ pc[r] = "call" /\ pc[r] \in Inside
  BY DEF AttemptFails, Refused, Duplicate, Decide, Owns, Inside
<1>2. /\ c \in ActiveCycles /\ c \in Cycles /\ local[r].ordinal = Latest(c)
      /\ Row(c).status \in Open /\ Row(c).context # NoConfig
      /\ Row(c) = turn[c][local[r].ordinal]
      /\ i = Len(Row(c).attempts) /\ i > 0 /\ Row(c).attempts[i] = "started"
  BY <1>1, HeldRow
<1>3. /\ TypeOK /\ Latest(c) \in DOMAIN turn[c] /\ Now(r) \in Nat
      /\ Row(c) \in TurnRecords /\ TurnSound(Row(c)) /\ i \in Nat
  BY <1>1, <1>2, LatestRow, HeldType, NowType DEF TypeInv
<1>4. /\ f \in TurnRecords /\ TurnSound(f) /\ f.status = Row(c).status
      /\ f.context = Row(c).context /\ Len(f.attempts) = Len(Row(c).attempts)
      /\ \A j \in DOMAIN f.attempts : f.attempts[j] # "started"
  <2> DEFINE t0 == Row(c)
  <2>1. /\ t0 \in TurnRecords /\ TurnSound(t0) /\ t0.status \in Open
        /\ t0.attempts[Len(t0.attempts)] = "started" /\ t0.context # NoConfig
    BY <1>2, <1>3
  <2>2. f = [t0 EXCEPT !.attempts = [t0.attempts EXCEPT ![Len(t0.attempts)] = "failed"]]
    BY <1>2
  <2> HIDE DEF t0, i, f
  <2>3. /\ f \in TurnRecords /\ TurnSound(f) /\ f.status = t0.status
        /\ f.context = t0.context /\ Len(f.attempts) = Len(t0.attempts)
        /\ \A j \in DOMAIN f.attempts : f.attempts[j] # "started"
    BY <2>1, <2>2, AnsweredSound
  <2> QED BY <2>3 DEF t0
<1>5. Attempt(r, "failed") = Put(c, Latest(c), f)
  BY <1>2, <1>3 DEF Attempt, Put, Row, TypeOK
<1>6. CASE AttemptFails(r)
  <2>1. turn' = Put(c, Latest(c), f) /\ UNCHANGED <<cycle, link, applied, attention, owner>>
    BY <1>5, <1>6 DEF AttemptFails
  <2>2. pc'[r] \notin Inside
    BY <1>3, <1>6 DEF AttemptFails, BackToLoop, Goto, Inside, TypeOK
  <2> HIDE DEF f
  <2>3. GoesOn(c, f)
    BY <1>2, <1>4, <2>1 DEF GoesOn, Edits, SameTries
  <2> QED BY <1>4, <2>1, <2>2, <2>3
<1>7. CASE Refused(r) \/ Duplicate(r)
  <2>1. PICK reason \in {"refused", "duplicate_decision_id"} :
            FailTurn(r, c, Latest(c), Now(r), Attempt(r, "failed"), reason)
    BY <1>2, <1>7 DEF Refused, Duplicate
  <2>2. reason \in Reasons
    BY ReasonTypes
  <2> HIDE DEF f
  <2> QED BY <1>2, <1>3, <1>4, <1>5, <2>1, <2>2, FailShape DEF SameTries
<1>8. CASE Decide(r)
  <2>1. PICK d \in Decisions :
            /\ ~Known(d)
            /\ turn' = [Attempt(r, "completed") EXCEPT
                           ![Held(r)][local[r].ordinal].decision = d,
                           ![Held(r)][local[r].ordinal].status = "decided"]
    BY <1>8 DEF Decide
  <2> DEFINE t == [Row(c) EXCEPT !.attempts = [Row(c).attempts EXCEPT ![i] = "completed"],
                                 !.decision = d, !.status = "decided"]
  <2>3. /\ t \in TurnRecords /\ TurnSound(t) /\ t.status = "decided"
        /\ t.context = Row(c).context /\ t.decision = d
        /\ Len(t.attempts) = Len(Row(c).attempts)
    <3> DEFINE t0 == Row(c)
    <3>1. /\ t0 \in TurnRecords /\ TurnSound(t0) /\ t0.status \in Open
          /\ Len(t0.attempts) > 0 /\ t0.context # NoConfig /\ d \in Decisions
      BY <1>2, <1>3, <2>1
    <3>2. t = WithDecision(t0, d)
      BY <1>2 DEF WithDecision
    <3> HIDE DEF t0, i, t
    <3>3. /\ t \in TurnRecords /\ TurnSound(t) /\ t.status = "decided"
          /\ t.context = t0.context /\ t.decision = d
          /\ Len(t.attempts) = Len(t0.attempts)
      BY <3>1, <3>2, DecidedSound
    <3> QED BY <3>3 DEF t0
  <2>4. turn' = Put(c, Latest(c), t)
    <3> DEFINE o == local[r].ordinal
               u == [turn[c][o] EXCEPT
                        !.attempts = [turn[c][o].attempts EXCEPT ![i] = "completed"],
                        !.decision = d, !.status = "decided"]
    <3>1. turn' = Put(c, o, u)
      BY <1>2, <1>3, <2>1 DEF Attempt, Put, TypeOK
    <3> QED BY <1>2, <3>1
  <2>5. UNCHANGED <<cycle, link, applied, attention, owner>>
    BY <1>8 DEF Decide
  <2>6. pc'[r] \notin Inside
    BY <1>3, <1>8 DEF Decide, BackToLoop, Goto, Inside, TypeOK
  <2>7. \A b \in Cycles : \A o \in DOMAIN turn[b] : turn[b][o].decision # d
    BY <2>1, DecisionAssumption DEF Known
  <2> HIDE DEF t
  <2>8. Decides(c, t)
    BY <1>2, <2>3, <2>4, <2>5, <2>7 DEF Decides, Edits, SameTries
  <2> QED BY <2>3, <2>5, <2>6, <2>8
<1> QED BY <1>6, <1>7, <1>8

LEMMA StartShape ==
    ASSUME TypeInv, CyclesSound, NEW r \in Runtimes,
           StartBlocked(r) \/ StartFails(r) \/ Resume(r) \/ Idle(r) \/ Claim(r)
    PROVE  /\ Quiet \/ \E c \in Cycles, batch \in SUBSET Wakes : Claims(c, batch)
           /\ owner' = owner /\ pc'[r] \notin Inside
<1>1. r \in DOMAIN pc
  BY DEF TypeInv, TypeOK
<1>2. CASE StartBlocked(r) \/ StartFails(r)
  <2>1. Return(r) \/ RollBack(r)
    BY <1>2 DEF StartBlocked, StartFails
  <2> QED BY <1>1, <2>1 DEF Return, RollBack, Goto, Quiet, store, Inside
<1>3. CASE Resume(r)
  BY <1>1, <1>3 DEF Resume, BackToLoop, Goto, Quiet, Inside
<1>4. CASE Idle(r)
  BY <1>1, <1>4 DEF Idle, Goto, Quiet, Inside
<1>5. CASE Claim(r)
  <2>1. PICK c \in Cycles, B \in StartBatch(r) :
            /\ NextCycle(c)
            /\ \E batch \in SUBSET Wakes :
                  link' = [w \in Wakes |-> IF w \in batch THEN c ELSE link[w]]
            /\ cycle' = [cycle EXCEPT ![c] =
                          [status |-> "active", reason |-> "none", completed |-> 0,
                           deadline |-> Now(r) + Limits[r].seconds,
                           limits |-> Limits[r]]]
            /\ turn' = [turn EXCEPT ![c] = <<NewTurn>>]
            /\ BackToLoop(r, c)
    BY <1>5 DEF Claim, EarliestBatch, Due
  <2>2. Allowed /\ ActiveCycles = {} /\ UNCHANGED <<applied, attention, owner>>
    BY <1>5 DEF Claim, Starting
  <2>3. Limits[r] \in LimitRecords /\ Now(r) + Limits[r].seconds \in Nat
    BY RuntimeAssumption, NowType DEF TypeInv, LimitRecords
  <2>4. pc'[r] \notin Inside
    BY <1>1, <2>1 DEF BackToLoop, Goto, Inside
  <2>5. PICK batch \in SUBSET Wakes :
            link' = [w \in Wakes |-> IF w \in batch THEN c ELSE link[w]]
    BY <2>1
  <2>6. Claims(c, batch)
    BY <2>1, <2>2, <2>3, <2>5 DEF Claims
  <2> QED BY <2>2, <2>4, <2>6
<1> QED BY <1>2, <1>3, <1>4, <1>5

\* A runtime that leaves the loop, is blocked or only moves changes no table.
LEMMA ReturnShape ==
    ASSUME TypeInv, NEW r \in Runtimes, LeaveLoop(r) \/ InvokeBlocked(r)
    PROVE  Quiet /\ owner' = owner /\ pc'[r] \notin Inside
BY DEF TypeInv, TypeOK, LeaveLoop, InvokeBlocked, Return, Goto, Quiet, store, Inside

\* Whatever acts, the tables change in one of the shapes.
LEMMA StepShape ==
    ASSUME TypeInv, CyclesSound, MemorySound, [Next]_vars
    PROVE  Quiet \/ \E c \in Cycles : Shape(c)
<1>1. ASSUME NEW r \in Runtimes, RunOnce(r) PROVE Quiet \/ \E c \in Cycles : Shape(c)
  <2>1. CASE InLoopTurn(r)
    BY <2>1, RejectShape, ApplyShape, SettleShape DEF InLoopTurn, Shape
  <2>2. CASE LeaveLoop(r) \/ InvokeBlocked(r)
    BY <2>2, ReturnShape
  <2>3. CASE StartBlocked(r) \/ StartFails(r) \/ Resume(r) \/ Idle(r) \/ Claim(r)
    BY <2>3, StartShape DEF Shape
  <2>4. CASE \/ Frozen(r) \/ Freeze(r) \/ CannotFreeze(r) \/ Invoke(r)
             \/ AttemptFails(r) \/ Refused(r) \/ Duplicate(r) \/ Decide(r)
    <3>1. Held(r) \in Cycles
      BY <2>4, HeldType DEF Frozen, Freeze, CannotFreeze, Invoke, AttemptFails, Refused,
                            Duplicate, Decide, Owns, Inside
    <3>2. \/ Quiet
          \/ \E t \in TurnRecords :
                GoesOn(Held(r), t) \/ Decides(Held(r), t) \/ Fails(Held(r), t)
      BY <2>4, FreezeShape, InvokeShape, CallShape
    <3> QED BY <3>1, <3>2 DEF Shape
  <2> QED BY <1>1, <2>1, <2>2, <2>3, <2>4 DEF RunOnce
<1>2. ASSUME NEW r \in Runtimes, Runtime(r) \/ Faults(r)
      PROVE  Quiet \/ \E c \in Cycles : Shape(c)
  BY <1>1, <1>2 DEF Runtime, Faults, Acquire, Close, NoticeLoss, Crash, TransactionFails,
                    Quiet, store
<1>3. CASE Reap \/ SessionLost \/ Others \/ Tick \/ UNCHANGED vars
  BY <1>3 DEF Reap, SessionLost, Others, Administer, UpdateGovernance, ReplaceConfig,
              PostWake, Tick, vars, Quiet, store
<1> QED BY <1>2, <1>3 DEF Next

-----------------------------------------------------------------------------
(* The turns stay sound *)

\* What ending c does to the rows of cycles.
LEMMA ClosedRows ==
    ASSUME TypeOK, NEW c \in ActiveCycles, Closes(c)
    PROVE  /\ \A b \in Cycles : b # c => cycle'[b] = cycle[b]
           /\ cycle'[c].status \in {"completed", "failed"}
           /\ cycle'[c].limits = cycle[c].limits
           /\ ActiveCycles' = ActiveCycles \ {c}
           /\ \A b \in Cycles : Started(b)' <=> Started(b)
<1>1. c \in Cycles /\ cycle[c].status = "active" /\ cycle[c] \in CycleRecords
  BY DEF ActiveCycles, TypeOK
<1>2. PICK s \in {"completed", "failed"}, why \in Reasons, now \in Nat :
          cycle' = [cycle EXCEPT ![c] = [cycle[c] EXCEPT !.status = s, !.reason = why,
                                                         !.completed = now]]
  BY DEF Closes
<1>3. \A b \in Cycles : b # c => cycle'[b] = cycle[b]
  BY <1>2 DEF TypeOK
<1>4. cycle'[c].status \in {"completed", "failed"} /\ cycle'[c].limits = cycle[c].limits
  BY <1>1, <1>2 DEF TypeOK, CycleRecords
<1> QED BY <1>1, <1>3, <1>4 DEF ActiveCycles, Started

\* One latest turn is rewritten, and its cycle ends with it or goes on.
LEMMA RewriteCycles ==
    ASSUME TypeInv, CyclesSound, NEW c \in ActiveCycles,
           NEW t \in TurnRecords, TurnSound(t),
           Len(t.attempts) <= cycle[c].limits.attempts,
           turn' = Put(c, Latest(c), t),
           \/ UNCHANGED cycle /\ t.status \in Unfinished
           \/ Closes(c) /\ t.status \in Finished
    PROVE  CyclesSound'
<1>1. /\ c \in Cycles /\ Latest(c) \in DOMAIN turn[c] /\ TypeOK
      /\ cycle[c].status = "active"
  BY LatestRow DEF TypeInv, ActiveCycles
<1>2. /\ \A b \in Cycles : DOMAIN turn'[b] = DOMAIN turn[b] /\ Latest(b)' = Latest(b)
      /\ \A b \in Cycles : \A o \in DOMAIN turn[b] :
             turn'[b][o] = IF b = c /\ o = Latest(c) THEN t ELSE turn[b][o]
  BY <1>1, PutType DEF Latest
<1>3. /\ \A b \in Cycles : b # c => cycle'[b] = cycle[b]
      /\ cycle'[c].limits = cycle[c].limits
      /\ ActiveCycles' \subseteq ActiveCycles
      /\ \A b \in Cycles : Started(b)' <=> Started(b)
      /\ cycle'[c].status = "active" <=> t.status \in Unfinished
  <2>1. CASE UNCHANGED cycle /\ t.status \in Unfinished
    BY <1>1, <2>1 DEF ActiveCycles, Started
  <2>2. CASE Closes(c) /\ t.status \in Finished
    BY <1>1, <2>2, ClosedRows DEF Finished, Unfinished
  <2> QED BY <2>1, <2>2
<1>4. OneActive' /\ StartedInOrder'
  BY <1>3, BoundAssumption DEF CyclesSound, OneActive, StartedInOrder, Cycles
<1>5. ASSUME NEW b \in Cycles PROVE TurnsSound(b)'
  <2>1. TurnsSound(b)
    BY DEF CyclesSound
  <2>2. CASE b # c
    BY <1>2, <1>3, <2>1, <2>2 DEF TurnsSound
  <2>3. CASE b = c
    <3>1. cycle'[b].status = "active" => Latest(b)' > 0
      BY <1>1, <1>2, <2>1, <2>3 DEF TurnsSound
    <3>2. Latest(b)' <= cycle'[b].limits.turns
      BY <1>2, <1>3, <2>1, <2>3 DEF TurnsSound
    <3>3. ASSUME NEW o \in DOMAIN turn'[b]
          PROVE  /\ TurnSound(turn'[b][o])
                 /\ turn'[b][o].status \in Unfinished
                        <=> cycle'[b].status = "active" /\ o = Latest(b)'
                 /\ o < Latest(b)' => turn'[b][o].status = "applied"
                 /\ Len(turn'[b][o].attempts) <= cycle'[b].limits.attempts
      <4>1. o \in DOMAIN turn[b] /\ Latest(b)' = Latest(b) /\ cycle'[b].limits = cycle[b].limits
        BY <1>2, <1>3, <2>3
      <4>2. CASE o = Latest(b)
        <5>1. turn'[b][o] = t
          BY <1>2, <2>3, <4>1, <4>2
        <5>2. ~(o < Latest(b))
          BY <1>1, <2>3, <4>2 DEF TypeOK
        <5> QED BY <1>3, <2>3, <4>1, <4>2, <5>1, <5>2
      <4>3. CASE o # Latest(b)
        <5>1. turn'[b][o] = turn[b][o]
          BY <1>2, <4>1, <4>3
        <5> QED BY <2>1, <4>1, <4>3, <5>1 DEF TurnsSound
      <4> QED BY <4>2, <4>3
    <3> QED BY <3>1, <3>2, <3>3 DEF TurnsSound
  <2> QED BY <2>2, <2>3
<1> QED BY <1>4, <1>5 DEF CyclesSound

\* The latest turn is applied and the next one opened.
LEMMA ContinueCycles ==
    ASSUME TypeInv, CyclesSound, NEW c \in ActiveCycles, Row(c).status = "decided",
           NEW done, done = AppliedTurns(c),
           turn' = [done EXCEPT ![c] = Append(done[c], NewTurn)],
           Latest(c) < cycle[c].limits.turns, UNCHANGED cycle
    PROVE  CyclesSound'
<1> DEFINE t == [Row(c) EXCEPT !.status = "applied"]
<1>1. /\ c \in Cycles /\ Latest(c) \in DOMAIN turn[c] /\ Latest(c) \in Nat \ {0} /\ TypeOK
      /\ cycle[c].status = "active" /\ Row(c) \in TurnRecords /\ TurnSound(Row(c))
      /\ Row(c) = turn[c][Latest(c)]
  BY LatestRow DEF TypeInv, ActiveCycles, Row
<1>2. /\ t \in TurnRecords /\ TurnSound(t) /\ t.status = "applied"
      /\ t.attempts = Row(c).attempts
  BY <1>1, JudgedSound
<1> HIDE DEF t
<1>3. /\ done \in [Cycles -> Seq(TurnRecords)]
      /\ \A b \in Cycles : DOMAIN done[b] = DOMAIN turn[b] /\ Len(done[b]) = Len(turn[b])
      /\ \A b \in Cycles : \A o \in DOMAIN turn[b] :
             done[b][o] = IF b = c /\ o = Latest(c) THEN t ELSE turn[b][o]
  <2>1. done = Put(c, Latest(c), t)
    BY DEF AppliedTurns, t
  <2>2. /\ Put(c, Latest(c), t) \in [Cycles -> Seq(TurnRecords)]
        /\ \A b \in Cycles : DOMAIN Put(c, Latest(c), t)[b] = DOMAIN turn[b]
                             /\ Len(Put(c, Latest(c), t)[b]) = Len(turn[b])
        /\ \A b \in Cycles : \A o \in DOMAIN turn[b] :
               Put(c, Latest(c), t)[b][o] = IF b = c /\ o = Latest(c) THEN t ELSE turn[b][o]
    BY <1>1, <1>2, PutType
  <2> QED BY <2>1, <2>2
<1>4. \A b \in Cycles : b # c => turn'[b] = turn[b]
  <2>1. \A b \in Cycles : b # c => turn'[b] = done[b]
    BY <1>3
  <2>2. \A b \in Cycles : b # c => done[b] = turn[b]
    BY <1>1 DEF AppliedTurns, Put, TypeOK
  <2> QED BY <2>1, <2>2
<1>5. /\ Len(turn'[c]) = Len(turn[c]) + 1 /\ DOMAIN turn'[c] = 1 .. Len(turn[c]) + 1
      /\ DOMAIN turn[c] = 1 .. Len(turn[c]) /\ Len(turn[c]) \in Nat
      /\ \A o \in DOMAIN turn[c] : turn'[c][o] = done[c][o]
      /\ turn'[c][Len(turn[c]) + 1] = NewTurn
  <2>1. done[c] \in Seq(TurnRecords) /\ turn[c] \in Seq(TurnRecords) /\ Len(done[c]) = Len(turn[c])
    BY <1>1, <1>3 DEF TypeOK
  <2>2. turn'[c] = Append(done[c], NewTurn)
    BY <1>1, <1>3
  <2> QED BY <2>1, <2>2, NewTurnType
<1>6. OneActive' /\ StartedInOrder'
  BY DEF CyclesSound, OneActive, StartedInOrder, ActiveCycles, Started
<1>7. ASSUME NEW b \in Cycles PROVE TurnsSound(b)'
  <2>1. TurnsSound(b)
    BY DEF CyclesSound
  <2>2. CASE b # c
    BY <1>4, <2>1, <2>2 DEF TurnsSound, Latest
  <2>3. CASE b = c
    <3>1. Latest(b)' > 0 /\ Latest(b)' <= cycle'[b].limits.turns
      <4>1. cycle[c].limits.turns \in Nat
        BY <1>1 DEF TypeOK, CycleRecords, LimitRecords
      <4> QED BY <1>1, <1>5, <2>3, <4>1 DEF Latest
    <3>2. ASSUME NEW o \in DOMAIN turn'[b]
          PROVE  /\ TurnSound(turn'[b][o])
                 /\ turn'[b][o].status \in Unfinished
                        <=> cycle'[b].status = "active" /\ o = Latest(b)'
                 /\ o < Latest(b)' => turn'[b][o].status = "applied"
                 /\ Len(turn'[b][o].attempts) <= cycle'[b].limits.attempts
      <4>1. CASE o = Len(turn[c]) + 1
        <5>1. turn'[b][o] = NewTurn /\ o = Latest(b)' /\ ~(o < Latest(b)')
          BY <1>5, <2>3, <4>1 DEF Latest
        <5>2. NewTurn.status \in Unfinished /\ Len(NewTurn.attempts) = 0
          BY DEF NewTurn, Unfinished
        <5>3. cycle[b].limits.attempts \in Nat
          BY <1>1, <2>3 DEF TypeOK, CycleRecords, LimitRecords
        <5> QED BY <1>1, <2>3, <5>1, <5>2, <5>3, NewTurnSound
      <4>2. CASE o # Len(turn[c]) + 1
        <5>1. o \in DOMAIN turn[c] /\ o # Latest(b)' /\ o <= Latest(c)
          BY <1>5, <2>3, <4>2 DEF Latest
        <5>2. turn'[b][o] = done[c][o]
          BY <1>5, <2>3, <5>1
        <5>3. CASE o = Latest(c)
          <6>1. turn'[b][o] = t /\ t.status \notin Unfinished
            BY <1>2, <1>3, <5>1, <5>2, <5>3, <1>1 DEF Unfinished
          <6>2. Len(t.attempts) <= cycle'[b].limits.attempts
            BY <1>1, <1>2, <2>1, <2>3 DEF TurnsSound
          <6> QED BY <1>2, <5>1, <6>1, <6>2
        <5>4. CASE o # Latest(c)
          <6>1. turn'[b][o] = turn[b][o]
            BY <1>1, <1>3, <2>3, <5>1, <5>2, <5>4
          <6>2. o < Latest(c)
            BY <1>1, <5>1, <5>4 DEF TypeOK
          <6> QED BY <2>1, <2>3, <5>1, <5>4, <6>1, <6>2 DEF TurnsSound
        <5> QED BY <5>3, <5>4
      <4> QED BY <4>1, <4>2
    <3> QED BY <3>1, <3>2 DEF TurnsSound
  <2> QED BY <2>2, <2>3
<1> QED BY <1>6, <1>7 DEF CyclesSound

\* The next cycle is started with one open turn.
LEMMA ClaimCycles ==
    ASSUME TypeInv, CyclesSound, NEW c \in Cycles, NEW batch \in SUBSET Wakes,
           Claims(c, batch)
    PROVE  CyclesSound'
<1>1. PICK l \in LimitRecords, d \in Nat :
          cycle' = [cycle EXCEPT ![c] = [status |-> "active", reason |-> "none",
                                         completed |-> 0, deadline |-> d, limits |-> l]]
  BY DEF Claims
<1>2. /\ turn' = [turn EXCEPT ![c] = <<NewTurn>>] /\ ActiveCycles = {}
      /\ cycle[c].status = "none" /\ \A b \in 1 .. c - 1 : cycle[b].status # "none"
  BY DEF Claims, NextCycle
<1>3. /\ \A b \in Cycles : b # c => cycle'[b] = cycle[b] /\ turn'[b] = turn[b]
      /\ cycle'[c].status = "active" /\ cycle'[c].limits = l
      /\ turn'[c] = <<NewTurn>>
  BY <1>1, <1>2 DEF TypeInv, TypeOK
<1>4. ActiveCycles' = {c}
  BY <1>2, <1>3 DEF ActiveCycles
<1>5. StartedInOrder'
  <2> SUFFICES ASSUME NEW e \in Cycles, NEW b \in 1 .. e, Started(e)' PROVE Started(b)'
    BY DEF StartedInOrder
  <2>1. b \in Cycles /\ e \in Nat /\ b \in Nat /\ c \in Nat /\ b <= e
    BY BoundAssumption DEF Cycles
  <2>2. CASE e = c
    <3>1. b = c \/ b \in 1 .. c - 1
      BY <2>1, <2>2
    <3> QED BY <1>2, <1>3, <2>1, <3>1 DEF Started
  <2>3. CASE e # c
    <3>1. Started(e)
      BY <1>3, <2>3 DEF Started
    <3>2. Started(b)
      BY <3>1 DEF CyclesSound, StartedInOrder
    <3> QED BY <1>3, <2>1, <3>2 DEF Started
  <2> QED BY <2>2, <2>3
<1>6. ASSUME NEW b \in Cycles PROVE TurnsSound(b)'
  <2>1. CASE b # c
    BY <1>3, <2>1 DEF CyclesSound, TurnsSound, Latest
  <2>2. CASE b = c
    <3>1. /\ Latest(b)' = 1 /\ DOMAIN turn'[b] = {1} /\ turn'[b][1] = NewTurn
      BY <1>3, <2>2 DEF Latest
    <3>2. NewTurn.status \in Unfinished /\ Len(NewTurn.attempts) = 0
      BY DEF NewTurn, Unfinished
    <3>3. l.turns \in Nat \ {0} /\ l.attempts \in Nat \ {0}
      BY DEF LimitRecords
    <3> QED BY <1>3, <2>2, <3>1, <3>2, <3>3, NewTurnSound DEF TurnsSound
  <2> QED BY <2>1, <2>2
<1> QED BY <1>4, <1>5, <1>6 DEF CyclesSound, OneActive

LEMMA CyclesStep ==
    ASSUME TypeInv, CyclesSound, Quiet \/ \E c \in Cycles : Shape(c)
    PROVE  CyclesSound'
<1>1. CASE Quiet
  BY <1>1 DEF Quiet, CyclesSound, OneActive, StartedInOrder, TurnsSound, ActiveCycles,
              Started, Latest
<1>2. ASSUME NEW c \in Cycles, Shape(c) PROVE CyclesSound'
  <2>1. CASE \E t \in TurnRecords : GoesOn(c, t) \/ Decides(c, t) \/ Fails(c, t)
    <3>1. PICK t \in TurnRecords : GoesOn(c, t) \/ Decides(c, t) \/ Fails(c, t)
      BY <2>1
    <3>2. Edits(c, t)
      BY <3>1 DEF GoesOn, Decides, Fails
    <3>3. c \in ActiveCycles /\ TurnSound(t) /\ turn' = Put(c, Latest(c), t)
      BY <3>2 DEF Edits
    <3>4. Len(Row(c).attempts) <= cycle[c].limits.attempts
      BY <3>3, LatestRow DEF CyclesSound, TurnsSound, Row
    <3>5. Len(t.attempts) <= cycle[c].limits.attempts
      BY <3>1, <3>4 DEF GoesOn, Decides, Fails, SameTries, OneMoreTry
    <3>6. \/ UNCHANGED cycle /\ t.status \in Unfinished
          \/ Closes(c) /\ t.status \in Finished
      BY <3>1 DEF GoesOn, Decides, Fails, Open, Unfinished, Finished
    <3> QED BY <3>3, <3>5, <3>6, RewriteCycles
  <2>2. CASE Rejects(c) \/ (Applies(c) /\ turn' = AppliedTurns(c) /\ Closes(c))
    <3>1. c \in ActiveCycles /\ Row(c).status = "decided" /\ Closes(c)
      BY <2>2 DEF Rejects, Applies, Judges
    <3>2. PICK s \in {"applied", "rejected"} :
              turn' = Put(c, Latest(c), [Row(c) EXCEPT !.status = s])
      BY <2>2 DEF Rejects, AppliedTurns
    <3> DEFINE t == [Row(c) EXCEPT !.status = s]
    <3>3. t \in TurnRecords /\ TurnSound(t) /\ t.status = s /\ t.attempts = Row(c).attempts
      BY <3>1, LatestRow, JudgedSound
    <3>4. Len(Row(c).attempts) <= cycle[c].limits.attempts
      BY <3>1, LatestRow DEF CyclesSound, TurnsSound, Row
    <3>5. turn' = Put(c, Latest(c), t) /\ s \in Finished
      BY <3>2 DEF Finished
    <3> HIDE DEF t
    <3> QED BY <3>1, <3>3, <3>4, <3>5, RewriteCycles
  <2>3. CASE Applies(c) /\ ~(turn' = AppliedTurns(c) /\ Closes(c))
    BY <2>3, ContinueCycles DEF Applies, Judges
  <2>4. CASE \E batch \in SUBSET Wakes : Claims(c, batch)
    BY <2>4, ClaimCycles
  <2> QED BY <1>2, <2>1, <2>2, <2>3, <2>4 DEF Shape
<1> QED BY <1>1, <1>2

-----------------------------------------------------------------------------
(* What the owner remembers stays current *)

\* Nobody enters a turn and nothing a runtime inside one remembers changes.
LEMMA MemoryUndisturbed ==
    ASSUME TypeInv, MemorySound, UNCHANGED <<cycle, turn>>,
           \A r \in Runtimes : owner' = r /\ pc'[r] \in Inside =>
               owner = r /\ pc'[r] = pc[r] /\ local'[r] = local[r]
    PROVE  MemorySound'
BY DEF MemorySound, Held, Turn, InProgress, Latest

\* The owner is not inside a turn.
LEMMA MemoryOutside ==
    ASSUME NEW r \in Runtimes, owner' = r, pc'[r] \notin Inside
    PROVE  MemorySound'
BY DEF MemorySound

\* The owner has rewritten the turn it holds and goes on inside it.
LEMMA MemoryGoesOn ==
    ASSUME TypeInv, CyclesSound, NEW r \in Runtimes, owner' = r,
           NEW c \in Cycles, NEW t \in TurnRecords, GoesOn(c, t),
           local'[r].cycle = c, local'[r].ordinal = Latest(c),
           pc'[r] # "freeze" => t.context # NoConfig,
           pc'[r] = "call" => /\ local'[r].attempt = Len(t.attempts)
                              /\ local'[r].attempt > 0
                              /\ t.attempts[Len(t.attempts)] = "started"
    PROVE  MemorySound'
<1>1. /\ c \in ActiveCycles /\ turn' = Put(c, Latest(c), t) /\ t.status \in Open
      /\ UNCHANGED cycle /\ TypeOK
  BY DEF GoesOn, Edits, TypeInv
<1>2. Latest(c) \in DOMAIN turn[c]
  BY <1>1, LatestRow
<1>3. turn'[c][Latest(c)] = t /\ Latest(c)' = Latest(c)
  BY <1>1, <1>2, PutType DEF Latest
<1>4. Held(r)' = c /\ Turn(r)' = t
  BY <1>3 DEF Held, Turn
<1>5. cycle'[c].status = "active"
  BY <1>1 DEF ActiveCycles
<1> QED BY <1>1, <1>3, <1>4, <1>5 DEF MemorySound, InProgress

LEMMA LocalShape ==
    ASSUME TypeInv, NEW r \in Runtimes, NEW place, NEW l, place \notin Inside,
           pc' = [pc EXCEPT ![r] = place], local' = [local EXCEPT ![r] = l],
           owner' \in {owner, NoRuntime}, MemorySound, UNCHANGED <<cycle, turn>>
    PROVE  MemorySound'
<1>1. \A q \in Runtimes : /\ q # r => pc'[q] = pc[q] /\ local'[q] = local[q]
                          /\ pc'[r] = place
  BY DEF TypeInv, TypeOK
<1>2. NoRuntime \notin Runtimes
  BY RuntimeAssumption
<1> QED BY <1>1, <1>2, MemoryUndisturbed

LEMMA MemoryStep ==
    ASSUME TypeInv, CyclesSound, MemorySound, [Next]_vars
    PROVE  MemorySound'
<1>1. ASSUME NEW r \in Runtimes, RunOnce(r) PROVE MemorySound'
  <2>1. owner = r
    BY <1>1 DEF RunOnce, StartBlocked, StartFails, Resume, Idle, Claim, Starting,
                LeaveLoop, InLoopTurn, Reject, Apply, Settle, InLoop, Frozen, Freeze,
                CannotFreeze, InvokeBlocked, Invoke, AttemptFails, Refused, Duplicate,
                Decide, Owns
  <2>2. CASE InLoopTurn(r)
    <3>1. PICK c \in Cycles : \E o \in DOMAIN turn[c] :
              Reject(r, c, o) \/ Apply(r, c, o) \/ Settle(r, c, o)
      BY <2>2 DEF InLoopTurn
    <3>0. PICK o \in DOMAIN turn[c] : Reject(r, c, o) \/ Apply(r, c, o) \/ Settle(r, c, o)
      BY <3>1
    <3>2. CASE Reject(r, c, o) \/ Apply(r, c, o)
      BY <2>1, <3>2, RejectShape, ApplyShape, MemoryOutside
    <3>3. CASE Settle(r, c, o)
      <4>1. owner' = r
        BY <2>1, <3>3, SettleShape
      <4>2. CASE pc'[r] \notin Inside
        BY <4>1, <4>2, MemoryOutside
      <4>3. CASE pc'[r] \in Inside
        <5>1. o = Latest(c)
          BY <3>3 DEF Settle, InLoop
        <5>2. PICK t \in TurnRecords : GoesOn(c, t)
          BY <3>3, <4>3, SettleShape
        <5>3. /\ pc'[r] = "freeze" /\ local'[r].cycle = c /\ local'[r].ordinal = o
          BY <3>3, <4>3, SettleShape
        <5> QED BY <4>1, <5>1, <5>2, <5>3, MemoryGoesOn
      <4> QED BY <4>2, <4>3
    <3> QED BY <3>0, <3>2, <3>3
  <2>3. CASE LeaveLoop(r) \/ InvokeBlocked(r)
    BY <2>1, <2>3, ReturnShape, MemoryOutside
  <2>4. CASE StartBlocked(r) \/ StartFails(r) \/ Resume(r) \/ Idle(r) \/ Claim(r)
    BY <2>1, <2>4, StartShape, MemoryOutside
  <2>5. CASE AttemptFails(r) \/ Refused(r) \/ Duplicate(r) \/ Decide(r)
    BY <2>1, <2>5, CallShape, MemoryOutside
  <2>6. CASE Frozen(r) \/ Freeze(r) \/ CannotFreeze(r)
    <3>1. owner' = r
      BY <2>1, <2>6, FreezeShape
    <3>2. CASE pc'[r] \notin Inside
      BY <3>1, <3>2, MemoryOutside
    <3>3. CASE pc'[r] \in Inside
      <4>1. pc[r] \in Inside
        BY <2>6 DEF Frozen, Freeze, CannotFreeze, Owns, Inside
      <4>2. /\ pc'[r] = "invoke"
            /\ local'[r].cycle = Held(r) /\ local'[r].ordinal = Latest(Held(r))
            /\ \/ UNCHANGED <<cycle, turn>> /\ Row(Held(r)).context # NoConfig
               \/ \E t \in TurnRecords : GoesOn(Held(r), t) /\ t.context # NoConfig
        BY <2>6, <3>3, FreezeShape
      <4>3. /\ Held(r) \in ActiveCycles /\ Held(r) \in Cycles /\ Row(Held(r)).status \in Open
        BY <2>1, <4>1, HeldRow
      <4>4. CASE UNCHANGED <<cycle, turn>> /\ Row(Held(r)).context # NoConfig
        <5>1. Held(r)' = Held(r) /\ Turn(r)' = Row(Held(r)) /\ Latest(Held(r))' = Latest(Held(r))
          BY <4>2, <4>4 DEF Held, Turn, Row, Latest
        <5> QED BY <3>1, <4>2, <4>3, <4>4, <5>1 DEF MemorySound, ActiveCycles
      <4>5. CASE \E t \in TurnRecords : GoesOn(Held(r), t) /\ t.context # NoConfig
        BY <3>1, <4>2, <4>3, <4>5, MemoryGoesOn
      <4> QED BY <4>2, <4>4, <4>5
    <3> QED BY <3>2, <3>3
  <2>7. CASE Invoke(r)
    <3>1. owner' = r
      BY <2>1, <2>7, InvokeShape
    <3>2. CASE pc'[r] \notin Inside
      BY <3>1, <3>2, MemoryOutside
    <3>3. CASE pc'[r] \in Inside
      <4>1. pc[r] \in Inside
        BY <2>7 DEF Invoke, Owns, Inside
      <4>2. /\ pc'[r] = "call"
            /\ local'[r].cycle = Held(r) /\ local'[r].ordinal = Latest(Held(r))
        BY <2>7, <3>3, InvokeShape
      <4>3. PICK t \in TurnRecords :
                /\ GoesOn(Held(r), t) /\ t.context # NoConfig
                /\ local'[r].attempt = Len(t.attempts)
                /\ t.attempts[Len(t.attempts)] = "started"
                /\ Len(t.attempts) > 0
        BY <2>7, <3>3, InvokeShape
      <4>4. Held(r) \in Cycles
        BY <2>1, <4>1, HeldRow
      <4>5. Len(t.attempts) > 0
        BY <4>3
      <4> QED BY <3>1, <4>2, <4>3, <4>4, <4>5, MemoryGoesOn
    <3> QED BY <3>2, <3>3
  <2> QED BY <1>1, <2>2, <2>3, <2>4, <2>5, <2>6, <2>7 DEF RunOnce
<1>2. ASSUME NEW r \in Runtimes, Acquire(r) \/ Close(r) PROVE MemorySound'
  <2>1. PICK place \in {"ready", "idle"} : pc' = [pc EXCEPT ![r] = place]
    BY <1>2 DEF Acquire, Close, Goto
  <2>2. UNCHANGED <<cycle, turn, local>> /\ owner' \in {r, NoRuntime}
    BY <1>2 DEF Acquire, Close, store
  <2>3. pc'[r] \notin Inside
    BY <2>1 DEF TypeInv, TypeOK, Inside
  <2> QED BY <2>2, <2>3, RuntimeAssumption DEF MemorySound
<1>3. ASSUME NEW r \in Runtimes, Crash(r) \/ NoticeLoss(r) \/ TransactionFails(r)
      PROVE  MemorySound'
  <2>1. PICK place \in {"closing", "idle"} : pc' = [pc EXCEPT ![r] = place]
    BY <1>3 DEF Crash, NoticeLoss, TransactionFails, Goto
  <2>2. UNCHANGED <<cycle, turn, owner>> /\ local' = [local EXCEPT ![r] = NoLocal]
    BY <1>3 DEF Crash, NoticeLoss, TransactionFails, store
  <2>3. place \notin Inside
    BY DEF Inside
  <2> QED BY <2>1, <2>2, <2>3, LocalShape
<1>4. CASE Reap \/ SessionLost
  BY <1>4, RuntimeAssumption, MemoryUndisturbed DEF Reap, SessionLost, store
<1>5. CASE Others \/ Tick \/ UNCHANGED vars
  BY <1>5, MemoryUndisturbed DEF Others, Administer, UpdateGovernance, ReplaceConfig,
                                 PostWake, Tick, vars, store, process
<1> QED BY <1>1, <1>2, <1>3, <1>4, <1>5 DEF Next, Runtime, Faults

-----------------------------------------------------------------------------
(* What follows *)

TurnInv == TypeInv /\ CyclesSound /\ MemorySound

LEMMA InitTurns == Init => TurnInv
<1> SUFFICES ASSUME Init PROVE TurnInv
  OBVIOUS
<1>1. TypeInv
  BY InitType
<1>2. ASSUME NEW c \in Cycles
      PROVE  cycle[c].status = "none" /\ cycle[c].limits.turns = 1
             /\ Len(turn[c]) = 0 /\ DOMAIN turn[c] = {}
  <2>1. turn = [b \in Cycles |-> <<>>]
    BY DEF Init
  <2>2. Len(turn[c]) = 0 /\ DOMAIN turn[c] = {}
    BY <2>1
  <2>3. cycle[c].status = "none" /\ cycle[c].limits.turns = 1
    BY DEF Init
  <2> QED BY <2>2, <2>3
<1>3. MemorySound
  BY RuntimeAssumption DEF Init, MemorySound
<1>4. CyclesSound
  BY <1>2 DEF CyclesSound, OneActive, StartedInOrder, TurnsSound, ActiveCycles, Started, Latest
<1> QED BY <1>1, <1>3, <1>4 DEF TurnInv

LEMMA TurnStep == TurnInv /\ [Next]_vars => TurnInv'
BY StepType, StepShape, CyclesStep, MemoryStep DEF TurnInv

LEMMA TurnInvariant == Spec => []TurnInv
BY InitTurns, TurnStep, PTL DEF Spec

\* What a step may do to a turn that is there: it keeps a frozen context, a
\* decision with its attempts, and everything once it is finished.
Carried(t, u) ==
    /\ t.context # NoConfig => u.context = t.context
    /\ t.decision # NoDecision => u.decision = t.decision /\ u.attempts = t.attempts
    /\ t.status \in Finished => u = t

LEMMA RewriteHistory ==
    ASSUME TypeInv, NEW c \in ActiveCycles, Latest(c) \in DOMAIN turn[c],
           NEW t \in TurnRecords, Carried(Row(c), t),
           NEW tn, tn = Put(c, Latest(c), t)
    PROVE  \A b \in Cycles : \A o \in DOMAIN turn[b] :
               o \in DOMAIN tn[b] /\ Carried(turn[b][o], tn[b][o])
<1>1. c \in Cycles /\ TypeOK
  BY DEF ActiveCycles, TypeInv
<1>2. /\ \A b \in Cycles : DOMAIN Put(c, Latest(c), t)[b] = DOMAIN turn[b]
      /\ \A b \in Cycles : \A o \in DOMAIN turn[b] :
             Put(c, Latest(c), t)[b][o] = IF b = c /\ o = Latest(c) THEN t ELSE turn[b][o]
  BY <1>1, PutType
<1>3. \A u : Carried(u, u)
  BY DEF Carried
<1> QED BY <1>2, <1>3 DEF Row

LEMMA TurnHistory ==
    ASSUME TurnInv, [Next]_vars, NEW b \in Cycles, NEW o \in DOMAIN turn[b]
    PROVE  o \in DOMAIN turn'[b] /\ Carried(turn[b][o], turn'[b][o])
<1>1. CASE Quiet
  BY <1>1 DEF Quiet, Carried
<1>2. ASSUME NEW c \in Cycles, Shape(c)
      PROVE  o \in DOMAIN turn'[b] /\ Carried(turn[b][o], turn'[b][o])
  <2>1. CASE \E t \in TurnRecords : GoesOn(c, t) \/ Decides(c, t) \/ Fails(c, t)
    <3>1. PICK t \in TurnRecords : GoesOn(c, t) \/ Decides(c, t) \/ Fails(c, t)
      BY <2>1
    <3>2. /\ c \in ActiveCycles /\ turn' = Put(c, Latest(c), t) /\ Row(c).status \in Open
          /\ Row(c).context # NoConfig => t.context = Row(c).context
      BY <3>1 DEF GoesOn, Decides, Fails, Edits
    <3>3. TurnSound(Row(c)) /\ Latest(c) \in DOMAIN turn[c]
      BY <3>2, LatestRow DEF TurnInv
    <3>4. Row(c).decision = NoDecision
      BY <3>2, <3>3 DEF TurnSound, Open, Carrying
    <3>5. Carried(Row(c), t)
      BY <3>2, <3>4 DEF Carried, Open, Finished
    <3> QED BY <3>2, <3>3, <3>5, RewriteHistory DEF TurnInv
  <2>2. CASE Rejects(c) \/ Applies(c)
    <3>1. c \in ActiveCycles /\ Row(c).status = "decided"
      BY <2>2 DEF Rejects, Applies, Judges
    <3>2. Row(c) \in TurnRecords /\ Latest(c) \in DOMAIN turn[c] /\ TurnSound(Row(c))
      BY <3>1, LatestRow DEF TurnInv
    <3>3. PICK s \in {"applied", "rejected"} :
              \/ turn' = Put(c, Latest(c), [Row(c) EXCEPT !.status = s])
              \/ turn' = [Put(c, Latest(c), [Row(c) EXCEPT !.status = s]) EXCEPT
                             ![c] = Append(@, NewTurn)]
      BY <2>2 DEF Rejects, Applies, AppliedTurns
    <3> DEFINE t  == [Row(c) EXCEPT !.status = s]
               tn == Put(c, Latest(c), t)
    <3>4. /\ t \in TurnRecords /\ t.context = Row(c).context
          /\ t.decision = Row(c).decision /\ t.attempts = Row(c).attempts
      BY <3>1, <3>2, JudgedSound
    <3>5. Carried(Row(c), t)
      BY <3>1, <3>4 DEF Carried, Finished
    <3>6. turn' = tn \/ turn' = [tn EXCEPT ![c] = Append(tn[c], NewTurn)]
      BY <3>3
    <3> HIDE DEF t
    <3>7. /\ o \in DOMAIN tn[b] /\ Carried(turn[b][o], tn[b][o])
          /\ tn \in [Cycles -> Seq(TurnRecords)]
      BY <3>1, <3>2, <3>4, <3>5, RewriteHistory, PutType DEF TurnInv, TypeInv
    <3> HIDE DEF tn
    <3>8. CASE turn' = [tn EXCEPT ![c] = Append(tn[c], NewTurn)]
      <4>1. o \in DOMAIN turn'[b] /\ turn'[b][o] = tn[b][o]
        BY <3>7, <3>8, NewTurnType
      <4> QED BY <3>7, <4>1
    <3> QED BY <3>6, <3>7, <3>8
  <2>3. CASE \E batch \in SUBSET Wakes : Claims(c, batch)
    <3>1. turn' = [turn EXCEPT ![c] = <<NewTurn>>] /\ cycle[c].status = "none"
      BY <2>3 DEF Claims, NextCycle
    <3>2. turn[c] \in Seq(TurnRecords) /\ Len(turn[c]) = 0
      BY <3>1 DEF TurnInv, TypeInv, TypeOK, Unstarted
    <3>3. b # c
      BY <3>2
    <3>4. turn'[b] = turn[b]
      BY <3>1, <3>3 DEF TurnInv, TypeInv, TypeOK
    <3> QED BY <3>4 DEF Carried
  <2> QED BY <1>2, <2>1, <2>2, <2>3 DEF Shape
<1> QED BY <1>1, <1>2, StepShape DEF TurnInv

\* Between two transactions of run_once nobody else touches the cycle, turn or
\* attempt the owner of the session lock remembers (runtime/cognition.py, the
\* loop of run_once).
THEOREM MemoryStaysCurrent == Spec => []MemoryIsCurrent
<1>1. TurnInv => MemoryIsCurrent
  BY DEF TurnInv, MemorySound, MemoryIsCurrent, Inside, Open
<1> QED BY <1>1, TurnInvariant, PTL

\* A committed decision and a finished turn are for good (record_result,
\* apply_decision and fail_turn of stores/cognition.py).
THEOREM DecisionsAreForGood == Spec => DecisionNeverResampled
<1>1. ASSUME TurnInv, [Next]_vars
      PROVE  \A c \in Cycles : \A o \in DOMAIN turn[c] :
                /\ o \in DOMAIN turn'[c]
                /\ turn[c][o].decision # NoDecision =>
                      /\ turn'[c][o].decision = turn[c][o].decision
                      /\ turn'[c][o].attempts = turn[c][o].attempts
                /\ turn[c][o].status \in Finished => Same(c, o)
  <2> SUFFICES ASSUME NEW b \in Cycles, NEW o \in DOMAIN turn[b]
               PROVE  /\ o \in DOMAIN turn'[b]
                      /\ turn[b][o].decision # NoDecision =>
                            /\ turn'[b][o].decision = turn[b][o].decision
                            /\ turn'[b][o].attempts = turn[b][o].attempts
                      /\ turn[b][o].status \in Finished => Same(b, o)
    OBVIOUS
  <2> QED BY <1>1, TurnHistory DEF Carried, Same
<1> QED BY <1>1, TurnInvariant, PTL DEF Spec, DecisionNeverResampled

\* A frozen request survives retries, failovers and configuration changes
\* (freeze_context of stores/cognition.py).
THEOREM FrozenForGood == Spec => ContextStaysFrozen
<1>1. ASSUME TurnInv, [Next]_vars
      PROVE  \A c \in Cycles : \A o \in DOMAIN turn[c] :
                turn[c][o].context # NoConfig => turn'[c][o].context = turn[c][o].context
  BY <1>1, TurnHistory DEF Carried
<1> QED BY <1>1, TurnInvariant, PTL DEF Spec, ContextStaysFrozen

-----------------------------------------------------------------------------
(* Operations take effect once *)

\* An operation is recorded for the applied turn that carries it and for no
\* other, and the attention row counts the applied turns.
Carries(c, o) ==
    {op \in Ops : applied[op].cycle = c /\ applied[op].ordinal = o} =
        IF turn[c][o].status = "applied" THEN Operations(turn[c][o].decision) ELSE {}

EffectsSound ==
    /\ \A c \in Cycles : \A o \in DOMAIN turn[c] : Carries(c, o)
    /\ \A op \in Ops : applied[op] # NotApplied =>
           applied[op].ordinal \in DOMAIN turn[applied[op].cycle]
    /\ IsFiniteSet(Enacted)
    /\ attention.revision = IF Enacted = {} THEN 0 ELSE 1 + Cardinality(Enacted)

\* Where turns stay applied with the decision they had, and no other is.
SameApplied(c, o) ==
    IF o \in DOMAIN turn[c]
    THEN /\ turn'[c][o].status = "applied" <=> turn[c][o].status = "applied"
         /\ turn'[c][o].status = "applied" => turn'[c][o].decision = turn[c][o].decision
    ELSE turn'[c][o].status # "applied"

LEMMA NoOperationElsewhere ==
    ASSUME TypeOK, EffectsSound, NEW c \in Cycles, NEW o, o \notin DOMAIN turn[c]
    PROVE  {op \in Ops : applied[op].cycle = c /\ applied[op].ordinal = o} = {}
<1>1. c # NoCycle
  BY BoundAssumption DEF Cycles, NoCycle
<1>2. \A op \in Ops : applied[op].cycle = c => applied[op] # NotApplied
  BY <1>1 DEF NotApplied
<1> QED BY <1>2 DEF EffectsSound

LEMMA EffectsKept ==
    ASSUME TypeOK, EffectsSound, UNCHANGED <<applied, attention>>,
           \A b \in Cycles : DOMAIN turn[b] \subseteq DOMAIN turn'[b],
           \A b \in Cycles : \A o \in DOMAIN turn'[b] : SameApplied(b, o)
    PROVE  EffectsSound'
<1>1. Enacted' = Enacted
  BY DEF Enacted, SameApplied
<1>2. ASSUME NEW c \in Cycles, NEW o \in DOMAIN turn'[c] PROVE Carries(c, o)'
  <2>1. CASE o \in DOMAIN turn[c]
    BY <2>1, <1>2 DEF EffectsSound, Carries, SameApplied
  <2>2. CASE o \notin DOMAIN turn[c]
    BY <2>2, <1>2, NoOperationElsewhere DEF Carries, SameApplied
  <2> QED BY <2>1, <2>2
<1>3. ASSUME NEW op \in Ops, applied'[op] # NotApplied
      PROVE  applied'[op].ordinal \in DOMAIN turn'[applied'[op].cycle]
  <2>1. applied[op].cycle \in Cycles
    BY <1>3 DEF TypeOK, AppliedRecords
  <2> QED BY <1>3, <2>1 DEF EffectsSound
<1> QED BY <1>1, <1>2, <1>3 DEF EffectsSound

\* The operations of a decision are operations.
LEMMA OperationsType ==
    ASSUME NEW d \in Decisions PROVE Operations(d) \in SUBSET Ops
BY DecisionAssumption DEF DecisionRecords, WakeRequests, Operations, Requested

\* Applying the latest turn of c records its operations, all of them unused.
LEMMA EffectsApplied ==
    ASSUME TypeOK, EffectsSound, NEW c \in Cycles, NEW l \in DOMAIN turn[c],
           turn[c][l].status # "applied", NEW d \in Decisions, ~Rejected(d),
           l \in Nat \ {0},
           applied' = WithOperations(c, l, d), attention' = Attended(c),
           \A b \in Cycles : DOMAIN turn[b] \subseteq DOMAIN turn'[b],
           turn'[c][l].status = "applied" /\ turn'[c][l].decision = d,
           \A b \in Cycles : \A o \in DOMAIN turn'[b] :
               b # c \/ o # l => SameApplied(b, o)
    PROVE  EffectsSound'
<1>1. Operations(d) \in SUBSET Ops /\ \A op \in Operations(d) : applied[op] = NotApplied
  BY OperationsType DEF Rejected, Reused
<1>2. \A op \in Ops : IF op \in Operations(d)
                      THEN applied'[op].cycle = c /\ applied'[op].ordinal = l
                      ELSE applied'[op] = applied[op]
  BY DEF WithOperations, Operations
<1>3. \A op \in Ops : op \in Operations(d) =>
          applied[op].cycle = NoCycle /\ NoCycle \notin Cycles
  BY <1>1, BoundAssumption DEF NotApplied, Cycles, NoCycle
<1>4. ASSUME NEW b \in Cycles, NEW o \in DOMAIN turn'[b] PROVE Carries(b, o)'
  <2> DEFINE old == {op \in Ops : applied[op].cycle = b /\ applied[op].ordinal = o}
             new == {op \in Ops : applied'[op].cycle = b /\ applied'[op].ordinal = o}
  <2>1. CASE b = c /\ o = l
    <3>1. old = {}
      BY <2>1 DEF EffectsSound, Carries
    <3>2. new = Operations(d)
      BY <1>1, <1>2, <2>1, <3>1
    <3> QED BY <2>1, <3>2 DEF Carries
  <2>2. CASE ~ (b = c /\ o = l)
    <3>1. new = old
      BY <1>2, <1>3, <2>2
    <3>2. SameApplied(b, o)
      BY <1>4, <2>2
    <3>3. CASE o \in DOMAIN turn[b]
      <4>1. old = IF turn[b][o].status = "applied" THEN Operations(turn[b][o].decision) ELSE {}
        BY <3>3, <1>4 DEF EffectsSound, Carries
      <4> HIDE DEF old
      <4>2. new = IF turn'[b][o].status = "applied" THEN Operations(turn'[b][o].decision) ELSE {}
        BY <3>1, <3>2, <3>3, <4>1 DEF SameApplied
      <4> QED BY <4>2 DEF Carries
    <3>4. CASE o \notin DOMAIN turn[b]
      <4>1. old = {}
        BY <3>4, <1>4, NoOperationElsewhere
      <4> QED BY <3>1, <3>2, <3>4, <4>1 DEF SameApplied, Carries
    <3> QED BY <3>3, <3>4
  <2> QED BY <2>1, <2>2
<1>5. ASSUME NEW op \in Ops, applied'[op] # NotApplied
      PROVE  applied'[op].ordinal \in DOMAIN turn'[applied'[op].cycle]
  <2>1. CASE op \in Operations(d)
    BY <1>2, <2>1
  <2>2. CASE op \notin Operations(d)
    <3>1. applied'[op] = applied[op]
      BY <1>2, <2>2
    <3>2. applied[op].cycle \in Cycles
      BY <3>1, <1>5 DEF TypeOK, AppliedRecords
    <3> QED BY <1>5, <3>1, <3>2 DEF EffectsSound
  <2> QED BY <2>1, <2>2
<1>6. Enacted' = Enacted \cup {<<c, l>>} /\ <<c, l>> \notin Enacted
  BY DEF Enacted, SameApplied
<1>7. IsFiniteSet(Enacted') /\ Cardinality(Enacted') = Cardinality(Enacted) + 1
      /\ Cardinality(Enacted) \in Nat /\ Enacted' # {}
      /\ (Enacted = {} => Cardinality(Enacted) = 0)
  BY <1>6, FS_AddElement, FS_CardinalityType, FS_EmptySet DEF EffectsSound
<1>8. attention.revision \in Nat
  BY DEF TypeOK, AttentionRecords
<1>9. attention'.revision = 1 + Cardinality(Enacted')
  <2>1. attention'.revision = Greater(1, attention.revision) + 1
    BY DEF Attended
  <2>2. CASE Enacted = {}
    BY <1>7, <2>1, <2>2 DEF EffectsSound, Greater
  <2>3. CASE Enacted # {}
    BY <1>7, <2>1, <2>3 DEF EffectsSound, Greater
  <2> QED BY <2>2, <2>3
<1> QED BY <1>4, <1>5, <1>7, <1>9 DEF EffectsSound

\* A rewritten turn that is not applied and was not leaves the effects alone.
LEMMA EffectsRewritten ==
    ASSUME TurnInv, EffectsSound, NEW c \in ActiveCycles, NEW t \in TurnRecords,
           t.status # "applied", turn' = Put(c, Latest(c), t),
           UNCHANGED <<applied, attention>>
    PROVE  EffectsSound'
<1>1. /\ c \in Cycles /\ Latest(c) \in DOMAIN turn[c] /\ TypeOK
      /\ turn[c][Latest(c)].status # "applied"
  BY LatestRow DEF TurnInv, TypeInv, Row, Unfinished
<1>2. /\ \A b \in Cycles : DOMAIN turn'[b] = DOMAIN turn[b]
      /\ \A b \in Cycles : \A o \in DOMAIN turn[b] :
             turn'[b][o] = IF b = c /\ o = Latest(c) THEN t ELSE turn[b][o]
  BY <1>1, PutType
<1>3. \A b \in Cycles : \A o \in DOMAIN turn'[b] : SameApplied(b, o)
  BY <1>1, <1>2 DEF SameApplied
<1> QED BY <1>1, <1>2, <1>3, EffectsKept

LEMMA EffectsStep ==
    ASSUME TurnInv, EffectsSound, [Next]_vars
    PROVE  EffectsSound'
<1>1. CASE Quiet
  <2>1. \A b \in Cycles : \A o \in DOMAIN turn'[b] : SameApplied(b, o)
    BY <1>1 DEF Quiet, SameApplied
  <2> QED BY <1>1, <2>1, EffectsKept DEF Quiet, TurnInv, TypeInv
<1>2. ASSUME NEW c \in Cycles, Shape(c) PROVE EffectsSound'
  <2>1. CASE \E t \in TurnRecords : GoesOn(c, t) \/ Decides(c, t) \/ Fails(c, t)
    <3>1. PICK t \in TurnRecords : GoesOn(c, t) \/ Decides(c, t) \/ Fails(c, t)
      BY <2>1
    <3>2. /\ c \in ActiveCycles /\ turn' = Put(c, Latest(c), t)
          /\ t.status # "applied" /\ UNCHANGED <<applied, attention>>
      BY <3>1 DEF GoesOn, Decides, Fails, Edits, Open
    <3> QED BY <3>2, EffectsRewritten
  <2>2. CASE Rejects(c)
    <3> DEFINE t == [Row(c) EXCEPT !.status = "rejected"]
    <3>1. c \in ActiveCycles /\ Row(c).status = "decided"
      BY <2>2 DEF Rejects, Judges
    <3>2. t \in TurnRecords /\ t.status = "rejected"
      BY <3>1, LatestRow, JudgedSound DEF TurnInv
    <3>3. turn' = Put(c, Latest(c), t) /\ UNCHANGED <<applied, attention>>
      BY <2>2 DEF Rejects
    <3> HIDE DEF t
    <3> QED BY <3>1, <3>2, <3>3, EffectsRewritten
  <2>3. CASE Applies(c)
    <3> DEFINE t  == [Row(c) EXCEPT !.status = "applied"]
               l  == Latest(c)
               d  == Row(c).decision
               tn == Put(c, l, t)
    <3>1. c \in ActiveCycles /\ Row(c).status = "decided" /\ ~Rejected(d)
      BY <2>3 DEF Applies, Judges
    <3>2. /\ Row(c) \in TurnRecords /\ TurnSound(Row(c)) /\ l \in DOMAIN turn[c]
          /\ l \in Nat \ {0} /\ TypeOK /\ turn[c] \in Seq(TurnRecords)
      BY <3>1, LatestRow DEF TurnInv, TypeInv, TypeOK
    <3>3. /\ t \in TurnRecords /\ t.status = "applied" /\ t.decision = d
      BY <3>1, <3>2, JudgedSound
    <3>4. d \in Decisions
      BY <3>1, <3>2 DEF TurnRecords
    <3>5. /\ applied' = WithOperations(c, l, d) /\ attention' = Attended(c)
          /\ turn' = tn \/ turn' = [tn EXCEPT ![c] = Append(tn[c], NewTurn)]
      BY <2>3 DEF Applies, AppliedTurns
    <3>6. Row(c) = turn[c][l]
      BY DEF Row
    <3> HIDE DEF t
    <3>7. /\ tn \in [Cycles -> Seq(TurnRecords)]
          /\ \A b \in Cycles : DOMAIN tn[b] = DOMAIN turn[b] /\ Len(tn[b]) = Len(turn[b])
          /\ \A b \in Cycles : \A o \in DOMAIN turn[b] :
                 tn[b][o] = IF b = c /\ o = l THEN t ELSE turn[b][o]
      BY <3>2, <3>3, PutType
    <3> HIDE DEF tn
    <3>8. /\ \A b \in Cycles : DOMAIN tn[b] \subseteq DOMAIN turn'[b]
          /\ \A b \in Cycles : \A o \in DOMAIN turn'[b] :
                 IF o \in DOMAIN tn[b] THEN turn'[b][o] = tn[b][o]
                 ELSE turn'[b][o].status # "applied"
      <4>1. CASE turn' = tn
        BY <4>1
      <4>2. CASE turn' = [tn EXCEPT ![c] = Append(tn[c], NewTurn)]
        <5>1. tn[c] \in Seq(TurnRecords) /\ NewTurn.status # "applied"
          BY <3>7 DEF NewTurn
        <5>2. turn'[c] = Append(tn[c], NewTurn) /\ \A b \in Cycles : b # c => turn'[b] = tn[b]
          BY <3>7, <4>2
        <5>3. /\ DOMAIN tn[c] \subseteq DOMAIN turn'[c]
              /\ \A o \in DOMAIN turn'[c] :
                     IF o \in DOMAIN tn[c] THEN turn'[c][o] = tn[c][o]
                     ELSE turn'[c][o] = NewTurn
          BY <5>1, <5>2, NewTurnType
        <5> QED BY <5>1, <5>2, <5>3
      <4> QED BY <3>5, <4>1, <4>2
    <3>9. turn'[c][l].status = "applied" /\ turn'[c][l].decision = d
      BY <3>2, <3>3, <3>7, <3>8
    <3>10. \A b \in Cycles : DOMAIN turn[b] \subseteq DOMAIN turn'[b]
      BY <3>7, <3>8
    <3>11. \A b \in Cycles : \A o \in DOMAIN turn'[b] : b # c \/ o # l => SameApplied(b, o)
      BY <3>7, <3>8 DEF SameApplied
    <3>12. turn[c][l].status # "applied"
      BY <3>1, <3>6
    <3> HIDE DEF l, d
    <3> QED BY <3>1, <3>2, <3>4, <3>5, <3>9, <3>10, <3>11, <3>12, EffectsApplied
  <2>4. CASE \E batch \in SUBSET Wakes : Claims(c, batch)
    <3>1. /\ turn' = [turn EXCEPT ![c] = <<NewTurn>>] /\ cycle[c].status = "none"
          /\ UNCHANGED <<applied, attention>>
      BY <2>4 DEF Claims, NextCycle
    <3>2. TypeOK /\ turn[c] \in Seq(TurnRecords) /\ Len(turn[c]) = 0
      BY <3>1 DEF TurnInv, TypeInv, TypeOK, Unstarted
    <3>3. /\ DOMAIN turn[c] = {} /\ turn'[c] = <<NewTurn>>
          /\ \A b \in Cycles : b # c => turn'[b] = turn[b]
      BY <3>1, <3>2 DEF TypeOK
    <3>4. \A b \in Cycles : \A o \in DOMAIN turn'[b] : SameApplied(b, o)
      BY <3>3 DEF SameApplied, NewTurn
    <3>5. \A b \in Cycles : DOMAIN turn[b] \subseteq DOMAIN turn'[b]
      BY <3>3
    <3> QED BY <3>1, <3>2, <3>4, <3>5, EffectsKept
  <2> QED BY <1>2, <2>1, <2>2, <2>3, <2>4 DEF Shape
<1> QED BY <1>1, <1>2, StepShape DEF TurnInv

LEMMA InitEffects == Init => EffectsSound
<1> SUFFICES ASSUME Init PROVE EffectsSound
  OBVIOUS
<1>1. \A c \in Cycles : DOMAIN turn[c] = {}
  <2>1. turn = [b \in Cycles |-> <<>>]
    BY DEF Init
  <2> QED BY <2>1
<1>2. Enacted = {}
  BY <1>1 DEF Enacted
<1>3. attention.revision = 0 /\ \A op \in Ops : applied[op] = NotApplied
  BY DEF Init
<1> QED BY <1>1, <1>2, <1>3, FS_EmptySet DEF EffectsSound

\* Application is atomic and happens once (apply_decision of
\* stores/cognition.py): an operation is recorded for the applied turn whose
\* decision carries it and for no other, and the attention row is advanced once
\* for each applied turn, whatever crashed, failed over or was retried.
THEOREM AppliedOnce == Spec => []AppliedExactlyOnce
<1>1. TurnInv /\ EffectsSound /\ [Next]_vars => EffectsSound'
  BY EffectsStep
<1>2. EffectsSound => AppliedExactlyOnce
  BY DEF EffectsSound, Carries, AppliedExactlyOnce
<1> QED BY <1>1, <1>2, InitEffects, TurnInvariant, PTL DEF Spec

-----------------------------------------------------------------------------
(* The durable cycle implements the decision ledger *)

LedgerRow(t) == [phase |-> PhaseOf(t.status), decision |-> t.decision]

View(tn) == [b \in Cycles |-> [o \in DOMAIN tn[b] |-> LedgerRow(tn[b][o])]]

\* What the ledger shows of cycle c.
LEMMA LedgerRows ==
    ASSUME TypeOK, NEW c \in Cycles
    PROVE  /\ DOMAIN LedgerOf[c] = DOMAIN turn[c]
           /\ Len(LedgerOf[c]) = Len(turn[c])
           /\ DOMAIN turn[c] = 1 .. Len(turn[c]) /\ Len(turn[c]) \in Nat
           /\ \A o \in DOMAIN turn[c] : LedgerOf[c][o] = LedgerRow(turn[c][o])
<1>1. turn[c] \in Seq(TurnRecords)
  BY DEF TypeOK
<1>2. LedgerOf[c] = [o \in DOMAIN turn[c] |-> LedgerRow(turn[c][o])]
  BY DEF LedgerOf, LedgerRow
<1> HIDE DEF LedgerRow
<1>3. LedgerOf[c] = [o \in 1 .. Len(turn[c]) |-> LedgerRow(turn[c][o])]
  BY <1>1, <1>2
<1>4. Len([o \in 1 .. Len(turn[c]) |-> LedgerRow(turn[c][o])]) = Len(turn[c])
  BY <1>1
<1> QED BY <1>1, <1>3, <1>4

LEMMA LedgerLive ==
    ASSUME TurnInv, NEW c \in Cycles
    PROVE  /\ Ledger!Live(c) <=> c \in ActiveCycles
           /\ c \in ActiveCycles => Ledger!Last(c) = LedgerRow(Row(c))
<1>1. TypeOK /\ turn[c] \in Seq(TurnRecords) /\ TurnsSound(c)
  BY DEF TurnInv, TypeInv, TypeOK, CyclesSound
<1>2. CASE c \in ActiveCycles
  <2>1. Latest(c) \in DOMAIN turn[c] /\ Row(c).status \in Unfinished
    BY <1>2, LatestRow DEF TurnInv
  <2>2. LedgerOf[c][Len(LedgerOf[c])] = LedgerRow(Row(c)) /\ LedgerOf[c] # <<>>
    BY <1>1, <2>1, LedgerRows DEF Row, Latest
  <2>3. LedgerRow(Row(c)).phase \in {"open", "decided"}
    BY <2>1 DEF LedgerRow, PhaseOf, Unfinished
  <2> QED BY <1>2, <2>2, <2>3 DEF Ledger!Live, Ledger!Last
<1>3. CASE c \notin ActiveCycles
  <2>1. CASE Len(turn[c]) = 0
    <3>1. LedgerOf[c] = <<>>
      BY <1>1, <2>1, LedgerRows
    <3> QED BY <1>3, <3>1 DEF Ledger!Live
  <2>2. CASE Len(turn[c]) # 0
    <3>1. Latest(c) \in DOMAIN turn[c]
      BY <1>1, <2>2 DEF Latest
    <3>2. turn[c][Latest(c)].status \notin Unfinished
      BY <1>1, <1>3, <3>1 DEF TurnsSound, ActiveCycles
    <3>3. LedgerOf[c][Len(LedgerOf[c])] = LedgerRow(turn[c][Latest(c)])
      BY <1>1, <3>1, LedgerRows DEF Latest
    <3>4. LedgerRow(turn[c][Latest(c)]).phase \notin {"open", "decided"}
      <4>1. turn[c][Latest(c)].status \in Finished
        BY <1>1, <3>1, <3>2 DEF TurnRecords
      <4> QED BY <4>1 DEF LedgerRow, PhaseOf, Finished
    <3> QED BY <1>3, <3>3, <3>4 DEF Ledger!Live
  <2> QED BY <2>1, <2>2
<1> QED BY <1>2, <1>3

\* Rewriting the latest turn rewrites the last row of the ledger.
LEMMA ViewRewritten ==
    ASSUME TurnInv, NEW c \in ActiveCycles, NEW t \in TurnRecords
    PROVE  View(Put(c, Latest(c), t)) =
               [LedgerOf EXCEPT ![c] = Ledger!Relast(LedgerOf[c], LedgerRow(t))]
<1> DEFINE tn == Put(c, Latest(c), t)
<1>1. TypeOK /\ c \in Cycles /\ Latest(c) \in DOMAIN turn[c]
  BY LatestRow DEF TurnInv, TypeInv
<1>2. /\ \A b \in Cycles : DOMAIN tn[b] = DOMAIN turn[b]
      /\ \A b \in Cycles : \A o \in DOMAIN turn[b] :
             tn[b][o] = IF b = c /\ o = Latest(c) THEN t ELSE turn[b][o]
  BY <1>1, PutType
<1> HIDE DEF tn
<1>3. View(tn) = [b \in Cycles |-> [o \in DOMAIN tn[b] |-> LedgerRow(tn[b][o])]]
  BY DEF View
<1>4. LedgerOf = [b \in Cycles |-> [o \in DOMAIN turn[b] |-> LedgerRow(turn[b][o])]]
  BY DEF LedgerOf, LedgerRow
<1> HIDE DEF LedgerRow
<1>5. ASSUME NEW b \in Cycles, b # c PROVE View(tn)[b] = LedgerOf[b]
  BY <1>2, <1>3, <1>4, <1>5
<1>6. View(tn)[c] = Ledger!Relast(LedgerOf[c], LedgerRow(t))
  <2>1. Len(LedgerOf[c]) = Latest(c) /\ DOMAIN LedgerOf[c] = DOMAIN turn[c]
    BY <1>1, LedgerRows DEF Latest
  <2>2. Ledger!Relast(LedgerOf[c], LedgerRow(t)) =
            [o \in DOMAIN turn[c] |-> IF o = Latest(c) THEN LedgerRow(t) ELSE LedgerOf[c][o]]
    BY <2>1 DEF Ledger!Relast
  <2>3. View(tn)[c] = [o \in DOMAIN turn[c] |-> LedgerRow(tn[c][o])]
    BY <1>1, <1>2, <1>3
  <2>4. \A o \in DOMAIN turn[c] :
            LedgerRow(tn[c][o]) = IF o = Latest(c) THEN LedgerRow(t) ELSE LedgerOf[c][o]
    BY <1>1, <1>2, LedgerRows
  <2> QED BY <2>2, <2>3, <2>4
<1>7. View(tn) = [LedgerOf EXCEPT ![c] = Ledger!Relast(LedgerOf[c], LedgerRow(t))]
  BY <1>3, <1>4, <1>5, <1>6
<1> QED BY <1>7 DEF tn

LEMMA LedgerRewritten ==
    ASSUME TurnInv, NEW c \in ActiveCycles, NEW t \in TurnRecords,
           turn' = Put(c, Latest(c), t)
    PROVE  LedgerOf' = [LedgerOf EXCEPT ![c] = Ledger!Relast(LedgerOf[c], LedgerRow(t))]
<1>1. LedgerOf' = View(turn')
  BY DEF LedgerOf, View, LedgerRow
<1> QED BY <1>1, ViewRewritten

LEMMA ViewAppended ==
    ASSUME NEW tn \in [Cycles -> Seq(TurnRecords)], NEW c \in Cycles
    PROVE  View([tn EXCEPT ![c] = Append(tn[c], NewTurn)]) =
               [View(tn) EXCEPT ![c] = Append(View(tn)[c], Ledger!OpenTurn)]
<1> DEFINE n  == Len(tn[c])
           up == Append(tn[c], NewTurn)
           tm == [tn EXCEPT ![c] = up]
           v  == View(tn)
<1>1. /\ n \in Nat /\ DOMAIN tn[c] = 1 .. n /\ DOMAIN up = 1 .. n + 1
      /\ \A o \in 1 .. n : up[o] = tn[c][o]
      /\ up[n + 1] = NewTurn
  <2>1. tn[c] \in Seq(TurnRecords)
    OBVIOUS
  <2> QED BY <2>1, NewTurnType
<1>2. LedgerRow(NewTurn) = Ledger!OpenTurn
  BY DEF LedgerRow, NewTurn, PhaseOf, Ledger!OpenTurn
<1> HIDE DEF up
<1>3. View(tm) = [b \in Cycles |-> [o \in DOMAIN tm[b] |-> LedgerRow(tm[b][o])]]
  BY DEF View
<1>4. v = [b \in Cycles |-> [o \in DOMAIN tn[b] |-> LedgerRow(tn[b][o])]]
  BY DEF View
<1> HIDE DEF LedgerRow, v
<1>5. ASSUME NEW b \in Cycles, b # c PROVE View(tm)[b] = v[b]
  BY <1>3, <1>4, <1>5
<1>6. View(tm)[c] = [o \in 1 .. n + 1 |-> LedgerRow(up[o])]
  BY <1>1, <1>3
<1>7. v[c] = [o \in 1 .. n |-> LedgerRow(tn[c][o])]
  BY <1>1, <1>4
<1> HIDE DEF n
<1>8. Append(v[c], Ledger!OpenTurn) = [o \in 1 .. n + 1 |-> LedgerRow(up[o])]
  <2>1. Len(v[c]) = n
    BY <1>1, <1>7
  <2>2. Append(v[c], Ledger!OpenTurn) =
            [o \in 1 .. n + 1 |-> IF o = n + 1 THEN Ledger!OpenTurn ELSE v[c][o]]
    BY <1>1, <1>7, <2>1
  <2>3. \A o \in 1 .. n + 1 : LedgerRow(up[o]) = IF o = n + 1 THEN Ledger!OpenTurn ELSE v[c][o]
    BY <1>1, <1>2, <1>7
  <2> QED BY <2>2, <2>3
<1>9. View(tm) = [v EXCEPT ![c] = Append(v[c], Ledger!OpenTurn)]
  BY <1>3, <1>4, <1>5, <1>6, <1>8
<1> QED BY <1>9 DEF v, up

\* A phase that does not change what the ledger shows is a stutter.
LEMMA LedgerStands ==
    ASSUME TurnInv, NEW c \in ActiveCycles, NEW t \in TurnRecords,
           turn' = Put(c, Latest(c), t), LedgerRow(t) = LedgerRow(Row(c)),
           UNCHANGED applied
    PROVE  UNCHANGED <<LedgerOf, EffectOf>>
<1>1. TypeOK /\ c \in Cycles /\ Latest(c) \in DOMAIN turn[c]
  BY LatestRow DEF TurnInv, TypeInv
<1>2. /\ \A b \in Cycles : DOMAIN turn'[b] = DOMAIN turn[b]
      /\ \A b \in Cycles : \A o \in DOMAIN turn[b] :
             turn'[b][o] = IF b = c /\ o = Latest(c) THEN t ELSE turn[b][o]
  BY <1>1, PutType
<1>3. \A b \in Cycles : \A o \in DOMAIN turn[b] : LedgerRow(turn'[b][o]) = LedgerRow(turn[b][o])
  BY <1>2 DEF Row
<1>4. LedgerOf' = [b \in Cycles |-> [o \in DOMAIN turn'[b] |-> LedgerRow(turn'[b][o])]]
  BY DEF LedgerOf, LedgerRow
<1>5. LedgerOf = [b \in Cycles |-> [o \in DOMAIN turn[b] |-> LedgerRow(turn[b][o])]]
  BY DEF LedgerOf, LedgerRow
<1> HIDE DEF LedgerRow
<1>6. \A b \in Cycles : [o \in DOMAIN turn'[b] |-> LedgerRow(turn'[b][o])]
                            = [o \in DOMAIN turn[b] |-> LedgerRow(turn[b][o])]
  BY <1>2, <1>3
<1>7. LedgerOf' = LedgerOf
  BY <1>4, <1>5, <1>6
<1> QED BY <1>7 DEF EffectOf

\* Open turns carry no decision.
LEMMA OpenRow ==
    ASSUME NEW t, TurnSound(t), t.status \in Open
    PROVE  LedgerRow(t) = Ledger!OpenTurn
BY DEF TurnSound, Open, Carrying, LedgerRow, PhaseOf, Ledger!OpenTurn

LEMMA GoesOnLedger ==
    ASSUME TurnInv, NEW c \in ActiveCycles, NEW t \in TurnRecords, GoesOn(c, t)
    PROVE  UNCHANGED <<LedgerOf, EffectOf>>
<1>1. TurnSound(Row(c)) /\ Row(c).status \in Open /\ TurnSound(t) /\ t.status \in Open
      /\ turn' = Put(c, Latest(c), t) /\ UNCHANGED applied
  BY LatestRow DEF TurnInv, GoesOn, Edits
<1> QED BY <1>1, OpenRow, LedgerStands

LEMMA CommitLedger ==
    ASSUME TurnInv, NEW c \in Cycles, NEW t \in TurnRecords, Decides(c, t)
    PROVE  Ledger!Commit(c, t.decision) /\ t.decision \in Decisions
<1>1. /\ c \in ActiveCycles /\ TurnSound(Row(c)) /\ Row(c).status \in Open
      /\ t.status = "decided" /\ turn' = Put(c, Latest(c), t) /\ UNCHANGED applied
      /\ t.decision \in Decisions
      /\ \A b \in Cycles : \A o \in DOMAIN turn[b] : turn[b][o].decision # t.decision
  BY LatestRow DEF TurnInv, Decides, Edits
<1>2. Ledger!Live(c) /\ Ledger!Last(c).phase = "open"
  BY <1>1, LedgerLive DEF LedgerRow, PhaseOf, Open
<1>3. \A b \in Cycles : \A o \in DOMAIN LedgerOf[b] : LedgerOf[b][o].decision # t.decision
  <2> SUFFICES ASSUME NEW b \in Cycles, NEW o \in DOMAIN LedgerOf[b]
               PROVE  LedgerOf[b][o].decision # t.decision
    OBVIOUS
  <2>1. o \in DOMAIN turn[b] /\ LedgerOf[b][o] = LedgerRow(turn[b][o])
    BY LedgerRows DEF TurnInv, TypeInv
  <2> QED BY <1>1, <2>1 DEF LedgerRow
<1>4. LedgerOf' = [LedgerOf EXCEPT ![c] = Ledger!Relast(LedgerOf[c], LedgerRow(t))]
  BY <1>1, LedgerRewritten
<1>5. LedgerRow(t) = [phase |-> "decided", decision |-> t.decision]
  BY <1>1 DEF LedgerRow, PhaseOf
<1>6. UNCHANGED EffectOf
  BY <1>1 DEF EffectOf
<1> QED BY <1>1, <1>2, <1>3, <1>4, <1>5, <1>6 DEF Ledger!Commit

\* Giving up, refusing and enacting close the last row with its decision.
LEMMA ClosedRow ==
    ASSUME TurnInv, NEW c \in ActiveCycles, NEW t \in TurnRecords,
           turn' = Put(c, Latest(c), t), t.decision = Row(c).decision, t.status \in Finished
    PROVE  LedgerOf' = [LedgerOf EXCEPT ![c] = Ledger!Closed(LedgerOf[c], t.status)]
<1>1. c \in Cycles
  BY DEF ActiveCycles
<1>2. LedgerOf[c][Len(LedgerOf[c])] = LedgerRow(Row(c))
  BY <1>1, LedgerLive DEF Ledger!Last
<1>3. LedgerRow(t) = [phase |-> t.status, decision |-> LedgerOf[c][Len(LedgerOf[c])].decision]
  BY <1>2 DEF LedgerRow, PhaseOf, Finished
<1>4. LedgerOf' = [LedgerOf EXCEPT ![c] = Ledger!Relast(LedgerOf[c], LedgerRow(t))]
  BY LedgerRewritten
<1> QED BY <1>3, <1>4 DEF Ledger!Closed

LEMMA GiveUpLedger ==
    ASSUME TurnInv, NEW c \in Cycles, NEW t \in TurnRecords, Fails(c, t)
    PROVE  Ledger!GiveUp(c)
<1>1. /\ c \in ActiveCycles /\ TurnSound(Row(c)) /\ Row(c).status \in Open
      /\ t.status = "failed" /\ turn' = Put(c, Latest(c), t) /\ UNCHANGED applied
      /\ TurnSound(t)
  BY LatestRow DEF TurnInv, Fails, Edits
<1>2. Ledger!Live(c) /\ Ledger!Last(c).phase = "open"
  BY <1>1, LedgerLive DEF LedgerRow, PhaseOf, Open
<1>3. t.decision = Row(c).decision
  BY <1>1 DEF TurnSound, Open, Carrying
<1>4. LedgerOf' = [LedgerOf EXCEPT ![c] = Ledger!Closed(LedgerOf[c], "failed")]
  BY <1>1, <1>3, ClosedRow DEF Finished
<1> QED BY <1>1, <1>2, <1>4 DEF Ledger!GiveUp, EffectOf

LEMMA RefuseLedger ==
    ASSUME TurnInv, NEW c \in Cycles, Rejects(c)
    PROVE  Ledger!Refuse(c)
<1> DEFINE t == [Row(c) EXCEPT !.status = "rejected"]
<1>1. /\ c \in ActiveCycles /\ Row(c) \in TurnRecords /\ TurnSound(Row(c))
      /\ Row(c).status = "decided" /\ turn' = Put(c, Latest(c), t) /\ UNCHANGED applied
  BY LatestRow DEF TurnInv, Rejects, Judges
<1>2. Ledger!Live(c) /\ Ledger!Last(c).phase = "decided"
  BY <1>1, LedgerLive DEF LedgerRow, PhaseOf
<1>3. t \in TurnRecords /\ t.decision = Row(c).decision /\ t.status = "rejected"
  BY <1>1, JudgedSound
<1> HIDE DEF t
<1>4. LedgerOf' = [LedgerOf EXCEPT ![c] = Ledger!Closed(LedgerOf[c], "rejected")]
  BY <1>1, <1>3, ClosedRow DEF Finished
<1> QED BY <1>1, <1>2, <1>4 DEF Ledger!Refuse, EffectOf

LEMMA EnactLedger ==
    ASSUME TurnInv, NEW c \in Cycles, Applies(c)
    PROVE  Ledger!Enact(c)
<1> DEFINE t == [Row(c) EXCEPT !.status = "applied"]
           d == Row(c).decision
           l == Latest(c)
<1>1. /\ c \in ActiveCycles /\ Row(c) \in TurnRecords /\ TurnSound(Row(c))
      /\ Row(c).status = "decided" /\ ~Rejected(d)
      /\ applied' = WithOperations(c, l, d)
      /\ l \in DOMAIN turn[c] /\ TypeOK
  BY LatestRow DEF TurnInv, TypeInv, Applies, Judges
<1>2. Ledger!Live(c) /\ Ledger!Last(c) = LedgerRow(Row(c)) /\ LedgerRow(Row(c)).phase = "decided"
      /\ LedgerRow(Row(c)).decision = d
  BY <1>1, LedgerLive DEF LedgerRow, PhaseOf
<1>3. t \in TurnRecords /\ t.decision = Row(c).decision /\ t.status = "applied"
  BY <1>1, JudgedSound
<1>4. /\ \/ turn' = Put(c, l, t)
         \/ /\ turn' = [Put(c, l, t) EXCEPT ![c] = Append(Put(c, l, t)[c], NewTurn)]
            /\ d.disposition = "continue"
  BY DEF Applies, AppliedTurns
<1>5. d \in Decisions /\ Operations(d) \in SUBSET Ops
  BY <1>1, OperationsType DEF TurnRecords
<1>6. \A op \in Operations(d) : EffectOf[op] = Ledger!Nowhere
  <2>1. \A op \in Operations(d) : applied[op] = NotApplied
    BY <1>1 DEF Rejected, Reused
  <2> QED BY <1>5, <2>1 DEF EffectOf, NotApplied, NoCycle, Ledger!Nowhere
<1>7. Len(LedgerOf[c]) = l
  BY <1>1, LedgerRows DEF Latest
<1> HIDE DEF t, d, l
<1>8. EffectOf' = [op \in Ops |-> IF op \in Operations(d) THEN <<c, l>> ELSE EffectOf[op]]
  <2>1. \A op \in Ops : IF op \in Operations(d)
                        THEN applied'[op].cycle = c /\ applied'[op].ordinal = l
                        ELSE applied'[op] = applied[op]
    BY <1>1 DEF WithOperations, Operations
  <2>2. EffectOf' = [op \in Ops |-> <<applied'[op].cycle, applied'[op].ordinal>>]
    BY DEF EffectOf
  <2> QED BY <2>1, <2>2 DEF EffectOf
<1>9. View(Put(c, l, t)) = [LedgerOf EXCEPT ![c] = Ledger!Closed(LedgerOf[c], "applied")]
  <2>1. View(Put(c, l, t)) = [LedgerOf EXCEPT ![c] = Ledger!Relast(LedgerOf[c], LedgerRow(t))]
    BY <1>1, <1>3, ViewRewritten DEF l
  <2>2. LedgerRow(t) = [phase |-> "applied", decision |-> LedgerOf[c][Len(LedgerOf[c])].decision]
    BY <1>2, <1>3 DEF LedgerRow, PhaseOf, Ledger!Last
  <2> QED BY <2>1, <2>2 DEF Ledger!Closed
<1>10. LedgerOf' = View(turn')
  BY DEF LedgerOf, View, LedgerRow
<1>11. \/ LedgerOf' = [LedgerOf EXCEPT ![c] = Ledger!Closed(LedgerOf[c], "applied")]
       \/ /\ WantsMore(d)
          /\ LedgerOf' = [LedgerOf EXCEPT ![c] =
                  Append(Ledger!Closed(LedgerOf[c], "applied"), Ledger!OpenTurn)]
  <2>1. CASE turn' = Put(c, l, t)
    BY <1>9, <1>10, <2>1
  <2>2. CASE /\ turn' = [Put(c, l, t) EXCEPT ![c] = Append(Put(c, l, t)[c], NewTurn)]
             /\ d.disposition = "continue"
    <3> DEFINE tn == Put(c, l, t)
    <3>1. tn \in [Cycles -> Seq(TurnRecords)]
      BY <1>1, <1>3, PutType
    <3>2. View([tn EXCEPT ![c] = Append(tn[c], NewTurn)]) =
              [View(tn) EXCEPT ![c] = Append(View(tn)[c], Ledger!OpenTurn)]
      BY <3>1, ViewAppended
    <3>3. LedgerOf' = [View(tn) EXCEPT ![c] = Append(View(tn)[c], Ledger!OpenTurn)]
      BY <1>10, <2>2, <3>2
    <3>4. c \in DOMAIN LedgerOf
      BY DEF LedgerOf
    <3>5. View(tn)[c] = Ledger!Closed(LedgerOf[c], "applied")
      BY <1>9, <3>4
    <3> HIDE DEF tn
    <3>6. View(tn) = [LedgerOf EXCEPT ![c] = Ledger!Closed(LedgerOf[c], "applied")]
      BY <1>9 DEF tn
    <3>7. LedgerOf' = [LedgerOf EXCEPT ![c] = Append(View(tn)[c], Ledger!OpenTurn)]
      BY <3>3, <3>4, <3>6
    <3> QED BY <2>2, <3>5, <3>7 DEF WantsMore
  <2> QED BY <1>4, <2>1, <2>2
<1> QED BY <1>2, <1>6, <1>7, <1>8, <1>11 DEF Ledger!Enact

LEMMA BeginLedger ==
    ASSUME TurnInv, NEW c \in Cycles, NEW batch, Claims(c, batch)
    PROVE  Ledger!Begin(c)
<1>1. /\ turn' = [turn EXCEPT ![c] = <<NewTurn>>] /\ cycle[c].status = "none"
      /\ UNCHANGED applied /\ ActiveCycles = {}
  BY DEF Claims, NextCycle
<1>2. TypeOK /\ turn[c] \in Seq(TurnRecords) /\ Len(turn[c]) = 0
  BY <1>1 DEF TurnInv, TypeInv, TypeOK, Unstarted
<1>3. \A b \in Cycles : ~Ledger!Live(b)
  BY <1>1, LedgerLive
<1>4. LedgerOf[c] = <<>>
  BY <1>2, LedgerRows
<1>5. LedgerRow(NewTurn) = Ledger!OpenTurn
  BY DEF LedgerRow, NewTurn, PhaseOf, Ledger!OpenTurn
<1>6. LedgerOf' = [b \in Cycles |-> [o \in DOMAIN turn'[b] |-> LedgerRow(turn'[b][o])]]
  BY DEF LedgerOf, LedgerRow
<1>7. LedgerOf = [b \in Cycles |-> [o \in DOMAIN turn[b] |-> LedgerRow(turn[b][o])]]
  BY DEF LedgerOf, LedgerRow
<1> HIDE DEF LedgerRow
<1>8. turn'[c] = <<NewTurn>> /\ \A b \in Cycles : b # c => turn'[b] = turn[b]
  BY <1>1, <1>2 DEF TypeOK
<1>9. LedgerOf'[c] = <<Ledger!OpenTurn>>
  BY <1>5, <1>6, <1>8
<1>10. \A b \in Cycles : b # c => LedgerOf'[b] = LedgerOf[b]
  BY <1>6, <1>7, <1>8
<1>11. LedgerOf' = [LedgerOf EXCEPT ![c] = <<Ledger!OpenTurn>>]
  BY <1>6, <1>7, <1>9, <1>10
<1> QED BY <1>1, <1>3, <1>4, <1>11 DEF Ledger!Begin, EffectOf

LEMMA LedgerStep ==
    ASSUME TurnInv, [Next]_vars
    PROVE  [Ledger!Next]_(Ledger!lvars)
<1>1. CASE Quiet
  BY <1>1 DEF Quiet, Ledger!lvars, LedgerOf, EffectOf
<1>2. ASSUME NEW c \in Cycles, Shape(c) PROVE [Ledger!Next]_(Ledger!lvars)
  <2>1. ASSUME NEW t \in TurnRecords, GoesOn(c, t) PROVE UNCHANGED Ledger!lvars
    BY <2>1, GoesOnLedger DEF GoesOn, Edits, Ledger!lvars
  <2>2. ASSUME NEW t \in TurnRecords, Decides(c, t) PROVE Ledger!Next
    BY <2>2, CommitLedger DEF Ledger!Next
  <2>3. ASSUME NEW t \in TurnRecords, Fails(c, t) PROVE Ledger!Next
    BY <2>3, GiveUpLedger DEF Ledger!Next
  <2>4. ASSUME NEW batch \in SUBSET Wakes, Claims(c, batch) PROVE Ledger!Next
    BY <2>4, BeginLedger DEF Ledger!Next
  <2>5. CASE Rejects(c)
    BY <2>5, RefuseLedger DEF Ledger!Next
  <2>6. CASE Applies(c)
    BY <2>6, EnactLedger DEF Ledger!Next
  <2> QED BY <1>2, <2>1, <2>2, <2>3, <2>4, <2>5, <2>6 DEF Shape
<1> QED BY <1>1, <1>2, StepShape DEF TurnInv

\* Whatever crashes, fails over, is retried or paused, the durable cycle only
\* ever opens, commits, enacts, refuses or gives up turns as the decision ledger
\* does (claim_or_resume to apply_decision of stores/cognition.py).
THEOREM CycleRefinesLedger == Spec => ImplementsLedger
<1>1. Init => Ledger!Init
  <2> SUFFICES ASSUME Init PROVE Ledger!Init
    OBVIOUS
  <2>1. turn = [c \in Cycles |-> <<>>] /\ applied = [op \in Ops |-> NotApplied]
    BY DEF Init
  <2>2. \A c \in Cycles : DOMAIN turn[c] = {}
    BY <2>1
  <2>3. LedgerOf = [c \in Cycles |-> [o \in {} |-> LedgerRow(turn[c][o])]]
    BY <2>2 DEF LedgerOf, LedgerRow
  <2>4. LedgerOf = [c \in Cycles |-> <<>>]
    BY <2>3
  <2>5. EffectOf = [op \in Ops |-> Ledger!Nowhere]
    BY <2>1 DEF EffectOf, NotApplied, NoCycle, Ledger!Nowhere
  <2> QED BY <2>4, <2>5 DEF Ledger!Init
<1>2. TurnInv /\ [Next]_vars => [Ledger!Next]_(Ledger!lvars)
  BY LedgerStep
<1> QED BY <1>1, <1>2, TurnInvariant, PTL DEF Spec, ImplementsLedger, Ledger!Spec

-----------------------------------------------------------------------------
(* The wakes and the managed heartbeat: the inductive invariant *)

Agains == {Again(w) : w \in Legacy}

\* A wake follows the cycle it is linked to; one that is not linked waits, and
\* an orphan is superseded by a wake that was not there before.
ClaimRow(w, wk, lk, cy) ==
    IF w \in Legacy
    THEN /\ lk[w] = NoCycle /\ wk[w].status \in {"claimed", "superseded"}
         /\ wk[w].status = "claimed" => wk[Again(w)].status = "none"
    ELSE IF lk[w] = NoCycle THEN wk[w].status \in {"none", "pending"}
    ELSE /\ lk[w] \in Cycles /\ cy[lk[w]].status # "none"
         /\ wk[w].status = IF cy[lk[w]].status = "active" THEN "claimed" ELSE "consumed"

ClaimRows(wk, lk, cy) == \A w \in Wakes : ClaimRow(w, wk, lk, cy)

\* Heartbeats are exactly the beats that exist, and have no key.
BeatRows(wk) ==
    /\ \A w \in Wakes : wk[w].kind = "heartbeat" => w \in Beats
    /\ \A w \in Beats : wk[w].status # "none" => wk[w].kind = "heartbeat" /\ wk[w].key = NoKey

\* The beats come one after the other, each named after the cycle that consumed
\* the one before: the managed one is the last, and every earlier one is spent.
InLineAt(m, wk, lk, cy) ==
    /\ m # NoCycle => cy[m].status # "none"
    /\ wk[Beat(m)].status \in {"pending", "claimed", "consumed"}
    /\ lk[Beat(m)] # NoCycle => lk[Beat(m)] > m
    /\ \A c \in {NoCycle} \cup Cycles :
        /\ c > m => wk[Beat(c)].status = "none"
        /\ c < m => wk[Beat(c)].status \in {"none", "consumed"}

InLine(wk, lk, cy, hb) ==
    IF ~hb.exists \/ hb.managed = NoWake
    THEN \A w \in Beats : wk[w].status = "none"
    ELSE \E m \in {NoCycle} \cup Cycles :
            hb.managed = Beat(m) /\ InLineAt(m, wk, lk, cy)

\* What the scheduler retains fits its policy and the cycle it last accounted.
Retained(cy, hb) ==
    hb.exists =>
        /\ hb.config # NoConfig /\ hb.interval >= Second
        /\ Clamp(Policy[hb.config], hb.interval) = hb.interval
        /\ hb.last # NoCycle => /\ cy[hb.last].status \in {"completed", "failed"}
                                /\ cy[hb.last].completed = hb.anchor

\* A heartbeat that is missing or spent is owed.
Deferred(wk, hb) ==
    hb.exists => /\ hb.managed = NoWake => hb.pending
                 /\ hb.managed # NoWake /\ wk[hb.managed].status = "consumed" => hb.pending

OnTime(wk, hb) ==
    hb.exists /\ ~hb.pending =>
        /\ hb.managed # NoWake /\ wk[hb.managed].status = "pending"
        /\ wk[hb.managed].due =
               Schedule(Policy[hb.config], hb.anchor, hb.interval, NoDeadline)

HeartbeatSound(wk, lk, cy, hb) ==
    /\ BeatRows(wk) /\ InLine(wk, lk, cy, hb) /\ Retained(cy, hb) /\ Deferred(wk, hb)
    /\ (\A c \in Cycles : cy[c].status # "active") => OnTime(wk, hb)

\* An active cycle has claimed a wake, and no cycle more than its limit.
BatchesSound ==
    /\ \A c \in ActiveCycles : \E w \in Wakes : link[w] = c
    /\ \A c \in Cycles : Cardinality({w \in Wakes : link[w] = c}) <= cycle[c].limits.wakes

WakesSound == /\ ClaimRows(wake, link, cycle)
              /\ HeartbeatSound(wake, link, cycle, heartbeat)
              /\ BatchesSound

-----------------------------------------------------------------------------
(* Names, policy bounds and posting *)

LEMMA Names ==
    /\ \A b, c \in {NoCycle} \cup Cycles : Beat(b) = Beat(c) => b = c
    /\ \A v, w \in Legacy : Again(v) = Again(w) => v = w
    /\ Beats \cap Legacy = {} /\ Beats \cap (Ops \cup Posted) = {} /\ Beats \cap Agains = {}
    /\ Agains \cap Legacy = {} /\ Agains \cap (Ops \cup Posted) = {}
    /\ Bootstrap \notin Beats /\ Bootstrap \notin Agains /\ Bootstrap \notin Legacy
    /\ Beats \subseteq Wakes /\ Agains \subseteq Wakes /\ Legacy \subseteq Wakes
    /\ \A c \in {NoCycle} \cup Cycles : Beat(c) \in Beats /\ Beat(c) # NoWake
    /\ \A w \in Beats : \E c \in {NoCycle} \cup Cycles : w = Beat(c)
<1>1. \A b, c : Beat(b) = Beat(c) => b = c
  BY DEF Beat
<1>2. \A v, w : Again(v) = Again(w) => v = w
  BY DEF Again
<1>3. \A c, w : Beat(c) # Again(w)
  BY DEF Beat, Again
<1>4. (Ops \cup {Bootstrap} \cup Posted \cup Legacy) \cap (Beats \cup Agains) = {}
  BY IdentityAssumption DEF Agains
<1>5. Beats \cap Agains = {}
  BY <1>3 DEF Beats, Agains
<1>6. Beats \subseteq Wakes /\ Agains \subseteq Wakes /\ Legacy \subseteq Wakes
  BY DEF Wakes, Agains
<1>7. /\ \A c \in {NoCycle} \cup Cycles : Beat(c) \in Beats
      /\ \A w \in Beats : \E c \in {NoCycle} \cup Cycles : w = Beat(c)
  BY DEF Beats
<1>8. NoWake \notin Wakes /\ Bootstrap \notin Legacy
  BY IdentityAssumption
<1> QED BY <1>1, <1>2, <1>4, <1>5, <1>6, <1>7, <1>8

LEMMA ClampInPolicy ==
    ASSUME NEW p \in Policies, NEW i \in Nat
    PROVE  /\ Clamp(p, i) \in Nat /\ Clamp(p, i) >= Second
           /\ Clamp(p, Clamp(p, i)) = Clamp(p, i)
           /\ EffectiveMinimum(p) \in Nat /\ EffectiveMinimum(p) >= Second
           /\ Clamp(p, EffectiveMinimum(p)) = EffectiveMinimum(p)
BY SecondAssumption DEF Policies, EffectiveMinimum, EffectiveMaximum, Clamp, Lesser, Greater

LEMMA FactorGrows ==
    ASSUME NEW a \in Nat, NEW f \in Nat \ {0}
    PROVE  a * f \in Nat /\ a * f >= a
<1>1. a * f = a * (f - 1) + a
  OBVIOUS
<1>2. a * (f - 1) \in Nat
  OBVIOUS
<1> QED BY <1>1, <1>2

LEMMA NextIntervalInPolicy ==
    ASSUME NEW p \in Policies, NEW i \in Nat, NEW autonomous, NEW activity
    PROVE  LET n == NextInterval(p, i, autonomous, activity)
           IN  n \in Nat /\ n >= Second /\ Clamp(p, n) = n
<1> DEFINE a == Clamp(p, i)
           n == NextInterval(p, i, autonomous, activity)
<1>1. p.factor \in Nat \ {0} /\ a \in Nat /\ a >= EffectiveMinimum(p)
  BY SecondAssumption
     DEF Policies, EffectiveMinimum, EffectiveMaximum, Clamp, Lesser, Greater
<1> HIDE DEF a
<1>2. a * p.factor \in Nat /\ a * p.factor >= a
  BY <1>1, FactorGrows
<1>3. n = EffectiveMinimum(p) \/ n = Lesser(EffectiveMaximum(p), a * p.factor)
  BY DEF NextInterval, a
<1>4. \A m \in Nat : m >= EffectiveMinimum(p) /\ m <= EffectiveMaximum(p) => Clamp(p, m) = m
  BY SecondAssumption
     DEF Policies, EffectiveMinimum, EffectiveMaximum, Clamp, Lesser, Greater
<1>5. /\ EffectiveMinimum(p) \in Nat /\ EffectiveMaximum(p) \in Nat
      /\ EffectiveMinimum(p) <= EffectiveMaximum(p) /\ EffectiveMinimum(p) >= Second
  BY SecondAssumption
     DEF Policies, EffectiveMinimum, EffectiveMaximum, Lesser, Greater
<1> HIDE DEF n
<1>6. n \in Nat /\ n >= EffectiveMinimum(p) /\ n <= EffectiveMaximum(p)
  BY <1>1, <1>2, <1>3, <1>5 DEF Lesser
<1>7. n >= Second
  BY <1>5, <1>6, SecondAssumption
<1> QED BY <1>4, <1>6, <1>7 DEF n

\* Posting new identities creates those or merges into keyed pending rows.
PostedRow(w, wk, wk2, R) ==
    \/ wk2[w] = wk[w]
    \/ /\ wk[w].status = "pending" /\ wk[w].key # NoKey
       /\ wk2[w].status = "pending" /\ wk2[w].kind = wk[w].kind
    \/ /\ wk[w].status = "none" /\ wk2[w].status = "pending"
       /\ \E q \in R : q.id = w /\ wk2[w].kind = q.kind

LEMMA PostRows ==
    ASSUME NEW wk \in [Wakes -> WakeRecords], NEW R \in SUBSET Incoming,
           \A q \in R : wk[q.id].status = "none", NEW w \in Wakes
    PROVE  PostedRow(w, wk, Post(wk, R), R)
<1> DEFINE in == Arrivals(wk, R, w)
<1>1. Post(wk, R)[w] = IF in = {} THEN wk[w]
                       ELSE IF wk[w].status = "pending" THEN MergedRow(wk[w], in)
                       ELSE InsertedRow(w, in)
  BY DEF Post
<1>2. CASE in = {}
  BY <1>1, <1>2 DEF PostedRow
<1>3. CASE in # {} /\ wk[w].status = "pending"
  <2>1. Post(wk, R)[w] = MergedRow(wk[w], in) /\ wk[w] \in WakeRecords
    BY <1>1, <1>3
  <2>2. MergedRow(wk[w], in).status = wk[w].status /\ MergedRow(wk[w], in).kind = wk[w].kind
    BY <2>1 DEF MergedRow, WakeRecords
  <2>3. PICK q \in R : Home(wk, R, q) = w
    BY <1>3 DEF Arrivals
  <2>4. q.key # NoKey
    BY <1>3, <2>3 DEF Home
  <2>5. CASE Holders(wk, q.key) # {}
    <3>1. w \in Holders(wk, q.key)
      BY <2>3, <2>4, <2>5 DEF Home
    <3>2. wk[w].key # NoKey
      BY <2>4, <3>1 DEF Holders
    <3> QED BY <1>3, <2>1, <2>2, <3>2 DEF PostedRow
  <2>6. CASE Holders(wk, q.key) = {}
    <3> DEFINE ids == {p.id : p \in {p \in R : p.key = q.key}}
    <3>1. w = CHOOSE v \in ids : TRUE
      BY <2>3, <2>4, <2>6 DEF Home
    <3>2. q.id \in ids
      OBVIOUS
    <3>3. w \in ids
      BY <3>1, <3>2
    <3> QED BY <1>3, <3>3
  <2> QED BY <2>5, <2>6
<1>4. CASE in # {} /\ wk[w].status # "pending"
  <2> DEFINE own == CHOOSE q \in in : q.id = w
  <2>1. \E q \in in : q.id = w
    BY <1>4, ArrivalBringsIdentity
  <2>2. own \in in /\ own.id = w
    BY <2>1
  <2>3. own \in R /\ wk[w].status = "none"
    BY <2>2 DEF Arrivals
  <2>4. Post(wk, R)[w] = InsertedRow(w, in)
    BY <1>1, <1>4
  <2>5. InsertedRow(w, in).status = "pending" /\ InsertedRow(w, in).kind = own.kind
    BY DEF InsertedRow
  <2> HIDE DEF own, in
  <2> QED BY <2>2, <2>3, <2>4, <2>5 DEF PostedRow
<1> QED BY <1>2, <1>3, <1>4

LEMMA PostNothing ==
    ASSUME NEW wk \in [Wakes -> WakeRecords]
    PROVE  Post(wk, {}) = wk
BY DEF Post, Arrivals

\* Wakes another session or a decision brings: new ones, and no heartbeats.
Newcomers(R) ==
    /\ R \in SUBSET Incoming
    /\ \A q \in R : /\ q.id \in Ops \cup Posted \cup {Bootstrap}
                    /\ q.kind # "heartbeat" /\ wake[q.id].status = "none"

\* The heartbeats are as they were, and there are no others.
SameBeats(wk, wk2) ==
    /\ \A w \in Beats : wk2[w] = wk[w]
    /\ \A w \in Wakes \ Beats : wk2[w].kind # "heartbeat"

LEMMA SameBeatsSound ==
    ASSUME NEW wk, NEW wk2, NEW lk, NEW cy, NEW hb, HeartbeatSound(wk, lk, cy, hb),
           SameBeats(wk, wk2)
    PROVE  HeartbeatSound(wk2, lk, cy, hb)
<1>1. BeatRows(wk2)
  BY DEF HeartbeatSound, BeatRows, SameBeats
<1>2. InLine(wk2, lk, cy, hb)
  BY Names DEF HeartbeatSound, InLine, InLineAt, SameBeats
<1>3. hb.exists /\ hb.managed # NoWake => hb.managed \in Beats
  BY Names DEF HeartbeatSound, InLine
<1>4. Deferred(wk2, hb)
  BY <1>3 DEF HeartbeatSound, Deferred, SameBeats
<1>5. OnTime(wk, hb) => OnTime(wk2, hb)
  BY <1>3 DEF OnTime, SameBeats
<1> QED BY <1>1, <1>2, <1>4, <1>5 DEF HeartbeatSound

\* Merging into a pending row and creating an unlinked one keep the claims.
LEMMA PostedClaims ==
    ASSUME NEW wk, NEW wk2, NEW lk, NEW cy, NEW R, ClaimRows(wk, lk, cy),
           \A w \in Wakes : PostedRow(w, wk, wk2, R),
           \A w \in Legacy : wk[w].status = "claimed" => \A q \in R : q.id # Again(w)
    PROVE  ClaimRows(wk2, lk, cy)
<1> SUFFICES ASSUME NEW w \in Wakes PROVE ClaimRow(w, wk2, lk, cy)
  BY DEF ClaimRows
<1>1. ClaimRow(w, wk, lk, cy)
  BY DEF ClaimRows
<1>2. CASE w \in Legacy
  <2>1. wk[w].status \in {"claimed", "superseded"}
    BY <1>1, <1>2 DEF ClaimRow
  <2>2. wk2[w] = wk[w]
    BY <2>1 DEF PostedRow
  <2>3. wk[w].status = "claimed" => wk2[Again(w)].status = "none"
    <3> SUFFICES ASSUME wk[w].status = "claimed" PROVE wk2[Again(w)].status = "none"
      OBVIOUS
    <3>1. wk[Again(w)].status = "none" /\ Again(w) \in Wakes
      BY <1>1, <1>2, Names DEF ClaimRow, Agains
    <3>2. \A q \in R : q.id # Again(w)
      BY <1>2
    <3> QED BY <3>1, <3>2 DEF PostedRow
  <2> QED BY <1>1, <1>2, <2>2, <2>3 DEF ClaimRow
<1>3. CASE w \notin Legacy
  BY <1>1, <1>3 DEF ClaimRow, PostedRow
<1> QED BY <1>2, <1>3

LEMMA PostedBeats ==
    ASSUME NEW wk, NEW wk2, NEW R, BeatRows(wk),
           \A w \in Wakes : PostedRow(w, wk, wk2, R),
           \A q \in R : q.id \notin Beats /\ q.kind # "heartbeat"
    PROVE  SameBeats(wk, wk2)
<1>1. ASSUME NEW w \in Beats PROVE wk2[w] = wk[w]
  BY Names DEF BeatRows, PostedRow
<1>2. ASSUME NEW w \in Wakes \ Beats PROVE wk2[w].kind # "heartbeat"
  BY DEF BeatRows, PostedRow
<1> QED BY <1>1, <1>2 DEF SameBeats

LEMMA NewcomersPosted ==
    ASSUME TypeOK, WakesSound, NEW R, Newcomers(R)
    PROVE  LET wk2 == Post(wake, R)
           IN  /\ wk2 \in [Wakes -> WakeRecords]
               /\ ClaimRows(wk2, link, cycle)
               /\ HeartbeatSound(wk2, link, cycle, heartbeat)
               /\ SameBeats(wake, wk2)
<1> DEFINE wk2 == Post(wake, R)
<1>1. wake \in [Wakes -> WakeRecords] /\ R \in SUBSET Incoming
      /\ \A q \in R : wake[q.id].status = "none"
  BY DEF TypeOK, Newcomers
<1>2. \A w \in Wakes : PostedRow(w, wake, wk2, R)
  BY <1>1, PostRows
<1>3. wk2 \in [Wakes -> WakeRecords]
  BY <1>1, PostType
<1> HIDE DEF wk2
<1>4. \A q \in R : q.id \notin Agains /\ q.id \notin Beats /\ q.kind # "heartbeat"
  BY Names DEF Newcomers
<1>5. \A w \in Legacy : \A q \in R : q.id # Again(w)
  BY <1>4 DEF Agains
<1>6. ClaimRows(wk2, link, cycle)
  BY <1>2, <1>5, PostedClaims DEF WakesSound
<1>7. SameBeats(wake, wk2)
  BY <1>2, <1>4, PostedBeats DEF WakesSound, HeartbeatSound
<1>8. HeartbeatSound(wk2, link, cycle, heartbeat)
  BY <1>7, SameBeatsSound DEF WakesSound
<1> QED BY <1>3, <1>6, <1>7, <1>8 DEF wk2

\* Orphans that are requeued leave a new wake each and touch no heartbeat.
LEMMA Recovered ==
    ASSUME NEW wk \in [Wakes -> WakeRecords], NEW lk, NEW cy,
           ClaimRows(wk, lk, cy), BeatRows(wk),
           NEW B \in SUBSET Legacy, \A w \in B : wk[w].status = "claimed"
    PROVE  LET wk2 == Recover(wk, B)
           IN  ClaimRows(wk2, lk, cy) /\ SameBeats(wk, wk2)
               /\ wk2 \in [Wakes -> WakeRecords]
<1> DEFINE left == [w \in Wakes |-> IF w \in B THEN [wk[w] EXCEPT !.status = "superseded"]
                                    ELSE wk[w]]
           R    == {Requeued(wk, w) : w \in B}
           wk2  == Post(left, R)
<1>1. left \in [Wakes -> WakeRecords]
  BY DEF WakeRecords, WakeStatuses
<1>2. \A w \in Wakes : /\ w \notin B => left[w] = wk[w]
                       /\ w \in B => left[w].status = "superseded" /\ left[w].kind = wk[w].kind
  BY DEF WakeRecords
<1> HIDE DEF left
<1>3. \A w \in B : w \in Wakes /\ Again(w) \in Wakes /\ Again(w) \notin B /\ w \notin Beats
                   /\ Again(w) \notin Beats
  BY Names DEF Agains
<1>4. R \in SUBSET Incoming
  <2> SUFFICES ASSUME NEW w \in B PROVE Requeued(wk, w) \in Incoming
    OBVIOUS
  <2> QED BY <1>3 DEF Requeued, Incoming, WakeRecords
<1>5. \A w \in B : Requeued(wk, w).id = Again(w) /\ Requeued(wk, w).kind = wk[w].kind
  BY DEF Requeued
<1>6. \A w \in B : left[Again(w)].status = "none" /\ wk[w].kind # "heartbeat"
  BY <1>2, <1>3 DEF ClaimRows, ClaimRow, BeatRows
<1>7. \A q \in R : \E w \in B : q.id = Again(w) /\ q.kind = wk[w].kind
  BY <1>5
<1> HIDE DEF R
<1>8. \A q \in R : left[q.id].status = "none" /\ q.id \notin Beats /\ q.kind # "heartbeat"
  BY <1>3, <1>6, <1>7
<1>9. \A w \in Wakes : PostedRow(w, left, wk2, R)
  BY <1>1, <1>4, <1>8, PostRows
<1>10. wk2 \in [Wakes -> WakeRecords]
  BY <1>1, <1>4, PostType
<1> HIDE DEF wk2
<1>11. ClaimRows(left, lk, cy)
  <2> SUFFICES ASSUME NEW w \in Wakes PROVE ClaimRow(w, left, lk, cy)
    BY DEF ClaimRows
  <2>1. ClaimRow(w, wk, lk, cy)
    BY DEF ClaimRows
  <2>2. CASE w \in Legacy
    <3>1. Again(w) \in Wakes /\ Again(w) \notin B
      BY <2>2, Names DEF Agains
    <3> QED BY <1>2, <2>1, <2>2, <3>1 DEF ClaimRow
  <2>3. CASE w \notin Legacy
    BY <1>2, <2>1, <2>3 DEF ClaimRow
  <2> QED BY <2>2, <2>3
<1>12. \A w \in Legacy : left[w].status = "claimed" => \A q \in R : q.id # Again(w)
  BY <1>2, <1>7, Names
<1>13. ClaimRows(wk2, lk, cy)
  BY <1>9, <1>11, <1>12, PostedClaims
<1>14. BeatRows(left)
  BY <1>2, <1>3, Names DEF BeatRows
<1>15. SameBeats(left, wk2)
  BY <1>8, <1>9, <1>14, PostedBeats
<1>16. SameBeats(wk, wk2)
  BY <1>2, <1>3, <1>15, Names DEF SameBeats
<1>17. Recover(wk, B) = wk2
  BY DEF Recover, wk2, left, R
<1> QED BY <1>10, <1>13, <1>16, <1>17

-----------------------------------------------------------------------------
(* Materializing the heartbeat *)

\* Only a beat that is not claimed is timed anew.
Timed(wk, wk2) ==
    \A w \in Wakes : \/ wk2[w] = wk[w]
                     \/ /\ w \in Beats /\ wk[w].status \in {"none", "pending"}
                        /\ wk2[w].status = "pending"

LEMMA TimedClaims ==
    ASSUME NEW wk, NEW wk2, NEW lk, NEW cy, ClaimRows(wk, lk, cy), Timed(wk, wk2)
    PROVE  ClaimRows(wk2, lk, cy)
<1> SUFFICES ASSUME NEW w \in Wakes PROVE ClaimRow(w, wk2, lk, cy)
  BY DEF ClaimRows
<1>1. ClaimRow(w, wk, lk, cy)
  BY DEF ClaimRows
<1>2. CASE w \in Legacy
  <2>1. Again(w) \in Wakes /\ Again(w) \notin Beats /\ w \notin Beats
    BY <1>2, Names DEF Agains
  <2> QED BY <1>1, <1>2, <2>1 DEF ClaimRow, Timed
<1>3. CASE w \notin Legacy
  BY <1>1, <1>3 DEF ClaimRow, Timed
<1> QED BY <1>2, <1>3

LEMMA Materialized ==
    ASSUME NEW wk \in [Wakes -> WakeRecords], NEW cy, NEW hb \in HeartbeatRecords,
           NEW p, p = Policy[hb.config], link \in [Wakes -> {NoCycle} \cup Cycles],
           hb.exists, ClaimRows(wk, link, cy), BeatRows(wk), InLine(wk, link, cy, hb),
           hb.managed # NoWake => wk[hb.managed].status \in {"pending", "consumed"}
    PROVE  LET m == Materialize(wk, hb, p)
           IN  /\ Timed(wk, m.wake) /\ BeatRows(m.wake)
               /\ InLine(m.wake, link, cy, m.heartbeat)
               /\ Deferred(m.wake, m.heartbeat) /\ OnTime(m.wake, m.heartbeat)
               /\ Retained(cy, hb) => Retained(cy, m.heartbeat)
<1> DEFINE instant == Schedule(p, hb.anchor, hb.interval, NoDeadline)
           new == hb.managed = NoWake \/ wk[hb.managed].status \in {"consumed", "superseded"}
           w   == IF new THEN Successor(hb.managed) ELSE hb.managed
           row == IF new THEN Spawned(instant) ELSE Retimed(wk[w], instant)
           wk2 == [wk EXCEPT ![w] = row]
           hb2 == [hb EXCEPT !.managed = w, !.pending = FALSE]
<1>1. Materialize(wk, hb, p).wake = wk2 /\ Materialize(wk, hb, p).heartbeat = hb2
  BY DEF Materialize
<1>2. /\ hb2.exists /\ hb2.managed = w /\ ~hb2.pending /\ hb2.config = hb.config
      /\ hb2.anchor = hb.anchor /\ hb2.interval = hb.interval /\ hb2.last = hb.last
  BY DEF HeartbeatRecords
<1>3. PICK m \in {NoCycle} \cup Cycles :
          /\ w = Beat(m) /\ w \in Beats
          /\ m # NoCycle => cy[m].status # "none"
          /\ link[w] # NoCycle => link[w] > m
          /\ wk[w].status \in {"none", "pending"}
          /\ new \/ wk[w].status = "pending"
          /\ \A c \in {NoCycle} \cup Cycles :
              /\ c > m => wk[Beat(c)].status = "none"
              /\ c < m => wk[Beat(c)].status \in {"none", "consumed"}
  <2>1. CASE hb.managed = NoWake
    <3>1. w = Beat(NoCycle) /\ w \in Beats /\ new
      BY <2>1, Names DEF Successor
    <3>2. \A v \in Beats : wk[v].status = "none"
      BY <2>1 DEF InLine
    <3>3. link[w] = NoCycle
      <4>1. ClaimRow(w, wk, link, cy) /\ w \notin Legacy
        BY <3>1, Names DEF ClaimRows
      <4> QED BY <3>1, <3>2, <4>1 DEF ClaimRow
    <3>4. \A c \in {NoCycle} \cup Cycles : wk[Beat(c)].status = "none"
      BY <3>2, Names
    <3> QED BY <3>1, <3>2, <3>3, <3>4
  <2>2. CASE hb.managed # NoWake
    <3>1. PICK n \in {NoCycle} \cup Cycles : hb.managed = Beat(n) /\ InLineAt(n, wk, link, cy)
      BY <2>2 DEF InLine
    <3>2. Beat(n) \in Beats /\ Beat(n) \in Wakes /\ Beat(n) \notin Legacy
      BY Names
    <3>3. CASE wk[hb.managed].status = "pending"
      <4>1. ~new /\ w = Beat(n)
        BY <2>2, <3>1, <3>3
      <4> QED BY <3>1, <3>2, <3>3, <4>1 DEF InLineAt
    <3>4. CASE wk[hb.managed].status = "consumed"
      <4>1. new /\ w = Beat(link[Beat(n)])
        BY <2>2, <3>1, <3>4 DEF Successor
      <4>2. ClaimRow(Beat(n), wk, link, cy)
        BY <3>2 DEF ClaimRows
      <4> DEFINE c == link[Beat(n)]
      <4>3. c \in Cycles /\ cy[c].status # "none" /\ c > n
        BY <3>1, <3>2, <3>4, <4>2 DEF ClaimRow, InLineAt
      <4>4. Beat(c) \in Beats /\ Beat(c) \in Wakes /\ Beat(c) \notin Legacy
        BY <4>3, Names
      <4>5. wk[Beat(c)].status = "none"
        BY <3>1, <4>3 DEF InLineAt
      <4>6. link[Beat(c)] = NoCycle
        <5>1. ClaimRow(Beat(c), wk, link, cy)
          BY <4>4 DEF ClaimRows
        <5> QED BY <4>4, <4>5, <5>1 DEF ClaimRow
      <4>7. n \in Int /\ c \in Int /\ \A b \in {NoCycle} \cup Cycles : b \in Int
        BY <4>3, BoundAssumption DEF Cycles, NoCycle
      <4> HIDE DEF c
      <4>8. \A b \in {NoCycle} \cup Cycles :
                /\ b > c => wk[Beat(b)].status = "none"
                /\ b < c => wk[Beat(b)].status \in {"none", "consumed"}
        <5> SUFFICES ASSUME NEW b \in {NoCycle} \cup Cycles
                     PROVE  /\ b > c => wk[Beat(b)].status = "none"
                            /\ b < c => wk[Beat(b)].status \in {"none", "consumed"}
          OBVIOUS
        <5>1. b > c => b > n
          BY <4>3, <4>7
        <5>2. b > n \/ b = n \/ b < n
          BY <4>7
        <5> QED BY <3>1, <3>4, <5>1, <5>2 DEF InLineAt
      <4>9. w = Beat(c)
        BY <4>1 DEF c
      <4> QED BY <4>1, <4>3, <4>4, <4>5, <4>6, <4>8, <4>9
    <3> QED BY <2>2, <3>3, <3>4
  <2> QED BY <2>1, <2>2
<1> HIDE DEF w, instant, new
<1>15. /\ w \in Beats /\ w \in Wakes /\ w # NoWake /\ wk[w] \in WakeRecords
       /\ w = Beat(m) /\ wk[w].status \in {"none", "pending"}
       /\ new \/ wk[w].status = "pending"
  <2>1. w \in Beats /\ w = Beat(m) /\ wk[w].status \in {"none", "pending"}
        /\ (new \/ wk[w].status = "pending")
    BY <1>3
  <2>2. w \in Wakes /\ w # NoWake
    BY <2>1, Names
  <2> QED BY <2>1, <2>2
<1>4. /\ row.status = "pending" /\ row.kind = "heartbeat" /\ row.key = NoKey
      /\ row.due = instant
  <2>1. CASE new
    BY <2>1 DEF Spawned
  <2>2. CASE ~new
    <3>1. wk[w].kind = "heartbeat" /\ wk[w].key = NoKey /\ wk[w].status = "pending"
      BY <1>15, <2>2 DEF BeatRows
    <3>2. Retimed(wk[w], instant) = [wk[w] EXCEPT !.due = instant]
      BY DEF Retimed
    <3> QED BY <1>15, <2>2, <3>1, <3>2 DEF WakeRecords
  <2> QED BY <2>1, <2>2
<1> HIDE DEF row
<1>5. /\ wk2[w] = row
      /\ \A v \in Wakes : v # w => wk2[v] = wk[v]
  BY <1>15
<1> HIDE DEF wk2, hb2
<1>6. Timed(wk, wk2)
  BY <1>4, <1>5, <1>15 DEF Timed
<1>7. BeatRows(wk2)
  <2>1. \A v \in Wakes : wk2[v].kind = "heartbeat" => v \in Beats
    BY <1>4, <1>5, <1>15 DEF BeatRows
  <2>2. \A v \in Beats : wk2[v].status # "none" => wk2[v].kind = "heartbeat" /\ wk2[v].key = NoKey
    <3>1. \A v \in Beats : v \in Wakes
      BY Names
    <3> QED BY <1>4, <1>5, <1>15, <3>1 DEF BeatRows
  <2> QED BY <2>1, <2>2 DEF BeatRows
<1>8. \A c \in {NoCycle} \cup Cycles : c # m => wk2[Beat(c)] = wk[Beat(c)]
  <2>1. \A c \in {NoCycle} \cup Cycles : Beat(c) \in Wakes /\ (Beat(c) = Beat(m) => c = m)
    BY Names
  <2> QED BY <1>5, <1>15, <2>1
<1>9. InLineAt(m, wk2, link, cy)
  <2>1. wk2[Beat(m)].status = "pending"
    BY <1>4, <1>5, <1>15
  <2>2. \A c \in {NoCycle} \cup Cycles :
            /\ c > m => wk2[Beat(c)].status = "none"
            /\ c < m => wk2[Beat(c)].status \in {"none", "consumed"}
    <3>1. \A c \in {NoCycle} \cup Cycles : c > m \/ c < m => c # m
      BY BoundAssumption DEF Cycles, NoCycle
    <3> QED BY <1>3, <1>8, <3>1
  <2>3. (m # NoCycle => cy[m].status # "none") /\ (link[Beat(m)] # NoCycle => link[Beat(m)] > m)
    BY <1>3, <1>15
  <2> QED BY <2>1, <2>2, <2>3 DEF InLineAt
<1>10. w # NoWake
  BY <1>15
<1>11. InLine(wk2, link, cy, hb2)
  BY <1>2, <1>15, <1>9 DEF InLine
<1>12. Deferred(wk2, hb2)
  BY <1>2, <1>4, <1>5, <1>10 DEF Deferred
<1>13. OnTime(wk2, hb2)
  BY <1>2, <1>4, <1>5, <1>10 DEF OnTime, instant
<1>14. Retained(cy, hb) => Retained(cy, hb2)
  BY <1>2 DEF Retained
<1> QED BY <1>1, <1>6, <1>7, <1>11, <1>12, <1>13, <1>14

\* The managed heartbeat is a beat; when no cycle but c is active, it is only
\* claimed if c claimed it.
LEMMA ManagedBeat ==
    ASSUME NEW wk, NEW cy, NEW hb, ClaimRows(wk, link, cy), InLine(wk, link, cy, hb),
           hb.exists, hb.managed # NoWake
    PROVE  /\ hb.managed \in Beats /\ hb.managed \in Wakes
           /\ wk[hb.managed].status \in {"pending", "claimed", "consumed"}
           /\ wk[hb.managed].status = "claimed" =>
                  link[hb.managed] \in Cycles /\ cy[link[hb.managed]].status = "active"
<1>1. PICK m \in {NoCycle} \cup Cycles : hb.managed = Beat(m) /\ InLineAt(m, wk, link, cy)
  BY DEF InLine
<1>2. hb.managed \in Beats /\ hb.managed \in Wakes /\ hb.managed \notin Legacy
  BY <1>1, Names
<1>3. ClaimRow(hb.managed, wk, link, cy)
  BY <1>2 DEF ClaimRows
<1>4. wk[hb.managed].status \in {"pending", "claimed", "consumed"}
  BY <1>1 DEF InLineAt
<1> QED BY <1>2, <1>3, <1>4 DEF ClaimRow

LEMMA CurrentSound ==
    ASSUME TypeOK, WakesSound, NEW now \in Nat, config # NoConfig
    PROVE  LET hb == Current(now)
           IN  /\ hb \in HeartbeatRecords /\ hb.exists
               /\ InLine(wake, link, cycle, hb) /\ Retained(cycle, hb) /\ Deferred(wake, hb)
               /\ hb.pending \/ hb = heartbeat
<1>1. Current(now) \in HeartbeatRecords /\ Policy[config] \in Policies
  BY CurrentType
<1>2. CASE heartbeat.exists
  <2>1. Current(now) = heartbeat
    BY <1>2 DEF Current
  <2> QED BY <1>1, <1>2, <2>1 DEF WakesSound, HeartbeatSound
<1>3. CASE ~heartbeat.exists
  <2> DEFINE hb == Initialize(config, now)
  <2>1. Current(now) = hb
    BY <1>3 DEF Current
  <2>2. /\ hb.exists /\ hb.managed = NoWake /\ hb.pending /\ hb.last = NoCycle
        /\ hb.config = config /\ hb.interval = EffectiveMinimum(Policy[config])
    BY DEF Initialize
  <2> HIDE DEF hb
  <2>3. \A w \in Beats : wake[w].status = "none"
    BY <1>3 DEF WakesSound, HeartbeatSound, InLine
  <2>4. InLine(wake, link, cycle, hb) /\ Deferred(wake, hb)
    BY <2>2, <2>3 DEF InLine, Deferred
  <2>5. EffectiveMinimum(Policy[config]) \in Nat
    BY <1>1, ClampInPolicy, SecondAssumption
  <2>6. Retained(cycle, hb)
    BY <1>1, <2>2, <2>5, ClampInPolicy DEF Retained
  <2> QED BY <1>1, <2>1, <2>2, <2>4, <2>6
<1> QED BY <1>2, <1>3

\* ensure_heartbeat keeps the scheduler and every claim.
LEMMA Ensured ==
    ASSUME TypeOK, WakesSound, NEW now \in Nat
    PROVE  LET e == EnsureHeartbeat(now)
           IN  /\ e.wake \in [Wakes -> WakeRecords]
               /\ ClaimRows(e.wake, link, cycle)
               /\ HeartbeatSound(e.wake, link, cycle, e.heartbeat)
<1> DEFINE e == EnsureHeartbeat(now)
<1>1. e.wake \in [Wakes -> WakeRecords]
  BY EnsureHeartbeatType
<1>2. CASE config = NoConfig
  <2>1. e.wake = wake /\ e.heartbeat = heartbeat
    BY <1>2 DEF EnsureHeartbeat
  <2> HIDE DEF e
  <2> QED BY <1>1, <2>1 DEF WakesSound, e
<1>3. CASE config # NoConfig /\ ActiveCycles # {}
  <2>1. e.wake = wake /\ e.heartbeat = Current(now)
    BY <1>3 DEF EnsureHeartbeat
  <2>2. /\ InLine(wake, link, cycle, Current(now)) /\ Retained(cycle, Current(now))
        /\ Deferred(wake, Current(now))
    BY <1>3, CurrentSound
  <2>3. ~ \A c \in Cycles : cycle[c].status # "active"
    BY <1>3 DEF ActiveCycles
  <2> HIDE DEF e
  <2> QED BY <1>1, <2>1, <2>2, <2>3 DEF WakesSound, HeartbeatSound, e
<1>4. CASE config # NoConfig /\ ActiveCycles = {}
  <2> DEFINE old == Current(now)
             hb  == [old EXCEPT !.config = config,
                                !.interval = Clamp(Policy[config], old.interval)]
             m   == Materialize(wake, hb, Policy[config])
  <2>1. old \in HeartbeatRecords /\ old.exists /\ InLine(wake, link, cycle, old)
        /\ Retained(cycle, old)
    BY <1>4, CurrentSound
  <2>2. Policy[config] \in Policies /\ config \in Configs
    BY <1>4, ConfigAssumption DEF TypeOK
  <2>3. e = m
    BY <1>4 DEF EnsureHeartbeat
  <2> HIDE DEF e, old
  <2>4. /\ Clamp(Policy[config], old.interval) \in Nat
        /\ Clamp(Policy[config], old.interval) >= Second
        /\ Clamp(Policy[config], Clamp(Policy[config], old.interval)) =
               Clamp(Policy[config], old.interval)
    BY <2>1, <2>2, ClampInPolicy DEF HeartbeatRecords
  <2>5. /\ hb \in HeartbeatRecords /\ hb.exists /\ hb.managed = old.managed
        /\ hb.config = config /\ hb.interval = Clamp(Policy[config], old.interval)
        /\ hb.last = old.last /\ hb.anchor = old.anchor
    BY <2>1, <2>2, <2>4 DEF HeartbeatRecords
  <2> HIDE DEF hb
  <2>6. InLine(wake, link, cycle, hb)
    BY <2>1, <2>5 DEF InLine
  <2>7. Retained(cycle, hb)
    BY <1>4, <2>1, <2>4, <2>5 DEF Retained
  <2>8. ClaimRows(wake, link, cycle) /\ BeatRows(wake)
        /\ wake \in [Wakes -> WakeRecords] /\ link \in [Wakes -> {NoCycle} \cup Cycles]
    BY DEF WakesSound, HeartbeatSound, TypeOK
  <2>9. hb.managed # NoWake => wake[hb.managed].status \in {"pending", "consumed"}
    <3> SUFFICES ASSUME hb.managed # NoWake
                 PROVE  wake[hb.managed].status \in {"pending", "consumed"}
      OBVIOUS
    <3>1. /\ wake[hb.managed].status \in {"pending", "claimed", "consumed"}
          /\ wake[hb.managed].status = "claimed" =>
                 link[hb.managed] \in Cycles /\ cycle[link[hb.managed]].status = "active"
      BY <2>5, <2>6, <2>8, ManagedBeat
    <3> QED BY <1>4, <3>1 DEF ActiveCycles
  <2>10. /\ Timed(wake, m.wake) /\ BeatRows(m.wake)
         /\ InLine(m.wake, link, cycle, m.heartbeat)
         /\ Deferred(m.wake, m.heartbeat) /\ OnTime(m.wake, m.heartbeat)
         /\ Retained(cycle, m.heartbeat)
    BY <2>5, <2>6, <2>7, <2>8, <2>9, Materialized
  <2> HIDE DEF m
  <2>11. ClaimRows(m.wake, link, cycle)
    BY <2>8, <2>10, TimedClaims
  <2> QED BY <1>1, <2>3, <2>10, <2>11 DEF HeartbeatSound, e
<1> QED BY <1>2, <1>3, <1>4

\* The cycles once c has ended at now.
EndedAt(cy, c, now) ==
    /\ \A b \in Cycles : b # c => cy[b] = cycle[b]
    /\ cy[c].status \in {"completed", "failed"} /\ cy[c].completed = now

LEMMA Consumed ==
    ASSUME TypeOK, OneActive, NEW c \in ActiveCycles, NEW now, NEW cy, EndedAt(cy, c, now),
           NEW wk \in [Wakes -> WakeRecords],
           ClaimRows(wk, link, cycle), HeartbeatSound(wk, link, cycle, heartbeat)
    PROVE  LET sp == Consume(wk, c)
           IN  /\ sp \in [Wakes -> WakeRecords] /\ ClaimRows(sp, link, cy)
               /\ BeatRows(sp) /\ InLine(sp, link, cy, heartbeat)
               /\ Retained(cy, heartbeat)
               /\ heartbeat.exists /\ heartbeat.managed # NoWake =>
                      sp[heartbeat.managed].status \in {"pending", "consumed"}
<1> DEFINE sp == Consume(wk, c)
<1>1. /\ c \in Cycles /\ cycle[c].status = "active"
      /\ \A b \in Cycles : cy[b].status # "active"
      /\ \A b \in Cycles : cycle[b].status # "none" => cy[b].status # "none"
  BY DEF ActiveCycles, OneActive, EndedAt
<1>2. sp \in [Wakes -> WakeRecords]
  BY ConsumeType
<1>3. \A w \in Wakes :
          /\ sp[w].kind = wk[w].kind /\ sp[w].key = wk[w].key
          /\ link[w] = c /\ wk[w].status = "claimed" => sp[w].status = "consumed"
          /\ ~ (link[w] = c /\ wk[w].status = "claimed") => sp[w] = wk[w]
  BY DEF Consume, WakeRecords
<1> HIDE DEF sp
<1>4. c # NoCycle
  BY <1>1, BoundAssumption DEF Cycles, NoCycle
<1>5. ASSUME NEW w \in Wakes PROVE ClaimRow(w, sp, link, cy)
  <2>1. ClaimRow(w, wk, link, cycle)
    BY DEF ClaimRows
  <2>2. CASE w \in Legacy
    <3>1. sp[w] = wk[w] /\ link[w] = NoCycle
      BY <1>3, <1>4, <2>1, <2>2 DEF ClaimRow
    <3>2. wk[w].status = "claimed" => sp[Again(w)].status = "none"
      <4>1. Again(w) \in Wakes
        BY <2>2, Names DEF Agains
      <4> QED BY <1>3, <2>1, <2>2, <4>1 DEF ClaimRow
    <3> QED BY <2>1, <2>2, <3>1, <3>2 DEF ClaimRow
  <2>3. CASE w \notin Legacy /\ link[w] = NoCycle
    BY <1>3, <1>4, <2>1, <2>3 DEF ClaimRow
  <2>4. CASE w \notin Legacy /\ link[w] # NoCycle
    <3>1. /\ link[w] \in Cycles /\ cycle[link[w]].status # "none"
          /\ wk[w].status = IF cycle[link[w]].status = "active" THEN "claimed" ELSE "consumed"
      BY <2>1, <2>4 DEF ClaimRow
    <3>2. cycle[link[w]].status = "active" => link[w] = c
      BY <3>1 DEF OneActive, ActiveCycles
    <3>3. sp[w].status = "consumed"
      BY <1>3, <3>1, <3>2
    <3> QED BY <1>1, <2>4, <3>1, <3>3 DEF ClaimRow
  <2> QED BY <2>2, <2>3, <2>4
<1>6. ClaimRows(sp, link, cy)
  BY <1>5 DEF ClaimRows
<1>7. BeatRows(sp)
  <2>1. \A w \in Beats : w \in Wakes
    BY Names
  <2>2. \A w \in Wakes : sp[w].status = "none" <=> wk[w].status = "none"
    BY <1>3
  <2> QED BY <1>3, <2>1, <2>2 DEF HeartbeatSound, BeatRows
<1>8. InLine(sp, link, cy, heartbeat)
  <2>1. \A w \in Beats : w \in Wakes
    BY Names
  <2>2. CASE ~heartbeat.exists \/ heartbeat.managed = NoWake
    BY <1>3, <2>1, <2>2 DEF HeartbeatSound, InLine
  <2>3. CASE ~ (~heartbeat.exists \/ heartbeat.managed = NoWake)
    <3>1. PICK m \in {NoCycle} \cup Cycles :
              heartbeat.managed = Beat(m) /\ InLineAt(m, wk, link, cycle)
      BY <2>3 DEF HeartbeatSound, InLine
    <3>2. \A b \in {NoCycle} \cup Cycles : Beat(b) \in Wakes
      BY <2>1, Names
    <3>3. InLineAt(m, sp, link, cy)
      <4>1. m # NoCycle => cy[m].status # "none"
        BY <1>1, <3>1 DEF InLineAt
      <4>2. sp[Beat(m)].status \in {"pending", "claimed", "consumed"}
        BY <1>3, <3>1, <3>2 DEF InLineAt
      <4>3. \A b \in {NoCycle} \cup Cycles :
              /\ wk[Beat(b)].status = "none" => sp[Beat(b)].status = "none"
              /\ wk[Beat(b)].status \in {"none", "consumed"} =>
                     sp[Beat(b)].status \in {"none", "consumed"}
        BY <1>3, <3>2
      <4> QED BY <3>1, <4>1, <4>2, <4>3 DEF InLineAt
    <3> QED BY <2>3, <3>1, <3>3 DEF InLine
  <2> QED BY <2>2, <2>3
<1>9. Retained(cy, heartbeat)
  <2>1. heartbeat.last \in {NoCycle} \cup Cycles
    BY DEF TypeOK, HeartbeatRecords
  <2>2. heartbeat.exists /\ heartbeat.last # NoCycle => heartbeat.last # c
    BY <1>1 DEF HeartbeatSound, Retained
  <2> QED BY <2>1, <2>2 DEF HeartbeatSound, Retained, EndedAt
<1>10. heartbeat.exists /\ heartbeat.managed # NoWake =>
           sp[heartbeat.managed].status \in {"pending", "consumed"}
  <2> SUFFICES ASSUME heartbeat.exists, heartbeat.managed # NoWake
               PROVE  sp[heartbeat.managed].status \in {"pending", "consumed"}
    OBVIOUS
  <2>1. /\ sp[heartbeat.managed].status \in {"pending", "claimed", "consumed"}
        /\ sp[heartbeat.managed].status = "claimed" =>
               link[heartbeat.managed] \in Cycles /\ cy[link[heartbeat.managed]].status = "active"
    BY <1>6, <1>8, ManagedBeat
  <2> QED BY <1>1, <2>1
<1> QED BY <1>2, <1>6, <1>7, <1>8, <1>9, <1>10 DEF sp

\* record_cycle_outcome keeps the scheduler and every claim.
LEMMA Accounted ==
    ASSUME TypeOK, OneActive, NEW c \in ActiveCycles, NEW now \in Nat, NEW cy,
           EndedAt(cy, c, now), NEW wk \in [Wakes -> WakeRecords], NEW ap,
           ClaimRows(wk, link, cycle), HeartbeatSound(wk, link, cycle, heartbeat)
    PROVE  LET a == Account(Consume(wk, c), ap, c, now)
           IN  ClaimRows(a.wake, link, cy) /\ HeartbeatSound(a.wake, link, cy, a.heartbeat)
<1> DEFINE sp  == Consume(wk, c)
           a   == Account(sp, ap, c, now)
           g   == AccountConfig
           old == IF heartbeat.exists THEN heartbeat ELSE Initialize(g, now)
           int == NextInterval(Policy[g], old.interval, AutonomousCycle(sp, c),
                               PersonalActivity(ap, c))
           hb  == Outcome(old, int, now, c, g)
           m   == Materialize(sp, hb, Policy[g])
<1>1. /\ sp \in [Wakes -> WakeRecords] /\ ClaimRows(sp, link, cy)
      /\ BeatRows(sp) /\ InLine(sp, link, cy, heartbeat) /\ Retained(cy, heartbeat)
      /\ heartbeat.exists /\ heartbeat.managed # NoWake =>
             sp[heartbeat.managed].status \in {"pending", "consumed"}
  BY Consumed
<1>2. c \in Cycles /\ heartbeat \in HeartbeatRecords
  BY DEF ActiveCycles, TypeOK
<1>3. \/ g = NoConfig /\ a = [wake |-> sp, heartbeat |-> heartbeat]
      \/ g # NoConfig /\ a = m
      \/ g # NoConfig /\ a = [wake |-> sp, heartbeat |-> hb]
  BY DEF Account
<1> HIDE DEF sp, a
<1>4. CASE g = NoConfig /\ a = [wake |-> sp, heartbeat |-> heartbeat]
  <2>1. ~heartbeat.exists
    BY <1>4 DEF AccountConfig, WakesSound, HeartbeatSound, Retained
  <2>2. Deferred(sp, heartbeat) /\ OnTime(sp, heartbeat)
    BY <2>1 DEF Deferred, OnTime
  <2>3. a.wake = sp /\ a.heartbeat = heartbeat
    BY <1>4
  <2> QED BY <1>1, <2>2, <2>3 DEF HeartbeatSound, a, sp
<1>5. CASE g # NoConfig /\ (a = m \/ a = [wake |-> sp, heartbeat |-> hb])
  <2>1. g \in Configs /\ Policy[g] \in Policies
    BY <1>2, <1>5, ConfigAssumption DEF AccountConfig, TypeOK, HeartbeatRecords
  <2>2. old \in HeartbeatRecords /\ old.exists
    <3>1. Initialize(g, now) \in HeartbeatRecords /\ Initialize(g, now).exists
      BY <2>1, InitializeType DEF Initialize
    <3> QED BY <1>2, <3>1
  <2>3. InLine(sp, link, cy, old)
    <3>1. CASE heartbeat.exists
      BY <1>1, <3>1
    <3>2. CASE ~heartbeat.exists
      <4>1. \A w \in Beats : sp[w].status = "none"
        BY <1>1, <3>2 DEF InLine
      <4>2. old.managed = NoWake
        BY <3>2 DEF Initialize
      <4> HIDE DEF old
      <4> QED BY <4>1, <4>2 DEF InLine
    <3> QED BY <3>1, <3>2
  <2>4. old.managed # NoWake => sp[old.managed].status \in {"pending", "consumed"}
    BY <1>1 DEF Initialize
  <2> HIDE DEF old
  <2>5. int \in Nat /\ int >= Second /\ Clamp(Policy[g], int) = int
    BY <2>1, <2>2, NextIntervalInPolicy DEF HeartbeatRecords
  <2> HIDE DEF int, g
  <2>6. /\ hb \in HeartbeatRecords /\ hb.exists /\ hb.managed = old.managed /\ hb.pending
        /\ hb.config = g /\ hb.interval = int /\ hb.last = c /\ hb.anchor = now
    BY <1>2, <2>1, <2>2, <2>5 DEF Outcome, HeartbeatRecords
  <2> HIDE DEF hb
  <2>7. InLine(sp, link, cy, hb)
    BY <2>2, <2>3, <2>6 DEF InLine
  <2>8. Retained(cy, hb)
    BY <1>5, <2>5, <2>6 DEF Retained, EndedAt
  <2>9. CASE a = m
    <3>1. link \in [Wakes -> {NoCycle} \cup Cycles]
      BY DEF TypeOK
    <3>2. /\ Timed(sp, m.wake) /\ BeatRows(m.wake) /\ InLine(m.wake, link, cy, m.heartbeat)
          /\ Deferred(m.wake, m.heartbeat) /\ OnTime(m.wake, m.heartbeat)
          /\ Retained(cy, m.heartbeat)
      BY <1>1, <2>4, <2>6, <2>7, <2>8, <3>1, Materialized
    <3> HIDE DEF m
    <3>3. ClaimRows(m.wake, link, cy)
      BY <1>1, <3>2, TimedClaims
    <3> QED BY <2>9, <3>2, <3>3 DEF HeartbeatSound, a, sp
  <2>10. CASE a = [wake |-> sp, heartbeat |-> hb]
    <3>1. a.wake = sp /\ a.heartbeat = hb
      BY <2>10
    <3>2. Deferred(sp, hb) /\ OnTime(sp, hb)
      BY <2>6 DEF Deferred, OnTime
    <3> QED BY <1>1, <2>7, <2>8, <3>1, <3>2 DEF HeartbeatSound, a, sp
  <2> QED BY <1>5, <2>9, <2>10
<1> QED BY <1>3, <1>4, <1>5

-----------------------------------------------------------------------------
(* What a step does to wakes and heartbeat *)

Still == UNCHANGED <<wake, link, cycle, heartbeat>>

Posts(R) == Newcomers(R) /\ wake' = Post(wake, R) /\ UNCHANGED <<link, cycle, heartbeat>>

\* Cycle c is ended and accounted for, after the wakes R were posted.
EndsAfter(c, R) ==
    /\ Newcomers(R) /\ (Allowed \/ R = {})
    /\ \E s \in {"completed", "failed"}, why \in Reasons, now \in Nat : \E ap :
        LET a == Account(Consume(Post(wake, R), c), ap, c, now)
        IN  /\ cycle' = [cycle EXCEPT ![c] = [cycle[c] EXCEPT !.status = s, !.reason = why,
                                                              !.completed = now]]
            /\ wake' = a.wake /\ heartbeat' = a.heartbeat
    /\ UNCHANGED link

\* A run starts without claiming anything.
Opens(r, B) ==
    /\ Starting(r) /\ B \in StartBatch(r)
    /\ wake' = Prepared(r, B) /\ heartbeat' = EnsureHeartbeat(Now(r)).heartbeat
    /\ UNCHANGED <<link, cycle>>

WakeShape == \/ Still
             \/ \E R \in SUBSET Incoming : Posts(R)
             \/ \E c \in ActiveCycles, R \in SUBSET Incoming : EndsAfter(c, R)
             \/ \E r \in Runtimes : Claim(r) \/ \E B \in StartBatch(r) : Opens(r, B)

LEMMA FinishWakes ==
    ASSUME NEW r \in Runtimes, NEW c \in ActiveCycles, NEW now \in Nat,
           NEW status \in {"completed", "failed"}, NEW reason \in Reasons,
           NEW tn, NEW ap, NEW att, NEW R \in SUBSET Incoming, Newcomers(R),
           Allowed \/ R = {},
           Finish(r, c, now, status, reason, tn, Post(wake, R), ap, att)
    PROVE  WakeShape
<1> DEFINE spent == Consume(Post(wake, R), c)
           ended == [cycle EXCEPT ![c] = [@ EXCEPT !.status = status, !.reason = reason,
                                                   !.completed = now]]
<1>1. CASE AccountOk(spent, ended, now)
  <2>1. /\ cycle' = ended /\ UNCHANGED link
        /\ wake' = Account(spent, ap, c, now).wake
        /\ heartbeat' = Account(spent, ap, c, now).heartbeat
    BY <1>1 DEF Finish
  <2>2. EndsAfter(c, R)
    BY <2>1 DEF EndsAfter
  <2> QED BY <2>2 DEF WakeShape
<1>2. CASE ~AccountOk(spent, ended, now)
  BY <1>2 DEF Finish, RollBack, store, WakeShape, Still
<1> QED BY <1>1, <1>2

LEMMA FailWakes ==
    ASSUME TypeOK, NEW r \in Runtimes, NEW c \in ActiveCycles, NEW o, NEW now \in Nat, NEW tn,
           NEW reason \in Reasons, FailTurn(r, c, o, now, tn, reason)
    PROVE  WakeShape
<1> DEFINE failed == [tn EXCEPT ![c][o].status = "failed"]
<1>1. Finish(r, c, now, "failed", reason, failed, wake, applied, attention)
  BY DEF FailTurn
<1> HIDE DEF failed
<1>2. Post(wake, {}) = wake
  BY PostNothing DEF TypeOK
<1>3. Finish(r, c, now, "failed", reason, failed, Post(wake, {}), applied, attention)
  BY <1>1, <1>2
<1>4. Newcomers({}) /\ {} \in SUBSET Incoming
  BY DEF Newcomers
<1> QED BY <1>3, <1>4, FinishWakes

LEMMA LoopWakes ==
    ASSUME TypeInv, CyclesSound, NEW r \in Runtimes, InLoopTurn(r)
    PROVE  WakeShape
<1>1. PICK c \in Cycles : \E o \in DOMAIN turn[c] :
          Reject(r, c, o) \/ Apply(r, c, o) \/ Settle(r, c, o)
  BY DEF InLoopTurn
<1>2. PICK o \in DOMAIN turn[c] : Reject(r, c, o) \/ Apply(r, c, o) \/ Settle(r, c, o)
  BY <1>1
<1>3. c \in ActiveCycles /\ o = Latest(c) /\ turn[c][o] = Row(c) /\ Allowed
  BY <1>2, LoopRow DEF Reject, Apply, Settle
<1>4. TypeOK /\ Now(r) \in Nat /\ Row(c) \in TurnRecords /\ o \in Nat
  BY <1>3, LatestRow, NowType DEF TypeInv
<1>5. CASE Reject(r, c, o)
  <2> DEFINE tn == WithStatus(c, o, "rejected")
  <2>1. Finish(r, c, Now(r), "failed", "decision_rejected", tn, wake, applied, attention)
    BY <1>5 DEF Reject
  <2> HIDE DEF tn
  <2>2. Post(wake, {}) = wake /\ Newcomers({}) /\ {} \in SUBSET Incoming
    BY <1>4, PostNothing DEF TypeOK, Newcomers
  <2>3. Finish(r, c, Now(r), "failed", "decision_rejected", tn, Post(wake, {}), applied, attention)
    BY <2>1, <2>2
  <2> QED BY <1>3, <1>4, <2>2, <2>3, ReasonTypes, FinishWakes
<1>6. CASE Apply(r, c, o)
  <2> DEFINE d    == turn[c][o].decision
             done == WithStatus(c, o, "applied")
             R    == {SelfScheduled(c, q, Now(r)) : q \in d.requests}
             ap   == WithOperations(c, o, d)
             att  == Attended(c)
  <2>1. turn[c][o].status = "decided" /\ ~Rejected(d)
    BY <1>6 DEF Apply
  <2>2. d \in Decisions
    BY <1>3, <1>4, <2>1 DEF TurnRecords
  <2>3. \/ Finish(r, c, Now(r), "completed", EndReason(c, o, d), done, Post(wake, R), ap, att)
        \/ wake' = Post(wake, R) /\ UNCHANGED <<link, cycle, heartbeat>>
    BY <1>6 DEF Apply, WithRequested
  <2> HIDE DEF d, done, ap, att
  <2>4. R \in SUBSET Incoming
    BY <1>4, <2>2, SelfScheduledType
  <2>5. \A q \in d.requests : q.op \in Ops /\ q.op \in Requested(d)
    BY <2>2, DecisionAssumption DEF DecisionRecords, WakeRequests, Requested
  <2>6. \A q \in d.requests : wake[q.op].status = "none"
    BY <2>1, <2>5 DEF Rejected, Reused
  <2>7. \A p \in R : p.id \in Ops /\ p.kind # "heartbeat" /\ wake[p.id].status = "none"
    BY <2>5, <2>6 DEF SelfScheduled
  <2> HIDE DEF R
  <2>8. Newcomers(R)
    BY <2>4, <2>7 DEF Newcomers
  <2>9. EndReason(c, o, d) \in Reasons
    BY <2>2, ReasonTypes DEF EndReason
  <2>10. CASE Finish(r, c, Now(r), "completed", EndReason(c, o, d), done, Post(wake, R), ap, att)
    BY <1>3, <1>4, <2>4, <2>8, <2>9, <2>10, FinishWakes
  <2>11. CASE wake' = Post(wake, R) /\ UNCHANGED <<link, cycle, heartbeat>>
    BY <2>4, <2>8, <2>11 DEF Posts, WakeShape
  <2> QED BY <2>3, <2>10, <2>11
<1>7. CASE Settle(r, c, o)
  <2>1. SpentReason(c, o) \in Reasons
    BY <1>4, ReasonTypes
  <2>2. FailTurn(r, c, o, Now(r), Settled(c, o), SpentReason(c, o)) \/ Still
    BY <1>7 DEF Settle, Still
  <2> QED BY <1>3, <1>4, <2>1, <2>2, FailWakes DEF WakeShape
<1> QED BY <1>2, <1>5, <1>6, <1>7

LEMMA TurnWakes ==
    ASSUME TypeInv, CyclesSound, MemorySound, NEW r \in Runtimes,
           \/ Frozen(r) \/ Freeze(r) \/ CannotFreeze(r) \/ Invoke(r)
           \/ AttemptFails(r) \/ Refused(r) \/ Duplicate(r) \/ Decide(r)
    PROVE  WakeShape
<1> DEFINE c == Held(r)
           o == local[r].ordinal
<1>1. c \in ActiveCycles
  BY HeldRow DEF Frozen, Freeze, CannotFreeze, Invoke, AttemptFails, Refused, Duplicate,
                 Decide, Owns, Inside
<1>2. TypeOK /\ Now(r) \in Nat /\ local[r].now \in Nat /\ o \in Nat
  BY NowType DEF TypeInv, TypeOK, LocalRecords
<1>3. SpentReason(c, o) \in Reasons
  BY <1>1, <1>2, ReasonTypes DEF ActiveCycles
<1>4. \/ Still
      \/ \E now \in Nat, reason \in Reasons : \E tn : FailTurn(r, c, o, now, tn, reason)
  <2>1. CASE Frozen(r) \/ Freeze(r) \/ AttemptFails(r) \/ Decide(r)
    BY <2>1 DEF Frozen, Freeze, AttemptFails, Decide, Still, store
  <2>2. CASE CannotFreeze(r)
    BY <1>2, <2>2, ReasonTypes DEF CannotFreeze
  <2>3. CASE Invoke(r)
    BY <1>2, <1>3, <2>3 DEF Invoke, Still
  <2>4. CASE Refused(r) \/ Duplicate(r)
    BY <1>2, <2>4, ReasonTypes DEF Refused, Duplicate
  <2> QED BY <2>1, <2>2, <2>3, <2>4
<1> QED BY <1>1, <1>2, <1>4, FailWakes DEF WakeShape

LEMMA PostWakePosts ==
    ASSUME TypeOK, PostWake PROVE \E R \in SUBSET Incoming : Posts(R)
<1>1. PICK w \in Posted, k \in Keys \cup {NoKey} :
        /\ wake[w].status = "none"
        /\ wake' = Post(wake, {[id |-> w, kind |-> "bootstrap", due |-> clock,
                                key |-> k, refs |-> {w}]})
  BY DEF PostWake
<1> DEFINE q == [id |-> w, kind |-> "bootstrap", due |-> clock, key |-> k, refs |-> {w}]
<1>2. w \in Wakes /\ clock \in Nat
  BY DEF Wakes, TypeOK
<1>3. q \in Incoming
  BY <1>2 DEF Incoming, WakeKinds
<1>4. q.id = w /\ q.kind = "bootstrap"
  OBVIOUS
<1>5. wake' = Post(wake, {q})
  BY <1>1
<1> HIDE DEF q
<1>6. Newcomers({q})
  BY <1>1, <1>3, <1>4 DEF Newcomers
<1>7. UNCHANGED <<link, cycle, heartbeat>>
  BY DEF PostWake
<1>8. Posts({q})
  BY <1>5, <1>6, <1>7 DEF Posts
<1> QED BY <1>3, <1>8

\* Whatever acts, the wakes change in one of the shapes.
LEMMA StepWakes ==
    ASSUME TurnInv, [Next]_vars PROVE WakeShape
<1>1. TypeInv /\ CyclesSound /\ MemorySound /\ TypeOK
  BY DEF TurnInv, TypeInv
<1>2. ASSUME NEW r \in Runtimes, Runtime(r) \/ Faults(r) PROVE WakeShape
  <2>1. CASE InLoopTurn(r)
    BY <1>1, <2>1, LoopWakes
  <2>2. CASE \/ Frozen(r) \/ Freeze(r) \/ CannotFreeze(r) \/ Invoke(r)
             \/ AttemptFails(r) \/ Refused(r) \/ Duplicate(r) \/ Decide(r)
    BY <1>1, <2>2, TurnWakes
  <2>3. CASE Resume(r) \/ Idle(r)
    <3>1. \E B \in StartBatch(r) : Opens(r, B)
      BY <2>3 DEF Resume, Idle, Opens
    <3> QED BY <3>1 DEF WakeShape
  <2>4. CASE Claim(r)
    BY <2>4 DEF WakeShape
  <2>5. CASE \/ StartBlocked(r) \/ StartFails(r) \/ LeaveLoop(r) \/ InvokeBlocked(r)
             \/ Acquire(r) \/ Close(r) \/ NoticeLoss(r) \/ Crash(r) \/ TransactionFails(r)
    <3>1. Still
      BY <2>5 DEF StartBlocked, StartFails, LeaveLoop, InvokeBlocked, Acquire, Close,
                  NoticeLoss, Crash, TransactionFails, Return, RollBack, store, Still
    <3> QED BY <3>1 DEF WakeShape
  <2> QED BY <1>2, <2>1, <2>2, <2>3, <2>4, <2>5 DEF Runtime, RunOnce, Faults
<1>3. CASE SessionLost \/ Reap \/ Administer \/ UpdateGovernance \/ ReplaceConfig \/ Tick
           \/ UNCHANGED vars
  <2>1. Still
    BY <1>3 DEF SessionLost, Reap, Administer, UpdateGovernance, ReplaceConfig, Tick,
                store, vars, Still
  <2> QED BY <2>1 DEF WakeShape
<1>4. CASE PostWake
  BY <1>1, <1>4, PostWakePosts DEF WakeShape
<1> QED BY <1>2, <1>3, <1>4 DEF Next, Others

\* A start ensures the heartbeat and requeues orphans: every claim stays.
LEMMA PreparedSound ==
    ASSUME TypeOK, WakesSound, NEW r \in Runtimes, NEW B \in StartBatch(r)
    PROVE  LET e == EnsureHeartbeat(Now(r))
           IN  /\ Prepared(r, B) \in [Wakes -> WakeRecords]
               /\ ClaimRows(Prepared(r, B), link, cycle)
               /\ HeartbeatSound(Prepared(r, B), link, cycle, e.heartbeat)
<1> DEFINE e == EnsureHeartbeat(Now(r))
<1>1. Now(r) \in Nat
  BY NowType
<1>2. /\ e.wake \in [Wakes -> WakeRecords] /\ ClaimRows(e.wake, link, cycle)
      /\ HeartbeatSound(e.wake, link, cycle, e.heartbeat)
  BY <1>1, Ensured
<1>3. B \in SUBSET Orphans(e.wake)
  BY DEF StartBatch, EarliestBatch
<1>4. Prepared(r, B) = Recover(e.wake, B)
  BY DEF Prepared
<1> HIDE DEF e
<1>5. B \in SUBSET Legacy /\ \A w \in B : e.wake[w].status = "claimed"
  BY <1>3 DEF Orphans
<1>6. BeatRows(e.wake)
  BY <1>2 DEF HeartbeatSound
<1>7. /\ ClaimRows(Recover(e.wake, B), link, cycle)
      /\ SameBeats(e.wake, Recover(e.wake, B))
      /\ Recover(e.wake, B) \in [Wakes -> WakeRecords]
  BY <1>2, <1>5, <1>6, Recovered
<1>8. HeartbeatSound(Recover(e.wake, B), link, cycle, e.heartbeat)
  BY <1>2, <1>7, SameBeatsSound
<1> QED BY <1>4, <1>7, <1>8 DEF e

\* Claiming pending wakes for a cycle that starts.
LEMMA ClaimedSound ==
    ASSUME TypeOK, StartedInOrder, NEW c \in Cycles, NextCycle(c), ActiveCycles = {},
           NEW wk \in [Wakes -> WakeRecords], NEW hb \in HeartbeatRecords,
           ClaimRows(wk, link, cycle), HeartbeatSound(wk, link, cycle, hb),
           NEW batch \in SUBSET Wakes, \A w \in batch : wk[w].status = "pending",
           NEW wk2, wk2 = [w \in Wakes |-> IF w \in batch THEN [wk[w] EXCEPT !.status = "claimed"]
                                           ELSE wk[w]],
           NEW lk2, lk2 = [w \in Wakes |-> IF w \in batch THEN c ELSE link[w]],
           NEW cy2, cy2[c].status = "active",
           \A b \in Cycles : b # c => cy2[b] = cycle[b]
    PROVE  ClaimRows(wk2, lk2, cy2) /\ HeartbeatSound(wk2, lk2, cy2, hb)
<1>1. cycle[c].status = "none" /\ c # NoCycle /\ c \in Int
      /\ \A b \in Cycles : cycle[b].status # "active"
  BY BoundAssumption DEF NextCycle, ActiveCycles, Cycles, NoCycle
<1>2. \A w \in Wakes :
          /\ w \in batch => /\ wk2[w].status = "claimed" /\ wk2[w].kind = wk[w].kind
                            /\ wk2[w].key = wk[w].key /\ lk2[w] = c
          /\ w \notin batch => wk2[w] = wk[w] /\ lk2[w] = link[w]
  BY DEF WakeRecords
<1>3. \A w \in Wakes : link[w] # c \/ w \in Legacy
  <2> SUFFICES ASSUME NEW w \in Wakes, link[w] = c, w \notin Legacy PROVE FALSE
    OBVIOUS
  <2>1. ClaimRow(w, wk, link, cycle)
    BY DEF ClaimRows
  <2> QED BY <1>1, <2>1 DEF ClaimRow
<1>4. ASSUME NEW w \in Wakes PROVE ClaimRow(w, wk2, lk2, cy2)
  <2>1. ClaimRow(w, wk, link, cycle)
    BY DEF ClaimRows
  <2>2. CASE w \in Legacy
    <3>1. w \notin batch /\ wk2[w] = wk[w] /\ lk2[w] = link[w]
      BY <1>2, <2>1, <2>2 DEF ClaimRow
    <3>2. Again(w) \in Wakes
      BY <2>2, Names DEF Agains
    <3>3. wk[w].status = "claimed" => wk2[Again(w)].status = "none"
      BY <1>2, <2>1, <2>2, <3>2 DEF ClaimRow
    <3> QED BY <2>1, <2>2, <3>1, <3>3 DEF ClaimRow
  <2>3. CASE w \notin Legacy /\ w \in batch
    <3>1. lk2[w] = c /\ wk2[w].status = "claimed"
      BY <1>2, <2>3
    <3>2. lk2[w] # NoCycle /\ lk2[w] \in Cycles /\ cy2[lk2[w]].status = "active"
      BY <1>1, <3>1
    <3> QED BY <2>3, <3>1, <3>2 DEF ClaimRow
  <2>4. CASE w \notin Legacy /\ w \notin batch
    BY <1>1, <1>2, <1>3, <2>1, <2>4 DEF ClaimRow
  <2> QED BY <2>2, <2>3, <2>4
<1>5. ClaimRows(wk2, lk2, cy2)
  BY <1>4 DEF ClaimRows
<1>6. \A w \in Beats : w \in Wakes
  BY Names
<1>7. BeatRows(wk2)
  BY <1>2, <1>6 DEF HeartbeatSound, BeatRows
<1> HIDE DEF NextCycle
<1>8. InLine(wk2, lk2, cy2, hb)
  <2>1. CASE ~hb.exists \/ hb.managed = NoWake
    <3>1. \A w \in Beats : wk[w].status = "none"
      BY <2>1 DEF HeartbeatSound, InLine
    <3>2. \A w \in Beats : wk2[w].status = "none"
      BY <1>2, <1>6, <3>1
    <3> QED BY <2>1, <3>2 DEF InLine
  <2>2. CASE ~ (~hb.exists \/ hb.managed = NoWake)
    <3>1. PICK m \in {NoCycle} \cup Cycles : hb.managed = Beat(m) /\ InLineAt(m, wk, link, cycle)
      BY <2>2 DEF HeartbeatSound, InLine
    <3>2. \A b \in {NoCycle} \cup Cycles : Beat(b) \in Wakes
      BY <1>6, Names
    <3>3. c > m
      <4>1. CASE m = NoCycle
        BY <4>1, BoundAssumption DEF NoCycle, Cycles
      <4>2. CASE m # NoCycle
        <5>1. m \in Cycles /\ Started(m)
          BY <3>1, <4>2 DEF InLineAt, Started
        <5>2. ~Started(c)
          BY <1>1 DEF Started
        <5>3. c \notin 1 .. m
          BY <5>1, <5>2 DEF StartedInOrder
        <5> QED BY <5>1, <5>3, BoundAssumption DEF Cycles
      <4> QED BY <4>1, <4>2
    <3>4. m # NoCycle => cy2[m].status # "none"
      BY <1>1, <3>1 DEF InLineAt
    <3>5. wk2[Beat(m)].status \in {"pending", "claimed", "consumed"}
      BY <1>2, <3>1, <3>2 DEF InLineAt
    <3>6. lk2[Beat(m)] # NoCycle => lk2[Beat(m)] > m
      BY <1>2, <3>1, <3>2, <3>3 DEF InLineAt
    <3>7. \A b \in {NoCycle} \cup Cycles :
              /\ b > m => wk2[Beat(b)].status = "none"
              /\ b < m => wk2[Beat(b)].status \in {"none", "consumed"}
      BY <1>2, <3>1, <3>2 DEF InLineAt
    <3> QED BY <2>2, <3>1, <3>4, <3>5, <3>6, <3>7 DEF InLine, InLineAt
  <2> QED BY <2>1, <2>2
<1>9. Retained(cy2, hb)
  <2>1. hb.last \in {NoCycle} \cup Cycles
    BY DEF HeartbeatRecords
  <2> QED BY <1>1, <2>1 DEF HeartbeatSound, Retained
<1>10. Deferred(wk2, hb)
  <2> SUFFICES ASSUME hb.exists, hb.managed # NoWake, wk2[hb.managed].status = "consumed"
               PROVE  hb.pending
    BY DEF HeartbeatSound, Deferred
  <2>1. hb.managed \in Wakes
    BY ManagedBeat DEF HeartbeatSound
  <2> QED BY <1>2, <2>1 DEF HeartbeatSound, Deferred
<1>11. ~ \A b \in Cycles : cy2[b].status # "active"
  OBVIOUS
<1> QED BY <1>5, <1>7, <1>8, <1>9, <1>10, <1>11 DEF HeartbeatSound

LEMMA WakesFinite == IsFiniteSet(Wakes)
<1> DEFINE near == {NoCycle} \cup Cycles
           f    == [c \in near |-> Beat(c)]
           g    == [w \in Legacy |-> Again(w)]
<1>1. IsFiniteSet(near)
  <2>1. near = 0 .. MaxCycles
    BY BoundAssumption DEF NoCycle, Cycles
  <2>2. MaxCycles \in Int /\ 0 \in Int
    BY BoundAssumption
  <2> QED BY <2>1, <2>2, FS_Interval
<1>2. f \in Surjection(near, Beats)
  BY DEF Beats, Surjection
<1>3. g \in Surjection(Legacy, Agains)
  BY DEF Agains, Surjection
<1>4. IsFiniteSet(Beats)
  BY <1>1, <1>2, FS_Surjection
<1>5. IsFiniteSet(Agains)
  BY <1>3, FiniteAssumption, FS_Surjection
<1>6. IsFiniteSet({Bootstrap})
  BY FS_Singleton
<1>7. IsFiniteSet(Ops \cup {Bootstrap})
  BY <1>6, FiniteAssumption, FS_Union
<1>8. IsFiniteSet(Ops \cup {Bootstrap} \cup Posted)
  BY <1>7, FiniteAssumption, FS_Union
<1>9. IsFiniteSet(Ops \cup {Bootstrap} \cup Posted \cup Legacy)
  BY <1>8, FiniteAssumption, FS_Union
<1>10. IsFiniteSet(Ops \cup {Bootstrap} \cup Posted \cup Legacy \cup Beats)
  BY <1>4, <1>9, FS_Union
<1>11. IsFiniteSet((Ops \cup {Bootstrap} \cup Posted \cup Legacy \cup Beats) \cup Agains)
  BY <1>5, <1>10, FS_Union
<1> QED BY <1>11 DEF Wakes, Agains

\* The wakes a claim takes: at least one, at most the limit.
LEMMA BatchSize ==
    ASSUME NEW wk, NEW S \in SUBSET Wakes, S # {}, NEW n \in Nat \ {0},
           NEW B \in EarliestBatch(wk, S, n)
    PROVE  B \in SUBSET S /\ B # {} /\ Cardinality(B) <= n
<1>1. IsFiniteSet(S) /\ IsFiniteSet(B) /\ B \in SUBSET S
  BY WakesFinite, FS_Subset DEF EarliestBatch
<1>2. Cardinality(S) \in Nat /\ Cardinality(S) # 0
  BY <1>1, FS_CardinalityType, FS_EmptySet
<1>3. Cardinality(B) = Lesser(n, Cardinality(S))
  BY DEF EarliestBatch
<1>4. Cardinality(B) # 0 /\ Cardinality(B) <= n
  BY <1>2, <1>3 DEF Lesser
<1> QED BY <1>1, <1>4, FS_EmptySet

\* The transaction that claims, taken apart.
LEMMA ClaimParts ==
    ASSUME TypeInv, NEW r \in Runtimes, Claim(r)
    PROVE  /\ ActiveCycles = {} /\ heartbeat' = EnsureHeartbeat(Now(r)).heartbeat
           /\ \E c \in Cycles, B \in StartBatch(r), batch \in SUBSET Wakes :
                LET wk == Prepared(r, B)
                IN  /\ NextCycle(c)
                    /\ \A w \in batch : wk[w].status = "pending"
                    /\ batch # {} /\ Cardinality(batch) <= Limits[r].wakes
                    /\ wake' = [w \in Wakes |->
                                   IF w \in batch THEN [wk[w] EXCEPT !.status = "claimed"]
                                   ELSE wk[w]]
                    /\ link' = [w \in Wakes |-> IF w \in batch THEN c ELSE link[w]]
                    /\ cycle'[c].status = "active" /\ cycle'[c].limits = Limits[r]
                    /\ \A b \in Cycles : b # c => cycle'[b] = cycle[b]
<1>1. PICK c \in Cycles, B \in StartBatch(r) :
        /\ NextCycle(c)
        /\ \E held \in Locked(Prepared(r, B)) :
            /\ FirstDue(Prepared(r, B), Now(r)) \ held # {}
            /\ \E batch \in EarliestBatch(Prepared(r, B),
                                          Due(Prepared(r, B), Now(r)) \ held, Limits[r].wakes) :
                /\ wake' = [w \in Wakes |->
                               IF w \in batch THEN [Prepared(r, B)[w] EXCEPT !.status = "claimed"]
                               ELSE Prepared(r, B)[w]]
                /\ link' = [w \in Wakes |-> IF w \in batch THEN c ELSE link[w]]
        /\ cycle' = [cycle EXCEPT ![c] =
                        [status |-> "active", reason |-> "none", completed |-> 0,
                         deadline |-> Now(r) + Limits[r].seconds, limits |-> Limits[r]]]
  BY DEF Claim
<1> DEFINE wk == Prepared(r, B)
<1>2. PICK held : 
            /\ FirstDue(wk, Now(r)) \ held # {}
            /\ \E batch \in EarliestBatch(wk, Due(wk, Now(r)) \ held, Limits[r].wakes) :
                /\ wake' = [w \in Wakes |->
                               IF w \in batch THEN [wk[w] EXCEPT !.status = "claimed"]
                               ELSE wk[w]]
                /\ link' = [w \in Wakes |-> IF w \in batch THEN c ELSE link[w]]
  BY <1>1
<1> HIDE DEF wk
<1> DEFINE S == Due(wk, Now(r)) \ held
<1>3. PICK batch \in EarliestBatch(wk, S, Limits[r].wakes) :
                /\ wake' = [w \in Wakes |->
                               IF w \in batch THEN [wk[w] EXCEPT !.status = "claimed"]
                               ELSE wk[w]]
                /\ link' = [w \in Wakes |-> IF w \in batch THEN c ELSE link[w]]
  BY <1>2
<1>4. Limits[r].wakes \in Nat \ {0}
  BY RuntimeAssumption DEF LimitRecords
<1>5. S \in SUBSET Wakes /\ S # {} /\ \A w \in S : wk[w].status = "pending"
  BY <1>2 DEF FirstDue, Due
<1> HIDE DEF S
<1>6. batch \in SUBSET S /\ batch # {} /\ Cardinality(batch) <= Limits[r].wakes
  BY <1>4, <1>5, BatchSize
<1>7. batch \in SUBSET Wakes /\ \A w \in batch : wk[w].status = "pending"
  BY <1>5, <1>6
<1>8. /\ cycle'[c].status = "active" /\ cycle'[c].limits = Limits[r]
      /\ \A b \in Cycles : b # c => cycle'[b] = cycle[b]
  BY <1>1 DEF TypeInv, TypeOK
<1>9. NextCycle(c)
  BY <1>1
<1>10. ActiveCycles = {} /\ heartbeat' = EnsureHeartbeat(Now(r)).heartbeat
  BY DEF Claim
<1> QED BY <1>3, <1>6, <1>7, <1>8, <1>9, <1>10 DEF wk

LEMMA BatchesKept ==
    ASSUME BatchesSound, UNCHANGED link,
           \A c \in Cycles : /\ cycle'[c].limits = cycle[c].limits
                             /\ cycle'[c].status = "active" => cycle[c].status = "active"
    PROVE  BatchesSound'
BY DEF BatchesSound, ActiveCycles

LEMMA WakesEnd ==
    ASSUME TypeOK, OneActive, WakesSound, NEW c \in ActiveCycles, NEW R \in SUBSET Incoming,
           EndsAfter(c, R)
    PROVE  WakesSound'
<1>1. PICK s \in {"completed", "failed"}, why \in Reasons, now \in Nat : \E ap :
        LET a == Account(Consume(Post(wake, R), c), ap, c, now)
        IN  /\ cycle' = [cycle EXCEPT ![c] = [cycle[c] EXCEPT !.status = s, !.reason = why,
                                                              !.completed = now]]
            /\ wake' = a.wake /\ heartbeat' = a.heartbeat
  BY DEF EndsAfter
<1>2. PICK ap :
        LET a == Account(Consume(Post(wake, R), c), ap, c, now)
        IN  /\ cycle' = [cycle EXCEPT ![c] = [cycle[c] EXCEPT !.status = s, !.reason = why,
                                                              !.completed = now]]
            /\ wake' = a.wake /\ heartbeat' = a.heartbeat
  BY <1>1
<1> DEFINE wk == Post(wake, R)
           a  == Account(Consume(wk, c), ap, c, now)
<1>3. /\ wake' = a.wake /\ heartbeat' = a.heartbeat
      /\ cycle' = [cycle EXCEPT ![c] = [cycle[c] EXCEPT !.status = s, !.reason = why,
                                                        !.completed = now]]
  BY <1>2
<1>4. /\ wk \in [Wakes -> WakeRecords] /\ ClaimRows(wk, link, cycle)
      /\ HeartbeatSound(wk, link, cycle, heartbeat)
  <2>1. Newcomers(R)
    BY DEF EndsAfter
  <2> QED BY <2>1, NewcomersPosted
<1>5. c \in Cycles /\ cycle[c].status = "active" /\ cycle[c] \in CycleRecords
  BY DEF ActiveCycles, TypeOK
<1>6. /\ \A b \in Cycles : b # c => cycle'[b] = cycle[b]
      /\ cycle'[c].status = s /\ cycle'[c].completed = now
      /\ cycle'[c].limits = cycle[c].limits
  BY <1>3, <1>5 DEF TypeOK, CycleRecords
<1>7. EndedAt(cycle', c, now)
  BY <1>6 DEF EndedAt
<1>8. UNCHANGED link
  BY DEF EndsAfter
<1> HIDE DEF wk
<1>9. ClaimRows(a.wake, link, cycle') /\ HeartbeatSound(a.wake, link, cycle', a.heartbeat)
  BY <1>4, <1>7, Accounted
<1> HIDE DEF a
<1>10. ClaimRows(wake', link', cycle') /\ HeartbeatSound(wake', link', cycle', heartbeat')
  BY <1>3, <1>8, <1>9
<1>11. BatchesSound'
  BY <1>5, <1>6, <1>8, BatchesKept DEF WakesSound
<1> QED BY <1>10, <1>11 DEF WakesSound

LEMMA WakesClaimed ==
    ASSUME TypeInv, StartedInOrder, WakesSound, NEW r \in Runtimes, Claim(r)
    PROVE  WakesSound'
<1> DEFINE hb == EnsureHeartbeat(Now(r)).heartbeat
<1>1. ActiveCycles = {} /\ heartbeat' = hb
  BY ClaimParts
<1>2. PICK c \in Cycles, B \in StartBatch(r), batch \in SUBSET Wakes :
        LET wk == Prepared(r, B)
        IN  /\ NextCycle(c)
            /\ \A w \in batch : wk[w].status = "pending"
            /\ batch # {} /\ Cardinality(batch) <= Limits[r].wakes
            /\ wake' = [w \in Wakes |->
                           IF w \in batch THEN [wk[w] EXCEPT !.status = "claimed"]
                           ELSE wk[w]]
            /\ link' = [w \in Wakes |-> IF w \in batch THEN c ELSE link[w]]
            /\ cycle'[c].status = "active" /\ cycle'[c].limits = Limits[r]
            /\ \A b \in Cycles : b # c => cycle'[b] = cycle[b]
  BY ClaimParts
<1> DEFINE wk == Prepared(r, B)
<1>3. TypeOK /\ hb \in HeartbeatRecords
  BY PreparedType DEF TypeInv
<1>4. /\ wk \in [Wakes -> WakeRecords] /\ ClaimRows(wk, link, cycle)
      /\ HeartbeatSound(wk, link, cycle, hb)
  BY <1>3, PreparedSound
<1>5. /\ NextCycle(c) /\ \A w \in batch : wk[w].status = "pending"
      /\ wake' = [w \in Wakes |-> IF w \in batch THEN [wk[w] EXCEPT !.status = "claimed"]
                                  ELSE wk[w]]
      /\ link' = [w \in Wakes |-> IF w \in batch THEN c ELSE link[w]]
      /\ cycle'[c].status = "active" /\ \A b \in Cycles : b # c => cycle'[b] = cycle[b]
  BY <1>2
<1>6. batch # {} /\ Cardinality(batch) <= Limits[r].wakes /\ cycle'[c].limits = Limits[r]
  BY <1>2
<1> HIDE DEF wk, hb
<1>7. ClaimRows(wake', link', cycle') /\ HeartbeatSound(wake', link', cycle', hb)
  BY <1>1, <1>3, <1>4, <1>5, ClaimedSound
<1>8. \A w \in Wakes : link[w] # c
  <2> SUFFICES ASSUME NEW w \in Wakes, link[w] = c PROVE FALSE
    OBVIOUS
  <2>1. ClaimRow(w, wake, link, cycle) /\ c # NoCycle
    BY BoundAssumption DEF WakesSound, ClaimRows, Cycles, NoCycle
  <2> QED BY <1>5, <2>1 DEF ClaimRow, NextCycle
<1>9. BatchesSound'
  <2>1. ASSUME NEW b \in ActiveCycles' PROVE \E w \in Wakes : link'[w] = b
    <3>1. b = c
      BY <1>1, <1>5, <2>1 DEF ActiveCycles
    <3> QED BY <1>5, <1>6, <3>1
  <2>2. ASSUME NEW b \in Cycles
        PROVE  Cardinality({w \in Wakes : link'[w] = b}) <= cycle'[b].limits.wakes
    <3>1. CASE b = c
      <4>1. {w \in Wakes : link'[w] = c} = batch
        BY <1>5, <1>8
      <4> QED BY <1>6, <3>1, <4>1
    <3>2. CASE b # c
      <4> DEFINE old == {w \in Wakes : link[w] = b}
                 new == {w \in Wakes : link'[w] = b}
      <4>1. new \in SUBSET old /\ old \in SUBSET Wakes
        BY <1>5, <3>2
      <4> HIDE DEF old, new
      <4>2. IsFiniteSet(old)
        BY <4>1, WakesFinite, FS_Subset
      <4>3. Cardinality(new) <= Cardinality(old) /\ IsFiniteSet(new)
        BY <4>1, <4>2, FS_Subset
      <4>4. Cardinality(new) \in Nat /\ Cardinality(old) \in Nat
        BY <4>2, <4>3, FS_CardinalityType
      <4>5. Cardinality(old) <= cycle[b].limits.wakes /\ cycle[b].limits.wakes \in Nat
        BY <1>3 DEF old, WakesSound, BatchesSound, TypeOK, CycleRecords, LimitRecords
      <4>6. cycle'[b] = cycle[b]
        BY <1>5, <3>2
      <4>7. Cardinality(new) <= cycle'[b].limits.wakes
        BY <4>3, <4>4, <4>5, <4>6
      <4> QED BY <4>7 DEF new
    <3> QED BY <3>1, <3>2
  <2> QED BY <2>1, <2>2 DEF BatchesSound
<1> QED BY <1>1, <1>7, <1>9 DEF WakesSound

LEMMA WakesStep ==
    ASSUME TurnInv, WakesSound, WakeShape PROVE WakesSound'
<1>1. TypeInv /\ TypeOK /\ OneActive /\ StartedInOrder
  BY DEF TurnInv, TypeInv, CyclesSound
<1>2. CASE Still
  BY <1>2 DEF Still, WakesSound, BatchesSound, ActiveCycles
<1>3. ASSUME NEW R \in SUBSET Incoming, Posts(R) PROVE WakesSound'
  <2>1. /\ ClaimRows(wake', link, cycle) /\ HeartbeatSound(wake', link, cycle, heartbeat)
        /\ UNCHANGED <<link, cycle, heartbeat>>
    BY <1>1, <1>3, NewcomersPosted DEF Posts
  <2>2. BatchesSound'
    BY <2>1, BatchesKept DEF WakesSound
  <2> QED BY <2>1, <2>2 DEF WakesSound
<1>4. ASSUME NEW c \in ActiveCycles, NEW R \in SUBSET Incoming, EndsAfter(c, R)
      PROVE  WakesSound'
  BY <1>1, <1>4, WakesEnd
<1>5. ASSUME NEW r \in Runtimes, Claim(r) PROVE WakesSound'
  BY <1>1, <1>5, WakesClaimed
<1>6. ASSUME NEW r \in Runtimes, NEW B \in StartBatch(r), Opens(r, B) PROVE WakesSound'
  <2>1. /\ ClaimRows(wake', link, cycle) /\ HeartbeatSound(wake', link, cycle, heartbeat')
        /\ UNCHANGED <<link, cycle>>
    BY <1>1, <1>6, PreparedSound DEF Opens
  <2>2. BatchesSound'
    BY <2>1, BatchesKept DEF WakesSound
  <2> QED BY <2>1, <2>2 DEF WakesSound
<1> QED BY <1>2, <1>3, <1>4, <1>5, <1>6 DEF WakeShape

LEMMA InitWakes == Init => WakesSound
<1> SUFFICES ASSUME Init PROVE WakesSound
  OBVIOUS
<1>1. /\ \A w \in Wakes : link[w] = NoCycle
      /\ \A w \in Wakes : wake[w].kind = "bootstrap"
      /\ \A w \in Wakes \ (Legacy \cup {Bootstrap}) : wake[w].status = "none"
      /\ \A w \in Legacy : wake[w].status = "claimed"
      /\ wake[Bootstrap].status = "pending"
      /\ ~heartbeat.exists
  <2>1. Bootstrap \in Wakes /\ Bootstrap \notin Legacy /\ Legacy \subseteq Wakes
    BY Names DEF Wakes
  <2>2. wake = [w \in Wakes |->
                  IF w = Bootstrap
                  THEN [NoWakeRow EXCEPT !.status = "pending", !.refs = {w},
                                         !.key = BootstrapKey]
                  ELSE IF w \in Legacy
                  THEN [NoWakeRow EXCEPT !.status = "claimed", !.refs = {w}]
                  ELSE NoWakeRow]
    BY DEF Init
  <2>3. \A w \in Wakes :
           wake[w] = IF w = Bootstrap
                     THEN [NoWakeRow EXCEPT !.status = "pending", !.refs = {w},
                                            !.key = BootstrapKey]
                     ELSE IF w \in Legacy
                     THEN [NoWakeRow EXCEPT !.status = "claimed", !.refs = {w}]
                     ELSE NoWakeRow
    BY <2>2
  <2>4. \A w \in Wakes : /\ wake[w].kind = "bootstrap"
                          /\ wake[w].status = IF w = Bootstrap THEN "pending"
                                              ELSE IF w \in Legacy THEN "claimed" ELSE "none"
    <3> SUFFICES ASSUME NEW w \in Wakes
                 PROVE  /\ wake[w].kind = "bootstrap"
                        /\ wake[w].status = IF w = Bootstrap THEN "pending"
                                            ELSE IF w \in Legacy THEN "claimed" ELSE "none"
      OBVIOUS
    <3>1. CASE w = Bootstrap
      <4>1. wake[w] = [NoWakeRow EXCEPT !.status = "pending", !.refs = {w},
                                        !.key = BootstrapKey]
        BY <2>3, <3>1
      <4> QED BY <3>1, <4>1 DEF NoWakeRow
    <3>2. CASE w # Bootstrap /\ w \in Legacy
      <4>1. wake[w] = [NoWakeRow EXCEPT !.status = "claimed", !.refs = {w}]
        BY <2>3, <3>2
      <4> QED BY <3>2, <4>1 DEF NoWakeRow
    <3>3. CASE w # Bootstrap /\ w \notin Legacy
      <4>1. wake[w] = NoWakeRow
        BY <2>3, <3>3
      <4> QED BY <3>3, <4>1 DEF NoWakeRow
    <3> QED BY <3>1, <3>2, <3>3
  <2>5. (\A w \in Wakes : link[w] = NoCycle) /\ ~heartbeat.exists
    BY DEF Init
  <2> QED BY <2>1, <2>4, <2>5
<1>2. \A c \in Cycles : cycle[c].status = "none" /\ cycle[c].limits.wakes = 1
  BY DEF Init
<1>3. ASSUME NEW w \in Wakes PROVE ClaimRow(w, wake, link, cycle)
  <2>1. CASE w \in Legacy
    <3>1. Again(w) \in Wakes /\ Again(w) \notin Legacy /\ Again(w) # Bootstrap
      BY <2>1, Names DEF Agains
    <3> QED BY <1>1, <2>1, <3>1 DEF ClaimRow
  <2>2. CASE w \notin Legacy
    BY <1>1, <2>2 DEF ClaimRow
  <2> QED BY <2>1, <2>2
<1>4. \A w \in Beats : w \in Wakes \ (Legacy \cup {Bootstrap})
  BY Names
<1>5. BeatRows(wake) /\ InLine(wake, link, cycle, heartbeat)
  BY <1>1, <1>4 DEF BeatRows, InLine
<1>6. Retained(cycle, heartbeat) /\ Deferred(wake, heartbeat) /\ OnTime(wake, heartbeat)
  BY <1>1 DEF Retained, Deferred, OnTime
<1>7. BatchesSound
  <2>1. ASSUME NEW c \in Cycles PROVE {w \in Wakes : link[w] = c} = {}
    BY <1>1, BoundAssumption DEF Cycles, NoCycle
  <2>2. \A c \in Cycles : Cardinality({w \in Wakes : link[w] = c}) = 0
    BY <2>1, FS_EmptySet
  <2> QED BY <1>2, <2>2 DEF BatchesSound, ActiveCycles
<1> QED BY <1>3, <1>5, <1>6, <1>7 DEF WakesSound, ClaimRows, HeartbeatSound

WakeInv == TurnInv /\ WakesSound

LEMMA WakeInvariant == Spec => []WakeInv
<1>1. Init => WakeInv
  BY InitTurns, InitWakes DEF WakeInv
<1>2. WakeInv /\ [Next]_vars => WakeInv'
  BY TurnStep, StepWakes, WakesStep DEF WakeInv
<1> QED BY <1>1, <1>2, PTL DEF Spec

\* No two cycles are active.
LEMMA ActiveAtMostOne ==
    ASSUME OneActive PROVE Cardinality(ActiveCycles) <= 1
<1>1. CASE ActiveCycles = {}
  BY <1>1, FS_EmptySet
<1>2. CASE ActiveCycles # {}
  <2>1. PICK c \in ActiveCycles : ActiveCycles = {c}
    BY <1>2 DEF OneActive
  <2> QED BY <2>1, FS_Singleton
<1> QED BY <1>1, <1>2

LEMMA ClaimsFollow ==
    ASSUME TypeInv, OneActive, WakesSound PROVE ClaimsFollowCycle
<1>1. ASSUME NEW w \in Wakes
      PROVE  IF link[w] = NoCycle THEN wake[w].status # "consumed"
             ELSE wake[w].status =
                      IF cycle[link[w]].status = "active" THEN "claimed" ELSE "consumed"
  <2>1. ClaimRow(w, wake, link, cycle)
    BY DEF WakesSound, ClaimRows
  <2> QED BY <2>1 DEF ClaimRow
<1> QED BY <1>1, ActiveAtMostOne DEF ClaimsFollowCycle, WakesSound, BatchesSound

LEMMA ConsistentFromInv == WakeInv => CyclesConsistent
<1> SUFFICES ASSUME WakeInv PROVE CyclesConsistent
  OBVIOUS
<1>1. ClaimsFollowCycle
  BY ClaimsFollow DEF WakeInv, TurnInv, CyclesSound
<1>2. ASSUME NEW c \in Cycles, cycle[c].status = "active" PROVE turn[c] # <<>>
  BY <1>2 DEF WakeInv, TurnInv, CyclesSound, TurnsSound, Latest
<1>3. ASSUME NEW c \in Cycles, NEW o \in DOMAIN turn[c]
      PROVE  LET t == turn[c][o]
             IN  /\ t.status \in Unfinished <=> cycle[c].status = "active" /\ o = Latest(c)
                 /\ o < Latest(c) => t.status = "applied"
                 /\ TurnSound(t)
  BY DEF WakeInv, TurnInv, CyclesSound, TurnsSound
<1> QED BY <1>1, <1>2, <1>3 DEF CyclesConsistent, TurnSound, Carrying

\* ClaimsFollowCycle and the checks of db/checks.py on turns, attempts and
\* decisions hold of every cycle, whatever crashed, failed over or raced
\* (CyclesConsistent).
THEOREM CyclesStayConsistent == Spec => []CyclesConsistent
BY WakeInvariant, ConsistentFromInv, PTL

\* The CycleLimits persisted with a cycle (stores/cognition.py, start_cycle)
\* bound its turns, its attempts and its batch of wakes, whatever limits the
\* runtimes that continue it were constructed with (WithinLimits).
THEOREM LimitsHold == Spec => []WithinLimits
<1>1. WakeInv => WithinLimits
  BY DEF WakeInv, TurnInv, WakesSound, BatchesSound, CyclesSound, TurnsSound, WithinLimits
<1> QED BY <1>1, WakeInvariant, PTL

LEMMA ManagedIsLast ==
    ASSUME BeatRows(wake), InLine(wake, link, cycle, heartbeat), heartbeat.exists,
           NEW w \in Wakes, wake[w].kind = "heartbeat", wake[w].status \in {"pending", "claimed"}
    PROVE  w = heartbeat.managed
<1>1. w \in Beats
  BY DEF BeatRows
<1>2. heartbeat.managed # NoWake
  BY <1>1 DEF InLine
<1>3. PICK m \in {NoCycle} \cup Cycles :
          heartbeat.managed = Beat(m) /\ InLineAt(m, wake, link, cycle)
  BY <1>2 DEF InLine
<1>4. PICK b \in {NoCycle} \cup Cycles : w = Beat(b)
  BY <1>1, Names
<1>5. ~ (b > m) /\ ~ (b < m)
  BY <1>3, <1>4 DEF InLineAt
<1>6. b = m
  BY <1>5, BoundAssumption DEF NoCycle, Cycles
<1> QED BY <1>3, <1>4, <1>6

LEMMA SchedulerFromInv == WakeInv => SchedulerConsistent
<1> SUFFICES ASSUME WakeInv, heartbeat.exists
             PROVE  HeartbeatKept /\ SchedulerValid(wake, cycle, heartbeat, FALSE)
  BY DEF SchedulerConsistent
<1>1. /\ ClaimRows(wake, link, cycle) /\ BeatRows(wake) /\ InLine(wake, link, cycle, heartbeat)
      /\ Retained(cycle, heartbeat) /\ Deferred(wake, heartbeat)
      /\ ActiveCycles = {} => OnTime(wake, heartbeat)
  BY DEF WakeInv, WakesSound, HeartbeatSound, ActiveCycles
<1>2. HeartbeatKept
  BY <1>1, ManagedIsLast DEF HeartbeatKept, OnTime
<1>3. ASSUME heartbeat.managed # NoWake
      PROVE  /\ wake[heartbeat.managed].kind = "heartbeat"
             /\ wake[heartbeat.managed].key = NoKey
             /\ wake[heartbeat.managed].status = "consumed" => heartbeat.pending
             /\ wake[heartbeat.managed].status = "claimed" =>
                    link[heartbeat.managed] # NoCycle
                    /\ cycle[link[heartbeat.managed]].status = "active"
  <2>1. /\ heartbeat.managed \in Beats
        /\ wake[heartbeat.managed].status \in {"pending", "claimed", "consumed"}
        /\ wake[heartbeat.managed].status = "claimed" =>
               link[heartbeat.managed] \in Cycles
               /\ cycle[link[heartbeat.managed]].status = "active"
    BY <1>1, <1>3, ManagedBeat
  <2>2. NoCycle \notin Cycles
    BY BoundAssumption DEF NoCycle, Cycles
  <2> QED BY <1>1, <1>3, <2>1, <2>2 DEF BeatRows, Deferred
<1>4. heartbeat.managed = NoWake => heartbeat.pending
  BY <1>1 DEF Deferred
<1> QED BY <1>1, <1>2, <1>3, <1>4 DEF SchedulerValid, Retained

\* One managed heartbeat, due when the retained policy says, that no run, pause,
\* crash or configuration change loses, doubles or moves; and the validation of
\* stores/autonomy.py (_state) never refuses what it reads (SchedulerConsistent).
THEOREM SchedulerStaysConsistent == Spec => []SchedulerConsistent
BY WakeInvariant, SchedulerFromInv, PTL

-----------------------------------------------------------------------------
(* A pause *)

LEMMA PausedTurns ==
    ASSUME TypeInv, CyclesSound, ~Allowed, Quiet \/ \E c \in Cycles : Shape(c)
    PROVE  /\ link' = link /\ applied' = applied /\ attention' = attention
           /\ \A b \in Cycles :
               /\ Len(turn'[b]) = Len(turn[b])
               /\ \A o \in DOMAIN turn[b] :
                      Len(turn'[b][o].attempts) = Len(turn[b][o].attempts)
<1>1. CASE Quiet
  BY <1>1 DEF Quiet
<1>2. CASE \E c \in Cycles : Shape(c)
  <2>1. PICK c \in Cycles, t \in TurnRecords : Edits(c, t) /\ SameTries(c, t)
    BY <1>2 DEF Shape, GoesOn, Decides, Fails, OneMoreTry, Rejects, Applies, Judges, Claims
  <2>2. Latest(c) \in DOMAIN turn[c] /\ turn' = Put(c, Latest(c), t)
    BY <2>1, LatestRow DEF Edits
  <2>3. /\ \A b \in Cycles : Len(turn'[b]) = Len(turn[b])
        /\ \A b \in Cycles : \A o \in DOMAIN turn[b] :
               turn'[b][o] = IF b = c /\ o = Latest(c) THEN t ELSE turn[b][o]
    BY <2>1, <2>2, PutType DEF TypeInv
  <2> QED BY <2>1, <2>3 DEF Edits, SameTries, Row
<1> QED BY <1>1, <1>2

LEMMA PausedBeats ==
    ASSUME TypeOK, WakesSound, ~Allowed, WakeShape,
           NEW w \in Wakes, wake[w].kind = "heartbeat" \/ wake'[w].kind = "heartbeat"
    PROVE  wake'[w].due = wake[w].due
<1>1. CASE Still
  BY <1>1 DEF Still
<1>2. ASSUME NEW R \in SUBSET Incoming, Posts(R) PROVE wake'[w].due = wake[w].due
  <2>1. SameBeats(wake, wake')
    BY <1>2, NewcomersPosted DEF Posts
  <2>2. w \in Beats
    BY <2>1 DEF SameBeats, WakesSound, HeartbeatSound, BeatRows
  <2> QED BY <2>1, <2>2 DEF SameBeats
<1>3. ASSUME NEW c \in ActiveCycles, NEW R \in SUBSET Incoming, EndsAfter(c, R)
      PROVE  wake'[w].due = wake[w].due
  <2>1. R = {} /\ Post(wake, {}) = wake
    BY <1>3, PostNothing DEF EndsAfter, TypeOK
  <2>2. \E now, ap : wake' = Account(Consume(wake, c), ap, c, now).wake
    BY <1>3, <2>1 DEF EndsAfter
  <2>3. wake' = Consume(wake, c)
    BY <2>2 DEF Account
  <2>4. wake[w] \in WakeRecords
    BY DEF TypeOK
  <2> QED BY <2>3, <2>4 DEF Consume, WakeRecords
<1>4. ASSUME NEW r \in Runtimes, Starting(r) PROVE FALSE
  BY <1>4 DEF Starting
<1> QED BY <1>1, <1>2, <1>3, <1>4 DEF WakeShape, Opens, Claim

\* While execution is blocked, no transaction claims a wake, starts or counts an
\* attempt, applies an operation, or creates or moves a heartbeat: what the
\* checks of execution_allowed in runtime/cognition.py are for (PauseHonoured).
THEOREM PauseIsHonoured == Spec => PauseHonoured
<1> DEFINE Paused == ~Allowed =>
        /\ link' = link /\ applied' = applied /\ attention' = attention
        /\ \A w \in Wakes : wake[w].kind = "heartbeat" \/ wake'[w].kind = "heartbeat"
                            => wake'[w].due = wake[w].due
        /\ \A c \in Cycles :
            /\ Len(turn'[c]) = Len(turn[c])
            /\ \A o \in DOMAIN turn[c] : Len(turn'[c][o].attempts) = Len(turn[c][o].attempts)
<1>1. WakeInv /\ [Next]_vars => Paused
  <2> SUFFICES ASSUME WakeInv, [Next]_vars, ~Allowed PROVE Paused
    OBVIOUS
  <2>1. TypeInv /\ CyclesSound /\ TypeOK /\ WakesSound /\ MemorySound /\ TurnInv
    BY DEF WakeInv, TurnInv, TypeInv
  <2>2. (Quiet \/ \E c \in Cycles : Shape(c)) /\ WakeShape
    BY <2>1, StepShape, StepWakes
  <2> QED BY <2>1, <2>2, PausedTurns, PausedBeats
<1> QED BY <1>1, WakeInvariant, PTL DEF Spec, PauseHonoured

-----------------------------------------------------------------------------
(* The timing policy of the heartbeat, under every sequence of outcomes *)

LEMMA EffectiveBounds ==
    ASSUME NEW p \in Policies
    PROVE  /\ EffectiveMinimum(p) \in Nat \ {0}
           /\ EffectiveMaximum(p) \in Nat \ {0}
           /\ EffectiveMinimum(p) <= EffectiveMaximum(p)
           /\ p.factor \in Nat \ {0}
BY SecondAssumption DEF Policies, EffectiveMinimum, EffectiveMaximum, Greater

LEMMA ClampBounds ==
    ASSUME NEW p \in Policies, NEW i \in Nat
    PROVE  /\ Clamp(p, i) \in EffectiveMinimum(p) .. EffectiveMaximum(p)
           /\ i \in EffectiveMinimum(p) .. EffectiveMaximum(p) => Clamp(p, i) = i
BY EffectiveBounds DEF Clamp, Lesser, Greater

LEMMA ProductGrows ==
    ASSUME NEW a \in Nat, NEW f \in Nat \ {0}
    PROVE  a * f \in Nat /\ a * f >= a
<1>1. a * f = a * (f - 1) + a
  OBVIOUS
<1>2. a * (f - 1) \in Nat
  OBVIOUS
<1> QED BY <1>1, <1>2

LEMMA NextIntervalBounds ==
    ASSUME NEW p \in Policies, NEW i \in EffectiveMinimum(p) .. EffectiveMaximum(p),
           NEW autonomous \in BOOLEAN, NEW activity \in BOOLEAN
    PROVE  /\ NextInterval(p, i, autonomous, activity)
                  \in EffectiveMinimum(p) .. EffectiveMaximum(p)
           /\ autonomous /\ ~activity =>
                  /\ NextInterval(p, i, autonomous, activity) >= i
                  /\ NextInterval(p, i, autonomous, activity) < EffectiveMaximum(p) =>
                         NextInterval(p, i, autonomous, activity) = i * p.factor
           /\ ~(autonomous /\ ~activity) =>
                  NextInterval(p, i, autonomous, activity) = EffectiveMinimum(p)
<1>1. i \in Nat /\ Clamp(p, i) = i
  BY EffectiveBounds, ClampBounds
<1>2. i * p.factor \in Nat /\ i * p.factor >= i
  BY <1>1, EffectiveBounds, ProductGrows
<1> QED BY <1>1, <1>2, EffectiveBounds DEF NextInterval, Lesser

-----------------------------------------------------------------------------

\* What one outcome does to the retained interval.
LEMMA OutcomeStep ==
    ASSUME IntervalInPolicy, CycleEnds
    PROVE  /\ IntervalInPolicy'
           /\ IF quiet'
              THEN /\ interval' >= interval
                   /\ interval' < EffectiveMaximum(policy) =>
                          interval' = interval * policy.factor
              ELSE interval' = EffectiveMinimum(policy)
<1>1. policy \in Policies /\ policy' = policy
  BY UsedPoliciesAssumption DEF IntervalInPolicy, CycleEnds
<1>2. PICK autonomous \in BOOLEAN, activity \in BOOLEAN :
          /\ interval' = NextInterval(policy, interval, autonomous, activity)
          /\ quiet' = (autonomous /\ ~activity)
  BY DEF CycleEnds
<1> QED BY <1>1, <1>2, NextIntervalBounds DEF IntervalInPolicy

\* The interval never leaves the bounds of the policy (docs/autonomy.md).
THEOREM IntervalStaysInPolicy == TimingSpec => []IntervalInPolicy
<1>1. TimingInit => IntervalInPolicy
  <2> SUFFICES ASSUME TimingInit PROVE IntervalInPolicy
    OBVIOUS
  <2>1. policy \in Policies
    BY UsedPoliciesAssumption DEF TimingInit
  <2>2. PICK i \in 1 .. MaxInterval : interval = Clamp(policy, i)
    BY DEF TimingInit
  <2> QED BY <2>1, <2>2, ClampBounds, MaxIntervalAssumption DEF TimingInit, IntervalInPolicy
<1>2. IntervalInPolicy /\ [CycleEnds]_tvars => IntervalInPolicy'
  BY OutcomeStep DEF tvars, IntervalInPolicy
<1> QED BY <1>1, <1>2, PTL DEF TimingSpec

\* An inactive autonomous cycle never shortens the interval and any other one
\* resets it to the effective minimum.
THEOREM BackoffIsMonotone == TimingSpec => BackoffMonotone
<1>1. IntervalInPolicy /\ [CycleEnds]_tvars =>
          [IF quiet'
           THEN /\ interval' >= interval
                /\ interval' < EffectiveMaximum(policy) => interval' = interval * policy.factor
           ELSE interval' = EffectiveMinimum(policy)]_tvars
  BY OutcomeStep
<1> QED BY <1>1, IntervalStaysInPolicy, PTL DEF TimingSpec, BackoffMonotone

-----------------------------------------------------------------------------

\* Saturating addition never passes the end of the calendar.
LEMMA SaturatingSum ==
    ASSUME NEW a \in Instants, NEW s \in Nat
    PROVE  AddSeconds(a, s) = Lesser(MaxUtc, a + s) /\ AddSeconds(a, s) \in Instants
BY MaxUtcAssumption DEF AddSeconds, Lesser, Instants

\* The schedule is the earliest useful instant for every anchor and deadline.
LEMMA ScheduleIsEarliest ==
    ASSUME NEW p \in Policies, NEW a \in Instants, NEW d \in Deadlines,
           NEW i \in EffectiveMinimum(p) .. EffectiveMaximum(p)
    PROVE  Schedule(p, a, i, d) = EarliestUseful(p, a, i, d)
<1> DEFINE least == Lesser(MaxUtc, a + EffectiveMinimum(p))
           most  == Lesser(MaxUtc, a + i)
           Useful(t) == /\ t >= least
                        /\ t <= most
                        /\ d > a => t >= Lesser(d, most)
                        /\ d <= a => t = most
                        /\ \A u \in Instants :
                            u < t => \/ u < least
                                     \/ d <= a
                                     \/ u < Lesser(d, most)
<1>1. i \in Nat /\ Clamp(p, i) = i /\ EffectiveMinimum(p) \in Nat
  BY EffectiveBounds, ClampBounds
<1>2. least \in Instants /\ most \in Instants /\ least <= most
  BY <1>1, MaxUtcAssumption DEF Lesser, Instants
<1>3. Schedule(p, a, i, d) = IF d > a THEN Lesser(most, Greater(least, d)) ELSE most
  BY <1>1, SaturatingSum DEF Schedule
<1>4. a \in Nat /\ d \in Int
  BY MaxUtcAssumption DEF Instants, Deadlines, NoDeadline
<1> DEFINE s == Schedule(p, a, i, d)
<1>5. s \in Instants /\ Useful(s)
  BY <1>2, <1>3, <1>4, MaxUtcAssumption DEF Lesser, Greater, Instants, Deadlines, NoDeadline
<1>6. ASSUME NEW t \in Instants, Useful(t) PROVE t = s
  BY <1>2, <1>3, <1>4, <1>5, <1>6, MaxUtcAssumption DEF Lesser, Greater, Instants
<1>7. EarliestUseful(p, a, i, d) = CHOOSE t \in Instants : Useful(t)
  BY DEF EarliestUseful
<1> HIDE DEF Useful, s
<1> QED BY <1>5, <1>6, <1>7 DEF s

Anchored == anchor \in Instants

\* A commitment may only bring the next opportunity forward, never before the
\* effective minimum, and an overdue one does not defeat the backoff.
THEOREM SchedulesEarliestUseful == TimingSpec => []ScheduleIsEarliestUseful
<1>1. TimingInit => Anchored
  BY MaxUtcAssumption DEF TimingInit, Anchored, Instants
<1>2. Anchored /\ [CycleEnds]_tvars => Anchored'
  BY MaxUtcAssumption DEF CycleEnds, tvars, Anchored, Instants
<1>3. IntervalInPolicy /\ Anchored => ScheduleIsEarliestUseful
  BY ScheduleIsEarliest, UsedPoliciesAssumption
     DEF Anchored, IntervalInPolicy, ScheduleIsEarliestUseful
<1> QED BY <1>1, <1>2, <1>3, IntervalStaysInPolicy, PTL DEF TimingSpec

=============================================================================
