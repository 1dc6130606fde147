--------------------------- MODULE PersonalProofs ---------------------------
(***************************************************************************)
(* What is proved of the personal state, for any objects, decisions,       *)
(* calls, sessions, clocks and courses of events.                          *)
(*                                                                         *)
(* HistoryComplete: what a transaction planned fits what is committed      *)
(* until it commits itself, because only the session that holds the lock   *)
(* has a plan, and only a plan changes rows (IInv: PlansFit, LockHeld).    *)
(*                                                                         *)
(* The rest needs that a plan is not only of the current revisions but     *)
(* still the right one: Current adds WorkSound (one transaction applies    *)
(* one decided turn), PlansCurrent (what was planned is what would be      *)
(* planned now) and RevisionsSound (what a revision rests on is known).    *)
(* Between plan and commit others begin, fail and let time pass; Grows     *)
(* says what that can change, and SoundStays and RevisionsStay that it     *)
(* does not touch a plan: evidence that counted goes on counting, and      *)
(* evidence that did not is not found later.                               *)
(*                                                                         *)
(* Developing carries the delays and the evidence that are running,        *)
(* Interpreted what db/personal_checks.py asks of a row, clause by clause. *)
(***************************************************************************)
EXTENDS Personal, FiniteSetTheorems, TLAPS

NextRevision(old) == IF old = NoRow THEN 1 ELSE old.revision + 1

\* A revision that continues the row old.
Continues(change, old) ==
    /\ change.before = old
    /\ "revision" \in DOMAIN change.after
    /\ change.after.revision = NextRevision(old)

IsSequence(s) == \E S : s \in Seq(S)

\* A complete history, and the row it leaves.
Chain(h) ==
    /\ IsSequence(h)
    /\ \A n \in DOMAIN h : /\ "revision" \in DOMAIN h[n].after
                           /\ h[n].after.revision = n
                           /\ h[n].before = IF n = 1 THEN NoRow ELSE h[n - 1].after
LastRow(h) == IF h = << >> THEN NoRow ELSE h[Len(h)].after

Shape ==
    /\ txn = [s \in Sessions |-> txn[s]]
    /\ \A o \in Objects : IsSequence(history[o])
    /\ \A o \in Objects : \A n \in DOMAIN history[o] : "revision" \in DOMAIN history[o][n].after

\* A plan is made and kept under the lock.
LockHeld == \A s \in Sessions : txn[s].phase \in {"writing", "refusing"} => lock = s

\* What is planned continues what is committed; without a plan nothing is.
PlansFit ==
    \A s \in Sessions :
        /\ txn[s].phase # "writing" => DOMAIN txn[s].changes = {}
        /\ \A o \in Objects \cap DOMAIN txn[s].changes :
              Continues(txn[s].changes[o], objects[o])

IInv == Shape /\ LockHeld /\ PlansFit /\ HistoryComplete

USE WorkAssumption

-----------------------------------------------------------------------------

\* A stamped row continues the row it replaces.
LEMMA StampContinues ==
    ASSUME NEW row, NEW old, NEW now
    PROVE  /\ "revision" \in DOMAIN Stamped(row, old, now)
           /\ Stamped(row, old, now).revision = NextRevision(old)
  <1> DEFINE stamp == [updated |-> now, revision |-> NextRevision(old)]
<1>1. DOMAIN stamp = {"updated", "revision"} /\ stamp["revision"] = NextRevision(old)
  OBVIOUS
<1>2. Stamped(row, old, now) =
        [f \in DOMAIN row \cup DOMAIN stamp |-> IF f \in DOMAIN stamp THEN stamp[f] ELSE row[f]]
  BY Zenon DEF Stamped, NextRevision
<1> HIDE DEF stamp
<1> QED BY <1>1, <1>2

\* So every revision of a plan continues the committed row of its object.
LEMMA RevisionsContinue ==
    ASSUME NEW work, NEW now, NEW o \in DOMAIN Revisions(work, now)
    PROVE  Continues(Revisions(work, now)[o], objects[o])
<1> DEFINE Writer(x) == CHOOSE op \in Ops(work) : x \in Touched(op)
           after(x) == Stamped(Content(Writer(x), x, now), objects[x], now)
<1>1. Revisions(work, now)[o].before = objects[o] /\ Revisions(work, now)[o].after = after(o)
  BY Zenon DEF Revisions
<1>2. /\ "revision" \in DOMAIN after(o)
      /\ after(o).revision = NextRevision(objects[o])
  BY StampContinues, Zenon
<1> QED BY <1>1, <1>2, Zenon DEF Continues

\* Appending a revision that continues the current row to a complete history
\* leaves a complete history.
LEMMA AppendComplete ==
    ASSUME NEW h, Chain(h), NEW change, Continues(change, LastRow(h))
    PROVE  Chain(Append(h, change)) /\ LastRow(Append(h, change)) = change.after
<1>1. PICK S : h \in Seq(S)
  BY DEF Chain, IsSequence
<1>2. h \in Seq(S \cup {change})
  BY <1>1
<1> DEFINE g == Append(h, change)
           N == Len(h)
<1>3. /\ g \in Seq(S \cup {change}) /\ Len(g) = N + 1 /\ N \in Nat
      /\ DOMAIN h = 1 .. N /\ DOMAIN g = 1 .. N + 1
      /\ \A n \in 1 .. N : g[n] = h[n]
      /\ g[N + 1] = change
  BY <1>2
<1>4. h = << >> <=> N = 0
  BY <1>1
<1> HIDE DEF g, N
<1>5. change.before = (IF N = 0 THEN NoRow ELSE h[N].after)
  BY <1>4 DEF Continues, LastRow, N
<1>6. "revision" \in DOMAIN change.after /\ change.after.revision = N + 1
  <2>1. CASE N = 0
    BY <2>1, <1>4 DEF Continues, NextRevision, LastRow
  <2>2. CASE N # 0
    <3>1. N \in 1 .. N
      BY <2>2, <1>3
    <3>2. h[N].after.revision = N /\ "revision" \in DOMAIN h[N].after
      BY <3>1, <1>3 DEF Chain
    <3>3. LastRow(h) = h[N].after
      BY <2>2, <1>4 DEF LastRow, N
    <3>4. LastRow(h) # NoRow
      BY <3>2, <3>3 DEF NoRow
    <3> QED BY <3>2, <3>3, <3>4 DEF Continues, NextRevision
  <2> QED BY <2>1, <2>2
<1>7. ASSUME NEW n \in DOMAIN g
      PROVE  /\ "revision" \in DOMAIN g[n].after /\ g[n].after.revision = n
             /\ g[n].before = IF n = 1 THEN NoRow ELSE g[n - 1].after
  <2>1. CASE n = N + 1
    <3>1. N # 0 => N \in 1 .. N /\ n # 1 /\ n - 1 = N
      BY <2>1, <1>3
    <3>2. N = 0 => n = 1
      BY <2>1
    <3> QED BY <3>1, <3>2, <2>1, <1>3, <1>5, <1>6
  <2>2. CASE n \in 1 .. N
    <3>1. n = 1 \/ n - 1 \in 1 .. N
      BY <2>2, <1>3
    <3>2. g[n] = h[n] /\ (n # 1 => g[n - 1] = h[n - 1])
      BY <3>1, <2>2, <1>3
    <3> QED BY <3>2, <2>2, <1>3 DEF Chain
  <2>3. n = N + 1 \/ n \in 1 .. N
    BY <1>3
  <2> QED BY <2>1, <2>2, <2>3
<1>8. IsSequence(g)
  BY <1>3 DEF IsSequence
<1>9. LastRow(g) = change.after
  BY <1>3 DEF LastRow
<1> QED BY <1>7, <1>8, <1>9 DEF Chain, g

-----------------------------------------------------------------------------

LEMMA InitIInv == Init => IInv
<1> SUFFICES ASSUME Init PROVE IInv
  OBVIOUS
<1>1. \A s \in Sessions : txn[s] = Idle /\ txn[s].phase = "idle" /\ DOMAIN txn[s].changes = {}
  BY DEF Init, Idle, Txn, NoChanges
<1>2. \A o \in Objects : history[o] = << >> /\ objects[o] = NoRow /\ DOMAIN history[o] = {}
  BY DEF Init
<1>3. Shape
  <2>1. << >> \in Seq({})
    OBVIOUS
  <2> QED BY <2>1, <1>2 DEF Shape, Init, IsSequence
<1>4. LockHeld /\ PlansFit
  BY <1>1 DEF LockHeld, PlansFit
<1>5. HistoryComplete
  BY <1>2 DEF HistoryComplete
<1> QED BY <1>3, <1>4, <1>5 DEF IInv

\* A session gets another transaction, without a plan, and nothing is written.
LEMMA NoPlan ==
    ASSUME IInv, NEW s \in Sessions, NEW t, t.phase # "writing", DOMAIN t.changes = {},
           txn' = [txn EXCEPT ![s] = t], objects' = objects, history' = history,
           t.phase = "refusing" => lock' = s,
           \A u \in Sessions \ {s} : lock = u => lock' = u
    PROVE  IInv'
<1>1. \A u \in Sessions : txn'[u] = IF u = s THEN t ELSE txn[u]
  BY DEF IInv, Shape
<1>2. Shape' /\ HistoryComplete'
  BY DEF IInv, Shape, HistoryComplete
<1>3. LockHeld'
  BY <1>1 DEF IInv, LockHeld
<1>4. PlansFit'
  BY <1>1 DEF IInv, PlansFit, Continues, NextRevision
<1> QED BY <1>2, <1>3, <1>4 DEF IInv

LEMMA PlanIInv ==
    ASSUME IInv, NEW s \in Sessions, Plan(s)
    PROVE  IInv'
<1> DEFINE plan == Revisions(txn[s].work, txn[s].now)
<1>1. /\ lock = NoSession /\ lock' = s /\ objects' = objects /\ history' = history
      /\ txn' = [txn EXCEPT ![s] = Txn("writing", txn[s].work, txn[s].now, plan)]
  BY DEF Plan, Available, store
<1>2. \A o \in DOMAIN plan : Continues(plan[o], objects[o])
  BY RevisionsContinue
<1> HIDE DEF plan
<1>3. \A u \in Sessions : txn'[u] = IF u = s THEN Txn("writing", txn[s].work, txn[s].now, plan)
                                    ELSE txn[u]
  BY <1>1 DEF IInv, Shape
<1>4. Shape' /\ HistoryComplete'
  BY <1>1 DEF IInv, Shape, HistoryComplete
<1>5. LockHeld'
  BY <1>1, <1>3 DEF IInv, LockHeld
<1>6. \A u \in Sessions : txn'[u].phase # "writing" => DOMAIN txn'[u].changes = {}
  BY <1>3 DEF IInv, PlansFit, Txn
<1>7. \A u \in Sessions : \A o \in Objects \cap DOMAIN txn'[u].changes :
          Continues(txn'[u].changes[o], objects[o])
  <2> SUFFICES ASSUME NEW u \in Sessions, NEW o \in Objects \cap DOMAIN txn'[u].changes
               PROVE  Continues(txn'[u].changes[o], objects[o])
    OBVIOUS
  <2>1. CASE u = s
    <3>1. txn'[u].changes = plan
      BY <2>1, <1>3 DEF Txn
    <3> QED BY <3>1, <1>2
  <2>2. CASE u # s
    <3>1. txn'[u] = txn[u]
      BY <2>2, <1>3
    <3> QED BY <3>1 DEF IInv, PlansFit
  <2> QED BY <2>1, <2>2
<1>8. PlansFit'
  BY <1>6, <1>7, <1>1 DEF PlansFit, Continues, NextRevision
<1> QED BY <1>4, <1>5, <1>8 DEF IInv

LEMMA CommitIInv ==
    ASSUME IInv, NEW s \in Sessions, Commit(s)
    PROVE  IInv'
<1> DEFINE changes == txn[s].changes
<1>1. /\ txn[s].phase \in {"writing", "refusing"} /\ lock = s
      /\ txn' = [txn EXCEPT ![s] = Idle] /\ lock' = NoSession
  BY DEF Commit, Closed, IInv, LockHeld
<1>2. \A o \in Objects :
          /\ objects'[o] = IF o \in DOMAIN changes THEN changes[o].after ELSE objects[o]
          /\ history'[o] = IF o \in DOMAIN changes THEN Append(history[o], changes[o])
                                                   ELSE history[o]
  BY DEF Commit
<1>3. \A u \in Sessions : txn'[u] = IF u = s THEN Idle ELSE txn[u]
  BY <1>1 DEF IInv, Shape
<1>4. \A u \in Sessions : /\ txn'[u].phase \notin {"writing", "refusing"}
                          /\ DOMAIN txn'[u].changes = {}
  <2>1. Idle.phase = "idle" /\ DOMAIN Idle.changes = {}
    BY DEF Idle, Txn, NoChanges
  <2>2. \A u \in Sessions : u # s => txn[u].phase \notin {"writing", "refusing"}
    BY <1>1 DEF IInv, LockHeld
  <2> QED BY <2>1, <2>2, <1>3 DEF IInv, PlansFit
<1>5. LockHeld' /\ PlansFit'
  BY <1>4 DEF LockHeld, PlansFit
<1>6. ASSUME NEW o \in Objects
      PROVE  Chain(history'[o]) /\ objects'[o] = LastRow(history'[o])
  <2>1. Chain(history[o]) /\ objects[o] = LastRow(history[o])
    BY DEF IInv, Shape, HistoryComplete, Chain, LastRow
  <2>2. CASE o \in DOMAIN changes
    <3>1. Continues(changes[o], LastRow(history[o]))
      BY <2>1, <2>2 DEF IInv, PlansFit
    <3>2. history'[o] = Append(history[o], changes[o]) /\ objects'[o] = changes[o].after
      BY <2>2, <1>2
    <3> HIDE DEF changes
    <3> QED BY <3>1, <3>2, <2>1, AppendComplete
  <2>3. CASE o \notin DOMAIN changes
    BY <2>1, <2>3, <1>2
  <2> QED BY <2>2, <2>3
<1>7. Shape'
  BY <1>6, <1>1 DEF Shape, IInv, Chain
<1>8. HistoryComplete'
  BY <1>6 DEF HistoryComplete, Chain, LastRow
<1> QED BY <1>5, <1>7, <1>8 DEF IInv

LEMMA NextIInv == IInv /\ [Next]_vars => IInv'
<1> SUFFICES ASSUME IInv, [Next]_vars PROVE IInv'
  OBVIOUS
<1>1. ASSUME UNCHANGED <<objects, history, txn, lock>> PROVE IInv'
  BY <1>1 DEF IInv, Shape, LockHeld, PlansFit, HistoryComplete, Continues, NextRevision
<1>2. Idle.phase = "idle" /\ DOMAIN Idle.changes = {}
  BY DEF Idle, Txn, NoChanges
<1>3. ASSUME NEW t \in Turns, Decide(t) PROVE IInv'
  BY <1>3, <1>1 DEF Decide
<1>4. ASSUME NEW s \in Sessions, NEW work, Begin(s, work),
             UNCHANGED <<objects, history, lock>>
      PROVE  IInv'
  <2> DEFINE t == Txn("waiting", work, Now(s), NoChanges)
  <2>1. t.phase = "waiting" /\ DOMAIN t.changes = {} /\ txn' = [txn EXCEPT ![s] = t]
    BY <1>4 DEF Begin, Txn, NoChanges
  <2> QED BY <2>1, <1>4, NoPlan
<1>5. ASSUME NEW s \in Sessions, NEW t \in Turns, BeginApply(s, t) PROVE IInv'
  BY <1>5, <1>4 DEF BeginApply, store
<1>6. ASSUME NEW s \in Sessions, NEW c \in Calls, BeginCall(s, c) PROVE IInv'
  BY <1>6, <1>4 DEF BeginCall, store
<1>7. ASSUME NEW s \in Sessions, Refuse(s) PROVE IInv'
  <2>1. CASE txn[s].work \in Turns
    <3> DEFINE t == Txn("refusing", txn[s].work, txn[s].now, NoChanges)
    <3>1. t.phase = "refusing" /\ DOMAIN t.changes = {}
      BY DEF Txn, NoChanges
    <3>2. /\ lock = NoSession /\ lock' = s /\ UNCHANGED <<objects, history>>
          /\ txn' = [txn EXCEPT ![s] = t]
      BY <2>1, <1>7 DEF Refuse, Available, store
    <3> HIDE DEF t
    <3> QED BY <3>1, <3>2, NoPlan
  <2>2. CASE txn[s].work \notin Turns
    <3>1. UNCHANGED <<objects, history, lock>> /\ txn' = [txn EXCEPT ![s] = Idle]
      BY <2>2, <1>7 DEF Refuse, store
    <3> QED BY <3>1, <1>2, NoPlan
  <2> QED BY <2>1, <2>2
<1>8. ASSUME NEW s \in Sessions, Fail(s) PROVE IInv'
  <2>1. /\ UNCHANGED <<objects, history>> /\ txn' = [txn EXCEPT ![s] = Idle]
        /\ \A u \in Sessions \ {s} : lock = u => lock' = u
    BY <1>8 DEF Fail, Closed, store
  <2> QED BY <2>1, <1>2, NoPlan
<1>9. CASE Tick
  BY <1>9, <1>1 DEF Tick, store
<1>10. CASE UNCHANGED vars
  BY <1>10, <1>1 DEF vars, store
<1> QED BY <1>3, <1>5, <1>6, <1>7, <1>8, <1>9, <1>10, PlanIInv, CommitIInv DEF Next

-----------------------------------------------------------------------------

\* Rows, plans and the lock always fit together: the inductive form.
THEOREM PersonalInvariant == Spec => []IInv
  BY InitIInv, NextIInv, PTL DEF Spec

\* Whatever sessions write, and however their transactions overlap, fail and
\* are refused, the revisions of every object form one gapless chain that ends
\* in its current row (stores/personal.py, _lock_individual and _write_changes).
THEOREM HistoryStaysComplete == Spec => []HistoryComplete
<1>1. IInv => HistoryComplete
  BY DEF IInv
<1> QED BY PersonalInvariant, <1>1, PTL


-----------------------------------------------------------------------------
(* Plans are judged under the lock and committed as they were judged       *)

Deciding(s) == txn[s].work \in Turns

\* One transaction applies one decision that is recorded and not applied.
WorkSound ==
    /\ turns \in [Turns -> {"never", "open", "decided", "applied", "rejected"}]
    /\ clock \in Nat
    /\ \A s \in Sessions :
        /\ txn[s].phase \in {"idle", "waiting", "writing", "refusing"}
        /\ txn[s].phase = "idle" => ~Deciding(s)
        /\ txn[s].phase # "idle" => txn[s].work \in Turns \cup Calls /\ txn[s].now \in Nat
        /\ Deciding(s) => turns[txn[s].work] = "decided"
        /\ txn[s].phase = "refusing" => Deciding(s)
    /\ \A s, u \in Sessions : Deciding(s) /\ Deciding(u) => s = u

\* What was planned is still what would be planned.
PlansCurrent ==
    \A s \in Sessions : txn[s].phase = "writing" =>
        /\ txn[s].changes = Revisions(txn[s].work, txn[s].now)
        /\ Sound(txn[s].work, txn[s].now)

Fields == {"status", "text", "parent", "link", "refs", "against", "notBefore", "retirement",
           "pending", "pendingRefs", "created", "updated", "revision"}

\* What an object, or an operation on it, rests on.
Grounds(row) == row.refs \cup row.against \cup row.pendingRefs

\* What an object, or an operation on it, is linked to.
Ties(row) == {row.parent, row.link}

\* A revision tells who made it, when, and what it rests on, and that is known.
RevisionSound(o, n) ==
    /\ Rev(o, n).work \in Turns \cup Calls /\ Rev(o, n).at \in Nat
    /\ Rev(o, n).op \in Ops(Rev(o, n).work) /\ o \in Touched(Rev(o, n).op)
    /\ DOMAIN Rev(o, n).after = Fields
    /\ Rev(o, n).after.updated = Rev(o, n).at
    /\ \A x \in Grounds(Rev(o, n).after) \cup Rev(o, n).op.refs : x \in References /\ Known(x)

RevisionsSound == \A o \in Objects : \A n \in DOMAIN history[o] : RevisionSound(o, n)

LEMMA OpsTyped ==
    ASSUME NEW work \in Turns \cup Calls, NEW op \in Ops(work)
    PROVE  /\ op.target \in Objects /\ op.text # None
           /\ op.parent \in Objects \cup {None} /\ op.link \in Objects \cup {None}
           /\ op.refs \subseteq References /\ op.against \subseteq References
           /\ op.act = "supersede" => /\ Kind(op) = "belief"
                                      /\ op.parent # None => KindOf[op.parent] = "belief"
           /\ Cited(op) \subseteq References
<1>1. op \in AllOps
  BY DEF AllOps, Ops
<1>2. /\ op.target \in Objects /\ op.text # None
      /\ {op.parent, op.link} \subseteq Objects \cup {None}
      /\ op.refs \cup op.against \subseteq References
      /\ op.act = "supersede" =>
            {KindOf[o] : o \in {op.target, op.parent} \ {None}} = {"belief"}
  BY <1>1, OperationAssumption
<1>3. ASSUME op.act = "supersede"
      PROVE  Kind(op) = "belief" /\ (op.parent # None => KindOf[op.parent] = "belief")
  <2>1. \A o \in {op.target, op.parent} \ {None} : KindOf[o] = "belief"
    BY <1>2, <1>3
  <2> QED BY <2>1, <1>2, FamilyAssumption DEF Kind
<1> QED BY <1>2, <1>3 DEF Cited, References

\* An object has a row exactly when it has a revision, and then a whole one.
LEMMA RowsWhole ==
    ASSUME IInv, RevisionsSound, NEW o \in Objects
    PROVE  /\ Len(history[o]) \in Nat /\ DOMAIN history[o] = 1 .. Len(history[o])
           /\ objects[o] # NoRow => /\ Len(history[o]) > 0
                                    /\ objects[o] = Rev(o, Len(history[o])).after
                                    /\ DOMAIN objects[o] = Fields
                                    /\ objects[o].revision = Len(history[o])
           /\ objects[o] = NoRow <=> history[o] = << >>
           /\ objects[o] = NoRow <=> Len(history[o]) = 0
<1>1. PICK S : history[o] \in Seq(S)
  BY DEF IInv, Shape, IsSequence
<1>2. /\ Len(history[o]) \in Nat /\ DOMAIN history[o] = 1 .. Len(history[o])
      /\ history[o] = << >> <=> Len(history[o]) = 0
  BY <1>1
<1>3. objects[o] = IF history[o] = << >> THEN NoRow ELSE Rev(o, Len(history[o])).after
  BY DEF IInv, HistoryComplete, Rev
<1>4. Len(history[o]) # 0 => /\ DOMAIN Rev(o, Len(history[o])).after = Fields
                             /\ Rev(o, Len(history[o])).after.revision = Len(history[o])
  BY <1>2 DEF RevisionsSound, RevisionSound, IInv, HistoryComplete, Rev
<1>5. DOMAIN NoRow # Fields
  <2>1. DOMAIN NoRow = {}
    BY DEF NoRow
  <2> QED BY <2>1 DEF Fields
<1> QED BY <1>2, <1>3, <1>4, <1>5

-----------------------------------------------------------------------------
(* What is known stays known, and counts as much as before *)

\* Time passes, history grows, and a row stays a row; an episode is never revised.
Grows ==
    /\ clock \in Nat /\ clock' \in Nat /\ clock' >= clock
    /\ \A o \in Objects : \A n \in DOMAIN history[o] :
          n \in DOMAIN history'[o] /\ history'[o][n] = history[o][n]
    /\ \A o \in Objects : objects[o] # NoRow =>
          /\ objects'[o] # NoRow
          /\ KindOf[o] = "episode" => objects'[o].refs = objects[o].refs

LEMMA KnownStays ==
    ASSUME Grows, RevisionsSound, NEW r \in References, Known(r)
    PROVE  /\ Known(r)'
           /\ r \notin Objects => /\ Recorded(r)' = Recorded(r) /\ Recorded(r) \in Nat
                                  /\ Eligible(r)' <=> Eligible(r)
<1>1. CASE r \in Objects
  BY <1>1 DEF Known, Grows
<1>2. CASE r \in Events
  <2>1. r \notin Objects /\ r \notin Objects \X Nat
    BY <1>2, EventAssumption
  <2>2. clock >= Arrival[r] /\ clock' >= Arrival[r] /\ Arrival[r] \in Nat
    BY <1>2, <2>1, EventAssumption DEF Known, Recorded, Grows
  <2>3. Recorded(r) = Arrival[r] /\ Recorded(r)' = Arrival[r]
    BY <1>2, <2>1, <2>2 DEF Recorded
  <2> QED BY <1>2, <2>1, <2>2, <2>3, EventAssumption DEF Known, Eligible
<1>3. CASE r \in Objects \X Nat
  <2>1. r \notin Objects /\ r \notin Events /\ r[1] \in Objects /\ r[2] \in Nat
    BY <1>3, EventAssumption
  <2>2. r[2] \in DOMAIN history[r[1]]
    BY <1>3, <2>1 DEF Known, Recorded
  <2>3. /\ r[2] \in DOMAIN history'[r[1]]
        /\ history'[r[1]][r[2]] = history[r[1]][r[2]]
        /\ history[r[1]][r[2]].at \in Nat
    BY <2>1, <2>2 DEF Grows, RevisionsSound, RevisionSound, Rev
  <2>4. /\ Recorded(r) = history[r[1]][r[2]].at
        /\ Recorded(r)' = history[r[1]][r[2]].at
    BY <1>3, <2>1, <2>2, <2>3 DEF Recorded
  <2> QED BY <2>1, <2>3, <2>4, EventAssumption DEF Known, Eligible
<1> QED BY <1>1, <1>2, <1>3 DEF References

\* What is known of refs, through episodes too, is known for good.
LEMMA AnchorsStay ==
    ASSUME IInv, RevisionsSound, Grows, NEW refs \in SUBSET References, NEW now \in Nat,
           \A r \in refs : Known(r)
    PROVE  /\ Anchors(refs, now)' = Anchors(refs, now)
           /\ \A r \in Anchors(refs, now) : Recorded(r)' = Recorded(r) /\ Recorded(r) \in Nat
<1>1. \A e \in refs \cap Objects : objects[e] # NoRow /\ objects'[e] # NoRow
  BY DEF Known, Grows
<1>2. \A e \in refs \cap Objects : KindOf[e] = "episode" => objects'[e].refs = objects[e].refs
  BY <1>1 DEF Grows
<1>3. Expanded(refs)' = Expanded(refs)
  BY <1>1, <1>2 DEF Expanded
<1>4. \A r \in Expanded(refs) : r \in References /\ Known(r)
  <2> SUFFICES ASSUME NEW r \in Expanded(refs) PROVE r \in References /\ Known(r)
    OBVIOUS
  <2>1. CASE r \in refs
    BY <2>1
  <2>2. ASSUME NEW e \in refs \cap Objects, r \in objects[e].refs
        PROVE  r \in References /\ Known(r)
    <3>1. /\ Len(history[e]) \in DOMAIN history[e]
          /\ objects[e] = Rev(e, Len(history[e])).after
      BY <1>1, RowsWhole
    <3> QED BY <3>1, <2>2 DEF RevisionsSound, RevisionSound, Grounds
  <2> QED BY <2>1, <2>2 DEF Expanded
<1>5. \A r \in Expanded(refs) \ Objects :
          Recorded(r)' = Recorded(r) /\ Recorded(r) \in Nat /\ (Eligible(r)' <=> Eligible(r))
  BY <1>4, KnownStays
<1> QED BY <1>3, <1>5 DEF Anchors

LEMMA GroundedStays ==
    ASSUME IInv, RevisionsSound, Grows, NEW refs \in SUBSET References, NEW now \in Nat,
           \A r \in refs : Known(r)
    PROVE  Grounded(refs, now)' <=> Grounded(refs, now)
BY AnchorsStay DEF Grounded, Separated

LEMMA NovelStays ==
    ASSUME IInv, RevisionsSound, Grows, NEW old \in SUBSET References, NEW refs \in SUBSET References,
           NEW now \in Nat, \A r \in old \cup refs : Known(r)
    PROVE  Novel(old, refs, now)' <=> Novel(old, refs, now)
<1>1. Anchors(old, now)' = Anchors(old, now) /\ Anchors(refs, now)' = Anchors(refs, now)
  BY AnchorsStay
<1> QED BY <1>1 DEF Novel

-----------------------------------------------------------------------------
(* A plan that was sound stays sound while nobody else may write *)

LEMMA ContentStays ==
    ASSUME objects' = objects, NEW op, NEW o, NEW now
    PROVE  Content(op, o, now)' = Content(op, o, now)
<1>1. /\ BeliefRow(op, now)' = BeliefRow(op, now)
      /\ Rewritten(op)' = Rewritten(op)
      /\ Fresh(op, now)' = Fresh(op, now)
      /\ Row(op)' = Row(op)
  BY DEF BeliefRow, Rewritten, Fresh, Row, Wanted, Kind, Given
<1>2. InclinationRow(op, now)' = InclinationRow(op, now)
  BY <1>1 DEF InclinationRow, Row
<1>3. LayerRow(op, now)' = LayerRow(op, now)
  <2>1. /\ Layer(op, now)' = Layer(op, now)
        /\ Early(op, now)' <=> Early(op, now)
        /\ Pending(op)' <=> Pending(op)
    BY <1>1 DEF Layer, Early, Pending
  <2>2. Staged(op, now)' = Staged(op, now)
    BY <2>1 DEF Staged
  <2> QED BY <1>1, <2>1, <2>2 DEF LayerRow
<1> QED BY <1>1, <1>2, <1>3 DEF Content

LEMMA RevisionsStay ==
    ASSUME objects' = objects, NEW work, NEW now
    PROVE  Revisions(work, now)' = Revisions(work, now)
BY ContentStays DEF Revisions, Stamped

\* An operation is judged by the rules of its family.
LEMMA AllowedByFamily ==
    ASSUME NEW op, op.target \in Objects, NEW now, NEW work
    PROVE  Allowed(op, now, work) <=>
             /\ ~Retrograde(op, now, work \in Turns)
             /\ Kind(op) \in Objectives => ObjectiveAllowed(op, work \in Turns)
             /\ Kind(op) = "entity" => EntityAllowed(op)
             /\ Kind(op) = "relationship" => RelationshipAllowed(op)
             /\ Kind(op) = "belief" => BeliefAllowed(op, now)
             /\ Kind(op) = "relationship_thread" => ThreadAllowed(op, work \in Turns)
             /\ Kind(op) = "episode" => EpisodeAllowed(op)
             /\ Kind(op) \in {"interest", "preference"} => InclinationAllowed(op, now, Attended(work))
             /\ Kind(op) \in Layers => LayerAllowed(op, now, Attended(work))
<1>1. Kind(op) \in Kinds
  BY FamilyAssumption DEF Kind
<1>2. CASE Kind(op) \in Objectives
  BY <1>2 DEF Allowed, Objectives, Layers, Immediate
<1>3. CASE Kind(op) = "entity"
  BY <1>3 DEF Allowed, Objectives, Layers, Immediate
<1>4. CASE Kind(op) = "relationship"
  BY <1>4 DEF Allowed, Objectives, Layers, Immediate
<1>5. CASE Kind(op) = "belief"
  BY <1>5 DEF Allowed, Objectives, Layers, Immediate
<1>6. CASE Kind(op) = "relationship_thread"
  BY <1>6 DEF Allowed, Objectives, Layers, Immediate
<1>7. CASE Kind(op) = "episode"
  BY <1>7 DEF Allowed, Objectives, Layers, Immediate
<1>8. CASE Kind(op) \in {"interest", "preference"}
  BY <1>8 DEF Allowed, Objectives, Layers, Immediate
<1>9. CASE Kind(op) \in Layers
  BY <1>9 DEF Allowed, Objectives, Layers, Immediate
<1> QED BY <1>1, <1>2, <1>3, <1>4, <1>5, <1>6, <1>7, <1>8, <1>9
        DEF Kinds, Objectives, Layers, Immediate

LEMMA SoundStays ==
    ASSUME IInv, RevisionsSound, Grows, UNCHANGED <<objects, history, used>>,
           NEW work \in Turns \cup Calls, NEW now \in Nat, Sound(work, now)
    PROVE  Sound(work, now)'
<1> SUFFICES ASSUME NEW op \in Ops(work)
             PROVE  /\ \A r \in Cited(op) : Known(r)'
                    /\ Allowed(op, now, work)'
  BY DEF Sound
<1>1. Allowed(op, now, work) /\ \A r \in Cited(op) : Known(r)
  BY DEF Sound
<1>2. /\ op.target \in Objects /\ Cited(op) \subseteq References /\ op.refs \subseteq Cited(op)
  BY OpsTyped DEF Cited
<1>3. \A r \in Cited(op) : Known(r)'
  BY <1>1, <1>2, KnownStays
<1> DEFINE row == objects[op.target]
<1>4. row # NoRow => /\ row.refs \cup row.pendingRefs \subseteq References
                     /\ \A r \in row.refs \cup row.pendingRefs : Known(r)
  <2> SUFFICES ASSUME row # NoRow
               PROVE  /\ row.refs \cup row.pendingRefs \subseteq References
                      /\ \A r \in row.refs \cup row.pendingRefs : Known(r)
    OBVIOUS
  <2>1. /\ Len(history[op.target]) \in DOMAIN history[op.target]
        /\ row = Rev(op.target, Len(history[op.target])).after
    BY <1>2, RowsWhole
  <2> QED BY <2>1, <1>2 DEF RevisionsSound, RevisionSound, Grounds
<1>5. row # NoRow =>
        /\ Grounded(row.refs \cup op.refs, now)' <=> Grounded(row.refs \cup op.refs, now)
        /\ Grounded(row.pendingRefs \cup op.refs, now)' <=> Grounded(row.pendingRefs \cup op.refs, now)
        /\ Novel(row.refs, op.refs, now)' <=> Novel(row.refs, op.refs, now)
  <2> SUFFICES ASSUME row # NoRow
               PROVE  /\ Grounded(row.refs \cup op.refs, now)' <=> Grounded(row.refs \cup op.refs, now)
                      /\ Grounded(row.pendingRefs \cup op.refs, now)' <=> Grounded(row.pendingRefs \cup op.refs, now)
                      /\ Novel(row.refs, op.refs, now)' <=> Novel(row.refs, op.refs, now)
    OBVIOUS
  <2>1. PICK R, P : R = row.refs /\ P = row.pendingRefs
    OBVIOUS
  <2>2. /\ R \in SUBSET References /\ P \in SUBSET References /\ op.refs \in SUBSET References
        /\ R \cup op.refs \in SUBSET References /\ P \cup op.refs \in SUBSET References
        /\ \A r \in R \cup op.refs : Known(r)
        /\ \A r \in P \cup op.refs : Known(r)
    BY <1>1, <1>2, <1>4, <2>1
  <2>3. /\ Grounded(R \cup op.refs, now)' <=> Grounded(R \cup op.refs, now)
        /\ Grounded(P \cup op.refs, now)' <=> Grounded(P \cup op.refs, now)
        /\ Novel(R, op.refs, now)' <=> Novel(R, op.refs, now)
    BY <2>2, GroundedStays, NovelStays
  <2>4. row.refs' = R /\ row.pendingRefs' = P
    BY <2>1
  <2> QED BY <2>1, <2>3, <2>4
<1>6. /\ Row(op)' = Row(op)
      /\ Retrograde(op, now, work \in Turns)' <=> Retrograde(op, now, work \in Turns)
      /\ Rewritten(op)' = Rewritten(op)
      /\ BeliefRow(op, now)' = BeliefRow(op, now)
      /\ CreateAllowed(op)' <=> CreateAllowed(op)
      /\ Creatable(op)' <=> Creatable(op)
      /\ Early(op, now)' <=> Early(op, now)
      /\ Pending(op)' <=> Pending(op)
  BY DEF Row, Retrograde, Rewritten, BeliefRow, CreateAllowed, Creatable, Fresh, Early, Pending
<1>7. /\ ObjectiveAllowed(op, work \in Turns)' <=> ObjectiveAllowed(op, work \in Turns)
      /\ EntityAllowed(op)' <=> EntityAllowed(op)
      /\ RelationshipAllowed(op)' <=> RelationshipAllowed(op)
      /\ ThreadAllowed(op, work \in Turns)' <=> ThreadAllowed(op, work \in Turns)
      /\ EpisodeAllowed(op)' <=> EpisodeAllowed(op)
  BY <1>6 DEF ObjectiveAllowed, EntityAllowed, RelationshipAllowed, ThreadAllowed, EpisodeAllowed
<1>8. BeliefAllowed(op, now)' <=> BeliefAllowed(op, now)
  BY <1>6 DEF BeliefAllowed, Row
<1>9. InclinationAllowed(op, now, Attended(work))' <=> InclinationAllowed(op, now, Attended(work))
  BY <1>5, <1>6 DEF InclinationAllowed, Row
<1>10. LayerAllowed(op, now, Attended(work))' <=> LayerAllowed(op, now, Attended(work))
  BY <1>5, <1>6 DEF LayerAllowed, Row, Pending
<1>11. Allowed(op, now, work)'
  <2>1. /\ Kind(op) \in Objectives => ObjectiveAllowed(op, work \in Turns)'
        /\ Kind(op) = "entity" => EntityAllowed(op)'
        /\ Kind(op) = "relationship" => RelationshipAllowed(op)'
        /\ Kind(op) = "belief" => BeliefAllowed(op, now)'
        /\ Kind(op) = "relationship_thread" => ThreadAllowed(op, work \in Turns)'
        /\ Kind(op) = "episode" => EpisodeAllowed(op)'
        /\ Kind(op) \in {"interest", "preference"} => InclinationAllowed(op, now, Attended(work))'
        /\ Kind(op) \in Layers => LayerAllowed(op, now, Attended(work))'
        /\ ~Retrograde(op, now, work \in Turns)'
    BY <1>1, <1>2, <1>6, <1>7, <1>8, <1>9, <1>10, AllowedByFamily
  <2>2. Kind(op) \in Kinds
    BY <1>2, FamilyAssumption DEF Kind
  <2> QED BY <2>1, <2>2 DEF Allowed, Kinds, Objectives, Layers, Immediate
<1> QED BY <1>3, <1>11

-----------------------------------------------------------------------------
(* What a commit writes *)

Writes(o, op, work, now) ==
    /\ o \in Touched(op)
    /\ objects'[o] = Stamped(Content(op, o, now), objects[o], now)
    /\ history'[o] = Append(history[o], [before |-> objects[o], after |-> objects'[o],
                                         op |-> op, work |-> work, at |-> now])

\* All of a sound plan is written, and nothing else.
WritesAll(work, now) ==
    /\ Sound(work, now)
    /\ \A o \in Objects :
        \/ objects'[o] = objects[o] /\ history'[o] = history[o]
           /\ \A op \in Ops(work) : o \notin Touched(op)
        \/ \E op \in Ops(work) : Writes(o, op, work, now)

LEMMA CommitWrites ==
    ASSUME IInv, WorkSound, PlansCurrent, NEW s \in Sessions, Commit(s), txn[s].phase = "writing"
    PROVE  \E work \in Turns \cup Calls, now \in Nat :
              work = txn[s].work /\ now = txn[s].now /\ WritesAll(work, now)
<1>1. PICK work, now : work = txn[s].work /\ now = txn[s].now
  OBVIOUS
<1>2. work \in Turns \cup Calls /\ now \in Nat
  BY <1>1 DEF WorkSound
<1> DEFINE changes == txn[s].changes
<1>3. changes = Revisions(work, now) /\ Sound(work, now)
  BY <1>1 DEF PlansCurrent
<1>4. \A o \in Objects :
          /\ objects'[o] = IF o \in DOMAIN changes THEN changes[o].after ELSE objects[o]
          /\ history'[o] = IF o \in DOMAIN changes THEN Append(history[o], changes[o])
                                                   ELSE history[o]
  BY DEF Commit
<1>5. DOMAIN changes = UNION {Touched(op) : op \in Ops(work)}
  BY <1>3 DEF Revisions
<1>6. ASSUME NEW o \in Objects, o \in DOMAIN changes
      PROVE  \E op \in Ops(work) : Writes(o, op, work, now)
  <2> DEFINE op == CHOOSE p \in Ops(work) : o \in Touched(p)
  <2>1. op \in Ops(work) /\ o \in Touched(op)
    BY <1>5, <1>6
  <2>2. changes[o] = [before |-> objects[o],
                      after |-> Stamped(Content(op, o, now), objects[o], now),
                      op |-> op, work |-> work, at |-> now]
    BY <1>3, <1>5, <1>6 DEF Revisions
  <2> HIDE DEF op, changes
  <2>3. /\ objects'[o] = changes[o].after
        /\ history'[o] = Append(history[o], changes[o])
    BY <1>4, <1>6
  <2>4. objects'[o] = Stamped(Content(op, o, now), objects[o], now)
    BY <2>2, <2>3
  <2>5. history'[o] = Append(history[o], [before |-> objects[o], after |-> objects'[o],
                                          op |-> op, work |-> work, at |-> now])
    BY <2>2, <2>3, <2>4, Zenon
  <2> QED BY <2>1, <2>4, <2>5 DEF Writes
<1>7. WritesAll(work, now)
  BY <1>3, <1>4, <1>5, <1>6 DEF WritesAll
<1> QED BY <1>1, <1>2, <1>7

\* One operation writes an object, as what it is: only beliefs supersede.
LEMMA WriterOfRow ==
    ASSUME NEW work \in Turns \cup Calls, NEW now, Sound(work, now),
           NEW op \in Ops(work), NEW o \in Touched(op), o \in Objects
    PROVE  /\ o = op.target \/ /\ o # op.target /\ op.act = "supersede" /\ o = op.parent
                               /\ KindOf[o] = "belief" /\ Kind(op) = "belief"
                               /\ objects[o] # NoRow
                               /\ objects[o].status \notin {"superseded", "withdrawn"}
           /\ op.target \in Objects /\ Allowed(op, now, work)
           /\ KindOf[o] = Kind(op)
           /\ \A r \in Cited(op) : Known(r)
           /\ \A p \in Ops(work) : o \in Touched(p) => p = op
<1>1. /\ op.target \in Objects /\ Allowed(op, now, work)
      /\ \A r \in Cited(op) : Known(r)
      /\ \A p \in Ops(work) : o \in Touched(p) => p = op
      /\ op.act = "supersede" => op.parent # op.target
  BY OpsTyped DEF Sound, Disjoint
<1>2. CASE o = op.target
  BY <1>1, <1>2 DEF Kind
<1>3. CASE o # op.target
  <2>1. op.act = "supersede" /\ o = op.parent
    BY <1>3 DEF Touched
  <2>2. Kind(op) = "belief" /\ KindOf[o] = "belief"
    BY <2>1, OpsTyped, FamilyAssumption
  <2>3. BeliefAllowed(op, now)
    BY <1>1, <2>2, AllowedByFamily
  <2>4. objects[o] # NoRow /\ objects[o].status \notin {"superseded", "withdrawn"}
    BY <2>1, <2>3 DEF BeliefAllowed, CreateAllowed, Creatable
  <2> QED BY <1>1, <1>3, <2>1, <2>2, <2>4
<1> QED BY <1>2, <1>3

LEMMA StampedWhole ==
    ASSUME NEW row, DOMAIN row = Fields, NEW old, NEW now
    PROVE  /\ DOMAIN Stamped(row, old, now) = Fields
           /\ Stamped(row, old, now).updated = now
           /\ \A f \in Fields \ {"updated", "revision"} : Stamped(row, old, now)[f] = row[f]
<1> DEFINE stamp == [updated |-> now, revision |-> NextRevision(old)]
<1>1. DOMAIN stamp = {"updated", "revision"} /\ stamp["updated"] = now
  OBVIOUS
<1>2. Stamped(row, old, now) =
        [f \in DOMAIN row \cup DOMAIN stamp |-> IF f \in DOMAIN stamp THEN stamp[f] ELSE row[f]]
  BY Zenon DEF Stamped, NextRevision
<1> HIDE DEF stamp
<1> QED BY <1>1, <1>2 DEF Fields

\* What an operation makes of a row, by family, has all the fields of a row, and
\* rests on, and is linked to, what the row was and what the operation cites.
LEMMA ContentWhole ==
    ASSUME IInv, RevisionsSound, NEW work \in Turns \cup Calls, NEW now \in Nat, Sound(work, now),
           NEW op \in Ops(work), NEW o \in Touched(op), o \in Objects
    PROVE  /\ DOMAIN Content(op, o, now) = Fields
           /\ Grounds(Content(op, o, now)) \subseteq
                 op.refs \cup op.against \cup (IF objects[o] = NoRow THEN {} ELSE Grounds(objects[o]))
           /\ Ties(Content(op, o, now)) \subseteq
                 Ties(op) \cup (IF objects[o] = NoRow THEN {} ELSE Ties(objects[o]))
<1> DEFINE c == Content(op, o, now)
           row == objects[o]
           All == op.refs \cup op.against \cup (IF row = NoRow THEN {} ELSE Grounds(row))
           Tied == Ties(op) \cup (IF row = NoRow THEN {} ELSE Ties(row))
<1>1. /\ o = op.target \/ (o # op.target /\ row # NoRow)
      /\ op.target \in Objects /\ Allowed(op, now, work) /\ KindOf[o] = Kind(op)
  BY WriterOfRow
<1>2. row # NoRow => DOMAIN row = Fields
  BY RowsWhole
<1>3. /\ DOMAIN Fresh(op, now) = Fields /\ Grounds(Fresh(op, now)) \subseteq op.refs \cup op.against
      /\ Ties(Fresh(op, now)) \subseteq Ties(op)
  BY DEF Fresh, Fields, Grounds, Ties
<1>4. CASE o # op.target
  <2>1. c = [row EXCEPT !.status = "superseded"]
    BY <1>4 DEF Content
  <2> QED BY <1>1, <1>2, <1>4, <2>1 DEF Grounds, Ties, Fields
<1>5. CASE o = op.target /\ Kind(op) = "belief"
  <2>1. c = BeliefRow(op, now)
    BY <1>5 DEF Content, Layers, Immediate
  <2>2. BeliefAllowed(op, now)
    BY <1>1, <1>5, AllowedByFamily
  <2>3. op.act = "set_status" => row # NoRow
    BY <1>5, <2>2 DEF BeliefAllowed, Row, CreateAllowed, Creatable
  <2>4. CASE op.act = "set_status"
    <3>1. c = [row EXCEPT !.status = op.status, !.text = op.text,
                          !.refs = @ \cup op.refs, !.against = @ \cup op.against]
      BY <1>5, <2>1, <2>4 DEF BeliefRow, Row
    <3> QED BY <1>2, <2>3, <2>4, <3>1 DEF Grounds, Ties, Fields
  <2>5. CASE op.act # "set_status"
    BY <1>3, <2>1, <2>5 DEF BeliefRow
  <2> QED BY <2>4, <2>5
<1>6. CASE o = op.target /\ Kind(op) \in {"interest", "preference"}
  <2>1. c = InclinationRow(op, now)
    BY <1>6 DEF Content, Layers, Immediate
  <2>2. InclinationAllowed(op, now, Attended(work))
    BY <1>1, <1>6, AllowedByFamily
  <2> DEFINE kept == [row EXCEPT !.text = op.text, !.refs = @ \cup op.refs]
  <2>3. row # NoRow => DOMAIN kept = Fields /\ Grounds(kept) \subseteq All /\ Ties(kept) \subseteq Tied
    BY <1>2 DEF Grounds, Ties, Fields
  <2>4. \/ op.act = "create" /\ c = [Fresh(op, now) EXCEPT !.notBefore = now + Day]
        \/ /\ op.act = "establish" /\ row # NoRow
           /\ c = [kept EXCEPT !.status = "established",
                               !.retirement = IF Kind(op) = "interest" THEN None ELSE now + Week]
        \/ /\ op.act = "set_dormant" /\ row # NoRow
           /\ c = [kept EXCEPT !.status = "dormant", !.retirement = now + Week]
        \/ op.act = "retire" /\ row # NoRow /\ c = [kept EXCEPT !.status = "retired"]
    BY <1>6, <2>1, <2>2 DEF InclinationRow, InclinationAllowed, Row, CreateAllowed, Creatable
  <2> HIDE DEF kept
  <2>5. CASE op.act = "create" /\ c = [Fresh(op, now) EXCEPT !.notBefore = now + Day]
    BY <1>3, <2>5 DEF Grounds, Ties, Fields
  <2>6. CASE /\ op.act = "establish" /\ row # NoRow
             /\ c = [kept EXCEPT !.status = "established",
                                 !.retirement = IF Kind(op) = "interest" THEN None ELSE now + Week]
    BY <2>3, <2>6 DEF Grounds, Ties, Fields
  <2>7. CASE /\ op.act = "set_dormant" /\ row # NoRow
             /\ c = [kept EXCEPT !.status = "dormant", !.retirement = now + Week]
    BY <2>3, <2>7 DEF Grounds, Ties, Fields
  <2>8. CASE op.act = "retire" /\ row # NoRow /\ c = [kept EXCEPT !.status = "retired"]
    BY <2>3, <2>8 DEF Grounds, Ties, Fields
  <2> QED BY <2>4, <2>5, <2>6, <2>7, <2>8
<1>7. CASE o = op.target /\ Kind(op) \in Layers
  <2>1. c = LayerRow(op, now)
    BY <1>7 DEF Content, Layers, Immediate
  <2>2. /\ DOMAIN Layer(op, now) = Fields
        /\ Grounds(Layer(op, now)) \subseteq All /\ Ties(Layer(op, now)) \subseteq Tied
    BY <1>2, <1>3, <1>7 DEF Layer, Row, Grounds, Ties, Fields
  <2>3. Early(op, now) \/ Pending(op) => row # NoRow
    BY <1>7 DEF Early, Pending, Row
  <2>4. \/ c = [Layer(op, now) EXCEPT !.text = op.text, !.refs = op.refs,
                      !.pending = None, !.pendingRefs = {}, !.notBefore = None]
        \/ Early(op, now) /\ c = [row EXCEPT !.pendingRefs = @ \cup op.refs]
        \/ Pending(op) /\ c = [Layer(op, now) EXCEPT !.text = op.text, !.refs = row.pendingRefs \cup op.refs,
                      !.pending = None, !.pendingRefs = {}, !.notBefore = None]
        \/ c = [Layer(op, now) EXCEPT !.pending = op.text, !.pendingRefs = op.refs,
                           !.notBefore = now + Day]
    BY <1>7, <2>1 DEF LayerRow, Staged, Row
  <2> HIDE DEF c
  <2>5. CASE c = [Layer(op, now) EXCEPT !.text = op.text, !.refs = op.refs,
                      !.pending = None, !.pendingRefs = {}, !.notBefore = None]
    BY <2>2, <2>5 DEF Grounds, Ties, Fields, c
  <2>6. CASE Early(op, now) /\ c = [row EXCEPT !.pendingRefs = @ \cup op.refs]
    BY <1>2, <2>3, <2>6 DEF Grounds, Ties, Fields, c
  <2>7. CASE Pending(op) /\ c = [Layer(op, now) EXCEPT !.text = op.text, !.refs = row.pendingRefs \cup op.refs,
                      !.pending = None, !.pendingRefs = {}, !.notBefore = None]
    BY <2>2, <2>3, <2>7 DEF Grounds, Ties, Fields, c
  <2>8. CASE c = [Layer(op, now) EXCEPT !.pending = op.text, !.pendingRefs = op.refs,
                           !.notBefore = now + Day]
    BY <2>2, <2>8 DEF Grounds, Ties, Fields, c
  <2> QED BY <2>4, <2>5, <2>6, <2>7, <2>8
<1>8. CASE o = op.target /\ Kind(op) \notin Layers \cup {"belief", "interest", "preference"}
  <2>1. c = IF op.act = "create" THEN Fresh(op, now) ELSE Rewritten(op)
    BY <1>8 DEF Content
  <2>2. op.act # "create" => row # NoRow
    <3>1. Kind(op) \in Kinds
      BY <1>1, FamilyAssumption
    <3>2. CASE Kind(op) \in Objectives
      BY <1>1, <1>8, <3>2, AllowedByFamily DEF ObjectiveAllowed, CreateAllowed, Creatable, Row
    <3>3. CASE Kind(op) = "entity"
      BY <1>1, <1>8, <3>3, AllowedByFamily DEF EntityAllowed, CreateAllowed, Creatable, Row
    <3>4. CASE Kind(op) = "relationship"
      BY <1>1, <1>8, <3>4, AllowedByFamily DEF RelationshipAllowed, CreateAllowed, Creatable, Row
    <3>5. CASE Kind(op) = "relationship_thread"
      BY <1>1, <1>8, <3>5, AllowedByFamily DEF ThreadAllowed, CreateAllowed, Creatable, Row
    <3>6. CASE Kind(op) = "episode"
      BY <1>1, <1>8, <3>6, AllowedByFamily DEF EpisodeAllowed, CreateAllowed, Creatable, Row
    <3> QED BY <1>8, <3>1, <3>2, <3>3, <3>4, <3>5, <3>6 DEF Kinds, Objectives, Layers, Immediate
  <2>3. CASE op.act = "create"
    BY <1>3, <2>1, <2>3
  <2>4. CASE op.act # "create"
    <3>1. /\ DOMAIN Rewritten(op) = Fields /\ Grounds(Rewritten(op)) \subseteq All
          /\ Ties(Rewritten(op)) \subseteq Tied
      BY <1>2, <1>8, <2>2, <2>4 DEF Rewritten, Given, Row, Grounds, Ties, Fields
    <3> QED BY <2>1, <2>4, <3>1
  <2> QED BY <2>3, <2>4
<1> QED BY <1>4, <1>5, <1>6, <1>7, <1>8

\* A written object has one more revision, and the others are as they were.
LEMMA OneMore ==
    ASSUME IInv, RevisionsSound, NEW o \in Objects, NEW op, NEW work, NEW now, Writes(o, op, work, now)
    PROVE  \E N \in Nat :
              /\ N = Len(history[o]) /\ DOMAIN history[o] = 1 .. N
              /\ N + 1 = Len(history'[o]) /\ DOMAIN history'[o] = 1 .. N + 1
              /\ \A n \in 1 .. N : Rev(o, n)' = Rev(o, n)
              /\ Rev(o, N + 1)'.before = objects[o] /\ Rev(o, N + 1)'.after = objects'[o]
              /\ Rev(o, N + 1)'.op = op /\ Rev(o, N + 1)'.work = work
              /\ Rev(o, N + 1)'.at = now
<1> DEFINE change == [before |-> objects[o], after |-> objects'[o],
                      op |-> op, work |-> work, at |-> now]
<1>1. history'[o] = Append(history[o], change)
  BY DEF Writes
<1>2. PICK S : history[o] \in Seq(S)
  BY DEF IInv, Shape, IsSequence
<1>3. history[o] \in Seq(S \cup {change})
  BY <1>2
<1>4. /\ change.before = objects[o] /\ change.after = objects'[o]
      /\ change.op = op /\ change.work = work /\ change.at = now
  OBVIOUS
<1> HIDE DEF change
<1>5. PICK N \in Nat : N = Len(history[o])
  BY <1>2
<1>6. /\ Len(history'[o]) = N + 1
      /\ DOMAIN history[o] = 1 .. N
      /\ DOMAIN history'[o] = 1 .. N + 1
      /\ \A n \in 1 .. N : history'[o][n] = history[o][n]
      /\ history'[o][N + 1] = change
  BY <1>1, <1>3, <1>5
<1>7. /\ \A n \in 1 .. N : Rev(o, n)' = Rev(o, n)
      /\ Rev(o, N + 1)' = change
  BY <1>6 DEF Rev
<1> QED BY <1>4, <1>5, <1>6, <1>7

LEMMA WrittenRow ==
    ASSUME IInv, RevisionsSound, NEW work \in Turns \cup Calls, NEW now \in Nat, Sound(work, now),
           NEW op \in Ops(work), NEW o \in Objects, Writes(o, op, work, now)
    PROVE  /\ DOMAIN objects'[o] = Fields /\ objects'[o] # NoRow
           /\ objects'[o].updated = now
           /\ \A f \in Fields \ {"updated", "revision"} : objects'[o][f] = Content(op, o, now)[f]
<1>1. o \in Touched(op) /\ objects'[o] = Stamped(Content(op, o, now), objects[o], now)
  BY DEF Writes
<1>2. DOMAIN Content(op, o, now) = Fields
  BY <1>1, ContentWhole
<1>3. PICK c, old : c = Content(op, o, now) /\ old = objects[o]
  OBVIOUS
<1>4. objects'[o] = Stamped(c, old, now) /\ DOMAIN c = Fields
  BY <1>1, <1>2, <1>3
<1>5. /\ DOMAIN objects'[o] = Fields
      /\ objects'[o].updated = now
      /\ \A f \in Fields \ {"updated", "revision"} : objects'[o][f] = c[f]
  BY <1>4, StampedWhole
<1>6. DOMAIN NoRow # Fields
  <2>1. DOMAIN NoRow = {}
    BY DEF NoRow
  <2> QED BY <2>1 DEF Fields
<1> QED BY <1>3, <1>5, <1>6

LEMMA WritesGrow ==
    ASSUME IInv, RevisionsSound, clock \in Nat, clock' = clock,
           NEW work \in Turns \cup Calls, NEW now \in Nat, WritesAll(work, now)
    PROVE  Grows
<1> SUFFICES ASSUME NEW o \in Objects
             PROVE  /\ \A n \in DOMAIN history[o] :
                          n \in DOMAIN history'[o] /\ history'[o][n] = history[o][n]
                    /\ objects[o] # NoRow =>
                          /\ objects'[o] # NoRow
                          /\ KindOf[o] = "episode" => objects'[o].refs = objects[o].refs
  BY DEF Grows
<1>1. CASE objects'[o] = objects[o] /\ history'[o] = history[o]
  BY <1>1
<1>2. ASSUME NEW op \in Ops(work), Writes(o, op, work, now)
      PROVE  /\ \A n \in DOMAIN history[o] :
                   n \in DOMAIN history'[o] /\ history'[o][n] = history[o][n]
             /\ objects'[o] # NoRow
             /\ KindOf[o] = "episode" => objects[o] = NoRow
  <2>1. Sound(work, now) /\ o \in Touched(op)
    BY <1>2 DEF WritesAll, Writes
  <2>2. \A n \in DOMAIN history[o] :
           n \in DOMAIN history'[o] /\ history'[o][n] = history[o][n]
    <3>1. DOMAIN history[o] = 1 .. Len(history[o]) /\ Len(history[o]) \in Nat
      BY RowsWhole
    <3>2. PICK N \in Nat : /\ N = Len(history[o])
                          /\ DOMAIN history'[o] = 1 .. N + 1
                          /\ \A m \in 1 .. N : Rev(o, m)' = Rev(o, m)
      BY <1>2, OneMore
    <3> QED BY <3>1, <3>2 DEF Rev
  <2>3. objects'[o] # NoRow
    BY <1>2, <2>1, WrittenRow
  <2>4. ASSUME KindOf[o] = "episode" PROVE objects[o] = NoRow
    <3>1. o = op.target /\ Kind(op) = "episode" /\ Allowed(op, now, work)
      BY <2>1, <2>4, WriterOfRow
    <3>2. EpisodeAllowed(op)
      BY <3>1, AllowedByFamily
    <3> QED BY <3>1, <3>2 DEF EpisodeAllowed, CreateAllowed, Creatable, Row
  <2> QED BY <2>2, <2>3, <2>4
<1> QED BY <1>1, <1>2 DEF WritesAll

LEMMA WritesSound ==
    ASSUME IInv, RevisionsSound, clock \in Nat, clock' = clock,
           NEW work \in Turns \cup Calls, NEW now \in Nat, WritesAll(work, now)
    PROVE  RevisionsSound'
<1>1. Grows
  BY WritesGrow
<1> SUFFICES ASSUME NEW o \in Objects, NEW n \in DOMAIN history'[o]
             PROVE  RevisionSound(o, n)'
  BY DEF RevisionsSound
<1>2. ASSUME n \in DOMAIN history[o], Rev(o, n)' = Rev(o, n)
      PROVE  RevisionSound(o, n)'
  <2>1. RevisionSound(o, n)
    BY <1>2 DEF RevisionsSound
  <2>2. \A x \in Grounds(Rev(o, n).after) \cup Rev(o, n).op.refs : x \in References /\ Known(x)'
    BY <1>1, <2>1, KnownStays DEF RevisionSound
  <2>3. /\ Grounds(Rev(o, n).after)' = Grounds(Rev(o, n).after)
        /\ Ops(Rev(o, n).work)' = Ops(Rev(o, n).work)
    BY <1>2 DEF Grounds, Ops
  <2> QED BY <1>2, <2>1, <2>2, <2>3 DEF RevisionSound, Ops, Touched
<1>3. CASE objects'[o] = objects[o] /\ history'[o] = history[o]
  BY <1>2, <1>3 DEF Rev
<1>4. ASSUME NEW op \in Ops(work), Writes(o, op, work, now)
      PROVE  RevisionSound(o, n)'
  <2>1. PICK N \in Nat :
              /\ N = Len(history[o]) /\ DOMAIN history[o] = 1 .. N
              /\ N + 1 = Len(history'[o]) /\ DOMAIN history'[o] = 1 .. N + 1
              /\ \A m \in 1 .. N : Rev(o, m)' = Rev(o, m)
              /\ Rev(o, N + 1)'.before = objects[o] /\ Rev(o, N + 1)'.after = objects'[o]
              /\ Rev(o, N + 1)'.op = op /\ Rev(o, N + 1)'.work = work
              /\ Rev(o, N + 1)'.at = now
    BY <1>4, OneMore
  <2>2. CASE n \in 1 .. N
    BY <1>2, <2>1, <2>2
  <2>3. CASE n = N + 1
    <3>1. Sound(work, now) /\ o \in Touched(op)
      BY <1>4 DEF WritesAll, Writes
    <3>2. /\ DOMAIN objects'[o] = Fields
          /\ objects'[o].updated = now
          /\ \A f \in Fields \ {"updated", "revision"} : objects'[o][f] = Content(op, o, now)[f]
      BY <1>4, <3>1, WrittenRow
    <3>3. Grounds(objects'[o]) = Grounds(Content(op, o, now))
      BY <3>2 DEF Grounds, Fields
    <3>4. Grounds(objects'[o]) \subseteq
             op.refs \cup op.against \cup (IF objects[o] = NoRow THEN {} ELSE Grounds(objects[o]))
      BY <3>1, <3>3, ContentWhole
    <3>5. \A x \in op.refs \cup op.against : x \in References /\ Known(x)
      BY <3>1, OpsTyped, WriterOfRow DEF Cited
    <3>6. objects[o] # NoRow => \A x \in Grounds(objects[o]) : x \in References /\ Known(x)
      <4>1. objects[o] # NoRow => N \in DOMAIN history[o] /\ objects[o] = Rev(o, N).after
        BY <2>1, RowsWhole DEF Rev
      <4> QED BY <4>1 DEF RevisionsSound, RevisionSound
    <3>7. \A x \in Grounds(objects'[o]) \cup op.refs : x \in References /\ Known(x)'
      BY <1>1, <3>4, <3>5, <3>6, KnownStays
    <3>8. Grounds(Rev(o, N + 1).after)' = Grounds(objects'[o])
      BY <2>1 DEF Grounds
    <3>9. Ops(Rev(o, N + 1).work)' = Ops(work) /\ Touched(Rev(o, N + 1).op)' = Touched(op)
      BY <2>1 DEF Ops, Touched
    <3>10. RevisionSound(o, N + 1)'
      BY <2>1, <3>1, <3>2, <3>7, <3>8, <3>9 DEF RevisionSound
    <3> QED BY <2>3, <3>10
  <2> QED BY <2>1, <2>2, <2>3
<1> QED BY <1>3, <1>4 DEF WritesAll

-----------------------------------------------------------------------------
(* Every step keeps plans current *)

Current == IInv /\ WorkSound /\ PlansCurrent /\ RevisionsSound

LEMMA TxnShapes ==
    ASSUME NEW phase, NEW work, NEW now, NEW changes
    PROVE  /\ Txn(phase, work, now, changes).phase = phase
           /\ Txn(phase, work, now, changes).work = work
           /\ Txn(phase, work, now, changes).now = now
           /\ Txn(phase, work, now, changes).changes = changes
           /\ Idle.phase = "idle" /\ Idle.work = None
BY DEF Txn, Idle

LEMMA BeginWork ==
    ASSUME IInv, WorkSound, NEW s \in Sessions, NEW work \in Turns \cup Calls, Begin(s, work),
           UNCHANGED <<clock, turns>>,
           work \in Turns => turns[work] = "decided" /\ \A u \in Sessions : ~Deciding(u)
    PROVE  WorkSound'
<1>1. \A u \in Sessions : txn'[u] = IF u = s THEN Txn("waiting", work, Now(s), NoChanges) ELSE txn[u]
  BY DEF Begin, IInv, Shape
<1>2. Now(s) \in Nat
  BY ClockAssumption DEF Now, WorkSound
<1>3. \A u \in Sessions :
        /\ u # s => txn'[u] = txn[u] /\ (Deciding(u)' <=> Deciding(u))
        /\ u = s => /\ txn'[u].phase = "waiting" /\ txn'[u].work = work /\ txn'[u].now \in Nat
                    /\ Deciding(u)' <=> work \in Turns
  BY <1>1, <1>2, TxnShapes DEF Deciding
<1> QED BY <1>3 DEF WorkSound, Deciding

\* The transaction of s goes on with its work, or gives it up.
LEMMA GoesOnWork ==
    ASSUME IInv, WorkSound, NEW s \in Sessions, UNCHANGED <<clock, turns>>,
           NEW t, txn' = [txn EXCEPT ![s] = t],
           \/ t = Idle
           \/ /\ txn[s].phase = "waiting" /\ t.work = txn[s].work /\ t.now = txn[s].now
              /\ t.phase \in {"writing", "refusing"}
              /\ t.phase = "refusing" => Deciding(s)
    PROVE  WorkSound'
<1>1. \A u \in Sessions : txn'[u] = IF u = s THEN t ELSE txn[u]
  BY DEF IInv, Shape
<1>2. \A u \in Sessions : Deciding(u)' => Deciding(u) /\ txn'[u].work = txn[u].work
  BY <1>1, TxnShapes, WorkAssumption DEF Deciding
<1>3. CASE t = Idle
  BY <1>1, <1>2, <1>3, TxnShapes, WorkAssumption DEF WorkSound, Deciding
<1>4. CASE /\ txn[s].phase = "waiting" /\ t.work = txn[s].work /\ t.now = txn[s].now
           /\ t.phase \in {"writing", "refusing"}
           /\ t.phase = "refusing" => Deciding(s)
  BY <1>1, <1>2, <1>4 DEF WorkSound, Deciding
<1> QED BY <1>3, <1>4

LEMMA CommitWork ==
    ASSUME IInv, WorkSound, NEW s \in Sessions, Commit(s)
    PROVE  WorkSound'
<1>1. \A u \in Sessions : txn'[u] = IF u = s THEN Idle ELSE txn[u]
  BY DEF Commit, Closed, IInv, Shape
<1>2. clock' = clock
  BY DEF Commit, Closed
<1>3. \A u \in Sessions : Deciding(u)' => u # s /\ Deciding(u) /\ txn'[u].work = txn[u].work
  BY <1>1, TxnShapes, WorkAssumption DEF Deciding
<1>4. /\ turns' \in [Turns -> {"never", "open", "decided", "applied", "rejected"}]
      /\ \A u \in Sessions : Deciding(u) /\ u # s => turns'[txn[u].work] = turns[txn[u].work]
  <2>1. CASE Deciding(s)
    <3>1. turns' = [turns EXCEPT ![txn[s].work] = IF txn[s].phase = "writing" THEN "applied"
                                                                              ELSE "rejected"]
      BY <2>1 DEF Commit, Deciding
    <3> QED BY <2>1, <3>1 DEF WorkSound, Deciding
  <2>2. CASE ~Deciding(s)
    BY <2>2 DEF Commit, Deciding, WorkSound
  <2> QED BY <2>1, <2>2
<1> QED BY <1>1, <1>2, <1>3, <1>4, TxnShapes DEF WorkSound, Deciding

LEMMA NextWork == IInv /\ WorkSound /\ [Next]_vars => WorkSound'
<1> SUFFICES ASSUME IInv, WorkSound, [Next]_vars PROVE WorkSound'
  OBVIOUS
<1>1. ASSUME NEW t \in Turns, Decide(t) PROVE WorkSound'
  <2>1. /\ turns[t] = "open" /\ turns' = [turns EXCEPT ![t] = "decided"]
        /\ UNCHANGED <<clock, txn>>
    BY <1>1 DEF Decide
  <2> QED BY <2>1 DEF WorkSound, Deciding
<1>2. ASSUME NEW s \in Sessions, NEW t \in Turns, BeginApply(s, t) PROVE WorkSound'
  BY <1>2, BeginWork DEF BeginApply, store, Deciding
<1>3. ASSUME NEW s \in Sessions, NEW c \in Calls, BeginCall(s, c) PROVE WorkSound'
  BY <1>3, BeginWork DEF BeginCall, store
<1>4. ASSUME NEW s \in Sessions, Plan(s) PROVE WorkSound'
  <2> DEFINE t == Txn("writing", txn[s].work, txn[s].now, Revisions(txn[s].work, txn[s].now))
  <2>1. /\ txn' = [txn EXCEPT ![s] = t] /\ txn[s].phase = "waiting" /\ UNCHANGED <<clock, turns>>
    BY <1>4 DEF Plan, store
  <2>2. t.phase = "writing" /\ t.work = txn[s].work /\ t.now = txn[s].now
    BY TxnShapes
  <2> HIDE DEF t
  <2> QED BY <2>1, <2>2, GoesOnWork
<1>5. ASSUME NEW s \in Sessions, Refuse(s) PROVE WorkSound'
  <2> DEFINE t == Txn("refusing", txn[s].work, txn[s].now, NoChanges)
  <2>1. /\ txn[s].phase = "waiting" /\ UNCHANGED <<clock, turns>>
        /\ \/ txn' = [txn EXCEPT ![s] = Idle]
           \/ Deciding(s) /\ txn' = [txn EXCEPT ![s] = t]
    BY <1>5 DEF Refuse, store, Deciding
  <2>2. t.phase = "refusing" /\ t.work = txn[s].work /\ t.now = txn[s].now
    BY TxnShapes
  <2> HIDE DEF t
  <2> QED BY <2>1, <2>2, GoesOnWork
<1>6. ASSUME NEW s \in Sessions, Fail(s) PROVE WorkSound'
  BY <1>6, GoesOnWork DEF Fail, Closed, store
<1>7. CASE Tick
  BY <1>7 DEF Tick, store, WorkSound, Deciding
<1>8. CASE UNCHANGED vars
  BY <1>8 DEF vars, store, WorkSound, Deciding
<1> QED BY <1>1, <1>2, <1>3, <1>4, <1>5, <1>6, <1>7, <1>8, CommitWork DEF Next

LEMMA PlansKept ==
    ASSUME Current, Grows, UNCHANGED <<objects, history, used>>, WorkSound',
           \A u \in Sessions : txn'[u].phase = "writing" =>
              \E work, now : /\ txn'[u].work = work /\ txn'[u].now = now
                             /\ txn'[u].changes = Revisions(work, now) /\ Sound(work, now)
    PROVE  PlansCurrent' /\ RevisionsSound'
<1>1. PlansCurrent'
  <2> SUFFICES ASSUME NEW u \in Sessions, txn'[u].phase = "writing"
               PROVE  /\ txn'[u].changes = Revisions(txn[u].work, txn[u].now)'
                      /\ Sound(txn[u].work, txn[u].now)'
    BY DEF PlansCurrent
  <2>1. PICK work, now : /\ txn'[u].work = work /\ txn'[u].now = now
                         /\ txn'[u].changes = Revisions(work, now) /\ Sound(work, now)
    OBVIOUS
  <2>2. work \in Turns \cup Calls /\ now \in Nat
    BY <2>1 DEF WorkSound
  <2>3. Revisions(work, now)' = Revisions(work, now) /\ Sound(work, now)'
    BY <2>1, <2>2, RevisionsStay, SoundStays DEF Current
  <2> QED BY <2>1, <2>3
<1>2. RevisionsSound'
  <2> SUFFICES ASSUME NEW o \in Objects, NEW n \in DOMAIN history[o]
               PROVE  RevisionSound(o, n)'
    BY DEF RevisionsSound
  <2>1. RevisionSound(o, n) /\ Rev(o, n)' = Rev(o, n)
    BY DEF Current, RevisionsSound, Rev
  <2>2. \A x \in Grounds(Rev(o, n).after) \cup Rev(o, n).op.refs : x \in References /\ Known(x)'
    BY <2>1, KnownStays DEF RevisionSound, Current
  <2>3. /\ Grounds(Rev(o, n).after)' = Grounds(Rev(o, n).after)
        /\ Ops(Rev(o, n).work)' = Ops(Rev(o, n).work)
    BY <2>1 DEF Grounds, Ops
  <2> QED BY <2>1, <2>2, <2>3 DEF RevisionSound, Ops, Touched
<1> QED BY <1>1, <1>2

LEMMA RestGrows ==
    ASSUME WorkSound, UNCHANGED <<objects, history>>, clock' \in {clock, clock + 1}
    PROVE  Grows
BY DEF Grows, WorkSound

LEMMA NextCurrent == Current /\ [Next]_vars => Current'
<1> SUFFICES ASSUME Current, [Next]_vars PROVE Current'
  OBVIOUS
<1>1. IInv' /\ WorkSound'
  BY NextIInv, NextWork DEF Current
<1>2. ASSUME UNCHANGED <<objects, history, used>>, clock' \in {clock, clock + 1},
             \A u \in Sessions : txn'[u].phase = "writing" => txn'[u] = txn[u]
      PROVE  PlansCurrent' /\ RevisionsSound'
  <2>1. Grows
    BY <1>2, RestGrows DEF Current
  <2>2. ASSUME NEW u \in Sessions, txn'[u].phase = "writing"
        PROVE  \E work, now : /\ txn'[u].work = work /\ txn'[u].now = now
                              /\ txn'[u].changes = Revisions(work, now) /\ Sound(work, now)
    BY <1>2, <2>2 DEF Current, PlansCurrent
  <2> QED BY <1>1, <1>2, <2>1, <2>2, PlansKept
<1>3. ASSUME NEW s \in Sessions, NEW t, t.phase # "writing", txn' = [txn EXCEPT ![s] = t],
             UNCHANGED <<objects, history, used, clock>>
      PROVE  PlansCurrent' /\ RevisionsSound'
  <2>1. \A u \in Sessions : txn'[u] = IF u = s THEN t ELSE txn[u]
    BY <1>3 DEF Current, IInv, Shape
  <2> QED BY <1>2, <1>3, <2>1
<1>4. ASSUME NEW t \in Turns, Decide(t) PROVE PlansCurrent' /\ RevisionsSound'
  BY <1>2, <1>4 DEF Decide
<1>5. ASSUME NEW s \in Sessions, NEW work, Begin(s, work),
             UNCHANGED <<objects, history, used, clock>>
      PROVE  PlansCurrent' /\ RevisionsSound'
  <2> DEFINE t == Txn("waiting", work, Now(s), NoChanges)
  <2>1. t.phase = "waiting" /\ txn' = [txn EXCEPT ![s] = t]
    BY <1>5, TxnShapes DEF Begin
  <2> HIDE DEF t
  <2> QED BY <1>3, <1>5, <2>1
<1>6. ASSUME NEW s \in Sessions, NEW t \in Turns, BeginApply(s, t)
      PROVE  PlansCurrent' /\ RevisionsSound'
  BY <1>5, <1>6 DEF BeginApply, store
<1>7. ASSUME NEW s \in Sessions, NEW c \in Calls, BeginCall(s, c)
      PROVE  PlansCurrent' /\ RevisionsSound'
  BY <1>5, <1>7 DEF BeginCall, store
<1>8. ASSUME NEW s \in Sessions, Plan(s) PROVE PlansCurrent' /\ RevisionsSound'
  <2>1. PICK work, now : work = txn[s].work /\ now = txn[s].now
    OBVIOUS
  <2>2. /\ UNCHANGED <<objects, history, used, clock>> /\ Sound(work, now)
        /\ txn' = [txn EXCEPT ![s] = Txn("writing", work, now, Revisions(work, now))]
        /\ lock = NoSession
    BY <1>8, <2>1 DEF Plan, store, Available
  <2>3. \A u \in Sessions : txn[u].phase # "writing"
    BY <2>2 DEF Current, IInv, LockHeld
  <2>4. \A u \in Sessions : txn'[u] = IF u = s THEN Txn("writing", work, now, Revisions(work, now))
                                               ELSE txn[u]
    BY <2>2 DEF Current, IInv, Shape
  <2>5. /\ txn'[s].work = work /\ txn'[s].now = now
        /\ txn'[s].changes = Revisions(work, now)
    BY <2>4, TxnShapes
  <2>6. Grows
    BY <2>2, RestGrows DEF Current
  <2>7. ASSUME NEW u \in Sessions, txn'[u].phase = "writing"
        PROVE  \E v, w : /\ txn'[u].work = v /\ txn'[u].now = w
                         /\ txn'[u].changes = Revisions(v, w) /\ Sound(v, w)
    <3>1. u = s
      BY <2>3, <2>4, <2>7
    <3> QED BY <2>2, <2>5, <3>1
  <2> QED BY <1>1, <2>2, <2>6, <2>7, PlansKept
<1>9. ASSUME NEW s \in Sessions, Refuse(s) PROVE PlansCurrent' /\ RevisionsSound'
  <2> DEFINE t == Txn("refusing", txn[s].work, txn[s].now, NoChanges)
  <2>1. /\ UNCHANGED <<objects, history, used, clock>>
        /\ txn' = [txn EXCEPT ![s] = Idle] \/ txn' = [txn EXCEPT ![s] = t]
    BY <1>9 DEF Refuse, store
  <2>2. t.phase = "refusing" /\ Idle.phase = "idle"
    BY TxnShapes
  <2> HIDE DEF t
  <2> QED BY <1>3, <2>1, <2>2
<1>10. ASSUME NEW s \in Sessions, Fail(s) PROVE PlansCurrent' /\ RevisionsSound'
  <2>1. UNCHANGED <<objects, history, used, clock>> /\ txn' = [txn EXCEPT ![s] = Idle]
    BY <1>10 DEF Fail, Closed, store
  <2> QED BY <1>3, <2>1, TxnShapes
<1>11. ASSUME NEW s \in Sessions, Commit(s) PROVE PlansCurrent' /\ RevisionsSound'
  <2>1. clock' = clock /\ lock = s /\ \A u \in Sessions : txn'[u] = IF u = s THEN Idle ELSE txn[u]
    BY <1>11 DEF Commit, Closed, Current, IInv, Shape, LockHeld
  <2>2. \A u \in Sessions : txn'[u].phase # "writing"
    BY <2>1, TxnShapes DEF Current, IInv, LockHeld
  <2>3. PlansCurrent'
    BY <2>2 DEF PlansCurrent
  <2>4. CASE txn[s].phase = "writing"
    <3>1. PICK work \in Turns \cup Calls, now \in Nat : WritesAll(work, now)
      BY <1>11, <2>4, CommitWrites DEF Current
    <3>2. RevisionsSound'
      BY <2>1, <3>1, WritesSound DEF Current, WorkSound
    <3> QED BY <2>3, <3>2
  <2>5. CASE txn[s].phase # "writing"
    <3>1. DOMAIN txn[s].changes = {}
      BY <2>5 DEF Current, IInv, PlansFit
    <3>2. \A o \in Objects : objects'[o] = objects[o] /\ history'[o] = history[o]
      BY <1>11, <3>1 DEF Commit
    <3>3. Grows
      BY <2>1, <3>2 DEF Grows, Current, WorkSound
    <3>4. ASSUME NEW o \in Objects, NEW n \in DOMAIN history'[o] PROVE RevisionSound(o, n)'
      <4>1. RevisionSound(o, n) /\ Rev(o, n)' = Rev(o, n)
        BY <3>2, <3>4 DEF Current, RevisionsSound, Rev
      <4>2. \A x \in Grounds(Rev(o, n).after) \cup Rev(o, n).op.refs : x \in References /\ Known(x)'
        BY <3>3, <4>1, KnownStays DEF RevisionSound, Current
      <4>3. /\ Grounds(Rev(o, n).after)' = Grounds(Rev(o, n).after)
            /\ Ops(Rev(o, n).work)' = Ops(Rev(o, n).work)
        BY <4>1 DEF Grounds, Ops
      <4> QED BY <4>1, <4>2, <4>3 DEF RevisionSound, Ops, Touched
    <3> QED BY <2>3, <3>4 DEF RevisionsSound
  <2> QED BY <2>4, <2>5
<1>12. ASSUME Tick PROVE PlansCurrent' /\ RevisionsSound'
  BY <1>2, <1>12 DEF Tick, store
<1>13. ASSUME UNCHANGED vars PROVE PlansCurrent' /\ RevisionsSound'
  BY <1>2, <1>13 DEF vars, store
<1> QED BY <1>1, <1>4, <1>6, <1>7, <1>8, <1>9, <1>10, <1>11, <1>12, <1>13 DEF Next, Current

LEMMA InitCurrent == Init => Current
<1> SUFFICES ASSUME Init PROVE Current
  OBVIOUS
<1>1. \A s \in Sessions : txn[s] = Idle
  BY DEF Init
<1>2. WorkSound
  <2>1. turns \in [Turns -> {"never", "open", "decided", "applied", "rejected"}] /\ clock \in Nat
    BY DEF Init
  <2> QED BY <1>1, <2>1, TxnShapes, WorkAssumption DEF WorkSound, Deciding
<1>3. PlansCurrent
  BY <1>1, TxnShapes DEF PlansCurrent
<1>4. RevisionsSound
  BY DEF Init, RevisionsSound
<1> QED BY <1>2, <1>3, <1>4, InitIInv DEF Current

LEMMA StaysCurrent == Spec => []Current
BY InitCurrent, NextCurrent, PTL DEF Spec

-----------------------------------------------------------------------------
(* A decision is applied whole and once *)

MadeBy(o, t) == {n \in DOMAIN history[o] : Rev(o, n).work = t}

LEMMA MadeByFinite ==
    ASSUME IInv, RevisionsSound, NEW o \in Objects, NEW t
    PROVE  /\ IsFiniteSet(MadeBy(o, t)) /\ Cardinality(MadeBy(o, t)) \in Nat
           /\ Cardinality(MadeBy(o, t)) = 0 <=> MadeBy(o, t) = {}
<1>1. DOMAIN history[o] = 1 .. Len(history[o]) /\ Len(history[o]) \in Nat
  BY RowsWhole
<1>2. IsFiniteSet(1 .. Len(history[o]))
  BY <1>1, FS_Interval
<1>3. MadeBy(o, t) \subseteq 1 .. Len(history[o])
  BY <1>1 DEF MadeBy
<1>4. IsFiniteSet(MadeBy(o, t))
  BY <1>2, <1>3, FS_Subset
<1> QED BY <1>4, FS_EmptySet, FS_CardinalityType

\* Nothing is written, and no decision becomes applied or stops being it.
LEMMA WholeStays ==
    ASSUME WholeOrNothing, used' = used, \A o \in Objects : history'[o] = history[o],
           \A t \in Turns : /\ turns'[t] = "applied" <=> turns[t] = "applied"
                            /\ turns[t] = "never" => turns'[t] = "never"
    PROVE  WholeOrNothing'
<1>1. Applied' = Applied
  BY DEF Applied
<1>2. ASSUME NEW o \in Objects, NEW t \in Turns, turns'[t] # "never"
      PROVE  Cardinality(MadeBy(o, t))' =
                IF t \in Applied' /\ o \in UNION {Touched(op) : op \in Decisions[t].ops}
                THEN 1 ELSE 0
  <2>1. MadeBy(o, t)' = MadeBy(o, t)
    BY DEF MadeBy, Rev
  <2>2. Cardinality(MadeBy(o, t)) =
                IF t \in Applied /\ o \in UNION {Touched(op) : op \in Decisions[t].ops}
                THEN 1 ELSE 0
    BY <1>2 DEF WholeOrNothing, MadeBy
  <2> QED BY <1>1, <2>1, <2>2
<1>3. /\ used' = UNION {Ids(t) : t \in Applied'}
      /\ \A t, u \in Applied' : t # u => Ids(t) \cap Ids(u) = {}
  BY <1>1 DEF WholeOrNothing
<1>4. \A t \in {u \in Turns : turns'[u] # "never"}, o \in Objects :
         Cardinality({n \in DOMAIN history'[o] : Rev(o, n)'.work = t}) =
            IF t \in Applied' /\ o \in UNION {Touched(op) : op \in Decisions[t].ops}
            THEN 1 ELSE 0
  BY <1>2 DEF MadeBy
<1> QED BY <1>3, <1>4 DEF WholeOrNothing, Ids, Touched

LEMMA CommitWhole ==
    ASSUME Current, WholeOrNothing, NEW s \in Sessions, Commit(s), txn[s].phase = "writing"
    PROVE  WholeOrNothing'
<1>1. PICK work \in Turns \cup Calls, now \in Nat :
          work = txn[s].work /\ now = txn[s].now /\ WritesAll(work, now)
  BY CommitWrites DEF Current
<1> DEFINE meant == UNION {Touched(op) : op \in Ops(work)}
<1>2. ASSUME NEW o \in Objects, NEW t \in Turns
      PROVE  /\ t # work \/ o \notin meant => MadeBy(o, t)' = MadeBy(o, t)
             /\ t = work /\ o \in meant =>
                   \E n \in Nat : MadeBy(o, t)' = MadeBy(o, t) \cup {n}
  <2>1. CASE /\ objects'[o] = objects[o] /\ history'[o] = history[o]
             /\ \A op \in Ops(work) : o \notin Touched(op)
    BY <2>1 DEF MadeBy, Rev
  <2>2. ASSUME NEW op \in Ops(work), Writes(o, op, work, now)
        PROVE  /\ t # work => MadeBy(o, t)' = MadeBy(o, t)
               /\ t = work => \E n \in Nat : MadeBy(o, t)' = MadeBy(o, t) \cup {n}
               /\ o \in meant
    <3>1. PICK N \in Nat : /\ DOMAIN history[o] = 1 .. N
                           /\ DOMAIN history'[o] = 1 .. N + 1
                           /\ \A n \in 1 .. N : Rev(o, n)' = Rev(o, n)
                           /\ Rev(o, N + 1)'.work = work
      BY <2>2, OneMore DEF Current
    <3>2. MadeBy(o, t)' = {n \in 1 .. N + 1 : Rev(o, n)'.work = t}
      BY <3>1 DEF MadeBy
    <3>3. t # work => MadeBy(o, t)' = MadeBy(o, t)
      BY <3>1, <3>2 DEF MadeBy
    <3>4. t = work => MadeBy(o, t)' = MadeBy(o, t) \cup {N + 1}
      BY <3>1, <3>2 DEF MadeBy
    <3>5. o \in meant
      BY <2>2 DEF Writes
    <3> QED BY <3>3, <3>4, <3>5
  <2> QED BY <1>1, <2>1, <2>2 DEF WritesAll
<1>3. CASE work \in Turns
  <2>1. turns[work] = "decided" /\ Ids(work) \cap used = {}
    BY <1>1, <1>3 DEF Current, WorkSound, Deciding, WritesAll, Sound, Ids, Ops
  <2>2. /\ turns' = [turns EXCEPT ![work] = "applied"]
        /\ used' = used \cup Ids(work)
    BY <1>1, <1>3 DEF Commit, Ids, Ops
  <2>3. /\ \A t \in Turns : turns'[t] = IF t = work THEN "applied" ELSE turns[t]
        /\ Applied' = Applied \cup {work} /\ work \notin Applied
    BY <1>3, <2>1, <2>2 DEF Applied, Current, WorkSound
  <2>4. ASSUME NEW o \in Objects
        PROVE  MadeBy(o, work) = {}
    <3>1. Cardinality(MadeBy(o, work)) = 0
      BY <1>3, <2>1, <2>3 DEF WholeOrNothing, MadeBy
    <3> QED BY <3>1, MadeByFinite DEF Current
  <2>5. ASSUME NEW t \in Turns, turns'[t] # "never", NEW o \in Objects
        PROVE  Cardinality(MadeBy(o, t))' =
                  IF t \in Applied' /\ o \in UNION {Touched(op) : op \in Decisions[t].ops}
                  THEN 1 ELSE 0
    <3>1. CASE t # work
      <4>1. turns[t] # "never" /\ (t \in Applied' <=> t \in Applied)
        BY <2>3, <2>5, <3>1
      <4>2. Cardinality(MadeBy(o, t)) =
                  IF t \in Applied /\ o \in UNION {Touched(op) : op \in Decisions[t].ops}
                  THEN 1 ELSE 0
        BY <4>1 DEF WholeOrNothing, MadeBy
      <4> QED BY <1>2, <3>1, <4>1, <4>2
    <3>2. CASE t = work /\ o \in meant
      <4>1. PICK n \in Nat : MadeBy(o, t)' = {n}
        BY <1>2, <2>4, <3>2
      <4>2. Cardinality(MadeBy(o, t))' = 1
        BY <4>1, FS_Singleton
      <4> QED BY <1>3, <2>3, <3>2, <4>2 DEF Ops
    <3>3. CASE t = work /\ o \notin meant
      <4>1. MadeBy(o, t)' = {}
        BY <1>2, <2>4, <3>3
      <4>2. Cardinality(MadeBy(o, t))' = 0
        BY <4>1, FS_EmptySet
      <4> QED BY <1>3, <3>3, <4>2 DEF Ops
    <3> QED BY <3>1, <3>2, <3>3
  <2>6. used' = UNION {Ids(t) : t \in Applied'}
    BY <2>2, <2>3 DEF WholeOrNothing
  <2>7. \A t, u \in Applied' : t # u => Ids(t) \cap Ids(u) = {}
    <3>1. \A t \in Applied : Ids(t) \subseteq used
      BY DEF WholeOrNothing
    <3> QED BY <2>1, <2>3, <3>1 DEF WholeOrNothing
  <2> QED BY <2>5, <2>6, <2>7 DEF WholeOrNothing, MadeBy, Ids, Touched
<1>4. CASE work \in Calls
  <2>1. work \notin Turns /\ UNCHANGED <<turns, used>>
    BY <1>1, <1>4 DEF Commit
  <2>2. \A o \in Objects, t \in Turns : MadeBy(o, t)' = MadeBy(o, t)
    BY <1>2, <2>1
  <2>3. Applied' = Applied
    BY <2>1 DEF Applied
  <2>4. ASSUME NEW t \in Turns, turns'[t] # "never", NEW o \in Objects
        PROVE  Cardinality(MadeBy(o, t))' =
                  IF t \in Applied' /\ o \in UNION {Touched(op) : op \in Decisions[t].ops}
                  THEN 1 ELSE 0
    <3>1. Cardinality(MadeBy(o, t)) =
                  IF t \in Applied /\ o \in UNION {Touched(op) : op \in Decisions[t].ops}
                  THEN 1 ELSE 0
      BY <2>1, <2>4 DEF WholeOrNothing, MadeBy
    <3> QED BY <2>2, <2>3, <3>1
  <2>5. /\ used' = UNION {Ids(t) : t \in Applied'}
        /\ \A t, u \in Applied' : t # u => Ids(t) \cap Ids(u) = {}
    BY <2>1, <2>3 DEF WholeOrNothing
  <2>6. \A t \in {u \in Turns : turns'[u] # "never"}, o \in Objects :
           Cardinality({n \in DOMAIN history'[o] : Rev(o, n)'.work = t}) =
              IF t \in Applied' /\ o \in UNION {Touched(op) : op \in Decisions[t].ops}
              THEN 1 ELSE 0
    BY <2>4 DEF MadeBy
  <2> QED BY <2>5, <2>6 DEF WholeOrNothing, Ids, Touched
<1> QED BY <1>1, <1>3, <1>4

LEMMA NextWhole == Current /\ WholeOrNothing /\ [Next]_vars => WholeOrNothing'
<1> SUFFICES ASSUME Current, WholeOrNothing, [Next]_vars PROVE WholeOrNothing'
  OBVIOUS
<1>1. ASSUME NEW s \in Sessions, Commit(s), txn[s].phase # "writing" PROVE WholeOrNothing'
  <2>1. Deciding(s) /\ DOMAIN txn[s].changes = {} /\ txn[s].phase = "refusing"
    BY <1>1 DEF Commit, Current, WorkSound, IInv, PlansFit
  <2>2. /\ turns' = [turns EXCEPT ![txn[s].work] = "rejected"] /\ used' = used
        /\ turns[txn[s].work] = "decided"
        /\ \A o \in Objects : history'[o] = history[o]
    BY <1>1, <2>1 DEF Commit, Deciding, Current, WorkSound
  <2>3. \A t \in Turns : /\ turns'[t] = "applied" <=> turns[t] = "applied"
                         /\ turns[t] = "never" => turns'[t] = "never"
    BY <2>1, <2>2 DEF Current, WorkSound, Deciding
  <2> QED BY <2>2, <2>3, WholeStays
<1>2. ASSUME NEW t \in Turns, Decide(t) PROVE WholeOrNothing'
  BY <1>2, WholeStays DEF Decide, Current, WorkSound
<1>3. ASSUME UNCHANGED store PROVE WholeOrNothing'
  BY <1>3, WholeStays DEF store
<1> QED BY <1>1, <1>2, <1>3, CommitWhole
        DEF Next, BeginApply, BeginCall, Plan, Refuse, Fail, Tick, vars

\* A recorded decision is applied whole and once, or not at all, though its
\* objects change before it is applied, its application fails or another runtime
\* takes it up again; no operation takes effect in two decisions
\* (apply_decision of stores/cognition.py, stores/personal.py).
THEOREM DecisionsApplyWhole == Spec => []WholeOrNothing
<1>1. Init => WholeOrNothing
  <2> SUFFICES ASSUME Init PROVE WholeOrNothing
    OBVIOUS
  <2>1. Applied = {} /\ used = {} /\ \A o \in Objects : DOMAIN history[o] = {}
    BY DEF Init, Applied
  <2>2. \A o \in Objects, t \in Turns : {n \in DOMAIN history[o] : Rev(o, n).work = t} = {}
    BY <2>1
  <2> QED BY <2>1, <2>2, FS_EmptySet DEF WholeOrNothing
<1> QED BY <1>1, NextWhole, StaysCurrent, PTL DEF Spec

-----------------------------------------------------------------------------
(* Gradual development: what is established was earned *)

Inclined(o) == KindOf[o] \in {"interest", "preference"}

\* An inclination remembers when it may be settled, and when it may be retired.
Ripening(o) ==
    Inclined(o) /\ objects[o] # NoRow =>
        /\ objects[o].notBefore = Rev(o, 1).at + Day
        /\ objects[o].status = Retirable(KindOf[o]) =>
              objects[o].retirement = Rev(o, Len(history[o])).at + Week

\* A staged claim was staged since k, and its delay and its evidence are its own.
StagedSince(o, k, N) ==
    /\ \A m \in k .. N : Rev(o, m).after.pending = Rev(o, N).after.pending
    /\ Rev(o, N).after.notBefore = Rev(o, k).at + Day
    /\ Rev(o, N).after.pendingRefs \subseteq UNION {Rev(o, m).op.refs : m \in k .. N}

Staging(o) ==
    KindOf[o] = "self_belief" /\ objects[o] # NoRow /\ objects[o].pending # None =>
        \E k \in 1 .. Len(history[o]) : StagedSince(o, k, Len(history[o]))

Developing == DevelopmentEarned /\ \A o \in Objects : Ripening(o) /\ Staging(o)

\* What one operation makes of an inclination: it is made tentative, settled,
\* laid to sleep or retired.
InclinationStep(o, op, now) ==
    LET row  == objects[o]
        new  == objects'[o]
        kind == KindOf[o]
    IN  \/ /\ row = NoRow /\ new.status = Tentative(kind)
           /\ new.notBefore = now + Day /\ new.retirement = None
        \/ /\ row # NoRow /\ new.notBefore = row.notBefore
           /\ \/ /\ row.status = Tentative(kind) /\ now >= row.notBefore
                 /\ Grounded(row.refs \cup op.refs, now)
                 /\ new.status = "established" /\ new.refs = row.refs \cup op.refs
                 /\ new.retirement = IF kind = "interest" THEN None ELSE now + Week
              \/ /\ row.status = "dormant" /\ new.status = "established"
                 /\ new.retirement = IF kind = "interest" THEN None ELSE now + Week
              \/ /\ kind = "interest" /\ row.status = "established"
                 /\ new.status = "dormant" /\ new.retirement = now + Week
              \/ /\ row.status = Tentative(kind) /\ new.status = "retired"
                 /\ new.retirement = row.retirement
              \/ /\ row.status = Retirable(kind) /\ row.retirement # None
                 /\ now >= row.retirement /\ Novel(row.refs, op.refs, now)
                 /\ new.status = "retired" /\ new.retirement = row.retirement

LEMMA InclinationWritten ==
    ASSUME Current, NEW work \in Turns \cup Calls, NEW now \in Nat, Sound(work, now),
           NEW op \in Ops(work), NEW o \in Objects, Writes(o, op, work, now), Inclined(o)
    PROVE  InclinationStep(o, op, now)
<1> DEFINE row  == objects[o]
           new  == objects'[o]
           kind == KindOf[o]
           c    == Content(op, o, now)
           kept == [row EXCEPT !.text = op.text, !.refs = @ \cup op.refs]
<1>1. o \in Touched(op)
  BY DEF Writes
<1>2. /\ o = op.target /\ Kind(op) = kind /\ kind \in {"interest", "preference"}
      /\ Allowed(op, now, work)
  BY <1>1, WriterOfRow DEF Inclined
<1>3. InclinationAllowed(op, now, Attended(work))
  BY <1>2, AllowedByFamily
<1>4. c = InclinationRow(op, now)
  BY <1>2 DEF Content, Layers, Immediate
<1>5. row # NoRow => DOMAIN row = Fields
  BY RowsWhole DEF Current
<1>6. new.status = c.status /\ new.notBefore = c.notBefore /\ new.retirement = c.retirement
      /\ new.refs = c.refs
  BY WrittenRow DEF Fields, Current
<1>7. CASE op.act = "create"
  <2>1. row = NoRow /\ Wanted(op) = Tentative(kind)
    BY <1>2, <1>3, <1>7 DEF InclinationAllowed, CreateAllowed, Creatable, Row, Tentative, Starts
  <2>2. c = [Fresh(op, now) EXCEPT !.notBefore = now + Day]
    BY <1>4, <1>7 DEF InclinationRow
  <2>3. c.status = Tentative(kind) /\ c.notBefore = now + Day /\ c.retirement = None
    BY <2>1, <2>2 DEF Fresh
  <2> QED BY <1>6, <2>1, <2>3 DEF InclinationStep
<1>8. CASE op.act # "create"
  <2>1. row # NoRow
    BY <1>2, <1>3, <1>8 DEF InclinationAllowed, CreateAllowed, Creatable, Row
  <2>2. /\ DOMAIN kept = Fields /\ kept.refs = row.refs \cup op.refs
        /\ kept.notBefore = row.notBefore /\ kept.retirement = row.retirement
    BY <1>5, <2>1 DEF Fields
  <2> HIDE DEF kept
  <2>3. CASE op.act = "establish"
    <3>1. c = [kept EXCEPT !.status = "established",
                           !.retirement = IF kind = "interest" THEN None ELSE now + Week]
      BY <1>2, <1>4, <2>3 DEF InclinationRow, Row, kept
    <3>2. /\ c.status = "established" /\ c.refs = row.refs \cup op.refs
          /\ c.notBefore = row.notBefore
          /\ c.retirement = IF kind = "interest" THEN None ELSE now + Week
      BY <2>2, <3>1 DEF Fields
    <3>3. \/ /\ row.status = Tentative(kind) /\ now >= row.notBefore
             /\ Grounded(row.refs \cup op.refs, now)
          \/ row.status = "dormant"
      BY <1>2, <1>3, <2>3 DEF InclinationAllowed, CreateAllowed, Creatable, Row
    <3> QED BY <1>6, <2>1, <3>2, <3>3 DEF InclinationStep
  <2>4. CASE op.act = "set_dormant"
    <3>1. c = [kept EXCEPT !.status = "dormant", !.retirement = now + Week]
      BY <1>2, <1>4, <2>4 DEF InclinationRow, Row, kept
    <3>2. c.status = "dormant" /\ c.notBefore = row.notBefore /\ c.retirement = now + Week
      BY <2>2, <3>1 DEF Fields
    <3>3. kind = "interest" /\ row.status = "established"
      BY <1>2, <1>3, <2>4 DEF InclinationAllowed, CreateAllowed, Creatable, Row
    <3> QED BY <1>6, <2>1, <3>2, <3>3 DEF InclinationStep
  <2>5. CASE op.act = "retire"
    <3>1. c = [kept EXCEPT !.status = "retired"]
      BY <1>2, <1>4, <2>5 DEF InclinationRow, Row, kept
    <3>2. c.status = "retired" /\ c.notBefore = row.notBefore /\ c.retirement = row.retirement
      BY <2>2, <3>1 DEF Fields
    <3>3. \/ row.status = Tentative(kind)
          \/ /\ row.status = Retirable(kind) /\ row.retirement # None
             /\ now >= row.retirement /\ Novel(row.refs, op.refs, now)
      BY <1>2, <1>3, <2>5 DEF InclinationAllowed, CreateAllowed, Creatable, Row
    <3> QED BY <1>6, <2>1, <3>2, <3>3 DEF InclinationStep
  <2> QED BY <1>3, <1>8, <2>3, <2>4, <2>5 DEF InclinationAllowed, CreateAllowed, Creatable
<1> QED BY <1>7, <1>8

\* What one operation makes of a layer of self: it settles it at once, adds to
\* the evidence of the claim that is staged, settles that claim, or stages another.
LayerStep(o, op, now) ==
    LET row == objects[o]
        new == objects'[o]
    IN  /\ op.text # None
        /\ \/ /\ KindOf[o] \in Immediate
              /\ new.text = op.text /\ new.pending = None /\ new.pendingRefs = {}
              /\ new.notBefore = None
           \/ /\ KindOf[o] = "self_belief" /\ row # NoRow /\ row.pending = op.text
              /\ \/ /\ new.text = row.text /\ new.pending = row.pending
                    /\ new.notBefore = row.notBefore
                    /\ new.pendingRefs = row.pendingRefs \cup op.refs
                 \/ /\ ~(now < row.notBefore) /\ Grounded(row.pendingRefs \cup op.refs, now)
                    /\ new.text = op.text /\ new.refs = row.pendingRefs \cup op.refs
                    /\ new.pending = None /\ new.pendingRefs = {}
                    /\ new.notBefore = None
           \/ /\ KindOf[o] = "self_belief"
              /\ new.text = IF row = NoRow THEN None ELSE row.text
              /\ new.pending = op.text /\ new.pendingRefs = op.refs
              /\ new.notBefore = now + Day

LEMMA LayerWritten ==
    ASSUME Current, NEW work \in Turns \cup Calls, NEW now \in Nat, Sound(work, now),
           NEW op \in Ops(work), NEW o \in Objects, Writes(o, op, work, now), KindOf[o] \in Layers
    PROVE  LayerStep(o, op, now)
<1> DEFINE row  == objects[o]
           new  == objects'[o]
           c    == Content(op, o, now)
           base == Layer(op, now)
<1>1. o \in Touched(op)
  BY DEF Writes
<1>2. /\ o = op.target /\ Kind(op) = KindOf[o] /\ KindOf[o] \in Layers
      /\ Allowed(op, now, work)
  BY <1>1, WriterOfRow DEF Layers, Immediate
<1>3. LayerAllowed(op, now, Attended(work)) /\ op.text # None
  BY <1>2, AllowedByFamily, OpsTyped
<1>4. c = LayerRow(op, now)
  BY <1>2 DEF Content, Layers, Immediate
<1>5. row # NoRow => DOMAIN row = Fields
  BY RowsWhole DEF Current
<1>6. /\ new.text = c.text /\ new.pending = c.pending /\ new.pendingRefs = c.pendingRefs
      /\ new.notBefore = c.notBefore /\ new.refs = c.refs
  BY WrittenRow DEF Fields, Current
<1>7. /\ DOMAIN base = Fields
      /\ base.text = IF row = NoRow THEN None ELSE row.text
  BY <1>2, <1>5 DEF Layer, Row, Fresh, Fields
<1>8. CASE Kind(op) \in Immediate
  <2>1. c = [base EXCEPT !.text = op.text, !.refs = op.refs,
                         !.pending = None, !.pendingRefs = {}, !.notBefore = None]
    BY <1>4, <1>8 DEF LayerRow
  <2> HIDE DEF base
  <2>2. /\ c.text = op.text /\ c.pending = None /\ c.pendingRefs = {} /\ c.notBefore = None
    BY <1>7, <2>1 DEF Fields
  <2> QED BY <1>2, <1>3, <1>6, <1>8, <2>2 DEF LayerStep
<1>9. CASE Kind(op) \notin Immediate /\ Early(op, now)
  <2>1. row # NoRow /\ row.pending = op.text
    BY <1>2, <1>9 DEF Early, Pending, Row
  <2>2. c = [row EXCEPT !.pendingRefs = @ \cup op.refs]
    BY <1>2, <1>4, <1>9 DEF LayerRow, Row
  <2>3. /\ c.text = row.text /\ c.pending = row.pending /\ c.notBefore = row.notBefore
        /\ c.pendingRefs = row.pendingRefs \cup op.refs
    BY <1>5, <2>1, <2>2 DEF Fields
  <2> QED BY <1>2, <1>3, <1>6, <1>9, <2>1, <2>3 DEF Layers, LayerStep
<1>10. CASE Kind(op) \notin Immediate /\ Pending(op) /\ ~Early(op, now)
  <2>1. row # NoRow /\ row.pending = op.text /\ ~(now < row.notBefore)
    BY <1>2, <1>10 DEF Early, Pending, Row
  <2>2. Grounded(row.pendingRefs \cup op.refs, now)
    BY <1>2, <1>3, <1>10 DEF LayerAllowed, Row
  <2>3. c = [base EXCEPT !.text = op.text, !.refs = row.pendingRefs \cup op.refs,
                         !.pending = None, !.pendingRefs = {}, !.notBefore = None]
    BY <1>2, <1>4, <1>10 DEF LayerRow, Row
  <2> HIDE DEF base
  <2>4. /\ c.text = op.text /\ c.refs = row.pendingRefs \cup op.refs
        /\ c.pending = None /\ c.pendingRefs = {} /\ c.notBefore = None
    BY <1>7, <2>3 DEF Fields
  <2> QED BY <1>2, <1>3, <1>6, <1>10, <2>1, <2>2, <2>4 DEF Layers, LayerStep
<1>11. CASE Kind(op) \notin Immediate /\ ~Pending(op)
  <2>1. c = [base EXCEPT !.pending = op.text, !.pendingRefs = op.refs, !.notBefore = now + Day]
    BY <1>4, <1>11 DEF LayerRow, Staged, Early
  <2> HIDE DEF base
  <2>2. /\ c.text = base.text /\ c.pending = op.text /\ c.pendingRefs = op.refs
        /\ c.notBefore = now + Day
    BY <1>7, <2>1 DEF Fields
  <2> QED BY <1>2, <1>3, <1>6, <1>7, <1>11, <2>2 DEF Layers, LayerStep
<1> QED BY <1>8, <1>9, <1>10, <1>11

Earned(o, n) == EstablishedEarned(o, n) /\ RetiredEarned(o, n) /\ ContentEarned(o, n)

\* What was earned stays earned: evidence is neither lost nor found afterwards.
LEMMA EarnedStays ==
    ASSUME Current, Grows, NEW o \in Objects, NEW n \in DOMAIN history[o], Earned(o, n)
    PROVE  Earned(o, n)'
<1>1. /\ n \in Nat /\ n >= 1
      /\ \A m \in 1 .. n : Rev(o, m)' = Rev(o, m) /\ m \in DOMAIN history[o]
  <2>1. DOMAIN history[o] = 1 .. Len(history[o]) /\ Len(history[o]) \in Nat
    BY RowsWhole DEF Current
  <2> QED BY <2>1 DEF Grows, Rev
<1>2. /\ RevisionSound(o, n)
      /\ n > 1 => RevisionSound(o, n - 1) /\ Rev(o, n).before = Rev(o, n - 1).after
  BY <1>1 DEF Current, RevisionsSound, IInv, HistoryComplete, Rev
<1>3. PICK R, P, Q, a : /\ R = Rev(o, n).after.refs /\ P = Rev(o, n).before.refs
                        /\ Q = Rev(o, n).op.refs /\ a = Rev(o, n).at
  OBVIOUS
<1>4. /\ R \in SUBSET References /\ Q \in SUBSET References /\ a \in Nat
      /\ \A x \in R \cup Q : Known(x)
      /\ n > 1 => P \in SUBSET References /\ \A x \in P : Known(x)
  BY <1>2, <1>3 DEF RevisionSound, Grounds
<1>5. /\ Grounded(R, a)' <=> Grounded(R, a)
      /\ n > 1 => (Novel(P, Q, a)' <=> Novel(P, Q, a))
  BY <1>4, GroundedStays, NovelStays DEF Current
<1>6. /\ Rev(o, n)' = Rev(o, n) /\ Rev(o, 1)' = Rev(o, 1)
      /\ n > 1 => Rev(o, n - 1)' = Rev(o, n - 1)
  BY <1>1
<1>7. EstablishedEarned(o, n)'
  BY <1>3, <1>5, <1>6 DEF Earned, EstablishedEarned
<1>8. RetiredEarned(o, n)'
  BY <1>3, <1>5, <1>6 DEF Earned, RetiredEarned
<1>9. ContentEarned(o, n)'
  <2> SUFFICES ASSUME (/\ KindOf[o] = "self_belief" /\ Rev(o, n).after.text # None
                       /\ (n = 1 \/ Rev(o, n).before.text # Rev(o, n).after.text))'
               PROVE  \E k \in 1 .. n - 1 :
                         /\ \A m \in k .. n - 1 : Rev(o, m)'.after.pending = Rev(o, n)'.after.text
                         /\ Rev(o, n)'.at >= Rev(o, k)'.at + Day
                         /\ Rev(o, n)'.after.refs \subseteq UNION {Rev(o, m)'.op.refs : m \in k .. n}
                         /\ Grounded(Rev(o, n).after.refs, Rev(o, n).at)'
    BY DEF ContentEarned
  <2>1. PICK k \in 1 .. n - 1 :
            /\ \A m \in k .. n - 1 : Rev(o, m).after.pending = Rev(o, n).after.text
            /\ Rev(o, n).at >= Rev(o, k).at + Day
            /\ Rev(o, n).after.refs \subseteq UNION {Rev(o, m).op.refs : m \in k .. n}
            /\ Grounded(Rev(o, n).after.refs, Rev(o, n).at)
    BY <1>6 DEF Earned, ContentEarned
  <2>2. /\ \A m \in k .. n - 1 : Rev(o, m)'.after.pending = Rev(o, n)'.after.text
        /\ Rev(o, n)'.at >= Rev(o, k)'.at + Day
    BY <1>1, <2>1
  <2>3. UNION {Rev(o, m)'.op.refs : m \in k .. n} = UNION {Rev(o, m).op.refs : m \in k .. n}
    BY <1>1, <2>1
  <2>4. Grounded(Rev(o, n).after.refs, Rev(o, n).at)'
    BY <1>3, <1>5, <1>6, <2>1
  <2> QED BY <1>6, <2>1, <2>2, <2>3, <2>4
<1> QED BY <1>7, <1>8, <1>9 DEF Earned

\* A revision of an inclination that establishes or retires it was earned.
LEMMA InclinationEarned ==
    ASSUME Current, Grows, NEW work \in Turns \cup Calls, NEW now \in Nat, Sound(work, now),
           NEW op \in Ops(work), NEW o \in Objects, Writes(o, op, work, now),
           Inclined(o), Ripening(o), NEW N \in Nat, N = Len(history[o])
    PROVE  Earned(o, N + 1)' /\ Ripening(o)'
<1>1. /\ DOMAIN history[o] = 1 .. N
      /\ N + 1 = Len(history'[o]) /\ DOMAIN history'[o] = 1 .. N + 1
      /\ \A n \in 1 .. N : Rev(o, n)' = Rev(o, n)
      /\ Rev(o, N + 1)'.before = objects[o] /\ Rev(o, N + 1)'.after = objects'[o]
      /\ Rev(o, N + 1)'.op = op /\ Rev(o, N + 1)'.work = work
      /\ Rev(o, N + 1)'.at = now
  BY OneMore DEF Current
<1> DEFINE row  == objects[o]
           new  == objects'[o]
           kind == KindOf[o]
<1>2. InclinationStep(o, op, now)
  BY InclinationWritten
<1>3. /\ kind = "interest" => Tentative(kind) = "candidate" /\ Retirable(kind) = "dormant"
      /\ kind = "preference" => Tentative(kind) = "tentative" /\ Retirable(kind) = "established"
      /\ kind \in {"interest", "preference"}
  BY DEF Tentative, Retirable, Starts, Inclined
<1>4. row # NoRow <=> N > 0
  BY <1>1, RowsWhole DEF Current
<1>5. /\ N > 0 => /\ Rev(o, 1)' = Rev(o, 1) /\ Rev(o, 1).at \in Nat
                  /\ Rev(o, N)' = Rev(o, N) /\ Rev(o, N).at \in Nat
      /\ N = 0 => Rev(o, 1)'.at = now
  <2>1. ASSUME N > 0
        PROVE  /\ Rev(o, 1)' = Rev(o, 1) /\ Rev(o, 1).at \in Nat
               /\ Rev(o, N)' = Rev(o, N) /\ Rev(o, N).at \in Nat
    <3>1. 1 \in 1 .. N /\ N \in 1 .. N
      BY <2>1
    <3>2. RevisionSound(o, 1) /\ RevisionSound(o, N)
      BY <1>1, <3>1 DEF Current, RevisionsSound
    <3> QED BY <1>1, <3>1, <3>2 DEF RevisionSound
  <2>2. ASSUME N = 0
        PROVE  Rev(o, 1)'.at = now
    <3>1. N + 1 = 1
      BY <2>2
    <3>2. Rev(o, N + 1)' = Rev(o, 1)'
      BY <3>1
    <3> QED BY <1>1, <3>2
  <2> QED BY <2>1, <2>2
<1>6. N > 0 => row.notBefore = Rev(o, 1).at + Day
  BY <1>4 DEF Ripening, Inclined
<1>7. row.status = Retirable(kind) /\ N > 0 => row.retirement = Rev(o, N).at + Week
  BY <1>1, <1>4 DEF Ripening, Inclined
<1>8. Ripening(o)'
  <2>1. new.notBefore = Rev(o, 1)'.at + Day
    BY <1>2, <1>4, <1>5, <1>6 DEF InclinationStep
  <2>2. new.status = Retirable(kind) => new.retirement = Rev(o, N + 1)'.at + Week
    <3>1. CASE row = NoRow
      BY <1>2, <1>3, <3>1 DEF InclinationStep
    <3>2. CASE row # NoRow /\ kind = "interest"
      BY <1>1, <1>2, <1>3, <3>2 DEF InclinationStep
    <3>3. CASE row # NoRow /\ kind = "preference"
      BY <1>1, <1>2, <1>3, <3>3 DEF InclinationStep
    <3> QED BY <1>3, <3>1, <3>2, <3>3
  <2>3. Rev(o, Len(history[o]))' = Rev(o, N + 1)'
    BY <1>1
  <2> QED BY <2>1, <2>2, <2>3 DEF Ripening
<1>9. EstablishedEarned(o, N + 1)'
  <2> SUFFICES ASSUME N + 1 > 1, new.status = "established", row.status = Tentative(kind)
               PROVE  /\ now >= Rev(o, 1)'.at + Day
                      /\ Grounded(Rev(o, N + 1).after.refs, Rev(o, N + 1).at)'
    BY <1>1 DEF EstablishedEarned
  <2>1. /\ now >= row.notBefore /\ Grounded(row.refs \cup op.refs, now)
        /\ new.refs = row.refs \cup op.refs
    BY <1>2, <1>3, <1>4 DEF InclinationStep
  <2>2. PICK R : R = row.refs \cup op.refs
    OBVIOUS
  <2>3. R \in SUBSET References /\ \A x \in R : Known(x)
    <3>1. op.refs \subseteq References /\ \A x \in op.refs : Known(x)
      <4>1. o \in Touched(op)
        BY DEF Writes
      <4> QED BY <4>1, WriterOfRow, OpsTyped DEF Cited
    <3>2. row = Rev(o, N).after /\ RevisionSound(o, N)
      BY <1>1, <1>4, RowsWhole DEF Current, RevisionsSound
    <3> QED BY <2>2, <3>1, <3>2 DEF RevisionSound, Grounds
  <2>4. Grounded(R, now)'
    BY <2>1, <2>2, <2>3, GroundedStays DEF Current
  <2>5. now >= Rev(o, 1)'.at + Day
    BY <1>5, <1>6, <2>1
  <2>6. Grounded(Rev(o, N + 1).after.refs, Rev(o, N + 1).at)'
    <3>1. Rev(o, N + 1)'.after.refs = R /\ Rev(o, N + 1)'.at = now
      BY <1>1, <2>1, <2>2
    <3> QED BY <2>4, <3>1
  <2> QED BY <2>5, <2>6
<1>10. RetiredEarned(o, N + 1)'
  <2> SUFFICES ASSUME N + 1 > 1, new.status = "retired", row.status # Tentative(kind)
               PROVE  /\ now >= Rev(o, N)'.at + Week
                      /\ Novel(Rev(o, N + 1).before.refs, Rev(o, N + 1).op.refs, Rev(o, N + 1).at)'
    BY <1>1 DEF RetiredEarned
  <2>1. /\ row.status = Retirable(kind) /\ now >= row.retirement
        /\ Novel(row.refs, op.refs, now)
    BY <1>2, <1>3, <1>4 DEF InclinationStep
  <2>2. PICK P, Q : P = row.refs /\ Q = op.refs
    OBVIOUS
  <2>3. P \in SUBSET References /\ Q \in SUBSET References /\ \A x \in P \cup Q : Known(x)
    <3>1. op.refs \subseteq References /\ \A x \in op.refs : Known(x)
      <4>1. o \in Touched(op)
        BY DEF Writes
      <4> QED BY <4>1, WriterOfRow, OpsTyped DEF Cited
    <3>2. row = Rev(o, N).after /\ RevisionSound(o, N)
      BY <1>1, <1>4, RowsWhole DEF Current, RevisionsSound
    <3> QED BY <2>2, <3>1, <3>2 DEF RevisionSound, Grounds
  <2>4. Novel(P, Q, now)'
    BY <2>1, <2>2, <2>3, NovelStays DEF Current
  <2> QED BY <1>1, <1>5, <1>7, <2>1, <2>2, <2>4
<1>11. ContentEarned(o, N + 1)'
  BY <1>3 DEF ContentEarned
<1>12. Earned(o, N + 1)'
  BY <1>9, <1>10, <1>11 DEF Earned
<1> QED BY <1>8, <1>12

\* A revision of a layer of self puts in force only a claim that was staged
\* for a Day, on evidence offered for that claim.
LEMMA LayerEarned ==
    ASSUME Current, Grows, NEW work \in Turns \cup Calls, NEW now \in Nat, Sound(work, now),
           NEW op \in Ops(work), NEW o \in Objects, Writes(o, op, work, now),
           KindOf[o] = "self_belief", Staging(o), NEW N \in Nat, N = Len(history[o])
    PROVE  Earned(o, N + 1)' /\ Staging(o)'
<1>1. /\ DOMAIN history[o] = 1 .. N
      /\ N + 1 = Len(history'[o]) /\ DOMAIN history'[o] = 1 .. N + 1
      /\ \A n \in 1 .. N : Rev(o, n)' = Rev(o, n)
      /\ Rev(o, N + 1)'.before = objects[o] /\ Rev(o, N + 1)'.after = objects'[o]
      /\ Rev(o, N + 1)'.op = op /\ Rev(o, N + 1)'.work = work
      /\ Rev(o, N + 1)'.at = now
  BY OneMore DEF Current
<1> DEFINE row  == objects[o]
           new  == objects'[o]
           last == N + 1
<1>2. row # NoRow => N > 0 /\ row = Rev(o, N).after
  BY RowsWhole DEF Current
<1>3. \A n \in 1 .. N : Rev(o, n).at \in Nat
  BY <1>1 DEF Current, RevisionsSound, RevisionSound
<1>4. /\ op.text # None
      /\ \/ /\ row # NoRow /\ row.pending = op.text
            /\ \/ /\ new.text = row.text /\ new.pending = row.pending
                  /\ new.notBefore = row.notBefore
                  /\ new.pendingRefs = row.pendingRefs \cup op.refs
               \/ /\ ~(now < row.notBefore) /\ Grounded(row.pendingRefs \cup op.refs, now)
                  /\ new.text = op.text /\ new.refs = row.pendingRefs \cup op.refs
                  /\ new.pending = None /\ new.pendingRefs = {}
                  /\ new.notBefore = None
         \/ /\ new.text = IF row = NoRow THEN None ELSE row.text
            /\ new.pending = op.text /\ new.pendingRefs = op.refs
            /\ new.notBefore = now + Day
  <2>1. KindOf[o] \in Layers /\ KindOf[o] \notin Immediate
    BY DEF Layers, Immediate
  <2>2. LayerStep(o, op, now)
    BY <2>1, LayerWritten
  <2> QED BY <2>1, <2>2 DEF LayerStep
<1>5. EstablishedEarned(o, last)' /\ RetiredEarned(o, last)'
  BY DEF EstablishedEarned, RetiredEarned
\* The claim is staged anew.
<1>6. CASE /\ new.text = IF row = NoRow THEN None ELSE row.text
           /\ new.pending = op.text /\ new.pendingRefs = op.refs
           /\ new.notBefore = now + Day
  <2>1. ContentEarned(o, last)'
    <3>1. new.text # None => N > 0 /\ row.text = new.text
      BY <1>2, <1>6
    <3> QED BY <1>1, <3>1 DEF ContentEarned
  <2>2. StagedSince(o, last, last)'
    <3>1. last .. last = {last}
      OBVIOUS
    <3>2. UNION {Rev(o, m)'.op.refs : m \in last .. last} = op.refs
      BY <1>1, <3>1
    <3> QED BY <1>1, <1>6, <3>1, <3>2 DEF StagedSince
  <2>3. last \in 1 .. Len(history'[o])
    BY <1>1
  <2>4. Staging(o)'
    BY <1>1, <2>2, <2>3 DEF Staging
  <2> QED BY <1>5, <2>1, <2>4 DEF Earned
\* The claim of row was pending since k.
<1>7. ASSUME row # NoRow, row.pending = op.text,
             NEW k \in 1 .. N, \A m \in k .. N : Rev(o, m).after.pending = op.text,
             row.notBefore = Rev(o, k).at + Day,
             row.pendingRefs \subseteq UNION {Rev(o, m).op.refs : m \in k .. N}
      PROVE  Earned(o, last)' /\ Staging(o)'
  <2>1. /\ k .. last = (k .. N) \cup {last} /\ k \in 1 .. last /\ last > 1
        /\ last - 1 = N /\ \A m \in k .. N : m \in 1 .. N
    OBVIOUS
  <2>2. \A m \in k .. N : Rev(o, m)' = Rev(o, m)
    BY <1>1, <2>1
  <2>3. row.pendingRefs \cup op.refs \subseteq UNION {Rev(o, m)'.op.refs : m \in k .. last}
    <3>1. op.refs = Rev(o, last)'.op.refs
      BY <1>1
    <3>2. \A x \in row.pendingRefs : \E m \in k .. N : x \in Rev(o, m)'.op.refs
      BY <1>7, <2>2
    <3> QED BY <2>1, <3>1, <3>2
  <2>4. CASE /\ new.text = row.text /\ new.pending = row.pending
             /\ new.notBefore = row.notBefore
             /\ new.pendingRefs = row.pendingRefs \cup op.refs
    <3>1. ContentEarned(o, last)'
      BY <1>1, <2>1, <2>4 DEF ContentEarned
    <3>2. \A m \in k .. last : Rev(o, m)'.after.pending = new.pending
      BY <1>1, <1>7, <2>1, <2>2, <2>4
    <3>3. new.notBefore = Rev(o, k)'.at + Day
      BY <1>1, <1>7, <2>4
    <3>4. StagedSince(o, k, last)'
      BY <1>1, <2>3, <2>4, <3>2, <3>3 DEF StagedSince
    <3>5. k \in 1 .. Len(history'[o]) /\ Len(history'[o]) = last
      BY <1>1, <2>1
    <3>6. Staging(o)'
      BY <3>4, <3>5 DEF Staging
    <3> QED BY <1>5, <3>1, <3>6 DEF Earned
  <2>5. CASE /\ ~(now < row.notBefore) /\ Grounded(row.pendingRefs \cup op.refs, now)
             /\ new.text = op.text /\ new.refs = row.pendingRefs \cup op.refs
             /\ new.pending = None /\ new.pendingRefs = {}
             /\ new.notBefore = None
    <3>1. Staging(o)'
      BY <2>5 DEF Staging
    <3>2. now >= Rev(o, k)'.at + Day
      <4>1. Rev(o, k)' = Rev(o, k) /\ Rev(o, k).at \in Nat
        BY <1>1, <1>3
      <4> QED BY <1>7, <2>5, <4>1, DelayAssumption
    <3>3. PICK R : R = row.pendingRefs \cup op.refs
      OBVIOUS
    <3>4. R \in SUBSET References /\ \A x \in R : Known(x)
      <4>1. op.refs \subseteq References /\ \A x \in op.refs : Known(x)
        <5>1. o \in Touched(op)
          BY DEF Writes
        <5> QED BY <5>1, WriterOfRow, OpsTyped DEF Cited
      <4>2. row = Rev(o, N).after /\ RevisionSound(o, N)
        BY <1>1, <1>2, <1>7 DEF Current, RevisionsSound
      <4> QED BY <3>3, <4>1, <4>2 DEF RevisionSound, Grounds
    <3>5. Grounded(R, now)'
      BY <2>5, <3>3, <3>4, GroundedStays DEF Current
    <3>6. Grounded(Rev(o, last).after.refs, Rev(o, last).at)'
      <4>1. Rev(o, last)'.after.refs = R /\ Rev(o, last)'.at = now
        BY <1>1, <2>5, <3>3
      <4> QED BY <3>5, <4>1
    <3>7. /\ k \in 1 .. last - 1
          /\ \A m \in k .. last - 1 : Rev(o, m)'.after.pending = Rev(o, last)'.after.text
          /\ Rev(o, last)'.at >= Rev(o, k)'.at + Day
          /\ Rev(o, last)'.after.refs \subseteq UNION {Rev(o, m)'.op.refs : m \in k .. last}
      BY <1>1, <1>7, <2>1, <2>2, <2>3, <2>5, <3>2
    <3>8. ContentEarned(o, last)'
      BY <3>6, <3>7 DEF ContentEarned
    <3> QED BY <1>5, <3>1, <3>8 DEF Earned
  <2> QED BY <1>4, <1>6, <1>7, <2>4, <2>5
<1>8. ASSUME row # NoRow, row.pending = op.text
      PROVE  \E k \in 1 .. N :
                /\ \A m \in k .. N : Rev(o, m).after.pending = op.text
                /\ row.notBefore = Rev(o, k).at + Day
                /\ row.pendingRefs \subseteq UNION {Rev(o, m).op.refs : m \in k .. N}
  BY <1>2, <1>4, <1>8 DEF Staging, StagedSince
<1>9. CASE row # NoRow /\ row.pending = op.text
  BY <1>7, <1>8, <1>9
<1> QED BY <1>4, <1>6, <1>9

\* Every step leaves an object as it is or gives it one sound revision.
LEMMA StepWrites ==
    ASSUME Current, [Next]_vars
    PROVE  /\ Grows
           /\ \/ \A o \in Objects : objects'[o] = objects[o] /\ history'[o] = history[o]
              \/ \E work \in Turns \cup Calls, now \in Nat : WritesAll(work, now)
<1>1. ASSUME NEW s \in Sessions, Commit(s)
      PROVE  /\ Grows
             /\ \/ \A o \in Objects : objects'[o] = objects[o] /\ history'[o] = history[o]
                \/ \E work \in Turns \cup Calls, now \in Nat : WritesAll(work, now)
  <2>1. clock' = clock
    BY <1>1 DEF Commit, Closed
  <2>2. CASE txn[s].phase = "writing"
    <3>1. PICK work \in Turns \cup Calls, now \in Nat : WritesAll(work, now)
      BY <1>1, <2>2, CommitWrites DEF Current
    <3> QED BY <2>1, <3>1, WritesGrow DEF Current, WorkSound
  <2>3. CASE txn[s].phase # "writing"
    <3>1. DOMAIN txn[s].changes = {}
      BY <2>3 DEF Current, IInv, PlansFit
    <3>2. \A o \in Objects : objects'[o] = objects[o] /\ history'[o] = history[o]
      BY <1>1, <3>1 DEF Commit
    <3> QED BY <2>1, <3>2 DEF Grows, Current, WorkSound
  <2> QED BY <2>2, <2>3
<1>2. ASSUME UNCHANGED <<objects, history>>, clock' \in {clock, clock + 1}
      PROVE  Grows
  BY <1>2, RestGrows DEF Current
<1> QED BY <1>1, <1>2
        DEF Next, Decide, BeginApply, BeginCall, Plan, Refuse, Fail, Closed, Tick, vars, store

LEMMA RipeningStays ==
    ASSUME Current, NEW o \in Objects, objects'[o] = objects[o], history'[o] = history[o]
    PROVE  (Ripening(o) => Ripening(o)') /\ (Staging(o) => Staging(o)')
<1>1. \A n : Rev(o, n)' = Rev(o, n)
  BY DEF Rev
<1> QED BY <1>1 DEF Ripening, Staging, StagedSince, Inclined

LEMMA NextDeveloping == Current /\ Developing /\ [Next]_vars => Developing'
<1> SUFFICES ASSUME Current, Developing, [Next]_vars PROVE Developing'
  OBVIOUS
<1> USE DEF Developing
<1>1. Grows
  BY StepWrites
<1>2. ASSUME NEW o \in Objects
      PROVE  Ripening(o)' /\ Staging(o)' /\ \A n \in DOMAIN history'[o] : Earned(o, n)'
  <2>1. \A n \in DOMAIN history[o] : Earned(o, n) /\ Earned(o, n)'
    <3>1. \A n \in DOMAIN history[o] : Earned(o, n)
      BY DEF DevelopmentEarned, Earned
    <3> QED BY <1>1, <3>1, EarnedStays
  <2>2. CASE objects'[o] = objects[o] /\ history'[o] = history[o]
    BY <2>1, <2>2, RipeningStays
  <2>3. ASSUME NEW work \in Turns \cup Calls, NEW now \in Nat, Sound(work, now),
               NEW op \in Ops(work), Writes(o, op, work, now)
        PROVE  Ripening(o)' /\ Staging(o)' /\ \A n \in DOMAIN history'[o] : Earned(o, n)'
    <3>1. PICK N \in Nat : /\ N = Len(history[o]) /\ DOMAIN history[o] = 1 .. N
                           /\ DOMAIN history'[o] = 1 .. N + 1
      BY <2>3, OneMore DEF Current
    <3>2. Earned(o, N + 1)' /\ Ripening(o)' /\ Staging(o)'
      <4>1. CASE Inclined(o)
        <5>1. Earned(o, N + 1)' /\ Ripening(o)'
          BY <1>1, <2>3, <3>1, <4>1, InclinationEarned
        <5>2. Staging(o)'
          BY <4>1 DEF Staging, Inclined
        <5> QED BY <5>1, <5>2
      <4>2. CASE KindOf[o] = "self_belief"
        <5>1. Earned(o, N + 1)' /\ Staging(o)'
          BY <1>1, <2>3, <3>1, <4>2, LayerEarned
        <5>2. Ripening(o)'
          BY <4>2 DEF Ripening, Inclined
        <5> QED BY <5>1, <5>2
      <4>3. CASE ~Inclined(o) /\ KindOf[o] # "self_belief"
        BY <4>3 DEF Ripening, Staging, Inclined, Earned, EstablishedEarned, RetiredEarned,
                    ContentEarned
      <4> QED BY <4>1, <4>2, <4>3
    <3>3. \A n \in 1 .. N + 1 : n \in 1 .. N \/ n = N + 1
      OBVIOUS
    <3> QED BY <2>1, <3>1, <3>2, <3>3
  <2> QED BY <2>2, <2>3, StepWrites DEF WritesAll
<1>3. DevelopmentEarned'
  BY <1>2 DEF DevelopmentEarned, Earned
<1> QED BY <1>2, <1>3

\* What is presented as established, as retired, or as the content of a deferred
\* layer of self was earned in its whole history, whatever was recorded since
\* (stores/development.py).
THEOREM DevelopmentIsEarned == Spec => []DevelopmentEarned
<1>1. Init => Developing
  <2> SUFFICES ASSUME Init PROVE Developing
    OBVIOUS
  <2>1. \A o \in Objects : objects[o] = NoRow /\ DOMAIN history[o] = {}
    BY DEF Init
  <2> QED BY <2>1 DEF Developing, DevelopmentEarned, Ripening, Staging
<1>2. Developing => DevelopmentEarned
  BY DEF Developing
<1> QED BY <1>1, <1>2, NextDeveloping, StaysCurrent, PTL DEF Spec

-----------------------------------------------------------------------------
(* What is stored is consistent: links, evidence, statuses and delays *)

\* What is concluded is not revised.
Concluded(o) == \A n \in 1 .. Len(history[o]) - 1 : ~Final(KindOf[o], Rev(o, n).after.status)

LinksKnown(o) ==
    objects[o] # NoRow => \A r \in Links(o) : r \in Objects /\ objects[r] # NoRow

\* A belief that supersedes another left it superseded, and rests on something.
BeliefSound(o) ==
    KindOf[o] = "belief" /\ objects[o] # NoRow =>
        /\ objects[o].status \in DOMAIN BeliefNext
        /\ objects[o].parent # None =>
              /\ objects[o].parent # o /\ KindOf[objects[o].parent] = "belief"
              /\ objects[objects[o].parent].status = "superseded"
        /\ objects[o].status = "accepted" => objects[o].refs # {}
        /\ objects[o].status = "disputed" => objects[o].against # {}

Social(o) == KindOf[o] \in {"relationship", "relationship_thread"}

SocialSound(o) ==
    Social(o) /\ objects[o] # NoRow =>
        objects[o].refs # {} /\ objects[o].parent = Rev(o, 1).after.parent

InterpretedOnce ==
    \A o, x \in Objects :
        /\ o # x /\ KindOf[o] = "relationship" /\ KindOf[x] = "relationship"
        /\ objects[o] # NoRow /\ objects[x] # NoRow
        => objects[o].parent # objects[x].parent

LayerSound(o) ==
    KindOf[o] \in Layers /\ objects[o] # NoRow =>
        /\ KindOf[o] \in Immediate => objects[o].text # None /\ objects[o].pending = None
        /\ objects[o].text # None \/ objects[o].pending # None
        /\ (objects[o].pending = None) <=> (objects[o].notBefore = None)
        /\ objects[o].pending = None => objects[o].pendingRefs = {}

InclinationSound(o) ==
    Inclined(o) /\ objects[o] # NoRow =>
        /\ objects[o].status = Tentative(KindOf[o]) => objects[o].retirement = None
        /\ objects[o].status = "established" =>
              \/ objects[o].updated >= objects[o].notBefore
              \/ \E n \in DOMAIN history[o] : Rev(o, n).after.status = "dormant"
        /\ objects[o].status = "retired" /\ objects[o].retirement # None =>
              objects[o].updated >= objects[o].retirement
        /\ objects[o].status = "dormant" => objects[o].retirement # None

Interpreted ==
    /\ InterpretedOnce
    /\ \A o \in Objects : /\ Concluded(o) /\ LinksKnown(o) /\ BeliefSound(o)
                          /\ SocialSound(o) /\ LayerSound(o) /\ InclinationSound(o)

\* An object is linked only to what exists.
LEMMA LinksWritten ==
    ASSUME Current, NEW work \in Turns \cup Calls, NEW now \in Nat, Sound(work, now),
           NEW op \in Ops(work), NEW o \in Objects, Writes(o, op, work, now), LinksKnown(o)
    PROVE  \A r \in Links(o)' : r \in Objects /\ objects[r] # NoRow
<1>1. o \in Touched(op)
  BY DEF Writes
<1>2. Ties(objects'[o]) = Ties(Content(op, o, now))
  <2>1. \A f \in {"parent", "link"} : objects'[o][f] = Content(op, o, now)[f]
    BY WrittenRow DEF Fields, Current
  <2>2. /\ objects'[o].parent = Content(op, o, now).parent
        /\ objects'[o].link = Content(op, o, now).link
    BY <2>1
  <2> QED BY <2>2 DEF Ties
<1>3. Ties(objects'[o]) \subseteq
         Ties(op) \cup (IF objects[o] = NoRow THEN {} ELSE Ties(objects[o]))
  BY <1>1, <1>2, ContentWhole DEF Current
<1>4. ASSUME NEW r \in Ties(op), r # None
      PROVE  r \in Objects /\ objects[r] # NoRow
  <2>1. r \in Objects /\ r \in Cited(op)
    BY <1>4, OpsTyped DEF Ties, Cited
  <2> QED BY <1>1, <2>1, WriterOfRow DEF Known
<1>5. Links(o)' = Ties(objects'[o]) \ {None}
  BY DEF Links, Ties
<1>6. objects[o] # NoRow => \A r \in Ties(objects[o]) \ {None} : r \in Objects /\ objects[r] # NoRow
  BY DEF LinksKnown, Links, Ties
<1> QED BY <1>3, <1>4, <1>5, <1>6

\* What one operation makes of a belief: it is superseded, judged anew, or made.
BeliefStep(o, op) ==
    LET row == objects[o]
        new == objects'[o]
    IN  \/ /\ o # op.target /\ row # NoRow /\ row.status \notin {"superseded", "withdrawn"}
           /\ new.status = "superseded" /\ new.parent = row.parent
        \/ /\ o = op.target /\ row # NoRow /\ new.status \in BeliefNext[row.status]
           /\ new.parent = row.parent
           /\ new.status = "accepted" => new.refs # {}
           /\ new.status = "disputed" => new.against # {}
        \/ /\ o = op.target /\ row = NoRow
           /\ new.status \in {"tentative", "accepted", "disputed"}
           /\ new.status = "accepted" => new.refs # {}
           /\ new.status = "disputed" => new.against # {}
           /\ new.parent = op.parent
           /\ op.parent # None => op.act = "supersede" /\ op.parent # o

LEMMA BeliefWritten ==
    ASSUME Current, NEW work \in Turns \cup Calls, NEW now \in Nat, Sound(work, now),
           NEW op \in Ops(work), NEW o \in Objects, Writes(o, op, work, now), KindOf[o] = "belief"
    PROVE  BeliefStep(o, op)
<1> DEFINE row  == objects[o]
           new  == objects'[o]
           c    == Content(op, o, now)
<1>1. o \in Touched(op)
  BY DEF Writes
<1>2. /\ o = op.target \/ (o # op.target /\ row # NoRow /\ row.status \notin {"superseded", "withdrawn"})
      /\ op.target \in Objects /\ Allowed(op, now, work) /\ Kind(op) = "belief"
  BY <1>1, WriterOfRow
<1>3. BeliefAllowed(op, now)
  BY <1>2, AllowedByFamily
<1>4. row # NoRow => DOMAIN row = Fields
  BY RowsWhole DEF Current
<1>5. new.status = c.status /\ new.parent = c.parent /\ new.refs = c.refs /\ new.against = c.against
  BY WrittenRow DEF Fields, Current
<1>6. CASE o # op.target
  <2>1. c = [row EXCEPT !.status = "superseded"]
    BY <1>6 DEF Content
  <2>2. c.status = "superseded" /\ c.parent = row.parent
    BY <1>2, <1>4, <1>6, <2>1 DEF Fields
  <2> QED BY <1>2, <1>5, <1>6, <2>2 DEF BeliefStep
<1>7. CASE o = op.target
  <2>1. c = BeliefRow(op, now)
    BY <1>2, <1>7 DEF Content, Layers, Immediate
  <2>2. /\ c.status = "accepted" => c.refs # {}
        /\ c.status = "disputed" => c.against # {}
    BY <1>3, <2>1 DEF BeliefAllowed
  <2>3. CASE op.act = "set_status"
    <3>1. row # NoRow /\ op.status \in BeliefNext[row.status]
      BY <1>3, <1>7, <2>3 DEF BeliefAllowed, CreateAllowed, Creatable, Row
    <3>2. c = [row EXCEPT !.status = op.status, !.text = op.text,
                          !.refs = @ \cup op.refs, !.against = @ \cup op.against]
      BY <1>7, <2>1, <2>3 DEF BeliefRow, Row
    <3>3. c.status = op.status /\ c.parent = row.parent
      BY <1>4, <3>1, <3>2 DEF Fields
    <3> QED BY <1>5, <1>7, <2>2, <3>1, <3>3 DEF BeliefStep
  <2>4. CASE op.act # "set_status"
    <3>1. c = Fresh(op, now)
      BY <2>1, <2>4 DEF BeliefRow
    <3>2. c.status = Wanted(op) /\ c.parent = op.parent
      BY <3>1 DEF Fresh
    <3>3. Creatable(op) /\ (op.parent # None => op.act = "supersede")
      BY <1>3, <2>4 DEF BeliefAllowed, CreateAllowed
    <3>4. row = NoRow /\ Wanted(op) \in {"tentative", "accepted", "disputed"}
      <4>1. Kind(op) \in DOMAIN Starts /\ Starts[Kind(op)] = <<"tentative", "accepted", "disputed">>
        BY <1>2 DEF Starts
      <4>2. Wanted(op) \in {Starts[Kind(op)][i] : i \in DOMAIN Starts[Kind(op)]}
        BY <3>3, <4>1 DEF Creatable
      <4>3. row = NoRow
        BY <1>7, <3>3 DEF Creatable, Row
      <4> QED BY <4>1, <4>2, <4>3
    <3>5. op.parent # None => op.parent # o
      BY <1>7, <3>3 DEF Sound
    <3> QED BY <1>5, <1>7, <2>2, <3>2, <3>3, <3>4, <3>5 DEF BeliefStep
  <2> QED BY <2>3, <2>4
<1> QED BY <1>6, <1>7

\* A superseded belief stays as it is.
LEMMA SupersededStays ==
    ASSUME Current, NEW work \in Turns \cup Calls, NEW now \in Nat, WritesAll(work, now),
           NEW p \in Objects, KindOf[p] = "belief", objects[p] # NoRow,
           objects[p].status = "superseded"
    PROVE  objects'[p] = objects[p]
<1>1. ASSUME NEW op \in Ops(work), Writes(p, op, work, now) PROVE FALSE
  <2>1. BeliefStep(p, op)
    BY <1>1, BeliefWritten DEF WritesAll
  <2>2. BeliefNext["superseded"] = {}
    BY DEF BeliefNext
  <2> QED BY <2>1, <2>2 DEF BeliefStep
<1> QED BY <1>1 DEF WritesAll

LEMMA BeliefStays ==
    ASSUME Current, Interpreted, NEW work \in Turns \cup Calls, NEW now \in Nat,
           WritesAll(work, now), NEW o \in Objects
    PROVE  BeliefSound(o)'
<1> SUFFICES ASSUME KindOf[o] = "belief", objects'[o] # NoRow
             PROVE  /\ objects'[o].status \in DOMAIN BeliefNext
                    /\ objects'[o].parent # None =>
                          /\ objects'[o].parent # o /\ KindOf[objects'[o].parent] = "belief"
                          /\ objects'[objects'[o].parent].status = "superseded"
                    /\ objects'[o].status = "accepted" => objects'[o].refs # {}
                    /\ objects'[o].status = "disputed" => objects'[o].against # {}
  BY DEF BeliefSound
<1>1. BeliefSound(o) /\ LinksKnown(o)
  BY DEF Interpreted
<1>2. ASSUME objects[o] # NoRow, objects'[o].parent = objects[o].parent, objects[o].parent # None
      PROVE  /\ objects'[o].parent # o /\ KindOf[objects'[o].parent] = "belief"
             /\ objects'[objects'[o].parent].status = "superseded"
  <2>1. PICK p : p = objects[o].parent
    OBVIOUS
  <2>2. p \in Objects /\ objects[p] # NoRow
    BY <1>1, <1>2, <2>1 DEF LinksKnown, Links
  <2>3. p # o /\ KindOf[p] = "belief" /\ objects[p].status = "superseded"
    BY <1>1, <1>2, <2>1 DEF BeliefSound
  <2>4. objects'[p] = objects[p]
    BY <2>2, <2>3, SupersededStays
  <2> QED BY <1>2, <2>1, <2>3, <2>4
<1>3. CASE objects'[o] = objects[o]
  BY <1>1, <1>2, <1>3 DEF BeliefSound
<1>4. ASSUME NEW op \in Ops(work), Writes(o, op, work, now)
      PROVE  /\ objects'[o].status \in DOMAIN BeliefNext
             /\ objects'[o].parent # None =>
                   /\ objects'[o].parent # o /\ KindOf[objects'[o].parent] = "belief"
                   /\ objects'[objects'[o].parent].status = "superseded"
             /\ objects'[o].status = "accepted" => objects'[o].refs # {}
             /\ objects'[o].status = "disputed" => objects'[o].against # {}
  <2>1. BeliefStep(o, op) /\ Sound(work, now)
    BY <1>4, BeliefWritten DEF WritesAll
  <2>2. DOMAIN BeliefNext = {"tentative", "accepted", "disputed", "superseded", "withdrawn"}
        /\ \A st \in DOMAIN BeliefNext : BeliefNext[st] \subseteq DOMAIN BeliefNext
    BY DEF BeliefNext
  <2>3. CASE objects[o] # NoRow
    <3>1. objects'[o].parent = objects[o].parent /\ objects'[o].status \in DOMAIN BeliefNext
      BY <1>1, <2>1, <2>2, <2>3 DEF BeliefStep, BeliefSound
    <3>2. /\ objects'[o].status = "accepted" => objects'[o].refs # {}
          /\ objects'[o].status = "disputed" => objects'[o].against # {}
      BY <2>1, <2>3 DEF BeliefStep
    <3> QED BY <1>2, <2>3, <3>1, <3>2
  <2>4. CASE objects[o] = NoRow
    <3>1. /\ objects'[o].status \in {"tentative", "accepted", "disputed"}
          /\ objects'[o].status = "accepted" => objects'[o].refs # {}
          /\ objects'[o].status = "disputed" => objects'[o].against # {}
          /\ objects'[o].parent = op.parent
          /\ op.parent # None => op.act = "supersede" /\ op.parent # o
          /\ o = op.target
      BY <2>1, <2>4 DEF BeliefStep
    <3>2. ASSUME op.parent # None
          PROVE  /\ op.parent # o /\ KindOf[op.parent] = "belief"
                 /\ objects'[op.parent].status = "superseded"
      <4>1. PICK p : p = op.parent
        OBVIOUS
      <4>2. p \in Objects /\ p # o /\ KindOf[p] = "belief" /\ p \in Touched(op)
        BY <3>1, <3>2, <4>1, OpsTyped DEF Touched
      <4>3. PICK op2 \in Ops(work) : Writes(p, op2, work, now)
        BY <4>2 DEF WritesAll
      <4>4. op2 = op
        BY <2>1, <4>2, <4>3 DEF Writes, Sound, Disjoint
      <4>5. BeliefStep(p, op) /\ p # op.target
        BY <2>1, <3>1, <4>2, <4>3, <4>4, BeliefWritten
      <4> QED BY <4>1, <4>2, <4>5 DEF BeliefStep
    <3> QED BY <2>2, <3>1, <3>2
  <2> QED BY <2>3, <2>4
<1> QED BY <1>3, <1>4 DEF WritesAll

\* What one operation makes of a relationship or a thread.
SocialStep(o, op) ==
    LET row == objects[o]
        new == objects'[o]
    IN  /\ o = op.target /\ new.refs # {}
        /\ row # NoRow => new.parent = row.parent
        /\ row = NoRow /\ KindOf[o] = "relationship" =>
              /\ op.act = "create" /\ new.parent = op.parent
              /\ ~ \E r \in Objects : /\ KindOf[r] = "relationship" /\ objects[r] # NoRow
                                      /\ objects[r].parent = op.parent

LEMMA SocialWritten ==
    ASSUME Current, NEW work \in Turns \cup Calls, NEW now \in Nat, Sound(work, now),
           NEW op \in Ops(work), NEW o \in Objects, Writes(o, op, work, now), Social(o)
    PROVE  SocialStep(o, op)
<1> DEFINE row  == objects[o]
           new  == objects'[o]
           c    == Content(op, o, now)
<1>1. o \in Touched(op)
  BY DEF Writes
<1>2. /\ o = op.target /\ Kind(op) = KindOf[o]
      /\ Kind(op) \in {"relationship", "relationship_thread"}
      /\ op.target \in Objects /\ Allowed(op, now, work)
  BY <1>1, WriterOfRow DEF Social
<1>3. /\ Kind(op) = "relationship" => RelationshipAllowed(op)
      /\ Kind(op) = "relationship_thread" => ThreadAllowed(op, work \in Turns)
  BY <1>2, AllowedByFamily
<1>4. row # NoRow => DOMAIN row = Fields
  BY RowsWhole DEF Current
<1>5. new.parent = c.parent /\ new.refs = c.refs
  BY WrittenRow DEF Fields, Current
<1>6. c = IF op.act = "create" THEN Fresh(op, now) ELSE Rewritten(op)
  BY <1>2 DEF Content, Layers, Immediate
<1>7. op.refs # {}
  BY <1>2, <1>3 DEF RelationshipAllowed, ThreadAllowed
<1>8. CASE op.act = "create"
  <2>1. c.parent = op.parent /\ c.refs = op.refs
    BY <1>2, <1>6, <1>8 DEF Fresh
  <2>2. row = NoRow
    BY <1>2, <1>3, <1>8 DEF RelationshipAllowed, ThreadAllowed, CreateAllowed, Creatable, Row
  <2>3. KindOf[o] = "relationship" =>
           ~ \E r \in Objects : /\ KindOf[r] = "relationship" /\ objects[r] # NoRow
                                /\ objects[r].parent = op.parent
    BY <1>2, <1>3, <1>8 DEF RelationshipAllowed
  <2> QED BY <1>2, <1>5, <1>7, <1>8, <2>1, <2>2, <2>3 DEF SocialStep
<1>9. CASE op.act # "create"
  <2>1. row # NoRow /\ op.parent = None
    BY <1>2, <1>3, <1>9 DEF RelationshipAllowed, ThreadAllowed, CreateAllowed, Creatable, Row
  <2>2. c.parent = row.parent /\ c.refs = op.refs
    BY <1>2, <1>4, <1>6, <1>9, <2>1 DEF Rewritten, Given, Row, Fields
  <2> QED BY <1>2, <1>5, <1>7, <1>9, <2>1, <2>2 DEF SocialStep
<1> QED BY <1>8, <1>9

LEMMA OneInterpreter ==
    ASSUME Current, InterpretedOnce, NEW work \in Turns \cup Calls, NEW now \in Nat,
           WritesAll(work, now)
    PROVE  InterpretedOnce'
<1> SUFFICES ASSUME NEW o \in Objects, NEW x \in Objects, o # x,
                    KindOf[o] = "relationship", KindOf[x] = "relationship",
                    objects'[o] # NoRow, objects'[x] # NoRow,
                    objects'[o].parent = objects'[x].parent
             PROVE  FALSE
  BY DEF InterpretedOnce
<1>1. ASSUME NEW r \in Objects, KindOf[r] = "relationship", objects'[r] # NoRow
      PROVE  \/ objects[r] # NoRow /\ objects'[r].parent = objects[r].parent
             \/ \E op \in Ops(work) :
                   /\ r = op.target /\ Kind(op) = "relationship" /\ op.act = "create"
                   /\ objects'[r].parent = op.parent
                   /\ ~ \E q \in Objects : /\ KindOf[q] = "relationship" /\ objects[q] # NoRow
                                           /\ objects[q].parent = op.parent
  <2>1. CASE objects'[r] = objects[r]
    BY <1>1, <2>1
  <2>2. ASSUME NEW op \in Ops(work), Writes(r, op, work, now)
        PROVE  /\ r = op.target
               /\ objects[r] # NoRow => objects'[r].parent = objects[r].parent
               /\ objects[r] = NoRow =>
                     /\ op.act = "create" /\ objects'[r].parent = op.parent
                     /\ ~ \E q \in Objects : /\ KindOf[q] = "relationship" /\ objects[q] # NoRow
                                             /\ objects[q].parent = op.parent
    <3>1. SocialStep(r, op)
      BY <1>1, <2>2, SocialWritten DEF WritesAll, Social
    <3> QED BY <1>1, <3>1 DEF SocialStep
  <2> QED BY <1>1, <2>1, <2>2 DEF WritesAll, Kind
<1>2. CASE objects[o] # NoRow /\ objects[x] # NoRow
      /\ objects'[o].parent = objects[o].parent /\ objects'[x].parent = objects[x].parent
  BY <1>2 DEF InterpretedOnce
<1>3. ASSUME NEW p \in Ops(work), NEW q \in Ops(work),
             o = p.target, Kind(p) = "relationship", p.act = "create", objects'[o].parent = p.parent,
             x = q.target, Kind(q) = "relationship", q.act = "create", objects'[x].parent = q.parent
      PROVE  FALSE
  <2>1. p # q
    BY <1>3
  <2>2. {Kind(p), Kind(q)} = {"relationship"} /\ {p.act, q.act} = {"create"}
    BY <1>3
  <2> QED BY <1>3, <2>1, <2>2 DEF WritesAll, Sound, Disjoint
<1> QED BY <1>1, <1>2, <1>3

LEMMA FollowingIs ==
    /\ DOMAIN Following = {"goal", "project", "commitment", "belief", "relationship_thread"}
    /\ Following["belief"] = BeliefNext
    /\ Following["relationship_thread"] = ThreadNext
    /\ BeliefNext["superseded"] = {} /\ BeliefNext["withdrawn"] = {}
    /\ \A st \in {"tentative", "accepted", "disputed"} : BeliefNext[st] # {}
    /\ DOMAIN BeliefNext = {"tentative", "accepted", "disputed", "superseded", "withdrawn"}
    /\ ThreadNext["open"] # {}
<1>1. /\ DOMAIN Following = {"goal", "project", "commitment", "belief", "relationship_thread"}
      /\ Following["belief"] = BeliefNext
      /\ Following["relationship_thread"] = ThreadNext
  BY DEF Following
<1>2. /\ BeliefNext["superseded"] = {} /\ BeliefNext["withdrawn"] = {}
      /\ \A st \in {"tentative", "accepted", "disputed"} : BeliefNext[st] # {}
      /\ DOMAIN BeliefNext = {"tentative", "accepted", "disputed", "superseded", "withdrawn"}
  BY DEF BeliefNext
<1>3. ThreadNext["open"] # {}
  BY DEF ThreadNext
<1> QED BY <1>1, <1>2, <1>3

\* No operation revises what is concluded.
LEMMA ConcludedStands ==
    ASSUME Current, NEW work \in Turns \cup Calls, NEW now \in Nat, Sound(work, now),
           NEW op \in Ops(work), NEW o \in Objects, Writes(o, op, work, now),
           BeliefSound(o), objects[o] # NoRow
    PROVE  ~Final(KindOf[o], objects[o].status)
<1> DEFINE row  == objects[o]
           kind == KindOf[o]
<1>1. o \in Touched(op)
  BY DEF Writes
<1>2. /\ o = op.target \/ (o # op.target /\ kind = "belief" /\ row.status \notin {"superseded", "withdrawn"})
      /\ op.target \in Objects /\ Allowed(op, now, work) /\ Kind(op) = kind
  BY <1>1, WriterOfRow
<1>3. CASE kind = "belief"
  <2>1. BeliefStep(o, op)
    BY <1>3, BeliefWritten
  <2>2. row.status \in DOMAIN BeliefNext
    BY <1>3 DEF BeliefSound
  <2>3. BeliefNext[row.status] # {}
    BY <2>1, <2>2, FollowingIs DEF BeliefStep
  <2> QED BY <1>3, <2>3, FollowingIs DEF Final
<1>4. CASE kind \in Objectives
  <2>1. ObjectiveAllowed(op, work \in Turns) /\ o = op.target
    BY <1>2, <1>4, AllowedByFamily DEF Objectives
  <2>2. Following[kind][row.status] # {}
    BY <1>2, <2>1 DEF ObjectiveAllowed, CreateAllowed, Creatable, Row
  <2> QED BY <1>4, <2>2 DEF Final, Objectives
<1>5. CASE kind = "relationship_thread"
  <2>1. ThreadAllowed(op, work \in Turns) /\ o = op.target
    BY <1>2, <1>5, AllowedByFamily
  <2>2. row.status = "open"
    BY <1>2, <2>1 DEF ThreadAllowed, CreateAllowed, Creatable, Row
  <2> QED BY <1>5, <2>2, FollowingIs DEF Final
<1>6. CASE Inclined(o)
  <2>1. \/ row.status \in {Tentative(kind), "dormant", "established", Retirable(kind)}
        \/ row = NoRow
    <3>1. InclinationStep(o, op, now)
      BY <1>6, InclinationWritten
    <3> QED BY <3>1 DEF InclinationStep
  <2>2. /\ kind = "interest" => Tentative(kind) = "candidate" /\ Retirable(kind) = "dormant"
        /\ kind = "preference" => Tentative(kind) = "tentative" /\ Retirable(kind) = "established"
        /\ kind \in {"interest", "preference"}
    BY <1>6 DEF Tentative, Retirable, Starts, Inclined
  <2>3. row.status # "retired"
    BY <2>1, <2>2
  <2> QED BY <2>2, <2>3, FollowingIs DEF Final
<1>7. CASE ~Inclined(o) /\ kind \notin Objectives \cup {"belief", "relationship_thread"}
  BY <1>7, FollowingIs DEF Final, Inclined, Objectives
<1> QED BY <1>3, <1>4, <1>5, <1>6, <1>7

LEMMA LayerStays ==
    ASSUME Current, NEW work \in Turns \cup Calls, NEW now \in Nat, Sound(work, now),
           NEW op \in Ops(work), NEW o \in Objects, Writes(o, op, work, now), LayerSound(o)
    PROVE  LayerSound(o)'
<1> SUFFICES ASSUME KindOf[o] \in Layers PROVE LayerSound(o)'
  BY DEF LayerSound
<1>1. LayerStep(o, op, now)
  BY LayerWritten
<1>2. now + Day # None
  BY DelayAssumption, EventAssumption
<1>3. "self_belief" \notin Immediate
  BY DEF Immediate
<1> QED BY <1>1, <1>2, <1>3 DEF LayerStep, LayerSound

LEMMA InclinationStays ==
    ASSUME Current, NEW work \in Turns \cup Calls, NEW now \in Nat, Sound(work, now),
           NEW op \in Ops(work), NEW o \in Objects, Writes(o, op, work, now), InclinationSound(o)
    PROVE  InclinationSound(o)'
<1> SUFFICES ASSUME Inclined(o) PROVE InclinationSound(o)'
  BY DEF InclinationSound, Inclined
<1> DEFINE row  == objects[o]
           new  == objects'[o]
           kind == KindOf[o]
<1>1. PICK N \in Nat : /\ N = Len(history[o]) /\ DOMAIN history[o] = 1 .. N
                       /\ DOMAIN history'[o] = 1 .. N + 1
                       /\ \A n \in 1 .. N : Rev(o, n)' = Rev(o, n)
  BY OneMore DEF Current
<1>2. InclinationStep(o, op, now)
  BY InclinationWritten
<1>3. /\ kind = "interest" => Tentative(kind) = "candidate" /\ Retirable(kind) = "dormant"
      /\ kind = "preference" => Tentative(kind) = "tentative" /\ Retirable(kind) = "established"
      /\ kind \in {"interest", "preference"}
  BY DEF Tentative, Retirable, Starts, Inclined
<1>4. new.updated = now
  BY WrittenRow DEF Current
<1>5. now + Week # None
  BY DelayAssumption, EventAssumption
<1>6. row # NoRow => N \in DOMAIN history'[o] /\ row = Rev(o, N)'.after
  BY <1>1, RowsWhole DEF Current
<1>7. new.status = Tentative(kind) => new.retirement = None
  BY <1>2, <1>3 DEF InclinationStep
<1>8. new.status = "established" =>
         \/ new.updated >= new.notBefore
         \/ \E n \in DOMAIN history'[o] : Rev(o, n)'.after.status = "dormant"
  BY <1>2, <1>3, <1>4, <1>6 DEF InclinationStep
<1>9. new.status = "retired" /\ new.retirement # None => new.updated >= new.retirement
  <2>1. row # NoRow /\ row.status = Tentative(kind) => row.retirement = None
    BY DEF InclinationSound
  <2> QED BY <1>2, <1>3, <1>4, <2>1 DEF InclinationStep
<1>10. new.status = "dormant" => new.retirement # None
  BY <1>2, <1>3, <1>5 DEF InclinationStep
<1> QED BY <1>7, <1>8, <1>9, <1>10 DEF InclinationSound

LEMMA InterpretedStays ==
    ASSUME Current, Interpreted, Grows, NEW o \in Objects,
           objects'[o] = objects[o], history'[o] = history[o]
    PROVE  /\ Concluded(o)' /\ LinksKnown(o)' /\ SocialSound(o)'
           /\ LayerSound(o)' /\ InclinationSound(o)'
<1>1. \A n : Rev(o, n)' = Rev(o, n)
  BY DEF Rev
<1>2. Concluded(o) /\ LinksKnown(o) /\ SocialSound(o) /\ LayerSound(o) /\ InclinationSound(o)
  BY DEF Interpreted
<1>3. Concluded(o)' /\ SocialSound(o)'
  BY <1>1, <1>2 DEF Concluded, SocialSound, Social
<1>4. LinksKnown(o)'
  BY <1>2 DEF LinksKnown, Links, Grows
<1>5. LayerSound(o)'
  BY <1>2 DEF LayerSound
<1>6. InclinationSound(o)'
  BY <1>1, <1>2 DEF InclinationSound, Inclined
<1> QED BY <1>3, <1>4, <1>5, <1>6

LEMMA InterpretedWritten ==
    ASSUME Current, Interpreted, Grows, NEW work \in Turns \cup Calls, NEW now \in Nat,
           Sound(work, now), NEW op \in Ops(work), NEW o \in Objects, Writes(o, op, work, now)
    PROVE  /\ Concluded(o)' /\ LinksKnown(o)' /\ SocialSound(o)'
           /\ LayerSound(o)' /\ InclinationSound(o)'
<1>1. /\ Concluded(o) /\ LinksKnown(o) /\ BeliefSound(o) /\ SocialSound(o)
      /\ LayerSound(o) /\ InclinationSound(o)
  BY DEF Interpreted
<1>2. PICK N \in Nat :
              /\ N = Len(history[o]) /\ DOMAIN history[o] = 1 .. N
              /\ N + 1 = Len(history'[o]) /\ DOMAIN history'[o] = 1 .. N + 1
              /\ \A n \in 1 .. N : Rev(o, n)' = Rev(o, n)
              /\ Rev(o, N + 1)'.after = objects'[o]
  BY OneMore DEF Current
<1>3. objects[o] # NoRow => N > 0 /\ objects[o] = Rev(o, N).after
  BY <1>2, RowsWhole DEF Current
<1>4. objects[o] = NoRow => N = 0
  BY <1>2, RowsWhole DEF Current
<1>5. Concluded(o)'
  <2> SUFFICES ASSUME NEW n \in 1 .. N PROVE ~Final(KindOf[o], Rev(o, n)'.after.status)
    BY <1>2 DEF Concluded
  <2>1. Rev(o, n)' = Rev(o, n) /\ objects[o] # NoRow
    BY <1>2, <1>4
  <2>2. CASE n = N
    BY <1>1, <1>3, <2>1, <2>2, ConcludedStands
  <2>3. CASE n \in 1 .. N - 1
    BY <1>1, <1>2, <2>1, <2>3 DEF Concluded
  <2> QED BY <2>2, <2>3
<1>6. LinksKnown(o)'
  <2>1. \A r \in Links(o)' : r \in Objects /\ objects[r] # NoRow
    BY <1>1, LinksWritten
  <2> QED BY <2>1 DEF LinksKnown, Grows
<1>7. SocialSound(o)'
  <2> SUFFICES ASSUME Social(o)
               PROVE  objects'[o].refs # {} /\ objects'[o].parent = Rev(o, 1)'.after.parent
    BY DEF SocialSound, Social
  <2>1. SocialStep(o, op)
    BY SocialWritten
  <2>2. CASE objects[o] = NoRow
    <3>1. Rev(o, N + 1)' = Rev(o, 1)'
      BY <1>4, <2>2
    <3> QED BY <1>2, <2>1, <3>1 DEF SocialStep
  <2>3. CASE objects[o] # NoRow
    <3>1. Rev(o, 1)' = Rev(o, 1)
      BY <1>2, <1>3, <2>3
    <3> QED BY <1>1, <2>1, <2>3, <3>1 DEF SocialStep, SocialSound
  <2> QED BY <2>2, <2>3
<1> QED BY <1>1, <1>5, <1>6, <1>7, LayerStays, InclinationStays

LEMMA NextInterpreted == Current /\ Interpreted /\ [Next]_vars => Interpreted'
<1> SUFFICES ASSUME Current, Interpreted, [Next]_vars PROVE Interpreted'
  OBVIOUS
<1>1. Grows
  BY StepWrites
<1>2. CASE \A o \in Objects : objects'[o] = objects[o] /\ history'[o] = history[o]
  <2>1. InterpretedOnce'
    BY <1>2 DEF Interpreted, InterpretedOnce
  <2>2. ASSUME NEW o \in Objects PROVE BeliefSound(o)'
    <3>1. BeliefSound(o) /\ LinksKnown(o)
      BY DEF Interpreted
    <3>2. KindOf[o] = "belief" /\ objects[o] # NoRow /\ objects[o].parent # None =>
             objects[o].parent \in Objects
      BY <3>1 DEF LinksKnown, Links
    <3> QED BY <1>2, <3>1, <3>2 DEF BeliefSound
  <2> QED BY <1>1, <1>2, <2>1, <2>2, InterpretedStays DEF Interpreted
<1>3. ASSUME NEW work \in Turns \cup Calls, NEW now \in Nat, WritesAll(work, now)
      PROVE  Interpreted'
  <2>1. InterpretedOnce'
    BY <1>3, OneInterpreter DEF Interpreted
  <2>2. ASSUME NEW o \in Objects
        PROVE  /\ Concluded(o)' /\ LinksKnown(o)' /\ SocialSound(o)'
               /\ LayerSound(o)' /\ InclinationSound(o)'
    BY <1>1, <1>3, InterpretedStays, InterpretedWritten DEF WritesAll
  <2>3. ASSUME NEW o \in Objects PROVE BeliefSound(o)'
    BY <1>3, BeliefStays
  <2> QED BY <2>1, <2>2, <2>3 DEF Interpreted
<1> QED BY <1>2, <1>3, StepWrites

\* Links and evidence exist, what is concluded stands, a superseded belief stays
\* superseded, an entity is interpreted once, and layers and inclinations keep
\* their content, delays and statuses together (db/personal_checks.py).
THEOREM InterpretationsStayConsistent == Spec => []InterpretationsConsistent
<1>1. Init => Interpreted
  <2> SUFFICES ASSUME Init PROVE Interpreted
    OBVIOUS
  <2>1. \A o \in Objects : objects[o] = NoRow /\ Len(history[o]) = 0
    BY DEF Init
  <2> QED BY <2>1 DEF Interpreted, InterpretedOnce, Concluded, LinksKnown, BeliefSound, SocialSound,
                      LayerSound, InclinationSound
<1>2. Current /\ Interpreted => InterpretationsConsistent
  <2> SUFFICES ASSUME Current, Interpreted, NEW o \in {x \in Objects : objects[x] # NoRow}
               PROVE  LET row == objects[o]
                          kind == KindOf[o]
                      IN  /\ \A n \in 1 .. Len(history[o]) - 1 : ~Final(kind, history[o][n].after.status)
                          /\ \A r \in Links(o) \cup row.refs \cup row.against \cup row.pendingRefs : Known(r)
                          /\ kind = "belief" /\ row.parent # None =>
                                row.parent # o /\ objects[row.parent].status = "superseded"
                          /\ kind = "belief" /\ row.status = "accepted" => row.refs # {}
                          /\ kind = "belief" /\ row.status = "disputed" => row.against # {}
                          /\ kind \in {"relationship", "relationship_thread"} =>
                                /\ row.refs # {} /\ row.parent = history[o][1].after.parent
                                /\ \A x \in Objects \ {o} :
                                      KindOf[x] = "relationship" /\ kind = "relationship" /\ objects[x] # NoRow
                                          => objects[x].parent # row.parent
                          /\ kind \in Immediate => row.text # None /\ row.pending = None
                          /\ kind \in Layers => /\ row.text # None \/ row.pending # None
                                                /\ (row.pending = None) <=> (row.notBefore = None)
                                                /\ row.pending = None => row.pendingRefs = {}
                          /\ kind \in {"interest", "preference"} =>
                                /\ row.status = "established" =>
                                      \/ row.updated >= row.notBefore
                                      \/ \E n \in DOMAIN history[o] : history[o][n].after.status = "dormant"
                                /\ row.status = "retired" /\ row.retirement # None => row.updated >= row.retirement
                                /\ row.status = "dormant" => row.retirement # None
    BY DEF InterpretationsConsistent
  <2> DEFINE row == objects[o]
             kind == KindOf[o]
  <2>1. /\ o \in Objects /\ row # NoRow
        /\ Concluded(o) /\ LinksKnown(o) /\ BeliefSound(o) /\ SocialSound(o)
        /\ LayerSound(o) /\ InclinationSound(o) /\ InterpretedOnce
    BY DEF Interpreted
  <2>2. \A n \in 1 .. Len(history[o]) - 1 : ~Final(kind, history[o][n].after.status)
    BY <2>1 DEF Concluded, Rev
  <2>3. \A r \in Links(o) \cup row.refs \cup row.against \cup row.pendingRefs : Known(r)
    <3>1. \A r \in Grounds(row) : Known(r)
      BY <2>1, RowsWhole DEF Current, RevisionsSound, RevisionSound
    <3>2. \A r \in Links(o) : Known(r)
      BY <2>1 DEF LinksKnown, Known
    <3> QED BY <3>1, <3>2 DEF Grounds
  <2>4. /\ kind = "belief" /\ row.parent # None =>
              row.parent # o /\ objects[row.parent].status = "superseded"
        /\ kind = "belief" /\ row.status = "accepted" => row.refs # {}
        /\ kind = "belief" /\ row.status = "disputed" => row.against # {}
    BY <2>1 DEF BeliefSound
  <2>5. kind \in {"relationship", "relationship_thread"} =>
              /\ row.refs # {} /\ row.parent = history[o][1].after.parent
              /\ \A x \in Objects \ {o} :
                    KindOf[x] = "relationship" /\ kind = "relationship" /\ objects[x] # NoRow
                        => objects[x].parent # row.parent
    BY <2>1 DEF SocialSound, Social, InterpretedOnce, Rev
  <2>6. /\ kind \in Immediate => row.text # None /\ row.pending = None
        /\ kind \in Layers => /\ row.text # None \/ row.pending # None
                              /\ (row.pending = None) <=> (row.notBefore = None)
                              /\ row.pending = None => row.pendingRefs = {}
    BY <2>1 DEF LayerSound, Layers
  <2>7. kind \in {"interest", "preference"} =>
              /\ row.status = "established" =>
                    \/ row.updated >= row.notBefore
                    \/ \E n \in DOMAIN history[o] : history[o][n].after.status = "dormant"
              /\ row.status = "retired" /\ row.retirement # None => row.updated >= row.retirement
              /\ row.status = "dormant" => row.retirement # None
    BY <2>1 DEF InclinationSound, Inclined, Rev
  <2> QED BY <2>2, <2>3, <2>4, <2>5, <2>6, <2>7
<1> QED BY <1>1, <1>2, NextInterpreted, StaysCurrent, PTL DEF Spec

=============================================================================
