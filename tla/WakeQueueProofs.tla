-------------------------- MODULE WakeQueueProofs --------------------------
(***************************************************************************)
(* The wake queue for any number of sessions, wakes and keys: one pending  *)
(* row per coalescing key; merged rows that are due with their earliest    *)
(* request; claims in order; and the queue implements a post box.          *)
(*                                                                         *)
(* OneRowPerKey is about what is committed and what one transaction sees.  *)
(* A commit turns the one into the other for everybody else, so the        *)
(* inductive invariant has to relate two transactions as well: no two of   *)
(* them have pending rows of one key in preparation (Apart).  An insert    *)
(* keeps that because it waits for whoever prepares or takes a row of its  *)
(* key, a merge because the lock is exclusive.                             *)
(***************************************************************************)
EXTENDS WakeQueue, FiniteSetTheorems, TLAPS

\* Where a session may be.
Places == {"idle", "insert", "read", "take", "look", "first", "batch", "end", "over"}

\* Types, and what a place says of what is left to do.
WellFormed ==
    /\ table \in [Wakes -> Rows \cup {NoRow}]
    /\ draft \in [Sessions -> [Wakes -> Rows \cup {NoRow}]]
    /\ todo \in [Sessions -> Seq(Requests)]
    /\ pc \in [Sessions -> Places]
    /\ seen \in [Sessions -> Wakes \cup {NoWake}]
    /\ \A w \in cycle : w \in Wakes /\ table[w] \in Rows
    /\ \A s \in Sessions :
        /\ Posting(s) => todo[s] # <<>>
        /\ pc[s] \in {"take", "first"} => seen[s] \in Wakes

\* No two transactions have pending rows of one key in preparation.
Apart ==
    \A s, t \in Sessions, v, w \in Wakes, k \in Keys :
        In(draft[s][v], k) /\ In(draft[t][w], k) => s = t

IInv == WellFormed /\ OneRowPerKey /\ Apart

USE SessionsDiffer, Markers, NoRowIsNoRow, BatchesOfRequests, RenewalsOfOrphans

-----------------------------------------------------------------------------
(* A step that gives one session one more row, or another version of a row *)
(* it holds.                                                               *)

\* The new version is pending for a key only if the row already was: a merge
\* or a lock.
LEMMA KeepsKey ==
    ASSUME IInv, NEW s \in Sessions, NEW w \in Wakes, NEW row \in Rows,
           Free(s, w), table' = table,
           draft' = [draft EXCEPT ![s][w] = row],
           \A k \in Keys : In(row, k) => In(Seen(s, w), k)
    PROVE  OneRowPerKey' /\ Apart'
<1>1. \A t \in Sessions, v \in Wakes :
          draft'[t][v] = IF t = s /\ v = w THEN row ELSE draft[t][v]
  BY DEF IInv, WellFormed
<1>2. \A t \in Sessions, v \in Wakes :
          /\ Holds(t, v)' <=> (t = s /\ v = w) \/ Holds(t, v)
          /\ (Free(t, v) /\ (v = w => t = s)) => Free(t, v)'
  BY <1>1 DEF Holds, Free
<1>3. \A t \in Sessions, v \in Wakes, k \in Keys :
          In(Seen(t, v), k)' => In(Seen(t, v), k)
  BY <1>1, <1>2 DEF Seen, Holds
<1>4. \A t \in Sessions, v \in Wakes : Holds(t, v)' => Free(t, v)'
  <2> SUFFICES ASSUME NEW t \in Sessions, NEW v \in Wakes, Holds(t, v)' PROVE Free(t, v)'
    OBVIOUS
  <2>1. CASE t = s /\ v = w
    BY <2>1, <1>1 DEF Free, Holds
  <2>2. CASE ~(t = s /\ v = w)
    BY <2>2, <1>1, <1>2 DEF IInv, OneRowPerKey, Free, Holds
  <2> QED BY <2>1, <2>2
<1>5. OneRowPerKey'
  <2> SUFFICES ASSUME NEW t \in Sessions, NEW u \in Wakes, NEW v \in Wakes, NEW k \in Keys
               PROVE  /\ In(table[u], k)' /\ In(table[v], k)' => u = v
                      /\ In(Seen(t, u), k)' /\ In(Seen(t, v), k)' => u = v
                      /\ In(table[u], k)' /\ In(Seen(t, v), k)' /\ u # v => Holds(t, u)'
    BY <1>4 DEF OneRowPerKey
  <2>1. In(table[u], k)' <=> In(table[u], k)
    BY DEF In, Pending
  <2>2. In(table[u], k) /\ In(table[v], k) => u = v
    BY DEF IInv, OneRowPerKey
  <2>3. In(Seen(t, u), k)' /\ In(Seen(t, v), k)' => u = v
    BY <1>3 DEF IInv, OneRowPerKey
  <2>4. ASSUME In(table[u], k), In(Seen(t, v), k)', u # v
        PROVE  Holds(t, u)'
    <3>1. Holds(t, u)
      BY <2>4, <1>3 DEF IInv, OneRowPerKey
    <3> QED BY <3>1, <1>2
  <2>5. In(table[v], k)' <=> In(table[v], k)
    BY DEF In, Pending
  <2> QED BY <2>1, <2>2, <2>3, <2>4, <2>5
<1>6. Apart'
  <2> SUFFICES ASSUME NEW t \in Sessions, NEW u \in Sessions, NEW v \in Wakes, NEW x \in Wakes,
                      NEW k \in Keys,
                      In(draft'[t][v], k), In(draft'[u][x], k), t # u
               PROVE  FALSE
    BY DEF Apart
  <2>1. \A r \in Sessions, y \in Wakes : In(draft[r][y], k) => Holds(r, y)
    BY DEF In, Pending, Holds
  <2>2. ASSUME NEW r \in Sessions, NEW y \in Wakes, r # s, In(row, k), In(draft[r][y], k)
        PROVE  FALSE
    <3>1. In(Seen(s, w), k) /\ Holds(r, y) /\ Seen(r, y) = draft[r][y] /\ y # w
      BY <2>1, <2>2 DEF Seen, Free
    <3>2. CASE Holds(s, w)
      BY <2>2, <3>1, <3>2 DEF Seen, IInv, Apart
    <3>3. CASE ~Holds(s, w)
      BY <2>2, <3>1, <3>3 DEF Seen, IInv, OneRowPerKey, Free
    <3> QED BY <3>2, <3>3
  <2> QED BY <1>1, <2>2 DEF IInv, Apart
<1> QED BY <1>5, <1>6

\* The new version is a new row of a key that nobody has or prepares.
LEMMA AddsKey ==
    ASSUME IInv, NEW s \in Sessions, NEW w \in Wakes, NEW row \in Rows,
           Free(s, w), Seen(s, w) = NoRow, table' = table,
           draft' = [draft EXCEPT ![s][w] = row],
           row.key \in Keys => /\ Undecided(s, row.key) = {}
                               /\ \A v \in Wakes : ~In(Seen(s, v), row.key)
    PROVE  OneRowPerKey' /\ Apart'
<1>1. \A t \in Sessions, v \in Wakes :
          draft'[t][v] = IF t = s /\ v = w THEN row ELSE draft[t][v]
  BY DEF IInv, WellFormed
<1>2. \A t \in Sessions, v \in Wakes :
          /\ Holds(t, v)' <=> (t = s /\ v = w) \/ Holds(t, v)
          /\ (Free(t, v) /\ (v = w => t = s)) => Free(t, v)'
  BY <1>1 DEF Holds, Free
<1>3. \A t \in Sessions, v \in Wakes :
          Seen(t, v)' = IF t = s /\ v = w THEN row ELSE Seen(t, v)
  BY <1>1, <1>2 DEF Seen, Holds
<1>4. \A t \in Sessions, v \in Wakes : Holds(t, v)' => Free(t, v)'
  <2> SUFFICES ASSUME NEW t \in Sessions, NEW v \in Wakes, Holds(t, v)' PROVE Free(t, v)'
    OBVIOUS
  <2>1. CASE t = s /\ v = w
    BY <2>1, <1>1 DEF Free, Holds
  <2>2. CASE ~(t = s /\ v = w)
    BY <2>2, <1>1, <1>2 DEF IInv, OneRowPerKey, Free, Holds
  <2> QED BY <2>1, <2>2
<1>5. ASSUME NEW k \in Keys, In(row, k)
      PROVE  Undecided(s, k) = {} /\ \A v \in Wakes : ~In(Seen(s, v), k)
  BY <1>5 DEF In
<1>6. OneRowPerKey'
  <2> SUFFICES ASSUME NEW t \in Sessions, NEW u \in Wakes, NEW v \in Wakes, NEW k \in Keys
               PROVE  /\ In(table[u], k)' /\ In(table[v], k)' => u = v
                      /\ In(Seen(t, u), k)' /\ In(Seen(t, v), k)' => u = v
                      /\ In(table[u], k)' /\ In(Seen(t, v), k)' /\ u # v => Holds(t, u)'
    BY <1>4 DEF OneRowPerKey
  <2>1. In(table[u], k)' <=> In(table[u], k)
    BY DEF In, Pending
  <2>2. \A y \in Wakes : In(Seen(t, y), k)' <=> IF t = s /\ y = w THEN In(row, k) ELSE In(Seen(t, y), k)
    BY <1>3 DEF In, Pending
  <2>3. In(table[u], k) /\ In(table[v], k) => u = v
    BY DEF IInv, OneRowPerKey
  <2>4. In(Seen(t, u), k)' /\ In(Seen(t, v), k)' => u = v
    BY <2>2, <1>5 DEF IInv, OneRowPerKey
  <2>5. ASSUME In(table[u], k), In(Seen(t, v), k)', u # v
        PROVE  Holds(t, u)'
    <3>1. CASE t = s /\ v = w
      BY <3>1, <2>5, <2>2, <1>5, <1>2 DEF Seen
    <3>2. CASE ~(t = s /\ v = w)
      <4>1. In(Seen(t, v), k)
        BY <3>2, <2>5, <2>2
      <4>2. Holds(t, u)
        BY <4>1, <2>5 DEF IInv, OneRowPerKey
      <4> QED BY <4>2, <1>2
    <3> QED BY <3>1, <3>2
  <2> QED BY <2>1, <2>3, <2>4, <2>5
<1>7. Apart'
  <2> SUFFICES ASSUME NEW t \in Sessions, NEW u \in Sessions, NEW v \in Wakes, NEW x \in Wakes,
                      NEW k \in Keys,
                      In(draft'[t][v], k), In(draft'[u][x], k), t # u
               PROVE  FALSE
    BY DEF Apart
  <2>2. ASSUME NEW r \in Sessions, NEW y \in Wakes, r # s, In(row, k), In(draft[r][y], k)
        PROVE  FALSE
    <3>1. Holds(r, y) /\ ~Holds(s, y)
      BY <2>2 DEF In, Pending, Holds, IInv, OneRowPerKey, Free
    <3>2. CASE draft[r][y] = table[y]
      BY <2>2, <3>1, <3>2, <1>5 DEF Seen
    <3>3. CASE draft[r][y] # table[y]
      BY <2>2, <3>1, <3>3, <1>5 DEF Undecided
    <3> QED BY <3>2, <3>3
  <2> QED BY <1>1, <2>2 DEF IInv, Apart
<1> QED BY <1>6, <1>7


\* A step that releases the rows of a session, or holds others that are not
\* pending, and leaves what is committed alone.
LEMMA DropsRows ==
    ASSUME IInv, NEW s \in Sessions, NEW rows \in [Wakes -> Rows \cup {NoRow}],
           table' = table, draft' = [draft EXCEPT ![s] = rows],
           \A w \in Wakes : rows[w] # NoRow => Free(s, w) /\ ~Pending(rows[w])
    PROVE  OneRowPerKey' /\ Apart'
<1>1. /\ \A w \in Wakes : draft'[s][w] = rows[w]
      /\ \A t \in Sessions : t # s => draft'[t] = draft[t]
  BY DEF IInv, WellFormed
<1>2. \A t \in Sessions, w \in Wakes : Holds(t, w)' => Free(t, w)'
  <2> SUFFICES ASSUME NEW t \in Sessions, NEW w \in Wakes, Holds(t, w)' PROVE Free(t, w)'
    OBVIOUS
  <2>1. CASE t = s
    BY <2>1, <1>1 DEF Holds, Free
  <2>2. CASE t # s
    BY <2>2, <1>1 DEF Holds, Free, IInv, OneRowPerKey
  <2> QED BY <2>1, <2>2
<1>3. \A w \in Wakes, k \in Keys : In(Seen(s, w), k)' => In(table[w], k)
  BY <1>1 DEF Seen, Holds, In
<1>4. \A t \in Sessions, w \in Wakes, k \in Keys :
          t # s => /\ In(Seen(t, w), k)' <=> In(Seen(t, w), k)
                   /\ Holds(t, w)' <=> Holds(t, w)
  BY <1>1 DEF Seen, Holds, In, Pending
<1>5. \A w \in Wakes, k \in Keys : In(table[w], k)' <=> In(table[w], k)
  BY DEF In, Pending
<1>6. OneRowPerKey'
  <2> SUFFICES ASSUME NEW t \in Sessions, NEW u \in Wakes, NEW v \in Wakes, NEW k \in Keys
               PROVE  /\ In(table[u], k)' /\ In(table[v], k)' => u = v
                      /\ In(Seen(t, u), k)' /\ In(Seen(t, v), k)' => u = v
                      /\ In(table[u], k)' /\ In(Seen(t, v), k)' /\ u # v => Holds(t, u)'
    BY <1>2 DEF OneRowPerKey
  <2>1. In(table[u], k) /\ In(table[v], k) => u = v
    BY DEF IInv, OneRowPerKey
  <2>2. CASE t = s
    BY <2>1, <2>2, <1>3, <1>5
  <2>3. CASE t # s
    BY <2>1, <2>3, <1>4, <1>5 DEF IInv, OneRowPerKey
  <2> QED BY <2>2, <2>3
<1>7. Apart'
  <2>1. \A t \in Sessions, w \in Wakes, k \in Keys :
            In(draft'[t][w], k) => t # s /\ In(draft[t][w], k)
    BY <1>1 DEF In, Pending
  <2> QED BY <2>1 DEF Apart, IInv
<1> QED BY <1>6, <1>7

\* A step that claims rows nobody else holds: they are held and no longer
\* pending, the others are as they were.
LEMMA HidesRows ==
    ASSUME IInv, NEW s \in Sessions, NEW F \in SUBSET Wakes,
           NEW rows \in [Wakes -> Rows \cup {NoRow}],
           table' = table, draft' = [draft EXCEPT ![s] = rows],
           \A w \in F : Free(s, w) /\ rows[w] # NoRow /\ ~Pending(rows[w]),
           \A w \in Wakes \ F : rows[w] = draft[s][w]
    PROVE  OneRowPerKey' /\ Apart'
<1>1. /\ \A w \in Wakes : draft'[s][w] = rows[w]
      /\ \A t \in Sessions : t # s => draft'[t] = draft[t]
  BY DEF IInv, WellFormed
<1>2. \A t \in Sessions, w \in Wakes : Holds(t, w)' <=> (t = s /\ w \in F) \/ Holds(t, w)
  BY <1>1 DEF Holds
<1>3. \A t \in Sessions, w \in Wakes : Holds(t, w)' => Free(t, w)'
  <2> SUFFICES ASSUME NEW t \in Sessions, NEW w \in Wakes, Holds(t, w)' PROVE Free(t, w)'
    OBVIOUS
  <2>1. CASE t = s /\ w \in F
    BY <2>1, <1>2 DEF Free
  <2>2. CASE ~(t = s /\ w \in F)
    BY <2>2, <1>2 DEF Free, IInv, OneRowPerKey
  <2> QED BY <2>1, <2>2
<1>4. \A t \in Sessions, w \in Wakes, k \in Keys : In(Seen(t, w), k)' => In(Seen(t, w), k)
  BY <1>1, <1>2 DEF Seen, Holds, In, Pending
<1>5. \A w \in Wakes, k \in Keys : In(table[w], k)' <=> In(table[w], k)
  BY DEF In, Pending
<1>6. OneRowPerKey'
  <2> SUFFICES ASSUME NEW t \in Sessions, NEW u \in Wakes, NEW v \in Wakes, NEW k \in Keys
               PROVE  /\ In(table[u], k)' /\ In(table[v], k)' => u = v
                      /\ In(Seen(t, u), k)' /\ In(Seen(t, v), k)' => u = v
                      /\ In(table[u], k)' /\ In(Seen(t, v), k)' /\ u # v => Holds(t, u)'
    BY <1>3 DEF OneRowPerKey
  <2> QED BY <1>2, <1>4, <1>5 DEF IInv, OneRowPerKey
<1>7. Apart'
  <2>1. \A t \in Sessions, w \in Wakes, k \in Keys :
            In(draft'[t][w], k) => In(draft[t][w], k)
    BY <1>1 DEF In
  <2> QED BY <2>1 DEF Apart, IInv
<1> QED BY <1>6, <1>7

\* A step that changes neither rows nor locks.
LEMMA SameRows ==
    ASSUME IInv, table' = table, draft' = draft
    PROVE  OneRowPerKey' /\ Apart'
BY DEF IInv, OneRowPerKey, Apart, In, Pending, Seen, Holds, Free

\* A commit: what the session saw is what there is, except that wakes it has
\* consumed are no longer pending.
LEMMA Commits ==
    ASSUME IInv, NEW s \in Sessions,
           \A w \in Wakes : table'[w] = Seen(s, w) \/ ~Pending(table'[w]),
           draft' = [draft EXCEPT ![s] = [w \in Wakes |-> NoRow]]
    PROVE  OneRowPerKey' /\ Apart'
<1>1. /\ \A w \in Wakes : draft'[s][w] = NoRow
      /\ \A t \in Sessions : t # s => draft'[t] = draft[t]
  BY DEF IInv, WellFormed
<1>2. \A t \in Sessions, w \in Wakes : Holds(t, w)' <=> t # s /\ Holds(t, w)
  BY <1>1 DEF Holds
<1>3. \A t \in Sessions, w \in Wakes : Holds(t, w)' => Free(t, w)'
  BY <1>2 DEF Free, IInv, OneRowPerKey
<1>4. \A w \in Wakes, k \in Keys : In(table[w], k)' => In(Seen(s, w), k)
  BY DEF In
<1>5. \A t \in Sessions, w \in Wakes, k \in Keys :
          In(Seen(t, w), k)' =>
              IF t # s /\ Holds(t, w) THEN In(draft[t][w], k) /\ In(Seen(t, w), k)
                                      ELSE In(table[w], k)'
  BY <1>1, <1>2 DEF Seen, Holds, In, Pending
<1>6. ASSUME NEW t \in Sessions, NEW u \in Wakes, NEW v \in Wakes, NEW k \in Keys,
             In(table[u], k)', In(Seen(t, v), k)', u # v
      PROVE  t # s /\ Holds(t, u)
  <2>1. In(Seen(s, u), k)
    BY <1>4, <1>6
  <2>2. ~In(table[v], k)'
    BY <2>1, <1>4, <1>6 DEF IInv, OneRowPerKey
  <2>3. t # s /\ In(draft[t][v], k) /\ In(Seen(t, v), k)
    BY <2>2, <1>5, <1>6
  <2>4. CASE Holds(s, u)
    BY <2>1, <2>3, <2>4 DEF Seen, IInv, Apart
  <2>5. CASE ~Holds(s, u)
    <3>1. In(table[u], k)
      BY <2>1, <2>5 DEF Seen
    <3> QED BY <3>1, <2>3, <1>6 DEF IInv, OneRowPerKey
  <2> QED BY <2>4, <2>5
<1>7. ASSUME NEW t \in Sessions, NEW u \in Wakes, NEW v \in Wakes, NEW k \in Keys,
             In(Seen(t, u), k)', In(Seen(t, v), k)'
      PROVE  u = v
  <2>1. CASE In(table[u], k)'
    BY <2>1, <1>5, <1>6, <1>7, <1>4 DEF IInv, OneRowPerKey
  <2>2. CASE In(table[v], k)'
    BY <2>2, <1>5, <1>6, <1>7, <1>4 DEF IInv, OneRowPerKey
  <2>3. CASE ~In(table[u], k)' /\ ~In(table[v], k)'
    BY <2>3, <1>5, <1>7 DEF IInv, OneRowPerKey
  <2> QED BY <2>1, <2>2, <2>3
<1>8. \A u, v \in Wakes, k \in Keys : In(table[u], k)' /\ In(table[v], k)' => u = v
  BY <1>4 DEF IInv, OneRowPerKey
<1>9. Apart'
  <2>1. \A t \in Sessions, w \in Wakes, k \in Keys :
            In(draft'[t][w], k) => t # s /\ In(draft[t][w], k)
    BY <1>1 DEF In, Pending
  <2> QED BY <2>1 DEF Apart, IInv
<1>10. OneRowPerKey'
  <2> SUFFICES ASSUME NEW t \in Sessions, NEW u \in Wakes, NEW v \in Wakes, NEW k \in Keys
               PROVE  /\ In(table[u], k)' /\ In(table[v], k)' => u = v
                      /\ In(Seen(t, u), k)' /\ In(Seen(t, v), k)' => u = v
                      /\ In(table[u], k)' /\ In(Seen(t, v), k)' /\ u # v => Holds(t, u)'
    BY <1>3 DEF OneRowPerKey
  <2> QED BY <1>2, <1>6, <1>7, <1>8
<1> QED BY <1>9, <1>10

-----------------------------------------------------------------------------
(* The invariant holds at the start and every action keeps it.             *)

LEMMA InitEstablishes == Init => IInv
<1> SUFFICES ASSUME Init PROVE IInv
  OBVIOUS
<1>1. table \in [Wakes -> Rows \cup {NoRow}]
  <2> SUFFICES ASSUME NEW w \in Wakes PROVE table[w] \in Rows \cup {NoRow}
    BY DEF Init
  <2>1. CASE w \in Legacy
    BY <2>1 DEF Init, Rows, Requests
  <2>2. CASE w \notin Legacy
    BY <2>2 DEF Init
  <2> QED BY <2>1, <2>2
<1>2. WellFormed
  BY <1>1 DEF Init, WellFormed, Places, Posting
<1>3. /\ \A s \in Sessions, w \in Wakes : ~Holds(s, w) /\ Seen(s, w) = table[w]
      /\ \A w \in Wakes, k \in Keys : ~In(table[w], k)
  BY DEF Init, Holds, Seen, In, Pending
<1>4. OneRowPerKey
  BY <1>3 DEF OneRowPerKey
<1>5. Apart
  BY DEF Init, Apart, In, Pending
<1> QED BY <1>2, <1>4, <1>5 DEF IInv

LEMMA RowTypes ==
    ASSUME IInv, NEW s \in Sessions, NEW w \in Wakes
    PROVE  Seen(s, w) \in Rows \cup {NoRow}
BY DEF IInv, WellFormed, Seen

\* The first request of what is left to post.
LEMMA Requested ==
    ASSUME IInv, NEW s \in Sessions, Posting(s)
    PROVE  Head(todo[s]) \in Requests /\ Tail(todo[s]) \in Seq(Requests)
BY DEF IInv, WellFormed

LEMMA PlaceKeepsTypes ==
    ASSUME IInv, NEW s \in Sessions, NEW w \in Wakes, NEW row \in Rows, Posting(s),
           Place(s, w, row), UNCHANGED <<table, cycle, seen>>
    PROVE  WellFormed'
<1>1. draft' \in [Sessions -> [Wakes -> Rows \cup {NoRow}]]
  BY DEF Place, IInv, WellFormed
<1>2. todo' \in [Sessions -> Seq(Requests)]
  BY Requested DEF Place, IInv, WellFormed
<1>3. pc' \in [Sessions -> Places]
  BY DEF Place, After, Places, IInv, WellFormed
<1>4. ASSUME NEW t \in Sessions
      PROVE  /\ Posting(t)' => todo'[t] # <<>>
             /\ pc'[t] \in {"take", "first"} => seen'[t] \in Wakes
  BY DEF Place, After, Posting, IInv, WellFormed
<1> QED BY <1>1, <1>2, <1>3, <1>4 DEF IInv, WellFormed

LEMMA InsertKeeps == ASSUME IInv, NEW s \in Sessions, Insert(s) PROVE IInv'
<1> DEFINE q == Head(todo[s])
<1>1. Posting(s) /\ q \in Requests
  BY Requested DEF Insert, Posting
<1>2. CASE /\ q.key = NoKey \/ \A w \in Wakes : ~In(Seen(s, w), q.key)
           /\ q.key = NoKey \/ Undecided(s, q.key) = {}
           /\ Free(s, q.id) /\ Seen(s, q.id) = NoRow
           /\ Place(s, q.id, NewRow(q))
  <2>1. NewRow(q) \in Rows /\ q.id \in Wakes /\ NewRow(q).key = q.key
    BY <1>1 DEF NewRow, Requests, Rows
  <2>2. WellFormed'
    BY <1>1, <1>2, <2>1, PlaceKeepsTypes DEF Insert
  <2>3. NewRow(q).key \in Keys => /\ Undecided(s, NewRow(q).key) = {}
                                  /\ \A v \in Wakes : ~In(Seen(s, v), NewRow(q).key)
    BY <1>2, <2>1
  <2>4. draft' = [draft EXCEPT ![s][q.id] = NewRow(q)] /\ table' = table
    BY <1>2 DEF Place, Insert
  <2>5. OneRowPerKey' /\ Apart'
    BY <1>2, <2>1, <2>3, <2>4, AddsKey
  <2> QED BY <2>2, <2>5 DEF IInv
<1>3. CASE pc' = [pc EXCEPT ![s] = "read"] /\ UNCHANGED <<draft, todo>>
  <2>1. WellFormed'
    BY <1>3, <1>1 DEF Insert, IInv, WellFormed, Places, Posting
  <2>2. OneRowPerKey' /\ Apart'
    BY <1>3, SameRows DEF Insert
  <2> QED BY <2>1, <2>2 DEF IInv
<1> QED BY <1>2, <1>3 DEF Insert

LEMMA ReadKeeps == ASSUME IInv, NEW s \in Sessions, Read(s) PROVE IInv'
<1>1. WellFormed'
  <2>1. /\ pc' \in [Sessions -> Places] /\ seen' \in [Sessions -> Wakes \cup {NoWake}]
        /\ pc[s] = "read" /\ pc'[s] \in {"take", "insert"}
        /\ pc'[s] = "take" => seen'[s] \in Wakes
        /\ \A t \in Sessions \ {s} : pc'[t] = pc[t] /\ seen'[t] = seen[t]
    <3>1. CASE \E w \in Wakes : /\ seen' = [seen EXCEPT ![s] = w]
                               /\ pc' = [pc EXCEPT ![s] = "take"]
      BY <3>1 DEF Read, IInv, WellFormed, Places
    <3>2. CASE pc' = [pc EXCEPT ![s] = "insert"] /\ UNCHANGED seen
      BY <3>2 DEF Read, IInv, WellFormed, Places
    <3> QED BY <3>1, <3>2 DEF Read
  <2>2. UNCHANGED <<table, draft, todo, cycle>>
    BY DEF Read
  <2> QED BY <2>1, <2>2 DEF IInv, WellFormed, Posting
<1>2. OneRowPerKey' /\ Apart'
  BY SameRows DEF Read
<1> QED BY <1>1, <1>2 DEF IInv

LEMMA TakeKeeps == ASSUME IInv, NEW s \in Sessions, Take(s) PROVE IInv'
<1> DEFINE w == seen[s]
           row == MergedRow(Seen(s, w), Head(todo[s]))
<1>1. Posting(s) /\ Head(todo[s]) \in Requests /\ w \in Wakes
  BY Requested DEF Take, Posting, IInv, WellFormed
<1>2. CASE Pending(Seen(s, w)) /\ Place(s, w, row)
  <2>1. Seen(s, w) \in Rows
    BY <1>1, <1>2, RowTypes DEF Pending
  <2>2. row \in Rows /\ \A k \in Keys : In(row, k) => In(Seen(s, w), k)
    BY <1>1, <1>2, <2>1 DEF MergedRow, Rows, Requests, In, Pending
  <2>3. WellFormed'
    BY <1>1, <1>2, <2>2, PlaceKeepsTypes DEF Take
  <2>4. draft' = [draft EXCEPT ![s][w] = row] /\ table' = table /\ Free(s, w)
    BY <1>2 DEF Place, Take
  <2>5. OneRowPerKey' /\ Apart'
    BY <1>1, <2>2, <2>4, KeepsKey
  <2> QED BY <2>3, <2>5 DEF IInv
<1>3. CASE pc' = [pc EXCEPT ![s] = "insert"] /\ UNCHANGED <<draft, todo>>
  <2>1. WellFormed'
    BY <1>3, <1>1 DEF Take, IInv, WellFormed, Places, Posting
  <2>2. OneRowPerKey' /\ Apart'
    BY <1>3, SameRows DEF Take
  <2> QED BY <2>1, <2>2 DEF IInv
<1> QED BY <1>2, <1>3 DEF Take

LEMMA BeginsTypes ==
    ASSUME IInv, NEW s \in Sessions, NEW requests \in Seq(Requests), Begins(s, requests)
    PROVE  /\ todo' \in [Sessions -> Seq(Requests)] /\ pc' \in [Sessions -> Places]
           /\ \A t \in Sessions :
                 /\ Posting(t)' => todo'[t] # <<>>
                 /\ pc'[t] \in {"take", "first"} => seen[t] \in Wakes
BY DEF Begins, After, Posting, Places, IInv, WellFormed

LEMMA BeginPostKeeps == ASSUME IInv, NEW s \in Sessions, BeginPost(s) PROVE IInv'
<1>1. Batch[s] \in Seq(Requests)
  OBVIOUS
<1>2. WellFormed'
  BY <1>1, BeginsTypes DEF BeginPost, IInv, WellFormed
<1>3. OneRowPerKey' /\ Apart'
  BY SameRows DEF BeginPost
<1> QED BY <1>2, <1>3 DEF IInv

LEMMA BeginApplyKeeps == ASSUME IInv, BeginApply PROVE IInv'
<1> DEFINE asked == IF Runtime \in posted THEN <<>> ELSE Batch[Runtime]
<1>1. Runtime \in Sessions /\ asked \in Seq(Requests)
  BY DEF Sessions
<1>2. WellFormed'
  BY <1>1, BeginsTypes DEF BeginApply, IInv, WellFormed
<1>3. OneRowPerKey' /\ Apart'
  BY SameRows DEF BeginApply
<1> QED BY <1>2, <1>3 DEF IInv

LEMMA BeginClaimKeeps == ASSUME IInv, BeginClaim PROVE IInv'
<1> Runtime \in Sessions
  BY DEF Sessions
<1>1. PICK F \in Earliest(Runtime, {w \in Wakes : Orphan(w)}, MaxWakes) :
          /\ \A w \in F : Free(Runtime, w)
          /\ draft' = [draft EXCEPT ![Runtime] =
                 [w \in Wakes |-> IF w \in F THEN [table[w] EXCEPT !.status = "superseded"]
                                  ELSE NoRow]]
          /\ \E order \in [1 .. Cardinality(F) -> F] :
                Begins(Runtime, [i \in DOMAIN order |-> Renewal[order[i]]])
  BY DEF BeginClaim
<1> DEFINE rows == [w \in Wakes |-> IF w \in F THEN [table[w] EXCEPT !.status = "superseded"]
                                   ELSE NoRow]
<1>2. \A w \in F : w \in Wakes /\ Orphan(w) /\ table[w] \in Rows
  BY <1>1 DEF Earliest, Orphan, IInv, WellFormed
<1>3. \A w \in Wakes : /\ rows[w] \in Rows \cup {NoRow}
                       /\ rows[w] # NoRow => Free(Runtime, w) /\ ~Pending(rows[w])
  BY <1>1, <1>2 DEF Rows, Pending
<1>4. OneRowPerKey' /\ Apart'
  BY <1>1, <1>3, DropsRows DEF BeginClaim
<1>5. draft' \in [Sessions -> [Wakes -> Rows \cup {NoRow}]]
  <2>1. rows \in [Wakes -> Rows \cup {NoRow}]
    BY <1>3
  <2> QED BY <1>1, <2>1 DEF IInv, WellFormed
<1>6. PICK order \in [1 .. Cardinality(F) -> F] :
          Begins(Runtime, [i \in DOMAIN order |-> Renewal[order[i]]])
  BY <1>1
<1>7. [i \in DOMAIN order |-> Renewal[order[i]]] \in Seq(Requests)
  <2>1. F \subseteq Wakes
    BY <1>2
  <2>2. Cardinality(F) \in Nat
    BY <2>1, FiniteWakes, FS_Subset, FS_CardinalityType
  <2>3. \A i \in 1 .. Cardinality(F) : Renewal[order[i]] \in Requests
    BY <1>2
  <2> QED BY <1>6, <2>2, <2>3
<1>8. WellFormed'
  BY <1>5, <1>6, <1>7, BeginsTypes DEF BeginClaim, IInv, WellFormed
<1> QED BY <1>4, <1>8 DEF IInv

LEMMA LookKeeps == ASSUME IInv, Look PROVE IInv'
<1> Runtime \in Sessions
  BY DEF Sessions
<1>1. WellFormed'
  <2>1. /\ pc' \in [Sessions -> Places] /\ seen' \in [Sessions -> Wakes \cup {NoWake}]
        /\ pc'[Runtime] \in {"first", "end"}
        /\ pc'[Runtime] = "first" => seen'[Runtime] \in Wakes
        /\ \A t \in Sessions \ {Runtime} : pc'[t] = pc[t] /\ seen'[t] = seen[t]
    <3>1. CASE \E w \in Wakes : /\ seen' = [seen EXCEPT ![Runtime] = w]
                               /\ pc' = [pc EXCEPT ![Runtime] = "first"]
      BY <3>1 DEF IInv, WellFormed, Places
    <3>2. CASE pc' = [pc EXCEPT ![Runtime] = "end"] /\ UNCHANGED seen
      BY <3>2 DEF IInv, WellFormed, Places
    <3> QED BY <3>1, <3>2 DEF Look
  <2>2. UNCHANGED <<table, draft, todo, cycle>>
    BY DEF Look
  <2> QED BY <2>1, <2>2 DEF IInv, WellFormed, Posting
<1>2. OneRowPerKey' /\ Apart'
  BY SameRows DEF Look
<1> QED BY <1>1, <1>2 DEF IInv

LEMMA FirstKeeps == ASSUME IInv, First PROVE IInv'
<1> DEFINE w == seen[Runtime]
<1>1. Runtime \in Sessions /\ w \in Wakes
  BY DEF Sessions, First, IInv, WellFormed
<1>2. CASE /\ Free(Runtime, w) /\ Pending(Seen(Runtime, w))
           /\ draft' = [draft EXCEPT ![Runtime][w] = Seen(Runtime, w)]
           /\ pc' = [pc EXCEPT ![Runtime] = "batch"]
  <2>1. Seen(Runtime, w) \in Rows
    BY <1>1, <1>2, RowTypes DEF Pending
  <2>2. OneRowPerKey' /\ Apart'
    BY <1>1, <1>2, <2>1, KeepsKey DEF First
  <2>3. WellFormed'
    BY <1>1, <1>2, <2>1 DEF First, IInv, WellFormed, Places, Posting
  <2> QED BY <2>2, <2>3 DEF IInv
<1>3. CASE pc' = [pc EXCEPT ![Runtime] = "end"] /\ UNCHANGED draft
  <2>1. OneRowPerKey' /\ Apart'
    BY <1>3, SameRows DEF First
  <2>2. WellFormed'
    BY <1>1, <1>3 DEF First, IInv, WellFormed, Places, Posting
  <2> QED BY <2>1, <2>2 DEF IInv
<1> QED BY <1>2, <1>3 DEF First

LEMMA ClaimBatchKeeps == ASSUME IInv, ClaimBatch PROVE IInv'
<1> Runtime \in Sessions
  BY DEF Sessions
<1>1. PICK F \in Earliest(Runtime, {w \in Wakes : Due(w) /\ Free(Runtime, w)}, MaxWakes) :
          draft' = [draft EXCEPT ![Runtime] =
                       [w \in Wakes |-> IF w \in F
                                        THEN [Seen(Runtime, w) EXCEPT !.status = "claimed"]
                                        ELSE draft[Runtime][w]]]
  BY DEF ClaimBatch, IInv, WellFormed
<1> DEFINE rows == [w \in Wakes |-> IF w \in F THEN [Seen(Runtime, w) EXCEPT !.status = "claimed"]
                                   ELSE draft[Runtime][w]]
<1>2. \A w \in F : w \in Wakes /\ Free(Runtime, w) /\ Seen(Runtime, w) \in Rows
  BY <1>1, RowTypes DEF Earliest, Due, Pending
<1>3. rows \in [Wakes -> Rows \cup {NoRow}]
  <2> SUFFICES ASSUME NEW w \in Wakes PROVE rows[w] \in Rows \cup {NoRow}
    OBVIOUS
  <2>1. CASE w \in F
    BY <2>1, <1>2 DEF Rows
  <2>2. CASE w \notin F
    BY <2>2 DEF IInv, WellFormed
  <2> QED BY <2>1, <2>2
<1>4. /\ \A w \in F : Free(Runtime, w) /\ rows[w] # NoRow /\ ~Pending(rows[w])
      /\ \A w \in Wakes \ F : rows[w] = draft[Runtime][w]
  BY <1>2 DEF Rows, Pending
<1>5. WellFormed'
  <2>1. draft' \in [Sessions -> [Wakes -> Rows \cup {NoRow}]]
    BY <1>1, <1>3 DEF IInv, WellFormed
  <2> QED BY <2>1 DEF ClaimBatch, IInv, WellFormed, Places, Posting
<1>6. OneRowPerKey' /\ Apart'
  <2>1. F \in SUBSET Wakes
    BY <1>2
  <2>2. draft' = [draft EXCEPT ![Runtime] = rows] /\ table' = table
    BY <1>1 DEF ClaimBatch
  <2> HIDE DEF rows
  <2> QED BY <1>3, <1>4, <2>1, <2>2, HidesRows
<1> QED BY <1>5, <1>6 DEF IInv

LEMMA ReleasedTypes ==
    ASSUME IInv, NEW s \in Sessions, Released(s), UNCHANGED <<table, cycle>>
    PROVE  WellFormed'
BY DEF Released, Ended, IInv, WellFormed, Places, Posting

LEMMA RollbackKeeps ==
    ASSUME IInv, NEW s \in Sessions, Released(s), UNCHANGED <<table, cycle>>
    PROVE  IInv'
<1> DEFINE rows == [w \in Wakes |-> NoRow]
<1>1. rows \in [Wakes -> Rows \cup {NoRow}] /\ \A w \in Wakes : rows[w] = NoRow
  OBVIOUS
<1>2. OneRowPerKey' /\ Apart'
  BY <1>1, DropsRows DEF Released
<1> QED BY <1>2, ReleasedTypes DEF IInv

LEMMA CommitKeeps == ASSUME IInv, NEW s \in Sessions, Commit(s) PROVE IInv'
<1> DEFINE consumed == IF s = Runtime THEN cycle ELSE {}
<1>1. \A w \in Wakes : table'[w] = IF w \in consumed THEN [table[w] EXCEPT !.status = "consumed"]
                                   ELSE Seen(s, w)
  BY DEF Commit
<1>2. \A w \in consumed : w \in Wakes /\ table[w] \in Rows
  <2>1. consumed \subseteq cycle
    OBVIOUS
  <2> QED BY <2>1 DEF IInv, WellFormed
<1>3. ASSUME NEW w \in consumed PROVE table'[w] \in Rows /\ ~Pending(table'[w])
  <2>1. w \in Wakes /\ table[w] \in Rows
    BY <1>2
  <2>2. table'[w] = [table[w] EXCEPT !.status = "consumed"]
    BY <1>1, <2>1
  <2> QED BY <2>1, <2>2 DEF Rows, Pending
<1>4. OneRowPerKey' /\ Apart'
  BY <1>1, <1>3, Commits DEF Commit, Released
<1>5. table' \in [Wakes -> Rows \cup {NoRow}]
  BY <1>1, <1>3, RowTypes DEF Commit
<1>6. \A w \in Wakes : table[w] \in Rows => table'[w] \in Rows
  BY <1>1, <1>3, RowTypes DEF Seen, Holds, IInv, WellFormed
<1>7. \A w \in cycle' : w \in Wakes /\ table'[w] \in Rows
  <2>1. CASE s # Runtime
    BY <2>1, <1>6 DEF Commit, IInv, WellFormed
  <2>2. CASE s = Runtime
    <3> SUFFICES ASSUME NEW w \in cycle' PROVE w \in Wakes /\ table'[w] \in Rows
      OBVIOUS
    <3>1. cycle = {} /\ w \in Claimed
      BY <2>2 DEF Commit
    <3>2. w \in Wakes /\ Holds(Runtime, w) /\ table'[w] = draft[Runtime][w]
      BY <2>2, <3>1, <1>1 DEF Claimed, Seen
    <3> QED BY <2>2, <3>2 DEF Holds, IInv, WellFormed
  <2> QED BY <2>1, <2>2
<1>8. WellFormed'
  <2>1. /\ draft' \in [Sessions -> [Wakes -> Rows \cup {NoRow}]]
        /\ todo' \in [Sessions -> Seq(Requests)]
        /\ pc' \in [Sessions -> Places]
        /\ seen' \in [Sessions -> Wakes \cup {NoWake}]
    BY DEF Commit, Released, Ended, IInv, WellFormed, Places
  <2>2. /\ pc'[s] \in {"idle", "over"}
        /\ \A t \in Sessions \ {s} : /\ pc'[t] = pc[t] /\ todo'[t] = todo[t]
                                     /\ seen'[t] = seen[t]
    BY DEF Commit, Released, Ended, IInv, WellFormed
  <2>3. ASSUME NEW t \in Sessions
        PROVE  /\ Posting(t)' => todo'[t] # <<>>
               /\ pc'[t] \in {"take", "first"} => seen'[t] \in Wakes
    BY <2>2 DEF Posting, IInv, WellFormed
  <2> QED BY <1>5, <1>7, <2>1, <2>3 DEF WellFormed
<1> QED BY <1>4, <1>8 DEF IInv

LEMMA NextKeeps == IInv /\ [Next]_vars => IInv'
<1> SUFFICES ASSUME IInv, [Next]_vars PROVE IInv'
  OBVIOUS
<1>1. CASE \E s \in Sessions : Step(s)
  BY <1>1, BeginPostKeeps, InsertKeeps, ReadKeeps, TakeKeeps, CommitKeeps DEF Step, Post
<1>2. CASE \E s \in Sessions : Fail(s) \/ Abort(s)
  BY <1>2, RollbackKeeps DEF Fail, Abort
<1>3. CASE BeginApply \/ Claim
  BY <1>3, BeginApplyKeeps, BeginClaimKeeps, LookKeeps, FirstKeeps, ClaimBatchKeeps DEF Claim
<1>4. CASE Tick \/ UNCHANGED vars
  <2>1. UNCHANGED <<table, draft, cycle, pc, todo, seen>>
    BY <1>4 DEF Tick, vars
  <2>2. WellFormed'
    BY <2>1 DEF IInv, WellFormed, Posting
  <2> QED BY <2>1, <2>2, SameRows DEF IInv
<1> QED BY <1>1, <1>2, <1>3, <1>4 DEF Next

-----------------------------------------------------------------------------

\* The unique index holds in what is committed and in what every transaction
\* sees, row locks are exclusive, and no two transactions prepare rows of one
\* key (create_or_merge_pending_wake, claim_or_resume).
THEOREM QueueInvariant == Spec => []IInv
BY InitEstablishes, NextKeeps, PTL DEF Spec

\* However many sessions post, merge, requeue and claim: one row per key.
THEOREM CoalescesByKey == Spec => []OneRowPerKey
<1>1. IInv => OneRowPerKey
  BY DEF IInv
<1> QED BY <1>1, QueueInvariant, PTL

-----------------------------------------------------------------------------
(* What the rows carry: requests are merged with the earliest of their due *)
(* times, none is lost or carried twice, and no claim overtakes.           *)
(*                                                                         *)
(* A merge is judged by the transaction that makes it, and seen by others  *)
(* when it commits.  So the invariant has, for every transaction, what it  *)
(* is there to post (Owns), where that is by now (PostSound), and how the  *)
(* rows it holds differ from those committed (DraftSound); two of them     *)
(* never own the same, hence what one commits is in no row of another.     *)

\* A row whose requests nobody else carries: a superseded one has handed them on.
Live(row) == row # NoRow /\ row.status # "superseded"

Carried(row) == {q \in Asked : q.refs \subseteq row.refs}

\* The row is what its requests ask for.
Sound(row) ==
    row # NoRow => /\ \A q \in Carried(row) : q.key = row.key /\ row.due <= q.due
                   /\ \E q \in Carried(row) : q.due = row.due

\* Rows are sound wherever they are; and the row a merge is about to take has
\* the key of the request it is for.
RowsSound ==
    /\ \A w \in Wakes : Sound(table[w])
    /\ \A s \in Sessions, w \in Wakes : Sound(draft[s][w])
    /\ \A s \in Sessions : \A i \in DOMAIN todo[s] : todo[s][i] \in Asked
    /\ \A s \in Sessions : pc[s] = "take" =>
        /\ Seen(s, seen[s]) # NoRow
        /\ Seen(s, seen[s]).key = Head(todo[s]).key

\* A session was asked to post r; and still has to.
Asks(s, r)  == \E i \in DOMAIN Batch[s] : r \in Batch[s][i].refs
Wants(s, r) == \E i \in DOMAIN todo[s] : r \in todo[s][i].refs

\* What the transaction of s is there to post.
Owns(s, r) ==
    IF s # Runtime THEN Asks(s, r)
    ELSE IF cycle = {}
         THEN \E w \in Wakes : /\ Holds(Runtime, w) /\ draft[Runtime][w].status = "superseded"
                               /\ r \in draft[Runtime][w].refs
         ELSE Runtime \notin posted /\ Asks(Runtime, r)

InTx(s) == pc[s] \notin {"idle", "over"}

\* Claimed rows are those of the cycle and the orphans nobody has requeued.
TableSound ==
    /\ \A w \in Legacy : /\ table[w] # NoRow /\ table[w].status \in {"claimed", "superseded"}
                         /\ table[w].refs = Renewal[w].refs
    /\ \A w \in Wakes : table[w] # NoRow /\ table[w].status = "claimed" => w \in Legacy \cup cycle
    /\ \A w \in cycle : w \notin Legacy /\ table[w].status = "claimed"

\* What a transaction may have made of a row.
DraftSound(s, w) ==
    LET row == draft[s][w]
        was == table[w]
    IN  /\ InTx(s)
        /\ row.status # "pending" => s = Runtime /\ cycle = {}
        /\ row.status \in {"pending", "claimed", "superseded"}
        /\ row.status = "superseded" =>
               was # NoRow /\ was.status = "claimed" /\ row.refs = was.refs
        /\ row.status # "superseded" => was = NoRow \/ was.status = "pending"
        /\ was # NoRow => row.key = was.key /\ was.refs \subseteq row.refs
        /\ \A r \in row.refs : (was # NoRow /\ r \in was.refs) \/ Owns(s, r)

DraftsSound == \A s \in Sessions, w \in Wakes : Holds(s, w) => DraftSound(s, w)

\* In what is committed and in what any transaction sees, a request is in one row.
OneHome ==
    \A v, w, r \in Wakes :
        /\ /\ Live(table[v]) /\ r \in table[v].refs
           /\ Live(table[w]) /\ r \in table[w].refs
           => v = w
        /\ \A s \in Sessions :
            /\ Live(Seen(s, v)) /\ r \in Seen(s, v).refs
            /\ Live(Seen(s, w)) /\ r \in Seen(s, w).refs
            => v = w

\* What a transaction owns is still to be posted or is in a row it holds, and
\* what is still to be posted is in no row it sees.
PostSound ==
    \A s \in Sessions :
        /\ pc[s] \notin {"insert", "read", "take"} => todo[s] = <<>>
        /\ \A i, j \in DOMAIN todo[s] : todo[s][i].refs \cap todo[s][j].refs # {} => i = j
        /\ \A r \in Wakes : Wants(s, r) =>
            /\ Owns(s, r)
            /\ \A w \in Wakes : Live(Seen(s, w)) => r \notin Seen(s, w).refs
        /\ InTx(s) => \A r \in Wakes : Owns(s, r) =>
            Wants(s, r) \/ \E w \in Wakes : /\ Holds(s, w) /\ Live(draft[s][w])
                                            /\ r \in draft[s][w].refs

\* Until a session has committed, nobody sees what it was asked to post.
SentSound ==
    /\ \A s \in Sessions \ posted : \A r, w \in Wakes :
        Asks(s, r) /\ table[w] # NoRow => r \notin table[w].refs
    /\ posted \subseteq Sessions
    /\ \A s \in Posters \cap posted : pc[s] = "over"
    /\ pc[Runtime] \in {"look", "first", "batch"} => cycle = {}
    /\ \A s \in Posters : pc[s] \notin {"look", "first", "batch"}

\* A run that claims has found a wake, and has taken one as early.
ClaimSound ==
    /\ clock \in Nat /\ now \in Nat
    /\ pc[Runtime] = "batch" => /\ seen[Runtime] \in Wakes
                                /\ Pending(draft[Runtime][seen[Runtime]])
    /\ Claimed # {} =>
        /\ pc[Runtime] = "end"
        /\ seen[Runtime] \in Wakes
        /\ Holds(Runtime, seen[Runtime])
        /\ \E w \in Claimed : draft[Runtime][w].due <= draft[Runtime][seen[Runtime]].due

Letters == TableSound /\ DraftsSound /\ OneHome /\ PostSound /\ SentSound

QueueInv == IInv /\ RowsSound /\ Letters /\ ClaimSound

\* The head and the tail of what is left to post, by index.
LEMMA TailOf ==
    ASSUME NEW q \in Seq(Requests), q # <<>>
    PROVE  /\ 1 \in DOMAIN q /\ Head(q) = q[1] /\ Tail(q) \in Seq(Requests)
           /\ \A i \in DOMAIN Tail(q) : i + 1 \in DOMAIN q /\ Tail(q)[i] = q[i + 1] /\ i # 0
           /\ \A i \in DOMAIN q : i = 1 \/ (i - 1 \in DOMAIN Tail(q) /\ Tail(q)[i - 1] = q[i])
           /\ DOMAIN q \subseteq Int /\ DOMAIN Tail(q) \subseteq Int
OBVIOUS

\* Two transactions never post the same, and an orphan's request is nobody's.
LEMMA OwnersDiffer ==
    ASSUME IInv, Letters, NEW s \in Sessions, NEW r \in Wakes, Owns(s, r)
    PROVE  /\ \A t \in Sessions \ {s} : ~Owns(t, r) /\ ~Asks(t, r)
           /\ s = Runtime /\ cycle = {} => ~Asks(s, r)
<1>1. ASSUME NEW u \in Sessions, NEW v \in Sessions, u # v PROVE ~(Asks(u, r) /\ Asks(v, r))
  BY <1>1, RequestsDiffer DEF Asks
<1>2. ASSUME NEW u \in Sessions, NEW w \in Legacy, r \in Renewal[w].refs PROVE ~Asks(u, r)
  BY <1>2, RequestsDiffer DEF Asks
<1>3. ASSUME cycle = {}, Owns(Runtime, r) PROVE \E w \in Legacy : r \in Renewal[w].refs
  <2>1. PICK w \in Wakes : /\ Holds(Runtime, w) /\ draft[Runtime][w].status = "superseded"
                           /\ r \in draft[Runtime][w].refs
    BY <1>3 DEF Owns
  <2>2. /\ table[w] # NoRow /\ table[w].status = "claimed"
        /\ draft[Runtime][w].refs = table[w].refs
    BY <2>1 DEF Letters, DraftsSound, DraftSound, Sessions
  <2>3. w \in Legacy
    BY <2>2, <1>3 DEF Letters, TableSound
  <2> QED BY <2>1, <2>2, <2>3 DEF Letters, TableSound
<1>4. CASE cycle = {}
  BY <1>1, <1>2, <1>3, <1>4 DEF Owns
<1>5. CASE cycle # {}
  BY <1>1, <1>5 DEF Owns
<1> QED BY <1>4, <1>5

\* A request is placed: in a row of its own, or with those of a pending row.
LEMMA PlacesLetters ==
    ASSUME IInv, Letters, NEW s \in Sessions, NEW w \in Wakes, NEW row \in Rows,
           Posting(s), Place(s, w, row),
           UNCHANGED <<table, cycle, posted, seen>>,
           row.status = "pending",
           \/ /\ Seen(s, w) = NoRow
              /\ row.refs = Head(todo[s]).refs
           \/ /\ Pending(Seen(s, w))
              /\ row.key = Seen(s, w).key
              /\ row.refs = Seen(s, w).refs \cup Head(todo[s]).refs
    PROVE  Letters'
<1> DEFINE q == Head(todo[s])
<1>0. row # NoRow
  OBVIOUS
<1>1. \A t \in Sessions, v \in Wakes :
          draft'[t][v] = IF t = s /\ v = w THEN row ELSE draft[t][v]
  BY DEF Place, IInv, WellFormed
<1>2. \A t \in Sessions, v \in Wakes :
          /\ Holds(t, v)' <=> (t = s /\ v = w) \/ Holds(t, v)
          /\ Seen(t, v)' = IF t = s /\ v = w THEN row ELSE Seen(t, v)
  BY <1>0, <1>1 DEF Holds, Seen
<1>3. \A t \in Sessions, r \in Wakes : Owns(t, r)' <=> Owns(t, r)
  <2>1. \A v \in Wakes :
           /\ Holds(Runtime, v) /\ draft[Runtime][v].status = "superseded"
           <=> Holds(Runtime, v)' /\ draft'[Runtime][v].status = "superseded"
    <3>1. s = Runtime => ~(Holds(Runtime, w) /\ draft[Runtime][w].status = "superseded")
      BY DEF Seen, Holds, Pending
    <3> QED BY <3>1, <1>1, <1>2 DEF Sessions
  <2>2. \A v \in Wakes :
            Holds(Runtime, v)' /\ draft'[Runtime][v].status = "superseded"
            => draft'[Runtime][v] = draft[Runtime][v]
    BY <1>1, <1>2 DEF Sessions
  <2> QED BY <2>1, <2>2 DEF Owns, Asks
<1>4. /\ todo[s] \in Seq(Requests) /\ todo[s] # <<>> /\ todo'[s] = Tail(todo[s])
      /\ \A t \in Sessions \ {s} : todo'[t] = todo[t] /\ pc'[t] = pc[t]
      /\ pc[s] \in {"insert", "read", "take"}
      /\ pc'[s] = After(s, Tail(todo[s]))
  BY DEF Place, Posting, IInv, WellFormed
<1>5. /\ \A t \in Sessions \ {s}, r \in Wakes : Wants(t, r)' <=> Wants(t, r)
      /\ \A r \in Wakes : Wants(s, r) <=> r \in q.refs \/ Wants(s, r)'
      /\ \A r \in Wakes : r \in q.refs => ~Wants(s, r)'
  <2>1. \A t \in Sessions \ {s}, r \in Wakes : Wants(t, r)' <=> Wants(t, r)
    BY <1>4 DEF Wants
  <2>2. ASSUME NEW r \in Wakes PROVE Wants(s, r) <=> r \in q.refs \/ Wants(s, r)'
    <3>1. ASSUME Wants(s, r) PROVE r \in q.refs \/ Wants(s, r)'
      <4>1. PICK i \in DOMAIN todo[s] : r \in todo[s][i].refs
        BY <3>1 DEF Wants
      <4>2. \/ i = 1 /\ q = todo[s][1]
            \/ i - 1 \in DOMAIN Tail(todo[s]) /\ Tail(todo[s])[i - 1] = todo[s][i]
        BY <1>4, TailOf
      <4> QED BY <4>1, <4>2, <1>4 DEF Wants
    <3>2. ASSUME r \in q.refs \/ Wants(s, r)' PROVE Wants(s, r)
      BY <3>2, <1>4, TailOf DEF Wants
    <3> QED BY <3>1, <3>2
  <2>3. ASSUME NEW r \in Wakes, r \in q.refs, Wants(s, r)' PROVE FALSE
    <3>1. PICK i \in DOMAIN Tail(todo[s]) : r \in Tail(todo[s])[i].refs
      BY <2>3, <1>4 DEF Wants
    <3>2. /\ i + 1 \in DOMAIN todo[s] /\ r \in todo[s][i + 1].refs /\ i \in Int /\ i # 0
          /\ 1 \in DOMAIN todo[s] /\ r \in todo[s][1].refs
      BY <3>1, <2>3, <1>4, TailOf
    <3>3. todo[s][i + 1].refs \cap todo[s][1].refs # {}
      BY <3>2
    <3>4. i + 1 = 1
      BY <3>2, <3>3 DEF Letters, PostSound
    <3> QED BY <3>2, <3>4
  <2> QED BY <2>1, <2>2, <2>3
<1>6. q \in Requests /\ row.refs \subseteq Wakes
  BY <1>4, TailOf, Requested DEF Requests, Rows
<1>7. \A t \in Sessions : InTx(t)' <=> InTx(t)
  BY <1>4 DEF InTx, After
<1>8. DraftsSound'
  <2> SUFFICES ASSUME NEW t \in Sessions, NEW v \in Wakes, Holds(t, v)'
               PROVE  DraftSound(t, v)'
    BY DEF DraftsSound
  <2>1. CASE ~(t = s /\ v = w)
    <3>1. DraftSound(t, v) /\ draft'[t][v] = draft[t][v] /\ table'[v] = table[v]
      BY <2>1, <1>1, <1>2 DEF Letters, DraftsSound
    <3>2. \A r \in draft[t][v].refs : r \in Wakes
      BY <1>1, <1>2, <2>1 DEF Holds, IInv, WellFormed, Rows
    <3> QED BY <3>1, <3>2, <1>3, <1>7 DEF DraftSound
  <2>2. CASE t = s /\ v = w
    <3>1. draft'[s][w] = row /\ InTx(s)' /\ table'[w] = table[w]
      BY <1>1, <1>4, <1>7 DEF InTx
    <3>2. \A r \in q.refs : Owns(s, r)'
      BY <1>3, <1>5, <1>6 DEF Letters, PostSound, Requests
    <3>3. CASE Holds(s, w)
      <4>1. /\ DraftSound(s, w) /\ draft[s][w].status = "pending"
            /\ row.key = draft[s][w].key /\ row.refs = draft[s][w].refs \cup q.refs
        BY <3>3 DEF Letters, DraftsSound, Seen, Pending, Holds
      <4> QED BY <4>1, <3>1, <3>2, <1>3, <1>6, <2>2 DEF DraftSound
    <3>4. CASE ~Holds(s, w)
      BY <3>4, <3>1, <3>2, <2>2 DEF DraftSound, Seen, Pending
    <3> QED BY <3>3, <3>4
  <2> QED BY <2>1, <2>2
<1>9. \A v, r \in Wakes :
          Live(Seen(s, v)) /\ r \in Seen(s, v).refs /\ r \in row.refs => v = w
  <2> SUFFICES ASSUME NEW v \in Wakes, NEW r \in Wakes,
                      Live(Seen(s, v)), r \in Seen(s, v).refs, r \in row.refs
               PROVE  v = w
    OBVIOUS
  <2>1. r \notin q.refs
    BY <1>5 DEF Letters, PostSound
  <2>2. Live(Seen(s, w)) /\ r \in Seen(s, w).refs
    BY <2>1 DEF Live, Pending
  <2> QED BY <2>2 DEF Letters, OneHome
<1>10. OneHome'
  BY <1>2, <1>9 DEF Letters, OneHome, Live
<1>11. PostSound'
  <2> SUFFICES ASSUME NEW t \in Sessions
               PROVE  /\ pc'[t] \notin {"insert", "read", "take"} => todo'[t] = <<>>
                      /\ \A i, j \in DOMAIN todo'[t] :
                            todo'[t][i].refs \cap todo'[t][j].refs # {} => i = j
                      /\ \A r \in Wakes : Wants(t, r)' =>
                            /\ Owns(t, r)'
                            /\ \A v \in Wakes : Live(Seen(t, v))' => r \notin Seen(t, v)'.refs
                      /\ InTx(t)' => \A r \in Wakes : Owns(t, r)' =>
                            Wants(t, r)' \/ \E v \in Wakes : /\ Holds(t, v)' /\ Live(draft'[t][v])
                                                             /\ r \in draft'[t][v].refs
    BY DEF PostSound, Live
  <2>1. CASE t # s
    <3>1. /\ pc'[t] = pc[t] /\ todo'[t] = todo[t]
          /\ \A v \in Wakes : /\ draft'[t][v] = draft[t][v] /\ Seen(t, v)' = Seen(t, v)
                              /\ Holds(t, v)' <=> Holds(t, v)
      BY <2>1, <1>1, <1>2, <1>4
    <3> QED BY <3>1, <2>1, <1>3, <1>5, <1>7 DEF Letters, PostSound, Live
  <2>2. CASE t = s
    <3>1. pc'[s] \notin {"insert", "read", "take"} => todo'[s] = <<>>
      BY <1>4 DEF After
    <3>2. ASSUME NEW i \in DOMAIN todo'[s], NEW j \in DOMAIN todo'[s],
                 todo'[s][i].refs \cap todo'[s][j].refs # {}
          PROVE  i = j
      <4>1. /\ i + 1 \in DOMAIN todo[s] /\ j + 1 \in DOMAIN todo[s] /\ i \in Int /\ j \in Int
            /\ todo[s][i + 1].refs \cap todo[s][j + 1].refs # {}
        BY <3>2, <1>4, TailOf
      <4>2. i + 1 = j + 1
        BY <4>1 DEF Letters, PostSound
      <4> QED BY <4>1, <4>2
    <3>3. ASSUME NEW r \in Wakes, Wants(s, r)'
          PROVE  /\ Owns(s, r)'
                 /\ \A v \in Wakes : Live(Seen(s, v))' => r \notin Seen(s, v)'.refs
      <4>1. Wants(s, r) /\ r \notin q.refs
        BY <3>3, <1>5
      <4>2. Owns(s, r) /\ \A v \in Wakes : Live(Seen(s, v)) => r \notin Seen(s, v).refs
        BY <4>1 DEF Letters, PostSound
      <4>3. r \notin row.refs
        BY <4>1, <4>2 DEF Live, Pending
      <4> QED BY <4>2, <4>3, <1>2, <1>3 DEF Live
    <3>4. ASSUME NEW r \in Wakes, Owns(s, r)', ~Wants(s, r)'
          PROVE  \E v \in Wakes : /\ Holds(s, v)' /\ Live(draft'[s][v])
                                  /\ r \in draft'[s][v].refs
      <4>0. Live(draft'[s][w]) /\ Holds(s, w)' /\ draft'[s][w] = row
        BY <1>1, <1>2, <1>6 DEF Live
      <4>1. CASE r \in q.refs
        BY <4>0, <4>1
      <4>2. CASE r \notin q.refs
        <5>1. InTx(s) /\ Owns(s, r) /\ ~Wants(s, r)
          BY <3>4, <4>2, <1>3, <1>4, <1>5 DEF InTx
        <5>2. PICK v \in Wakes : Holds(s, v) /\ Live(draft[s][v]) /\ r \in draft[s][v].refs
          BY <5>1 DEF Letters, PostSound
        <5>3. CASE v = w
          BY <5>2, <5>3, <4>0 DEF Seen, Holds
        <5>4. CASE v # w
          BY <5>2, <5>4, <1>1, <1>2 DEF Live
        <5> QED BY <5>3, <5>4
      <4> QED BY <4>1, <4>2
    <3> QED BY <2>2, <3>1, <3>2, <3>3, <3>4
  <2> QED BY <2>1, <2>2
<1>12. SentSound'
  <2>1. \A t \in Sessions : /\ pc'[t] = "over" <=> pc[t] = "over"
                            /\ pc'[t] \in {"look", "first", "batch"} =>
                                  pc[t] \in {"look", "first", "batch"} \/ (t = Runtime /\ cycle = {})
    BY <1>4 DEF After
  <2> QED BY <2>1 DEF Letters, SentSound, Asks, Sessions
<1>13. TableSound'
  BY DEF Letters, TableSound
<1> QED BY <1>8, <1>10, <1>11, <1>12, <1>13 DEF Letters

\* A statement that reads, or locks and claims pending rows it may have changed
\* before: what they carry stays where it is.
LEMMA StatementsLetters ==
    ASSUME IInv, Letters, NEW s \in Sessions,
           UNCHANGED <<table, cycle, posted, todo>>,
           \A t \in Sessions \ {s} : draft'[t] = draft[t] /\ pc'[t] = pc[t],
           \A w \in Wakes :
              \/ draft'[s][w] = draft[s][w]
              \/ /\ Pending(Seen(s, w)) /\ draft'[s][w] # NoRow
                 /\ draft'[s][w].key = Seen(s, w).key /\ draft'[s][w].refs = Seen(s, w).refs
                 /\ \/ draft'[s][w].status = "pending"
                    \/ draft'[s][w].status = "claimed" /\ s = Runtime /\ cycle = {},
           InTx(s), InTx(s)',
           pc'[s] \in {"insert", "read", "take"} \/ todo[s] = <<>>,
           pc'[s] \in {"look", "first", "batch"} => s = Runtime /\ cycle = {}
    PROVE  Letters'
<1>1. \A t \in Sessions, w \in Wakes :
          /\ Holds(t, w) => Holds(t, w)'
          /\ Live(Seen(t, w)) <=> Live(Seen(t, w))'
          /\ Live(Seen(t, w)) => Seen(t, w)'.refs = Seen(t, w).refs
          /\ t # s => (Holds(t, w)' <=> Holds(t, w))
  BY DEF Holds, Seen, Live, Pending
<1>2. ASSUME NEW w \in Wakes
      PROVE  /\ (Holds(s, w) /\ draft[s][w].status = "superseded")
                <=> (Holds(s, w)' /\ draft'[s][w].status = "superseded")
             /\ draft'[s][w] # NoRow /\ draft'[s][w].status = "superseded"
                => draft'[s][w] = draft[s][w]
  <2>1. CASE draft'[s][w] = draft[s][w]
    BY <2>1 DEF Holds
  <2>2. CASE draft'[s][w] # draft[s][w]
    <3>1. Pending(Seen(s, w)) /\ draft'[s][w].status # "superseded"
      BY <2>2
    <3>2. ~(Holds(s, w) /\ draft[s][w].status = "superseded")
      BY <3>1 DEF Holds, Seen, Pending
    <3> QED BY <3>1, <3>2
  <2> QED BY <2>1, <2>2
<1>3. \A t \in Sessions, r \in Wakes : Owns(t, r)' <=> Owns(t, r)
  <2>1. \A w \in Wakes :
           /\ Holds(Runtime, w) /\ draft[Runtime][w].status = "superseded"
           <=> Holds(Runtime, w)' /\ draft'[Runtime][w].status = "superseded"
    <3>1. CASE s = Runtime
      BY <3>1, <1>2
    <3>2. CASE s # Runtime
      <4>1. draft'[Runtime] = draft[Runtime]
        BY <3>2 DEF Sessions
      <4> QED BY <4>1 DEF Holds
    <3> QED BY <3>1, <3>2
  <2>2. \A w \in Wakes :
            Holds(Runtime, w)' /\ draft'[Runtime][w].status = "superseded"
            => draft'[Runtime][w] = draft[Runtime][w]
    BY <1>2 DEF Sessions, Holds
  <2> QED BY <2>1, <2>2 DEF Owns, Asks
<1>4. \A t \in Sessions : InTx(t)' <=> InTx(t)
  BY DEF InTx
<1>5. \A t \in Sessions, r \in Wakes : Wants(t, r)' <=> Wants(t, r)
  BY DEF Wants
<1>6. \A w \in Wakes : Seen(s, w) # NoRow => Seen(s, w).refs \subseteq Wakes
  BY DEF Seen, IInv, WellFormed, Rows
<1>7. DraftsSound'
  <2> SUFFICES ASSUME NEW t \in Sessions, NEW w \in Wakes, Holds(t, w)'
               PROVE  DraftSound(t, w)'
    BY DEF DraftsSound
  <2>1. CASE draft'[t][w] = draft[t][w]
    <3>1. DraftSound(t, w)
      BY <2>1 DEF Letters, DraftsSound, Holds
    <3>2. \A r \in draft[t][w].refs : r \in Wakes
      BY <2>1 DEF Holds, IInv, WellFormed, Rows
    <3> QED BY <2>1, <3>1, <3>2, <1>3, <1>4 DEF DraftSound
  <2>2. CASE draft'[t][w] # draft[t][w]
    <3>1. /\ t = s /\ Pending(Seen(s, w)) /\ draft'[s][w] # NoRow
          /\ draft'[s][w].key = Seen(s, w).key /\ draft'[s][w].refs = Seen(s, w).refs
          /\ \/ draft'[s][w].status = "pending"
             \/ draft'[s][w].status = "claimed" /\ s = Runtime /\ cycle = {}
      BY <2>2
    <3>2. \A r \in draft'[s][w].refs : r \in Wakes
      BY <3>1, <1>6 DEF Pending
    <3>3. CASE Holds(s, w)
      <4>1. DraftSound(s, w) /\ Seen(s, w) = draft[s][w]
        BY <3>3 DEF Letters, DraftsSound, Seen
      <4> QED BY <4>1, <3>1, <3>2, <1>3, <1>4 DEF DraftSound, Pending
    <3>4. CASE ~Holds(s, w)
      <4>1. Seen(s, w) = table[w]
        BY <3>4 DEF Seen
      <4> QED BY <4>1, <3>1, <1>4 DEF DraftSound, Pending
    <3> QED BY <3>3, <3>4
  <2> QED BY <2>1, <2>2
<1>8. OneHome'
  <2>1. \A w \in Wakes : Live(table[w])' <=> Live(table[w])
    BY DEF Live
  <2> QED BY <2>1, <1>1 DEF Letters, OneHome
<1>9. PostSound'
  <2> SUFFICES ASSUME NEW t \in Sessions
               PROVE  /\ pc'[t] \notin {"insert", "read", "take"} => todo'[t] = <<>>
                      /\ \A i, j \in DOMAIN todo'[t] :
                            todo'[t][i].refs \cap todo'[t][j].refs # {} => i = j
                      /\ \A r \in Wakes : Wants(t, r)' =>
                            /\ Owns(t, r)'
                            /\ \A v \in Wakes : Live(Seen(t, v))' => r \notin Seen(t, v)'.refs
                      /\ InTx(t)' => \A r \in Wakes : Owns(t, r)' =>
                            Wants(t, r)' \/ \E v \in Wakes : /\ Holds(t, v)' /\ Live(draft'[t][v])
                                                             /\ r \in draft'[t][v].refs
    BY DEF PostSound, Live
  <2>1. \A v \in Wakes, r \in Wakes :
            Holds(t, v) /\ Live(draft[t][v]) /\ r \in draft[t][v].refs
            => Holds(t, v)' /\ Live(draft'[t][v]) /\ r \in draft'[t][v].refs
    BY <1>1 DEF Holds, Seen
  <2>2. pc'[t] \notin {"insert", "read", "take"} => todo'[t] = <<>>
    BY DEF Letters, PostSound
  <2>3. InTx(t)' => \A r \in Wakes : Owns(t, r)' =>
            Wants(t, r)' \/ \E v \in Wakes : /\ Holds(t, v)' /\ Live(draft'[t][v])
                                             /\ r \in draft'[t][v].refs
    BY <2>1, <1>3, <1>4, <1>5 DEF Letters, PostSound
  <2>4. \A r \in Wakes : Wants(t, r)' =>
            /\ Owns(t, r)'
            /\ \A v \in Wakes : Live(Seen(t, v))' => r \notin Seen(t, v)'.refs
    BY <1>1, <1>3, <1>5 DEF Letters, PostSound
  <2> QED BY <2>2, <2>3, <2>4 DEF Letters, PostSound
<1>10. SentSound'
  <2>1. \A t \in Posters : pc'[t] = "over" <=> pc[t] = "over"
    BY DEF InTx, Sessions
  <2>2. \A t \in Posters : t # Runtime /\ t \in Sessions
    BY DEF Sessions
  <2> QED BY <2>1, <2>2 DEF Letters, SentSound, Asks, Sessions, InTx
<1>11. TableSound'
  BY DEF Letters, TableSound
<1> QED BY <1>7, <1>8, <1>9, <1>10, <1>11 DEF Letters

\* The end of a transaction that leaves no trace.
LEMMA RollsBackLetters ==
    ASSUME IInv, Letters, NEW s \in Sessions, Released(s), UNCHANGED <<table, cycle, posted>>,
           s \in Posters => s \notin posted
    PROVE  Letters'
<1>1. /\ \A w \in Wakes : draft'[s][w] = NoRow
      /\ \A t \in Sessions \ {s} : draft'[t] = draft[t] /\ pc'[t] = pc[t] /\ todo'[t] = todo[t]
      /\ todo'[s] = <<>> /\ pc'[s] = Ended(s)
  BY DEF Released, IInv, WellFormed
<1>2. \A t \in Sessions, w \in Wakes :
          /\ Holds(t, w)' <=> t # s /\ Holds(t, w)
          /\ Seen(t, w)' = IF t = s THEN table[w] ELSE Seen(t, w)
  BY <1>1 DEF Holds, Seen
<1>3. \A t \in Sessions \ {s}, r \in Wakes : Owns(t, r)' <=> Owns(t, r)
  BY <1>1, <1>2 DEF Owns, Asks
<1>4. ~InTx(s)' /\ \A t \in Sessions \ {s} : InTx(t)' <=> InTx(t)
  BY <1>1 DEF InTx, Ended
<1>5. ASSUME NEW t \in Sessions, NEW r \in Wakes
      PROVE  Wants(t, r)' <=> t # s /\ Wants(t, r)
  BY <1>1 DEF Wants
<1>6. DraftsSound'
  <2> SUFFICES ASSUME NEW t \in Sessions, NEW w \in Wakes, Holds(t, w)'
               PROVE  DraftSound(t, w)'
    BY DEF DraftsSound
  <2>1. t # s /\ draft'[t][w] = draft[t][w] /\ DraftSound(t, w)
    BY <1>1, <1>2 DEF Letters, DraftsSound
  <2>2. \A r \in draft[t][w].refs : r \in Wakes
    BY <2>1, <1>2 DEF Holds, IInv, WellFormed, Rows
  <2> QED BY <2>1, <2>2, <1>3, <1>4 DEF DraftSound
<1>7. OneHome'
  BY <1>2 DEF Letters, OneHome, Live
<1>8. PostSound'
  <2> SUFFICES ASSUME NEW t \in Sessions
               PROVE  /\ pc'[t] \notin {"insert", "read", "take"} => todo'[t] = <<>>
                      /\ \A i, j \in DOMAIN todo'[t] :
                            todo'[t][i].refs \cap todo'[t][j].refs # {} => i = j
                      /\ \A r \in Wakes : Wants(t, r)' =>
                            /\ Owns(t, r)'
                            /\ \A v \in Wakes : Live(Seen(t, v))' => r \notin Seen(t, v)'.refs
                      /\ InTx(t)' => \A r \in Wakes : Owns(t, r)' =>
                            Wants(t, r)' \/ \E v \in Wakes : /\ Holds(t, v)' /\ Live(draft'[t][v])
                                                             /\ r \in draft'[t][v].refs
    BY DEF PostSound, Live
  <2>1. CASE t = s
    <3>1. todo'[s] = <<>> /\ DOMAIN todo'[s] = {}
      BY <1>1
    <3> QED BY <2>1, <3>1, <1>4, <1>5
  <2>2. CASE t # s
    <3>1. /\ pc'[t] = pc[t] /\ todo'[t] = todo[t]
          /\ \A v \in Wakes : /\ draft'[t][v] = draft[t][v] /\ Seen(t, v)' = Seen(t, v)
                              /\ Holds(t, v)' <=> Holds(t, v)
      BY <2>2, <1>1, <1>2
    <3> QED BY <3>1, <2>2, <1>3, <1>4, <1>5 DEF Letters, PostSound, Live
  <2> QED BY <2>1, <2>2
<1>9. SentSound'
  <2>1. \A t \in Posters : t # Runtime /\ t \in Sessions
    BY DEF Sessions
  <2> QED BY <2>1, <1>1 DEF Letters, SentSound, Asks, Sessions, Ended
<1>10. TableSound'
  BY DEF Letters, TableSound
<1> QED BY <1>6, <1>7, <1>8, <1>9, <1>10 DEF Letters

LEMMA IdleHoldsNothing ==
    ASSUME Letters, NEW s \in Sessions, ~InTx(s), NEW w \in Wakes
    PROVE  ~Holds(s, w)
BY DEF Letters, DraftsSound, DraftSound

\* A transaction begins: what it is there to post is in no row it will see as
\* live, and all of it is still to post.
LEMMA BeginsLetters ==
    ASSUME IInv, Letters, NEW s \in Sessions, pc[s] = "idle",
           UNCHANGED <<table, cycle, posted>>,
           \A t \in Sessions \ {s} : draft'[t] = draft[t] /\ pc'[t] = pc[t] /\ todo'[t] = todo[t],
           pc'[s] = After(s, todo'[s]),
           \A i, j \in DOMAIN todo'[s] : todo'[s][i].refs \cap todo'[s][j].refs # {} => i = j,
           \A w \in Wakes :
              \/ draft'[s][w] = NoRow
              \/ /\ s = Runtime /\ cycle = {}
                 /\ table[w] # NoRow /\ table[w].status = "claimed"
                 /\ draft'[s][w].status = "superseded"
                 /\ draft'[s][w].key = table[w].key /\ draft'[s][w].refs = table[w].refs,
           \A r \in Wakes : Wants(s, r)' <=> Owns(s, r)',
           \A r, w \in Wakes : Owns(s, r)' /\ Live(table[w]) /\ r \in table[w].refs
                               => draft'[s][w] # NoRow
    PROVE  Letters'
<1>1. \A w \in Wakes : ~Holds(s, w)
  BY IdleHoldsNothing DEF InTx
<1>2. \A t \in Sessions \ {s}, w \in Wakes :
          /\ Holds(t, w)' <=> Holds(t, w)
          /\ Seen(t, w)' = Seen(t, w)
  BY DEF Holds, Seen
<1>3. \A w \in Wakes :
          /\ Live(Seen(s, w))' => /\ draft'[s][w] = NoRow
                                  /\ Seen(s, w)' = table[w] /\ Live(table[w])
          /\ Seen(s, w) = table[w]
  BY <1>1 DEF Seen, Holds, Live
<1>4. \A t \in Sessions \ {s}, r \in Wakes : Owns(t, r)' <=> Owns(t, r)
  <2>1. s # Runtime => /\ draft'[Runtime] = draft[Runtime]
                       /\ \A w \in Wakes : Holds(Runtime, w)' <=> Holds(Runtime, w)
    BY <1>2 DEF Sessions
  <2> QED BY <2>1 DEF Owns, Asks
<1>5. InTx(s)' /\ \A t \in Sessions \ {s} : InTx(t)' <=> InTx(t)
  BY DEF InTx, After
<1>6. \A t \in Sessions \ {s}, r \in Wakes : Wants(t, r)' <=> Wants(t, r)
  BY DEF Wants
<1>7. DraftsSound'
  <2> SUFFICES ASSUME NEW t \in Sessions, NEW w \in Wakes, Holds(t, w)'
               PROVE  DraftSound(t, w)'
    BY DEF DraftsSound
  <2>1. CASE t # s
    <3>1. DraftSound(t, w) /\ draft'[t][w] = draft[t][w]
      BY <2>1, <1>2 DEF Letters, DraftsSound
    <3>2. \A r \in draft[t][w].refs : r \in Wakes
      BY <2>1, <1>2 DEF Holds, IInv, WellFormed, Rows
    <3> QED BY <2>1, <3>1, <3>2, <1>4, <1>5 DEF DraftSound
  <2>2. CASE t = s
    BY <2>2, <1>5 DEF DraftSound, Holds
  <2> QED BY <2>1, <2>2
<1>8. OneHome'
  <2> SUFFICES ASSUME NEW v \in Wakes, NEW w \in Wakes, NEW r \in Wakes
               PROVE  /\ /\ Live(table[v]) /\ r \in table[v].refs
                         /\ Live(table[w]) /\ r \in table[w].refs
                         => v = w
                      /\ \A t \in Sessions :
                          /\ Live(Seen(t, v))' /\ r \in Seen(t, v)'.refs
                          /\ Live(Seen(t, w))' /\ r \in Seen(t, w)'.refs
                          => v = w
    BY DEF OneHome, Live
  <2>1. /\ Live(table[v]) /\ r \in table[v].refs
        /\ Live(table[w]) /\ r \in table[w].refs
        => v = w
    BY DEF Letters, OneHome
  <2>2. ASSUME NEW t \in Sessions \ {s},
               Live(Seen(t, v))', r \in Seen(t, v)'.refs, Live(Seen(t, w))', r \in Seen(t, w)'.refs
        PROVE  v = w
    BY <2>2, <1>2 DEF Letters, OneHome, Live
  <2>3. ASSUME Live(Seen(s, v))', r \in Seen(s, v)'.refs, Live(Seen(s, w))', r \in Seen(s, w)'.refs
        PROVE  v = w
    BY <2>1, <2>3, <1>3
  <2> QED BY <2>1, <2>2, <2>3
<1>9. PostSound'
  <2> SUFFICES ASSUME NEW t \in Sessions
               PROVE  /\ pc'[t] \notin {"insert", "read", "take"} => todo'[t] = <<>>
                      /\ \A i, j \in DOMAIN todo'[t] :
                            todo'[t][i].refs \cap todo'[t][j].refs # {} => i = j
                      /\ \A r \in Wakes : Wants(t, r)' =>
                            /\ Owns(t, r)'
                            /\ \A v \in Wakes : Live(Seen(t, v))' => r \notin Seen(t, v)'.refs
                      /\ InTx(t)' => \A r \in Wakes : Owns(t, r)' =>
                            Wants(t, r)' \/ \E v \in Wakes : /\ Holds(t, v)' /\ Live(draft'[t][v])
                                                             /\ r \in draft'[t][v].refs
    BY DEF PostSound, Live
  <2>1. CASE t = s
    <3>1. pc'[s] \notin {"insert", "read", "take"} => todo'[s] = <<>>
      BY DEF After
    <3>2. \A r, v \in Wakes : Wants(s, r)' /\ Live(Seen(s, v))' => r \notin Seen(s, v)'.refs
      BY <1>3
    <3> QED BY <2>1, <3>1, <3>2
  <2>2. CASE t # s
    <3>1. /\ pc'[t] = pc[t] /\ todo'[t] = todo[t]
          /\ \A v \in Wakes : /\ draft'[t][v] = draft[t][v] /\ Seen(t, v)' = Seen(t, v)
                              /\ Holds(t, v)' <=> Holds(t, v)
      BY <2>2, <1>2
    <3> QED BY <3>1, <2>2, <1>4, <1>5, <1>6 DEF Letters, PostSound, Live
  <2> QED BY <2>1, <2>2
<1>10. SentSound'
  <2>1. \A t \in Posters : t # Runtime /\ t \in Sessions
    BY DEF Sessions
  <2>2. /\ pc'[s] # "over"
        /\ pc'[s] \in {"look", "first", "batch"} => s = Runtime /\ cycle = {}
        /\ s \in Posters => s \notin posted
    BY DEF After, Letters, SentSound
  <2> QED BY <2>1, <2>2 DEF Letters, SentSound, Asks, Sessions
<1>11. TableSound'
  BY DEF Letters, TableSound
<1> QED BY <1>7, <1>8, <1>9, <1>10, <1>11 DEF Letters

LEMMA BeginPostLetters ==
    ASSUME IInv, Letters, NEW s \in Sessions, BeginPost(s) PROVE Letters'
<1>1. /\ s # Runtime /\ pc[s] = "idle" /\ s \notin posted
      /\ todo'[s] = Batch[s] /\ pc'[s] = After(s, todo'[s])
      /\ \A t \in Sessions \ {s} : pc'[t] = pc[t] /\ todo'[t] = todo[t]
  BY DEF BeginPost, Begins, IInv, WellFormed, Letters, SentSound
<1>2. \A w \in Wakes : draft'[s][w] = NoRow
  BY <1>1, IdleHoldsNothing DEF InTx, BeginPost, Holds
<1>3. \A r \in Wakes : (Wants(s, r)' <=> Asks(s, r)) /\ (Owns(s, r)' <=> Asks(s, r))
  BY <1>1 DEF Wants, Owns, Asks
<1>4. \A r, w \in Wakes : Asks(s, r) /\ Live(table[w]) => r \notin table[w].refs
  BY <1>1 DEF Letters, SentSound, Live
<1>5. \A i, j \in DOMAIN todo'[s] : todo'[s][i].refs \cap todo'[s][j].refs # {} => i = j
  BY <1>1, RequestsDiffer
<1> QED BY <1>1, <1>2, <1>3, <1>4, <1>5, BeginsLetters DEF BeginPost

LEMMA BeginApplyLetters ==
    ASSUME IInv, Letters, BeginApply PROVE Letters'
<1> DEFINE asked == IF Runtime \in posted THEN <<>> ELSE Batch[Runtime]
<1>0. Runtime \in Sessions
  BY DEF Sessions
<1>1. /\ pc[Runtime] = "idle" /\ cycle # {}
      /\ todo'[Runtime] = asked /\ pc'[Runtime] = After(Runtime, todo'[Runtime])
      /\ \A t \in Sessions \ {Runtime} : pc'[t] = pc[t] /\ todo'[t] = todo[t]
  BY <1>0 DEF BeginApply, Begins, IInv, WellFormed
<1>2. \A w \in Wakes : draft'[Runtime][w] = NoRow
  BY <1>0, <1>1, IdleHoldsNothing DEF InTx, BeginApply, Holds
<1>3. \A r \in Wakes : /\ Wants(Runtime, r)' <=> Runtime \notin posted /\ Asks(Runtime, r)
                       /\ Owns(Runtime, r)' <=> Runtime \notin posted /\ Asks(Runtime, r)
  BY <1>1 DEF Wants, Owns, Asks, BeginApply
<1>4. Runtime \notin posted =>
          \A r, w \in Wakes : Asks(Runtime, r) /\ Live(table[w]) => r \notin table[w].refs
  BY <1>0 DEF Letters, SentSound, Live
<1>5. \A i, j \in DOMAIN todo'[Runtime] :
          todo'[Runtime][i].refs \cap todo'[Runtime][j].refs # {} => i = j
  BY <1>0, <1>1, RequestsDiffer
<1> QED BY <1>0, <1>1, <1>2, <1>3, <1>4, <1>5, BeginsLetters DEF BeginApply

\* What is requeued is listed once, and all of it.
LEMMA OrderIsFull ==
    ASSUME NEW F, IsFiniteSet(F), NEW order \in [1 .. Cardinality(F) -> F],
           \A i, j \in DOMAIN order : i < j => order[i] # order[j]
    PROVE  /\ \A w \in F : \E i \in DOMAIN order : order[i] = w
           /\ \A i, j \in DOMAIN order : order[i] = order[j] => i = j
<1> DEFINE I == 1 .. Cardinality(F)
<1>1. Cardinality(F) \in Nat
  BY FS_CardinalityType
<1>2. IsFiniteSet(I) /\ Cardinality(I) = Cardinality(F)
  BY <1>1, FS_Interval
<1>3. \A i, j \in I : order[i] = order[j] => i = j
  <2> SUFFICES ASSUME NEW i \in I, NEW j \in I, order[i] = order[j] PROVE i = j
    OBVIOUS
  <2>1. i \in Int /\ j \in Int /\ ~(i < j) /\ ~(j < i)
    BY <1>1
  <2> QED BY <2>1
<1>4. order \in Injection(I, F)
  BY <1>3 DEF Injection, IsInjective
<1>5. order \in Surjection(I, F)
  BY <1>2, <1>4, FS_Injection
<1> QED BY <1>3, <1>5 DEF Surjection

LEMMA BeginClaimLetters ==
    ASSUME IInv, Letters, BeginClaim PROVE Letters'
<1>0. Runtime \in Sessions /\ cycle = {}
  BY DEF Sessions, BeginClaim
<1>1. PICK F \in Earliest(Runtime, {w \in Wakes : Orphan(w)}, MaxWakes) :
          /\ draft' = [draft EXCEPT ![Runtime] =
                 [w \in Wakes |-> IF w \in F THEN [table[w] EXCEPT !.status = "superseded"]
                                  ELSE NoRow]]
          /\ \E order \in [1 .. Cardinality(F) -> F] :
                /\ \A i, j \in DOMAIN order :
                      i < j => order[i] # order[j] /\ table[order[i]].due <= table[order[j]].due
                /\ Begins(Runtime, [i \in DOMAIN order |-> Renewal[order[i]]])
  BY DEF BeginClaim
<1>2. PICK order \in [1 .. Cardinality(F) -> F] :
          /\ \A i, j \in DOMAIN order : i < j => order[i] # order[j]
          /\ Begins(Runtime, [i \in DOMAIN order |-> Renewal[order[i]]])
  BY <1>1
<1> DEFINE asked == [i \in DOMAIN order |-> Renewal[order[i]]]
<1>3. F \subseteq Wakes /\ \A w \in F : Orphan(w)
  BY <1>1 DEF Earliest
<1>4. \A w \in F : /\ w \in Legacy /\ table[w] # NoRow /\ table[w].status = "claimed"
                   /\ table[w].refs = Renewal[w].refs /\ table[w] \in Rows
  BY <1>0, <1>3 DEF Orphan, Letters, TableSound, IInv, WellFormed
<1>5. IsFiniteSet(F)
  BY <1>3, FiniteWakes, FS_Subset
<1>6. /\ \A w \in F : \E i \in DOMAIN order : order[i] = w
      /\ \A i, j \in DOMAIN order : order[i] = order[j] => i = j
  BY <1>2, <1>5, OrderIsFull
<1>7. /\ pc[Runtime] = "idle"
      /\ todo'[Runtime] = asked /\ pc'[Runtime] = After(Runtime, todo'[Runtime])
      /\ \A t \in Sessions \ {Runtime} : pc'[t] = pc[t] /\ todo'[t] = todo[t]
  BY <1>0, <1>2 DEF Begins, IInv, WellFormed
<1>8. /\ \A t \in Sessions \ {Runtime} : draft'[t] = draft[t]
      /\ \A w \in Wakes : draft'[Runtime][w] =
             IF w \in F THEN [table[w] EXCEPT !.status = "superseded"] ELSE NoRow
  BY <1>0, <1>1 DEF IInv, WellFormed
<1>9. \A w \in F : /\ draft'[Runtime][w] \in Rows
                   /\ draft'[Runtime][w].status = "superseded"
                   /\ draft'[Runtime][w].key = table[w].key
                   /\ draft'[Runtime][w].refs = table[w].refs
  <2> SUFFICES ASSUME NEW w \in F
               PROVE  /\ draft'[Runtime][w] \in Rows
                      /\ draft'[Runtime][w].status = "superseded"
                      /\ draft'[Runtime][w].key = table[w].key
                      /\ draft'[Runtime][w].refs = table[w].refs
    OBVIOUS
  <2>1. draft'[Runtime][w] = [table[w] EXCEPT !.status = "superseded"] /\ table[w] \in Rows
    BY <1>3, <1>4, <1>8
  <2> QED BY <2>1 DEF Rows
<1>10. \A r \in Wakes : Owns(Runtime, r)' <=> \E w \in F : r \in Renewal[w].refs
  <2> SUFFICES ASSUME NEW r \in Wakes PROVE Owns(Runtime, r)' <=> \E w \in F : r \in Renewal[w].refs
    OBVIOUS
  <2>1. Owns(Runtime, r)' <=> \E w \in Wakes : /\ draft'[Runtime][w] # NoRow
                                               /\ draft'[Runtime][w].status = "superseded"
                                               /\ r \in draft'[Runtime][w].refs
    BY <1>0 DEF Owns, BeginClaim, Holds
  <2>2. \A w \in Wakes : draft'[Runtime][w] # NoRow <=> w \in F
    <3>1. \A w \in F : draft'[Runtime][w] # NoRow
      BY <1>9
    <3>2. \A w \in Wakes \ F : draft'[Runtime][w] = NoRow
      BY <1>8
    <3> QED BY <3>1, <3>2
  <2> QED BY <2>1, <2>2, <1>3, <1>4, <1>9
<1>11. \A r \in Wakes : Wants(Runtime, r)' <=> \E w \in F : r \in Renewal[w].refs
  <2>1. \A r : Wants(Runtime, r)' <=> \E i \in DOMAIN order : r \in Renewal[order[i]].refs
    BY <1>7 DEF Wants
  <2> QED BY <2>1, <1>6, <1>2
<1>12. \A i, j \in DOMAIN todo'[Runtime] :
          todo'[Runtime][i].refs \cap todo'[Runtime][j].refs # {} => i = j
  <2> SUFFICES ASSUME NEW i \in DOMAIN order, NEW j \in DOMAIN order,
                      Renewal[order[i]].refs \cap Renewal[order[j]].refs # {}
               PROVE  i = j
    BY <1>7
  <2>1. order[i] \in Legacy /\ order[j] \in Legacy
    BY <1>4, <1>2
  <2> QED BY <2>1, <1>6, RequestsDiffer
<1>13. \A r, w \in Wakes : Owns(Runtime, r)' /\ Live(table[w]) /\ r \in table[w].refs
                           => draft'[Runtime][w] # NoRow
  <2> SUFFICES ASSUME NEW r \in Wakes, NEW w \in Wakes, Owns(Runtime, r)', Live(table[w]),
                      r \in table[w].refs
               PROVE  draft'[Runtime][w] # NoRow
    OBVIOUS
  <2>1. PICK v \in F : r \in Renewal[v].refs
    BY <1>10
  <2>2. v \in Wakes /\ Live(table[v]) /\ r \in table[v].refs
    BY <2>1, <1>3, <1>4 DEF Live
  <2>3. v = w
    BY <2>2 DEF Letters, OneHome
  <2> QED BY <2>3, <1>9
<1>14. \A w \in Wakes :
          \/ draft'[Runtime][w] = NoRow
          \/ /\ table[w] # NoRow /\ table[w].status = "claimed"
             /\ draft'[Runtime][w].status = "superseded"
             /\ draft'[Runtime][w].key = table[w].key /\ draft'[Runtime][w].refs = table[w].refs
  BY <1>4, <1>8, <1>9
<1>15. UNCHANGED <<table, cycle, posted>>
  BY DEF BeginClaim
<1> HIDE DEF asked
<1> QED BY <1>0, <1>7, <1>8, <1>10, <1>11, <1>12, <1>13, <1>14, <1>15, BeginsLetters

\* What a transaction holds when it ends, and what its commit makes of a row.
LEMMA CommitRows ==
    ASSUME IInv, Letters, NEW s \in Sessions, Commit(s), NEW w \in Wakes
    PROVE  /\ Live(table'[w]) <=> Live(Seen(s, w))
           /\ Live(table'[w]) => /\ table'[w].refs = Seen(s, w).refs
                                 /\ table'[w].key = Seen(s, w).key
           /\ ~Holds(s, w) => /\ table'[w] = NoRow <=> table[w] = NoRow
                              /\ Live(table'[w]) <=> Live(table[w])
                              /\ table[w] # NoRow => table'[w].refs = table[w].refs
                              /\ ~(s = Runtime /\ w \in cycle) => table'[w] = table[w]
           /\ Holds(s, w) => table'[w] = draft[s][w] /\ w \notin cycle
           /\ s = Runtime /\ w \in cycle => table'[w] = [table[w] EXCEPT !.status = "consumed"]
<1> DEFINE consumed == IF s = Runtime THEN cycle ELSE {}
<1>1. table'[w] = IF w \in consumed THEN [table[w] EXCEPT !.status = "consumed"] ELSE Seen(s, w)
  BY DEF Commit
<1>2. ASSUME w \in cycle PROVE table[w] \in Rows /\ table[w].status = "claimed" /\ ~Holds(s, w)
  <2>1. table[w] \in Rows /\ table[w].status = "claimed"
    BY <1>2 DEF IInv, WellFormed, Letters, TableSound
  <2>2. ASSUME Holds(s, w) PROVE FALSE
    <3>1. DraftSound(s, w)
      BY <2>2 DEF Letters, DraftsSound
    <3>2. cycle # {} /\ table[w] # NoRow
      BY <1>2, <2>1
    <3>3. draft[s][w].status = "pending"
      BY <3>1, <3>2 DEF DraftSound
    <3> QED BY <3>1, <3>2, <3>3, <2>1 DEF DraftSound
  <2> QED BY <2>1, <2>2
<1>3. CASE w \in consumed
  <2>1. w \in cycle /\ s = Runtime
    BY <1>3
  <2>2. table'[w] = [table[w] EXCEPT !.status = "consumed"]
    BY <1>1, <1>3
  <2>3. table'[w].status = "consumed" /\ table'[w].refs = table[w].refs
        /\ table'[w].key = table[w].key /\ table'[w] \in Rows
    BY <2>1, <2>2, <1>2 DEF Rows
  <2> QED BY <2>1, <2>2, <2>3, <1>2 DEF Live, Seen
<1>4. CASE w \notin consumed
  BY <1>1, <1>2, <1>4 DEF Seen, Holds
<1> QED BY <1>3, <1>4

LEMMA CommitLetters ==
    ASSUME IInv, Letters, NEW s \in Sessions, Commit(s) PROVE Letters'
<1>1. /\ \A w \in Wakes : draft'[s][w] = NoRow
      /\ \A t \in Sessions \ {s} : draft'[t] = draft[t] /\ pc'[t] = pc[t] /\ todo'[t] = todo[t]
      /\ todo'[s] = <<>> /\ pc'[s] = Ended(s) /\ pc[s] = "end" /\ InTx(s)
  BY DEF Commit, Released, IInv, WellFormed, InTx
<1>2. \A t \in Sessions, w \in Wakes :
          /\ Holds(t, w)' <=> t # s /\ Holds(t, w)
          /\ Seen(t, w)' = IF t # s /\ Holds(t, w) THEN draft[t][w] ELSE table'[w]
          /\ t # s /\ Holds(t, w) => ~Holds(s, w)
  <2>1. \A t \in Sessions, w \in Wakes : Holds(t, w)' <=> t # s /\ Holds(t, w)
    BY <1>1 DEF Holds
  <2> QED BY <2>1, <1>1 DEF Seen, IInv, OneRowPerKey, Free
<1>3. /\ s # Runtime => cycle' = cycle
      /\ s = Runtime => cycle' = IF cycle = {} THEN Claimed ELSE {}
      /\ posted' = IF s = Runtime /\ cycle = {} THEN posted ELSE posted \cup {s}
  BY DEF Commit
<1>4. \A t \in Sessions \ {s}, r \in Wakes : Owns(t, r)' <=> Owns(t, r)
  <2>1. s # Runtime => /\ draft'[Runtime] = draft[Runtime]
                       /\ Runtime \in posted' <=> Runtime \in posted
                       /\ \A w \in Wakes : Holds(Runtime, w)' <=> Holds(Runtime, w)
    BY <1>1, <1>2, <1>3 DEF Sessions
  <2> QED BY <2>1, <1>3 DEF Owns, Asks
<1>5. \A t \in Sessions : InTx(t)' <=> t # s /\ InTx(t)
  BY <1>1 DEF InTx, Ended
<1>6. \A t \in Sessions, r \in Wakes : Wants(t, r)' <=> t # s /\ Wants(t, r)
  BY <1>1 DEF Wants
<1>7. ASSUME NEW t \in Sessions, NEW w \in Wakes, t # s, Holds(t, w)
      PROVE  /\ DraftSound(t, w) /\ table'[w] = table[w]
             /\ table[w] # NoRow /\ draft[t][w].status # "superseded" => table[w].status = "pending"
  <2>1. DraftSound(t, w) /\ ~Holds(s, w)
    BY <1>2, <1>7 DEF Letters, DraftsSound
  <2>2. ~(s = Runtime /\ w \in cycle)
    BY <2>1, <1>7 DEF DraftSound, Letters, TableSound, IInv, WellFormed
  <2> QED BY <2>1, <2>2, CommitRows DEF DraftSound
<1>8. DraftsSound'
  <2> SUFFICES ASSUME NEW t \in Sessions, NEW w \in Wakes, Holds(t, w)'
               PROVE  DraftSound(t, w)'
    BY DEF DraftsSound
  <2>1. /\ t # s /\ Holds(t, w) /\ draft'[t][w] = draft[t][w]
        /\ DraftSound(t, w) /\ table'[w] = table[w]
    BY <1>1, <1>2, <1>7
  <2>2. \A r \in draft[t][w].refs : r \in Wakes
    BY <2>1 DEF Holds, IInv, WellFormed, Rows
  <2>3. t = Runtime /\ cycle = {} => cycle' = {}
    BY <2>1, <1>3
  <2> QED BY <2>1, <2>2, <2>3, <1>4, <1>5 DEF DraftSound
<1>9. TableSound'
  <2>1. ASSUME NEW w \in Legacy
        PROVE  /\ table'[w] # NoRow /\ table'[w].status \in {"claimed", "superseded"}
               /\ table'[w].refs = Renewal[w].refs
    <3>1. /\ w \in Wakes /\ table[w] # NoRow /\ table[w].status \in {"claimed", "superseded"}
          /\ table[w].refs = Renewal[w].refs /\ w \notin cycle
      BY DEF Letters, TableSound
    <3>2. CASE Holds(s, w)
      <4>1. DraftSound(s, w) /\ table'[w] = draft[s][w]
        BY <3>1, <3>2, CommitRows DEF Letters, DraftsSound
      <4> QED BY <3>1, <3>2, <4>1 DEF DraftSound, Holds
    <3>3. CASE ~Holds(s, w)
      BY <3>1, <3>3, CommitRows
    <3> QED BY <3>2, <3>3
  <2>2. ASSUME NEW w \in Wakes, table'[w] # NoRow, table'[w].status = "claimed"
        PROVE  w \in Legacy \cup cycle'
    <3>1. CASE Holds(s, w)
      <4>1. DraftSound(s, w) /\ table'[w] = draft[s][w]
        BY <3>1, CommitRows DEF Letters, DraftsSound
      <4>2. s = Runtime /\ cycle = {}
        BY <4>1, <2>2 DEF DraftSound
      <4> QED BY <3>1, <4>1, <4>2, <2>2, <1>3 DEF Claimed
    <3>2. CASE ~Holds(s, w) /\ ~(s = Runtime /\ w \in cycle)
      <4>1. w \in Legacy \cup cycle
        BY <3>2, <2>2, CommitRows DEF Letters, TableSound
      <4> QED BY <3>2, <4>1, <1>3
    <3>3. CASE s = Runtime /\ w \in cycle
      <4>1. table[w] \in Rows /\ table'[w] = [table[w] EXCEPT !.status = "consumed"]
        BY <3>3, CommitRows DEF IInv, WellFormed
      <4>2. table'[w].status = "consumed"
        BY <4>1 DEF Rows
      <4> QED BY <4>2, <2>2
    <3> QED BY <3>1, <3>2, <3>3
  <2>3. ASSUME NEW w \in cycle' PROVE w \notin Legacy /\ table'[w].status = "claimed"
    <3>1. CASE s # Runtime
      <4>1. w \in cycle /\ w \in Wakes /\ w \notin Legacy /\ table[w].status = "claimed"
        BY <3>1, <1>3 DEF Letters, TableSound, IInv, WellFormed
      <4>2. table'[w] = table[w]
        BY <3>1, <4>1, CommitRows
      <4> QED BY <4>1, <4>2
    <3>2. CASE s = Runtime
      <4>1. w \in Wakes /\ Holds(s, w) /\ draft[s][w].status = "claimed"
        BY <3>2, <1>3 DEF Claimed
      <4>2. DraftSound(s, w) /\ table'[w] = draft[s][w]
        BY <4>1, CommitRows DEF Letters, DraftsSound
      <4> QED BY <4>1, <4>2 DEF DraftSound, Letters, TableSound
    <3> QED BY <3>1, <3>2
  <2> QED BY <2>1, <2>2, <2>3 DEF TableSound
\* What one transaction brings is in no row that another one holds.
<1>10. ASSUME NEW t \in Sessions, t # s, NEW r \in Wakes, NEW v \in Wakes, NEW w \in Wakes,
              Holds(t, v), Live(draft[t][v]), r \in draft[t][v].refs,
              ~Holds(t, w), Live(table'[w]), r \in table'[w].refs
       PROVE  FALSE
  <2>1. DraftSound(t, v) /\ table'[v] = table[v] /\ ~Holds(s, v) /\ v # w
    BY <1>10, <1>2, <1>7
  <2>2. Live(Seen(s, w)) /\ r \in Seen(s, w).refs
    BY <1>10, CommitRows
  <2>3. CASE table[v] # NoRow /\ r \in table[v].refs
    <3>1. Live(table[v]) /\ Seen(s, v) = table[v]
      BY <2>1, <2>3, <1>7, <1>10 DEF Live, Seen
    <3> QED BY <2>1, <2>2, <2>3, <3>1 DEF Letters, OneHome
  <2>4. CASE Owns(t, r)
    <3>1. ~Owns(s, r)
      BY <1>10, <2>4, OwnersDiffer
    <3>2. Live(table[w]) /\ r \in table[w].refs
      <4>1. CASE Holds(s, w)
        BY <4>1, <2>2, <3>1 DEF Letters, DraftsSound, DraftSound, Seen, Live
      <4>2. CASE ~Holds(s, w)
        BY <4>2, <2>2 DEF Seen
      <4> QED BY <4>1, <4>2
    <3>3. Seen(t, w) = table[w] /\ Seen(t, v) = draft[t][v]
      BY <1>10 DEF Seen, Holds
    <3> QED BY <2>1, <3>2, <3>3, <1>10 DEF Letters, OneHome
  <2> QED BY <2>1, <2>3, <2>4, <1>10 DEF DraftSound
<1>11. ASSUME NEW v \in Wakes, NEW w \in Wakes, NEW r \in Wakes,
              Live(table'[v]), r \in table'[v].refs, Live(table'[w]), r \in table'[w].refs
       PROVE  v = w
  <2>1. /\ Live(Seen(s, v)) /\ r \in Seen(s, v).refs
        /\ Live(Seen(s, w)) /\ r \in Seen(s, w).refs
    BY <1>11, CommitRows
  <2> QED BY <2>1 DEF Letters, OneHome
<1>12. OneHome'
  <2> SUFFICES ASSUME NEW v \in Wakes, NEW w \in Wakes, NEW r \in Wakes, NEW t \in Sessions,
                      Live(Seen(t, v))', r \in Seen(t, v)'.refs,
                      Live(Seen(t, w))', r \in Seen(t, w)'.refs
               PROVE  v = w
    BY <1>11 DEF OneHome, Live
  <2>1. CASE t # s /\ Holds(t, v) /\ Holds(t, w)
    BY <2>1, <1>2 DEF Letters, OneHome, Live, Seen, Holds
  <2>2. CASE t # s /\ Holds(t, v) /\ ~Holds(t, w)
    BY <2>2, <1>2, <1>10 DEF Live
  <2>3. CASE t # s /\ ~Holds(t, v) /\ Holds(t, w)
    BY <2>3, <1>2, <1>10 DEF Live
  <2>4. CASE t = s \/ (~Holds(t, v) /\ ~Holds(t, w))
    BY <2>4, <1>2, <1>11 DEF Live
  <2> QED BY <2>1, <2>2, <2>3, <2>4
<1>13. PostSound'
  <2> SUFFICES ASSUME NEW t \in Sessions
               PROVE  /\ pc'[t] \notin {"insert", "read", "take"} => todo'[t] = <<>>
                      /\ \A i, j \in DOMAIN todo'[t] :
                            todo'[t][i].refs \cap todo'[t][j].refs # {} => i = j
                      /\ \A r \in Wakes : Wants(t, r)' =>
                            /\ Owns(t, r)'
                            /\ \A v \in Wakes : Live(Seen(t, v))' => r \notin Seen(t, v)'.refs
                      /\ InTx(t)' => \A r \in Wakes : Owns(t, r)' =>
                            Wants(t, r)' \/ \E v \in Wakes : /\ Holds(t, v)' /\ Live(draft'[t][v])
                                                             /\ r \in draft'[t][v].refs
    BY DEF PostSound, Live
  <2>1. CASE t = s
    <3>1. todo'[s] = <<>> /\ DOMAIN todo'[s] = {}
      BY <1>1
    <3> QED BY <2>1, <3>1, <1>1, <1>5, <1>6
  <2>2. CASE t # s
    <3>1. ASSUME NEW r \in Wakes, NEW v \in Wakes, Wants(t, r), Live(Seen(t, v))',
                 r \in Seen(t, v)'.refs
          PROVE  FALSE
      <4>1. Owns(t, r) /\ \A w \in Wakes : Live(Seen(t, w)) => r \notin Seen(t, w).refs
        BY <3>1 DEF Letters, PostSound
      <4>2. ~Holds(t, v) /\ Live(table'[v]) /\ r \in table'[v].refs
        BY <2>2, <3>1, <4>1, <1>2 DEF Seen, Live, Holds
      <4>3. ~Owns(s, r)
        BY <2>2, <4>1, OwnersDiffer
      <4>4. Live(Seen(s, v)) /\ r \in Seen(s, v).refs
        BY <4>2, CommitRows
      <4>5. Live(table[v]) /\ r \in table[v].refs
        <5>1. CASE Holds(s, v)
          BY <5>1, <4>3, <4>4 DEF Letters, DraftsSound, DraftSound, Seen, Live
        <5>2. CASE ~Holds(s, v)
          BY <5>2, <4>4 DEF Seen
        <5> QED BY <5>1, <5>2
      <4> QED BY <4>1, <4>2, <4>5 DEF Seen
    <3>2. /\ pc'[t] = pc[t] /\ todo'[t] = todo[t]
          /\ \A v \in Wakes : /\ draft'[t][v] = draft[t][v]
                              /\ Holds(t, v)' <=> Holds(t, v)
      BY <2>2, <1>1, <1>2
    <3> QED BY <2>2, <3>1, <3>2, <1>4, <1>5, <1>6 DEF Letters, PostSound, Live
  <2> QED BY <2>1, <2>2
<1>14. SentSound'
  <2>1. \A t \in Posters : t # Runtime /\ t \in Sessions
    BY DEF Sessions
  <2>2. ASSUME NEW t \in Sessions \ posted', NEW r \in Wakes, NEW w \in Wakes,
               Asks(t, r), table'[w] # NoRow, r \in table'[w].refs
        PROVE  FALSE
    <3>1. t \notin posted /\ (t = s => s = Runtime /\ cycle = {})
      BY <2>2, <1>3
    <3>2. ~(table[w] # NoRow /\ r \in table[w].refs)
      BY <3>1, <2>2 DEF Letters, SentSound
    <3>3. Holds(s, w)
      BY <3>2, <2>2, CommitRows
    <3>4. DraftSound(s, w) /\ r \in draft[s][w].refs
      BY <3>3, <2>2, CommitRows DEF Letters, DraftsSound
    <3>5. Owns(s, r)
      BY <3>2, <3>4 DEF DraftSound
    <3> QED BY <3>1, <3>5, <2>2, OwnersDiffer
  <2>3. /\ posted' \subseteq Sessions
        /\ \A t \in Posters \cap posted' : pc'[t] = "over"
    BY <2>1, <1>1, <1>3 DEF Letters, SentSound, Ended
  <2>4. /\ pc'[Runtime] \in {"look", "first", "batch"} => cycle' = {}
        /\ \A t \in Posters : pc'[t] \notin {"look", "first", "batch"}
    BY <2>1, <1>1, <1>3 DEF Letters, SentSound, Ended, Sessions
  <2> QED BY <2>2, <2>3, <2>4 DEF SentSound, Asks
<1> QED BY <1>8, <1>9, <1>12, <1>13, <1>14 DEF Letters

-----------------------------------------------------------------------------
(* What a row asks for is what its requests ask for.                       *)

LEMMA AskedApart ==
    ASSUME NEW p \in Asked, NEW q \in Asked
    PROVE  /\ p \in Requests /\ p.refs # {}
           /\ p.refs \cap q.refs # {} => p = q
<1>1. ASSUME NEW x \in Asked
      PROVE  \/ \E s \in Sessions : \E i \in DOMAIN Batch[s] : x = Batch[s][i]
             \/ \E w \in Legacy : x = Renewal[w]
  <2>1. CASE x \in UNION {{Batch[s][i] : i \in DOMAIN Batch[s]} : s \in Sessions}
    <3>1. PICK B \in {{Batch[s][i] : i \in DOMAIN Batch[s]} : s \in Sessions} : x \in B
      BY <2>1
    <3>2. PICK s \in Sessions : B = {Batch[s][i] : i \in DOMAIN Batch[s]}
      BY <3>1
    <3> QED BY <3>1, <3>2
  <2>2. CASE x \in {Renewal[w] : w \in Legacy}
    BY <2>2
  <2> QED BY <2>1, <2>2 DEF Asked
<1>2. \A s \in Sessions : \A i \in DOMAIN Batch[s] : Batch[s][i] \in Requests
  OBVIOUS
<1>3. (p \in Requests /\ p.refs # {}) /\ (p.refs \cap q.refs # {} => p = q)
  <2>1. CASE \E s \in Sessions : \E i \in DOMAIN Batch[s] : p = Batch[s][i]
    <3>1. PICK s \in Sessions : \E i \in DOMAIN Batch[s] : p = Batch[s][i]
      BY <2>1
    <3>2. PICK i \in DOMAIN Batch[s] : p = Batch[s][i]
      BY <3>1
    <3>3. p \in Requests /\ p.refs # {}
      BY <1>2, <3>2, RequestsDiffer
    <3>4. CASE \E t \in Sessions : \E j \in DOMAIN Batch[t] : q = Batch[t][j]
      BY <3>2, <3>3, <3>4, RequestsDiffer
    <3>5. CASE \E w \in Legacy : q = Renewal[w]
      BY <3>2, <3>3, <3>5, RequestsDiffer
    <3> QED BY <1>1, <3>3, <3>4, <3>5
  <2>2. CASE \E w \in Legacy : p = Renewal[w]
    BY <1>1, <1>2, <2>2, RequestsDiffer
  <2> QED BY <1>1, <2>1, <2>2
<1> QED BY <1>3

LEMMA NewSound == ASSUME NEW q \in Asked PROVE Sound(NewRow(q))
<1>1. q \in Requests
  BY AskedApart
<1>2. \A p \in Asked : p.refs \subseteq q.refs => p = q
  BY AskedApart
<1>3. q.due <= q.due
  BY <1>1 DEF Requests
<1> QED BY <1>2, <1>3 DEF Sound, Carried, NewRow

LEMMA MergedSound ==
    ASSUME NEW row \in Rows, Sound(row), NEW q \in Asked, q.key = row.key
    PROVE  Sound(MergedRow(row, q))
<1> DEFINE m == MergedRow(row, q)
<1>1. q \in Requests /\ row # NoRow
  BY AskedApart
<1>2. /\ m.key = row.key /\ m.refs = row.refs \cup q.refs
      /\ m.due = IF q.due < row.due THEN q.due ELSE row.due
      /\ m.due \in Nat /\ q.due \in Nat /\ row.due \in Nat
  BY <1>1 DEF MergedRow, Rows, Requests
<1>3. \A p \in Asked : p.refs \subseteq m.refs <=> p = q \/ p.refs \subseteq row.refs
  BY <1>2, AskedApart
<1>4. ASSUME NEW p \in Asked, p.refs \subseteq m.refs PROVE p.key = m.key /\ m.due <= p.due
  <2>1. CASE p = q
    BY <2>1, <1>2
  <2>2. CASE p.refs \subseteq row.refs
    <3>1. p.key = row.key /\ row.due <= p.due /\ p.due \in Nat
      BY <2>2, <1>1, AskedApart DEF Sound, Carried, Requests
    <3> QED BY <3>1, <1>2
  <2> QED BY <2>1, <2>2, <1>3, <1>4
<1>5. \E p \in Asked : p.refs \subseteq m.refs /\ p.due = m.due
  <2>1. CASE q.due < row.due
    BY <2>1, <1>2, <1>3
  <2>2. CASE ~(q.due < row.due)
    <3>1. PICK p \in Asked : p.refs \subseteq row.refs /\ p.due = row.due
      BY <1>1 DEF Sound, Carried
    <3> QED BY <3>1, <2>2, <1>2, <1>3
  <2> QED BY <2>1, <2>2
<1> QED BY <1>4, <1>5 DEF Sound, Carried

LEMMA SameSound ==
    ASSUME NEW row, NEW old, Sound(old), old # NoRow, row.key = old.key, row.due = old.due,
           row.refs = old.refs
    PROVE  Sound(row)
BY DEF Sound, Carried

LEMMA RowsKept ==
    ASSUME IInv, RowsSound, NEW s \in Sessions, UNCHANGED table,
           \A t \in Sessions \ {s} : /\ draft'[t] = draft[t] /\ pc'[t] = pc[t]
                                     /\ todo'[t] = todo[t] /\ seen'[t] = seen[t],
           \A w \in Wakes : Sound(draft'[s][w]),
           \A i \in DOMAIN todo'[s] : todo'[s][i] \in Asked,
           pc'[s] = "take" => /\ Seen(s, seen[s])' # NoRow
                              /\ Seen(s, seen[s])'.key = Head(todo'[s]).key
    PROVE  RowsSound'
<1>1. ASSUME NEW w \in Wakes PROVE Sound(table[w])'
  <2>1. Sound(table[w]) /\ table'[w] = table[w]
    BY DEF RowsSound
  <2> QED BY <2>1 DEF Sound, Carried, Asked
<1>2. ASSUME NEW t \in Sessions, NEW w \in Wakes PROVE Sound(draft[t][w])'
  <2>1. Sound(draft'[t][w])
    BY DEF RowsSound
  <2> QED BY <2>1 DEF Sound, Carried, Asked
<1>3. \A t \in Sessions : \A i \in DOMAIN todo'[t] : todo'[t][i] \in Asked'
  BY DEF RowsSound, Asked
<1>4. \A t \in Sessions : pc'[t] = "take" => /\ Seen(t, seen[t])' # NoRow
                                             /\ Seen(t, seen[t])'.key = Head(todo'[t]).key
  BY DEF RowsSound, Seen, Holds
<1> QED BY <1>1, <1>2, <1>3, <1>4 DEF RowsSound

\* A request is placed in a row that stays what its requests ask for.
LEMMA PlacesRows ==
    ASSUME IInv, RowsSound, NEW s \in Sessions, NEW w \in Wakes, NEW row,
           Posting(s), Place(s, w, row), UNCHANGED <<table, seen>>,
           Sound(row)
    PROVE  RowsSound'
<1>1. \A t \in Sessions \ {s} : /\ draft'[t] = draft[t] /\ pc'[t] = pc[t]
                                /\ todo'[t] = todo[t] /\ seen'[t] = seen[t]
  BY DEF Place, IInv, WellFormed
<1>2. ASSUME NEW v \in Wakes PROVE Sound(draft'[s][v])
  <2>1. draft'[s][v] = IF v = w THEN row ELSE draft[s][v]
    BY DEF Place, IInv, WellFormed
  <2> QED BY <2>1 DEF RowsSound
<1>3. ASSUME NEW i \in DOMAIN todo'[s] PROVE todo'[s][i] \in Asked
  <2>1. todo[s] \in Seq(Requests) /\ todo[s] # <<>> /\ todo'[s] = Tail(todo[s])
    BY DEF Place, Posting, IInv, WellFormed
  <2>2. i + 1 \in DOMAIN todo[s] /\ todo'[s][i] = todo[s][i + 1]
    BY <2>1, TailOf
  <2> QED BY <2>2 DEF RowsSound
<1>4. pc'[s] # "take"
  BY DEF Place, After, IInv, WellFormed
<1> QED BY <1>1, <1>2, <1>3, <1>4, RowsKept

LEMMA HeadAsked ==
    ASSUME IInv, RowsSound, NEW s \in Sessions, Posting(s)
    PROVE  Head(todo[s]) \in Asked
<1>1. todo[s] \in Seq(Requests) /\ todo[s] # <<>>
  BY DEF IInv, WellFormed
<1>2. 1 \in DOMAIN todo[s] /\ Head(todo[s]) = todo[s][1]
  BY <1>1, TailOf
<1> QED BY <1>2 DEF RowsSound

LEMMA SeenSound ==
    ASSUME RowsSound, NEW s \in Sessions, NEW w \in Wakes
    PROVE  Sound(Seen(s, w))
BY DEF RowsSound, Seen

LEMMA InsertRows ==
    ASSUME IInv, RowsSound, NEW s \in Sessions, Insert(s) PROVE RowsSound'
<1> DEFINE q == Head(todo[s])
<1>1. Posting(s) /\ UNCHANGED <<table, seen>>
  BY DEF Insert, Posting
<1>2. CASE Place(s, q.id, NewRow(q))
  <2>1. q \in Asked /\ q.id \in Wakes
    BY <1>1, HeadAsked, Requested DEF Requests
  <2> QED BY <1>1, <1>2, <2>1, NewSound, PlacesRows
<1>3. CASE pc' = [pc EXCEPT ![s] = "read"] /\ UNCHANGED <<draft, todo>>
  <2>1. pc'[s] = "read" /\ \A t \in Sessions \ {s} : pc'[t] = pc[t]
    BY <1>3 DEF IInv, WellFormed
  <2>2. /\ \A w \in Wakes : Sound(draft'[s][w])
        /\ \A i \in DOMAIN todo'[s] : todo'[s][i] \in Asked
    BY <1>1, <1>3 DEF RowsSound
  <2> QED BY <1>1, <1>3, <2>1, <2>2, RowsKept
<1> QED BY <1>2, <1>3 DEF Insert

LEMMA ReadRows ==
    ASSUME IInv, RowsSound, NEW s \in Sessions, Read(s) PROVE RowsSound'
<1>1. UNCHANGED <<table, draft, todo>> /\ Posting(s)
  BY DEF Read, Posting
<1>2. CASE \E w \in Wakes : /\ In(Seen(s, w), Head(todo[s]).key)
                           /\ seen' = [seen EXCEPT ![s] = w]
                           /\ pc' = [pc EXCEPT ![s] = "take"]
  <2>1. PICK w \in Wakes : /\ In(Seen(s, w), Head(todo[s]).key)
                           /\ seen' = [seen EXCEPT ![s] = w]
                           /\ pc' = [pc EXCEPT ![s] = "take"]
    BY <1>2
  <2>2. seen'[s] = w /\ \A t \in Sessions \ {s} : pc'[t] = pc[t] /\ seen'[t] = seen[t]
    BY <2>1 DEF IInv, WellFormed
  <2>3. Seen(s, seen[s])' = Seen(s, w)
    BY <1>1, <2>2 DEF Seen, Holds
  <2>4. Seen(s, seen[s])' # NoRow /\ Seen(s, seen[s])'.key = Head(todo'[s]).key
    BY <1>1, <2>1, <2>3 DEF In, Pending
  <2> QED BY <1>1, <2>2, <2>4, RowsKept DEF RowsSound
<1>3. CASE pc' = [pc EXCEPT ![s] = "insert"] /\ UNCHANGED seen
  <2>1. pc'[s] = "insert" /\ \A t \in Sessions \ {s} : pc'[t] = pc[t]
    BY <1>3 DEF IInv, WellFormed
  <2>2. /\ \A w \in Wakes : Sound(draft'[s][w])
        /\ \A i \in DOMAIN todo'[s] : todo'[s][i] \in Asked
    BY <1>1, <1>3 DEF RowsSound
  <2> QED BY <1>1, <1>3, <2>1, <2>2, RowsKept
<1> QED BY <1>2, <1>3 DEF Read

LEMMA TakeRows ==
    ASSUME IInv, RowsSound, NEW s \in Sessions, Take(s) PROVE RowsSound'
<1> DEFINE w == seen[s]
           row == MergedRow(Seen(s, w), Head(todo[s]))
<1>1. Posting(s) /\ w \in Wakes /\ UNCHANGED <<table, seen>> /\ pc[s] = "take"
  BY DEF Take, Posting, IInv, WellFormed
<1>2. CASE Pending(Seen(s, w)) /\ Place(s, w, row)
  <2>1. Seen(s, w) \in Rows /\ Sound(Seen(s, w))
    BY <1>1, <1>2, RowTypes, SeenSound DEF Pending
  <2>2. Head(todo[s]) \in Asked /\ Head(todo[s]).key = Seen(s, w).key
    BY <1>1, HeadAsked DEF RowsSound
  <2>3. Sound(row)
    BY <2>1, <2>2, MergedSound
  <2> QED BY <1>1, <1>2, <2>3, PlacesRows
<1>3. CASE pc' = [pc EXCEPT ![s] = "insert"] /\ UNCHANGED <<draft, todo>>
  <2>1. pc'[s] = "insert" /\ \A t \in Sessions \ {s} : pc'[t] = pc[t]
    BY <1>3 DEF IInv, WellFormed
  <2>2. /\ \A x \in Wakes : Sound(draft'[s][x])
        /\ \A i \in DOMAIN todo'[s] : todo'[s][i] \in Asked
    BY <1>1, <1>3 DEF RowsSound
  <2> QED BY <1>1, <1>3, <2>1, <2>2, RowsKept
<1> QED BY <1>2, <1>3 DEF Take

LEMMA BatchAsked ==
    ASSUME NEW s \in Sessions, NEW i \in DOMAIN Batch[s]
    PROVE  Batch[s][i] \in Asked
<1>1. Batch[s][i] \in {Batch[s][j] : j \in DOMAIN Batch[s]}
  OBVIOUS
<1>2. {Batch[s][j] : j \in DOMAIN Batch[s]} \in {{Batch[t][j] : j \in DOMAIN Batch[t]} : t \in Sessions}
  OBVIOUS
<1> QED BY <1>1, <1>2 DEF Asked

LEMMA BeginPostRows ==
    ASSUME IInv, RowsSound, NEW s \in Sessions, BeginPost(s) PROVE RowsSound'
<1>1. /\ todo'[s] = Batch[s] /\ pc'[s] # "take"
      /\ \A t \in Sessions \ {s} : pc'[t] = pc[t] /\ todo'[t] = todo[t]
  BY DEF BeginPost, Begins, After, IInv, WellFormed
<1> QED BY <1>1, BatchAsked, RowsKept DEF BeginPost, RowsSound

LEMMA BeginApplyRows ==
    ASSUME IInv, RowsSound, BeginApply PROVE RowsSound'
<1>0. Runtime \in Sessions
  BY DEF Sessions
<1>1. /\ todo'[Runtime] = <<>> \/ todo'[Runtime] = Batch[Runtime]
      /\ pc'[Runtime] # "take"
      /\ \A t \in Sessions \ {Runtime} : pc'[t] = pc[t] /\ todo'[t] = todo[t]
  BY <1>0 DEF BeginApply, Begins, After, IInv, WellFormed
<1>2. \A i \in DOMAIN todo'[Runtime] : todo'[Runtime][i] \in Asked
  <2>1. DOMAIN <<>> = {}
    OBVIOUS
  <2> QED BY <1>0, <1>1, <2>1, BatchAsked
<1> QED BY <1>0, <1>1, <1>2, RowsKept DEF BeginApply, RowsSound

LEMMA BeginClaimRows ==
    ASSUME IInv, RowsSound, Letters, BeginClaim PROVE RowsSound'
<1>0. Runtime \in Sessions /\ cycle = {} /\ UNCHANGED <<table, seen>>
  BY DEF Sessions, BeginClaim
<1>1. PICK F \in Earliest(Runtime, {w \in Wakes : Orphan(w)}, MaxWakes) :
          /\ draft' = [draft EXCEPT ![Runtime] =
                 [w \in Wakes |-> IF w \in F THEN [table[w] EXCEPT !.status = "superseded"]
                                  ELSE NoRow]]
          /\ \E order \in [1 .. Cardinality(F) -> F] :
                /\ \A i, j \in DOMAIN order :
                      i < j => order[i] # order[j] /\ table[order[i]].due <= table[order[j]].due
                /\ Begins(Runtime, [i \in DOMAIN order |-> Renewal[order[i]]])
  BY DEF BeginClaim
<1>2. PICK order \in [1 .. Cardinality(F) -> F] :
          Begins(Runtime, [i \in DOMAIN order |-> Renewal[order[i]]])
  BY <1>1
<1>3. \A w \in F : w \in Wakes /\ table[w] \in Rows /\ w \in Legacy
  BY <1>0, <1>1 DEF Earliest, Orphan, Letters, TableSound, IInv, WellFormed
<1>4. /\ todo'[Runtime] = [i \in DOMAIN order |-> Renewal[order[i]]]
      /\ pc'[Runtime] # "take"
      /\ \A t \in Sessions \ {Runtime} : pc'[t] = pc[t] /\ todo'[t] = todo[t] /\ draft'[t] = draft[t]
  BY <1>0, <1>1, <1>2 DEF Begins, After, IInv, WellFormed
<1>5. \A i \in DOMAIN todo'[Runtime] : todo'[Runtime][i] \in Asked
  <2> SUFFICES ASSUME NEW i \in DOMAIN order PROVE Renewal[order[i]] \in Asked
    BY <1>4
  <2>1. order[i] \in Legacy
    BY <1>3
  <2> QED BY <2>1 DEF Asked
<1>6. ASSUME NEW w \in Wakes PROVE Sound(draft'[Runtime][w])
  <2>1. draft'[Runtime][w] = IF w \in F THEN [table[w] EXCEPT !.status = "superseded"] ELSE NoRow
    BY <1>0, <1>1 DEF IInv, WellFormed
  <2>2. CASE w \in F
    <3>1. table[w] \in Rows /\ table[w] # NoRow /\ Sound(table[w])
      BY <2>2, <1>3 DEF RowsSound
    <3>2. /\ draft'[Runtime][w].key = table[w].key /\ draft'[Runtime][w].due = table[w].due
          /\ draft'[Runtime][w].refs = table[w].refs
      BY <2>1, <2>2, <3>1 DEF Rows
    <3> QED BY <3>1, <3>2, SameSound
  <2>3. CASE w \notin F
    BY <2>1, <2>3 DEF Sound
  <2> QED BY <2>2, <2>3
<1> QED BY <1>0, <1>4, <1>5, <1>6, RowsKept

LEMMA LookRows ==
    ASSUME IInv, RowsSound, Look PROVE RowsSound'
<1>1. /\ Runtime \in Sessions /\ UNCHANGED <<table, draft, todo>> /\ pc'[Runtime] # "take"
      /\ \A t \in Sessions \ {Runtime} : pc'[t] = pc[t] /\ seen'[t] = seen[t]
  BY DEF Sessions, Look, IInv, WellFormed
<1> QED BY <1>1, RowsKept DEF RowsSound

LEMMA FirstRows ==
    ASSUME IInv, RowsSound, First PROVE RowsSound'
<1>1. /\ Runtime \in Sessions /\ UNCHANGED <<table, todo, seen>> /\ pc'[Runtime] # "take"
      /\ seen[Runtime] \in Wakes
      /\ \A t \in Sessions \ {Runtime} : pc'[t] = pc[t] /\ draft'[t] = draft[t]
  BY DEF Sessions, First, IInv, WellFormed
<1>2. ASSUME NEW w \in Wakes PROVE Sound(draft'[Runtime][w])
  <2>1. draft'[Runtime][w] \in {draft[Runtime][w], Seen(Runtime, w)}
    BY <1>1 DEF First, IInv, WellFormed
  <2> QED BY <2>1, <1>1, SeenSound DEF RowsSound
<1> QED BY <1>1, <1>2, RowsKept DEF RowsSound

LEMMA ClaimBatchRows ==
    ASSUME IInv, RowsSound, ClaimBatch PROVE RowsSound'
<1>0. Runtime \in Sessions
  BY DEF Sessions
<1>1. PICK F \in Earliest(Runtime, {w \in Wakes : Due(w) /\ Free(Runtime, w)}, MaxWakes) :
          draft' = [draft EXCEPT ![Runtime] =
                       [w \in Wakes |-> IF w \in F
                                        THEN [Seen(Runtime, w) EXCEPT !.status = "claimed"]
                                        ELSE draft[Runtime][w]]]
  BY DEF ClaimBatch, IInv, WellFormed
<1>2. /\ UNCHANGED <<table, todo, seen>> /\ pc'[Runtime] # "take"
      /\ \A t \in Sessions \ {Runtime} : pc'[t] = pc[t] /\ draft'[t] = draft[t]
  BY <1>0, <1>1 DEF ClaimBatch, IInv, WellFormed
<1>3. ASSUME NEW w \in Wakes PROVE Sound(draft'[Runtime][w])
  <2>1. draft'[Runtime][w] = IF w \in F THEN [Seen(Runtime, w) EXCEPT !.status = "claimed"]
                                        ELSE draft[Runtime][w]
    BY <1>0, <1>1 DEF IInv, WellFormed
  <2>2. CASE w \in F
    <3>1. Seen(Runtime, w) \in Rows /\ Seen(Runtime, w) # NoRow
      BY <1>0, <1>1, <2>2, RowTypes DEF Earliest, Due, Pending
    <3>2. /\ draft'[Runtime][w].key = Seen(Runtime, w).key
          /\ draft'[Runtime][w].due = Seen(Runtime, w).due
          /\ draft'[Runtime][w].refs = Seen(Runtime, w).refs
      BY <2>1, <2>2, <3>1 DEF Rows
    <3> QED BY <1>0, <3>1, <3>2, SameSound, SeenSound
  <2>3. CASE w \notin F
    BY <1>0, <2>1, <2>3 DEF RowsSound
  <2> QED BY <2>2, <2>3
<1> QED BY <1>0, <1>2, <1>3, RowsKept DEF RowsSound

LEMMA RollbackRows ==
    ASSUME IInv, RowsSound, NEW s \in Sessions, Released(s), UNCHANGED table
    PROVE  RowsSound'
<1>1. /\ \A w \in Wakes : draft'[s][w] = NoRow
      /\ todo'[s] = <<>> /\ DOMAIN todo'[s] = {} /\ pc'[s] # "take"
      /\ \A t \in Sessions \ {s} : /\ draft'[t] = draft[t] /\ pc'[t] = pc[t]
                                   /\ todo'[t] = todo[t] /\ seen'[t] = seen[t]
  BY DEF Released, Ended, IInv, WellFormed
<1>2. \A w \in Wakes : Sound(draft'[s][w])
  BY <1>1 DEF Sound
<1> QED BY <1>1, <1>2, RowsKept

LEMMA CommitRowsSound ==
    ASSUME IInv, RowsSound, Letters, NEW s \in Sessions, Commit(s) PROVE RowsSound'
<1>1. /\ \A w \in Wakes : draft'[s][w] = NoRow
      /\ todo'[s] = <<>> /\ DOMAIN todo'[s] = {} /\ pc'[s] # "take"
      /\ \A t \in Sessions \ {s} : /\ draft'[t] = draft[t] /\ pc'[t] = pc[t]
                                   /\ todo'[t] = todo[t] /\ seen'[t] = seen[t]
  BY DEF Commit, Released, Ended, IInv, WellFormed
<1>2. ASSUME NEW w \in Wakes
      PROVE  /\ Sound(table'[w])
             /\ table[w] # NoRow => table'[w] # NoRow /\ table'[w].key = table[w].key
  <2>1. CASE s = Runtime /\ w \in cycle
    <3>1. /\ table'[w] = [table[w] EXCEPT !.status = "consumed"] /\ table[w] \in Rows
          /\ Sound(table[w])
      BY <2>1, CommitRows DEF IInv, WellFormed, RowsSound
    <3>2. /\ table'[w].key = table[w].key /\ table'[w].due = table[w].due
          /\ table'[w].refs = table[w].refs /\ table'[w] \in Rows
      BY <3>1 DEF Rows
    <3> QED BY <3>1, <3>2, SameSound
  <2>2. CASE Holds(s, w)
    <3>1. table'[w] = draft[s][w] /\ DraftSound(s, w) /\ draft[s][w] # NoRow
      BY <2>2, CommitRows DEF Letters, DraftsSound, Holds
    <3> QED BY <3>1 DEF RowsSound, DraftSound
  <2>3. CASE ~Holds(s, w) /\ ~(s = Runtime /\ w \in cycle)
    BY <2>3, CommitRows DEF RowsSound
  <2> QED BY <2>1, <2>2, <2>3
<1>3. ASSUME NEW w \in Wakes PROVE Sound(table[w])'
  <2>1. Sound(table'[w])
    BY <1>2
  <2> QED BY <2>1 DEF Sound, Carried, Asked
<1>4. ASSUME NEW t \in Sessions, NEW w \in Wakes PROVE Sound(draft[t][w])'
  <2>1. Sound(draft'[t][w])
    <3>1. CASE t = s
      BY <3>1, <1>1 DEF Sound
    <3>2. CASE t # s
      BY <3>2, <1>1 DEF RowsSound
    <3> QED BY <3>1, <3>2
  <2> QED BY <2>1 DEF Sound, Carried, Asked
<1>5. \A t \in Sessions : \A i \in DOMAIN todo'[t] : todo'[t][i] \in Asked'
  BY <1>1 DEF RowsSound, Asked
<1>6. ASSUME NEW t \in Sessions, pc'[t] = "take"
      PROVE  /\ Seen(t, seen[t])' # NoRow
             /\ Seen(t, seen[t])'.key = Head(todo'[t]).key
  <2>1. t # s /\ pc[t] = "take" /\ seen[t] \in Wakes /\ seen'[t] = seen[t] /\ todo'[t] = todo[t]
    BY <1>1, <1>6 DEF IInv, WellFormed
  <2>2. Seen(t, seen[t]) # NoRow /\ Seen(t, seen[t]).key = Head(todo[t]).key
    BY <2>1 DEF RowsSound
  <2>3. CASE Holds(t, seen[t])
    BY <2>1, <2>2, <2>3, <1>1 DEF Seen, Holds
  <2>4. CASE ~Holds(t, seen[t])
    BY <2>1, <2>2, <2>4, <1>1, <1>2 DEF Seen, Holds
  <2> QED BY <2>3, <2>4
<1> QED BY <1>3, <1>4, <1>5, <1>6 DEF RowsSound

-----------------------------------------------------------------------------
(* Where the requests are, action by action.                               *)

\* A statement that changes no row and ends within the transaction.
LEMMA ReadsLetters ==
    ASSUME IInv, Letters, NEW s \in Sessions,
           UNCHANGED <<table, draft, cycle, posted, todo>>,
           \A t \in Sessions \ {s} : pc'[t] = pc[t],
           InTx(s), InTx(s)',
           pc'[s] \in {"insert", "read", "take"} \/ todo[s] = <<>>,
           pc'[s] \in {"look", "first", "batch"} => s = Runtime /\ cycle = {}
    PROVE  Letters'
BY StatementsLetters

LEMMA InsertLetters ==
    ASSUME IInv, Letters, NEW s \in Sessions, Insert(s) PROVE Letters'
<1> DEFINE q == Head(todo[s])
<1>1. /\ Posting(s) /\ q \in Requests /\ UNCHANGED <<table, cycle, posted, seen>>
      /\ pc[s] = "insert"
  BY Requested DEF Insert, Posting
<1>2. CASE Seen(s, q.id) = NoRow /\ Place(s, q.id, NewRow(q))
  <2>1. NewRow(q) \in Rows /\ q.id \in Wakes
    BY <1>1 DEF NewRow, Requests, Rows
  <2>2. NewRow(q).status = "pending" /\ NewRow(q).refs = q.refs
    BY DEF NewRow
  <2> QED BY <1>1, <1>2, <2>1, <2>2, PlacesLetters
<1>3. CASE pc' = [pc EXCEPT ![s] = "read"] /\ UNCHANGED <<draft, todo>>
  <2>1. pc'[s] = "read" /\ \A t \in Sessions \ {s} : pc'[t] = pc[t]
    BY <1>3 DEF IInv, WellFormed
  <2>2. InTx(s) /\ InTx(s)'
    BY <1>1, <2>1 DEF InTx
  <2> QED BY <1>1, <1>3, <2>1, <2>2, ReadsLetters
<1> QED BY <1>2, <1>3 DEF Insert

LEMMA ReadLetters ==
    ASSUME IInv, Letters, NEW s \in Sessions, Read(s) PROVE Letters'
<1>1. /\ UNCHANGED <<table, draft, cycle, posted, todo>> /\ pc[s] = "read"
      /\ pc'[s] \in {"take", "insert"}
      /\ \A t \in Sessions \ {s} : pc'[t] = pc[t]
  BY DEF Read, IInv, WellFormed
<1>2. InTx(s) /\ InTx(s)'
  BY <1>1 DEF InTx
<1> QED BY <1>1, <1>2, ReadsLetters

LEMMA TakeLetters ==
    ASSUME IInv, Letters, NEW s \in Sessions, Take(s) PROVE Letters'
<1> DEFINE w == seen[s]
           row == MergedRow(Seen(s, w), Head(todo[s]))
<1>1. /\ Posting(s) /\ w \in Wakes /\ UNCHANGED <<table, cycle, posted, seen>>
      /\ pc[s] = "take" /\ Head(todo[s]) \in Requests
  BY Requested DEF Take, Posting, IInv, WellFormed
<1>2. CASE Pending(Seen(s, w)) /\ Place(s, w, row)
  <2>1. Seen(s, w) \in Rows
    BY <1>1, <1>2, RowTypes DEF Pending
  <2>2. /\ row \in Rows /\ row.status = "pending" /\ row.key = Seen(s, w).key
        /\ row.refs = Seen(s, w).refs \cup Head(todo[s]).refs
    BY <1>1, <1>2, <2>1 DEF MergedRow, Rows, Requests, Pending
  <2> HIDE DEF row
  <2> QED BY <1>1, <1>2, <2>2, PlacesLetters
<1>3. CASE pc' = [pc EXCEPT ![s] = "insert"] /\ UNCHANGED <<draft, todo>>
  <2>1. pc'[s] = "insert" /\ \A t \in Sessions \ {s} : pc'[t] = pc[t]
    BY <1>3 DEF IInv, WellFormed
  <2>2. InTx(s) /\ InTx(s)'
    BY <1>1, <2>1 DEF InTx
  <2> QED BY <1>1, <1>3, <2>1, <2>2, ReadsLetters
<1> QED BY <1>2, <1>3 DEF Take

LEMMA LookLetters ==
    ASSUME IInv, Letters, Look PROVE Letters'
<1>1. /\ Runtime \in Sessions /\ UNCHANGED <<table, draft, cycle, posted, todo>>
      /\ pc[Runtime] = "look" /\ pc'[Runtime] \in {"first", "end"}
      /\ \A t \in Sessions \ {Runtime} : pc'[t] = pc[t]
  BY DEF Sessions, Look, IInv, WellFormed
<1>2. InTx(Runtime) /\ InTx(Runtime)'
  BY <1>1 DEF InTx
<1>3. todo[Runtime] = <<>> /\ cycle = {}
  BY <1>1 DEF Letters, PostSound, SentSound
<1> QED BY <1>1, <1>2, <1>3, ReadsLetters

LEMMA FirstLetters ==
    ASSUME IInv, Letters, First PROVE Letters'
<1> DEFINE x == seen[Runtime]
<1>1. /\ Runtime \in Sessions /\ UNCHANGED <<table, cycle, posted, todo>>
      /\ pc[Runtime] = "first" /\ pc'[Runtime] \in {"batch", "end"} /\ x \in Wakes
      /\ \A t \in Sessions \ {Runtime} : pc'[t] = pc[t] /\ draft'[t] = draft[t]
  BY DEF Sessions, First, IInv, WellFormed
<1>2. InTx(Runtime) /\ InTx(Runtime)'
  BY <1>1 DEF InTx
<1>3. todo[Runtime] = <<>> /\ cycle = {}
  BY <1>1 DEF Letters, PostSound, SentSound
<1>4. \A w \in Wakes : \/ draft'[Runtime][w] = draft[Runtime][w]
                       \/ draft'[Runtime][w] = Seen(Runtime, w) /\ Pending(Seen(Runtime, w))
  BY <1>1 DEF First, IInv, WellFormed
<1>5. \A w \in Wakes :
          \/ draft'[Runtime][w] = draft[Runtime][w]
          \/ /\ Pending(Seen(Runtime, w)) /\ draft'[Runtime][w] # NoRow
             /\ draft'[Runtime][w].key = Seen(Runtime, w).key
             /\ draft'[Runtime][w].refs = Seen(Runtime, w).refs
             /\ draft'[Runtime][w].status = "pending"
  BY <1>4 DEF Pending
<1> QED BY <1>1, <1>2, <1>3, <1>5, StatementsLetters

LEMMA ClaimBatchLetters ==
    ASSUME IInv, Letters, ClaimBatch PROVE Letters'
<1>1. PICK F \in Earliest(Runtime, {w \in Wakes : Due(w) /\ Free(Runtime, w)}, MaxWakes) :
          draft' = [draft EXCEPT ![Runtime] =
                       [w \in Wakes |-> IF w \in F
                                        THEN [Seen(Runtime, w) EXCEPT !.status = "claimed"]
                                        ELSE draft[Runtime][w]]]
  BY DEF ClaimBatch, IInv, WellFormed
<1>2. /\ Runtime \in Sessions /\ UNCHANGED <<table, cycle, posted, todo>>
      /\ pc[Runtime] = "batch" /\ pc'[Runtime] = "end"
      /\ \A t \in Sessions \ {Runtime} : pc'[t] = pc[t] /\ draft'[t] = draft[t]
  BY <1>1 DEF Sessions, ClaimBatch, IInv, WellFormed
<1>3. InTx(Runtime) /\ InTx(Runtime)' /\ todo[Runtime] = <<>> /\ cycle = {}
  BY <1>2 DEF InTx, Letters, PostSound, SentSound
<1>4. ASSUME NEW w \in Wakes
      PROVE  \/ draft'[Runtime][w] = draft[Runtime][w]
             \/ /\ Pending(Seen(Runtime, w)) /\ draft'[Runtime][w] # NoRow
                /\ draft'[Runtime][w].key = Seen(Runtime, w).key
                /\ draft'[Runtime][w].refs = Seen(Runtime, w).refs
                /\ draft'[Runtime][w].status = "claimed"
  <2>1. draft'[Runtime][w] = IF w \in F THEN [Seen(Runtime, w) EXCEPT !.status = "claimed"]
                                        ELSE draft[Runtime][w]
    BY <1>1, <1>2 DEF IInv, WellFormed
  <2>2. w \in F => Pending(Seen(Runtime, w)) /\ Seen(Runtime, w) \in Rows
    BY <1>1, <1>2, RowTypes DEF Earliest, Due, Pending
  <2> QED BY <2>1, <2>2 DEF Rows
<1> QED BY <1>2, <1>3, <1>4, StatementsLetters

LEMMA RollbackLetters ==
    ASSUME IInv, Letters, NEW s \in Sessions, Released(s), UNCHANGED <<table, cycle, posted>>,
           pc[s] # "over"
    PROVE  Letters'
BY RollsBackLetters DEF Letters, SentSound

-----------------------------------------------------------------------------
(* The batch starts with a wake as early as the one found first.           *)

\* A step of the runtime before it has claimed anything, or after it has ended.
LEMMA NothingClaimed ==
    ASSUME ClaimSound, UNCHANGED <<clock>>, now' \in {now, clock},
           \A w \in Wakes : draft'[Runtime][w] # NoRow => draft'[Runtime][w].status # "claimed",
           pc'[Runtime] = "batch" => /\ seen'[Runtime] \in Wakes
                                     /\ Pending(draft'[Runtime][seen'[Runtime]])
    PROVE  ClaimSound'
BY DEF ClaimSound, Claimed, Holds, Pending

LEMMA NotClaimed ==
    ASSUME ClaimSound, pc[Runtime] # "end"
    PROVE  \A w \in Wakes : draft[Runtime][w] # NoRow => draft[Runtime][w].status # "claimed"
BY DEF ClaimSound, Claimed, Holds

\* A step of somebody else.
LEMMA ClaimUntouched ==
    ASSUME ClaimSound, clock' \in Nat, now' = now, draft'[Runtime] = draft[Runtime],
           pc'[Runtime] = pc[Runtime], seen'[Runtime] = seen[Runtime]
    PROVE  ClaimSound'
BY DEF ClaimSound, Claimed, Holds, Pending

LEMMA PostClaims ==
    ASSUME IInv, ClaimSound, NEW s \in Sessions, Post(s) PROVE ClaimSound'
<1>1. pc[s] \in {"insert", "read", "take"} /\ UNCHANGED <<clock, now>>
  BY DEF Post, Insert, Read, Take
<1>2. CASE s # Runtime
  <2>1. /\ draft'[Runtime] = draft[Runtime] /\ pc'[Runtime] = pc[Runtime]
        /\ seen'[Runtime] = seen[Runtime]
    BY <1>2 DEF Post, Insert, Read, Take, Place, IInv, WellFormed, Sessions
  <2> QED BY <1>1, <2>1, ClaimUntouched DEF ClaimSound
<1>3. CASE s = Runtime
  <2>1. pc'[Runtime] # "batch"
    BY <1>3 DEF Post, Insert, Read, Take, Place, After, IInv, WellFormed, Sessions
  <2>2. \A w \in Wakes : \/ draft'[Runtime][w] = draft[Runtime][w]
                         \/ draft'[Runtime][w].status = "pending"
    <3>1. CASE Insert(s)
      BY <1>3, <3>1 DEF Insert, Place, NewRow, IInv, WellFormed, Sessions
    <3>2. CASE Read(s)
      BY <3>2 DEF Read
    <3>3. CASE Take(s)
      <4>1. seen[s] \in Wakes /\ Seen(s, seen[s]) \in Rows \cup {NoRow}
        BY <3>3, RowTypes DEF Take, IInv, WellFormed
      <4>2. CASE UNCHANGED draft
        BY <4>2
      <4>3. CASE Pending(Seen(s, seen[s])) /\ Place(s, seen[s], MergedRow(Seen(s, seen[s]), Head(todo[s])))
        <5>1. MergedRow(Seen(s, seen[s]), Head(todo[s])).status = "pending"
          BY <4>1, <4>3 DEF MergedRow, Pending, Rows
        <5> QED BY <4>3, <5>1, <1>3 DEF Place, IInv, WellFormed, Sessions
      <4> QED BY <3>3, <4>2, <4>3 DEF Take
    <3> QED BY <3>1, <3>2, <3>3 DEF Post
  <2>3. \A w \in Wakes : draft'[Runtime][w] # NoRow => draft'[Runtime][w].status # "claimed"
    BY <1>1, <1>3, <2>2, NotClaimed
  <2> QED BY <1>1, <2>1, <2>3, NothingClaimed
<1> QED BY <1>2, <1>3

LEMMA BeginClaims ==
    ASSUME IInv, Letters, ClaimSound, (\E s \in Sessions : BeginPost(s)) \/ BeginApply \/ BeginClaim
    PROVE  ClaimSound'
<1>1. CASE \E s \in Sessions : BeginPost(s)
  <2>1. /\ draft'[Runtime] = draft[Runtime] /\ pc'[Runtime] = pc[Runtime]
        /\ seen'[Runtime] = seen[Runtime] /\ UNCHANGED <<clock, now>>
    BY <1>1 DEF BeginPost, Begins, IInv, WellFormed, Sessions
  <2> QED BY <2>1, ClaimUntouched DEF ClaimSound
<1>2. CASE BeginApply
  <2>1. /\ pc[Runtime] = "idle" /\ pc'[Runtime] # "batch"
        /\ UNCHANGED <<draft, clock, now>>
    BY <1>2 DEF BeginApply, Begins, After, IInv, WellFormed, Sessions
  <2> QED BY <2>1, NotClaimed, NothingClaimed
<1>3. CASE BeginClaim
  <2>1. PICK F \in Earliest(Runtime, {w \in Wakes : Orphan(w)}, MaxWakes) :
            /\ draft' = [draft EXCEPT ![Runtime] =
                   [w \in Wakes |-> IF w \in F THEN [table[w] EXCEPT !.status = "superseded"]
                                    ELSE NoRow]]
            /\ \E order \in [1 .. Cardinality(F) -> F] :
                  Begins(Runtime, [i \in DOMAIN order |-> Renewal[order[i]]])
    BY <1>3 DEF BeginClaim
  <2>2. \A w \in F : w \in Wakes /\ table[w] \in Rows
    BY <2>1 DEF Earliest, Orphan, IInv, WellFormed
  <2>3. ASSUME NEW w \in Wakes, draft'[Runtime][w] # NoRow
        PROVE  draft'[Runtime][w].status # "claimed"
    <3>1. draft'[Runtime][w] = [table[w] EXCEPT !.status = "superseded"] /\ table[w] \in Rows
      BY <2>1, <2>2, <2>3 DEF IInv, WellFormed, Sessions
    <3> QED BY <3>1 DEF Rows
  <2>4. UNCHANGED clock /\ now' = clock /\ pc'[Runtime] # "batch"
    BY <1>3, <2>1 DEF BeginClaim, Begins, After, IInv, WellFormed, Sessions
  <2> QED BY <2>3, <2>4, NothingClaimed
<1> QED BY <1>1, <1>2, <1>3

LEMMA LookClaims ==
    ASSUME IInv, ClaimSound, Look \/ First PROVE ClaimSound'
<1>1. pc[Runtime] # "end" /\ UNCHANGED <<clock, now>>
  BY DEF Look, First
<1>2. CASE Look
  <2>1. UNCHANGED draft /\ pc'[Runtime] # "batch"
    BY <1>2 DEF Look, IInv, WellFormed, Sessions
  <2> QED BY <1>1, <2>1, NotClaimed, NothingClaimed
<1>3. CASE First
  <2>1. seen[Runtime] \in Wakes /\ UNCHANGED seen
    BY <1>3 DEF First, IInv, WellFormed, Sessions
  <2>2. CASE /\ Pending(Seen(Runtime, seen[Runtime]))
             /\ draft' = [draft EXCEPT ![Runtime][seen[Runtime]] = Seen(Runtime, seen[Runtime])]
    <3>1. \A w \in Wakes : draft'[Runtime][w] =
              IF w = seen[Runtime] THEN Seen(Runtime, seen[Runtime]) ELSE draft[Runtime][w]
      BY <2>2 DEF IInv, WellFormed, Sessions
    <3> QED BY <1>1, <2>1, <2>2, <3>1, NotClaimed, NothingClaimed DEF Pending
  <2>3. CASE UNCHANGED draft /\ pc' = [pc EXCEPT ![Runtime] = "end"]
    <3>1. pc'[Runtime] = "end"
      BY <2>3 DEF IInv, WellFormed, Sessions
    <3> QED BY <1>1, <2>3, <3>1, NotClaimed, NothingClaimed
  <2> QED BY <1>3, <2>2, <2>3 DEF First
<1> QED BY <1>2, <1>3

LEMMA ClaimBatchClaims ==
    ASSUME IInv, ClaimSound, ClaimBatch PROVE ClaimSound'
<1> DEFINE x == seen[Runtime]
<1>1. PICK F \in Earliest(Runtime, {w \in Wakes : Due(w) /\ Free(Runtime, w)}, MaxWakes) :
          draft' = [draft EXCEPT ![Runtime] =
                       [w \in Wakes |-> IF w \in F
                                        THEN [Seen(Runtime, w) EXCEPT !.status = "claimed"]
                                        ELSE draft[Runtime][w]]]
  BY DEF ClaimBatch, IInv, WellFormed
<1>2. /\ Runtime \in Sessions /\ UNCHANGED <<seen, clock, now>> /\ now \in Nat
      /\ pc[Runtime] = "batch" /\ pc'[Runtime] = "end"
      /\ x \in Wakes /\ Holds(Runtime, x) /\ Pending(Seen(Runtime, x))
  BY <1>1 DEF Sessions, ClaimBatch, IInv, WellFormed, ClaimSound, Pending, Holds, Seen
<1>3. \A w \in Wakes : draft'[Runtime][w] =
          IF w \in F THEN [Seen(Runtime, w) EXCEPT !.status = "claimed"] ELSE draft[Runtime][w]
  BY <1>1, <1>2 DEF IInv, WellFormed
<1>4. \A w \in F : /\ w \in Wakes /\ Seen(Runtime, w) \in Rows
                   /\ Due(w) /\ Seen(Runtime, w).due <= now
  BY <1>1, <1>2, RowTypes DEF Earliest, Due, Pending
<1>5. \A w \in F : /\ draft'[Runtime][w] \in Rows /\ draft'[Runtime][w].status = "claimed"
                   /\ draft'[Runtime][w].due = Seen(Runtime, w).due
  BY <1>3, <1>4 DEF Rows
<1>6. Claimed' = F
  <2>1. \A w \in Wakes : w \in F <=> Holds(Runtime, w)' /\ draft'[Runtime][w].status = "claimed"
    <3>1. \A w \in Wakes : w \notin F /\ draft'[Runtime][w] # NoRow
                           => draft'[Runtime][w].status # "claimed"
      BY <1>2, <1>3, NotClaimed
    <3> QED BY <3>1, <1>5 DEF Holds
  <2> QED BY <2>1, <1>4 DEF Claimed
<1>7. ASSUME F # {}
      PROVE  /\ Holds(Runtime, x)'
             /\ \E w \in F : draft'[Runtime][w].due <= draft'[Runtime][x].due
  <2>1. CASE x \in F
    <3>1. draft'[Runtime][x] \in Rows
      BY <2>1, <1>5
    <3>2. draft'[Runtime][x].due <= draft'[Runtime][x].due /\ draft'[Runtime][x] # NoRow
      BY <3>1 DEF Rows
    <3> QED BY <2>1, <3>2, <1>2 DEF Holds
  <2>2. CASE x \notin F
    <3>1. /\ draft'[Runtime][x] = draft[Runtime][x] /\ Seen(Runtime, x) = draft[Runtime][x]
          /\ draft[Runtime][x] \in Rows
      <4>1. draft'[Runtime][x] = draft[Runtime][x]
        BY <2>2, <1>2, <1>3
      <4> QED BY <4>1, <1>2 DEF Holds, Seen, IInv, WellFormed
    <3>2. PICK v \in F : TRUE
      BY <1>7
    <3>3. Seen(Runtime, v).due \in Nat /\ draft[Runtime][x].due \in Nat
      BY <1>4, <3>1 DEF Rows
    <3>4. CASE Due(x) /\ Free(Runtime, x)
      <4>1. Seen(Runtime, v).due <= Seen(Runtime, x).due
        <5>1. \A u \in F, w \in {y \in Wakes : Due(y) /\ Free(Runtime, y)} \ F :
                  Seen(Runtime, u).due <= Seen(Runtime, w).due
          BY DEF Earliest
        <5> QED BY <5>1, <1>2, <2>2, <3>4
      <4> QED BY <4>1, <3>1, <2>2, <1>5, <1>2 DEF Holds
    <3>5. CASE ~(Due(x) /\ Free(Runtime, x))
      <4>1. Free(Runtime, x)
        BY <1>2, <2>2 DEF IInv, OneRowPerKey
      <4>2. draft[Runtime][x].due > now
        BY <3>1, <3>3, <3>5, <4>1, <1>2 DEF Due
      <4> QED BY <4>2, <3>1, <3>2, <3>3, <2>2, <1>2, <1>4, <1>5 DEF Holds
    <3> QED BY <3>4, <3>5
  <2> QED BY <2>1, <2>2
<1> QED BY <1>2, <1>6, <1>7 DEF ClaimSound

LEMMA EndClaims ==
    ASSUME IInv, ClaimSound, NEW s \in Sessions, Released(s), UNCHANGED <<clock, now>>
    PROVE  ClaimSound'
<1>1. CASE s = Runtime
  <2>1. (\A w \in Wakes : draft'[Runtime][w] = NoRow) /\ pc'[Runtime] # "batch"
    BY <1>1 DEF Released, Ended, IInv, WellFormed
  <2> QED BY <2>1, NothingClaimed
<1>2. CASE s # Runtime
  <2>1. /\ draft'[Runtime] = draft[Runtime] /\ pc'[Runtime] = pc[Runtime]
        /\ seen'[Runtime] = seen[Runtime]
    BY <1>2 DEF Released, IInv, WellFormed, Sessions
  <2> QED BY <2>1, ClaimUntouched DEF ClaimSound
<1> QED BY <1>1, <1>2

-----------------------------------------------------------------------------
(* The inductive invariant.                                                *)

LEMMA InitServes == Init => QueueInv
<1> SUFFICES ASSUME Init PROVE QueueInv
  OBVIOUS
<1>1. IInv
  BY InitEstablishes
<1>2. /\ \A s \in Sessions, w \in Wakes : draft[s][w] = NoRow /\ Seen(s, w) = table[w]
      /\ \A s \in Sessions : /\ todo[s] = <<>> /\ DOMAIN todo[s] = {} /\ pc[s] = "idle"
                             /\ ~InTx(s)
      /\ Runtime \in Sessions
  BY DEF Init, Seen, Holds, InTx, Sessions
<1>3. \A w \in Wakes : IF w \in Legacy
                       THEN /\ table[w] = [key |-> Renewal[w].key, due |-> Renewal[w].due,
                                           refs |-> Renewal[w].refs, status |-> "claimed"]
                            /\ table[w] # NoRow
                       ELSE table[w] = NoRow
  <2>2. ASSUME NEW w \in Legacy
        PROVE  [key |-> Renewal[w].key, due |-> Renewal[w].due,
                refs |-> Renewal[w].refs, status |-> "claimed"] \in Rows
    BY DEF Rows, Requests
  <2> SUFFICES ASSUME NEW w \in Wakes
               PROVE  IF w \in Legacy
                      THEN /\ table[w] = [key |-> Renewal[w].key, due |-> Renewal[w].due,
                                          refs |-> Renewal[w].refs, status |-> "claimed"]
                           /\ table[w] # NoRow
                      ELSE table[w] = NoRow
    OBVIOUS
  <2>3. CASE w \in Legacy
    <3>1. table[w] = [key |-> Renewal[w].key, due |-> Renewal[w].due,
                      refs |-> Renewal[w].refs, status |-> "claimed"]
      BY <2>3 DEF Init
    <3> QED BY <2>2, <2>3, <3>1
  <2>4. CASE w \notin Legacy
    BY <2>4 DEF Init
  <2> QED BY <2>3, <2>4
<1>4. \A w \in Wakes : /\ table[w] # NoRow <=> w \in Legacy
                       /\ w \in Legacy => /\ table[w].key = Renewal[w].key
                                          /\ table[w].due = Renewal[w].due
                                          /\ table[w].refs = Renewal[w].refs
                                          /\ table[w].status = "claimed"
  <2>1. ASSUME NEW w \in Wakes, w \in Legacy
        PROVE  /\ table[w] # NoRow
               /\ table[w].key = Renewal[w].key /\ table[w].due = Renewal[w].due
               /\ table[w].refs = Renewal[w].refs /\ table[w].status = "claimed"
    <3>1. /\ table[w] = [key |-> Renewal[w].key, due |-> Renewal[w].due,
                         refs |-> Renewal[w].refs, status |-> "claimed"]
          /\ table[w] # NoRow
      BY <2>1, <1>3
    <3> QED BY <3>1
  <2>2. \A w \in Wakes \ Legacy : table[w] = NoRow
    BY <1>3
  <2> QED BY <2>1, <2>2
<1>5. RowsSound
  <2>1. ASSUME NEW w \in Wakes PROVE Sound(table[w])
    <3>1. CASE w \in Legacy
      <4>1. Renewal[w] \in Asked
        BY <3>1 DEF Asked
      <4>2. Renewal[w] \in Requests
        BY <3>1
      <4>3. NewRow(Renewal[w]) \in Rows
        BY <4>2 DEF NewRow, Rows, Requests
      <4>4. /\ table[w].key = NewRow(Renewal[w]).key /\ table[w].due = NewRow(Renewal[w]).due
            /\ table[w].refs = NewRow(Renewal[w]).refs
        BY <1>4, <3>1 DEF NewRow
      <4>5. Sound(NewRow(Renewal[w])) /\ NewRow(Renewal[w]) # NoRow
        BY <4>1, <4>3, NewSound
      <4> QED BY <4>4, <4>5, SameSound
    <3>2. CASE w \notin Legacy
      BY <1>4, <3>2 DEF Sound
    <3> QED BY <3>1, <3>2
  <2>2. \A s \in Sessions, w \in Wakes : Sound(draft[s][w])
    BY <1>2 DEF Sound
  <2> QED BY <2>1, <2>2, <1>2 DEF RowsSound
<1>6. TableSound /\ cycle = {}
  <2>1. cycle = {} /\ \A w \in Legacy : w \in Wakes
    BY DEF Init
  <2> QED BY <1>4, <2>1 DEF TableSound
<1>7. DraftsSound
  BY <1>2 DEF DraftsSound, Holds
<1>8. OneHome
  <2>1. \A v, w \in Wakes, r \in Wakes : /\ Live(table[v]) /\ r \in table[v].refs
                                         /\ Live(table[w]) /\ r \in table[w].refs
                                         => v = w
    BY <1>4, RequestsDiffer DEF Live
  <2> QED BY <2>1, <1>2 DEF OneHome
<1>9. PostSound
  BY <1>2 DEF PostSound, Wants
<1>10. SentSound
  <2>1. posted = {} /\ \A s \in Posters : s \in Sessions
    BY DEF Init, Sessions
  <2>2. \A s \in Sessions, r \in Wakes, w \in Wakes :
            Asks(s, r) /\ table[w] # NoRow => r \notin table[w].refs
    BY <1>4, RequestsDiffer DEF Asks
  <2> QED BY <2>1, <2>2, <1>2 DEF SentSound
<1>11. ClaimSound
  BY <1>2 DEF ClaimSound, Claimed, Holds, Init
<1> QED BY <1>1, <1>5, <1>6, <1>7, <1>8, <1>9, <1>10, <1>11 DEF QueueInv, Letters

LEMMA NextServes == QueueInv /\ [Next]_vars => QueueInv'
<1> SUFFICES ASSUME QueueInv, [Next]_vars PROVE QueueInv'
  OBVIOUS
<1>1. IInv /\ RowsSound /\ Letters /\ ClaimSound /\ IInv'
  BY NextKeeps DEF QueueInv
<1>2. ASSUME NEW s \in Sessions, Post(s) PROVE RowsSound' /\ Letters' /\ ClaimSound'
  BY <1>1, <1>2, InsertRows, ReadRows, TakeRows, InsertLetters, ReadLetters, TakeLetters,
     PostClaims DEF Post
<1>3. ASSUME NEW s \in Sessions, BeginPost(s) PROVE RowsSound' /\ Letters' /\ ClaimSound'
  BY <1>1, <1>3, BeginPostRows, BeginPostLetters, BeginClaims
<1>4. ASSUME NEW s \in Sessions, Commit(s) PROVE RowsSound' /\ Letters' /\ ClaimSound'
  <2>1. Released(s) /\ UNCHANGED <<clock, now>>
    BY <1>4 DEF Commit
  <2> QED BY <1>1, <1>4, <2>1, CommitRowsSound, CommitLetters, EndClaims
<1>5. ASSUME NEW s \in Sessions, Fail(s) \/ Abort(s)
      PROVE  RowsSound' /\ Letters' /\ ClaimSound'
  <2>1. Released(s) /\ UNCHANGED <<table, cycle, posted, clock, now>>
    BY <1>5 DEF Fail, Abort
  <2>2. pc[s] # "over"
    <3>1. CASE Fail(s)
      BY <3>1 DEF Fail
    <3>2. CASE Abort(s)
      <4>1. Waits(s) # {}
        BY <3>2 DEF Abort, Deadlocked
      <4> QED BY <4>1 DEF Waits
    <3> QED BY <1>5, <3>1, <3>2
  <2> QED BY <1>1, <2>1, <2>2, RollbackRows, RollbackLetters, EndClaims
<1>6. CASE BeginApply
  BY <1>1, <1>6, BeginApplyRows, BeginApplyLetters, BeginClaims DEF QueueInv
<1>7. CASE Claim
  BY <1>1, <1>7, BeginClaimRows, BeginClaimLetters, BeginClaims, LookRows, LookLetters, LookClaims,
     FirstRows, FirstLetters, ClaimBatchRows, ClaimBatchLetters, ClaimBatchClaims DEF Claim, QueueInv
<1>8. CASE Tick \/ UNCHANGED vars
  <2>1. UNCHANGED <<table, draft, cycle, posted, pc, todo, seen, now>>
    BY <1>8 DEF Tick, vars
  <2>2. clock' \in Nat
    BY <1>1, <1>8 DEF Tick, vars, ClaimSound
  <2>3. RowsSound'
    <3>1. Runtime \in Sessions
      BY DEF Sessions
    <3>2. /\ \A w \in Wakes : Sound(draft'[Runtime][w])
          /\ \A i \in DOMAIN todo'[Runtime] : todo'[Runtime][i] \in Asked
      BY <1>1, <2>1, <3>1 DEF RowsSound
    <3>3. pc'[Runtime] = "take" => /\ Seen(Runtime, seen[Runtime])' # NoRow
                                   /\ Seen(Runtime, seen[Runtime])'.key = Head(todo'[Runtime]).key
      BY <1>1, <2>1, <3>1 DEF RowsSound, Seen, Holds
    <3> QED BY <1>1, <2>1, <3>1, <3>2, <3>3, RowsKept
  <2>4. Letters'
    <3>1. \A t \in Sessions, r \in Wakes : /\ Owns(t, r)' <=> Owns(t, r)
                                           /\ Wants(t, r)' <=> Wants(t, r)
      BY <2>1 DEF Owns, Wants, Asks, Holds
    <3>2. TableSound' /\ OneHome' /\ SentSound'
      BY <1>1, <2>1 DEF Letters, TableSound, OneHome, SentSound, Live, Seen, Holds, Asks
    <3>3. DraftsSound'
      <4> SUFFICES ASSUME NEW t \in Sessions, NEW w \in Wakes, Holds(t, w)'
                   PROVE  DraftSound(t, w)'
        BY DEF DraftsSound
      <4>1. DraftSound(t, w) /\ draft[t][w] \in Rows
        BY <1>1, <2>1 DEF Letters, DraftsSound, Holds, IInv, WellFormed
      <4>2. \A r \in draft[t][w].refs : r \in Wakes
        BY <4>1 DEF Rows
      <4> QED BY <4>1, <4>2, <3>1, <2>1 DEF DraftSound, InTx
    <3>4. PostSound'
      BY <1>1, <2>1, <3>1 DEF Letters, PostSound, InTx, Live, Seen, Holds
    <3> QED BY <3>2, <3>3, <3>4 DEF Letters
  <2>5. ClaimSound'
    BY <1>1, <2>1, <2>2, ClaimUntouched
  <2> QED BY <1>1, <2>3, <2>4, <2>5 DEF QueueInv
<1> QED BY <1>1, <1>2, <1>3, <1>4, <1>5, <1>6, <1>7, <1>8 DEF Next, Step, QueueInv

\* What the wake queue is at any time, whatever the sessions do: beside the
\* index and the locks, every row is what the requests merged into it ask for,
\* a transaction brings only what it is there to post, no request is in two
\* rows, and a claim that has a batch has locked a wake as early as any.
THEOREM QueueServes == Spec => []QueueInv
BY InitServes, NextServes, PTL DEF Spec

\* However requests meet in a row, it is of their key and due when the earliest
\* of them asked to be (the min, the union and the revision of the merge).
THEOREM MergesKeepTheEarliest == Spec => []DueWithEarliest
<1>1. QueueInv => DueWithEarliest
  BY DEF QueueInv, RowsSound, Sound, Carried, DueWithEarliest, Pending
<1> QED BY <1>1, QueueServes, PTL

\* Whatever other sessions hold, a batch starts no later than with the wake the
\* run found earliest (claim_or_resume, SKIP LOCKED).
THEOREM ClaimsNeverOvertake == Spec => ClaimsInOrder
<1>1. QueueInv /\ [Next]_vars =>
          [cycle = {} /\ cycle' # {} =>
              \E w \in cycle' : table'[w].due <= Seen(Runtime, seen[Runtime]).due]_vars
  <2> SUFFICES ASSUME QueueInv, Next, cycle = {}, cycle' # {}
               PROVE  \E w \in cycle' : table'[w].due <= Seen(Runtime, seen[Runtime]).due
    OBVIOUS
  <2>1. Runtime \in Sessions /\ Commit(Runtime)
    <3>1. Runtime \in Sessions
      BY DEF Sessions
    <3>2. PICK s \in Sessions : Commit(s)
      BY DEF Next, Step, BeginPost, Post, Insert, Read, Take, Fail, Abort, BeginApply, Claim,
             BeginClaim, Look, First, ClaimBatch, Tick
    <3>3. s = Runtime
      BY <3>2 DEF Commit
    <3> QED BY <3>1, <3>2, <3>3
  <2>2. cycle' = Claimed
    BY <2>1 DEF Commit
  <2>3. /\ seen[Runtime] \in Wakes /\ Holds(Runtime, seen[Runtime])
        /\ \E w \in Claimed : draft[Runtime][w].due <= draft[Runtime][seen[Runtime]].due
    BY <2>2 DEF QueueInv, ClaimSound
  <2>4. Seen(Runtime, seen[Runtime]) = draft[Runtime][seen[Runtime]]
    BY <2>3 DEF Seen
  <2>5. \A w \in Claimed : table'[w] = draft[Runtime][w]
    BY <2>1, CommitRows DEF QueueInv, Claimed
  <2> QED BY <2>2, <2>3, <2>4, <2>5
<1> QED BY <1>1, QueueServes, PTL DEF Spec, ClaimsInOrder

-----------------------------------------------------------------------------
(* The queue as a post box.                                                *)

LEMMA InRefs ==
    ASSUME NEW W, NEW r
    PROVE  r \in RefsOf(W) <=> \E w \in W : r \in table[w].refs
BY DEF RefsOf

LEMMA InRefsNext ==
    ASSUME NEW W, NEW r
    PROVE  r \in UNION {table'[w].refs : w \in W} <=> \E w \in W : r \in table'[w].refs
OBVIOUS

LEMMA InLetters ==
    ASSUME NEW s \in Sessions, NEW r
    PROVE  r \in LettersOf(s) <=> Asks(s, r)
BY DEF LettersOf, Asks

\* Where the rows a commit leaves behind were and are.
LEMMA CommitPlaces ==
    ASSUME QueueInv, NEW s \in Sessions, Commit(s), NEW w \in Wakes
    PROVE  /\ Holds(s, w) /\ draft[s][w].status = "pending" =>
                  /\ table'[w] = draft[s][w] /\ w \in Waiting'
                  /\ w \notin HandedOut /\ w \notin HandedOut'
                  /\ table[w] # NoRow => w \in Waiting /\ table[w].refs \subseteq draft[s][w].refs
           /\ ~Holds(s, w) /\ ~(s = Runtime /\ w \in cycle) =>
                  /\ table'[w] = table[w]
                  /\ w \in Waiting' <=> w \in Waiting
                  /\ w \in HandedOut' <=> w \in HandedOut
           /\ s = Runtime /\ w \in cycle =>
                  /\ table'[w].refs = table[w].refs
                  /\ w \notin Waiting /\ w \notin Waiting'
                  /\ w \in HandedOut /\ w \in HandedOut'
<1>0. /\ IInv /\ Letters
      /\ s # Runtime => cycle' = cycle
      /\ s = Runtime => cycle' = IF cycle = {} THEN Claimed ELSE {}
  BY DEF QueueInv, Commit
<1>1. ASSUME Holds(s, w), draft[s][w].status = "pending"
      PROVE  /\ table'[w] = draft[s][w] /\ w \in Waiting'
             /\ w \notin HandedOut /\ w \notin HandedOut'
             /\ table[w] # NoRow => w \in Waiting /\ table[w].refs \subseteq draft[s][w].refs
  <2>1. table'[w] = draft[s][w] /\ w \notin cycle /\ DraftSound(s, w) /\ draft[s][w] # NoRow
    BY <1>0, <1>1, CommitRows DEF Letters, DraftsSound, Holds
  <2>2. w \notin cycle'
    BY <1>0, <1>1, <2>1 DEF Claimed
  <2>3. table[w] # NoRow => table[w].status = "pending" /\ table[w].refs \subseteq draft[s][w].refs
    BY <1>1, <2>1 DEF DraftSound
  <2>4. w \in Waiting' /\ w \notin HandedOut'
    BY <1>1, <2>1, <2>2 DEF Waiting, HandedOut, Pending
  <2> QED BY <2>1, <2>3, <2>4 DEF Waiting, HandedOut, Pending
<1>2. ASSUME ~Holds(s, w), ~(s = Runtime /\ w \in cycle)
      PROVE  /\ table'[w] = table[w]
             /\ w \in Waiting' <=> w \in Waiting
             /\ w \in HandedOut' <=> w \in HandedOut
  <2>1. table'[w] = table[w]
    BY <1>0, <1>2, CommitRows
  <2>2. w \in cycle' <=> w \in cycle
    BY <1>0, <1>2 DEF Claimed
  <2> QED BY <2>1, <2>2 DEF Waiting, HandedOut, Pending, Orphan
<1>3. ASSUME s = Runtime, w \in cycle
      PROVE  /\ table'[w].refs = table[w].refs
             /\ w \notin Waiting /\ w \notin Waiting'
             /\ w \in HandedOut /\ w \in HandedOut'
  <2>1. /\ table'[w] = [table[w] EXCEPT !.status = "consumed"] /\ table[w] \in Rows
        /\ table[w].status = "claimed"
    BY <1>0, <1>3, CommitRows DEF IInv, WellFormed, Letters, TableSound
  <2>2. /\ table'[w].refs = table[w].refs /\ table'[w].status = "consumed"
        /\ table'[w] \in Rows /\ table'[w] # NoRow
    BY <2>1 DEF Rows
  <2>3. w \notin Waiting' /\ w \in HandedOut'
    BY <2>2 DEF Waiting, HandedOut, Pending, Orphan
  <2> QED BY <1>3, <2>1, <2>2, <2>3 DEF Waiting, HandedOut, Pending
<1> QED BY <1>1, <1>2, <1>3

\* A transaction has, when it ends, placed all it was there to post.
LEMMA AllPlaced ==
    ASSUME QueueInv, NEW s \in Sessions, pc[s] = "end", NEW r \in Wakes, Owns(s, r)
    PROVE  \E w \in Wakes : Holds(s, w) /\ Live(draft[s][w]) /\ r \in draft[s][w].refs
<1>1. todo[s] = <<>> /\ InTx(s)
  BY DEF QueueInv, Letters, PostSound, InTx
<1>2. ~Wants(s, r)
  BY <1>1 DEF Wants
<1> QED BY <1>1, <1>2 DEF QueueInv, Letters, PostSound

\* A commit that claims nothing posts the batch of its session, or nothing if
\* the cycle has posted it before.
LEMMA PostsWhole ==
    ASSUME QueueInv, NEW s \in Sessions, Commit(s), ~(s = Runtime /\ cycle = {})
    PROVE  [Box!Next]_(Box!bvars)
<1>1. /\ IInv /\ Letters /\ pc[s] = "end" /\ posted' = posted \cup {s}
      /\ s # Runtime => s \notin posted
  <2>1. pc[s] = "end" /\ posted' = posted \cup {s}
    BY DEF Commit
  <2>2. s # Runtime => s \in Posters
    BY DEF Sessions
  <2> QED BY <2>1, <2>2 DEF QueueInv, Letters, SentSound
<1>2. \A w \in Wakes : Holds(s, w) =>
          draft[s][w].status = "pending" /\ DraftSound(s, w) /\ draft[s][w] \in Rows
  BY <1>1 DEF Letters, DraftsSound, DraftSound, Holds, IInv, WellFormed
<1>3. ASSUME NEW r \in Wakes
      PROVE  Owns(s, r) <=> s \notin posted /\ Asks(s, r)
  BY <1>1 DEF Owns
<1>4. ASSUME NEW r
      PROVE  (\E w \in Waiting' : r \in table'[w].refs)
             <=> (\E w \in Waiting : r \in table[w].refs) \/ (s \notin posted /\ Asks(s, r))
  <2>1. ASSUME NEW w \in Waiting', r \in table'[w].refs
        PROVE  (\E v \in Waiting : r \in table[v].refs) \/ (s \notin posted /\ Asks(s, r))
    <3>0. w \in Wakes
      BY DEF Waiting
    <3>1. CASE Holds(s, w)
      <4>1. /\ table'[w] = draft[s][w] /\ r \in draft[s][w].refs /\ r \in Wakes
            /\ table[w] # NoRow => w \in Waiting
        BY <1>2, <2>1, <3>0, <3>1, CommitPlaces DEF Rows
      <4>2. (table[w] # NoRow /\ r \in table[w].refs) \/ Owns(s, r)
        BY <1>2, <3>0, <3>1, <4>1 DEF DraftSound
      <4> QED BY <4>1, <4>2, <1>3
    <3>2. CASE ~Holds(s, w)
      BY <2>1, <3>0, <3>2, CommitPlaces
    <3> QED BY <3>1, <3>2
  <2>2. ASSUME NEW w \in Waiting, r \in table[w].refs
        PROVE  \E v \in Waiting' : r \in table'[v].refs
    <3>0. w \in Wakes /\ table[w] # NoRow
      BY DEF Waiting, Pending, Orphan
    <3>1. CASE Holds(s, w)
      BY <1>2, <2>2, <3>0, <3>1, CommitPlaces
    <3>2. CASE ~Holds(s, w)
      BY <2>2, <3>0, <3>2, CommitPlaces
    <3> QED BY <3>1, <3>2
  <2>3. ASSUME s \notin posted, Asks(s, r)
        PROVE  \E v \in Waiting' : r \in table'[v].refs
    <3>1. r \in Wakes
      <4>1. PICK i \in DOMAIN Batch[s] : r \in Batch[s][i].refs
        BY <2>3 DEF Asks
      <4>2. Batch[s][i] \in Requests
        OBVIOUS
      <4> QED BY <4>1, <4>2 DEF Requests
    <3>2. PICK w \in Wakes : Holds(s, w) /\ Live(draft[s][w]) /\ r \in draft[s][w].refs
      BY <1>1, <1>3, <2>3, <3>1, AllPlaced
    <3> QED BY <1>2, <3>2, CommitPlaces
  <2> QED BY <2>1, <2>2, <2>3
<1>5. ASSUME NEW r
      PROVE  (\E w \in HandedOut' : r \in table'[w].refs) <=> (\E w \in HandedOut : r \in table[w].refs)
  <2>1. \A w \in Wakes : w \in HandedOut' <=> w \in HandedOut
    BY <1>2, CommitPlaces
  <2>2. \A w \in HandedOut : w \in Wakes /\ table'[w].refs = table[w].refs
    BY <1>2, CommitPlaces DEF HandedOut
  <2>3. HandedOut' \subseteq Wakes
    BY DEF HandedOut
  <2> QED BY <2>1, <2>2, <2>3
<1>6. RefsOf(HandedOut)' = RefsOf(HandedOut)
  <2>1. RefsOf(HandedOut)' = UNION {table'[w].refs : w \in HandedOut'}
    BY DEF RefsOf
  <2> QED BY <2>1, <1>5, InRefs, InRefsNext
<1>7. RefsOf(Waiting)' = UNION {table'[w].refs : w \in Waiting'}
  BY DEF RefsOf
<1>8. CASE s \notin posted
  <2>1. RefsOf(Waiting)' = RefsOf(Waiting) \cup LettersOf(s)
    BY <1>4, <1>7, <1>8, InRefs, InRefsNext, InLetters
  <2> QED BY <1>1, <1>6, <1>8, <2>1 DEF Box!Next, Box!Send
<1>9. CASE s \in posted
  <2>1. RefsOf(Waiting)' = RefsOf(Waiting) /\ posted' = posted
    BY <1>1, <1>4, <1>7, <1>9, InRefs, InRefsNext
  <2> QED BY <1>6, <2>1 DEF Box!bvars
<1> QED BY <1>8, <1>9

\* The claiming commit hands out what its batch carries, and that waited.
LEMMA HandsOut ==
    ASSUME QueueInv, Commit(Runtime), cycle = {}
    PROVE  [Box!Next]_(Box!bvars)
<1>1. /\ Runtime \in Sessions /\ IInv /\ Letters /\ pc[Runtime] = "end"
      /\ posted' = posted /\ cycle' = Claimed
  BY DEF QueueInv, Commit, Sessions
<1> DEFINE L == UNION {draft[Runtime][w].refs : w \in Claimed}
<1>2. \A w \in Claimed : /\ w \in Wakes /\ Holds(Runtime, w) /\ table'[w] = draft[Runtime][w]
                         /\ draft[Runtime][w].status = "claimed"
  BY <1>1, CommitRows DEF Claimed
<1>3. \A w \in Wakes : Holds(Runtime, w) => DraftSound(Runtime, w) /\ draft[Runtime][w] \in Rows
  BY <1>1 DEF Letters, DraftsSound, Holds, IInv, WellFormed
<1>4. \A r : r \in L <=> \E w \in Claimed : r \in draft[Runtime][w].refs
  OBVIOUS
\* Everything the transaction holds comes from the box.
<1>5. ASSUME NEW w \in Wakes, Holds(Runtime, w), NEW r \in draft[Runtime][w].refs
      PROVE  \E v \in Waiting : r \in table[v].refs
  <2>1. r \in Wakes /\ DraftSound(Runtime, w)
    BY <1>3, <1>5 DEF Rows
  <2>2. CASE table[w] # NoRow /\ r \in table[w].refs
    <3>1. table[w].status = "pending" \/ table[w].status = "claimed"
      BY <2>1, <2>2 DEF DraftSound
    <3> QED BY <2>2, <3>1 DEF Waiting, Pending, Orphan
  <2>3. CASE Owns(Runtime, r)
    <3>1. PICK v \in Wakes : /\ Holds(Runtime, v) /\ draft[Runtime][v].status = "superseded"
                             /\ r \in draft[Runtime][v].refs
      BY <2>3 DEF Owns
    <3>2. table[v] # NoRow /\ table[v].status = "claimed" /\ r \in table[v].refs
      BY <1>3, <3>1 DEF DraftSound
    <3> QED BY <3>2 DEF Waiting, Orphan
  <2> QED BY <2>1, <2>2, <2>3, <1>5 DEF DraftSound
<1>6. ASSUME NEW r
      PROVE  (\E w \in Waiting' : r \in table'[w].refs)
             <=> (\E w \in Waiting : r \in table[w].refs) /\ r \notin L
  <2>1. ASSUME NEW w \in Waiting', r \in table'[w].refs
        PROVE  (\E v \in Waiting : r \in table[v].refs) /\ r \notin L
    <3>0. w \in Wakes /\ w \notin Claimed /\ Live(table'[w])
      <4>1. w \in Wakes /\ (Pending(table'[w]) \/ (Orphan(w)' /\ w \notin cycle'))
        BY DEF Waiting
      <4>2. table'[w] # NoRow /\ table'[w].status \in {"pending", "claimed"}
        BY <4>1 DEF Pending, Orphan
      <4> QED BY <1>1, <1>2, <4>1, <4>2 DEF Live, Pending
    <3>1. \E v \in Waiting : r \in table[v].refs
      <4>1. CASE Holds(Runtime, w)
        BY <1>1, <1>5, <2>1, <3>0, <4>1, CommitRows
      <4>2. CASE ~Holds(Runtime, w)
        BY <1>1, <2>1, <3>0, <4>2, CommitPlaces
      <4> QED BY <4>1, <4>2
    <3>2. ASSUME r \in L PROVE FALSE
      <4>1. PICK v \in Claimed : r \in draft[Runtime][v].refs
        BY <1>4, <3>2
      <4>2. /\ v \in Wakes /\ Live(Seen(Runtime, v)) /\ r \in Seen(Runtime, v).refs
            /\ r \in Wakes
        BY <1>2, <1>3, <4>1 DEF Live, Seen, Holds, Rows
      <4>3. Live(Seen(Runtime, w)) /\ r \in Seen(Runtime, w).refs
        BY <1>1, <2>1, <3>0, CommitRows
      <4>4. v = w
        BY <1>1, <3>0, <4>2, <4>3 DEF Letters, OneHome
      <4> QED BY <3>0, <4>4
    <3> QED BY <3>1, <3>2
  <2>2. ASSUME NEW w \in Waiting, r \in table[w].refs, r \notin L
        PROVE  \E v \in Waiting' : r \in table'[v].refs
    <3>0. w \in Wakes /\ table[w] # NoRow /\ table[w] \in Rows
      BY <1>1 DEF Waiting, Pending, Orphan, IInv, WellFormed
    <3>1. ASSUME NEW v \in Wakes, Holds(Runtime, v), Live(draft[Runtime][v]),
                 r \in draft[Runtime][v].refs
          PROVE  \E u \in Waiting' : r \in table'[u].refs
      <4>1. draft[Runtime][v].status = "pending"
        BY <1>3, <1>4, <2>2, <3>1 DEF Claimed, DraftSound, Live
      <4> QED BY <1>1, <3>1, <4>1, CommitPlaces
    <3>2. CASE ~Holds(Runtime, w)
      BY <1>1, <2>2, <3>0, <3>2, CommitPlaces
    <3>3. CASE Holds(Runtime, w) /\ Live(draft[Runtime][w])
      BY <1>3, <2>2, <3>0, <3>1, <3>3 DEF DraftSound
    <3>4. CASE Holds(Runtime, w) /\ ~Live(draft[Runtime][w])
      <4>1. draft[Runtime][w].status = "superseded" /\ r \in draft[Runtime][w].refs /\ r \in Wakes
        BY <1>3, <2>2, <3>0, <3>4 DEF DraftSound, Live, Holds, Rows
      <4>2. Owns(Runtime, r)
        BY <3>0, <3>4, <4>1 DEF Owns
      <4>3. PICK v \in Wakes : Holds(Runtime, v) /\ Live(draft[Runtime][v]) /\ r \in draft[Runtime][v].refs
        BY <1>1, <4>1, <4>2, AllPlaced
      <4> QED BY <3>1, <4>3
    <3> QED BY <3>2, <3>3, <3>4
  <2> QED BY <2>1, <2>2
<1>7. ASSUME NEW r
      PROVE  (\E w \in HandedOut' : r \in table'[w].refs)
             <=> (\E w \in HandedOut : r \in table[w].refs) \/ r \in L
  <2>1. \A w \in Wakes : w \in HandedOut' <=> w \in HandedOut \/ w \in Claimed
    <3> SUFFICES ASSUME NEW w \in Wakes PROVE w \in HandedOut' <=> w \in HandedOut \/ w \in Claimed
      OBVIOUS
    <3>1. CASE ~Holds(Runtime, w)
      BY <1>1, <3>1, CommitPlaces DEF Claimed
    <3>2. CASE Holds(Runtime, w)
      <4>1. /\ DraftSound(Runtime, w) /\ draft[Runtime][w] # NoRow
            /\ table'[w] = draft[Runtime][w]
        BY <1>1, <1>3, <3>2, CommitRows DEF Holds
      <4>2. w \notin HandedOut
        BY <4>1 DEF HandedOut, DraftSound
      <4>3. w \in HandedOut' <=> w \in Claimed
        BY <1>1, <4>1 DEF HandedOut, DraftSound
      <4> QED BY <4>2, <4>3
    <3> QED BY <3>1, <3>2
  <2>2. \A w \in HandedOut : w \in Wakes /\ table'[w] = table[w]
    <3> SUFFICES ASSUME NEW w \in HandedOut PROVE w \in Wakes /\ table'[w] = table[w]
      OBVIOUS
    <3>1. w \in Wakes /\ table[w] # NoRow /\ table[w].status = "consumed"
      BY DEF HandedOut
    <3>2. ~Holds(Runtime, w)
      BY <1>3, <3>1 DEF DraftSound
    <3> QED BY <1>1, <3>1, <3>2, CommitPlaces
  <2>3. HandedOut' \subseteq Wakes
    BY DEF HandedOut
  <2> QED BY <2>1, <2>2, <2>3, <1>2, <1>4
<1>8. /\ RefsOf(HandedOut)' = UNION {table'[w].refs : w \in HandedOut'}
      /\ RefsOf(Waiting)' = UNION {table'[w].refs : w \in Waiting'}
  BY DEF RefsOf
<1>9. /\ RefsOf(Waiting)' = RefsOf(Waiting) \ L
      /\ RefsOf(HandedOut)' = RefsOf(HandedOut) \cup L
  <2> HIDE DEF L
  <2>1. \A r : /\ r \in RefsOf(Waiting)' <=> r \in RefsOf(Waiting) /\ r \notin L
               /\ r \in RefsOf(HandedOut)' <=> r \in RefsOf(HandedOut) \/ r \in L
    <3> SUFFICES ASSUME NEW r
                 PROVE  /\ r \in RefsOf(Waiting)' <=> r \in RefsOf(Waiting) /\ r \notin L
                        /\ r \in RefsOf(HandedOut)' <=> r \in RefsOf(HandedOut) \/ r \in L
      OBVIOUS
    <3>1. /\ r \in RefsOf(Waiting)' <=> \E w \in Waiting' : r \in table'[w].refs
          /\ r \in RefsOf(HandedOut)' <=> \E w \in HandedOut' : r \in table'[w].refs
      BY <1>8, InRefsNext
    <3>2. /\ r \in RefsOf(Waiting) <=> \E w \in Waiting : r \in table[w].refs
          /\ r \in RefsOf(HandedOut) <=> \E w \in HandedOut : r \in table[w].refs
      BY InRefs
    <3> QED BY <3>1, <3>2, <1>6, <1>7
  <2> QED BY <2>1
<1>10. L \subseteq RefsOf(Waiting)
  <2> SUFFICES ASSUME NEW r \in L PROVE r \in RefsOf(Waiting)
    OBVIOUS
  <2>1. PICK w \in Claimed : r \in draft[Runtime][w].refs
    BY <1>4
  <2>2. \E v \in Waiting : r \in table[v].refs
    BY <1>2, <1>5, <2>1
  <2> QED BY <2>2, InRefs
<1> HIDE DEF L
<1>11. CASE L = {}
  BY <1>1, <1>9, <1>11 DEF Box!bvars
<1>12. CASE L # {}
  BY <1>1, <1>9, <1>10, <1>12 DEF Box!Next, Box!Hand
<1> QED BY <1>11, <1>12

LEMMA InitIsBox == Init => Box!Init
<1> SUFFICES ASSUME Init PROVE Box!Init
  OBVIOUS
<1>1. QueueInv
  BY InitServes
<1>2. /\ cycle = {} /\ posted = {}
      /\ \A w \in Legacy : w \in Wakes /\ table[w] # NoRow /\ table[w].status = "claimed"
                           /\ table[w].refs = Renewal[w].refs
      /\ \A w \in Wakes \ Legacy : table[w] = NoRow
  <2>1. cycle = {} /\ posted = {} /\ \A w \in Wakes \ Legacy : table[w] = NoRow
    BY DEF Init
  <2>2. \A w \in Legacy : w \in Wakes /\ table[w] # NoRow /\ table[w].refs = Renewal[w].refs
    BY <1>1 DEF QueueInv, Letters, TableSound
  <2>3. \A w \in Legacy : table[w].status = "claimed"
    BY DEF Init
  <2> QED BY <2>1, <2>2, <2>3
<1>3. HandedOut = {} /\ Waiting = Legacy
  BY <1>2 DEF HandedOut, Waiting, Orphan, Pending
<1>4. RefsOf(HandedOut) = {}
  BY <1>3 DEF RefsOf
<1>5. RefsOf(Waiting) = UNION {Renewal[w].refs : w \in Legacy}
  BY <1>2, <1>3, InRefs
<1> QED BY <1>2, <1>4, <1>5 DEF Box!Init

\* Every step maps to a batch sent, to wakes handed out, or to nothing.
LEMMA NextIsBox == QueueInv /\ [Next]_vars => [Box!Next]_(Box!bvars)
<1> SUFFICES ASSUME QueueInv, [Next]_vars PROVE [Box!Next]_(Box!bvars)
  OBVIOUS
<1>1. CASE \E s \in Sessions : Commit(s)
  BY <1>1, PostsWhole, HandsOut
<1>2. CASE UNCHANGED <<table, cycle, posted>>
  <2>1. /\ RefsOf(Waiting)' = RefsOf(Waiting) /\ RefsOf(HandedOut)' = RefsOf(HandedOut)
        /\ posted' = posted
    BY <1>2 DEF RefsOf, Waiting, HandedOut, Orphan, Pending
  <2> QED BY <2>1 DEF Box!bvars
<1>3. (\E s \in Sessions : Commit(s)) \/ UNCHANGED <<table, cycle, posted>>
  BY DEF Next, Step, BeginPost, Post, Insert, Read, Take, Fail, Abort, BeginApply, Claim,
         BeginClaim, Look, First, ClaimBatch, Tick, vars
<1> QED BY <1>1, <1>2, <1>3

\* The statements of many sessions implement a post box: a batch is posted whole
\* or not at all, and every request is handed to one cycle, once.
THEOREM QueueRefinesPostBox == Spec => ImplementsPostBox
BY InitIsBox, NextIsBox, QueueServes, PTL DEF Spec, ImplementsPostBox, Box!Spec

=============================================================================
