-------------------------- MODULE ReflectionProofs --------------------------
(***************************************************************************)
(* What daily reflection keeps true, for any runtimes, clocks, targets,    *)
(* batch limits and administrators: its tables are in order, the rotation  *)
(* is fair, and a review is worth its cycle.  The schedule is a function   *)
(* of a few rows, which an operator reads in one form and leaves in        *)
(* another within one transaction, so the parts of the invariant are       *)
(* stated of any such rows, with a lemma per operator, and the lemmas on   *)
(* the steps put them together.                                            *)
(***************************************************************************)
EXTENDS Reflection, FiniteSetTheorems, TLAPS

-----------------------------------------------------------------------------
(* The smallest and the largest of a few numbers *)

LEMMA SmallerOfTwo ==
    ASSUME NEW a \in Nat, NEW b \in Nat
    PROVE  Min({a, b}) \in Nat /\ Min({a, b}) = IF a <= b THEN a ELSE b
<1>1. \E x \in {a, b} : \A y \in {a, b} : x <= y
  OBVIOUS
<1> QED BY <1>1 DEF Min

LEMMA LargestOfThree ==
    ASSUME NEW a \in Nat, NEW b \in Nat, NEW c \in Nat
    PROVE  /\ Max({a, b, c}) \in Nat
           /\ Max({a, b, c}) >= a /\ Max({a, b, c}) >= b /\ Max({a, b, c}) >= c
<1>1. \E x \in {a, b, c} : \A y \in {a, b, c} : x >= y
  OBVIOUS
<1> QED BY <1>1 DEF Max

LEMMA LeastOfMany ==
    ASSUME NEW S \in SUBSET Nat, S # {}
    PROVE  Min(S) \in S /\ \A x \in S : Min(S) <= x
<1> DEFINE Less == OpToRel(<, Nat)
<1>1. IsWellFoundedOn(Less, Nat)
  BY NatLessThanWellFounded, Zenon
<1>2. \A n, k \in Nat : <<n, k>> \notin Less => ~ (n < k)
  BY ZenonT(30) DEF OpToRel
<1> HIDE DEF Less
<1>3. PICK m \in S : \A n \in S : ~ (<<n, m>> \in Less)
  BY <1>1, WFMin
<1>4. \A n \in S : ~ (n < m)
  BY <1>2, <1>3, Zenon
<1>5. \A n \in S : m <= n
  BY <1>4
<1> QED BY <1>5 DEF Min

\* A finite set of numbers has a largest one.
LEMMA GreatestOfMany ==
    ASSUME NEW S \in SUBSET Nat, S # {}, NEW bound \in Nat, \A x \in S : x <= bound
    PROVE  Max(S) \in S /\ \A x \in S : x <= Max(S)
<1> DEFINE Above == {n \in Nat : \A x \in S : x <= n}
<1>1. Above \in SUBSET Nat /\ Above # {}
  OBVIOUS
<1> DEFINE m == Min(Above)
<1>2. m \in Above /\ \A x \in Above : m <= x
  BY <1>1, LeastOfMany
<1> HIDE DEF m
<1>3. m \in S
  <2> SUFFICES ASSUME m \notin S PROVE FALSE
    OBVIOUS
  <2>1. m \in Nat /\ \A x \in S : x \in Nat /\ x < m
    <3>1. m \in Nat /\ \A x \in S : x \in Nat /\ x <= m /\ x # m
      BY <1>2
    <3> QED BY <3>1
  <2>2. m # 0 /\ \A x \in S : x <= m - 1
    <3>1. PICK x \in S : TRUE
      OBVIOUS
    <3>2. m # 0
      BY <2>1, <3>1
    <3> QED BY <2>1, <3>2
  <2>3. m - 1 \in Above
    BY <2>1, <2>2
  <2> QED BY <1>2, <2>2, <2>3
<1>4. \E x \in S : \A y \in S : x >= y
  BY <1>2, <1>3
<1> QED BY <1>4 DEF Max

-----------------------------------------------------------------------------
(* Turns *)

LEMMA TargetsKnown ==
    /\ IsFiniteSet(Targets)
    /\ \A t \in Targets : t[1] \in Families /\ t[2] \in Nat /\ t = <<t[1], t[2]>>
<1> DEFINE Of(f) == {f} \X (1 .. Identities[f])
<1>1. \A f \in Families : IsFiniteSet(Of(f))
  <2> TAKE f \in Families
  <2>1. Identities[f] \in Nat
    BY TargetAssumption
  <2>2. IsFiniteSet(1 .. Identities[f])
    BY <2>1, FS_Interval
  <2>3. IsFiniteSet({f})
    BY FS_Singleton
  <2> QED BY <2>2, <2>3, FS_Product
<1>2. Targets = (Of("interest") \cup Of("preference")) \cup Of("self_state")
  BY Zenon DEF Targets, Families
<1>3. IsFiniteSet(Of("interest")) /\ IsFiniteSet(Of("preference")) /\ IsFiniteSet(Of("self_state"))
  BY <1>1 DEF Families
<1>4. IsFiniteSet(Targets)
  <2> HIDE DEF Of
  <2>1. IsFiniteSet(Of("interest") \cup Of("preference"))
    BY <1>3, FS_Union
  <2> QED BY <1>2, <1>3, <2>1, FS_Union
<1>5. \A t \in Targets : t[1] \in Families /\ t[2] \in Nat /\ t = <<t[1], t[2]>>
  BY TargetAssumption DEF Targets
<1> QED BY <1>4, <1>5

\* The order in which a family is read is total.
LEMMA BeforeIsTotal ==
    ASSUME NEW t \in Targets, NEW u \in Targets, t[1] = u[1], NEW k \in Nat
    PROVE  /\ ~ Before(t, t, k)
           /\ Before(t, u, k) => ~ Before(u, t, k)
           /\ t # u => Before(t, u, k) \/ Before(u, t, k)
<1>1. t[2] \in Nat /\ u[2] \in Nat /\ (t[2] = u[2] => t = u)
  BY TargetsKnown
<1> QED BY <1>1 DEF Before

LEMMA BeforeIsTransitive ==
    ASSUME NEW t \in Targets, NEW u \in Targets, NEW v \in Targets, NEW k \in Nat,
           Before(t, u, k), Before(u, v, k)
    PROVE  Before(t, v, k)
<1>1. t[2] \in Nat /\ u[2] \in Nat /\ v[2] \in Nat
  BY TargetsKnown
<1> QED BY <1>1 DEF Before

\* What comes after x comes, once the cursor is at x, before all that comes up
\* to x, and keeps its place before what came after it.
LEMMA CursorMoves ==
    ASSUME NEW x \in Targets, NEW t \in Targets, NEW u \in Targets, NEW k \in Nat,
           t[1] = x[1], Before(x, u, k), t = x \/ Before(t, x, k) \/ Before(u, t, k)
    PROVE  Before(u, t, x[2])
<1>1. t[2] \in Nat /\ u[2] \in Nat /\ x[2] \in Nat
  BY TargetsKnown
<1>2. CASE t = x
  BY <1>1, <1>2 DEF Before
<1>3. CASE Before(t, x, k)
  BY <1>1, <1>3 DEF Before
<1>4. CASE Before(u, t, k)
  BY <1>1, <1>4 DEF Before
<1> QED BY <1>2, <1>3, <1>4

LEMMA TurnsDiffer ==
    ASSUME NEW S \in SUBSET Targets, NEW cursor \in [Families -> Nat],
           NEW t \in S, NEW u \in S
    PROVE  /\ Turn(t, S, cursor) \in Nat
           /\ Turn(t, S, cursor) = Turn(u, S, cursor) => t = u
           /\ t[1] = u[1] /\ Before(t, u, cursor[t[1]]) => Turn(t, S, cursor) < Turn(u, S, cursor)
<1> DEFINE Ahead(v) == {x \in S : x[1] = v[1] /\ Before(x, v, cursor[v[1]])}
<1>1. \A v \in S : /\ Cardinality(Ahead(v)) \in Nat /\ FamilyOrder(v[1]) \in 0 .. 2
                   /\ Turn(v, S, cursor) = Cardinality(Ahead(v)) * 3 + FamilyOrder(v[1])
  <2> TAKE v \in S
  <2>1. IsFiniteSet(Ahead(v))
    BY TargetsKnown, FS_Subset
  <2>2. v[1] \in Families
    BY TargetsKnown
  <2>3. FamilyOrder(v[1]) \in 0 .. 2
    BY <2>2 DEF Families, FamilyOrder
  <2> QED BY <2>1, <2>3, FS_CardinalityType DEF Turn
<1>2. ASSUME NEW v \in S, NEW w \in S, v[1] = w[1], Before(v, w, cursor[v[1]])
      PROVE  Cardinality(Ahead(v)) < Cardinality(Ahead(w))
  <2>1. IsFiniteSet(Ahead(w)) /\ IsFiniteSet(Ahead(v))
    BY TargetsKnown, FS_Subset
  <2>2. cursor[v[1]] \in Nat
    BY TargetsKnown
  <2>3. v \in Ahead(w) /\ v \notin Ahead(v)
    BY <1>2, <2>2, BeforeIsTotal
  <2>4. \A x \in Ahead(v) : x \in Ahead(w)
    BY <1>2, <2>2, BeforeIsTransitive
  <2> HIDE DEF Ahead
  <2>5. Ahead(v) \in SUBSET Ahead(w) /\ Ahead(v) # Ahead(w)
    BY <2>3, <2>4
  <2>6. Cardinality(Ahead(v)) <= Cardinality(Ahead(w)) /\ Cardinality(Ahead(v)) # Cardinality(Ahead(w))
    BY <2>1, <2>5, FS_Subset
  <2> QED BY <1>1, <2>6
<1> HIDE DEF Ahead
<1>3. ASSUME Turn(t, S, cursor) = Turn(u, S, cursor) PROVE t = u
  <2>1. FamilyOrder(t[1]) = FamilyOrder(u[1]) /\ Cardinality(Ahead(t)) = Cardinality(Ahead(u))
    BY <1>1, <1>3
  <2>2. t[1] \in Families /\ u[1] \in Families /\ cursor[t[1]] \in Nat
    BY TargetsKnown
  <2>3. t[1] = u[1]
    BY <2>1, <2>2 DEF Families, FamilyOrder
  <2> QED BY <1>1, <1>2, <2>1, <2>2, <2>3, BeforeIsTotal
<1>4. ASSUME t[1] = u[1], Before(t, u, cursor[t[1]])
      PROVE  Turn(t, S, cursor) < Turn(u, S, cursor)
  BY <1>1, <1>2, <1>4
<1> QED BY <1>1, <1>3, <1>4

\* The place of a member of a finite set: how many have a smaller number.
LEMMA PlacesGrow ==
    ASSUME NEW S, IsFiniteSet(S), NEW f \in [S -> Nat]
    PROVE  \A t, u \in S : f[t] < f[u] =>
               /\ Cardinality({x \in S : f[x] < f[t]}) \in Nat
               /\ Cardinality({x \in S : f[x] < f[u]}) \in Nat
               /\ Cardinality({x \in S : f[x] < f[t]}) < Cardinality({x \in S : f[x] < f[u]})
<1> DEFINE Less(v) == {x \in S : f[x] < f[v]}
<1> SUFFICES ASSUME NEW t \in S, NEW u \in S, f[t] < f[u]
             PROVE  /\ Cardinality(Less(t)) \in Nat /\ Cardinality(Less(u)) \in Nat
                    /\ Cardinality(Less(t)) < Cardinality(Less(u))
  OBVIOUS
<1>1. \A v \in S : IsFiniteSet(Less(v)) /\ Cardinality(Less(v)) \in Nat
  BY FS_Subset, FS_CardinalityType
<1>2. Less(t) \in SUBSET Less(u) /\ Less(t) # Less(u)
  OBVIOUS
<1> HIDE DEF Less
<1>3. Cardinality(Less(t)) <= Cardinality(Less(u)) /\ Cardinality(Less(t)) # Cardinality(Less(u))
  BY <1>1, <1>2, FS_Subset
<1> QED BY <1>1, <1>3

\* Of a finite set whose members have different numbers, each place in the
\* order of these numbers is taken.
LEMMA PlacesTaken ==
    ASSUME NEW S, IsFiniteSet(S), NEW f \in [S -> Nat],
           \A x, y \in S : f[x] = f[y] => x = y,
           NEW n \in 1 .. Cardinality(S)
    PROVE  \E t \in S : Cardinality({u \in S : f[u] < f[t]}) = n - 1
<1> DEFINE Less(t) == {u \in S : f[u] < f[t]}
           T       == 0 .. Cardinality(S) - 1
           place   == [t \in S |-> Cardinality(Less(t))]
<1>1. Cardinality(S) \in Nat
  BY FS_CardinalityType
<1>2. \A t \in S : IsFiniteSet(Less(t)) /\ Cardinality(Less(t)) \in Nat
  BY FS_Subset, FS_CardinalityType
<1>3. \A t \in S : Cardinality(Less(t)) \in T
  <2> TAKE t \in S
  <2>1. Less(t) \in SUBSET S /\ Less(t) # S
    OBVIOUS
  <2> HIDE DEF Less
  <2>2. Cardinality(Less(t)) <= Cardinality(S) /\ Cardinality(Less(t)) # Cardinality(S)
    BY <2>1, FS_Subset
  <2> QED BY <1>1, <1>2, <2>2
<1>4. \A t, u \in S : f[t] < f[u] => Cardinality(Less(t)) < Cardinality(Less(u))
  <2>1. \A t, u \in S : f[t] < f[u] =>
            /\ Cardinality({x \in S : f[x] < f[t]}) \in Nat
            /\ Cardinality({x \in S : f[x] < f[u]}) \in Nat
            /\ Cardinality({x \in S : f[x] < f[t]}) < Cardinality({x \in S : f[x] < f[u]})
    BY PlacesGrow, Zenon
  <2> QED BY <2>1
<1> HIDE DEF Less
<1>5. place \in Injection(S, T)
  <2>1. place \in [S -> T]
    BY <1>3
  <2>2. \A t, u \in S : place[t] = place[u] => t = u
    BY <1>2, <1>4
  <2> QED BY <2>1, <2>2 DEF Injection, IsInjective
<1>6. IsFiniteSet(T) /\ Cardinality(T) = Cardinality(S)
  <2>1. 0 \in Int /\ Cardinality(S) - 1 \in Int
    BY <1>1
  <2>2. IsFiniteSet(T) /\ Cardinality(T) = IF 0 > Cardinality(S) - 1 THEN 0
                                          ELSE (Cardinality(S) - 1) - 0 + 1
    BY <2>1, FS_Interval
  <2> QED BY <1>1, <2>2
<1>7. place \in Surjection(S, T)
  BY <1>5, <1>6, FS_Injection
<1>8. n - 1 \in T
  BY <1>1
<1>9. PICK t \in S : place[t] = n - 1
  BY <1>7, <1>8 DEF Surjection
<1> QED BY <1>9 DEF Less

-----------------------------------------------------------------------------
(* Selection *)

Listed(refs) == {refs[n] : n \in DOMAIN refs}

Eligible(tg, when) == {t \in Staged(tg) : tg[t].eligible <= when}

\* Within a family the references follow the order from the cursor.
InTurn(refs, cursor) ==
    \A m \in DOMAIN refs : \A n \in 1 .. m - 1 :
        refs[n][1] = refs[m][1] => Before(refs[n], refs[m], cursor[refs[m][1]])

LEMMA Selected ==
    ASSUME NEW tg \in [Targets -> TargetRecords], NEW when \in Nat,
           NEW cursor \in [Families -> Nat], NEW refs, refs = Select(tg, when, cursor)
    PROVE  /\ refs \in Seq(Targets) /\ Len(refs) <= BatchLimit
           /\ Eligible(tg, when) # {} => Len(refs) >= 1
           /\ \A n \in DOMAIN refs : refs[n] \in Eligible(tg, when)
           /\ IsInjective(refs) /\ InTurn(refs, cursor)
           /\ \A t \in Listed(refs), u \in Eligible(tg, when) \ Listed(refs) :
                  u[1] = t[1] => Before(t, u, cursor[t[1]])
<1> DEFINE S        == Eligible(tg, when)
           f        == [t \in S |-> Turn(t, S, cursor)]
           place(t) == Cardinality({u \in S : f[u] < f[t]})
           N        == Min({BatchLimit, Cardinality(S)})
<1>1. S \in SUBSET Targets /\ IsFiniteSet(S) /\ Cardinality(S) \in Nat
  <2>1. S \in SUBSET Targets
    BY DEF Eligible, Staged
  <2> HIDE DEF S
  <2> QED BY <2>1, TargetsKnown, FS_Subset, FS_CardinalityType
<1>2. N \in Nat /\ N <= BatchLimit /\ N <= Cardinality(S) /\ (Cardinality(S) # 0 => N >= 1)
  <2>1. BatchLimit \in Nat /\ BatchLimit # 0
    BY ScheduleAssumption
  <2>2. \A a, b \in Nat : Min({a, b}) = IF a <= b THEN a ELSE b
    BY SmallerOfTwo
  <2> HIDE DEF S
  <2>3. N = IF BatchLimit <= Cardinality(S) THEN BatchLimit ELSE Cardinality(S)
    BY <1>1, <2>1, <2>2
  <2> HIDE DEF N
  <2> QED BY <1>1, <2>1, <2>3
<1>3. refs = [n \in 1 .. N |-> CHOOSE t \in S : place(t) = n - 1]
  <2>1. \A t \in S : {u \in S : f[u] < f[t]} = {u \in S : Turn(u, S, cursor) < Turn(t, S, cursor)}
    OBVIOUS
  <2>2. \A n : (CHOOSE t \in S : place(t) = n - 1)
                   = CHOOSE t \in S : Cardinality({u \in S : Turn(u, S, cursor) < Turn(t, S, cursor)}) = n - 1
    BY <2>1
  <2>3. refs = [n \in 1 .. N |->
                   CHOOSE t \in S : Cardinality({u \in S : Turn(u, S, cursor) < Turn(t, S, cursor)}) = n - 1]
    BY Zenon DEF Select, Eligible
  <2> HIDE DEF S, N, place
  <2> QED BY <2>2, <2>3
<1> HIDE DEF S
<1>4. f \in [S -> Nat] /\ (\A x, y \in S : f[x] = f[y] => x = y)
  BY <1>1, TurnsDiffer
<1>5. \A t, u \in S : t[1] = u[1] /\ Before(t, u, cursor[t[1]]) => f[t] < f[u]
  BY <1>1, TurnsDiffer
<1>6. \A t, u \in S : f[t] < f[u] => place(t) \in Nat /\ place(u) \in Nat /\ place(t) < place(u)
  <2> HIDE DEF f, N
  <2>1. IsFiniteSet(S) /\ f \in [S -> Nat]
    BY <1>1, <1>4
  <2>2. \A t, u \in S : f[t] < f[u] =>
            /\ Cardinality({x \in S : f[x] < f[t]}) \in Nat
            /\ Cardinality({x \in S : f[x] < f[u]}) \in Nat
            /\ Cardinality({x \in S : f[x] < f[t]}) < Cardinality({x \in S : f[x] < f[u]})
    BY <2>1, PlacesGrow, Zenon
  <2> QED BY <2>2
<1>7. \A n \in 1 .. N : \E t \in S : place(t) = n - 1
  <2> HIDE DEF f, N
  <2>1. \A n \in 1 .. N : n \in 1 .. Cardinality(S)
    BY <1>1, <1>2
  <2>2. IsFiniteSet(S) /\ f \in [S -> Nat] /\ (\A x, y \in S : f[x] = f[y] => x = y)
    BY <1>1, <1>4
  <2>3. \A n \in 1 .. Cardinality(S) : \E t \in S : place(t) = n - 1
    BY <2>2, PlacesTaken, Zenon
  <2> QED BY <2>1, <2>3
<1> HIDE DEF place, f, N
<1>8. DOMAIN refs = 1 .. N /\ \A n \in 1 .. N : refs[n] \in S /\ place(refs[n]) = n - 1
  BY <1>3, <1>7
<1>9. refs \in Seq(Targets) /\ Len(refs) = N
  BY <1>1, <1>2, <1>3, <1>8
<1>10. S # {} => Len(refs) >= 1
  BY <1>1, <1>2, <1>9, FS_EmptySet
<1>11. IsInjective(refs)
  <2> SUFFICES ASSUME NEW n \in 1 .. N, NEW m \in 1 .. N, refs[n] = refs[m] PROVE n = m
    BY <1>8 DEF IsInjective
  <2>1. n - 1 = m - 1
    BY <1>8
  <2> QED BY <1>2, <2>1
<1>12. \A t, u \in S : t # u => f[t] < f[u] \/ f[u] < f[t]
  BY <1>4
<1>13. InTurn(refs, cursor)
  <2> SUFFICES ASSUME NEW m \in 1 .. N, NEW n \in 1 .. m - 1, refs[n][1] = refs[m][1]
               PROVE  Before(refs[n], refs[m], cursor[refs[m][1]])
    BY <1>8 DEF InTurn
  <2>1. n \in 1 .. N /\ n < m /\ m \in Nat /\ n \in Nat
    BY <1>2
  <2>2. /\ refs[n] \in S /\ refs[m] \in S /\ place(refs[n]) = n - 1 /\ place(refs[m]) = m - 1
    BY <1>8, <2>1
  <2>3. ~ (f[refs[m]] < f[refs[n]]) /\ refs[n] # refs[m]
    BY <1>6, <2>1, <2>2
  <2>4. ~ Before(refs[m], refs[n], cursor[refs[m][1]])
    BY <1>5, <2>2, <2>3
  <2>5. cursor[refs[m][1]] \in Nat
    BY <1>1, <2>2, TargetsKnown
  <2> QED BY <1>1, <2>2, <2>3, <2>4, <2>5, BeforeIsTotal
<1>14. ASSUME NEW t \in Listed(refs), NEW u \in S \ Listed(refs), u[1] = t[1]
       PROVE  Before(t, u, cursor[t[1]])
  <2>1. PICK n \in 1 .. N : t = refs[n]
    BY <1>8 DEF Listed
  <2>2. t \in S /\ u \in S /\ t # u /\ place(t) = n - 1
    BY <1>8, <2>1
  <2>3. ~ Before(u, t, cursor[u[1]])
    <3> SUFFICES ASSUME Before(u, t, cursor[u[1]]) PROVE FALSE
      OBVIOUS
    <3>1. place(u) \in Nat /\ place(u) < n - 1
      BY <1>5, <1>6, <1>14, <2>2
    <3> DEFINE k == place(u) + 1
    <3>2. k \in 1 .. N /\ k - 1 = place(u)
      BY <1>2, <3>1
    <3> HIDE DEF k
    <3>3. refs[k] \in S /\ place(refs[k]) = place(u) /\ refs[k] \in Listed(refs)
      BY <1>8, <3>2 DEF Listed
    <3>4. refs[k] = u
      BY <1>6, <1>12, <2>2, <3>1, <3>3
    <3> QED BY <3>3, <3>4
  <2>4. cursor[t[1]] \in Nat
    BY <1>1, <2>2, TargetsKnown
  <2> QED BY <1>1, <1>14, <2>2, <2>3, <2>4, BeforeIsTotal
<1> QED BY <1>2, <1>8, <1>9, <1>10, <1>11, <1>13, <1>14 DEF S

-----------------------------------------------------------------------------
(* The invariant *)

\* Rows refer to rows there are, the managed batch is the last one made, and
\* only the last cycle may be running.
Numbered(s, all) ==
    /\ s.managed \in {None, Len(s.batches)} /\ s.last \in 0 .. Len(all)
    /\ \A c \in DOMAIN all : all[c].batch \in 0 .. Len(s.batches)
    /\ \A c \in DOMAIN all : all[c].status = "active" => c = Len(all)
    /\ ~s.present => s.batches = <<>> /\ s.last = None
    /\ \A b \in DOMAIN s.batches : s.batches[b].status = "pending" => s.batches[b].consumed = Never

\* What ReflectionConsistent says of batch number b.
Kept(s, all, b) ==
    LET batch == s.batches[b]
        mine  == CyclesOf(b, all)
    IN  /\ Len(batch.refs) \in 1 .. BatchLimit /\ IsInjective(batch.refs)
        /\ batch.accounted <=> batch.status = "consumed"
        /\ IF batch.status \in {"pending", "cancelled"} THEN mine = {}
           ELSE \E c \in DOMAIN all :
                    /\ mine = {c}
                    /\ (all[c].status = "active") <=> (batch.status = "claimed")
                    /\ batch.consumed = all[c].completed

Sound(s, all) ==
    /\ s \in Reflections /\ all \in Seq(CycleRecords)
    /\ Numbered(s, all) /\ StateValid(s, all, FALSE)
    /\ \A b \in DOMAIN s.batches : Kept(s, all, b)

\* A review is followed by a day's rest, and by batches selected later.
Rested(s) ==
    \A i \in DOMAIN s.batches : s.batches[i].accounted =>
        /\ s.last # None
        /\ s.batches[i].selected <= s.batches[i].consumed
        /\ s.batches[i].consumed + Day <= s.next
        /\ \A l \in Live(s) : s.batches[i].selected <= s.batches[l].selected

\* What was staged, and due, when a batch was selected, and is staged still.
Overlooked(b, tg) ==
    {u \in Staged(tg) : tg[u].eligible <= b.due /\ tg[u].eligible < b.selected + Day}

\* A live batch is what comes first after the cursors.
FirstInLine(s, tg, b) ==
    /\ InTurn(b.refs, s.cursor)
    /\ \A t \in Listed(b.refs), u \in Overlooked(b, tg) \ Listed(b.refs) :
           u[1] = t[1] => Before(t, u, s.cursor[t[1]])

\* What a review overlooked, and no batch since has held, comes before all that
\* it reviewed.
NextInLine(s, tg) ==
    \A i \in DOMAIN s.batches : s.batches[i].accounted =>
        \A u \in Overlooked(s.batches[i], tg) :
            (\A k \in i .. Len(s.batches) : u \notin Listed(s.batches[k].refs)) =>
                \A t \in Listed(s.batches[i].refs) :
                    u[1] = t[1] => Before(u, t, s.cursor[t[1]])

\* RotationIsFair, of any state.
Fair(s, tg) ==
    \A j \in DOMAIN s.batches : \A i \in 1 .. j - 1 : s.batches[i].accounted =>
        \A t \in Listed(s.batches[i].refs) \cap Listed(s.batches[j].refs) :
            \A u \in Overlooked(s.batches[i], tg) :
                u[1] = t[1] => \E k \in i .. j : u \in Listed(s.batches[k].refs)

Rotating(s, tg) ==
    /\ \A l \in Live(s) : FirstInLine(s, tg, s.batches[l])
    /\ NextInLine(s, tg) /\ Fair(s, tg)

\* The runtime in the loop has a cycle, and its clock is not behind.
Attended(s, all, p) ==
    /\ all # <<>> /\ Latest(all).status = "active"
    /\ s.present => ClockValid(s, all, Now(p))

Invariant ==
    /\ TypeOK /\ Sound(reflection, cycles)
    /\ Rested(reflection) /\ Rotating(reflection, target)
    /\ owner # NoRuntime => Attended(reflection, cycles, owner)

-----------------------------------------------------------------------------
(* A new batch *)

LEMMA Fields ==
    ASSUME NEW s \in Reflections
    PROVE  /\ s.present \in BOOLEAN /\ s.pending \in BOOLEAN
           /\ s.next \in Nat /\ s.managed \in Nat /\ s.last \in Nat
           /\ s.cursor \in [Families -> Nat]
           /\ s.batches \in Seq(BatchRecords) /\ Len(s.batches) \in Nat
           /\ DOMAIN s.batches = 1 .. Len(s.batches)
           /\ \A b \in 1 .. Len(s.batches) : s.batches[b] \in BatchRecords
BY DEF Reflections

LEMMA BatchFields ==
    ASSUME NEW b \in BatchRecords
    PROVE  /\ b.refs \in Seq(Targets) /\ Len(b.refs) \in Nat
           /\ DOMAIN b.refs = 1 .. Len(b.refs) /\ Listed(b.refs) \in SUBSET Targets
           /\ b.selected \in Nat /\ b.floor \in Nat /\ b.due \in Nat /\ b.consumed \in Nat
           /\ b.accounted \in BOOLEAN
           /\ b.status \in {"pending", "claimed", "consumed", "cancelled"}
<1>1. b.refs \in Seq(Targets)
  BY DEF BatchRecords
<1>2. Listed(b.refs) \in SUBSET Targets
  BY <1>1 DEF Listed
<1> QED BY <1>1, <1>2 DEF BatchRecords

LEMMA BatchMarked ==
    ASSUME NEW b \in BatchRecords, NEW c \in BOOLEAN, NEW n \in Nat,
           NEW x \in {"pending", "claimed", "consumed", "cancelled"}
    PROVE  \A m \in {[b EXCEPT !.status = x], [b EXCEPT !.accounted = c],
                     [b EXCEPT !.status = x, !.consumed = n]} :
               /\ m \in BatchRecords
               /\ m.refs = b.refs /\ m.due = b.due /\ m.selected = b.selected /\ m.floor = b.floor
<1>1. [b EXCEPT !.status = x] \in BatchRecords
  BY DEF BatchRecords
<1>2. [b EXCEPT !.accounted = c] \in BatchRecords
  BY DEF BatchRecords
<1>3. [b EXCEPT !.status = x, !.consumed = n] \in BatchRecords
  BY DEF BatchRecords
<1>4. \A m \in {[b EXCEPT !.status = x], [b EXCEPT !.accounted = c],
                [b EXCEPT !.status = x, !.consumed = n]} :
          m.refs = b.refs /\ m.due = b.due /\ m.selected = b.selected /\ m.floor = b.floor
  BY DEF BatchRecords
<1> QED BY <1>1, <1>2, <1>3, <1>4

\* The last batch of t is the new one, and all the rest is as in s.
Added(s, t, b) ==
    /\ t.batches = Append(s.batches, b) /\ t.managed = Len(s.batches) + 1 /\ t.pending = FALSE
    /\ t.present = s.present /\ t.next = s.next /\ t.last = s.last /\ t.cursor = s.cursor

\* What a batch is made of.
Made(s, tg, now, b) ==
    /\ b.refs = Select(tg, b.due, s.cursor) /\ Len(b.refs) \in 1 .. BatchLimit
    /\ b.selected = now /\ b.due >= now /\ b.due >= s.next /\ b.due >= b.floor
    /\ b.status = "pending" /\ b.accounted = FALSE /\ b.consumed = Never

LEMMA BatchMade ==
    ASSUME NEW s \in Reflections, NEW tg \in [Targets -> TargetRecords], NEW now \in Nat,
           Staged(tg) # {}
    PROVE  \E b \in BatchRecords :
               /\ NewBatch(s, tg, now) \in Reflections /\ Added(s, NewBatch(s, tg, now), b)
               /\ Made(s, tg, now, b)
<1> DEFINE when  == Max({now, Earliest(tg), s.next})
           refs  == Select(tg, when, s.cursor)
           S     == {now} \cup {tg[refs[i]].eligible : i \in DOMAIN refs}
           b     == [refs |-> refs, selected |-> now, due |-> when, consumed |-> Never,
                     floor |-> Max(S), accounted |-> FALSE, status |-> "pending"]
           n     == NewBatch(s, tg, now)
<1>1. \E t \in Staged(tg) : tg[t].eligible = Earliest(tg) /\ tg[t].eligible \in Nat
  <2> DEFINE E == {tg[t].eligible : t \in Staged(tg)}
  <2>1. E \in SUBSET Nat /\ E # {}
    BY DEF Staged, TargetRecords
  <2>2. Min(E) \in E
    <3> HIDE DEF E
    <3> QED BY <2>1, LeastOfMany
  <2> QED BY <2>1, <2>2 DEF Earliest
<1>2. when \in Nat /\ when >= now /\ when >= Earliest(tg) /\ when >= s.next
  BY <1>1, Fields, LargestOfThree
<1> HIDE DEF when
<1>3. /\ refs \in Seq(Targets) /\ Len(refs) <= BatchLimit
      /\ Eligible(tg, when) # {} => Len(refs) >= 1
      /\ \A i \in DOMAIN refs : refs[i] \in Eligible(tg, when)
  <2>1. s.cursor \in [Families -> Nat]
    BY Fields
  <2> QED BY <1>2, <2>1, Selected
<1> HIDE DEF refs
<1>4. Eligible(tg, when) # {}
  BY <1>1, <1>2 DEF Eligible
<1>5. S \in SUBSET Nat /\ S # {} /\ \A x \in S : x <= when
  <2>1. \A i \in DOMAIN refs : refs[i] \in Targets /\ tg[refs[i]].eligible <= when
    BY <1>3 DEF Eligible, Staged
  <2>2. \A x \in Targets : tg[x].eligible \in Nat
    BY DEF TargetRecords
  <2> QED BY <1>2, <2>1, <2>2
<1>6. Max(S) \in Nat /\ Max(S) <= when
  <2> HIDE DEF S
  <2>1. Max(S) \in S
    BY <1>2, <1>5, GreatestOfMany
  <2> QED BY <1>5, <2>1
<1>7. b \in BatchRecords
  <2> HIDE DEF S
  <2> QED BY <1>2, <1>3, <1>6 DEF BatchRecords, Never
<1>8. n = [s EXCEPT !.batches = Append(@, b), !.managed = Len(s.batches) + 1, !.pending = FALSE]
  BY Zenon DEF NewBatch, when, refs
<1>9. Added(s, n, b) /\ n \in Reflections
  <2> HIDE DEF b, n
  <2>1. Append(s.batches, b) \in Seq(BatchRecords) /\ Len(s.batches) + 1 \in Nat
    BY <1>7, Fields
  <2>2. s = [present |-> s.present, next |-> s.next, managed |-> s.managed, last |-> s.last,
             pending |-> s.pending, cursor |-> s.cursor, batches |-> s.batches]
    BY DEF Reflections
  <2>3. n \in Reflections
    BY <1>8, <2>1 DEF Reflections
  <2>4. Added(s, n, b)
    BY <1>8, <2>2 DEF Added
  <2> QED BY <2>3, <2>4
<1>10. Len(refs) \in 1 .. BatchLimit
  BY <1>3, <1>4, ScheduleAssumption
<1>11. Made(s, tg, now, b)
  <2> HIDE DEF S
  <2> QED BY <1>2, <1>6, <1>10 DEF Made, refs
<1> HIDE DEF b, n
<1> QED BY <1>7, <1>9, <1>11 DEF n

\* What a selection makes of the last batch.
Fresh(s, tg, b) ==
    /\ Len(b.refs) \in 1 .. BatchLimit /\ IsInjective(b.refs) /\ InTurn(b.refs, s.cursor)
    /\ \A t \in Listed(b.refs), u \in Eligible(tg, b.due) \ Listed(b.refs) :
           u[1] = t[1] => Before(t, u, s.cursor[t[1]])
    /\ StillPending(b, tg)
    /\ b.due >= s.next /\ b.due >= b.floor /\ b.status = "pending" /\ b.accounted = FALSE
    /\ b.consumed = Never

LEMMA BatchFresh ==
    ASSUME NEW s \in Reflections, NEW tg \in [Targets -> TargetRecords], NEW now \in Nat,
           Staged(tg) # {}
    PROVE  \E b \in BatchRecords :
               /\ NewBatch(s, tg, now) \in Reflections /\ Added(s, NewBatch(s, tg, now), b)
               /\ b.selected = now /\ Fresh(s, tg, b)
<1>1. PICK b \in BatchRecords :
               /\ NewBatch(s, tg, now) \in Reflections /\ Added(s, NewBatch(s, tg, now), b)
               /\ Made(s, tg, now, b)
  BY BatchMade
<1>2. b.due \in Nat /\ s.cursor \in [Families -> Nat]
  BY Fields, BatchFields
<1>3. /\ IsInjective(b.refs) /\ InTurn(b.refs, s.cursor)
      /\ \A n \in DOMAIN b.refs : b.refs[n] \in Eligible(tg, b.due)
      /\ \A t \in Listed(b.refs), u \in Eligible(tg, b.due) \ Listed(b.refs) :
             u[1] = t[1] => Before(t, u, s.cursor[t[1]])
  BY <1>1, <1>2, Selected DEF Made
<1>4. StillPending(b, tg)
  <2>1. 1 \in DOMAIN b.refs
    BY <1>1, BatchFields DEF Made
  <2> QED BY <1>3, <2>1 DEF StillPending, Eligible
<1>5. Fresh(s, tg, b)
  BY <1>1, <1>3, <1>4 DEF Made, Fresh
<1> QED BY <1>1, <1>5 DEF Made

LEMMA AddedBatches ==
    ASSUME NEW s \in Reflections, NEW t \in Reflections, NEW b \in BatchRecords, Added(s, t, b),
           NEW tg, Fresh(s, tg, b), Live(s) = {}
    PROVE  /\ Len(t.batches) = Len(s.batches) + 1 /\ t.batches[Len(s.batches) + 1] = b
           /\ DOMAIN t.batches = 1 .. Len(s.batches) + 1 /\ DOMAIN s.batches = 1 .. Len(s.batches)
           /\ \A i \in 1 .. Len(s.batches) : t.batches[i] = s.batches[i]
           /\ Live(t) = {Len(s.batches) + 1}
<1>1. /\ s.batches \in Seq(BatchRecords) /\ Len(s.batches) \in Nat
      /\ DOMAIN s.batches = 1 .. Len(s.batches)
  BY Fields
<1>2. /\ Len(t.batches) = Len(s.batches) + 1 /\ t.batches[Len(s.batches) + 1] = b
      /\ DOMAIN t.batches = 1 .. Len(s.batches) + 1
      /\ \A i \in 1 .. Len(s.batches) : t.batches[i] = s.batches[i]
  BY <1>1 DEF Added
<1>3. b.status = "pending"
  BY DEF Fresh
<1>4. \A i \in 1 .. Len(s.batches) + 1 : i \in 1 .. Len(s.batches) \/ i = Len(s.batches) + 1
  BY <1>1
<1>5. Live(t) = {Len(s.batches) + 1}
  BY <1>1, <1>2, <1>3, <1>4 DEF Live
<1> QED BY <1>1, <1>2, <1>5

LEMMA AddedSound ==
    ASSUME NEW s \in Reflections, NEW t \in Reflections, NEW b \in BatchRecords, Added(s, t, b),
           NEW tg, Fresh(s, tg, b), Live(s) = {}, NEW all, Sound(s, all), s.present
    PROVE  Sound(t, all)
<1> DEFINE k == Len(s.batches) + 1
<1>1. /\ Len(t.batches) = k /\ t.batches[k] = b /\ Live(t) = {k}
      /\ DOMAIN t.batches = 1 .. k /\ DOMAIN s.batches = 1 .. Len(s.batches)
      /\ \A i \in 1 .. Len(s.batches) : t.batches[i] = s.batches[i]
  BY AddedBatches
<1>2. /\ t.present /\ t.next = s.next /\ t.last = s.last /\ t.managed = k
      /\ Len(s.batches) \in Nat /\ k \in Nat /\ k # None /\ all \in Seq(CycleRecords)
  BY Fields DEF Added, None, Sound
<1> HIDE DEF k
<1>3. Numbered(t, all)
  <2>1. \A x \in 0 .. Len(s.batches) : x \in 0 .. k
    BY <1>2 DEF k
  <2>2. \A x \in 1 .. k : x \in 1 .. Len(s.batches) \/ x = k
    BY <1>2 DEF k
  <2>3. \A x \in 1 .. k : t.batches[x].status = "pending" => t.batches[x].consumed = Never
    BY <1>1, <2>2 DEF Sound, Numbered, Fresh
  <2> QED BY <1>1, <1>2, <2>1, <2>3 DEF Sound, Numbered
<1>4. StateValid(t, all, FALSE)
  <2>1. CadenceValid(t, all)
    BY <1>2 DEF Sound, StateValid, CadenceValid
  <2>2. ManagedValid(t, all, FALSE)
    BY <1>1, <1>2 DEF ManagedValid, Fresh
  <2> QED BY <1>1, <1>2, <2>1, <2>2 DEF StateValid
<1>5. CyclesOf(k, all) = {}
  BY <1>2 DEF CyclesOf, Sound, Numbered, k
<1>6. \A i \in 1 .. k : Kept(t, all, i)
  <2> TAKE i \in 1 .. k
  <2>1. CASE i = k
    BY <1>1, <1>5, <2>1 DEF Kept, Fresh
  <2>2. CASE i # k
    <3>1. i \in 1 .. Len(s.batches)
      BY <1>2, <2>2 DEF k
    <3>2. Kept(s, all, i) /\ t.batches[i] = s.batches[i]
      BY <1>1, <3>1 DEF Sound
    <3> QED BY <3>2, Zenon DEF Kept
  <2> QED BY <2>1, <2>2
<1> QED BY <1>1, <1>2, <1>3, <1>4, <1>6 DEF Sound

LEMMA AddedRested ==
    ASSUME NEW s \in Reflections, NEW t \in Reflections, NEW b \in BatchRecords, Added(s, t, b),
           NEW tg, Fresh(s, tg, b), Live(s) = {}, Rested(s),
           s.last # None => b.selected + Day >= s.next
    PROVE  Rested(t)
<1> DEFINE k == Len(s.batches) + 1
<1>1. /\ Len(t.batches) = k /\ t.batches[k] = b /\ Live(t) = {k}
      /\ DOMAIN t.batches = 1 .. k /\ DOMAIN s.batches = 1 .. Len(s.batches)
      /\ \A i \in 1 .. Len(s.batches) : t.batches[i] = s.batches[i]
  BY AddedBatches
<1>2. t.next = s.next /\ t.last = s.last /\ s.next \in Nat /\ Len(s.batches) \in Nat
  BY Fields DEF Added
<1>3. b.accounted = FALSE /\ b.selected \in Nat /\ Day \in Nat
  BY BatchFields, ScheduleAssumption DEF Fresh
<1> SUFFICES ASSUME NEW i \in 1 .. k, t.batches[i].accounted
             PROVE  /\ t.last # None
                    /\ t.batches[i].selected <= t.batches[i].consumed
                    /\ t.batches[i].consumed + Day <= t.next
                    /\ t.batches[i].selected <= b.selected
  BY <1>1 DEF Rested
<1>4. i \in 1 .. Len(s.batches)
  BY <1>1, <1>2, <1>3
<1>5. /\ s.last # None /\ s.batches[i].selected <= s.batches[i].consumed
      /\ s.batches[i].consumed + Day <= s.next
  BY <1>1, <1>4 DEF Rested
<1>6. s.batches[i].selected \in Nat /\ s.batches[i].consumed \in Nat
  BY <1>4, Fields, BatchFields
<1>7. s.batches[i].selected <= b.selected
  BY <1>2, <1>3, <1>5, <1>6
<1> QED BY <1>1, <1>2, <1>4, <1>5, <1>7

LEMMA AddedRotating ==
    ASSUME NEW s \in Reflections, NEW t \in Reflections, NEW b \in BatchRecords, Added(s, t, b),
           NEW tg \in [Targets -> TargetRecords], Fresh(s, tg, b), Live(s) = {},
           Rested(s), Rotating(s, tg)
    PROVE  Rotating(t, tg)
<1> DEFINE k == Len(s.batches) + 1
<1>1. /\ Len(t.batches) = k /\ t.batches[k] = b /\ Live(t) = {k}
      /\ DOMAIN t.batches = 1 .. k /\ DOMAIN s.batches = 1 .. Len(s.batches)
      /\ \A i \in 1 .. Len(s.batches) : t.batches[i] = s.batches[i]
  BY AddedBatches
<1>2. t.cursor = s.cursor /\ s.next \in Nat /\ Len(s.batches) \in Nat /\ s.cursor \in [Families -> Nat]
  BY Fields DEF Added
<1>3. b.accounted = FALSE /\ b.due >= s.next /\ b.due \in Nat /\ b.selected \in Nat /\ Day \in Nat
  BY BatchFields, ScheduleAssumption DEF Fresh
<1>4. FirstInLine(t, tg, b)
  <2>1. Overlooked(b, tg) \in SUBSET Eligible(tg, b.due)
    BY DEF Overlooked, Eligible
  <2> QED BY <1>2, <2>1 DEF Fresh, FirstInLine
\* What an accounted batch overlooked is eligible for the new one.
<1>5. ASSUME NEW i \in 1 .. Len(s.batches), s.batches[i].accounted,
             NEW u \in Overlooked(s.batches[i], tg)
      PROVE  u \in Eligible(tg, b.due) /\ u \in Targets
  <2>1. s.batches[i].selected <= s.batches[i].consumed /\ s.batches[i].consumed + Day <= s.next
    BY <1>1, <1>5 DEF Rested
  <2>2. s.batches[i].selected \in Nat /\ s.batches[i].consumed \in Nat
    BY Fields, BatchFields
  <2>3. u \in Staged(tg) /\ u \in Targets /\ tg[u].eligible < s.batches[i].selected + Day
    BY <1>5 DEF Overlooked, Staged
  <2>4. tg[u].eligible \in Nat
    BY <2>3 DEF TargetRecords
  <2>5. tg[u].eligible <= b.due
    BY <1>2, <1>3, <2>1, <2>2, <2>3, <2>4
  <2> QED BY <2>3, <2>5 DEF Eligible
<1>6. \A i \in 1 .. k : t.batches[i].accounted => i \in 1 .. Len(s.batches)
  BY <1>1, <1>2, <1>3
<1>7. NextInLine(t, tg)
  <2> SUFFICES ASSUME NEW i \in 1 .. k, t.batches[i].accounted,
                      NEW u \in Overlooked(t.batches[i], tg),
                      \A x \in i .. k : u \notin Listed(t.batches[x].refs),
                      NEW v \in Listed(t.batches[i].refs), u[1] = v[1]
               PROVE  Before(u, v, t.cursor[v[1]])
    BY <1>1 DEF NextInLine
  <2>1. i \in 1 .. Len(s.batches) /\ t.batches[i] = s.batches[i]
    BY <1>1, <1>6
  <2>2. \A x \in i .. Len(s.batches) : u \notin Listed(s.batches[x].refs)
    <3> TAKE x \in i .. Len(s.batches)
    <3>1. x \in 1 .. Len(s.batches) /\ x \in i .. k
      BY <1>2, <2>1
    <3> QED BY <1>1, <3>1
  <2> QED BY <1>1, <1>2, <2>1, <2>2 DEF Rotating, NextInLine
<1>8. Fair(t, tg)
  <2> SUFFICES ASSUME NEW j \in 1 .. k, NEW i \in 1 .. j - 1, t.batches[i].accounted,
                      NEW v \in Listed(t.batches[i].refs) \cap Listed(t.batches[j].refs),
                      NEW u \in Overlooked(t.batches[i], tg), u[1] = v[1]
               PROVE  \E x \in i .. j : u \in Listed(t.batches[x].refs)
    BY <1>1 DEF Fair
  <2>1. i \in 1 .. Len(s.batches) /\ t.batches[i] = s.batches[i] /\ i \in Nat /\ j \in Nat
    BY <1>1, <1>2
  <2>2. CASE j = k
    <3> SUFFICES ASSUME \A x \in i .. j : u \notin Listed(t.batches[x].refs) PROVE FALSE
      OBVIOUS
    <3>1. \A x \in i .. Len(s.batches) : u \notin Listed(s.batches[x].refs)
      <4> TAKE x \in i .. Len(s.batches)
      <4>1. x \in 1 .. Len(s.batches) /\ x \in i .. j
        BY <1>2, <2>1, <2>2
      <4> QED BY <1>1, <4>1
    <3>2. Before(u, v, s.cursor[v[1]])
      BY <1>1, <2>1, <3>1 DEF Rotating, NextInLine
    <3>3. j \in i .. j
      BY <2>1
    <3>4. u \in Eligible(tg, b.due) \ Listed(b.refs) /\ v \in Listed(b.refs)
      BY <1>1, <1>5, <2>1, <2>2, <3>3
    <3>5. Before(v, u, s.cursor[v[1]])
      BY <3>4 DEF Fresh
    <3>6. v \in Targets /\ u \in Targets
      BY <1>5, <2>1, <3>4, BatchFields
    <3>7. s.cursor[v[1]] \in Nat
      BY <1>2, <3>6, TargetsKnown
    <3> QED BY <3>2, <3>5, <3>6, <3>7, BeforeIsTotal
  <2>3. CASE j # k
    <3>1. j \in 1 .. Len(s.batches)
      BY <1>2, <2>3
    <3>2. PICK x \in i .. j : u \in Listed(s.batches[x].refs)
      BY <1>1, <2>1, <3>1 DEF Rotating, Fair
    <3>3. x \in 1 .. Len(s.batches)
      BY <2>1, <3>1
    <3> QED BY <1>1, <3>2, <3>3
  <2> QED BY <2>2, <2>3
<1> QED BY <1>1, <1>4, <1>7, <1>8 DEF Rotating

-----------------------------------------------------------------------------
(* Withdrawal and reconciliation *)

\* Statuses apart, t has the batches of s, and no other is live.
Alike(s, t) ==
    /\ Len(t.batches) = Len(s.batches) /\ t.cursor = s.cursor /\ Live(t) \subseteq Live(s)
    /\ \A i \in 1 .. Len(s.batches) :
        /\ t.batches[i].refs = s.batches[i].refs /\ t.batches[i].due = s.batches[i].due
        /\ t.batches[i].selected = s.batches[i].selected
        /\ t.batches[i].accounted = s.batches[i].accounted

LEMMA AlikeRotating ==
    ASSUME NEW s \in Reflections, NEW t \in Reflections, Alike(s, t), NEW tg, Rotating(s, tg)
    PROVE  Rotating(t, tg)
<1> DEFINE k == Len(s.batches)
<1>1. /\ k \in Nat /\ DOMAIN s.batches = 1 .. k /\ DOMAIN t.batches = 1 .. k
      /\ Len(t.batches) = k /\ t.cursor = s.cursor /\ Live(t) \subseteq Live(s)
      /\ \A i \in 1 .. k :
          /\ t.batches[i].refs = s.batches[i].refs
          /\ t.batches[i].accounted = s.batches[i].accounted
          /\ Overlooked(t.batches[i], tg) = Overlooked(s.batches[i], tg)
  BY Fields DEF Alike, Overlooked
<1> HIDE DEF k
<1>2. \A l \in Live(t) : FirstInLine(t, tg, t.batches[l])
  <2> TAKE l \in Live(t)
  <2>1. l \in 1 .. k /\ FirstInLine(s, tg, s.batches[l])
    BY <1>1 DEF Rotating, Live
  <2> QED BY <1>1, <2>1 DEF FirstInLine
<1>3. NextInLine(t, tg)
  <2> SUFFICES ASSUME NEW i \in 1 .. k, s.batches[i].accounted,
                      NEW u \in Overlooked(s.batches[i], tg),
                      \A x \in i .. k : u \notin Listed(t.batches[x].refs),
                      NEW v \in Listed(s.batches[i].refs), u[1] = v[1]
               PROVE  Before(u, v, s.cursor[v[1]])
    BY <1>1 DEF NextInLine
  <2>1. \A x \in i .. k : u \notin Listed(s.batches[x].refs)
    <3> TAKE x \in i .. k
    <3>1. x \in 1 .. k
      BY <1>1
    <3> QED BY <1>1, <3>1
  <2> QED BY <1>1, <2>1 DEF Rotating, NextInLine, k
<1>4. Fair(t, tg)
  <2> SUFFICES ASSUME NEW j \in 1 .. k, NEW i \in 1 .. j - 1, t.batches[i].accounted,
                      NEW v \in Listed(t.batches[i].refs) \cap Listed(t.batches[j].refs),
                      NEW u \in Overlooked(t.batches[i], tg), u[1] = v[1]
               PROVE  \E x \in i .. j : u \in Listed(t.batches[x].refs)
    BY <1>1 DEF Fair
  <2>1. i \in 1 .. k
    BY <1>1
  <2>2. PICK x \in i .. j : u \in Listed(s.batches[x].refs)
    BY <1>1, <2>1 DEF Rotating, Fair
  <2>3. x \in 1 .. k
    BY <1>1, <2>1
  <2> QED BY <1>1, <2>2, <2>3
<1> QED BY <1>2, <1>3, <1>4 DEF Rotating

LEMMA AlikeRested ==
    ASSUME NEW s \in Reflections, NEW t \in Reflections, Alike(s, t), Rested(s),
           t.last = s.last, t.next = s.next,
           \A i \in 1 .. Len(s.batches) :
               s.batches[i].accounted => t.batches[i].consumed = s.batches[i].consumed
    PROVE  Rested(t)
<1>1. /\ Len(s.batches) \in Nat
      /\ DOMAIN s.batches = 1 .. Len(s.batches) /\ DOMAIN t.batches = 1 .. Len(s.batches)
  BY Fields DEF Alike
<1>2. \A l \in Live(t) : l \in Live(s) /\ l \in 1 .. Len(s.batches)
  BY <1>1 DEF Alike, Live
<1> QED BY <1>1, <1>2 DEF Alike, Rested

\* What the managed batch is at.
Held(s) == IF s.managed = None THEN "none" ELSE s.batches[s.managed].status

Freed(s) == Released(IF Held(s) = "pending"
                     THEN [s EXCEPT !.batches[s.managed].status = "cancelled"] ELSE s)

LEMMA ReconciledCases ==
    ASSUME NEW s, NEW tg, NEW now
    PROVE  Reconciled(s, tg, now) =
               IF Held(s) = "claimed"
                  \/ (Held(s) = "pending" /\ StillPending(s.batches[s.managed], tg))
               THEN s
               ELSE IF Staged(tg) = {} THEN Freed(s) ELSE NewBatch(Freed(s), tg, now)
BY Zenon DEF Reconciled, Freed, Held

LEMMA FreedIsSound ==
    ASSUME NEW s, NEW all, Sound(s, all), Held(s) # "claimed"
    PROVE  /\ Freed(s) \in Reflections /\ Sound(Freed(s), all)
           /\ Live(Freed(s)) = {} /\ Alike(s, Freed(s))
           /\ \A i \in 1 .. Len(s.batches) : Freed(s).batches[i].consumed = s.batches[i].consumed
           /\ Freed(s).present = s.present /\ Freed(s).next = s.next /\ Freed(s).last = s.last
           /\ Freed(s).managed = None
<1> DEFINE m  == s.managed
           k  == Len(s.batches)
           f  == Freed(s)
<1>1. /\ s \in Reflections /\ k \in Nat /\ DOMAIN s.batches = 1 .. k /\ s.batches \in Seq(BatchRecords)
      /\ Numbered(s, all) /\ StateValid(s, all, FALSE) /\ \A b \in 1 .. k : Kept(s, all, b)
      /\ all \in Seq(CycleRecords) /\ s.cursor \in [Families -> Nat]
  BY Fields DEF Sound
<1>2. s = [present |-> s.present, next |-> s.next, managed |-> m, last |-> s.last,
           pending |-> s.pending, cursor |-> s.cursor, batches |-> s.batches]
  BY <1>1 DEF Reflections
<1>3. \E bs \in Seq(BatchRecords) :
          /\ f = [s EXCEPT !.batches = bs, !.managed = None, !.pending = FALSE]
          /\ Len(bs) = k
          /\ \A i \in 1 .. k :
              /\ bs[i].refs = s.batches[i].refs /\ bs[i].due = s.batches[i].due
              /\ bs[i].selected = s.batches[i].selected /\ bs[i].consumed = s.batches[i].consumed
              /\ bs[i].accounted = s.batches[i].accounted
              /\ bs[i].status = IF i = m /\ Held(s) = "pending" THEN "cancelled"
                                ELSE s.batches[i].status
  <2>1. CASE Held(s) = "pending"
    <3> DEFINE bs == [s.batches EXCEPT ![m] = [@ EXCEPT !.status = "cancelled"]]
    <3>1. m \in 1 .. k
      BY <1>1, <2>1 DEF Held, Numbered, None
    <3> DEFINE b == s.batches[m]
               c == [b EXCEPT !.status = "cancelled"]
    <3>2. /\ b \in BatchRecords /\ c \in BatchRecords
          /\ c.refs = b.refs /\ c.due = b.due /\ c.selected = b.selected
          /\ c.consumed = b.consumed /\ c.accounted = b.accounted /\ c.status = "cancelled"
      <4>1. b \in BatchRecords
        BY <1>1, <3>1
      <4> HIDE DEF b
      <4>2. c \in BatchRecords /\ c.refs = b.refs /\ c.due = b.due /\ c.selected = b.selected
        BY <4>1, BatchMarked
      <4>3. c.consumed = b.consumed /\ c.accounted = b.accounted /\ c.status = "cancelled"
        BY <4>1 DEF BatchRecords
      <4> QED BY <4>1, <4>2, <4>3
    <3>3. bs \in Seq(BatchRecords) /\ Len(bs) = k
      BY <1>1, <3>1, <3>2
    <3>4. f = [s EXCEPT !.batches = bs, !.managed = None, !.pending = FALSE]
      <4>1. f = Released([s EXCEPT !.batches[s.managed].status = "cancelled"])
        BY <2>1 DEF Freed
      <4>2. [s EXCEPT !.batches[s.managed].status = "cancelled"] = [s EXCEPT !.batches = bs]
        OBVIOUS
      <4>3. Released([s EXCEPT !.batches = bs])
                = [s EXCEPT !.batches = bs, !.managed = None, !.pending = FALSE]
        <5> HIDE DEF bs
        <5> QED BY <1>2 DEF Released
      <4> QED BY <4>1, <4>2, <4>3
    <3>5. ASSUME NEW i \in 1 .. k
          PROVE  /\ bs[i].refs = s.batches[i].refs /\ bs[i].due = s.batches[i].due
                 /\ bs[i].selected = s.batches[i].selected
                 /\ bs[i].consumed = s.batches[i].consumed
                 /\ bs[i].accounted = s.batches[i].accounted
                 /\ bs[i].status = IF i = m /\ Held(s) = "pending" THEN "cancelled"
                                   ELSE s.batches[i].status
      <4>1. bs[i] = IF i = m THEN c ELSE s.batches[i]
        BY <1>1, <3>1
      <4> HIDE DEF bs, c
      <4> QED BY <2>1, <3>2, <4>1
    <3> QED BY <3>3, <3>4, <3>5
  <2>2. CASE Held(s) # "pending"
    <3>1. f = [s EXCEPT !.batches = s.batches, !.managed = None, !.pending = FALSE]
      <4>1. f = [s EXCEPT !.managed = None, !.pending = FALSE]
        BY <2>2 DEF Freed, Released
      <4> QED BY <1>2, <4>1
    <3> QED BY <1>1, <2>2, <3>1
  <2> QED BY <2>1, <2>2
<1> HIDE DEF m, f, k
<1>4. PICK bs \in Seq(BatchRecords) :
          /\ f = [s EXCEPT !.batches = bs, !.managed = None, !.pending = FALSE]
          /\ Len(bs) = k
          /\ \A i \in 1 .. k :
              /\ bs[i].refs = s.batches[i].refs /\ bs[i].due = s.batches[i].due
              /\ bs[i].selected = s.batches[i].selected /\ bs[i].consumed = s.batches[i].consumed
              /\ bs[i].accounted = s.batches[i].accounted
              /\ bs[i].status = IF i = m /\ Held(s) = "pending" THEN "cancelled"
                                ELSE s.batches[i].status
  BY <1>3
<1>5. /\ f.batches = bs /\ f.managed = None /\ f.pending = FALSE /\ f.present = s.present
      /\ f.next = s.next /\ f.last = s.last /\ f.cursor = s.cursor /\ f \in Reflections
      /\ DOMAIN bs = 1 .. k
  <2>1. f \in Reflections
    BY <1>1, <1>4 DEF Reflections, None
  <2>2. /\ f.batches = bs /\ f.managed = None /\ f.pending = FALSE /\ f.present = s.present
        /\ f.next = s.next /\ f.last = s.last /\ f.cursor = s.cursor
    BY <1>2, <1>4
  <2> QED BY <1>1, <1>4, <2>1, <2>2
<1>6. \A i \in 1 .. k : s.batches[i].status \in {"pending", "claimed"} => i = m
  BY <1>1 DEF StateValid, Live, m
<1>7. \A i \in 1 .. k : bs[i].status \notin {"pending", "claimed"}
  <2> TAKE i \in 1 .. k
  <2>1. CASE s.batches[i].status \in {"pending", "claimed"}
    <3>1. i = m /\ m # None
      BY <1>1, <1>6, <2>1 DEF None
    <3>2. Held(s) = s.batches[i].status
      BY <3>1 DEF Held, m
    <3> QED BY <1>4, <2>1, <3>1, <3>2
  <2>2. CASE s.batches[i].status \notin {"pending", "claimed"}
    BY <1>4, <2>2
  <2> QED BY <2>1, <2>2
<1>8. Live(f) = {}
  BY <1>5, <1>7 DEF Live
<1>9. Alike(s, f)
  BY <1>4, <1>5, <1>8 DEF Alike, k
<1>10. Sound(f, all)
  <2>1. Numbered(f, all)
    <3>1. k = 0 => bs = <<>>
      BY <1>4
    <3>2. s.batches = <<>> => k = 0
      BY DEF k
    <3>3. \A i \in 1 .. k : bs[i].status = "pending" => bs[i].consumed = Never
      BY <1>1, <1>4 DEF Numbered
    <3> HIDE DEF k
    <3>4. Len(f.batches) = k /\ (k = 0 => f.batches = <<>>) /\ None \in {None, k}
      BY <1>4, <1>5, <3>1
    <3> QED BY <1>1, <1>5, <3>2, <3>3, <3>4 DEF Numbered, k
  <2>2. StateValid(f, all, FALSE)
    BY <1>1, <1>5, <1>8 DEF StateValid, CadenceValid, ManagedValid
  <2>3. ASSUME NEW i \in 1 .. k PROVE Kept(f, all, i)
    <3> DEFINE b == s.batches[i]
               c == f.batches[i]
    <3>1. CASE bs[i].status = s.batches[i].status
      <4>1. c.refs = b.refs /\ c.consumed = b.consumed /\ c.accounted = b.accounted /\ c.status = b.status
        BY <1>4, <1>5, <3>1
      <4> HIDE DEF c
      <4>2. Kept(s, all, i)
        BY <1>1
      <4> QED BY <4>1, <4>2, Zenon DEF Kept, b, c
    <3>2. CASE bs[i].status # s.batches[i].status
      <4>1. bs[i].status = "cancelled" /\ s.batches[i].status = "pending"
        BY <1>1, <1>4, <3>2 DEF Held, m, Numbered
      <4> QED BY <1>1, <1>4, <1>5, <4>1 DEF Kept
    <3> QED BY <3>1, <3>2
  <2> QED BY <1>1, <1>5, <2>1, <2>2, <2>3 DEF Sound
<1> QED BY <1>4, <1>5, <1>8, <1>9, <1>10 DEF f, k

\* Reconciliation keeps everything; it leaves the schedule alone.
LEMMA ReconciledStands ==
    ASSUME NEW s, NEW all, NEW tg \in [Targets -> TargetRecords], NEW now \in Nat,
           Sound(s, all), s.present, Rested(s), Rotating(s, tg),
           s.last # None => now + Day >= s.next
    PROVE  LET t == Reconciled(s, tg, now)
           IN  /\ Sound(t, all) /\ Rested(t) /\ Rotating(t, tg)
               /\ t.present /\ t.next = s.next /\ t.last = s.last
               /\ t.managed # None => t = s \/ t.batches[t.managed].selected = now
               /\ \A l \in Live(t) :
                      t.batches[l].status = "pending" => StillPending(t.batches[l], tg)
<1> DEFINE f == Freed(s)
<1>0. s \in Reflections
  BY DEF Sound
<1>1. CASE Held(s) = "claimed" \/ (Held(s) = "pending" /\ StillPending(s.batches[s.managed], tg))
  <2>1. Reconciled(s, tg, now) = s
    BY <1>1, ReconciledCases
  <2>2. ASSUME NEW l \in Live(s), s.batches[l].status = "pending"
        PROVE  StillPending(s.batches[l], tg)
    <3>1. l \in 1 .. Len(s.batches)
      BY <1>0, Fields DEF Live
    <3>2. Live(s) \subseteq {s.managed}
      BY DEF Sound, StateValid
    <3>3. l = s.managed /\ l # None
      BY <3>1, <3>2 DEF None
    <3> QED BY <1>1, <2>2, <3>3 DEF Held
  <2> QED BY <2>1, <2>2
<1>2. CASE ~ (Held(s) = "claimed" \/ (Held(s) = "pending" /\ StillPending(s.batches[s.managed], tg)))
  <2>1. /\ f \in Reflections /\ Sound(f, all) /\ Live(f) = {} /\ Alike(s, f)
        /\ \A i \in 1 .. Len(s.batches) : f.batches[i].consumed = s.batches[i].consumed
        /\ f.present = s.present /\ f.next = s.next /\ f.last = s.last /\ f.managed = None
    BY <1>2, FreedIsSound
  <2> HIDE DEF f
  <2>2. Rested(f)
    BY <1>0, <2>1, AlikeRested
  <2>3. Rotating(f, tg)
    BY <1>0, <2>1, AlikeRotating
  <2>4. CASE Staged(tg) = {}
    <3>1. Reconciled(s, tg, now) = f
      BY <1>2, <2>4, ReconciledCases DEF f
    <3> QED BY <2>1, <2>2, <2>3, <3>1
  <2>5. CASE Staged(tg) # {}
    <3> DEFINE t == NewBatch(f, tg, now)
    <3>1. PICK b \in BatchRecords : t \in Reflections /\ Added(f, t, b)
                                    /\ b.selected = now /\ Fresh(f, tg, b)
      BY <2>1, <2>5, BatchFresh
    <3>2. Reconciled(s, tg, now) = t
      BY <1>2, <2>5, ReconciledCases DEF f
    <3> HIDE DEF t
    <3>3. Sound(t, all)
      BY <2>1, <3>1, AddedSound
    <3>4. Rested(t)
      BY <2>1, <2>2, <3>1, AddedRested
    <3>5. Rotating(t, tg)
      BY <2>1, <2>2, <2>3, <3>1, AddedRotating
    <3>6. t.batches[t.managed] = b /\ Live(t) = {t.managed}
      <4>1. t.batches[Len(f.batches) + 1] = b /\ Live(t) = {Len(f.batches) + 1}
        BY <2>1, <3>1, AddedBatches
      <4>2. t.managed = Len(f.batches) + 1
        BY <3>1 DEF Added
      <4> QED BY <4>1, <4>2
    <3>8. StillPending(b, tg)
      BY <3>1 DEF Fresh
    <3>7. t.present /\ t.next = s.next /\ t.last = s.last
      BY <2>1, <3>1 DEF Added
    <3> QED BY <3>1, <3>2, <3>3, <3>4, <3>5, <3>6, <3>7, <3>8
  <2> QED BY <2>4, <2>5
<1> QED BY <1>1, <1>2

-----------------------------------------------------------------------------
(* Development *)

LEMMA Clocks ==
    ASSUME TypeOK, NEW p \in Runtimes
    PROVE  /\ Now(p) \in Nat
           /\ Now(p) = IF clock + Skew[p] <= Horizon THEN clock + Skew[p] ELSE Horizon
<1>1. clock + Skew[p] \in Nat /\ Horizon \in Nat
  BY RuntimeAssumption, ReflectionBounds DEF TypeOK
<1> QED BY <1>1, SmallerOfTwo DEF Now

\* A clock that is not behind is not before any selection that matters.
LEMMA NotBehind ==
    ASSUME NEW s, NEW all, Sound(s, all), Rested(s), NEW now \in Nat, ClockValid(s, all, now)
    PROVE  /\ \A i \in 1 .. Len(s.batches) : s.batches[i].accounted => s.batches[i].selected <= now
           /\ \A l \in Live(s) : s.batches[l].selected <= now
           /\ s.last # None => now + Day >= s.next
<1>1. /\ s \in Reflections /\ DOMAIN s.batches = 1 .. Len(s.batches) /\ s.next \in Nat
      /\ all \in Seq(CycleRecords) /\ s.last \in 0 .. Len(all) /\ Day \in Nat
  BY Fields, ScheduleAssumption DEF Sound, Numbered
<1>2. ASSUME s.last # None
      PROVE  now + Day >= s.next /\ s.next = all[s.last].completed + Day
                 /\ all[s.last].completed \in Nat /\ now >= all[s.last].completed
  <2>1. s.last \in 1 .. Len(all)
    BY <1>1, <1>2 DEF None
  <2>2. all[s.last].completed \in Nat /\ now >= all[s.last].completed
    <3>1. all[s.last] \in CycleRecords
      BY <1>1, <2>1
    <3>2. now >= all[s.last].completed
      BY <1>2 DEF ClockValid
    <3> QED BY <3>1, <3>2 DEF CycleRecords
  <2>3. s.next = all[s.last].completed + Day
    <3>1. s.present
      BY <1>1, <1>2, Fields DEF Sound, Numbered
    <3>2. CadenceValid(s, all)
      BY <3>1 DEF Sound, StateValid
    <3> QED BY <1>2, <3>2 DEF CadenceValid
  <2>4. now + Day >= s.next
    BY <1>1, <2>2, <2>3
  <2> QED BY <2>2, <2>3, <2>4
<1>3. ASSUME NEW i \in 1 .. Len(s.batches), s.batches[i].accounted
      PROVE  s.batches[i].selected <= now
  <2>1. /\ s.last # None /\ s.batches[i].selected <= s.batches[i].consumed
        /\ s.batches[i].consumed + Day <= s.next
    BY <1>1, <1>3 DEF Rested
  <2>2. s.batches[i].selected \in Nat /\ s.batches[i].consumed \in Nat
    BY <1>1, Fields, BatchFields
  <2>3. now + Day >= s.next
    BY <1>2, <2>1
  <2>4. \A a, b, n, d \in Nat : a <= b /\ b + d <= n /\ now + d >= n => a <= now
    OBVIOUS
  <2> QED BY <1>1, <2>1, <2>2, <2>3, <2>4
<1>4. ASSUME NEW l \in Live(s) PROVE s.batches[l].selected <= now
  <2>1. l \in 1 .. Len(s.batches) /\ l # None
    BY <1>1 DEF Live, None
  <2>2. Live(s) \subseteq {s.managed}
    BY DEF Sound, StateValid
  <2>3. l = s.managed
    BY <2>2
  <2> QED BY <2>1, <2>3 DEF ClockValid
<1> QED BY <1>2, <1>3, <1>4

\* Whatever is staged in tg was so before, unchanged, or is new.
Develops(tg, old, now) ==
    /\ tg \in [Targets -> TargetRecords]
    /\ \A u \in Staged(tg) : \/ u \in Staged(old) /\ tg[u] = old[u]
                             \/ tg[u].eligible = now + Day

LEMMA DevelopedDevelops ==
    ASSUME TypeOK, NEW now \in Nat, NEW c, NEW tg \in Developed(c, now)
    PROVE  Develops(tg, target, now)
<1>1. target \in [Targets -> TargetRecords] /\ now + Day \in Nat
  BY ScheduleAssumption DEF TypeOK
<1>2. CASE tg = target
  BY <1>1, <1>2 DEF Develops
<1>3. ASSUME NEW t \in Targets,
             tg = [target EXCEPT ![t] = [status |-> "staged", eligible |-> now + Day]]
      PROVE  Develops(tg, target, now)
  BY <1>1, <1>3 DEF Develops, Staged, TargetRecords
<1>4. ASSUME NEW t \in Targets,
             tg = [target EXCEPT ![t] = [status |-> "settled", eligible |-> Never]]
      PROVE  Develops(tg, target, now)
  BY <1>1, <1>4 DEF Develops, Staged, TargetRecords, Never
<1> QED BY <1>2, <1>3, <1>4 DEF Developed

LEMMA DevelopedRotating ==
    ASSUME NEW s, NEW all, Sound(s, all), Rested(s), NEW now \in Nat, ClockValid(s, all, now),
           NEW old, NEW tg, Develops(tg, old, now), Rotating(s, old)
    PROVE  Rotating(s, tg)
<1>1. /\ s \in Reflections /\ DOMAIN s.batches = 1 .. Len(s.batches) /\ Len(s.batches) \in Nat
      /\ Day \in Nat
  BY Fields, ScheduleAssumption DEF Sound
<1>2. ASSUME NEW i \in 1 .. Len(s.batches), s.batches[i].accounted \/ i \in Live(s)
      PROVE  Overlooked(s.batches[i], tg) \in SUBSET Overlooked(s.batches[i], old)
  <2>1. s.batches[i].selected <= now /\ s.batches[i].selected \in Nat
    BY <1>1, <1>2, NotBehind, Fields, BatchFields
  <2> SUFFICES ASSUME NEW u \in Overlooked(s.batches[i], tg)
               PROVE  u \in Overlooked(s.batches[i], old)
    OBVIOUS
  <2>2. u \in Staged(tg) /\ tg[u].eligible < s.batches[i].selected + Day
    BY DEF Overlooked
  <2>3. tg[u].eligible # now + Day
    BY <1>1, <2>1, <2>2
  <2>4. u \in Staged(old) /\ tg[u] = old[u]
    BY <2>2, <2>3 DEF Develops
  <2> QED BY <2>4 DEF Overlooked
<1>3. \A l \in Live(s) : FirstInLine(s, tg, s.batches[l])
  <2> TAKE l \in Live(s)
  <2>1. l \in 1 .. Len(s.batches) /\ FirstInLine(s, old, s.batches[l])
    BY <1>1 DEF Rotating, Live
  <2> QED BY <1>2, <2>1 DEF FirstInLine
<1>4. NextInLine(s, tg)
  BY <1>1, <1>2 DEF Rotating, NextInLine
<1>5. Fair(s, tg)
  <2> SUFFICES ASSUME NEW j \in 1 .. Len(s.batches), NEW i \in 1 .. j - 1, s.batches[i].accounted,
                      NEW v \in Listed(s.batches[i].refs) \cap Listed(s.batches[j].refs),
                      NEW u \in Overlooked(s.batches[i], tg), u[1] = v[1]
               PROVE  \E x \in i .. j : u \in Listed(s.batches[x].refs)
    BY <1>1 DEF Fair
  <2>1. i \in 1 .. Len(s.batches)
    BY <1>1
  <2>2. u \in Overlooked(s.batches[i], old)
    BY <1>2, <2>1
  <2> QED BY <1>1, <2>1, <2>2 DEF Rotating, Fair
<1> QED BY <1>3, <1>4, <1>5 DEF Rotating

-----------------------------------------------------------------------------
(* The end of a cycle *)

\* The cycles, once the last of them has ended.
EndedWith(all, status, now) ==
    [all EXCEPT ![Len(all)] = [@ EXCEPT !.status = status, !.completed = now]]

LEMMA EndedCycles ==
    ASSUME NEW all \in Seq(CycleRecords), all # <<>>, NEW now \in Nat,
           NEW status \in {"completed", "failed"}
    PROVE  LET e == EndedWith(all, status, now)
               c == Len(all)
           IN  /\ e \in Seq(CycleRecords) /\ Len(e) = c /\ c \in Nat /\ c \in 1 .. c
               /\ DOMAIN e = 1 .. c /\ DOMAIN all = 1 .. c
               /\ e[c].status = status /\ e[c].completed = now
               /\ \A x \in 1 .. c : e[x].batch = all[x].batch
               /\ \A x \in 1 .. c : x # c => e[x] = all[x]
               /\ \A b : CyclesOf(b, e) = CyclesOf(b, all)
<1> DEFINE e == EndedWith(all, status, now)
           c == Len(all)
           r == [all[c] EXCEPT !.status = status, !.completed = now]
<1>1. c \in Nat /\ c \in 1 .. c /\ DOMAIN all = 1 .. c
  OBVIOUS
<1>2. all[c] \in CycleRecords
  BY <1>1
<1>3. r \in CycleRecords /\ r.batch = all[c].batch /\ r.status = status /\ r.completed = now
  BY <1>2 DEF CycleRecords
<1>4. e = [all EXCEPT ![c] = r]
  BY DEF EndedWith, c
<1> HIDE DEF r, e, c
<1>5. /\ e \in Seq(CycleRecords) /\ Len(e) = c /\ DOMAIN e = 1 .. c /\ e[c] = r
      /\ \A x \in 1 .. c : x # c => e[x] = all[x]
  <2>1. DOMAIN all = 1 .. c /\ all \in [1 .. c -> CycleRecords]
    BY <1>1 DEF c
  <2>2. e = [all EXCEPT ![c] = r]
    BY <1>4
  <2>3. /\ e \in [1 .. c -> CycleRecords] /\ DOMAIN e = 1 .. c /\ e[c] = r
        /\ \A x \in 1 .. c : x # c => e[x] = all[x]
    BY <1>1, <1>3, <2>1, <2>2
  <2>4. \A q \in [1 .. c -> CycleRecords] : q \in Seq(CycleRecords) /\ Len(q) = c
    BY <1>1
  <2> QED BY <2>3, <2>4
<1>6. \A x \in 1 .. c : e[x].batch = all[x].batch
  BY <1>3, <1>5
<1>7. \A b : CyclesOf(b, e) = CyclesOf(b, all)
  BY <1>1, <1>5, <1>6 DEF CyclesOf
<1> QED BY <1>1, <1>3, <1>5, <1>6, <1>7 DEF e, c

\* A cycle without a batch leaves the schedule alone.
LEMMA OtherEnds ==
    ASSUME NEW s, NEW all, Sound(s, all), all # <<>>, Latest(all).status = "active",
           NEW now \in Nat, NEW status \in {"completed", "failed"},
           Latest(all).batch = None, StateValid(s, EndedWith(all, status, now), TRUE)
    PROVE  Sound(s, EndedWith(all, status, now))
<1> DEFINE e == EndedWith(all, status, now)
           c == Len(all)
<1>1. /\ s \in Reflections /\ all \in Seq(CycleRecords) /\ Numbered(s, all)
      /\ StateValid(s, all, FALSE) /\ \A b \in DOMAIN s.batches : Kept(s, all, b)
      /\ DOMAIN s.batches = 1 .. Len(s.batches)
  BY Fields DEF Sound
<1>2. /\ e \in Seq(CycleRecords) /\ Len(e) = c /\ c \in Nat /\ c \in 1 .. c
      /\ DOMAIN e = 1 .. c /\ DOMAIN all = 1 .. c /\ e[c].status = status
      /\ \A x \in 1 .. c : e[x].batch = all[x].batch
      /\ \A x \in 1 .. c : x # c => e[x] = all[x]
      /\ \A b : CyclesOf(b, e) = CyclesOf(b, all)
  BY <1>1, EndedCycles
<1>3. all[c].status = "active" /\ all[c].batch = None
  BY DEF Latest
<1> HIDE DEF e, c
<1>4. Numbered(s, e)
  BY <1>1, <1>2 DEF Numbered, c
<1>5. StateValid(s, e, FALSE)
  <2>1. StateValid(s, e, TRUE)
    BY DEF e
  <2>2. ASSUME s.present, s.managed # None PROVE ManagedValid(s, e, FALSE)
    <3>1. ManagedValid(s, e, TRUE) /\ ManagedValid(s, all, FALSE)
      BY <1>1, <2>1, <2>2 DEF StateValid
    <3> QED BY <3>1 DEF ManagedValid
  <2> QED BY <2>1, <2>2 DEF StateValid
<1>6. ASSUME NEW b \in 1 .. Len(s.batches) PROVE Kept(s, e, b)
  <2>1. Kept(s, all, b)
    BY <1>1
  <2>2. \A x \in CyclesOf(b, all) : e[x] = all[x]
    <3> TAKE x \in CyclesOf(b, all)
    <3>1. x \in 1 .. c /\ all[x].batch = b
      BY <1>2 DEF CyclesOf
    <3>2. x # c
      BY <1>3, <3>1 DEF None
    <3> QED BY <1>2, <3>1, <3>2
  <2>3. CyclesOf(b, e) = CyclesOf(b, all)
    BY <1>2
  <2>4. CASE s.batches[b].status \in {"pending", "cancelled"}
    BY <2>1, <2>3, <2>4 DEF Kept
  <2>5. CASE s.batches[b].status \notin {"pending", "cancelled"}
    <3>1. PICK x \in DOMAIN all : /\ CyclesOf(b, all) = {x}
                                  /\ (all[x].status = "active") <=> (s.batches[b].status = "claimed")
                                  /\ s.batches[b].consumed = all[x].completed
      BY <2>1, <2>5 DEF Kept
    <3>2. e[x] = all[x] /\ x \in DOMAIN e
      BY <1>2, <2>2, <3>1
    <3> QED BY <2>1, <2>3, <2>5, <3>1, <3>2 DEF Kept
  <2> QED BY <2>4, <2>5
<1> QED BY <1>1, <1>2, <1>4, <1>5, <1>6 DEF Sound, e

\* The managed batch reviewed and accounted for.
Reviewed(s, d, c, b, now) ==
    /\ d \in Reflections /\ d.present = s.present /\ d.managed = s.managed /\ d.pending = TRUE
    /\ d.last = c /\ d.next = now + Day /\ d.cursor = Moved(s.cursor, s.batches[b].refs)
    /\ Len(d.batches) = Len(s.batches)
    /\ \A i \in 1 .. Len(s.batches) : i # b => d.batches[i] = s.batches[i]
    /\ d.batches[b].refs = s.batches[b].refs /\ d.batches[b].due = s.batches[b].due
    /\ d.batches[b].floor = s.batches[b].floor
    /\ d.batches[b].selected = s.batches[b].selected
    /\ d.batches[b].consumed = now /\ d.batches[b].accounted = TRUE
    /\ d.batches[b].status = "consumed"

\* The last reference of a family that a batch has.
LEMMA LastOfFamily ==
    ASSUME NEW cursor \in [Families -> Nat], NEW refs \in Seq(Targets)
    PROVE  \A f \in Families :
               \/ Moved(cursor, refs)[f] = cursor[f] /\ \A n \in DOMAIN refs : refs[n][1] # f
               \/ \E n \in DOMAIN refs :
                      /\ refs[n][1] = f /\ Moved(cursor, refs)[f] = refs[n][2]
                      /\ \A m \in DOMAIN refs : refs[m][1] = f => m <= n
<1> TAKE f \in Families
<1> DEFINE mine == {i \in DOMAIN refs : refs[i][1] = f}
<1>1. Moved(cursor, refs)[f] = IF mine = {} THEN cursor[f] ELSE refs[Max(mine)][2]
  BY DEF Moved
<1>2. CASE mine = {}
  BY <1>1, <1>2
<1>3. CASE mine # {}
  <2>1. mine \in SUBSET Nat /\ Len(refs) \in Nat /\ \A x \in mine : x <= Len(refs)
    OBVIOUS
  <2>2. Max(mine) \in mine /\ \A x \in mine : x <= Max(mine)
    <3> HIDE DEF mine
    <3> QED BY <1>3, <2>1, GreatestOfMany
  <2> QED BY <1>1, <1>3, <2>2
<1> QED BY <1>2, <1>3

LEMMA MovedCursor ==
    ASSUME NEW cursor \in [Families -> Nat], NEW refs \in Seq(Targets)
    PROVE  Moved(cursor, refs) \in [Families -> Nat]
<1>1. \A f \in Families : Moved(cursor, refs)[f] \in Nat
  <2> TAKE f \in Families
  <2>1. \A n \in DOMAIN refs : refs[n][2] \in Nat
    BY TargetsKnown
  <2> QED BY <2>1, LastOfFamily
<1> QED BY <1>1 DEF Moved

LEMMA CompletedReviews ==
    ASSUME NEW s \in Reflections, NEW b \in 1 .. Len(s.batches), NEW c \in CycleRecords,
           c.batch = b, NEW n \in Nat, NEW now \in Nat
    PROVE  Reviewed(s, Completed(Consumed(s, c, now), n, b, now), n, b, now)
<1> DEFINE old == s.batches[b]
           x   == [old EXCEPT !.status = "consumed", !.consumed = now]
           y   == [x EXCEPT !.accounted = TRUE]
           u   == Consumed(s, c, now)
           d   == Completed(u, n, b, now)
<1>1. /\ s.batches \in Seq(BatchRecords) /\ Len(s.batches) \in Nat /\ old \in BatchRecords
      /\ s.cursor \in [Families -> Nat]
  BY Fields
<1>2. /\ x \in BatchRecords /\ y \in BatchRecords
      /\ x.refs = old.refs /\ x.due = old.due /\ x.selected = old.selected /\ x.floor = old.floor
      /\ y.refs = old.refs /\ y.due = old.due /\ y.selected = old.selected /\ y.floor = old.floor
  <2> HIDE DEF old
  <2>1. /\ x \in BatchRecords
        /\ x.refs = old.refs /\ x.due = old.due /\ x.selected = old.selected /\ x.floor = old.floor
    BY <1>1, BatchMarked
  <2> HIDE DEF x
  <2>2. /\ y \in BatchRecords
        /\ y.refs = x.refs /\ y.due = x.due /\ y.selected = x.selected /\ y.floor = x.floor
    BY <2>1, BatchMarked
  <2> QED BY <2>1, <2>2
<1>3. x.status = "consumed" /\ x.consumed = now
  <2> HIDE DEF old
  <2> QED BY <1>1 DEF BatchRecords
<1>4. y.status = x.status /\ y.consumed = x.consumed /\ y.accounted = TRUE
  <2> HIDE DEF x
  <2> QED BY <1>2 DEF BatchRecords
<1>5. u = [s EXCEPT !.batches = [s.batches EXCEPT ![b] = x]]
  <2>1. c.batch # None
    BY DEF None
  <2>2. u = [s EXCEPT !.batches[b].status = "consumed", !.batches[b].consumed = now]
    BY <2>1 DEF Consumed
  <2>3. s = [present |-> s.present, next |-> s.next, managed |-> s.managed, last |-> s.last,
             pending |-> s.pending, cursor |-> s.cursor, batches |-> s.batches]
    BY DEF Reflections
  <2> DEFINE z  == [old EXCEPT !.status = "consumed"]
             v  == [s.batches EXCEPT ![b] = z]
             s1 == [s EXCEPT !.batches = v]
  <2>4. u = [[s EXCEPT !.batches[b].status = "consumed"] EXCEPT !.batches[b].consumed = now]
    BY <2>2
  <2>5. [s EXCEPT !.batches[b].status = "consumed"] = s1
    OBVIOUS
  <2>6. s1.batches = v
    <3> HIDE DEF v
    <3> QED BY <2>3
  <2>7. [s1 EXCEPT !.batches[b].consumed = now] = [s1 EXCEPT !.batches = [v EXCEPT ![b].consumed = now]]
    <3> HIDE DEF s1, v
    <3> QED BY <2>6
  <2>8. [v EXCEPT ![b].consumed = now] = [s.batches EXCEPT ![b] = [z EXCEPT !.consumed = now]]
    <3> HIDE DEF z
    <3> QED BY <1>1
  <2>9. [z EXCEPT !.consumed = now] = x
    OBVIOUS
  <2>10. [s1 EXCEPT !.batches = [s.batches EXCEPT ![b] = x]]
             = [s EXCEPT !.batches = [s.batches EXCEPT ![b] = x]]
    <3> HIDE DEF v, x
    <3> QED BY <2>3
  <2> HIDE DEF s1, v, z, x, u
  <2> QED BY <2>4, <2>5, <2>7, <2>8, <2>9, <2>10
<1> DEFINE bs == [s.batches EXCEPT ![b] = y]
           ubs == [s.batches EXCEPT ![b] = x]
<1>6. /\ u.batches = ubs /\ u.cursor = s.cursor /\ u.present = s.present /\ u.managed = s.managed
      /\ u \in Reflections
  <2>1. ubs \in Seq(BatchRecords)
    <3> HIDE DEF x
    <3> QED BY <1>1, <1>2
  <2> HIDE DEF ubs, u
  <2> QED BY <1>5, <2>1 DEF Reflections, ubs
<1>7. ubs[b] = x /\ [ubs EXCEPT ![b] = y] = bs
  <2> HIDE DEF x, y
  <2> QED BY <1>1
<1>8. d = [u EXCEPT !.cursor = Moved(s.cursor, old.refs), !.last = n, !.next = now + Day,
                    !.pending = TRUE, !.batches = bs]
  <2>1. d = [u EXCEPT !.cursor = Moved(u.cursor, u.batches[b].refs), !.last = n, !.next = now + Day,
                      !.pending = TRUE, !.batches[b].accounted = TRUE]
    BY DEF Completed
  <2>2. u = [present |-> u.present, next |-> u.next, managed |-> u.managed, last |-> u.last,
             pending |-> u.pending, cursor |-> u.cursor, batches |-> u.batches]
    BY <1>6 DEF Reflections
  <2>3. [u.batches EXCEPT ![b].accounted = TRUE] = bs
    <3> HIDE DEF x, ubs, bs, u
    <3> QED BY <1>6, <1>7
  <2>4. u.batches[b].refs = old.refs
    <3> HIDE DEF x, u
    <3> QED BY <1>2, <1>6, <1>7
  <2> HIDE DEF u, d, old, bs
  <2> QED BY <1>6, <2>1, <2>2, <2>3, <2>4
<1>9. /\ bs \in Seq(BatchRecords) /\ Len(bs) = Len(s.batches) /\ bs[b] = y
      /\ \A i \in 1 .. Len(s.batches) : i # b => bs[i] = s.batches[i]
  <2> HIDE DEF y
  <2> QED BY <1>1, <1>2
<1>10. Moved(s.cursor, old.refs) \in [Families -> Nat] /\ now + Day \in Nat
  <2>1. old.refs \in Seq(Targets)
    BY <1>1, BatchFields
  <2> QED BY <1>1, <2>1, MovedCursor, ScheduleAssumption
<1>11. /\ d \in Reflections /\ d.present = s.present /\ d.managed = s.managed /\ d.pending = TRUE
       /\ d.last = n /\ d.next = now + Day /\ d.cursor = Moved(s.cursor, old.refs)
       /\ d.batches = bs
  <2> HIDE DEF u, d, old, bs
  <2> QED BY <1>6, <1>8, <1>9, <1>10 DEF Reflections
<1> HIDE DEF bs, x, y, u, d
<1> QED BY <1>2, <1>3, <1>4, <1>9, <1>11 DEF Reviewed, d, u

\* The cycle that runs is about a batch: it is the managed one, and claimed.
LEMMA ClaimedBatch ==
    ASSUME NEW s, NEW all, Sound(s, all), all # <<>>, Latest(all).status = "active",
           Latest(all).batch # None
    PROVE  /\ Latest(all).batch = s.managed /\ s.managed = Len(s.batches)
           /\ s.managed \in 1 .. Len(s.batches) /\ s.present
           /\ Live(s) = {s.managed} /\ s.batches[s.managed].status = "claimed"
           /\ CyclesOf(s.managed, all) = {Len(all)} /\ s.batches[s.managed].due >= s.next
<1> DEFINE b == Latest(all).batch
           c == Len(all)
<1>1. /\ s \in Reflections /\ all \in Seq(CycleRecords) /\ Numbered(s, all)
      /\ StateValid(s, all, FALSE) /\ \A i \in DOMAIN s.batches : Kept(s, all, i)
      /\ DOMAIN s.batches = 1 .. Len(s.batches) /\ Len(s.batches) \in Nat
  BY Fields DEF Sound
<1>2. c \in DOMAIN all /\ all[c].batch = b /\ all[c].status = "active"
  BY <1>1 DEF Latest
<1>3. b \in 1 .. Len(s.batches)
  BY <1>1, <1>2 DEF Numbered, None
<1>4. c \in CyclesOf(b, all)
  BY <1>2 DEF CyclesOf
<1> HIDE DEF b, c
<1>5. s.batches[b].status = "claimed" /\ CyclesOf(b, all) = {c}
  <2>1. Kept(s, all, b)
    BY <1>1, <1>3
  <2>2. s.batches[b].status \notin {"pending", "cancelled"}
    BY <1>4, <2>1 DEF Kept
  <2>3. PICK x \in DOMAIN all : /\ CyclesOf(b, all) = {x}
                                /\ (all[x].status = "active") <=> (s.batches[b].status = "claimed")
    BY <2>1, <2>2 DEF Kept
  <2> QED BY <1>2, <1>4, <2>3
<1>6. b \in Live(s)
  BY <1>1, <1>3, <1>5 DEF Live
<1>7. s.present /\ Live(s) \subseteq {s.managed}
  BY <1>1, <1>6 DEF StateValid
<1>8. b = s.managed /\ s.managed # None /\ Live(s) = {s.managed}
  BY <1>1, <1>3, <1>6, <1>7 DEF None
<1>9. s.managed = Len(s.batches)
  BY <1>1, <1>8 DEF Numbered
<1>10. s.batches[b].due >= s.next
  BY <1>1, <1>5, <1>7, <1>8 DEF StateValid, ManagedValid
<1> QED BY <1>3, <1>5, <1>7, <1>8, <1>9, <1>10 DEF b, c

LEMMA ReviewSound ==
    ASSUME NEW s, NEW all, Sound(s, all), all # <<>>, Latest(all).status = "active",
           NEW now \in Nat, NEW status \in {"completed", "failed"}, NEW b, b = Latest(all).batch,
           b # None, s.batches[b].due >= s.batches[b].floor,
           NEW d, Reviewed(s, d, Len(all), b, now)
    PROVE  Sound(d, EndedWith(all, status, now)) /\ Live(d) = {}
<1> DEFINE e == EndedWith(all, status, now)
           c == Len(all)
           k == Len(s.batches)
<1>1. /\ s \in Reflections /\ all \in Seq(CycleRecords) /\ Numbered(s, all)
      /\ StateValid(s, all, FALSE) /\ \A i \in 1 .. k : Kept(s, all, i)
      /\ DOMAIN s.batches = 1 .. k /\ k \in Nat
  BY Fields DEF Sound
<1>2. /\ e \in Seq(CycleRecords) /\ Len(e) = c /\ c \in Nat /\ c \in 1 .. c
      /\ DOMAIN e = 1 .. c /\ DOMAIN all = 1 .. c /\ e[c].status = status /\ e[c].completed = now
      /\ \A x \in 1 .. c : e[x].batch = all[x].batch
      /\ \A x \in 1 .. c : x # c => e[x] = all[x]
      /\ \A i : CyclesOf(i, e) = CyclesOf(i, all)
  BY <1>1, EndedCycles
<1>3. /\ b = s.managed /\ b = k /\ b \in 1 .. k /\ s.present /\ Live(s) = {b}
      /\ CyclesOf(b, all) = {c}
  BY ClaimedBatch
<1>4. /\ d \in Reflections /\ d.present /\ d.managed = b /\ d.pending = TRUE
      /\ d.last = c /\ d.next = now + Day /\ Len(d.batches) = k /\ DOMAIN d.batches = 1 .. k
      /\ \A i \in 1 .. k : i # b => d.batches[i] = s.batches[i]
      /\ d.batches[b].refs = s.batches[b].refs /\ d.batches[b].due = s.batches[b].due
      /\ d.batches[b].floor = s.batches[b].floor
      /\ d.batches[b].consumed = now /\ d.batches[b].accounted = TRUE
      /\ d.batches[b].status = "consumed"
  BY <1>3, Fields DEF Reviewed
<1> HIDE DEF e, c, k
<1>5. Live(d) = {}
  <2> SUFFICES ASSUME NEW l \in Live(d) PROVE FALSE
    OBVIOUS
  <2>1. l \in 1 .. k /\ d.batches[l].status \in {"pending", "claimed"}
    BY <1>4 DEF Live
  <2>2. l # b
    BY <1>4, <2>1
  <2>3. l \in Live(s)
    BY <1>1, <1>4, <2>1, <2>2 DEF Live
  <2> QED BY <1>3, <2>2, <2>3
<1>6. Numbered(d, e)
  BY <1>1, <1>2, <1>3, <1>4 DEF Numbered, k
<1>7. StateValid(d, e, FALSE)
  <2>1. CadenceValid(d, e)
    BY <1>2, <1>4 DEF CadenceValid
  <2>2. ManagedValid(d, e, FALSE)
    BY <1>2, <1>3, <1>4 DEF ManagedValid
  <2> QED BY <1>4, <1>5, <2>1, <2>2 DEF StateValid
<1>8. ASSUME NEW i \in 1 .. k PROVE Kept(d, e, i)
  <2>1. Kept(s, all, i) /\ CyclesOf(i, e) = CyclesOf(i, all)
    BY <1>1, <1>2
  <2>2. CASE i = b
    <3>1. Len(d.batches[i].refs) \in 1 .. BatchLimit /\ IsInjective(d.batches[i].refs)
      BY <1>4, <2>1, <2>2 DEF Kept
    <3>2. c \in DOMAIN e /\ CyclesOf(i, e) = {c} /\ e[c].status # "active" /\ e[c].completed = now
      BY <1>2, <1>3, <2>1, <2>2
    <3> QED BY <1>4, <2>2, <3>1, <3>2 DEF Kept
  <2>3. CASE i # b
    <3>1. d.batches[i] = s.batches[i]
      BY <1>4, <2>3
    <3>2. CASE s.batches[i].status \in {"pending", "cancelled"}
      BY <2>1, <3>1, <3>2 DEF Kept
    <3>3. CASE s.batches[i].status \notin {"pending", "cancelled"}
      <4>1. PICK x \in DOMAIN all :
                /\ CyclesOf(i, all) = {x}
                /\ (all[x].status = "active") <=> (s.batches[i].status = "claimed")
                /\ s.batches[i].consumed = all[x].completed
        BY <2>1, <3>3 DEF Kept
      <4>2. x # c
        <5>1. all[x].batch = i /\ c \in CyclesOf(b, all)
          BY <1>3, <4>1 DEF CyclesOf
        <5>2. all[c].batch = b
          BY <5>1 DEF CyclesOf
        <5> QED BY <2>3, <5>1, <5>2
      <4>3. e[x] = all[x] /\ x \in DOMAIN e
        BY <1>2, <4>1, <4>2
      <4> QED BY <2>1, <3>1, <3>3, <4>1, <4>3 DEF Kept
    <3> QED BY <3>2, <3>3
  <2> QED BY <2>2, <2>3
<1> QED BY <1>2, <1>4, <1>5, <1>6, <1>7, <1>8 DEF Sound, e

LEMMA ReviewRested ==
    ASSUME NEW s, NEW all, Sound(s, all), all # <<>>, Latest(all).status = "active",
           NEW now \in Nat, NEW b, b = Latest(all).batch, b # None, Rested(s),
           s.last # None => now + Day >= s.next, now >= s.batches[b].selected,
           NEW d, Reviewed(s, d, Len(all), b, now), Live(d) = {}
    PROVE  Rested(d)
<1> DEFINE c == Len(all)
           k == Len(s.batches)
<1>1. /\ s \in Reflections /\ DOMAIN s.batches = 1 .. k /\ k \in Nat /\ s.next \in Nat
      /\ all \in Seq(CycleRecords) /\ Day \in Nat
  BY Fields, ScheduleAssumption DEF Sound
<1>2. b \in 1 .. k /\ c # None
  BY <1>1, ClaimedBatch DEF None
<1>3. /\ d \in Reflections /\ d.last = c /\ d.next = now + Day /\ DOMAIN d.batches = 1 .. k
      /\ \A i \in 1 .. k : i # b => d.batches[i] = s.batches[i]
      /\ d.batches[b].selected = s.batches[b].selected /\ d.batches[b].consumed = now
  BY <1>2, Fields DEF Reviewed
<1> HIDE DEF c, k
<1> SUFFICES ASSUME NEW i \in 1 .. k, d.batches[i].accounted
             PROVE  /\ d.batches[i].selected <= d.batches[i].consumed
                    /\ d.batches[i].consumed + Day <= d.next
  BY <1>2, <1>3 DEF Rested
<1>4. CASE i = b
  BY <1>1, <1>3, <1>4
<1>5. CASE i # b
  <2>1. d.batches[i] = s.batches[i]
    BY <1>3, <1>5
  <2>2. /\ s.last # None /\ s.batches[i].selected <= s.batches[i].consumed
        /\ s.batches[i].consumed + Day <= s.next
    BY <1>1, <2>1 DEF Rested
  <2>3. s.batches[i].consumed \in Nat
    BY <1>1, Fields, BatchFields DEF k
  <2>4. s.batches[i].consumed + Day <= now + Day
    BY <1>1, <2>2, <2>3
  <2> QED BY <1>3, <2>1, <2>2, <2>4
<1> QED BY <1>4, <1>5

LEMMA ReviewRotating ==
    ASSUME NEW s, NEW all, Sound(s, all), all # <<>>, Latest(all).status = "active",
           NEW now \in Nat, NEW b, b = Latest(all).batch, b # None, Rested(s),
           NEW tg \in [Targets -> TargetRecords], Rotating(s, tg),
           NEW d, Reviewed(s, d, Len(all), b, now), Live(d) = {}
    PROVE  Rotating(d, tg)
<1> DEFINE k == Len(s.batches)
           B == s.batches[b]
<1>1. /\ s \in Reflections /\ DOMAIN s.batches = 1 .. k /\ k \in Nat /\ s.next \in Nat
      /\ s.cursor \in [Families -> Nat] /\ Day \in Nat
      /\ \A i \in 1 .. k : s.batches[i] \in BatchRecords
  BY Fields, ScheduleAssumption DEF Sound
<1>2. b = k /\ b \in 1 .. k /\ Live(s) = {b} /\ B.due >= s.next
  BY ClaimedBatch
<1>3. /\ DOMAIN d.batches = 1 .. k /\ Len(d.batches) = k /\ d.cursor = Moved(s.cursor, B.refs)
      /\ \A i \in 1 .. k :
          /\ d.batches[i].refs = s.batches[i].refs
          /\ Overlooked(d.batches[i], tg) = Overlooked(s.batches[i], tg)
          /\ i # b => d.batches[i].accounted = s.batches[i].accounted
  BY <1>2, Fields DEF Reviewed, Overlooked
<1>4. /\ B \in BatchRecords /\ B.refs \in Seq(Targets) /\ FirstInLine(s, tg, B)
      /\ Listed(B.refs) \in SUBSET Targets /\ B.due \in Nat /\ B.selected \in Nat
  BY <1>1, <1>2, BatchFields DEF Rotating
<1> HIDE DEF k, B
\* Where the cursor of a family moved to, and what lies before and behind it.
<1>5. ASSUME NEW f \in Families, NEW u \in Overlooked(B, tg) \ Listed(B.refs), u[1] = f
      PROVE  \/ d.cursor[f] = s.cursor[f] /\ \A t \in Listed(B.refs) : t[1] # f
             \/ \E x \in Targets :
                    /\ d.cursor[f] = x[2] /\ x[1] = f /\ Before(x, u, s.cursor[f])
                    /\ \A t \in Listed(B.refs) : t[1] = f => t = x \/ Before(t, x, s.cursor[f])
  <2>1. CASE d.cursor[f] = s.cursor[f] /\ \A n \in DOMAIN B.refs : B.refs[n][1] # f
    BY <2>1 DEF Listed
  <2>2. ASSUME NEW n \in DOMAIN B.refs, B.refs[n][1] = f, d.cursor[f] = B.refs[n][2],
               \A m \in DOMAIN B.refs : B.refs[m][1] = f => m <= n
        PROVE  \E x \in Targets :
                    /\ d.cursor[f] = x[2] /\ x[1] = f /\ Before(x, u, s.cursor[f])
                    /\ \A t \in Listed(B.refs) : t[1] = f => t = x \/ Before(t, x, s.cursor[f])
    <3> DEFINE x == B.refs[n]
    <3>1. x \in Targets /\ x \in Listed(B.refs)
      BY <1>4 DEF Listed
    <3>2. Before(x, u, s.cursor[f])
      BY <1>4, <1>5, <2>2, <3>1 DEF FirstInLine
    <3>3. ASSUME NEW t \in Listed(B.refs), t[1] = f PROVE t = x \/ Before(t, x, s.cursor[f])
      <4>1. PICK m \in DOMAIN B.refs : t = B.refs[m]
        BY DEF Listed
      <4>2. m = n \/ m \in 1 .. n - 1
        BY <1>4, <2>2, <3>3, <4>1
      <4> QED BY <1>4, <2>2, <3>3, <4>1, <4>2 DEF FirstInLine, InTurn
    <3> QED BY <2>2, <3>1, <3>2, <3>3
  <2>3. \/ d.cursor[f] = s.cursor[f] /\ \A n \in DOMAIN B.refs : B.refs[n][1] # f
        \/ \E n \in DOMAIN B.refs :
               /\ B.refs[n][1] = f /\ d.cursor[f] = B.refs[n][2]
               /\ \A m \in DOMAIN B.refs : B.refs[m][1] = f => m <= n
    <3> DEFINE moved == Moved(s.cursor, B.refs)
    <3>1. s.cursor \in [Families -> Nat] /\ B.refs \in Seq(Targets)
      BY <1>1, <1>4
    <3>2. \A g \in Families :
              \/ moved[g] = s.cursor[g] /\ \A n \in DOMAIN B.refs : B.refs[n][1] # g
              \/ \E n \in DOMAIN B.refs :
                     /\ B.refs[n][1] = g /\ moved[g] = B.refs[n][2]
                     /\ \A m \in DOMAIN B.refs : B.refs[m][1] = g => m <= n
      BY <3>1, LastOfFamily, Zenon
    <3>3. d.cursor = moved
      BY <1>3
    <3> HIDE DEF moved
    <3> QED BY <3>2, <3>3
  <2> QED BY <2>1, <2>2, <2>3
<1>6. NextInLine(d, tg)
  <2> SUFFICES ASSUME NEW i \in 1 .. k, d.batches[i].accounted,
                      NEW u \in Overlooked(s.batches[i], tg),
                      \A x \in i .. k : u \notin Listed(d.batches[x].refs),
                      NEW v \in Listed(s.batches[i].refs), u[1] = v[1]
               PROVE  Before(u, v, d.cursor[v[1]])
    BY <1>3 DEF NextInLine
  <2>1. \A x \in i .. k : u \notin Listed(s.batches[x].refs)
    <3> TAKE x \in i .. k
    <3>1. x \in 1 .. k
      BY <1>1
    <3> QED BY <1>3, <3>1
  <2>2. u \in Targets /\ v \in Targets /\ v[1] \in Families /\ s.cursor[v[1]] \in Nat
    <3>1. u \in Targets /\ v \in Targets
      BY <1>1, BatchFields DEF Overlooked, Staged
    <3> QED BY <1>1, <3>1, TargetsKnown
  <2>3. u \notin Listed(B.refs)
    <3>1. b \in i .. k
      BY <1>1, <1>2
    <3> QED BY <2>1, <3>1 DEF B
  <2>4. CASE i = b
    <3>1. u \in Overlooked(B, tg) /\ v \in Listed(B.refs)
      BY <2>4 DEF B
    <3>2. PICK x \in Targets :
              /\ d.cursor[v[1]] = x[2] /\ x[1] = v[1] /\ Before(x, u, s.cursor[v[1]])
              /\ v = x \/ Before(v, x, s.cursor[v[1]])
      BY <1>5, <2>2, <2>3, <3>1
    <3> QED BY <2>2, <3>2, CursorMoves
  <2>5. CASE i # b
    <3>1. s.batches[i].accounted
      BY <1>3, <2>5
    <3>2. Before(u, v, s.cursor[v[1]])
      BY <1>1, <2>1, <3>1 DEF Rotating, NextInLine, k
    <3>3. u \in Overlooked(B, tg)
      <4>1. /\ s.batches[i].selected <= s.batches[i].consumed
            /\ s.batches[i].consumed + Day <= s.next /\ s.batches[i].selected <= B.selected
        BY <1>1, <1>2, <3>1 DEF Rested, B
      <4>2. s.batches[i].selected \in Nat /\ s.batches[i].consumed \in Nat
        BY <1>1, BatchFields
      <4>3. u \in Staged(tg) /\ tg[u].eligible < s.batches[i].selected + Day
        BY DEF Overlooked
      <4>4. tg[u].eligible \in Nat
        BY <2>2 DEF TargetRecords
      <4>5. tg[u].eligible <= B.due /\ tg[u].eligible < B.selected + Day
        <5> DEFINE a == s.batches[i].selected
                   c == s.batches[i].consumed
                   e == tg[u].eligible
        <5>1. /\ a \in Nat /\ c \in Nat /\ e \in Nat /\ a <= c /\ c + Day <= s.next
              /\ a <= B.selected /\ e < a + Day
          BY <4>1, <4>2, <4>3, <4>4
        <5> HIDE DEF a, c, e
        <5>2. a + Day <= s.next /\ a + Day <= B.selected + Day
          BY <1>1, <1>4, <5>1
        <5>3. e <= B.due /\ e < B.selected + Day
          BY <1>1, <1>2, <1>4, <5>1, <5>2
        <5> QED BY <5>3 DEF e
      <4> QED BY <4>3, <4>5 DEF Overlooked
    <3>4. CASE d.cursor[v[1]] = s.cursor[v[1]]
      BY <3>2, <3>4
    <3>5. CASE d.cursor[v[1]] # s.cursor[v[1]]
      <4>1. PICK x \in Targets :
                d.cursor[v[1]] = x[2] /\ x[1] = v[1] /\ Before(x, u, s.cursor[v[1]])
        BY <1>5, <2>2, <2>3, <3>3, <3>5
      <4> QED BY <2>2, <3>2, <4>1, CursorMoves
    <3> QED BY <3>4, <3>5
  <2> QED BY <2>4, <2>5
<1>7. Fair(d, tg)
  <2> SUFFICES ASSUME NEW j \in 1 .. k, NEW i \in 1 .. j - 1, d.batches[i].accounted,
                      NEW v \in Listed(d.batches[i].refs) \cap Listed(d.batches[j].refs),
                      NEW u \in Overlooked(d.batches[i], tg), u[1] = v[1]
               PROVE  \E x \in i .. j : u \in Listed(d.batches[x].refs)
    BY <1>3 DEF Fair
  <2>1. i \in 1 .. k /\ i # b
    BY <1>1, <1>2
  <2>2. PICK x \in i .. j : u \in Listed(s.batches[x].refs)
    BY <1>1, <1>3, <2>1 DEF Rotating, Fair
  <2>3. x \in 1 .. k
    BY <1>1, <2>1
  <2> QED BY <1>3, <2>2, <2>3
<1> QED BY <1>6, <1>7 DEF Rotating

-----------------------------------------------------------------------------
(* The start of a cycle *)

LEMMA NoneClaimed ==
    ASSUME NEW s, NEW all, Sound(s, all), \A c \in DOMAIN all : all[c].status # "active"
    PROVE  \A b \in DOMAIN s.batches : s.batches[b].status # "claimed"
BY DEF Sound, Kept

LEMMA NoneRunning ==
    ASSUME NEW s, NEW all, Sound(s, all), all = <<>> \/ Latest(all).status # "active"
    PROVE  /\ \A c \in DOMAIN all : all[c].status # "active"
           /\ \A b \in DOMAIN s.batches : s.batches[b].status # "claimed"
<1>1. \A c \in DOMAIN all : all[c].status # "active"
  BY DEF Sound, Numbered, Latest
<1> QED BY <1>1, NoneClaimed

LEMMA FirstStands ==
    ASSUME NEW s, NEW all, Sound(s, all), ~ s.present, NEW now \in Nat, NEW tg
    PROVE  LET f == FirstState(now)
           IN  /\ Sound(f, all) /\ Rested(f) /\ Rotating(f, tg) /\ f.present
               /\ f.last = None /\ f.next = now /\ f.managed = None /\ ClockValid(f, all, now)
<1> DEFINE f == FirstState(now)
<1>1. /\ f.present = TRUE /\ f.next = now /\ f.managed = None /\ f.last = None /\ f.pending = TRUE
      /\ f.batches = <<>> /\ f.cursor \in [Families -> Nat] /\ f \in Reflections
  BY DEF FirstState, Reflections, None
<1> HIDE DEF f
<1>2. DOMAIN f.batches = {} /\ Len(f.batches) = 0 /\ Live(f) = {}
  BY <1>1 DEF Live
<1>3. Len(s.batches) = 0 /\ all \in Seq(CycleRecords) /\ Numbered(s, all)
  BY DEF Sound, Numbered
<1>4. Numbered(f, all)
  BY <1>1, <1>2, <1>3 DEF Numbered, None
<1>5. StateValid(f, all, FALSE)
  BY <1>1, <1>2 DEF StateValid, CadenceValid
<1>6. Sound(f, all)
  BY <1>1, <1>2, <1>3, <1>4, <1>5 DEF Sound
<1>7. Rested(f) /\ Rotating(f, tg)
  BY <1>2 DEF Rested, Rotating, NextInLine, Fair
<1>8. ClockValid(f, all, now)
  BY <1>1 DEF ClockValid
<1> QED BY <1>1, <1>6, <1>7, <1>8 DEF f

LEMMA EnsuredStands ==
    ASSUME Invariant, ~ Running, NEW now \in Nat, Startable(now)
    PROVE  LET t == Ensured(now)
           IN  /\ Sound(t, cycles) /\ Rested(t) /\ Rotating(t, target)
               /\ t.present => ClockValid(t, cycles, now)
               /\ \A l \in Live(t) :
                      t.batches[l].status = "pending" => StillPending(t.batches[l], target)
<1>1. /\ Sound(reflection, cycles) /\ Rested(reflection) /\ Rotating(reflection, target)
      /\ target \in [Targets -> TargetRecords] /\ reflection.present \in BOOLEAN
  BY Fields DEF Invariant, TypeOK, Sound
<1>2. CASE ~ reflection.present /\ Staged(target) = {}
  <2>1. Ensured(now) = reflection
    BY <1>2 DEF Ensured
  <2>2. Live(reflection) = {}
    BY <1>1, <1>2 DEF Sound, StateValid
  <2> QED BY <1>1, <1>2, <2>1, <2>2
<1>3. CASE ~ (~ reflection.present /\ Staged(target) = {})
  <2> DEFINE s == IF reflection.present THEN reflection ELSE FirstState(now)
             t == Reconciled(s, target, now)
  <2>1. Ensured(now) = t
    BY <1>3 DEF Ensured
  <2>2. /\ Sound(s, cycles) /\ Rested(s) /\ Rotating(s, target) /\ s.present
        /\ ClockValid(s, cycles, now)
    BY <1>1, FirstStands DEF Startable
  <2> HIDE DEF s
  <2>3. s.last # None => now + Day >= s.next
    BY <2>2, NotBehind
  <2>4. /\ Sound(t, cycles) /\ Rested(t) /\ Rotating(t, target)
        /\ t.present /\ t.next = s.next /\ t.last = s.last
        /\ t.managed # None => t = s \/ t.batches[t.managed].selected = now
        /\ \A l \in Live(t) :
               t.batches[l].status = "pending" => StillPending(t.batches[l], target)
    BY <1>1, <2>2, <2>3, ReconciledStands
  <2> HIDE DEF t
  <2>5. ClockValid(t, cycles, now)
    BY <2>2, <2>4 DEF ClockValid
  <2> QED BY <2>1, <2>4, <2>5
<1> QED BY <1>2, <1>3

\* The batches of s, those in B claimed; and the cycles, one more running.
Claiming(s, B) ==
    [s EXCEPT !.batches = [b \in DOMAIN s.batches |->
        IF b \in B THEN [s.batches[b] EXCEPT !.status = "claimed"] ELSE s.batches[b]]]

Begun(all, B) ==
    Append(all, [batch |-> IF B = {} THEN None ELSE Max(B), status |-> "active",
                 completed |-> Never])

LEMMA ClaimedFields ==
    ASSUME NEW s \in Reflections, NEW B
    PROVE  LET t == Claiming(s, B)
               k == Len(s.batches)
           IN  /\ t \in Reflections /\ t.present = s.present /\ t.next = s.next /\ t.managed = s.managed
               /\ t.last = s.last /\ t.cursor = s.cursor /\ t.pending = s.pending
               /\ DOMAIN t.batches = 1 .. k /\ Len(t.batches) = k
               /\ \A i \in 1 .. k :
                   /\ t.batches[i].refs = s.batches[i].refs /\ t.batches[i].due = s.batches[i].due
                   /\ t.batches[i].floor = s.batches[i].floor
                   /\ t.batches[i].selected = s.batches[i].selected
                   /\ t.batches[i].accounted = s.batches[i].accounted
                   /\ t.batches[i].consumed = s.batches[i].consumed
                   /\ t.batches[i].status = IF i \in B THEN "claimed" ELSE s.batches[i].status
<1> DEFINE t == Claiming(s, B)
           k == Len(s.batches)
<1>0. /\ DOMAIN s.batches = 1 .. k /\ k \in Nat
      /\ \A i \in 1 .. k : s.batches[i] \in BatchRecords
  BY Fields
<1> DEFINE bs == [b \in 1 .. k |->
                     IF b \in B THEN [s.batches[b] EXCEPT !.status = "claimed"] ELSE s.batches[b]]
<1>1. t = [s EXCEPT !.batches = bs]
  BY <1>0 DEF Claiming
<1>2. ASSUME NEW i \in 1 .. k
      PROVE  LET a == s.batches[i]
                 b == bs[i]
             IN  /\ b \in BatchRecords /\ b.refs = a.refs /\ b.due = a.due /\ b.floor = a.floor
                 /\ b.selected = a.selected /\ b.accounted = a.accounted
                 /\ b.consumed = a.consumed
                 /\ b.status = IF i \in B THEN "claimed" ELSE a.status
  <2> DEFINE a == s.batches[i]
             b == [a EXCEPT !.status = "claimed"]
  <2>1. a \in BatchRecords
    BY <1>0
  <2>2. bs[i] = IF i \in B THEN b ELSE a
    OBVIOUS
  <2> HIDE DEF a
  <2>3. /\ b \in BatchRecords /\ b.refs = a.refs /\ b.due = a.due /\ b.floor = a.floor
        /\ b.selected = a.selected
    BY <2>1, BatchMarked
  <2>4. b.accounted = a.accounted /\ b.consumed = a.consumed /\ b.status = "claimed"
    BY <2>1 DEF BatchRecords
  <2> HIDE DEF b, bs
  <2> QED BY <2>1, <2>2, <2>3, <2>4 DEF a
<1>3. bs \in Seq(BatchRecords) /\ Len(bs) = k /\ DOMAIN bs = 1 .. k
  <2>1. bs \in [1 .. k -> BatchRecords]
    BY <1>2
  <2> HIDE DEF bs
  <2> QED BY <1>0, <2>1
<1> HIDE DEF bs, t
<1>4. /\ t \in Reflections /\ t.batches = bs
      /\ t.present = s.present /\ t.next = s.next /\ t.managed = s.managed
      /\ t.last = s.last /\ t.cursor = s.cursor /\ t.pending = s.pending
  BY <1>0, <1>1, <1>3 DEF Reflections
<1> QED BY <1>2, <1>3, <1>4 DEF t

LEMMA ClaimedStands ==
    ASSUME NEW s, NEW all, Sound(s, all), Rested(s), NEW tg, Rotating(s, tg),
           \A c \in DOMAIN all : all[c].status # "active",
           NEW now \in Nat, s.present => ClockValid(s, all, now), NEW B \in SUBSET DueBatch(s, now)
    PROVE  LET t == Claiming(s, B)
               n == Begun(all, B)
           IN  /\ Sound(t, n) /\ Rested(t) /\ Rotating(t, tg)
               /\ t.present => ClockValid(t, n, now)
               /\ n # <<>> /\ Latest(n).status = "active"
<1> DEFINE t == Claiming(s, B)
           n == Begun(all, B)
           m == s.managed
           k == Len(s.batches)
           r == IF B = {} THEN None ELSE Max(B)
           c == Len(all) + 1
<1>1. /\ s \in Reflections /\ all \in Seq(CycleRecords) /\ Numbered(s, all)
      /\ StateValid(s, all, FALSE) /\ \A i \in 1 .. k : Kept(s, all, i)
      /\ DOMAIN s.batches = 1 .. k /\ k \in Nat /\ Len(all) \in Nat /\ DOMAIN all = 1 .. Len(all)
      /\ \A i \in 1 .. k : s.batches[i] \in BatchRecords
  <2>1. /\ s \in Reflections /\ all \in Seq(CycleRecords) /\ Numbered(s, all)
        /\ StateValid(s, all, FALSE) /\ \A i \in DOMAIN s.batches : Kept(s, all, i)
    BY DEF Sound
  <2>2. /\ DOMAIN s.batches = 1 .. k /\ k \in Nat
        /\ \A i \in 1 .. k : s.batches[i] \in BatchRecords
    BY <2>1, Fields
  <2>3. Len(all) \in Nat /\ DOMAIN all = 1 .. Len(all)
    BY <2>1
  <2> QED BY <2>1, <2>2, <2>3
<1>2. \A i \in Live(s) : i = m
  BY <1>1 DEF StateValid
<1>3. \A i \in B : i = m /\ i \in Live(s) /\ i \in 1 .. k /\ s.batches[i].status = "pending" /\ s.present
  BY <1>1, <1>2 DEF DueBatch, Live, StateValid
<1>4. r \in 0 .. k /\ (B # {} => r = m /\ r # None /\ B = {m}) /\ (B = {} => r = None)
  <2>1. CASE B = {}
    BY <1>1, <2>1 DEF None
  <2>2. CASE B # {}
    <3>1. B = {m} /\ m \in 1 .. k
      BY <1>3, <2>2
    <3>2. m \in Nat /\ m # 0 /\ m \in 0 .. k
      BY <1>1, <3>1
    <3>3. Max({m}) = m
      BY <3>2 DEF Max
    <3>4. r = m
      BY <2>2, <3>1, <3>3
    <3> HIDE DEF r, m
    <3> QED BY <2>2, <3>1, <3>2, <3>4 DEF None
  <2> QED BY <2>1, <2>2
<1>5. /\ n = Append(all, [batch |-> r, status |-> "active", completed |-> Never])
      /\ n \in Seq(CycleRecords) /\ Len(n) = c /\ DOMAIN n = 1 .. c
      /\ n[c].batch = r /\ n[c].status = "active" /\ \A x \in 1 .. Len(all) : n[x] = all[x]
  <2>1. n = Append(all, [batch |-> r, status |-> "active", completed |-> Never])
    BY DEF Begun
  <2>2. r \in Nat
    <3> HIDE DEF r
    <3> QED BY <1>1, <1>4
  <2> HIDE DEF n, r
  <2>3. [batch |-> r, status |-> "active", completed |-> Never] \in CycleRecords
    BY <2>2 DEF CycleRecords, Never
  <2> QED BY <1>1, <2>1, <2>3
<1> HIDE DEF r, n
<1>6. /\ t \in Reflections /\ t.present = s.present /\ t.next = s.next /\ t.managed = m
      /\ t.last = s.last /\ t.cursor = s.cursor /\ t.pending = s.pending
      /\ DOMAIN t.batches = 1 .. k /\ Len(t.batches) = k
      /\ \A i \in 1 .. k :
          /\ t.batches[i].refs = s.batches[i].refs /\ t.batches[i].due = s.batches[i].due
          /\ t.batches[i].floor = s.batches[i].floor
          /\ t.batches[i].selected = s.batches[i].selected
          /\ t.batches[i].accounted = s.batches[i].accounted
          /\ t.batches[i].consumed = s.batches[i].consumed
          /\ t.batches[i].status = IF i \in B THEN "claimed" ELSE s.batches[i].status
  BY <1>1, ClaimedFields
<1> HIDE DEF t
<1>7. Alike(s, t)
  <2>1. \A l \in Live(t) : l \in Live(s)
    BY <1>1, <1>3, <1>6 DEF Live
  <2> QED BY <1>6, <2>1 DEF Alike
<1>8. Rested(t) /\ Rotating(t, tg)
  BY <1>1, <1>6, <1>7, AlikeRested, AlikeRotating
<1>9. Numbered(t, n)
  <2>1. s.batches = <<>> => k = 0
    OBVIOUS
  <2>2. k = 0 => t.batches = <<>>
    BY <1>6 DEF Reflections
  <2>3. \A x \in 1 .. c : x \in 1 .. Len(all) \/ x = c
    BY <1>1
  <2> HIDE DEF k
  <2> QED BY <1>1, <1>4, <1>5, <1>6, <2>1, <2>2, <2>3 DEF Numbered
<1>10. \A i \in 1 .. k : CyclesOf(i, n) = IF i \in B THEN {c} ELSE CyclesOf(i, all)
  <2> TAKE i \in 1 .. k
  <2>1. \A x \in 1 .. c : x \in 1 .. Len(all) \/ x = c
    BY <1>1
  <2>2. i # None
    BY DEF None
  <2>3. i \in B => CyclesOf(i, all) = {}
    BY <1>1, <1>3 DEF Kept
  <2>4. \A x \in 1 .. c : n[x].batch = i <=> (x \in 1 .. Len(all) /\ all[x].batch = i)
                                             \/ (x = c /\ i \in B)
    BY <1>1, <1>4, <1>5, <2>1, <2>2
  <2> QED BY <1>1, <1>5, <2>3, <2>4 DEF CyclesOf
<1>11. ASSUME t.last # None PROVE t.last \in 1 .. Len(all) /\ n[t.last] = all[t.last]
  BY <1>1, <1>5, <1>6, <1>11 DEF Numbered, None
<1>12. StateValid(t, n, FALSE)
  <2>1. Live(t) \subseteq Live(s)
    BY <1>7 DEF Alike
  <2>2. t.present => CadenceValid(t, n)
    BY <1>1, <1>6, <1>11 DEF StateValid, CadenceValid
  <2>3. ASSUME t.present, m # None PROVE ManagedValid(t, n, FALSE)
    <3>1. ManagedValid(s, all, FALSE) /\ m \in 1 .. k
      <4>1. m \in 1 .. k
        BY <1>1, <2>3 DEF Numbered, None
      <4> QED BY <1>1, <1>6, <2>3, <4>1 DEF StateValid
    <3>2. CASE m \in B
      <4>1. s.batches[m].status = "pending" /\ t.batches[m].status = "claimed"
        BY <1>3, <1>6, <3>2
      <4>2. c \in CyclesOf(m, n) /\ n[c].status = "active"
        BY <1>5, <1>10, <3>1, <3>2
      <4> QED BY <1>6, <3>1, <4>1, <4>2 DEF ManagedValid
    <3>3. CASE m \notin B
      <4>1. CyclesOf(m, n) = CyclesOf(m, all) /\ t.batches[m].status = s.batches[m].status
        BY <1>6, <1>10, <3>1, <3>3
      <4>2. \A x \in DOMAIN all : n[x] = all[x] /\ x \in DOMAIN n
        BY <1>1, <1>5
      <4>3. s.batches[m].status # "claimed"
        BY <1>1, <3>1, NoneClaimed
      <4>4. \A x \in CyclesOf(m, all) : x \in DOMAIN all
        BY DEF CyclesOf
      <4> QED BY <1>6, <3>1, <4>1, <4>2, <4>3, <4>4 DEF ManagedValid
    <3> QED BY <3>2, <3>3
  <2> QED BY <1>1, <1>6, <2>1, <2>2, <2>3 DEF StateValid
<1>13. ASSUME NEW i \in 1 .. k PROVE Kept(t, n, i)
  <2>1. Kept(s, all, i)
    BY <1>1
  <2>2. CASE i \in B
    <3>1. s.batches[i].status = "pending" /\ t.batches[i].status = "claimed"
      BY <1>3, <1>6, <2>2
    <3>2. CyclesOf(i, n) = {c} /\ n[c].status = "active" /\ c \in DOMAIN n
      BY <1>1, <1>5, <1>10, <2>2
    <3>3. n[c].completed = Never /\ t.batches[i].consumed = s.batches[i].consumed
      BY <1>1, <1>5, <1>6
    <3>4. s.batches[i].consumed = Never
      BY <1>1, <3>1 DEF Numbered
    <3> QED BY <1>6, <2>1, <3>1, <3>2, <3>3, <3>4 DEF Kept
  <2>3. CASE i \notin B
    <3>1. CyclesOf(i, n) = CyclesOf(i, all) /\ t.batches[i].status = s.batches[i].status
      BY <1>6, <1>10, <2>3
    <3>2. \A x \in DOMAIN all : n[x] = all[x] /\ x \in DOMAIN n
      BY <1>1, <1>5
    <3>3. CASE s.batches[i].status \in {"pending", "cancelled"}
      BY <1>6, <2>1, <3>1, <3>3 DEF Kept
    <3>4. CASE s.batches[i].status \notin {"pending", "cancelled"}
      <4>1. PICK x \in DOMAIN all :
                /\ CyclesOf(i, all) = {x}
                /\ (all[x].status = "active") <=> (s.batches[i].status = "claimed")
                /\ s.batches[i].consumed = all[x].completed
        BY <2>1, <3>4 DEF Kept
      <4> QED BY <1>6, <2>1, <3>1, <3>2, <3>4, <4>1 DEF Kept
    <3> QED BY <3>3, <3>4
  <2> QED BY <2>2, <2>3
<1>14. Sound(t, n)
  BY <1>5, <1>6, <1>9, <1>12, <1>13 DEF Sound
<1>15. t.present => ClockValid(t, n, now)
  <2>1. m # None => m \in 1 .. k
    BY <1>1 DEF Numbered, None
  <2> QED BY <1>6, <1>11, <2>1 DEF ClockValid
<1>16. n # <<>> /\ Latest(n).status = "active"
  BY <1>1, <1>5 DEF Latest
<1> QED BY <1>8, <1>14, <1>15, <1>16 DEF t, n

-----------------------------------------------------------------------------
(* The steps *)

LEMMA InitiallyStands == Init => Invariant
<1> SUFFICES ASSUME Init PROVE Invariant
  OBVIOUS
<1>1. /\ reflection \in Reflections /\ reflection.present = FALSE /\ reflection.managed = None
      /\ reflection.last = None /\ reflection.batches = <<>>
  <2> DEFINE first == FirstState(Never)
  <2>1. /\ first.present = TRUE /\ first.managed = None /\ first.last = None
        /\ first.batches = <<>> /\ first.cursor \in [Families -> Nat]
        /\ first \in Reflections
    BY DEF FirstState, Reflections, None, Never
  <2>2. reflection = [first EXCEPT !.present = FALSE, !.pending = FALSE]
    BY DEF Init
  <2> HIDE DEF first
  <2> QED BY <2>1, <2>2 DEF Reflections
<1>2. cycles = <<>> /\ cycles \in Seq(CycleRecords)
  BY DEF Init
<1>3. DOMAIN reflection.batches = {} /\ Len(reflection.batches) = 0 /\ Live(reflection) = {}
  BY <1>1 DEF Live
<1>4. target \in [Targets -> TargetRecords]
  BY DEF Init, TargetRecords, Never
<1>5. TypeOK
  BY <1>1, <1>2, <1>4 DEF Init, TypeOK, Never
<1>6. Sound(reflection, cycles)
  <2>1. Numbered(reflection, cycles)
    BY <1>1, <1>2, <1>3 DEF Numbered, None
  <2> QED BY <1>1, <1>2, <1>3, <2>1 DEF Sound, StateValid
<1>7. Rested(reflection) /\ Rotating(reflection, target)
  BY <1>3 DEF Rested, Rotating, NextInLine, Fair
<1> QED BY <1>5, <1>6, <1>7 DEF Init, Invariant

\* Where the tables stay, the runtime in the loop is what may change.
LEMMA TablesStay ==
    ASSUME Invariant, UNCHANGED store, TypeOK',
           owner' # NoRuntime => Attended(reflection, cycles, owner)'
    PROVE  Invariant'
BY DEF Invariant, store

LEMMA StutterStands == ASSUME Invariant, UNCHANGED vars PROVE Invariant'
<1>1. TypeOK'
  BY DEF Invariant, TypeOK, vars, store
<1>2. owner' # NoRuntime => Attended(reflection, cycles, owner)'
  BY DEF Invariant, Attended, vars, store, Now
<1> QED BY <1>1, <1>2, TablesStay DEF vars

LEMMA ResumeStands == ASSUME Invariant, NEW p \in Runtimes, Resume(p) PROVE Invariant'
<1>1. TypeOK'
  BY DEF Invariant, TypeOK, Resume, store
<1>2. Attended(reflection, cycles, p)
  BY DEF Resume, Starts, Startable, Running, Attended
<1>3. Attended(reflection, cycles, owner)'
  BY <1>2 DEF Resume, Attended, store, Now
<1> QED BY <1>1, <1>3, TablesStay DEF Resume

LEMMA LeaveLoopStands == ASSUME Invariant, NEW p \in Runtimes, LeaveLoop(p) PROVE Invariant'
<1>1. TypeOK' /\ owner' = NoRuntime
  BY DEF Invariant, TypeOK, LeaveLoop, store
<1> QED BY <1>1, TablesStay DEF LeaveLoop

LEMMA ChangeAuthorityStands == ASSUME Invariant, ChangeAuthority PROVE Invariant'
<1>1. TypeOK'
  BY DEF Invariant, TypeOK, ChangeAuthority, store
<1>2. owner' # NoRuntime => Attended(reflection, cycles, owner)'
  BY DEF Invariant, Attended, ChangeAuthority, store, Now
<1> QED BY <1>1, <1>2, TablesStay DEF ChangeAuthority

\* A clock that is not behind does not fall behind as time passes.
LEMMA LaterIsValid ==
    ASSUME NEW s, NEW all, Sound(s, all), NEW now \in Nat, NEW later \in Nat, now <= later,
           ClockValid(s, all, now)
    PROVE  ClockValid(s, all, later)
<1>1. /\ s \in Reflections /\ all \in Seq(CycleRecords) /\ s.next \in Nat /\ Numbered(s, all)
      /\ \A b \in 1 .. Len(s.batches) : s.batches[b].selected \in Nat
  <2>1. s \in Reflections /\ all \in Seq(CycleRecords) /\ Numbered(s, all)
    BY DEF Sound
  <2> QED BY <2>1, Fields, BatchFields
<1>2. s.last # None => all[s.last].completed \in Nat
  <2> SUFFICES ASSUME s.last # None PROVE all[s.last].completed \in Nat
    OBVIOUS
  <2>1. s.last \in 1 .. Len(all)
    BY <1>1 DEF Numbered, None
  <2>2. all[s.last] \in CycleRecords
    BY <1>1, <2>1
  <2> QED BY <2>2 DEF CycleRecords
<1>3. s.managed # None => s.batches[s.managed].selected \in Nat
  <2> SUFFICES ASSUME s.managed # None PROVE s.managed \in 1 .. Len(s.batches)
    BY <1>1
  <2> QED BY <1>1, Fields DEF Numbered, None
<1> QED BY <1>1, <1>2, <1>3 DEF ClockValid

LEMMA TickStands == ASSUME Invariant, Tick PROVE Invariant'
<1>1. TypeOK /\ TypeOK'
  BY ReflectionBounds DEF Invariant, TypeOK, Tick, store
<1>2. ASSUME owner' # NoRuntime PROVE Attended(reflection, cycles, owner)'
  <2>1. owner' = owner /\ reflection' = reflection /\ cycles' = cycles /\ owner \in Runtimes
    BY <1>1, <1>2 DEF Tick, store, TypeOK
  <2>2. /\ Now(owner) \in Nat
        /\ Now(owner) = IF clock + Skew[owner] <= Horizon THEN clock + Skew[owner] ELSE Horizon
    BY <1>1, <2>1, Clocks
  <2>3. Now(owner)' \in Nat /\ Now(owner) <= Now(owner)'
    <3>1. /\ clock \in Nat /\ clock' = clock + 1 /\ Skew[owner] \in Nat /\ Horizon \in Nat
      BY <1>1, <2>1, RuntimeAssumption, ReflectionBounds DEF Tick, TypeOK
    <3>2. Now(owner)' = IF clock' + Skew[owner] <= Horizon THEN clock' + Skew[owner] ELSE Horizon
      BY <2>1, <3>1, SmallerOfTwo DEF Now
    <3> QED BY <2>2, <3>1, <3>2
  <2>4. Attended(reflection, cycles, owner) /\ Sound(reflection, cycles)
    BY <1>2, <2>1 DEF Invariant
  <2>5. reflection.present => ClockValid(reflection, cycles, Now(owner)')
    BY <2>2, <2>3, <2>4, LaterIsValid DEF Attended
  <2> QED BY <2>1, <2>4, <2>5 DEF Attended
<1> QED BY <1>1, <1>2, TablesStay DEF Tick

LEMMA IdleStands == ASSUME Invariant, NEW p \in Runtimes, Idle(p) PROVE Invariant'
<1>1. TypeOK /\ Now(p) \in Nat
  BY Clocks DEF Invariant
<1>2. ~ Running /\ Startable(Now(p)) /\ owner = NoRuntime
  BY DEF Idle, Starts
<1> DEFINE t == Ensured(Now(p))
<1>3. Sound(t, cycles) /\ Rested(t) /\ Rotating(t, target)
  BY <1>1, <1>2, EnsuredStands
<1> HIDE DEF t
<1>4. reflection' = t /\ cycles' = cycles /\ target' = target /\ owner' = NoRuntime
  BY <1>2 DEF Idle, t
<1>5. anchor' \in Nat
  BY <1>1 DEF Idle, Anchored, TypeOK
<1>6. TypeOK'
  BY <1>1, <1>3, <1>4, <1>5 DEF Idle, TypeOK, Sound
<1> QED BY <1>3, <1>4, <1>6 DEF Invariant

\* What a claim does to the tables.
LEMMA ClaimMakes ==
    ASSUME NEW p \in Runtimes, Claim(p)
    PROVE  \E B \in SUBSET DueBatch(Ensured(Now(p)), Now(p)) :
               reflection' = Claiming(Ensured(Now(p)), B) /\ cycles' = Begun(cycles, B)
BY DEF Claim, Claiming, Begun

LEMMA ClaimStands == ASSUME Invariant, NEW p \in Runtimes, Claim(p) PROVE Invariant'
<1>1. TypeOK /\ Now(p) \in Nat
  BY Clocks DEF Invariant
<1>2. ~ Running /\ Startable(Now(p))
  BY DEF Claim, Starts
<1> DEFINE s == Ensured(Now(p))
<1>3. /\ Sound(s, cycles) /\ Rested(s) /\ Rotating(s, target)
      /\ s.present => ClockValid(s, cycles, Now(p))
  BY <1>1, <1>2, EnsuredStands
<1>4. PICK B \in SUBSET DueBatch(s, Now(p)) :
          reflection' = Claiming(s, B) /\ cycles' = Begun(cycles, B)
  BY ClaimMakes
<1> HIDE DEF s
<1>5. \A c \in DOMAIN cycles : cycles[c].status # "active"
  BY <1>2, <1>3, NoneRunning DEF Running
<1>6. /\ Sound(reflection', cycles') /\ Rested(reflection') /\ Rotating(reflection', target)
      /\ reflection'.present => ClockValid(reflection', cycles', Now(p))
      /\ cycles' # <<>> /\ Latest(cycles').status = "active"
  <2> DEFINE t == Claiming(s, B)
             n == Begun(cycles, B)
  <2>1. /\ Sound(t, n) /\ Rested(t) /\ Rotating(t, target)
        /\ t.present => ClockValid(t, n, Now(p))
        /\ n # <<>> /\ Latest(n).status = "active"
    BY <1>1, <1>3, <1>5, ClaimedStands
  <2> QED BY <1>4, <2>1
<1>7. /\ target' = target /\ owner' = p /\ clock' = clock /\ allowed' = allowed
      /\ adminSteps' = adminSteps /\ about' \in Subjects
  BY DEF Claim
<1>8. anchor' \in Nat
  BY <1>1 DEF Claim, Anchored, TypeOK
<1>9. TypeOK'
  BY <1>1, <1>6, <1>7, <1>8, TargetAssumption DEF TypeOK, Sound
<1>10. Attended(reflection, cycles, owner)'
  BY <1>6, <1>7 DEF Attended, Now
<1> QED BY <1>6, <1>7, <1>9, <1>10 DEF Invariant

\* Before there is a schedule there is nothing to rotate.
LEMMA DevelopedStands ==
    ASSUME NEW s, NEW all, Sound(s, all), Rested(s), NEW now \in Nat,
           s.present => ClockValid(s, all, now),
           NEW old, NEW tg, Develops(tg, old, now), Rotating(s, old)
    PROVE  Rotating(s, tg)
<1>1. CASE s.present
  BY <1>1, DevelopedRotating
<1>2. CASE ~ s.present
  <2>1. s.batches = <<>>
    BY <1>2 DEF Sound, Numbered
  <2>2. DOMAIN s.batches = {} /\ Live(s) = {}
    BY <2>1 DEF Live
  <2> QED BY <2>2 DEF Rotating, NextInLine, Fair
<1> QED BY <1>1, <1>2

\* The runtime in the loop has a cycle to end, and its clock is not behind.
LEMMA InTheLoop ==
    ASSUME Invariant, NEW p \in Runtimes, owner = p
    PROVE  /\ TypeOK /\ Now(p) \in Nat /\ Sound(reflection, cycles) /\ Rested(reflection)
           /\ Rotating(reflection, target)
           /\ cycles # <<>> /\ Latest(cycles).status = "active"
           /\ reflection.present => ClockValid(reflection, cycles, Now(p))
<1>1. owner # NoRuntime
  BY RuntimeAssumption
<1> QED BY <1>1, Clocks DEF Invariant, Attended

\* The end of a cycle, as it is where it is recorded.
LEMMA FinishMakes ==
    ASSUME NEW p, NEW status, NEW now, NEW tg, Finish(p, status, now, tg), Finishable(status, now)
    PROVE  LET c == Latest(cycles)
           IN  /\ cycles' = EndedWith(cycles, status, now) /\ target' = tg /\ anchor' = now
               /\ about' = {} /\ owner' = NoRuntime /\ UNCHANGED <<clock, allowed, adminSteps>>
               /\ StateValid(Consumed(reflection, c, now), EndedWith(cycles, status, now), TRUE)
               /\ c.batch = None => reflection' = reflection
               /\ c.batch # None =>
                      LET d == Completed(Consumed(reflection, c, now), Len(cycles), c.batch, now)
                      IN  reflection' = IF allowed THEN Reconciled(d, tg, now) ELSE d
<1>1. Ended(status, now) = EndedWith(cycles, status, now)
  BY DEF Ended, EndedWith
<1>2. Latest(cycles).batch = None => Consumed(reflection, Latest(cycles), now) = reflection
  BY DEF Consumed
<1>3. StateValid(Consumed(reflection, Latest(cycles), now), EndedWith(cycles, status, now), TRUE)
  BY <1>1 DEF Finishable
<1>4. /\ cycles' = Ended(status, now) /\ target' = tg /\ anchor' = now
      /\ about' = {} /\ owner' = NoRuntime /\ UNCHANGED <<clock, allowed, adminSteps>>
      /\ reflection' = IF Latest(cycles).batch = None THEN Consumed(reflection, Latest(cycles), now)
                       ELSE Accounted(Consumed(reflection, Latest(cycles), now), tg, Len(cycles),
                                      Latest(cycles).batch, now)
  BY DEF Finish
<1> QED BY <1>1, <1>2, <1>3, <1>4 DEF Accounted

LEMMA ReviewStands ==
    ASSUME NEW s, NEW all, Sound(s, all), Rested(s), all # <<>>, Latest(all).status = "active",
           NEW now \in Nat, s.present => ClockValid(s, all, now),
           NEW status \in {"completed", "failed"}, Latest(all).batch # None,
           NEW tg \in [Targets -> TargetRecords], Rotating(s, tg), NEW running \in BOOLEAN
    PROVE  LET e == EndedWith(all, status, now)
               d == Completed(Consumed(s, Latest(all), now), Len(all), Latest(all).batch, now)
               t == IF running THEN Reconciled(d, tg, now) ELSE d
           IN  Sound(t, e) /\ Rested(t) /\ Rotating(t, tg)
<1> DEFINE c == Latest(all)
           b == c.batch
           e == EndedWith(all, status, now)
           d == Completed(Consumed(s, c, now), Len(all), b, now)
<1>1. /\ s \in Reflections /\ all \in Seq(CycleRecords) /\ Len(all) \in Nat /\ c \in CycleRecords
      /\ StateValid(s, all, FALSE)
  <2>1. s \in Reflections /\ all \in Seq(CycleRecords) /\ StateValid(s, all, FALSE)
    BY DEF Sound
  <2>2. Len(all) \in Nat /\ Len(all) \in 1 .. Len(all)
    BY <2>1
  <2>3. all[Len(all)] \in CycleRecords
    BY <2>1, <2>2
  <2> QED BY <2>1, <2>2, <2>3 DEF Latest
<1>2. b = s.managed /\ b \in 1 .. Len(s.batches) /\ s.present /\ b # None
  BY ClaimedBatch
<1>3. ClockValid(s, all, now) /\ s.batches[b].due >= s.batches[b].floor
  BY <1>1, <1>2 DEF StateValid, ManagedValid
<1>4. now >= s.batches[b].selected /\ (s.last # None => now + Day >= s.next)
  BY <1>2, <1>3, NotBehind DEF ClockValid
<1>5. Reviewed(s, d, Len(all), b, now)
  BY <1>1, <1>2, CompletedReviews
<1> HIDE DEF d, c
<1>6. Sound(d, e) /\ Live(d) = {}
  BY <1>2, <1>3, <1>5, ReviewSound DEF c
<1>7. Rested(d)
  BY <1>2, <1>4, <1>5, <1>6, ReviewRested DEF c
<1>8. Rotating(d, tg)
  BY <1>2, <1>5, <1>6, ReviewRotating DEF c
<1>9. d.present /\ now + Day >= d.next
  <2>1. d.next = now + Day /\ Day \in Nat
    BY <1>5, ScheduleAssumption DEF Reviewed
  <2> QED BY <1>2, <1>5, <2>1 DEF Reviewed
<1> HIDE DEF e
<1>10. LET t == Reconciled(d, tg, now) IN Sound(t, e) /\ Rested(t) /\ Rotating(t, tg)
  BY <1>6, <1>7, <1>8, <1>9, ReconciledStands
<1> QED BY <1>6, <1>7, <1>8, <1>10 DEF d, e, c

LEMMA FinishStands ==
    ASSUME Invariant, NEW p \in Runtimes, owner = p, NEW status \in {"completed", "failed"},
           NEW tg, Develops(tg, target, Now(p)), Finish(p, status, Now(p), tg)
    PROVE  Invariant'
<1>1. /\ TypeOK /\ Now(p) \in Nat /\ Sound(reflection, cycles) /\ Rested(reflection)
      /\ Rotating(reflection, target) /\ cycles # <<>> /\ Latest(cycles).status = "active"
      /\ reflection.present => ClockValid(reflection, cycles, Now(p))
  BY InTheLoop
<1>2. CASE ~ Finishable(status, Now(p))
  BY <1>2, LeaveLoopStands DEF Finish
<1>3. CASE Finishable(status, Now(p))
  <2> DEFINE e == EndedWith(cycles, status, Now(p))
             c == Latest(cycles)
             d == Completed(Consumed(reflection, c, Now(p)), Len(cycles), c.batch, Now(p))
  <2>1. /\ cycles' = e /\ target' = tg /\ anchor' = Now(p)
        /\ about' = {} /\ owner' = NoRuntime /\ UNCHANGED <<clock, allowed, adminSteps>>
        /\ StateValid(Consumed(reflection, c, Now(p)), e, TRUE)
        /\ c.batch = None => reflection' = reflection
        /\ c.batch # None => reflection' = IF allowed THEN Reconciled(d, tg, Now(p)) ELSE d
    BY <1>3, FinishMakes
  <2>2. tg \in [Targets -> TargetRecords] /\ Rotating(reflection, tg)
    BY <1>1, DevelopedStands DEF Develops
  <2>3. Sound(reflection', cycles') /\ Rested(reflection') /\ Rotating(reflection', tg)
    <3>1. CASE c.batch = None
      <4>1. StateValid(reflection, e, TRUE)
        BY <2>1, <3>1 DEF Consumed
      <4>2. Sound(reflection, e)
        BY <1>1, <3>1, <4>1, OtherEnds
      <4> HIDE DEF e, d
      <4> QED BY <1>1, <2>1, <2>2, <3>1, <4>2
    <3>2. CASE c.batch # None
      <4>1. allowed \in BOOLEAN
        BY <1>1 DEF TypeOK
      <4>2. LET t == IF allowed THEN Reconciled(d, tg, Now(p)) ELSE d
            IN  Sound(t, e) /\ Rested(t) /\ Rotating(t, tg)
        BY <1>1, <2>2, <3>2, <4>1, ReviewStands
      <4> HIDE DEF e, d, c
      <4> QED BY <2>1, <3>2, <4>2
    <3> QED BY <3>1, <3>2
  <2> HIDE DEF e, c, d
  <2>4. TypeOK'
    BY <1>1, <2>1, <2>2, <2>3 DEF TypeOK, Sound
  <2> QED BY <2>1, <2>3, <2>4 DEF Invariant
<1> QED BY <1>2, <1>3

LEMMA ApplyStands == ASSUME Invariant, NEW p \in Runtimes, Apply(p) PROVE Invariant'
<1>1. owner = p
  BY DEF Apply
<1>2. /\ TypeOK /\ Now(p) \in Nat /\ Sound(reflection, cycles) /\ Rested(reflection)
      /\ Rotating(reflection, target)
      /\ reflection.present => ClockValid(reflection, cycles, Now(p))
  BY <1>1, InTheLoop
<1>3. PICK tg \in Developed(Latest(cycles), Now(p)) :
          \/ /\ target' = tg
             /\ UNCHANGED <<clock, allowed, reflection, cycles, about, anchor, owner, adminSteps>>
          \/ Finish(p, "completed", Now(p), tg)
  BY DEF Apply
<1>4. Develops(tg, target, Now(p))
  BY <1>2, DevelopedDevelops
<1>5. CASE /\ target' = tg
           /\ UNCHANGED <<clock, allowed, reflection, cycles, about, anchor, owner, adminSteps>>
  <2>1. tg \in [Targets -> TargetRecords] /\ Rotating(reflection, tg)
    BY <1>2, <1>4, DevelopedStands DEF Develops
  <2>2. TypeOK'
    BY <1>2, <1>5, <2>1 DEF TypeOK
  <2>3. owner' # NoRuntime => Attended(reflection, cycles, owner)'
    BY <1>5 DEF Invariant, Attended, Now
  <2> QED BY <1>2, <1>5, <2>1, <2>2, <2>3 DEF Invariant
<1>6. CASE Finish(p, "completed", Now(p), tg)
  BY <1>1, <1>4, <1>6, FinishStands
<1> QED BY <1>3, <1>5, <1>6

LEMMA FailsStands == ASSUME Invariant, NEW p \in Runtimes, Fails(p) PROVE Invariant'
<1>1. owner = p /\ Finish(p, "failed", Now(p), target)
  BY DEF Fails
<1>2. Develops(target, target, Now(p))
  BY DEF Invariant, TypeOK, Develops
<1> QED BY <1>1, <1>2, FinishStands

LEMMA StepStands == ASSUME Invariant, [Next]_vars PROVE Invariant'
<1>1. ASSUME NEW p \in Runtimes, Run(p) PROVE Invariant'
  <2>1. CASE Refused(p)
    BY <2>1, StutterStands DEF Refused
  <2>2. CASE Resume(p)
    BY <2>2, ResumeStands
  <2>3. CASE Idle(p)
    BY <2>3, IdleStands
  <2>4. CASE Claim(p)
    BY <2>4, ClaimStands
  <2>5. CASE LeaveLoop(p)
    BY <2>5, LeaveLoopStands
  <2>6. CASE Apply(p)
    BY <2>6, ApplyStands
  <2>7. CASE Fails(p)
    BY <2>7, FailsStands
  <2> QED BY <1>1, <2>1, <2>2, <2>3, <2>4, <2>5, <2>6, <2>7 DEF Run
<1>2. CASE ChangeAuthority
  BY <1>2, ChangeAuthorityStands
<1>3. CASE Tick
  BY <1>3, TickStands
<1>4. CASE UNCHANGED vars
  BY <1>4, StutterStands
<1> QED BY <1>1, <1>2, <1>3, <1>4 DEF Next

-----------------------------------------------------------------------------
(* What follows *)

LEMMA SoundIsConsistent == ASSUME Invariant PROVE ReflectionConsistent
<1>1. TypeOK /\ StateValid(reflection, cycles, FALSE)
  BY DEF Invariant, Sound
<1>2. \A b \in DOMAIN reflection.batches : Kept(reflection, cycles, b)
  BY DEF Invariant, Sound
<1> QED BY <1>1, <1>2, Zenon DEF ReflectionConsistent, Kept

LEMMA FairIsFair == ASSUME Invariant PROVE RotationIsFair
<1>1. Fair(reflection, target)
  BY DEF Invariant, Rotating
<1> SUFFICES ASSUME NEW j \in DOMAIN reflection.batches, NEW i \in 1 .. j - 1,
                    reflection.batches[i].accounted,
                    NEW t \in Listed(reflection.batches[i].refs) \cap Listed(reflection.batches[j].refs),
                    NEW u \in Staged(target), u[1] = t[1],
                    target[u].eligible <= reflection.batches[i].due,
                    target[u].eligible < reflection.batches[i].selected + Day
             PROVE  \E k \in i .. j : u \in Listed(reflection.batches[k].refs)
  BY DEF RotationIsFair, Listed
<1>2. u \in Overlooked(reflection.batches[i], target)
  BY DEF Overlooked
<1> QED BY <1>1, <1>2 DEF Fair

\* What ReviewsWorthwhile says of a step.
Worthwhile ==
    \A b \in DOMAIN reflection'.batches :
        reflection'.batches[b].status = "claimed"
        /\ (b \in DOMAIN reflection.batches => reflection.batches[b].status = "pending") =>
            /\ StillPending(reflection'.batches[b], target)
            /\ \A k \in 1 .. b - 1 : reflection'.batches[k].accounted =>
                   Now(owner') >= reflection'.batches[k].consumed + Day

LEMMA ClaimIsWorthwhile ==
    ASSUME Invariant, Invariant', NEW p \in Runtimes, Claim(p)
    PROVE  Worthwhile
<1>1. /\ TypeOK /\ Now(p) \in Nat /\ ~ Running /\ Startable(Now(p)) /\ owner' = p
      /\ Day \in Nat /\ cycles \in Seq(CycleRecords)
  BY Clocks, ScheduleAssumption DEF Invariant, Claim, Starts, TypeOK
<1> DEFINE s == Ensured(Now(p))
           k == Len(s.batches)
<1>2. /\ Sound(s, cycles) /\ Rested(s)
      /\ \A l \in Live(s) : s.batches[l].status = "pending" => StillPending(s.batches[l], target)
  BY <1>1, EnsuredStands
<1>3. PICK B \in SUBSET DueBatch(s, Now(p)) : reflection' = Claiming(s, B)
  BY ClaimMakes
<1> HIDE DEF s
<1>4. /\ s \in Reflections /\ DOMAIN s.batches = 1 .. k /\ k \in Nat /\ s.next \in Nat
      /\ \A i \in 1 .. k : s.batches[i] \in BatchRecords
  <2>1. s \in Reflections
    BY <1>2 DEF Sound
  <2> QED BY <2>1, Fields
<1>5. /\ DOMAIN reflection'.batches = 1 .. k
      /\ \A i \in 1 .. k :
          /\ reflection'.batches[i].refs = s.batches[i].refs
          /\ reflection'.batches[i].accounted = s.batches[i].accounted
          /\ reflection'.batches[i].consumed = s.batches[i].consumed
          /\ reflection'.batches[i].status = IF i \in B THEN "claimed" ELSE s.batches[i].status
  BY <1>3, <1>4, ClaimedFields
<1>6. \A i \in 1 .. k : s.batches[i].status # "claimed"
  BY <1>1, <1>2, <1>4, NoneRunning DEF Running
<1> SUFFICES ASSUME NEW b \in 1 .. k, reflection'.batches[b].status = "claimed"
             PROVE  /\ StillPending(reflection'.batches[b], target)
                    /\ \A i \in 1 .. b - 1 : reflection'.batches[i].accounted =>
                           Now(p) >= reflection'.batches[i].consumed + Day
  BY <1>1, <1>5 DEF Worthwhile
<1>7. /\ b \in Live(s) /\ s.batches[b].status = "pending" /\ s.batches[b].due <= Now(p)
      /\ s.batches[b].due \in Nat
  <2>1. b \in DueBatch(s, Now(p))
    BY <1>5, <1>6
  <2> QED BY <1>4, <2>1, BatchFields DEF DueBatch
<1>8. StillPending(reflection'.batches[b], target)
  BY <1>2, <1>5, <1>7 DEF StillPending
<1>9. s.batches[b].due >= s.next
  <2>1. s.present /\ Live(s) \subseteq {s.managed}
    BY <1>2, <1>7 DEF Sound, StateValid
  <2>2. b = s.managed /\ b # None
    BY <1>4, <1>7, <2>1 DEF None
  <2> QED BY <1>2, <1>7, <2>1, <2>2 DEF Sound, StateValid, ManagedValid
<1>10. ASSUME NEW i \in 1 .. b - 1, reflection'.batches[i].accounted
       PROVE  Now(p) >= reflection'.batches[i].consumed + Day
  <2>1. i \in 1 .. k
    BY <1>4
  <2>2. s.batches[i].consumed + Day <= s.next
    BY <1>2, <1>4, <1>5, <1>10, <2>1 DEF Rested
  <2>3. s.batches[i].consumed \in Nat
    BY <1>4, <2>1, BatchFields
  <2>4. \A x, n, d, now \in Nat : x + Day <= n /\ n <= d /\ d <= now => x + Day <= now
    BY <1>1
  <2>5. s.batches[i].consumed + Day <= Now(p)
    <3> HIDE DEF k
    <3> QED BY <1>1, <1>4, <1>7, <1>9, <2>2, <2>3, <2>4
  <2>6. reflection'.batches[i].consumed = s.batches[i].consumed
    BY <1>5, <2>1
  <2> QED BY <1>1, <2>3, <2>5, <2>6
<1> QED BY <1>8, <1>10

\* No other step puts a batch before the individual.
LEMMA StepIsWorthwhile ==
    ASSUME Invariant, Invariant', [Next]_vars
    PROVE  Worthwhile
<1>1. CASE reflection' = reflection
  BY <1>1 DEF Worthwhile
<1>2. CASE ~ Running'
  <2>1. Sound(reflection', cycles') /\ (cycles' = <<>> \/ Latest(cycles').status # "active")
    BY <1>2 DEF Invariant, Running
  <2>2. \A b \in DOMAIN reflection'.batches : reflection'.batches[b].status # "claimed"
    BY <2>1, NoneRunning
  <2> QED BY <2>2 DEF Worthwhile
<1>3. ASSUME NEW p \in Runtimes, NEW status \in {"completed", "failed"}, NEW tg, owner = p,
             Finish(p, status, Now(p), tg)
      PROVE  reflection' = reflection \/ ~ Running'
  <2>1. CASE ~ Finishable(status, Now(p))
    BY <1>3, <2>1 DEF Finish, LeaveLoop, store
  <2>2. CASE Finishable(status, Now(p))
    <3>1. cycles' = EndedWith(cycles, status, Now(p))
      BY <1>3, <2>2, FinishMakes
    <3>2. cycles # <<>> /\ cycles \in Seq(CycleRecords) /\ Now(p) \in Nat
      BY <1>3, InTheLoop DEF Sound
    <3>3. Len(cycles') = Len(cycles) /\ cycles'[Len(cycles)].status = status
      BY <3>1, <3>2, EndedCycles
    <3> QED BY <3>3 DEF Running, Latest
  <2> QED BY <2>1, <2>2
<1>4. ASSUME NEW p \in Runtimes, Run(p), ~ Claim(p) PROVE reflection' = reflection \/ ~ Running'
  <2>1. CASE Refused(p) \/ Resume(p) \/ LeaveLoop(p)
    BY <2>1 DEF Refused, Resume, LeaveLoop, vars, store
  <2>2. CASE Idle(p)
    BY <2>2 DEF Idle, Running
  <2>3. CASE Apply(p)
    <3>1. owner = p
      BY <2>3 DEF Apply
    <3>2. PICK tg : \/ reflection' = reflection
                    \/ Finish(p, "completed", Now(p), tg)
      BY <2>3 DEF Apply
    <3> QED BY <1>3, <3>1, <3>2
  <2>4. CASE Fails(p)
    BY <1>3, <2>4 DEF Fails
  <2> QED BY <1>4, <2>1, <2>2, <2>3, <2>4 DEF Run
<1>5. CASE ChangeAuthority \/ Tick \/ UNCHANGED vars
  BY <1>1, <1>5 DEF ChangeAuthority, Tick, vars, store
<1> QED BY <1>1, <1>2, <1>4, <1>5, ClaimIsWorthwhile DEF Next

-----------------------------------------------------------------------------
(* The theorems *)

\* Daily reflection keeps its tables in order (stores/reflection.py): the
\* managed batch is the last one made and the only live one, a review is
\* followed by a day's rest, what it passed over comes next from the cursors
\* (stores/reflection_candidates.py), and the runtime in the loop does not have
\* a clock behind what was retained (_validate_clock).  It does so however far
\* the clocks of the hosts are apart, and whatever is staged, settled,
\* interrupted, paused, refused or withdrawn meanwhile.
THEOREM ReflectionStaysSound == Spec => []Invariant
<1>1. Init => Invariant
  BY InitiallyStands
<1>2. Invariant /\ [Next]_vars => Invariant'
  BY StepStands
<1> QED BY <1>1, <1>2, PTL DEF Spec

\* validate_reflection_state (stores/reflection.py), which every run makes
\* before anything else, never refuses what the program itself has written, and
\* each batch has the cycle and the outcome that its status calls for
\* (db/reflection_checks.py).
THEOREM ReflectionStaysConsistent == Spec => []ReflectionConsistent
<1>1. Invariant => ReflectionConsistent
  BY SoundIsConsistent
<1> QED BY <1>1, ReflectionStaysSound, PTL

\* select_reflection_candidates (stores/reflection_candidates.py) with the
\* cursors that record_reflection_outcome moves (stores/reflection.py): no
\* target is reviewed again before every other of its family that was staged
\* and due by its first review has had a turn.
THEOREM RotationStaysFair == Spec => []RotationIsFair
<1>1. Invariant => RotationIsFair
  BY FairIsFair
<1> QED BY <1>1, ReflectionStaysSound, PTL

\* A claim (stores/cognition.py, after ensure_reflection of
\* stores/reflection.py) of a batch comes at least a day after the end of every
\* earlier review, by the clock of the host that claims, and finds something in
\* the batch still staged.
THEOREM ReviewsAreWorthwhile == Spec => ReviewsWorthwhile
<1>1. Invariant /\ Invariant' /\ [Next]_vars => [Worthwhile]_vars
  BY StepIsWorthwhile
<1>2. Spec => [][Worthwhile]_vars
  BY <1>1, ReflectionStaysSound, PTL DEF Spec
<1> QED BY <1>2 DEF ReviewsWorthwhile, Worthwhile
=============================================================================
