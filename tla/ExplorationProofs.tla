-------------------------- MODULE ExplorationProofs --------------------------
(***************************************************************************)
(* What internal exploration keeps true, for any runtimes, skews of their  *)
(* clocks, limits, wakes, administrators and interruptions: its state      *)
(* always passes the validation every run makes, a grant buys one bounded  *)
(* cycle per cadence, and nothing starts while it is denied.               *)
(*                                                                         *)
(* The allowance is a function of two rows, the state of exploration and   *)
(* the cycles, so the invariant is stated of any two such values (Sound),  *)
(* and one lemma per operator of the allowance says that it keeps it.      *)
(***************************************************************************)
EXTENDS Exploration, TLAPS

-----------------------------------------------------------------------------
(* The inductive invariant *)

\* A cycle of a grant is within it, and is the only one.
CyclesSound(s, all) ==
    \A c \in DOMAIN all :
        /\ all[c].status = "active" => c = Len(all)
        /\ all[c].grant # None =>
            /\ all[c].grant \in DOMAIN s.grants
            /\ \A b \in DOMAIN all : all[b].grant = all[c].grant => b = c
            /\ WithinGrant(s, all[c])
            /\ IF all[c].status = "active"
               THEN s.grants[all[c].grant].status = "claimed"
               ELSE /\ s.grants[all[c].grant].status = "consumed"
                    /\ s.grants[all[c].grant].consumed = all[c].completed

\* Every attempt of a grant's cycle is within the cycle, and the last alone is open.
AttemptsSound(all) ==
    \A c \in DOMAIN all : all[c].grant # None =>
        /\ Len(all[c].attempts) <= all[c].limit
        /\ \A k \in DOMAIN all[c].attempts :
            /\ all[c].attempts[k].started < all[c].deadline
            /\ all[c].attempts[k].status = "started" => k = Len(all[c].attempts)

\* A grant that is not used up is the managed one, and comes a cadence after
\* whatever became of the grants before it.
GrantsSound(s, all) ==
    \A g \in DOMAIN s.grants :
        /\ s.grants[g].notBefore >= s.grants[g].created
        /\ s.grants[g].status \in {"pending", "claimed"} =>
            g = s.managed /\ s.grants[g].notBefore >= s.next
        /\ s.grants[g].status \in {"claimed", "consumed"} =>
            \E c \in DOMAIN all : all[c].grant = g
        /\ s.grants[g].status \in {"consumed", "cancelled"} =>
            \E k \in DOMAIN s.outcomes : s.outcomes[k].grant = g
        /\ \A k \in DOMAIN s.outcomes : s.outcomes[k].grant < g =>
            s.grants[g].notBefore >= s.outcomes[k].at + Cadence

\* Outcomes are in the order of their instants, each of a grant of its own.
OutcomesSound(s, all) ==
    \A k \in DOMAIN s.outcomes :
        LET o == s.outcomes[k]
        IN  /\ o.grant \in DOMAIN s.grants
            /\ \A j \in DOMAIN s.outcomes : s.outcomes[j].grant = o.grant => j = k
            /\ \A j \in DOMAIN s.outcomes : j <= k => s.outcomes[j].at <= o.at
            /\ o.at >= s.grants[o.grant].created
            /\ IF o.kind = "completed"
               THEN /\ s.grants[o.grant].status = "consumed"
                    /\ o.cycle \in DOMAIN all
                    /\ all[o.cycle].grant = o.grant /\ all[o.cycle].completed = o.at
               ELSE s.grants[o.grant].status = "cancelled"

\* The retained pointers are the last of each.
PointersSound(s) ==
    /\ s.managed \in {None, Len(s.grants)}
    /\ s.managed # None /\ s.grants[s.managed].status = "consumed" => s.deferred
    /\ s.outcome = Len(s.outcomes)
    /\ s.outcomes # <<>> => s.next >= Latest(s.outcomes).at + Cadence
    /\ \/ Completions(s) = {} /\ s.terminal = None
       \/ \E k \in Completions(s) : /\ \A j \in Completions(s) : j <= k
                                    /\ s.terminal = s.outcomes[k].cycle
    /\ ~s.present => s.grants = <<>>

Sound(s, all) ==
    /\ s \in Explorations /\ all \in Seq(CycleRecords)
    /\ CyclesSound(s, all) /\ AttemptsSound(all)
    /\ GrantsSound(s, all) /\ OutcomesSound(s, all) /\ PointersSound(s)

Invariant == TypeOK /\ Sound(exploration, cycles)

-----------------------------------------------------------------------------
(* The largest and the smallest of a few numbers *)

LEMMA PairMax ==
    ASSUME NEW a \in Nat, NEW b \in Nat
    PROVE  Max({a, b}) \in {a, b} /\ Max({a, b}) >= a /\ Max({a, b}) >= b
<1>1. \E x \in {a, b} : \A y \in {a, b} : x >= y
  OBVIOUS
<1> QED  BY <1>1 DEF Max

LEMMA TripleMax ==
    ASSUME NEW a \in Nat, NEW b \in Nat, NEW c \in Nat
    PROVE  /\ Max({a, b, c}) \in {a, b, c}
           /\ Max({a, b, c}) >= a /\ Max({a, b, c}) >= b /\ Max({a, b, c}) >= c
<1>1. \E x \in {a, b, c} : \A y \in {a, b, c} : x >= y
  OBVIOUS
<1> QED  BY <1>1 DEF Max

LEMMA PairMin ==
    ASSUME NEW a \in Nat, NEW b \in Nat
    PROVE  Min({a, b}) \in {a, b} /\ Min({a, b}) <= a /\ Min({a, b}) <= b
<1>1. \E x \in {a, b} : \A y \in {a, b} : x <= y
  OBVIOUS
<1> QED  BY <1>1 DEF Min

LEMMA LargestIsMax ==
    ASSUME NEW S, S \subseteq Nat, NEW k \in S, \A j \in S : j <= k
    PROVE  Max(S) = k
<1>1. \A x \in S : (\A y \in S : x >= y) => x = k
  OBVIOUS
<1>2. \A y \in S : k >= y
  OBVIOUS
<1> QED  BY <1>1, <1>2 DEF Max

-----------------------------------------------------------------------------
(* What the invariant implies *)

\* The rows of an exploration, and of the cycles.
LEMMA Fields ==
    ASSUME NEW s \in Explorations
    PROVE  /\ s.present \in BOOLEAN /\ s.deferred \in BOOLEAN
           /\ s.next \in Nat /\ s.managed \in Nat /\ s.terminal \in Nat /\ s.outcome \in Nat
           /\ s.grants \in Seq(GrantRecords) /\ s.outcomes \in Seq(OutcomeRecords)
           /\ DOMAIN s.grants = 1 .. Len(s.grants) /\ Len(s.grants) \in Nat
           /\ DOMAIN s.outcomes = 1 .. Len(s.outcomes) /\ Len(s.outcomes) \in Nat
           /\ \A g \in DOMAIN s.grants : /\ s.grants[g] \in GrantRecords
                                         /\ s.grants[g].created \in Nat
                                         /\ s.grants[g].notBefore \in Nat
                                         /\ s.grants[g].consumed \in Nat
           /\ \A k \in DOMAIN s.outcomes : /\ s.outcomes[k] \in OutcomeRecords
                                           /\ s.outcomes[k].kind \in {"completed", "cancelled"}
                                           /\ s.outcomes[k].grant \in Nat
                                           /\ s.outcomes[k].at \in Nat
                                           /\ s.outcomes[k].cycle \in Nat
<1>1. /\ s.present \in BOOLEAN /\ s.deferred \in BOOLEAN
      /\ s.next \in Nat /\ s.managed \in Nat /\ s.terminal \in Nat /\ s.outcome \in Nat
      /\ s.grants \in Seq(GrantRecords) /\ s.outcomes \in Seq(OutcomeRecords)
  BY DEF Explorations
<1>2. \A g \in DOMAIN s.grants : s.grants[g] \in GrantRecords
  BY <1>1
<1>3. \A k \in DOMAIN s.outcomes : s.outcomes[k] \in OutcomeRecords
  BY <1>1
<1>4. \A r \in GrantRecords : r.created \in Nat /\ r.notBefore \in Nat /\ r.consumed \in Nat
  BY DEF GrantRecords
<1>5. \A o \in OutcomeRecords : /\ o.kind \in {"completed", "cancelled"}
                                /\ o.grant \in Nat /\ o.at \in Nat /\ o.cycle \in Nat
  BY DEF OutcomeRecords
<1>6. /\ DOMAIN s.grants = 1 .. Len(s.grants) /\ Len(s.grants) \in Nat
      /\ DOMAIN s.outcomes = 1 .. Len(s.outcomes) /\ Len(s.outcomes) \in Nat
  BY <1>1
<1> QED  BY <1>1, <1>2, <1>3, <1>4, <1>5, <1>6

LEMMA CycleFields ==
    ASSUME NEW all \in Seq(CycleRecords)
    PROVE  /\ DOMAIN all = 1 .. Len(all) /\ Len(all) \in Nat
           /\ \A c \in DOMAIN all :
                /\ all[c] \in CycleRecords
                /\ all[c].grant \in Nat /\ all[c].started \in Nat /\ all[c].deadline \in Nat
                /\ all[c].completed \in Nat /\ all[c].limit \in Nat
                /\ all[c].wakes \in SUBSET Ordinary
                /\ all[c].attempts \in Seq(AttemptRecords)
                /\ all[c].status \in {"active", "completed", "failed"}
<1>1. \A c \in DOMAIN all : all[c] \in CycleRecords
  OBVIOUS
<1>2. \A r \in CycleRecords :
          /\ r.grant \in Nat /\ r.started \in Nat /\ r.deadline \in Nat
          /\ r.completed \in Nat /\ r.limit \in Nat
          /\ r.wakes \in SUBSET Ordinary
          /\ r.attempts \in Seq(AttemptRecords)
          /\ r.status \in {"active", "completed", "failed"}
  BY DEF CycleRecords
<1>3. DOMAIN all = 1 .. Len(all) /\ Len(all) \in Nat
  OBVIOUS
<1> QED  BY <1>1, <1>2, <1>3

\* stores/exploration.py, validate_exploration_state: what is sound is valid.
LEMMA SoundIsValid ==
    ASSUME NEW s, NEW all, Sound(s, all)
    PROVE  StateValid(s, all, FALSE)
<1> USE DEF None
<1>1. s \in Explorations /\ all \in Seq(CycleRecords)
  BY DEF Sound
<1>2. CyclesSound(s, all) /\ GrantsSound(s, all) /\ OutcomesSound(s, all) /\ PointersSound(s)
  BY DEF Sound
<1>3. Live(s) \subseteq {s.managed}
  BY <1>2 DEF GrantsSound, Live
<1>4. ~s.present => s.grants = <<>>
  BY <1>2 DEF PointersSound
<1>5. ASSUME NEW g \in DOMAIN s.grants, NEW c \in DOMAIN all, all[c].grant = g
      PROVE  /\ CyclesOf(g, all) = {c} /\ WithinGrant(s, all[c]) /\ all[c].grant # None
             /\ IF all[c].status = "active"
                THEN s.grants[g].status = "claimed"
                ELSE s.grants[g].status = "consumed" /\ s.grants[g].consumed = all[c].completed
  <2>1. g # None
    BY <1>1, Fields
  <2> QED  BY <1>2, <1>5, <2>1 DEF CyclesSound, CyclesOf
<1>6. PointersValid(s, all)
  <2>1. s.outcome = Len(s.outcomes)
    BY <1>2 DEF PointersSound
  <2>2. s.outcome # None => s.next >= Latest(s.outcomes).at + Cadence
    <3>1. s.outcome # None => s.outcomes # <<>>
      BY <1>1, <2>1, Fields
    <3> QED  BY <1>2, <3>1 DEF PointersSound
  <2>3. CASE Completions(s) = {}
    <3>1. s.terminal = None
      BY <1>2, <2>3 DEF PointersSound
    <3> QED  BY <2>1, <2>2, <2>3, <3>1 DEF PointersValid
  <2>4. CASE Completions(s) # {}
    <3>1. PICK k \in Completions(s) : /\ \A j \in Completions(s) : j <= k
                                      /\ s.terminal = s.outcomes[k].cycle
      BY <1>2, <2>4 DEF PointersSound
    <3>2. Completions(s) \subseteq Nat /\ k \in DOMAIN s.outcomes /\ s.outcomes[k].kind = "completed"
      BY <1>1, Fields DEF Completions
    <3>3. Max(Completions(s)) = k
      BY <3>1, <3>2, LargestIsMax
    <3>4. /\ s.outcomes[k].grant \in DOMAIN s.grants
          /\ s.grants[s.outcomes[k].grant].status = "consumed"
          /\ s.terminal \in DOMAIN all
          /\ all[s.terminal].grant = s.outcomes[k].grant
          /\ all[s.terminal].completed = s.outcomes[k].at
      BY <1>2, <3>1, <3>2 DEF OutcomesSound
    <3>5. /\ WithinGrant(s, all[s.terminal]) /\ all[s.terminal].grant # None
          /\ all[s.terminal].status # "active"
          /\ s.grants[s.outcomes[k].grant].consumed = all[s.terminal].completed
      BY <1>5, <3>4
    <3> QED  BY <2>1, <2>2, <2>4, <3>1, <3>3, <3>4, <3>5 DEF PointersValid
  <2> QED  BY <2>3, <2>4
<1>7. ASSUME s.managed # None PROVE ManagedValid(s, all, FALSE)
  <2> DEFINE g == s.managed
  <2>1. g \in DOMAIN s.grants
    BY <1>1, <1>2, <1>7, Fields DEF PointersSound
  <2>2. /\ s.grants[g].notBefore >= s.grants[g].created
        /\ s.grants[g].status \in {"pending", "claimed"} => s.grants[g].notBefore >= s.next
        /\ s.grants[g].status \in {"claimed", "consumed"} => \E c \in DOMAIN all : all[c].grant = g
        /\ s.grants[g].status \in {"consumed", "cancelled"} =>
               \E k \in DOMAIN s.outcomes : s.outcomes[k].grant = g
    BY <1>2, <2>1 DEF GrantsSound
  <2>3. s.grants[g].status = "consumed" =>
            s.deferred /\ \E k \in Completions(s) : s.outcomes[k].grant = g
    <3>1. \A k \in DOMAIN s.outcomes : s.outcomes[k].grant = g /\ s.grants[g].status = "consumed" =>
              s.outcomes[k].kind = "completed"
      BY <1>2 DEF OutcomesSound
    <3>2. s.grants[g].status = "consumed" => s.deferred
      BY <1>2, <1>7 DEF PointersSound
    <3> QED  BY <2>2, <3>1, <3>2 DEF Completions
  <2>4. \A c \in DOMAIN all : all[c].grant = g =>
            /\ CyclesOf(g, all) = {c} /\ WithinGrant(s, all[c])
            /\ IF all[c].status = "active"
               THEN s.grants[g].status = "claimed"
               ELSE s.grants[g].status = "consumed" /\ s.grants[g].consumed = all[c].completed
    BY <1>5, <2>1
  <2>5. s.grants[g].status \in {"claimed", "consumed"} =>
            \E c \in DOMAIN all :
                /\ CyclesOf(g, all) = {c} /\ WithinGrant(s, all[c])
                /\ IF s.grants[g].status = "claimed" THEN all[c].status = "active"
                   ELSE /\ all[c].status # "active" /\ all[c].completed = s.grants[g].consumed
                        /\ s.deferred /\ \E k \in Completions(s) : s.outcomes[k].grant = g
    BY <2>2, <2>3, <2>4
  <2> QED  BY <2>2, <2>5 DEF ManagedValid
<1> QED  BY <1>3, <1>4, <1>6, <1>7 DEF StateValid

-----------------------------------------------------------------------------
(* The operators of the allowance *)

\* The managed grant is the last one.
LEMMA ManagedIsLast ==
    ASSUME NEW s, NEW all, Sound(s, all), s.managed # None
    PROVE  s.managed \in DOMAIN s.grants /\ \A g \in DOMAIN s.grants : g <= s.managed
<1>1. s \in Explorations /\ PointersSound(s)
  BY DEF Sound
<1> QED  BY <1>1, Fields DEF PointersSound, None

\* What happened last was no earlier than anything before.
LEMMA LastOutcome ==
    ASSUME NEW s, NEW all, Sound(s, all), NEW k \in DOMAIN s.outcomes
    PROVE  /\ s.outcomes # <<>> /\ s.outcomes[k].at <= Latest(s.outcomes).at
           /\ Latest(s.outcomes).at \in Nat /\ s.next >= s.outcomes[k].at + Cadence
<1>1. s \in Explorations /\ OutcomesSound(s, all) /\ PointersSound(s)
  BY DEF Sound
<1>2. s.outcomes # <<>> /\ Len(s.outcomes) \in DOMAIN s.outcomes /\ k <= Len(s.outcomes)
  BY <1>1, Fields
<1>3. s.outcomes[k].at <= Latest(s.outcomes).at
  BY <1>1, <1>2 DEF OutcomesSound, Latest
<1>4. s.next >= Latest(s.outcomes).at + Cadence
  BY <1>1, <1>2 DEF PointersSound
<1>5. Latest(s.outcomes).at \in Nat /\ s.outcomes[k].at \in Nat /\ s.next \in Nat
  BY <1>1, <1>2, Fields DEF Latest
<1>6. \A a, b, n, c \in Nat : a <= b /\ n >= b + c => n >= a + c
  OBVIOUS
<1>7. Cadence \in Nat
  BY AllowanceAssumption
<1>8. s.next >= s.outcomes[k].at + Cadence
  BY <1>3, <1>4, <1>5, <1>6, <1>7
<1> QED  BY <1>2, <1>3, <1>5, <1>8

LEMMA Appended ==
    ASSUME NEW S, NEW q \in Seq(S), NEW e \in S, NEW longer, longer = Append(q, e),
           NEW K, K = Len(q) + 1
    PROVE  /\ longer \in Seq(S) /\ Len(longer) = K /\ longer # <<>>
           /\ DOMAIN longer = DOMAIN q \cup {K} /\ K \notin DOMAIN q /\ K \in Nat
           /\ \A k \in DOMAIN q : longer[k] = q[k] /\ k < K
           /\ longer[K] = e
OBVIOUS

LEMMA Replaced ==
    ASSUME NEW S, NEW q \in Seq(S), NEW m \in DOMAIN q, NEW e \in S,
           NEW changed, changed = [q EXCEPT ![m] = e]
    PROVE  /\ changed \in Seq(S) /\ DOMAIN changed = DOMAIN q /\ Len(changed) = Len(q)
           /\ \A k \in DOMAIN q : k # m => changed[k] = q[k]
           /\ changed[m] = e
OBVIOUS

\* _cancel: the grant is used up, and what comes next comes a cadence later.
LEMMA CancelledSound ==
    ASSUME NEW s, NEW all, NEW now \in Nat, Sound(s, all), ClockValid(s, now),
           s.managed # None, s.grants[s.managed].status = "pending"
    PROVE  /\ Sound(Cancelled(s, now), all)
           /\ Cancelled(s, now).managed = None /\ Cancelled(s, now).present
<1> DEFINE m == s.managed
           t == Cancelled(s, now)
           K == Len(s.outcomes) + 1
           new == [kind |-> "cancelled", grant |-> m, at |-> now, cycle |-> None]
           next == Max({s.next, s.grants[m].notBefore, now + Cadence})
           grants == [s.grants EXCEPT ![m].status = "cancelled"]
<1>1. /\ s \in Explorations /\ all \in Seq(CycleRecords)
      /\ CyclesSound(s, all) /\ AttemptsSound(all) /\ GrantsSound(s, all)
      /\ OutcomesSound(s, all) /\ PointersSound(s)
  BY DEF Sound
<1>2. m \in DOMAIN s.grants /\ \A g \in DOMAIN s.grants : g <= m
  BY ManagedIsLast
<1>3. next \in Nat /\ next >= now + Cadence
  <2>1. s.next \in Nat /\ s.grants[m].notBefore \in Nat /\ now + Cadence \in Nat
    BY <1>1, <1>2, Fields, AllowanceAssumption
  <2> QED  BY <2>1, TripleMax
<1>4. PICK row \in GrantRecords : /\ row.status = "cancelled"
                                  /\ row.created = s.grants[m].created
                                  /\ row.notBefore = s.grants[m].notBefore
                                  /\ grants = [s.grants EXCEPT ![m] = row]
  <2>1. s.grants[m] \in GrantRecords
    BY <1>1, <1>2, Fields
  <2> DEFINE row == [s.grants[m] EXCEPT !.status = "cancelled"]
  <2>2. /\ row \in GrantRecords /\ row.status = "cancelled"
        /\ row.created = s.grants[m].created /\ row.notBefore = s.grants[m].notBefore
    BY <2>1 DEF GrantRecords
  <2>3. grants = [s.grants EXCEPT ![m] = row]
    OBVIOUS
  <2> HIDE DEF row, grants
  <2> QED  BY <2>2, <2>3
<1>6. new \in OutcomeRecords
  BY <1>1, Fields DEF OutcomeRecords, None
<1> DEFINE outcomes == Append(s.outcomes, new)
<1>7. t = [s EXCEPT !.grants = grants, !.next = next, !.outcomes = outcomes, !.outcome = K,
                    !.managed = None, !.deferred = FALSE]
  BY Zenon DEF Cancelled
<1> HIDE DEF grants, next, t, new
<1>5. /\ grants \in Seq(GrantRecords)
      /\ DOMAIN grants = DOMAIN s.grants /\ Len(grants) = Len(s.grants)
      /\ \A g \in DOMAIN s.grants : g # m => grants[g] = s.grants[g]
      /\ grants[m] = row
  BY <1>1, <1>2, <1>4, Fields, Replaced
<1>8. /\ outcomes \in Seq(OutcomeRecords) /\ Len(outcomes) = K /\ outcomes # <<>>
      /\ DOMAIN outcomes = DOMAIN s.outcomes \cup {K} /\ K \notin DOMAIN s.outcomes /\ K \in Nat
      /\ \A k \in DOMAIN s.outcomes : outcomes[k] = s.outcomes[k] /\ k < K
      /\ outcomes[K] = new
  BY <1>1, <1>6, Fields, Appended
<1> HIDE DEF outcomes, K
<1>9. /\ t \in Explorations
      /\ t.present = s.present /\ t.terminal = s.terminal
      /\ t.next = next /\ t.managed = None /\ t.outcome = K /\ t.deferred = FALSE
      /\ t.grants = grants /\ t.outcomes = outcomes
  <2>1. /\ s \in Explorations /\ next \in Nat /\ K \in Nat /\ None \in Nat
        /\ grants \in Seq(GrantRecords) /\ outcomes \in Seq(OutcomeRecords)
    BY <1>1, <1>3, <1>5, <1>8 DEF None
  <2>2. PICK no \in BOOLEAN : no = FALSE
    OBVIOUS
  <2>3. t = [s EXCEPT !.grants = grants, !.next = next, !.outcomes = outcomes, !.outcome = K,
                      !.managed = None, !.deferred = no]
    BY <1>7, <2>2, Zenon
  <2>4. /\ t \in Explorations
        /\ t.present = s.present /\ t.terminal = s.terminal
        /\ t.next = next /\ t.managed = None /\ t.outcome = K /\ t.deferred = no
        /\ t.grants = grants /\ t.outcomes = outcomes
    BY <2>1, <2>3 DEF Explorations
  <2> QED  BY <2>2, <2>4
<1>10. new.kind = "cancelled" /\ new.grant = m /\ new.at = now
  BY DEF new
<1>11. \A k \in DOMAIN s.outcomes : s.outcomes[k].at <= now
  <2> SUFFICES ASSUME NEW k \in DOMAIN s.outcomes PROVE s.outcomes[k].at <= now
    OBVIOUS
  <2>1. /\ s.outcomes # <<>> /\ s.outcomes[k].at <= Latest(s.outcomes).at
        /\ Latest(s.outcomes).at \in Nat /\ s.outcomes[k].at \in Nat
    BY <1>1, LastOutcome, Fields
  <2>2. now >= Latest(s.outcomes).at
    BY <2>1 DEF ClockValid
  <2> QED  BY <2>1, <2>2
<1>12. \A k \in DOMAIN s.outcomes : s.outcomes[k].grant # m
  BY <1>1 DEF OutcomesSound
<1>13. CyclesSound(t, all)
  <2> SUFFICES ASSUME NEW c \in DOMAIN all, all[c].grant # None
               PROVE  /\ all[c].grant \in DOMAIN t.grants
                      /\ t.grants[all[c].grant] = s.grants[all[c].grant]
                      /\ WithinGrant(t, all[c])
    BY <1>1 DEF CyclesSound
  <2>1. /\ all[c].grant \in DOMAIN s.grants /\ WithinGrant(s, all[c])
        /\ s.grants[all[c].grant].status \in {"claimed", "consumed"}
    BY <1>1 DEF CyclesSound
  <2>2. t.grants[all[c].grant] = s.grants[all[c].grant]
    BY <1>4, <1>5, <1>9, <2>1
  <2> QED  BY <1>4, <1>5, <1>9, <2>1, <2>2 DEF WithinGrant
<1>14. GrantsSound(t, all)
  <2> SUFFICES ASSUME NEW g \in DOMAIN s.grants
               PROVE  /\ t.grants[g].notBefore >= t.grants[g].created
                      /\ t.grants[g].status \notin {"pending", "claimed"}
                      /\ t.grants[g].status \in {"claimed", "consumed"} =>
                          \E c \in DOMAIN all : all[c].grant = g
                      /\ t.grants[g].status \in {"consumed", "cancelled"} =>
                          \E k \in DOMAIN t.outcomes : t.outcomes[k].grant = g
                      /\ \A k \in DOMAIN t.outcomes : t.outcomes[k].grant < g =>
                          t.grants[g].notBefore >= t.outcomes[k].at + Cadence
    BY <1>4, <1>5, <1>9 DEF GrantsSound
  <2>1. t.grants[g].notBefore = s.grants[g].notBefore /\ t.grants[g].created = s.grants[g].created
    BY <1>4, <1>5, <1>9
  <2>2. g = m => t.grants[g].status = "cancelled"
    BY <1>4, <1>5, <1>9
  <2>3. g # m => t.grants[g] = s.grants[g] /\ s.grants[g].status \notin {"pending", "claimed"}
    BY <1>1, <1>5, <1>9 DEF GrantsSound
  <2>4. \A k \in DOMAIN t.outcomes : t.outcomes[k].grant < g =>
            k \in DOMAIN s.outcomes /\ t.outcomes[k] = s.outcomes[k]
    <3>1. ~(m < g)
      BY <1>1, <1>2, Fields
    <3> QED  BY <1>9, <1>8, <1>10, <3>1
  <2>5. K \in DOMAIN t.outcomes /\ t.outcomes[K].grant = m
    BY <1>9, <1>8, <1>10
  <2>6. \A k \in DOMAIN s.outcomes : k \in DOMAIN t.outcomes /\ t.outcomes[k] = s.outcomes[k]
    BY <1>9, <1>8
  <2> QED  BY <1>1, <2>1, <2>2, <2>3, <2>4, <2>5, <2>6 DEF GrantsSound
<1>15. OutcomesSound(t, all)
  <2>1. ASSUME NEW k \in DOMAIN s.outcomes
        PROVE  LET o == t.outcomes[k]
               IN  /\ o.grant \in DOMAIN t.grants
                   /\ \A j \in DOMAIN t.outcomes : t.outcomes[j].grant = o.grant => j = k
                   /\ \A j \in DOMAIN t.outcomes : j <= k => t.outcomes[j].at <= o.at
                   /\ t.grants[o.grant] = s.grants[o.grant]
    <3>1. t.outcomes[k] = s.outcomes[k] /\ s.outcomes[k].grant # m /\ ~(K <= k)
      BY <1>1, <1>9, <1>8, <1>12, Fields
    <3>2. /\ s.outcomes[k].grant \in DOMAIN s.grants
          /\ \A j \in DOMAIN s.outcomes : s.outcomes[j].grant = s.outcomes[k].grant => j = k
          /\ \A j \in DOMAIN s.outcomes : j <= k => s.outcomes[j].at <= s.outcomes[k].at
      BY <1>1 DEF OutcomesSound
    <3> QED  BY <1>4, <1>5, <1>9, <1>8, <1>10, <3>1, <3>2
  <2>2. /\ new.grant \in DOMAIN t.grants
        /\ \A j \in DOMAIN t.outcomes : t.outcomes[j].grant = new.grant => j = K
        /\ \A j \in DOMAIN t.outcomes : t.outcomes[j].at <= new.at
        /\ new.at >= t.grants[new.grant].created
        /\ new.kind # "completed" /\ t.grants[new.grant].status = "cancelled"
    <3>1. now >= s.grants[m].created
      BY DEF ClockValid
    <3>2. \A j \in DOMAIN t.outcomes : t.outcomes[j].grant = m => j = K
      BY <1>9, <1>8, <1>12
    <3>3. \A j \in DOMAIN t.outcomes : t.outcomes[j].at <= now
      BY <1>9, <1>8, <1>10, <1>11
    <3> QED  BY <1>2, <1>4, <1>5, <1>9, <1>10, <3>1, <3>2, <3>3
  <2>3. t.outcomes[K] = new /\ \A j \in DOMAIN t.outcomes : j = K \/ j \in DOMAIN s.outcomes
    BY <1>9, <1>8
  <2>4. \A k \in DOMAIN s.outcomes : t.outcomes[k] = s.outcomes[k]
    BY <1>9, <1>8
  <2> QED  BY <1>1, <2>1, <2>2, <2>3, <2>4 DEF OutcomesSound
<1>16. PointersSound(t)
  <2>1. Completions(t) = Completions(s)
    BY <1>9, <1>8, <1>10 DEF Completions
  <2>2. Completions(s) \subseteq DOMAIN s.outcomes
    BY DEF Completions
  <2>3. Latest(t.outcomes) = new
    BY <1>9, <1>8 DEF Latest
  <2>4. t.present
    <3>1. s.grants # <<>>
      BY <1>2
    <3> QED  BY <1>1, <1>9, <3>1 DEF PointersSound
  <2>5. \/ Completions(t) = {} /\ t.terminal = None
        \/ \E k \in Completions(t) : /\ \A j \in Completions(t) : j <= k
                                     /\ t.terminal = t.outcomes[k].cycle
    BY <1>1, <1>9, <1>8, <2>1, <2>2 DEF PointersSound
  <2> QED  BY <1>3, <1>9, <1>8, <1>10, <2>3, <2>4, <2>5 DEF PointersSound
<1>17. t.present
  BY <1>1, <1>2, <1>9 DEF PointersSound
<1> QED  BY <1>1, <1>9, <1>13, <1>14, <1>15, <1>16, <1>17 DEF Sound, t

\* A used or cancelled grant need not be remembered.
LEMMA FreedSound ==
    ASSUME NEW s, NEW all, Sound(s, all),
           s.managed # None => s.grants[s.managed].status \notin {"pending", "claimed"}
    PROVE  LET t == [s EXCEPT !.managed = None]
           IN  /\ Sound(t, all) /\ t.managed = None /\ t.present = s.present
<1> DEFINE t == [s EXCEPT !.managed = None]
<1>1. /\ s \in Explorations /\ all \in Seq(CycleRecords)
      /\ CyclesSound(s, all) /\ AttemptsSound(all) /\ GrantsSound(s, all)
      /\ OutcomesSound(s, all) /\ PointersSound(s)
  BY DEF Sound
<1>2. /\ t \in Explorations /\ t.managed = None
      /\ t.present = s.present /\ t.terminal = s.terminal
      /\ t.next = s.next /\ t.outcome = s.outcome /\ t.deferred = s.deferred
      /\ t.grants = s.grants /\ t.outcomes = s.outcomes
  BY <1>1 DEF Explorations, None
<1> HIDE DEF t
<1>3. CyclesSound(t, all)
  BY <1>1, <1>2 DEF CyclesSound, WithinGrant
<1>4. GrantsSound(t, all)
  <2>1. \A g \in DOMAIN s.grants : s.grants[g].status \notin {"pending", "claimed"}
    <3>1. None \notin DOMAIN s.grants
      BY <1>1, Fields DEF None
    <3> QED  BY <1>1, <3>1 DEF GrantsSound
  <2> QED  BY <1>1, <1>2, <2>1 DEF GrantsSound
<1>5. OutcomesSound(t, all)
  BY <1>1, <1>2 DEF OutcomesSound
<1>6. PointersSound(t)
  BY <1>1, <1>2 DEF PointersSound, Completions
<1>7. Sound(t, all)
  BY <1>1, <1>2, <1>3, <1>4, <1>5, <1>6 DEF Sound
<1> QED  BY <1>2, <1>7 DEF t

\* Nothing is deferred where there is nothing to remember.
LEMMA UndeferredSound ==
    ASSUME NEW s, NEW all, Sound(s, all), s.managed = None
    PROVE  LET t == [s EXCEPT !.deferred = FALSE]
           IN  /\ Sound(t, all) /\ t.managed = None /\ t.present = s.present
<1> DEFINE t == [s EXCEPT !.deferred = FALSE]
<1>1. /\ s \in Explorations /\ all \in Seq(CycleRecords)
      /\ CyclesSound(s, all) /\ AttemptsSound(all) /\ GrantsSound(s, all)
      /\ OutcomesSound(s, all) /\ PointersSound(s)
  BY DEF Sound
<1>2. /\ t \in Explorations /\ t.managed = None
      /\ t.present = s.present /\ t.terminal = s.terminal
      /\ t.next = s.next /\ t.outcome = s.outcome
      /\ t.grants = s.grants /\ t.outcomes = s.outcomes
  BY <1>1 DEF Explorations
<1> HIDE DEF t
<1>3. CyclesSound(t, all)
  BY <1>1, <1>2 DEF CyclesSound, WithinGrant
<1>4. GrantsSound(t, all)
  BY <1>1, <1>2 DEF GrantsSound
<1>5. OutcomesSound(t, all)
  BY <1>1, <1>2 DEF OutcomesSound
<1>6. PointersSound(t)
  BY <1>1, <1>2 DEF PointersSound, Completions
<1>7. Sound(t, all)
  BY <1>1, <1>2, <1>3, <1>4, <1>5, <1>6 DEF Sound
<1> QED  BY <1>2, <1>7 DEF t

\* _materialize: a new grant comes a cadence after whatever came before.
LEMMA GrantedSound ==
    ASSUME NEW s, NEW all, NEW now \in Nat, Sound(s, all), s.managed = None, s.present
    PROVE  Sound(Granted(s, now), all) /\ Granted(s, now).present
<1> DEFINE t == Granted(s, now)
           M == Len(s.grants) + 1
           from == Max({now, s.next})
           new == [created |-> now, notBefore |-> from, consumed |-> Never, status |-> "pending"]
           grants == Append(s.grants, new)
<1>1. /\ s \in Explorations /\ all \in Seq(CycleRecords)
      /\ CyclesSound(s, all) /\ AttemptsSound(all) /\ GrantsSound(s, all)
      /\ OutcomesSound(s, all) /\ PointersSound(s)
  BY DEF Sound
<1>2. from \in Nat /\ from >= now /\ from >= s.next
  <2>1. s.next \in Nat
    BY <1>1, Fields
  <2> QED  BY <2>1, PairMax
<1>3. t = [s EXCEPT !.grants = grants, !.managed = M, !.deferred = FALSE]
  BY Zenon DEF Granted
<1> HIDE DEF t, from
<1>4. /\ new \in GrantRecords /\ new.created = now /\ new.notBefore = from /\ new.status = "pending"
  BY <1>2 DEF GrantRecords, Never
<1> HIDE DEF new
<1>5. /\ grants \in Seq(GrantRecords) /\ Len(grants) = M /\ grants # <<>>
      /\ DOMAIN grants = DOMAIN s.grants \cup {M} /\ M \notin DOMAIN s.grants /\ M \in Nat
      /\ \A g \in DOMAIN s.grants : grants[g] = s.grants[g] /\ g < M
      /\ grants[M] = new
  BY <1>1, <1>4, Fields, Appended
<1> HIDE DEF grants, M
<1>6. /\ t \in Explorations /\ t.managed = M
      /\ t.present = s.present /\ t.terminal = s.terminal
      /\ t.next = s.next /\ t.outcome = s.outcome
      /\ t.grants = grants /\ t.outcomes = s.outcomes
  <2>1. PICK no \in BOOLEAN : no = FALSE
    OBVIOUS
  <2>2. t = [s EXCEPT !.grants = grants, !.managed = M, !.deferred = no]
    BY <1>3, <2>1, Zenon
  <2>3. s \in Explorations /\ M \in Nat /\ grants \in Seq(GrantRecords)
    BY <1>1, <1>5
  <2> QED  BY <2>2, <2>3 DEF Explorations
<1>7. CyclesSound(t, all)
  <2>1. \A c \in DOMAIN all : all[c].grant # None =>
            /\ all[c].grant \in DOMAIN s.grants /\ all[c].grant \in DOMAIN t.grants
            /\ t.grants[all[c].grant] = s.grants[all[c].grant]
    BY <1>1, <1>5, <1>6 DEF CyclesSound
  <2> QED  BY <1>1, <2>1 DEF CyclesSound, WithinGrant
<1>8. GrantsSound(t, all)
  <2>1. ASSUME NEW g \in DOMAIN s.grants
        PROVE  t.grants[g] = s.grants[g] /\ t.grants[g].status \notin {"pending", "claimed"}
    <3>1. None \notin DOMAIN s.grants
      BY <1>1, Fields DEF None
    <3> QED  BY <1>1, <1>5, <1>6, <3>1 DEF GrantsSound
  <2>2. \A k \in DOMAIN s.outcomes : from >= s.outcomes[k].at + Cadence
    <3> SUFFICES ASSUME NEW k \in DOMAIN s.outcomes PROVE from >= s.outcomes[k].at + Cadence
      OBVIOUS
    <3>1. s.next >= s.outcomes[k].at + Cadence
      BY LastOutcome
    <3>2. s.next \in Nat /\ s.outcomes[k].at + Cadence \in Nat
      BY <1>1, Fields, AllowanceAssumption
    <3> QED  BY <1>2, <3>1, <3>2
  <2>3. /\ t.grants[M] = new /\ DOMAIN t.grants = DOMAIN s.grants \cup {M}
        /\ t.outcomes = s.outcomes /\ t.next = s.next
    BY <1>5, <1>6
  <2>4. new.notBefore >= new.created /\ new.notBefore >= s.next
    BY <1>2, <1>4
  <2>5. \A g \in DOMAIN s.grants :
            /\ s.grants[g].notBefore >= s.grants[g].created
            /\ s.grants[g].status \in {"claimed", "consumed"} =>
                \E c \in DOMAIN all : all[c].grant = g
            /\ s.grants[g].status \in {"consumed", "cancelled"} =>
                \E k \in DOMAIN s.outcomes : s.outcomes[k].grant = g
            /\ \A k \in DOMAIN s.outcomes : s.outcomes[k].grant < g =>
                s.grants[g].notBefore >= s.outcomes[k].at + Cadence
    BY <1>1 DEF GrantsSound
  <2> QED  BY <1>4, <1>6, <2>1, <2>2, <2>3, <2>4, <2>5 DEF GrantsSound
<1>9. OutcomesSound(t, all)
  <2>1. \A g \in DOMAIN s.grants : g \in DOMAIN t.grants /\ t.grants[g] = s.grants[g]
    BY <1>5, <1>6
  <2>2. t.outcomes = s.outcomes /\ OutcomesSound(s, all)
    BY <1>1, <1>6
  <2> QED  BY <2>1, <2>2 DEF OutcomesSound
<1>10. PointersSound(t)
  BY <1>1, <1>4, <1>5, <1>6 DEF PointersSound, Completions
<1>11. Sound(t, all)
  BY <1>1, <1>6, <1>7, <1>8, <1>9, <1>10 DEF Sound
<1> QED  BY <1>6, <1>11 DEF t

\* _materialize, whatever the policy.
LEMMA MaterializedSound ==
    ASSUME NEW s, NEW all, NEW now \in Nat, Sound(s, all), s.present,
           s.managed # None /\ s.grants[s.managed].status = "pending" => ClockValid(s, now)
    PROVE  Sound(Materialized(s, now), all)
<1> DEFINE held == IF s.managed = None THEN "none" ELSE s.grants[s.managed].status
           free == IF held = "pending" THEN Cancelled(s, now) ELSE [s EXCEPT !.managed = None]
<1>1. CASE held = "claimed" \/ (held = "pending" /\ Enabled)
  BY <1>1 DEF Materialized
<1>2. CASE ~(held = "claimed" \/ (held = "pending" /\ Enabled))
  <2>1. Sound(free, all) /\ free.managed = None /\ free.present
    <3>1. CASE held = "pending"
      BY <3>1, CancelledSound DEF None
    <3>2. CASE held # "pending"
      <4>1. s.managed # None => s.grants[s.managed].status \notin {"pending", "claimed"}
        BY <1>2, <3>2
      <4> QED  BY <3>2, <4>1, FreedSound
    <3> QED  BY <3>1, <3>2
  <2>2. Materialized(s, now) = IF Enabled THEN Granted(free, now)
                               ELSE [free EXCEPT !.deferred = FALSE]
    BY <1>2 DEF Materialized
  <2> HIDE DEF free
  <2>3. CASE Enabled
    BY <2>1, <2>2, <2>3, GrantedSound
  <2>4. CASE ~Enabled
    BY <2>1, <2>2, <2>4, UndeferredSound
  <2> QED  BY <2>3, <2>4
<1> QED  BY <1>1, <1>2

\* ensure_exploration.
LEMMA EnsuredSound ==
    ASSUME NEW now \in Nat, Sound(exploration, cycles),
           exploration.present => ClockValid(exploration, now)
    PROVE  Sound(Ensured(now), cycles)
<1>1. /\ exploration \in Explorations /\ cycles \in Seq(CycleRecords)
      /\ CyclesSound(exploration, cycles) /\ AttemptsSound(cycles)
      /\ OutcomesSound(exploration, cycles) /\ PointersSound(exploration)
  BY DEF Sound
<1>2. CASE Running \/ ~Materializable \/ (~exploration.present /\ ~Enabled)
  BY <1>2 DEF Ensured
<1>3. CASE exploration.present /\ ~(Running \/ ~Materializable)
  <2>1. exploration.present /\ ClockValid(exploration, now)
    BY <1>3
  <2>2. Ensured(now) = Materialized(exploration, now)
    BY <1>3 DEF Ensured
  <2> QED  BY <2>1, <2>2, MaterializedSound
<1>4. CASE ~exploration.present /\ ~(Running \/ ~Materializable \/ ~Enabled)
  <2> DEFINE t == FirstState(now)
  <2>1. /\ t \in Explorations /\ t.present /\ t.managed = None
        /\ t.grants = <<>> /\ t.outcomes = <<>> /\ t.terminal = None /\ t.outcome = 0
    BY DEF FirstState, Explorations, None
  <2> HIDE DEF t
  <2>2. \A c \in DOMAIN cycles : cycles[c].grant = None
    BY <1>1, <1>4 DEF CyclesSound, PointersSound
  <2>3. CyclesSound(t, cycles)
    BY <1>1, <2>2 DEF CyclesSound
  <2>4. GrantsSound(t, cycles) /\ OutcomesSound(t, cycles) /\ PointersSound(t)
    BY <2>1 DEF GrantsSound, OutcomesSound, PointersSound, Completions, None
  <2>5. Sound(t, cycles)
    BY <1>1, <2>1, <2>3, <2>4 DEF Sound
  <2>6. Ensured(now) = Materialized(t, now)
    BY <1>4 DEF Ensured, t
  <2> QED  BY <2>1, <2>5, <2>6, MaterializedSound
<1> QED  BY <1>2, <1>3, <1>4

-----------------------------------------------------------------------------
(* The cycles *)

NoneActive(all) == \A c \in DOMAIN all : all[c].status # "active"

LEMMA NotRunning ==
    ASSUME Sound(exploration, cycles), ~Running
    PROVE  NoneActive(cycles)
<1>1. cycles \in Seq(CycleRecords) /\ CyclesSound(exploration, cycles)
  BY DEF Sound
<1> QED  BY <1>1 DEF Running, Latest, NoneActive, CyclesSound

LEMMA RunningLatest ==
    ASSUME Sound(exploration, cycles), Running
    PROVE  /\ Len(cycles) \in DOMAIN cycles /\ Latest(cycles) = cycles[Len(cycles)]
           /\ Latest(cycles) \in CycleRecords /\ Latest(cycles).status = "active"
<1>1. cycles \in Seq(CycleRecords)
  BY DEF Sound
<1> QED  BY <1>1 DEF Running, Latest

\* A cycle of ordinary wakes leaves the allowance alone.
LEMMA OrdinaryStarts ==
    ASSUME NEW s, NEW all, Sound(s, all), NoneActive(all),
           NEW c \in CycleRecords, c.grant = None
    PROVE  Sound(s, Append(all, c))
<1> DEFINE more == Append(all, c)
           K    == Len(all) + 1
<1>1. /\ s \in Explorations /\ all \in Seq(CycleRecords)
      /\ CyclesSound(s, all) /\ AttemptsSound(all) /\ GrantsSound(s, all)
      /\ OutcomesSound(s, all) /\ PointersSound(s)
  BY DEF Sound
<1>2. /\ more \in Seq(CycleRecords) /\ Len(more) = K
      /\ DOMAIN more = DOMAIN all \cup {K} /\ K \notin DOMAIN all /\ K \in Nat
      /\ \A k \in DOMAIN all : more[k] = all[k] /\ k < K
      /\ more[K] = c
  BY <1>1, Appended
<1> HIDE DEF more, K
<1>3. CyclesSound(s, more)
  BY <1>1, <1>2 DEF CyclesSound, NoneActive
<1>4. AttemptsSound(more)
  BY <1>1, <1>2 DEF AttemptsSound
<1>5. GrantsSound(s, more)
  BY <1>1, <1>2 DEF GrantsSound
<1>6. OutcomesSound(s, more)
  BY <1>1, <1>2 DEF OutcomesSound
<1>7. Sound(s, more)
  BY <1>1, <1>2, <1>3, <1>4, <1>5, <1>6 DEF Sound
<1> QED  BY <1>7 DEF more

\* claim_exploration: the one cycle of a pending grant.
LEMMA GrantStarts ==
    ASSUME NEW s, NEW all, Sound(s, all), NoneActive(all),
           NEW g \in DOMAIN s.grants, s.grants[g].status = "pending",
           NEW c \in CycleRecords, c.grant = g, c.status = "active", c.attempts = <<>>,
           WithinGrant(s, c)
    PROVE  Sound([s EXCEPT !.grants[g].status = "claimed"], Append(all, c))
<1> DEFINE t      == [s EXCEPT !.grants[g].status = "claimed"]
           grants == [s.grants EXCEPT ![g].status = "claimed"]
           more   == Append(all, c)
           K      == Len(all) + 1
<1>1. /\ s \in Explorations /\ all \in Seq(CycleRecords)
      /\ CyclesSound(s, all) /\ AttemptsSound(all) /\ GrantsSound(s, all)
      /\ OutcomesSound(s, all) /\ PointersSound(s)
  BY DEF Sound
<1>2. PICK row \in GrantRecords : /\ row.status = "claimed"
                                  /\ row.created = s.grants[g].created
                                  /\ row.notBefore = s.grants[g].notBefore
                                  /\ grants = [s.grants EXCEPT ![g] = row]
  <2>1. s.grants[g] \in GrantRecords
    BY <1>1, Fields
  <2> DEFINE row == [s.grants[g] EXCEPT !.status = "claimed"]
  <2>2. /\ row \in GrantRecords /\ row.status = "claimed"
        /\ row.created = s.grants[g].created /\ row.notBefore = s.grants[g].notBefore
    BY <2>1 DEF GrantRecords
  <2>3. grants = [s.grants EXCEPT ![g] = row]
    OBVIOUS
  <2> HIDE DEF row, grants
  <2> QED  BY <2>2, <2>3
<1>3. t = [s EXCEPT !.grants = grants]
  OBVIOUS
<1> HIDE DEF grants, t
<1>4. /\ grants \in Seq(GrantRecords)
      /\ DOMAIN grants = DOMAIN s.grants /\ Len(grants) = Len(s.grants)
      /\ \A h \in DOMAIN s.grants : h # g => grants[h] = s.grants[h]
      /\ grants[g] = row
  BY <1>1, <1>2, Fields, Replaced
<1>5. /\ t \in Explorations /\ t.grants = grants /\ t.outcomes = s.outcomes
      /\ t.present = s.present /\ t.terminal = s.terminal /\ t.managed = s.managed
      /\ t.next = s.next /\ t.outcome = s.outcome /\ t.deferred = s.deferred
  BY <1>1, <1>3, <1>4 DEF Explorations
<1>6. /\ more \in Seq(CycleRecords) /\ Len(more) = K
      /\ DOMAIN more = DOMAIN all \cup {K} /\ K \notin DOMAIN all /\ K \in Nat
      /\ \A k \in DOMAIN all : more[k] = all[k] /\ k < K
      /\ more[K] = c
  BY <1>1, Appended
<1> HIDE DEF more, K
<1>7. \A b \in DOMAIN all : all[b].grant # g
  <2>1. g # None
    BY <1>1, Fields DEF None
  <2> QED  BY <1>1, <2>1 DEF CyclesSound
<1>8. CyclesSound(t, more)
  <2>1. ASSUME NEW b \in DOMAIN all, all[b].grant # None
        PROVE  /\ all[b].grant \in DOMAIN t.grants
               /\ t.grants[all[b].grant] = s.grants[all[b].grant]
               /\ WithinGrant(t, all[b])
    BY <1>1, <1>4, <1>5, <1>7, <2>1 DEF CyclesSound, WithinGrant
  <2>2. /\ g \in DOMAIN t.grants /\ WithinGrant(t, c) /\ t.grants[g].status = "claimed"
    BY <1>2, <1>4, <1>5 DEF WithinGrant
  <2>3. \A b \in DOMAIN more : b = K \/ b \in DOMAIN all
    BY <1>6
  <2> QED  BY <1>1, <1>6, <1>7, <2>1, <2>2, <2>3 DEF CyclesSound, NoneActive
<1>9. AttemptsSound(more)
  <2>1. Len(c.attempts) <= c.limit /\ DOMAIN c.attempts = {}
    <3>1. c.limit \in Nat
      BY DEF CycleRecords
    <3> QED  BY <3>1
  <2> QED  BY <1>1, <1>6, <2>1 DEF AttemptsSound
<1>10. GrantsSound(t, more)
  <2>1. g = s.managed /\ s.grants[g].notBefore >= s.next
    BY <1>1 DEF GrantsSound
  <2>2. K \in DOMAIN more /\ more[K].grant = g /\ \A b \in DOMAIN all : b \in DOMAIN more /\ more[b] = all[b]
    BY <1>6
  <2>3. ASSUME NEW h \in DOMAIN s.grants
        PROVE  /\ t.grants[h].notBefore = s.grants[h].notBefore
               /\ t.grants[h].created = s.grants[h].created
               /\ h # g => t.grants[h] = s.grants[h]
               /\ h = g => t.grants[h].status = "claimed"
    BY <1>2, <1>4, <1>5
  <2> QED  BY <1>1, <1>4, <1>5, <2>1, <2>2, <2>3 DEF GrantsSound
<1>11. OutcomesSound(t, more)
  <2>1. ASSUME NEW k \in DOMAIN s.outcomes
        PROVE  /\ s.outcomes[k].grant # g
               /\ t.grants[s.outcomes[k].grant] = s.grants[s.outcomes[k].grant]
    BY <1>1, <1>4, <1>5 DEF OutcomesSound
  <2> QED  BY <1>1, <1>4, <1>5, <1>6, <2>1 DEF OutcomesSound
<1>12. PointersSound(t)
  <2>1. s.managed # None => s.managed \in DOMAIN s.grants
    BY <1>1, Fields DEF PointersSound, None
  <2>2. t.managed # None /\ t.grants[t.managed].status = "consumed" => t.deferred
    BY <1>1, <1>2, <1>4, <1>5, <2>1 DEF PointersSound
  <2>3. Completions(t) = Completions(s)
    BY <1>5 DEF Completions
  <2>4. t.grants = <<>> <=> s.grants = <<>>
    BY <1>1, <1>4, <1>5, Fields
  <2> QED  BY <1>1, <1>4, <1>5, <2>2, <2>3, <2>4 DEF PointersSound
<1>13. Sound(t, more)
  BY <1>1, <1>5, <1>6, <1>8, <1>9, <1>10, <1>11, <1>12 DEF Sound
<1> QED  BY <1>13 DEF t, more

\* The checks do not look at the turn of a cycle, nor at a cycle of ordinary wakes.
LEMMA CycleContinues ==
    ASSUME NEW s, NEW all, Sound(s, all), Len(all) \in DOMAIN all,
           NEW c \in CycleRecords, c.grant = all[Len(all)].grant,
           c.grant # None =>
               /\ c.status = all[Len(all)].status /\ c.started = all[Len(all)].started
               /\ c.deadline = all[Len(all)].deadline /\ c.completed = all[Len(all)].completed
               /\ c.limit = all[Len(all)].limit /\ c.wakes = all[Len(all)].wakes
               /\ Len(c.attempts) <= c.limit
               /\ \A k \in DOMAIN c.attempts :
                    /\ c.attempts[k].started < c.deadline
                    /\ c.attempts[k].status = "started" => k = Len(c.attempts)
    PROVE  Sound(s, [all EXCEPT ![Len(all)] = c])
<1> DEFINE K    == Len(all)
           next == [all EXCEPT ![K] = c]
<1>1. /\ s \in Explorations /\ all \in Seq(CycleRecords)
      /\ CyclesSound(s, all) /\ AttemptsSound(all) /\ GrantsSound(s, all)
      /\ OutcomesSound(s, all) /\ PointersSound(s)
  BY DEF Sound
<1>2. /\ next \in Seq(CycleRecords) /\ DOMAIN next = DOMAIN all /\ Len(next) = K
      /\ \A k \in DOMAIN all : k # K => next[k] = all[k]
      /\ next[K] = c
  BY <1>1, Replaced
<1> HIDE DEF next, K
<1>3. \A b \in DOMAIN all :
          /\ next[b].grant = all[b].grant
          /\ next[b].grant # None =>
              /\ next[b].status = all[b].status /\ next[b].started = all[b].started
              /\ next[b].deadline = all[b].deadline /\ next[b].completed = all[b].completed
              /\ next[b].limit = all[b].limit /\ next[b].wakes = all[b].wakes
  BY <1>2 DEF K
<1>4. CyclesSound(s, next)
  <2>1. \A b \in DOMAIN all : next[b].status = "active" => b = K
    BY <1>1, <1>2 DEF CyclesSound, K
  <2>2. \A b \in DOMAIN all : next[b].grant # None => WithinGrant(s, next[b])
    BY <1>1, <1>3 DEF CyclesSound, WithinGrant
  <2> QED  BY <1>1, <1>2, <1>3, <2>1, <2>2 DEF CyclesSound
<1>5. AttemptsSound(next)
  BY <1>1, <1>2 DEF AttemptsSound, K
<1>6. GrantsSound(s, next)
  BY <1>1, <1>2, <1>3 DEF GrantsSound
<1>7. OutcomesSound(s, next)
  <2>1. \A k \in DOMAIN s.outcomes : s.outcomes[k].grant # None
    BY <1>1, Fields DEF OutcomesSound, None
  <2> QED  BY <1>1, <1>2, <1>3, <2>1 DEF OutcomesSound
<1>8. Sound(s, next)
  BY <1>1, <1>2, <1>4, <1>5, <1>6, <1>7 DEF Sound
<1> QED  BY <1>8 DEF next, K

\* finish_cycle and record_exploration_outcome: the grant is used up, its cycle
\* and its outcome are what is retained.
LEMMA CompletedSound ==
    ASSUME NEW s, NEW all, NEW now \in Nat, Sound(s, all), Len(all) \in DOMAIN all,
           all[Len(all)].status = "active",
           NEW c \in CycleRecords, c.grant = all[Len(all)].grant, c.grant # None,
           c.status # "active", c.completed = now,
           c.started = all[Len(all)].started, c.deadline = all[Len(all)].deadline,
           c.limit = all[Len(all)].limit, c.wakes = all[Len(all)].wakes,
           Len(c.attempts) <= c.limit,
           \A k \in DOMAIN c.attempts :
                /\ c.attempts[k].started < c.deadline
                /\ c.attempts[k].status = "started" => k = Len(c.attempts),
           ClockValid(Consumed(s, c, now), now)
    PROVE  LET t == Completed(Consumed(s, c, now), Len(all), c.grant, now)
           IN  /\ Sound(t, [all EXCEPT ![Len(all)] = c])
               /\ t.present /\ t.managed = c.grant /\ t.grants[t.managed].status = "consumed"
<1> DEFINE g      == c.grant
           grants == [s.grants EXCEPT ![g].status = "consumed", ![g].consumed = now]
           held   == Consumed(s, c, now)
           L      == Len(all)
           K      == Len(s.outcomes) + 1
           new    == [kind |-> "completed", grant |-> g, at |-> now, cycle |-> L]
           outcomes == Append(s.outcomes, new)
           t      == Completed(held, L, g, now)
           next   == [all EXCEPT ![L] = c]
<1>1. /\ s \in Explorations /\ all \in Seq(CycleRecords)
      /\ CyclesSound(s, all) /\ AttemptsSound(all) /\ GrantsSound(s, all)
      /\ OutcomesSound(s, all) /\ PointersSound(s)
  BY DEF Sound
<1>2. /\ g \in DOMAIN s.grants /\ s.grants[g].status = "claimed" /\ g = s.managed
      /\ \A b \in DOMAIN all : all[b].grant = g => b = L
      /\ WithinGrant(s, all[L])
  BY <1>1 DEF CyclesSound, GrantsSound
<1>3. PICK row \in GrantRecords : /\ row.status = "consumed" /\ row.consumed = now
                                  /\ row.created = s.grants[g].created
                                  /\ row.notBefore = s.grants[g].notBefore
                                  /\ grants = [s.grants EXCEPT ![g] = row]
  <2>1. s.grants[g] \in GrantRecords
    BY <1>1, <1>2, Fields
  <2> DEFINE row == [s.grants[g] EXCEPT !.status = "consumed", !.consumed = now]
  <2>2. /\ row \in GrantRecords /\ row.status = "consumed" /\ row.consumed = now
        /\ row.created = s.grants[g].created /\ row.notBefore = s.grants[g].notBefore
    BY <2>1 DEF GrantRecords
  <2>3. grants = [s.grants EXCEPT ![g] = row]
    BY <1>1, <1>2, Fields
  <2> HIDE DEF row, grants
  <2> QED  BY <2>2, <2>3
<1>4. held = [s EXCEPT !.grants = grants]
  BY <1>1 DEF Consumed, Explorations
<1>5. new \in OutcomeRecords
  BY <1>1, <1>2, CycleFields, Fields DEF OutcomeRecords
<1> HIDE DEF grants, held
<1>6. /\ grants \in Seq(GrantRecords)
      /\ DOMAIN grants = DOMAIN s.grants /\ Len(grants) = Len(s.grants)
      /\ \A h \in DOMAIN s.grants : h # g => grants[h] = s.grants[h]
      /\ grants[g] = row
  BY <1>1, <1>2, <1>3, Fields, Replaced
<1>7. /\ held \in Explorations /\ held.grants = grants /\ held.outcomes = s.outcomes
      /\ held.present = s.present /\ held.terminal = s.terminal /\ held.managed = s.managed
      /\ held.next = s.next /\ held.outcome = s.outcome /\ held.deferred = s.deferred
  BY <1>1, <1>4, <1>6 DEF Explorations
<1>9. new.kind = "completed" /\ new.grant = g /\ new.at = now /\ new.cycle = L
  OBVIOUS
<1>10. t = [held EXCEPT !.next = now + Cadence, !.terminal = L, !.deferred = TRUE,
                        !.outcomes = outcomes, !.outcome = K]
  BY <1>7, Zenon DEF Completed
<1> HIDE DEF t, new
<1>8. /\ outcomes \in Seq(OutcomeRecords) /\ Len(outcomes) = K /\ outcomes # <<>>
      /\ DOMAIN outcomes = DOMAIN s.outcomes \cup {K} /\ K \notin DOMAIN s.outcomes /\ K \in Nat
      /\ \A k \in DOMAIN s.outcomes : outcomes[k] = s.outcomes[k] /\ k < K
      /\ outcomes[K] = new
  <2>1. s.outcomes \in Seq(OutcomeRecords)
    BY <1>1, Fields
  <2>2. outcomes = Append(s.outcomes, new) /\ K = Len(s.outcomes) + 1
    OBVIOUS
  <2> HIDE DEF outcomes, K
  <2> QED  BY <1>5, <2>1, <2>2, Appended
<1> HIDE DEF outcomes, K
<1>11. /\ t \in Explorations /\ t.grants = grants /\ t.outcomes = outcomes
       /\ t.present = s.present /\ t.terminal = L /\ t.managed = g
       /\ t.next = now + Cadence /\ t.outcome = K /\ t.deferred = TRUE
  <2>1. PICK yes \in BOOLEAN : yes = TRUE
    OBVIOUS
  <2>2. PICK later \in Nat : later = now + Cadence
    BY AllowanceAssumption
  <2>3. t = [held EXCEPT !.next = later, !.terminal = L, !.deferred = yes,
                         !.outcomes = outcomes, !.outcome = K]
    BY <1>10, <2>1, <2>2, Zenon
  <2>4. L \in Nat /\ K \in Nat /\ outcomes \in Seq(OutcomeRecords) /\ held \in Explorations
    BY <1>1, <1>7, <1>8, CycleFields
  <2> HIDE DEF L
  <2>5. /\ t \in Explorations /\ t.grants = held.grants /\ t.outcomes = outcomes
        /\ t.present = held.present /\ t.terminal = L /\ t.managed = held.managed
        /\ t.next = later /\ t.outcome = K /\ t.deferred = yes
    BY <2>3, <2>4 DEF Explorations
  <2> QED  BY <1>2, <1>7, <2>1, <2>2, <2>5
<1>22. /\ DOMAIN t.outcomes = DOMAIN s.outcomes \cup {K}
       /\ \A k \in DOMAIN s.outcomes : t.outcomes[k] = s.outcomes[k]
       /\ t.outcomes[K].grant = g /\ t.outcomes[K].at = now
  BY <1>8, <1>9, <1>11
<1>12. /\ next \in Seq(CycleRecords) /\ DOMAIN next = DOMAIN all /\ Len(next) = L
       /\ \A b \in DOMAIN all : b # L => next[b] = all[b]
       /\ next[L] = c
  BY <1>1, Replaced
<1> HIDE DEF next
<1>13. /\ \A k \in DOMAIN s.outcomes : s.outcomes[k].at <= now /\ s.outcomes[k].grant # g
       /\ now >= s.grants[g].created
  <2>1. now >= s.grants[g].created
    <3>1. now >= held.grants[held.managed].created
      <4>1. held.managed # None
        BY <1>2, <1>7
      <4> QED  BY <4>1 DEF ClockValid, held
    <3> QED  BY <1>2, <1>3, <1>6, <1>7, <3>1
  <2>2. ASSUME NEW k \in DOMAIN s.outcomes PROVE s.outcomes[k].at <= now
    <3>1. /\ s.outcomes # <<>> /\ s.outcomes[k].at <= Latest(s.outcomes).at
          /\ Latest(s.outcomes).at \in Nat /\ s.outcomes[k].at \in Nat
      BY <1>1, LastOutcome, Fields
    <3>2. ClockValid(held, now)
      BY DEF held
    <3>3. now >= Latest(s.outcomes).at
      BY <1>7, <3>1, <3>2 DEF ClockValid
    <3> QED  BY <3>1, <3>3
  <2>3. \A k \in DOMAIN s.outcomes : s.outcomes[k].grant # g
    BY <1>1, <1>2 DEF OutcomesSound
  <2> QED  BY <2>1, <2>2, <2>3
<1>14. CyclesSound(t, next)
  <2>1. ASSUME NEW b \in DOMAIN all, b # L, all[b].grant # None
        PROVE  /\ all[b].grant \in DOMAIN t.grants
               /\ t.grants[all[b].grant] = s.grants[all[b].grant]
               /\ WithinGrant(t, all[b]) /\ all[b].grant # g
    BY <1>1, <1>2, <1>6, <1>11, <2>1 DEF CyclesSound, WithinGrant
  <2>2. /\ g \in DOMAIN t.grants /\ t.grants[g].status = "consumed"
        /\ t.grants[g].consumed = c.completed
    BY <1>2, <1>3, <1>6, <1>11
  <2>3. WithinGrant(t, c)
    BY <1>2, <1>3, <1>6, <1>11 DEF WithinGrant
  <2>4. \A b \in DOMAIN all : b # L => all[b].status # "active"
    BY <1>1 DEF CyclesSound
  <2> QED  BY <1>1, <1>12, <2>1, <2>2, <2>3, <2>4 DEF CyclesSound
<1>15. AttemptsSound(next)
  BY <1>1, <1>12 DEF AttemptsSound
<1>16. GrantsSound(t, next)
  <2>1. ASSUME NEW h \in DOMAIN s.grants
        PROVE  /\ t.grants[h].notBefore = s.grants[h].notBefore
               /\ t.grants[h].created = s.grants[h].created
               /\ h # g => /\ t.grants[h] = s.grants[h]
                           /\ s.grants[h].status \notin {"pending", "claimed"}
               /\ h = g => t.grants[h].status = "consumed"
               /\ ~(g < h)
    <3>1. h <= g /\ h \in Nat /\ g \in Nat
      BY <1>1, <1>2, ManagedIsLast, Fields
    <3>2. h # g => s.grants[h].status \notin {"pending", "claimed"}
      BY <1>1, <1>2 DEF GrantsSound
    <3> QED  BY <1>3, <1>6, <1>11, <3>1, <3>2
  <2>2. L \in DOMAIN next /\ next[L].grant = g /\ \A b \in DOMAIN all : next[b].grant = all[b].grant
    BY <1>12
  <2>3. /\ K \in DOMAIN t.outcomes /\ t.outcomes[K].grant = g
        /\ \A k \in DOMAIN s.outcomes : k \in DOMAIN t.outcomes /\ t.outcomes[k] = s.outcomes[k]
        /\ \A k \in DOMAIN t.outcomes : k = K \/ k \in DOMAIN s.outcomes
    BY <1>8, <1>9, <1>11
  <2>4. DOMAIN t.grants = DOMAIN s.grants /\ DOMAIN next = DOMAIN all
    BY <1>6, <1>11, <1>12
  <2> SUFFICES ASSUME NEW h \in DOMAIN s.grants
               PROVE  /\ t.grants[h].notBefore >= t.grants[h].created
                      /\ t.grants[h].status \notin {"pending", "claimed"}
                      /\ t.grants[h].status \in {"claimed", "consumed"} =>
                          \E b \in DOMAIN next : next[b].grant = h
                      /\ t.grants[h].status \in {"consumed", "cancelled"} =>
                          \E k \in DOMAIN t.outcomes : t.outcomes[k].grant = h
                      /\ \A k \in DOMAIN t.outcomes : t.outcomes[k].grant < h =>
                          t.grants[h].notBefore >= t.outcomes[k].at + Cadence
    BY <2>4 DEF GrantsSound
  <2>5. t.grants[h].notBefore >= t.grants[h].created /\ t.grants[h].status \notin {"pending", "claimed"}
    BY <1>1, <2>1 DEF GrantsSound
  <2>6. t.grants[h].status \in {"claimed", "consumed"} => \E b \in DOMAIN next : next[b].grant = h
    BY <1>1, <2>1, <2>2, <2>4 DEF GrantsSound
  <2>7. t.grants[h].status \in {"consumed", "cancelled"} =>
            \E k \in DOMAIN t.outcomes : t.outcomes[k].grant = h
    BY <1>1, <2>1, <2>3 DEF GrantsSound
  <2>8. \A k \in DOMAIN t.outcomes : t.outcomes[k].grant < h =>
            t.grants[h].notBefore >= t.outcomes[k].at + Cadence
    BY <1>1, <2>1, <2>3 DEF GrantsSound
  <2> QED  BY <2>5, <2>6, <2>7, <2>8
<1>17. OutcomesSound(t, next)
  <2>1. ASSUME NEW k \in DOMAIN s.outcomes
        PROVE  LET o == t.outcomes[k]
               IN  /\ o = s.outcomes[k] /\ o.grant \in DOMAIN t.grants
                   /\ \A j \in DOMAIN t.outcomes : t.outcomes[j].grant = o.grant => j = k
                   /\ \A j \in DOMAIN t.outcomes : j <= k => t.outcomes[j].at <= o.at
                   /\ t.grants[o.grant] = s.grants[o.grant]
                   /\ o.kind = "completed" => o.cycle \in DOMAIN next /\ next[o.cycle] = all[o.cycle]
    <3>1. t.outcomes[k] = s.outcomes[k] /\ s.outcomes[k].grant # g /\ ~(K <= k)
      BY <1>1, <1>8, <1>11, <1>13, Fields
    <3>2. /\ s.outcomes[k].grant \in DOMAIN s.grants
          /\ \A j \in DOMAIN s.outcomes : s.outcomes[j].grant = s.outcomes[k].grant => j = k
          /\ \A j \in DOMAIN s.outcomes : j <= k => s.outcomes[j].at <= s.outcomes[k].at
          /\ s.outcomes[k].kind = "completed" =>
                /\ s.outcomes[k].cycle \in DOMAIN all
                /\ all[s.outcomes[k].cycle].grant = s.outcomes[k].grant
      BY <1>1 DEF OutcomesSound
    <3>3. s.outcomes[k].kind = "completed" => s.outcomes[k].cycle # L
      BY <3>1, <3>2
    <3>4. /\ \A j \in DOMAIN t.outcomes : t.outcomes[j].grant = s.outcomes[k].grant => j = k
          /\ \A j \in DOMAIN t.outcomes : j <= k => t.outcomes[j].at <= s.outcomes[k].at
      BY <1>22, <3>1, <3>2
    <3>5. /\ s.outcomes[k].grant \in DOMAIN t.grants
          /\ t.grants[s.outcomes[k].grant] = s.grants[s.outcomes[k].grant]
      BY <1>6, <1>11, <3>1, <3>2
    <3> QED  BY <1>12, <3>1, <3>2, <3>3, <3>4, <3>5
  <2>2. /\ new.grant \in DOMAIN t.grants
        /\ \A j \in DOMAIN t.outcomes : t.outcomes[j].grant = new.grant => j = K
        /\ \A j \in DOMAIN t.outcomes : t.outcomes[j].at <= new.at
        /\ new.at >= t.grants[new.grant].created
        /\ t.grants[new.grant].status = "consumed"
        /\ new.cycle \in DOMAIN next /\ next[new.cycle].grant = new.grant
        /\ next[new.cycle].completed = new.at
    <3>1. \A j \in DOMAIN t.outcomes : t.outcomes[j].grant = g => j = K
      BY <1>13, <1>22
    <3>2. \A j \in DOMAIN t.outcomes : t.outcomes[j].at <= now
      BY <1>13, <1>22
    <3> QED  BY <1>2, <1>3, <1>6, <1>9, <1>11, <1>12, <1>13, <3>1, <3>2
  <2>3. t.outcomes[K] = new /\ \A j \in DOMAIN t.outcomes : j = K \/ j \in DOMAIN s.outcomes
    BY <1>8, <1>11
  <2>4. \A k \in DOMAIN s.outcomes :
            LET o == s.outcomes[k]
            IN  /\ o.at >= s.grants[o.grant].created
                /\ IF o.kind = "completed"
                   THEN /\ s.grants[o.grant].status = "consumed"
                        /\ all[o.cycle].grant = o.grant /\ all[o.cycle].completed = o.at
                   ELSE s.grants[o.grant].status = "cancelled"
    BY <1>1 DEF OutcomesSound
  <2> QED  BY <1>9, <2>1, <2>2, <2>3, <2>4 DEF OutcomesSound
<1>19. t.present
  BY <1>1, <1>2, <1>11, Fields DEF PointersSound
<1>18. PointersSound(t)
  <2>1. Completions(t) = Completions(s) \cup {K} /\ Completions(s) \subseteq DOMAIN s.outcomes
    BY <1>8, <1>9, <1>11 DEF Completions
  <2>2. K \in Completions(t) /\ t.terminal = t.outcomes[K].cycle
    BY <1>8, <1>9, <1>11, <2>1
  <2>3. \A j \in Completions(t) : j <= K
    <3>1. \A j \in DOMAIN s.outcomes : j <= K
      BY <1>1, <1>8, Fields
    <3> QED  BY <1>8, <2>1, <3>1
  <2>4. Latest(t.outcomes) = new
    BY <1>8, <1>11 DEF Latest
  <2>5. t.managed = Len(t.grants) /\ t.grants # <<>>
    BY <1>1, <1>2, <1>6, <1>11, Fields DEF PointersSound, None
  <2>6. t.next >= Latest(t.outcomes).at + Cadence
    BY <1>9, <1>11, <2>4, AllowanceAssumption
  <2> QED  BY <1>8, <1>11, <1>19, <2>2, <2>3, <2>5, <2>6 DEF PointersSound
<1>20. Sound(t, next)
  BY <1>11, <1>12, <1>14, <1>15, <1>16, <1>17, <1>18 DEF Sound
<1>21. t.managed = g /\ t.grants[t.managed].status = "consumed"
  BY <1>3, <1>6, <1>11
<1> QED  BY <1>19, <1>20, <1>21 DEF t, next, held

\* record_exploration_outcome.
LEMMA AccountedSound ==
    ASSUME NEW s, NEW all, NEW now \in Nat, NEW c, NEW g, NEW done,
           done = Completed(s, c, g, now),
           Sound(done, all), done.present, done.managed # None,
           done.grants[done.managed].status = "consumed"
    PROVE  Sound(Accounted(s, c, g, now), all)
BY MaterializedSound DEF Accounted

-----------------------------------------------------------------------------
(* What a run makes of a cycle *)

AttemptsWithin(c) ==
    /\ Len(c.attempts) <= c.limit
    /\ \A k \in DOMAIN c.attempts : /\ c.attempts[k].started < c.deadline
                                    /\ c.attempts[k].status = "started" => k = Len(c.attempts)

\* What c may replace: a turn changes, the course of its cycle does not.
Follows(c, l) ==
    /\ c \in CycleRecords
    /\ c.grant = l.grant /\ c.wakes = l.wakes /\ c.status = l.status
    /\ c.started = l.started /\ c.deadline = l.deadline
    /\ c.completed = l.completed /\ c.limit = l.limit
    /\ c.grant # None => AttemptsWithin(c)

LEMMA LatestFollows ==
    ASSUME Sound(exploration, cycles), Running
    PROVE  Follows(Latest(cycles), Latest(cycles))
<1>1. AttemptsSound(cycles)
  BY DEF Sound
<1>2. /\ Len(cycles) \in DOMAIN cycles /\ Latest(cycles) = cycles[Len(cycles)]
      /\ Latest(cycles) \in CycleRecords
  BY RunningLatest
<1> QED  BY <1>1, <1>2 DEF Follows, AttemptsSound, AttemptsWithin

LEMMA TurnFollows ==
    ASSUME NEW c, NEW l, Follows(c, l),
           NEW turn \in {"prepared", "invoking", "decided", "applied", "rejected", "failed"}
    PROVE  /\ Follows([c EXCEPT !.turn = turn], l)
           /\ [c EXCEPT !.turn = turn].attempts = c.attempts
<1> DEFINE t == [c EXCEPT !.turn = turn]
<1>1. /\ t \in CycleRecords
      /\ t.grant = c.grant /\ t.wakes = c.wakes /\ t.status = c.status
      /\ t.started = c.started /\ t.deadline = c.deadline
      /\ t.completed = c.completed /\ t.limit = c.limit /\ t.attempts = c.attempts
  BY DEF Follows, CycleRecords
<1> HIDE DEF t
<1>2. Follows(t, l)
  BY <1>1 DEF Follows, AttemptsWithin
<1> QED  BY <1>1, <1>2 DEF t

LEMMA FrozenFollows ==
    ASSUME NEW c, NEW l, Follows(c, l)
    PROVE  /\ Follows([c EXCEPT !.frozen = TRUE], l)
           /\ [c EXCEPT !.frozen = TRUE].attempts = c.attempts
<1> DEFINE t == [c EXCEPT !.frozen = TRUE]
<1>1. /\ t \in CycleRecords
      /\ t.grant = c.grant /\ t.wakes = c.wakes /\ t.status = c.status
      /\ t.started = c.started /\ t.deadline = c.deadline
      /\ t.completed = c.completed /\ t.limit = c.limit /\ t.attempts = c.attempts
  BY DEF Follows, CycleRecords
<1> HIDE DEF t
<1>2. Follows(t, l)
  BY <1>1 DEF Follows, AttemptsWithin
<1> QED  BY <1>1, <1>2 DEF t

\* Attempts that replace those of a cycle within it.
LEMMA AttemptsFollow ==
    ASSUME NEW c, NEW l, Follows(c, l), NEW attempts \in Seq(AttemptRecords),
           c.grant # None =>
                /\ Len(attempts) <= c.limit
                /\ \A k \in DOMAIN attempts :
                    /\ attempts[k].started < c.deadline
                    /\ attempts[k].status = "started" => k = Len(attempts)
    PROVE  Follows([c EXCEPT !.attempts = attempts], l)
<1> DEFINE t == [c EXCEPT !.attempts = attempts]
<1>1. /\ t \in CycleRecords
      /\ t.grant = c.grant /\ t.wakes = c.wakes /\ t.status = c.status
      /\ t.started = c.started /\ t.deadline = c.deadline
      /\ t.completed = c.completed /\ t.limit = c.limit /\ t.attempts = attempts
  BY DEF Follows, CycleRecords
<1> HIDE DEF t
<1>2. Follows(t, l)
  BY <1>1 DEF Follows, AttemptsWithin
<1> QED  BY <1>1, <1>2 DEF t

LEMMA AbandonFollows ==
    ASSUME NEW c, NEW l, Follows(c, l)
    PROVE  /\ Follows(Abandon(c), l) /\ Len(Abandon(c).attempts) = Len(c.attempts)
           /\ \A k \in DOMAIN Abandon(c).attempts : Abandon(c).attempts[k].status # "started"
<1> DEFINE attempts == [k \in DOMAIN c.attempts |->
                          IF c.attempts[k].status = "started"
                          THEN [c.attempts[k] EXCEPT !.status = "abandoned"]
                          ELSE c.attempts[k]]
<1>1. c \in CycleRecords /\ c.attempts \in Seq(AttemptRecords)
  BY DEF Follows, CycleRecords
<1>2. \A k \in DOMAIN c.attempts : /\ attempts[k] \in AttemptRecords
                                   /\ attempts[k].started = c.attempts[k].started
                                   /\ attempts[k].status # "started"
  <2> SUFFICES ASSUME NEW k \in DOMAIN c.attempts
               PROVE  /\ attempts[k] \in AttemptRecords
                      /\ attempts[k].started = c.attempts[k].started
                      /\ attempts[k].status # "started"
    OBVIOUS
  <2>1. c.attempts[k] \in AttemptRecords
    BY <1>1
  <2> QED  BY <2>1 DEF AttemptRecords
<1>3. /\ DOMAIN attempts = 1 .. Len(c.attempts) /\ Len(c.attempts) \in Nat
      /\ DOMAIN attempts = DOMAIN c.attempts
  BY <1>1
<1>4. Abandon(c) = [c EXCEPT !.attempts = attempts]
  BY DEF Abandon
<1> HIDE DEF attempts
<1>5. attempts \in Seq(AttemptRecords) /\ Len(attempts) = Len(c.attempts)
  <2>1. attempts \in [1 .. Len(c.attempts) -> AttemptRecords]
    <3>1. attempts = [k \in 1 .. Len(c.attempts) |-> attempts[k]]
      BY <1>1 DEF attempts
    <3> QED  BY <1>2, <1>3, <3>1
  <2> QED  BY <1>3, <2>1
<1>6. Follows([c EXCEPT !.attempts = attempts], l)
  <2>1. c.grant # None => AttemptsWithin(c)
    BY DEF Follows
  <2> QED  BY <1>2, <1>3, <1>5, <2>1, AttemptsFollow DEF AttemptsWithin
<1>7. [c EXCEPT !.attempts = attempts].attempts = attempts
  BY <1>1 DEF CycleRecords
<1> QED  BY <1>2, <1>3, <1>4, <1>5, <1>6, <1>7

LEMMA AnswerFollows ==
    ASSUME Sound(exploration, cycles), Running, NEW status \in {"failed", "completed"}
    PROVE  /\ Follows(Answered(status), Latest(cycles))
           /\ Len(Answered(status).attempts) = Len(Latest(cycles).attempts)
<1> DEFINE c == Latest(cycles)
           n == Len(c.attempts)
           attempts == [c.attempts EXCEPT ![n].status = status]
<1>1. Follows(c, c)
  BY LatestFollows
<1>2. c \in CycleRecords /\ c.attempts \in Seq(AttemptRecords)
  BY <1>1 DEF Follows, CycleRecords
<1>3. Answered(status) = [c EXCEPT !.attempts = attempts]
  BY DEF Answered
<1> HIDE DEF c
<1>4. /\ DOMAIN attempts = DOMAIN c.attempts
      /\ \A k \in DOMAIN c.attempts :
            /\ attempts[k] \in AttemptRecords /\ attempts[k].started = c.attempts[k].started
            /\ attempts[k].status = "started" => c.attempts[k].status = "started"
  <2>1. DOMAIN attempts = DOMAIN c.attempts
    OBVIOUS
  <2>2. \A r \in AttemptRecords : LET x == [r EXCEPT !.status = status]
                                  IN  /\ x \in AttemptRecords /\ x.started = r.started
                                      /\ x.status = status
    BY DEF AttemptRecords
  <2>3. ASSUME NEW k \in DOMAIN c.attempts
        PROVE  /\ attempts[k] \in AttemptRecords /\ attempts[k].started = c.attempts[k].started
               /\ attempts[k].status = "started" => c.attempts[k].status = "started"
    <3>1. c.attempts[k] \in AttemptRecords
      BY <1>2
    <3>2. attempts[k] = IF k = n THEN [c.attempts[k] EXCEPT !.status = status] ELSE c.attempts[k]
      BY <1>2
    <3> QED  BY <2>2, <3>1, <3>2
  <2> QED  BY <2>1, <2>3
<1>5. DOMAIN c.attempts = 1 .. Len(c.attempts) /\ Len(c.attempts) \in Nat
  BY <1>2
<1> HIDE DEF attempts
<1>6. attempts \in Seq(AttemptRecords) /\ Len(attempts) = Len(c.attempts)
  <2>1. attempts \in [1 .. Len(c.attempts) -> AttemptRecords]
    <3>1. c.attempts \in [1 .. Len(c.attempts) -> AttemptRecords]
      BY <1>2
    <3>2. attempts = [c.attempts EXCEPT ![n] = [c.attempts[n] EXCEPT !.status = status]]
      BY DEF attempts
    <3>3. \A k \in 1 .. Len(c.attempts) : attempts[k] \in AttemptRecords
      BY <1>4, <1>5
    <3> QED  BY <3>1, <3>2, <3>3, <1>5
  <2> QED  BY <1>5, <2>1
<1>7. Follows([c EXCEPT !.attempts = attempts], c)
  <2>1. c.grant # None => AttemptsWithin(c)
    BY <1>1 DEF Follows
  <2> QED  BY <1>1, <1>4, <1>6, <2>1, AttemptsFollow DEF AttemptsWithin
<1>8. [c EXCEPT !.attempts = attempts].attempts = attempts
  BY <1>2 DEF CycleRecords
<1> QED  BY <1>3, <1>6, <1>7, <1>8 DEF c

\* An attempt that is within the limits of its cycle.
LEMMA AttemptFollows ==
    ASSUME NEW c, NEW l, Follows(c, l), NEW now \in Nat, ~Spent(c, now),
           \A k \in DOMAIN c.attempts : c.attempts[k].status # "started"
    PROVE  Follows([c EXCEPT !.turn = "invoking",
                             !.attempts = Append(@, [status |-> "started", started |-> now])], l)
<1> DEFINE t        == [c EXCEPT !.turn = "invoking"]
           new      == [status |-> "started", started |-> now]
           attempts == Append(c.attempts, new)
           K        == Len(c.attempts) + 1
<1>1. c \in CycleRecords /\ c.attempts \in Seq(AttemptRecords) /\ c.limit \in Nat /\ c.deadline \in Nat
  BY DEF Follows, CycleRecords
<1>2. Follows(t, l)
  BY TurnFollows
<1>3. t.attempts = c.attempts /\ t.limit = c.limit /\ t.deadline = c.deadline /\ t.grant = c.grant
  BY <1>1 DEF CycleRecords
<1>4. new \in AttemptRecords /\ new.started = now
  BY DEF AttemptRecords
<1> HIDE DEF new
<1>5. /\ attempts \in Seq(AttemptRecords) /\ Len(attempts) = K
      /\ DOMAIN attempts = DOMAIN c.attempts \cup {K}
      /\ \A k \in DOMAIN c.attempts : attempts[k] = c.attempts[k]
      /\ attempts[K] = new
  BY <1>1, <1>4
<1>6. K <= c.limit /\ now < c.deadline
  BY <1>1 DEF Spent
<1> HIDE DEF attempts, K, t
<1>7. Follows([t EXCEPT !.attempts = attempts], l)
  <2>1. c.grant # None => AttemptsWithin(c)
    BY DEF Follows
  <2> QED  BY <1>2, <1>3, <1>4, <1>5, <1>6, <2>1, AttemptsFollow DEF AttemptsWithin
<1>8. [t EXCEPT !.attempts = attempts] =
          [c EXCEPT !.turn = "invoking", !.attempts = Append(@, [status |-> "started", started |-> now])]
  <2>1. attempts = Append(t.attempts, new)
    BY <1>3 DEF attempts
  <2>2. [t EXCEPT !.attempts = attempts] = [t EXCEPT !.attempts = Append(@, new)]
    BY <2>1, Zenon
  <2> QED  BY <2>2, Zenon DEF t, new
<1> QED  BY <1>7, <1>8

-----------------------------------------------------------------------------
(* Every step keeps it *)

LEMMA ContinueKeeps ==
    ASSUME Sound(exploration, cycles), Running, NEW p, NEW place, NEW c,
           Follows(c, Latest(cycles)), Continue(p, c, place)
    PROVE  Sound(exploration', cycles')
<1>1. /\ Len(cycles) \in DOMAIN cycles /\ Latest(cycles) = cycles[Len(cycles)]
  BY RunningLatest
<1>2. Sound(exploration, [cycles EXCEPT ![Len(cycles)] = c])
  BY <1>1, CycleContinues DEF Follows, AttemptsWithin
<1> QED  BY <1>2 DEF Continue, Replace

\* finish_cycle, with whatever the run made of the cycle before.
LEMMA FinishKeeps ==
    ASSUME Sound(exploration, cycles), Running, NEW p, NEW c, NEW now \in Nat,
           NEW status \in {"completed", "failed"},
           Follows(c, Latest(cycles)), Finish(p, c, status, now)
    PROVE  Sound(exploration', cycles')
<1> DEFINE d    == [c EXCEPT !.status = status, !.completed = now]
           L    == Len(cycles)
           all  == [cycles EXCEPT ![L] = d]
           s    == Consumed(exploration, c, now)
           done == Completed(s, L, c.grant, now)
<1>1. /\ L \in DOMAIN cycles /\ Latest(cycles) = cycles[L] /\ cycles[L].status = "active"
  BY RunningLatest
<1>2. /\ d \in CycleRecords /\ d.status = status /\ d.completed = now
      /\ d.grant = c.grant /\ d.wakes = c.wakes /\ d.started = c.started
      /\ d.deadline = c.deadline /\ d.limit = c.limit /\ d.attempts = c.attempts
  BY DEF Follows, CycleRecords
<1>3. \/ exploration' = exploration /\ cycles' = cycles
      \/ /\ cycles' = all
         /\ exploration' = IF c.grant = None THEN s ELSE Accounted(s, L, c.grant, now)
         /\ c.grant # None => ClockValid(s, now)
  BY DEF Finish, RunEnds, store
<1>4. Consumed(exploration, d, now) = s
  BY <1>2 DEF Consumed
<1> HIDE DEF d
<1>5. CASE exploration' = exploration /\ cycles' = cycles
  BY <1>5
<1>6. CASE /\ cycles' = all
           /\ exploration' = IF c.grant = None THEN s ELSE Accounted(s, L, c.grant, now)
           /\ c.grant # None => ClockValid(s, now)
  <2>1. CASE c.grant = None
    <3>1. Sound(exploration, all)
      BY <1>1, <1>2, <2>1, CycleContinues DEF Follows
    <3> QED  BY <1>6, <2>1, <3>1 DEF Consumed
  <2>2. CASE c.grant # None
    <3>1. /\ d.grant = cycles[L].grant /\ d.grant # None /\ d.status # "active"
          /\ d.started = cycles[L].started /\ d.deadline = cycles[L].deadline
          /\ d.limit = cycles[L].limit /\ d.wakes = cycles[L].wakes
          /\ Len(d.attempts) <= d.limit
          /\ \A k \in DOMAIN d.attempts :
                /\ d.attempts[k].started < d.deadline
                /\ d.attempts[k].status = "started" => k = Len(d.attempts)
      BY <1>1, <1>2, <2>2 DEF Follows, AttemptsWithin
    <3>2. ClockValid(Consumed(exploration, d, now), now)
      BY <1>4, <1>6, <2>2
    <3>3. /\ Sound(done, all) /\ done.present /\ done.managed = d.grant
          /\ done.grants[done.managed].status = "consumed"
      BY <1>1, <1>2, <1>4, <3>1, <3>2, CompletedSound
    <3> HIDE DEF all
    <3>4. Sound(Accounted(s, L, c.grant, now), all)
      <4> HIDE DEF s
      <4> QED  BY <1>2, <2>2, <3>3, AccountedSound
    <3> QED  BY <1>6, <2>2, <3>4
  <2> QED  BY <2>1, <2>2
<1> QED  BY <1>3, <1>5, <1>6

\* The clocks of the hosts.
LEMMA Clocks ==
    ASSUME TypeOK, NEW p \in Runtimes
    PROVE  Now(p) \in Nat /\ at[p] \in Nat
BY RuntimeAssumption DEF TypeOK, Now

LEMMA StartKeeps ==
    ASSUME Invariant, NEW p \in Runtimes, Start(p)
    PROVE  Sound(exploration', cycles')
<1>1. Sound(exploration, cycles) /\ Now(p) \in Nat
  BY Clocks DEF Invariant
<1>2. CASE StartFails(p) \/ Resume(p)
  <2>1. UNCHANGED <<exploration, cycles>>
    BY <1>2 DEF StartFails, Resume, RunEnds, store
  <2> QED  BY <1>1, <2>1
<1>3. ASSUME Starts(p) PROVE Sound(Ensured(Now(p)), cycles)
  BY <1>1, <1>3, EnsuredSound DEF Starts, Startable
<1>4. CASE Idle(p)
  BY <1>3, <1>4 DEF Idle
<1>5. CASE ClaimOrdinary(p)
  <2>1. PICK W \in SUBSET DueOrdinary(Now(p)) :
            /\ exploration' = Ensured(Now(p))
            /\ cycles' = Append(cycles, NewCycle(None, W, Now(p), Limits[p].attempts,
                                                 Limits[p].seconds))
    BY <1>5 DEF ClaimOrdinary, StartCycle
  <2> DEFINE c == NewCycle(None, W, Now(p), Limits[p].attempts, Limits[p].seconds)
  <2>2. c \in CycleRecords /\ c.grant = None
    <3>1. W \in SUBSET Ordinary
      BY DEF DueOrdinary
    <3>2. Limits[p].attempts \in Nat /\ Limits[p].seconds \in Nat
      BY RuntimeAssumption
    <3> QED  BY <1>1, <3>1, <3>2 DEF NewCycle, CycleRecords, None, Never
  <2> HIDE DEF c
  <2>3. Sound(Ensured(Now(p)), cycles) /\ NoneActive(cycles)
    BY <1>1, <1>3, <1>5, NotRunning DEF ClaimOrdinary
  <2>4. Sound(Ensured(Now(p)), Append(cycles, c))
    BY <2>2, <2>3, OrdinaryStarts
  <2> QED  BY <2>1, <2>4 DEF c
<1>6. CASE ClaimGrant(p)
  <2> DEFINE s == Ensured(Now(p))
             attempts == Min({Limits[p].attempts, MaxAttempts})
             seconds  == Min({Limits[p].seconds, MaxSeconds})
  <2>1. PICK g \in Eligible(s, Now(p)) :
            /\ exploration' = [s EXCEPT !.grants[g].status = "claimed"]
            /\ cycles' = Append(cycles, NewCycle(g, {}, Now(p), attempts, seconds))
    BY <1>6 DEF ClaimGrant, StartCycle
  <2> DEFINE c == NewCycle(g, {}, Now(p), attempts, seconds)
  <2>2. Sound(s, cycles) /\ NoneActive(cycles)
    BY <1>1, <1>3, <1>6, NotRunning DEF ClaimGrant
  <2>3. /\ attempts \in Nat \ {0} /\ attempts <= MaxAttempts
        /\ seconds \in Nat \ {0} /\ seconds <= MaxSeconds
    <3>1. /\ Limits[p].attempts \in Nat \ {0} /\ Limits[p].seconds \in Nat \ {0}
          /\ MaxAttempts \in Nat \ {0} /\ MaxSeconds \in Nat \ {0}
      BY RuntimeAssumption, AllowanceAssumption
    <3> QED  BY <3>1, PairMin
  <2> HIDE DEF s, attempts, seconds
  <2>4. /\ g \in DOMAIN s.grants /\ s.grants[g].status = "pending"
        /\ s.grants[g].notBefore <= Now(p) /\ s.grants[g].notBefore \in Nat /\ g \in Nat
    <3>1. /\ g \in DOMAIN s.grants /\ s.grants[g].status = "pending"
          /\ s.grants[g].notBefore <= Now(p)
      BY DEF Eligible, Live
    <3> QED  BY <2>2, <3>1, Fields DEF Sound
  <2>5. /\ c \in CycleRecords /\ c.grant = g /\ c.status = "active" /\ c.attempts = <<>>
        /\ c.started = Now(p) /\ c.deadline = Now(p) + seconds /\ c.limit = attempts /\ c.wakes = {}
    BY <1>1, <2>3, <2>4 DEF NewCycle, CycleRecords, Never
  <2> HIDE DEF c
  <2>6. WithinGrant(s, c)
    BY <1>1, <2>3, <2>4, <2>5, AllowanceAssumption DEF WithinGrant
  <2>7. Sound([s EXCEPT !.grants[g].status = "claimed"], Append(cycles, c))
    BY <2>2, <2>4, <2>5, <2>6, GrantStarts
  <2> QED  BY <2>1, <2>7 DEF c
<1> QED  BY <1>2, <1>4, <1>5, <1>6 DEF Start

LEMMA LoopKeeps ==
    ASSUME Invariant, NEW p \in Runtimes, Loop(p)
    PROVE  Sound(exploration', cycles')
<1>1. Sound(exploration, cycles) /\ Now(p) \in Nat
  BY Clocks DEF Invariant
<1>2. CASE LeaveLoop(p)
  BY <1>1, <1>2 DEF LeaveLoop, RunEnds, store
<1>3. CASE OrdinaryCycle(p)
  <2>1. CASE RunEnds(p)
    BY <1>1, <2>1 DEF RunEnds, store
  <2>2. ASSUME NEW status \in {"completed", "failed"}, Finish(p, Latest(cycles), status, Now(p))
        PROVE  Sound(exploration', cycles')
    BY <1>1, <1>3, <2>2, LatestFollows, FinishKeeps DEF OrdinaryCycle
  <2> QED  BY <1>3, <2>1, <2>2 DEF OrdinaryCycle
<1>4. CASE Apply(p)
  <2>1. Running
    BY <1>4 DEF Apply, Exploring
  <2>2. \A turn \in {"applied", "rejected"} :
            Follows([Latest(cycles) EXCEPT !.turn = turn], Latest(cycles))
    BY <1>1, <2>1, LatestFollows, TurnFollows
  <2>3. CASE Finish(p, [Latest(cycles) EXCEPT !.turn = "applied"], "completed", Now(p))
    BY <1>1, <2>1, <2>2, <2>3, FinishKeeps
  <2>4. CASE Finish(p, [Latest(cycles) EXCEPT !.turn = "rejected"], "failed", Now(p))
    BY <1>1, <2>1, <2>2, <2>4, FinishKeeps
  <2> QED  BY <1>4, <2>3, <2>4 DEF Apply
<1>5. CASE Settle(p)
  <2> DEFINE c == Abandon(Latest(cycles))
  <2>1. Running
    BY <1>5 DEF Settle, Exploring
  <2>2. Follows(c, Latest(cycles))
    BY <1>1, <2>1, LatestFollows, AbandonFollows
  <2>3. \/ Finish(p, [c EXCEPT !.turn = "failed"], "failed", Now(p))
        \/ Continue(p, c, "freeze")
    BY <1>5 DEF Settle
  <2> HIDE DEF c
  <2>4. CASE Finish(p, [c EXCEPT !.turn = "failed"], "failed", Now(p))
    <3>1. Follows([c EXCEPT !.turn = "failed"], Latest(cycles))
      BY <2>2, TurnFollows
    <3> QED  BY <1>1, <2>1, <2>4, <3>1, FinishKeeps
  <2>5. CASE Continue(p, c, "freeze")
    BY <1>1, <2>1, <2>2, <2>5, ContinueKeeps
  <2> QED  BY <2>3, <2>4, <2>5
<1> QED  BY <1>2, <1>3, <1>4, <1>5 DEF Loop

LEMMA InvocationKeeps ==
    ASSUME Invariant, NEW p \in Runtimes, Invocation(p)
    PROVE  Sound(exploration', cycles')
<1>1. Sound(exploration, cycles) /\ Now(p) \in Nat /\ at[p] \in Nat
  BY Clocks DEF Invariant
<1>2. Running
  BY DEF Invocation, Freeze, CannotFreeze, InvokeBlocked, Invoke, AttemptFails, Refused, Decide,
         Exploring
<1>3. Follows(Latest(cycles), Latest(cycles))
  BY <1>1, <1>2, LatestFollows
<1>4. CASE Freeze(p)
  <2>1. Follows([Latest(cycles) EXCEPT !.frozen = TRUE], Latest(cycles))
    BY <1>3, FrozenFollows
  <2>2. Continue(p, [Latest(cycles) EXCEPT !.frozen = TRUE], "invoke")
    BY <1>4 DEF Freeze
  <2> QED  BY <1>1, <1>2, <2>1, <2>2, ContinueKeeps
<1>5. CASE CannotFreeze(p)
  <2>1. Follows([Latest(cycles) EXCEPT !.turn = "failed"], Latest(cycles))
    BY <1>3, TurnFollows
  <2>2. Finish(p, [Latest(cycles) EXCEPT !.turn = "failed"], "failed", at[p])
    BY <1>5 DEF CannotFreeze
  <2> QED  BY <1>1, <1>2, <2>1, <2>2, FinishKeeps
<1>6. CASE InvokeBlocked(p)
  BY <1>1, <1>6 DEF InvokeBlocked, RunEnds, store
<1>7. CASE Invoke(p)
  <2> DEFINE c    == Abandon(Latest(cycles))
             more == [c EXCEPT !.turn = "invoking",
                               !.attempts = Append(@, [status |-> "started", started |-> Now(p)])]
  <2>1. /\ Follows(c, Latest(cycles))
        /\ \A k \in DOMAIN c.attempts : c.attempts[k].status # "started"
    BY <1>3, AbandonFollows
  <2>2. \/ Finish(p, [c EXCEPT !.turn = "failed"], "failed", Now(p))
        \/ ~Spent(c, Now(p)) /\ Continue(p, more, "call")
    BY <1>7 DEF Invoke
  <2> HIDE DEF c
  <2>3. CASE Finish(p, [c EXCEPT !.turn = "failed"], "failed", Now(p))
    <3>1. Follows([c EXCEPT !.turn = "failed"], Latest(cycles))
      BY <2>1, TurnFollows
    <3> QED  BY <1>1, <1>2, <2>3, <3>1, FinishKeeps
  <2>4. CASE ~Spent(c, Now(p)) /\ Continue(p, more, "call")
    <3>1. Follows(more, Latest(cycles))
      <4>1. Now(p) \in Nat /\ ~Spent(c, Now(p))
        BY <1>1, <2>4
      <4> QED  BY <2>1, <4>1, AttemptFollows, Zenon
    <3> HIDE DEF more
    <3> QED  BY <1>1, <1>2, <2>4, <3>1, ContinueKeeps
  <2> QED  BY <2>2, <2>3, <2>4
<1>8. CASE AttemptFails(p)
  <2>1. Follows(Answered("failed"), Latest(cycles)) /\ Continue(p, Answered("failed"), "loop")
    BY <1>1, <1>2, <1>8, AnswerFollows DEF AttemptFails
  <2> QED  BY <1>1, <1>2, <2>1, ContinueKeeps
<1>9. CASE Refused(p)
  <2>1. Follows([Answered("failed") EXCEPT !.turn = "failed"], Latest(cycles))
    BY <1>1, <1>2, AnswerFollows, TurnFollows
  <2>2. Finish(p, [Answered("failed") EXCEPT !.turn = "failed"], "failed", Now(p))
    BY <1>9 DEF Refused
  <2> QED  BY <1>1, <1>2, <2>1, <2>2, FinishKeeps
<1>10. CASE Decide(p)
  <2>1. Follows([Answered("completed") EXCEPT !.turn = "decided"], Latest(cycles))
    BY <1>1, <1>2, AnswerFollows, TurnFollows
  <2>2. Continue(p, [Answered("completed") EXCEPT !.turn = "decided"], "loop")
    BY <1>10 DEF Decide
  <2> QED  BY <1>1, <1>2, <2>1, <2>2, ContinueKeeps
<1> QED  BY <1>4, <1>5, <1>6, <1>7, <1>8, <1>9, <1>10 DEF Invocation

LEMMA NextSound == Invariant /\ [Next]_vars => Sound(exploration', cycles')
<1> SUFFICES ASSUME Invariant, [Next]_vars PROVE Sound(exploration', cycles')
  OBVIOUS
<1>1. Sound(exploration, cycles)
  BY DEF Invariant
<1>2. ASSUME NEW p \in Runtimes, Run(p) PROVE Sound(exploration', cycles')
  <2>1. CASE Acquire(p)
    BY <1>1, <2>1 DEF Acquire, store
  <2> QED  BY <1>2, <2>1, StartKeeps, LoopKeeps, InvocationKeeps DEF Run
<1>3. CASE \/ \E p \in Runtimes : Interrupted(p)
           \/ Administer \/ PostOrdinary \/ Tick \/ UNCHANGED vars
  <2>1. UNCHANGED <<exploration, cycles>>
    BY <1>3 DEF Interrupted, Administer, SetPolicy, ChangeLifecycle, UpdateGovernance, AdminStep,
                PostOrdinary, Tick, store, vars
  <2> QED  BY <1>1, <2>1
<1> QED  BY <1>2, <1>3 DEF Next

LEMMA NextTypes == TypeOK /\ [Next]_vars /\ Sound(exploration', cycles') => TypeOK'
<1> SUFFICES ASSUME TypeOK, [Next]_vars, Sound(exploration', cycles') PROVE TypeOK'
  OBVIOUS
<1> DEFINE Rows   == [Ordinary -> [status : {"none", "pending", "claimed", "consumed"}, due : Nat]]
           Places == [Runtimes -> {"away", "idle", "ready", "loop", "freeze", "invoke", "call"}]
           Same   == UNCHANGED <<clock, operational, inferenceBlocked, policy, faults, adminSteps>>
           Acts   == /\ ordinary' \in Rows /\ anchor' \in Nat
                     /\ owner' \in Runtimes \cup {NoRuntime}
                     /\ pc' \in Places /\ at' \in [Runtimes -> Nat]
<1>1. exploration' \in Explorations /\ cycles' \in Seq(CycleRecords)
  BY DEF Sound
<1>2. SUFFICES Acts /\ clock' \in Nat
               /\ operational' \in Statuses /\ inferenceBlocked' \in BOOLEAN /\ policy' \in Policies
               /\ faults' \in Nat /\ adminSteps' \in Nat
  BY <1>1 DEF TypeOK
<1>3. /\ ordinary \in Rows /\ anchor \in Nat /\ owner \in Runtimes \cup {NoRuntime}
      /\ pc \in Places /\ at \in [Runtimes -> Nat]
      /\ clock \in Nat /\ operational \in Statuses /\ inferenceBlocked \in BOOLEAN
      /\ policy \in Policies /\ faults \in Nat /\ adminSteps \in Nat
  BY DEF TypeOK
<1>4. ASSUME NEW W \in SUBSET Ordinary, NEW status \in {"claimed", "consumed"}
      PROVE  [w \in Ordinary |-> IF w \in W THEN [ordinary[w] EXCEPT !.status = status]
                                            ELSE ordinary[w]] \in Rows
  <2>1. \A r \in [status : {"none", "pending", "claimed", "consumed"}, due : Nat] :
            [r EXCEPT !.status = status]
                \in [status : {"none", "pending", "claimed", "consumed"}, due : Nat]
    OBVIOUS
  <2> QED  BY <1>3, <2>1
<1>5. ASSUME NEW p \in Runtimes, RunEnds(p) PROVE Acts /\ Same
  BY <1>3, <1>5 DEF RunEnds, Leave, Goto, Never, authority, store, bounds
<1>6. ASSUME NEW p \in Runtimes, NEW c, NEW status, NEW now \in Nat,
             c.wakes \in SUBSET Ordinary, Finish(p, c, status, now)
      PROVE  Acts /\ Same
  <2>1. CASE RunEnds(p)
    BY <1>5, <2>1
  <2>2. CASE /\ anchor' = now /\ Goto(p, "loop")
             /\ ordinary' = [w \in Ordinary |-> IF w \in c.wakes
                                                THEN [ordinary[w] EXCEPT !.status = "consumed"]
                                                ELSE ordinary[w]]
             /\ UNCHANGED <<clock, authority, owner, at, bounds>>
    BY <1>3, <1>4, <1>6, <2>2 DEF Goto, authority, bounds
  <2> QED  BY <1>6, <2>1, <2>2 DEF Finish
<1>7. ASSUME NEW p \in Runtimes, NEW c, NEW place \in {"loop", "freeze", "invoke", "call"},
             Continue(p, c, place), at' \in [Runtimes -> Nat]
      PROVE  Acts /\ Same
  BY <1>3, <1>7 DEF Continue, Goto, authority, bounds
<1>8. ASSUME NEW p \in Runtimes, Start(p) \/ Acquire(p) PROVE Acts /\ Same
  <2>1. CASE Acquire(p)
    BY <1>3, <2>1 DEF Acquire, Goto, authority, store, bounds
  <2>2. CASE StartFails(p)
    BY <1>5, <2>2 DEF StartFails
  <2>3. CASE Resume(p)
    BY <1>3, <2>3 DEF Resume, Goto, authority, store, bounds
  <2>4. CASE Idle(p)
    BY <1>3, <2>4 DEF Idle, Leave, Goto, Never, authority, bounds
  <2>5. CASE ClaimOrdinary(p)
    <3>1. PICK W \in SUBSET DueOrdinary(Now(p)) :
              /\ ordinary' = [w \in Ordinary |-> IF w \in W
                                                 THEN [ordinary[w] EXCEPT !.status = "claimed"]
                                                 ELSE ordinary[w]]
              /\ Goto(p, "loop") /\ UNCHANGED <<clock, authority, anchor, owner, at, bounds>>
      BY <2>5 DEF ClaimOrdinary, StartCycle
    <3>2. W \in SUBSET Ordinary
      BY DEF DueOrdinary
    <3> QED  BY <1>3, <1>4, <3>1, <3>2 DEF Goto, authority, bounds
  <2>6. CASE ClaimGrant(p)
    BY <1>3, <2>6 DEF ClaimGrant, StartCycle, Goto, authority, bounds
  <2> QED  BY <1>8, <2>1, <2>2, <2>3, <2>4, <2>5, <2>6 DEF Start
<1>9. ASSUME NEW p \in Runtimes, Loop(p) \/ Invocation(p) PROVE Acts /\ Same
  <2>1. Now(p) \in Nat /\ at[p] \in Nat
    BY Clocks
  <2>2. /\ [at EXCEPT ![p] = Now(p)] \in [Runtimes -> Nat]
        /\ [at EXCEPT ![p] = Never] \in [Runtimes -> Nat]
        /\ at \in [Runtimes -> Nat]
    BY <1>3, <2>1 DEF Never
  <2>3. Running => /\ Latest(cycles) \in CycleRecords /\ Latest(cycles).wakes \in SUBSET Ordinary
    <3>1. cycles \in Seq(CycleRecords)
      BY DEF TypeOK
    <3> QED  BY <3>1, CycleFields DEF Running, Latest
  <2>4. ASSUME NEW c \in CycleRecords
        PROVE  /\ \A turn : [c EXCEPT !.turn = turn].wakes = c.wakes
               /\ Abandon(c).wakes = c.wakes
               /\ [Abandon(c) EXCEPT !.turn = "failed"].wakes = c.wakes
    BY DEF CycleRecords, Abandon
  <2>5. ASSUME NEW status, Running
        PROVE  [Answered(status) EXCEPT !.turn = "failed"].wakes = Latest(cycles).wakes
    BY <2>3, <2>5 DEF CycleRecords, Answered
  <2>6. CASE LeaveLoop(p) \/ InvokeBlocked(p)
    BY <1>5, <2>6 DEF LeaveLoop, InvokeBlocked
  <2>7. CASE OrdinaryCycle(p)
    BY <1>5, <1>6, <2>1, <2>3, <2>7 DEF OrdinaryCycle
  <2>8. CASE Apply(p)
    BY <1>6, <2>1, <2>3, <2>4, <2>8 DEF Apply, Exploring
  <2>9. CASE Settle(p)
    BY <1>6, <1>7, <2>1, <2>2, <2>3, <2>4, <2>9 DEF Settle, Exploring
  <2>10. CASE Freeze(p)
    BY <1>7, <2>2, <2>10 DEF Freeze
  <2>11. CASE CannotFreeze(p)
    BY <1>6, <2>1, <2>3, <2>4, <2>11 DEF CannotFreeze, Exploring
  <2>12. CASE Invoke(p)
    <3>1. CASE Finish(p, [Abandon(Latest(cycles)) EXCEPT !.turn = "failed"], "failed", Now(p))
      BY <1>6, <2>1, <2>3, <2>4, <2>12, <3>1 DEF Invoke, Exploring
    <3>2. CASE \E c : Continue(p, c, "call") /\ at' = at
      BY <1>7, <2>2, <3>2
    <3> QED  BY <2>12, <3>1, <3>2 DEF Invoke
  <2>13. CASE AttemptFails(p)
    BY <1>7, <2>2, <2>13 DEF AttemptFails
  <2>14. CASE Refused(p)
    BY <1>6, <2>1, <2>3, <2>5, <2>14 DEF Refused, Exploring
  <2>15. CASE Decide(p)
    BY <1>7, <2>2, <2>15 DEF Decide
  <2> QED  BY <1>9, <2>6, <2>7, <2>8, <2>9, <2>10, <2>11, <2>12, <2>13, <2>14, <2>15
           DEF Loop, Invocation
<1>10. CASE \E p \in Runtimes : Run(p)
  <2>1. PICK p \in Runtimes : Run(p)
    BY <1>10
  <2>2. Acts /\ Same
    BY <1>8, <1>9, <2>1 DEF Run
  <2> HIDE DEF Acts
  <2> QED  BY <1>3, <2>2
<1>11. CASE \E p \in Runtimes : Interrupted(p)
  BY <1>3, <1>11 DEF Interrupted, Leave, Goto, authority, store, Never
<1>12. CASE Administer
  <2>1. UNCHANGED <<clock, ordinary, anchor, owner, pc, at, faults>> /\ adminSteps' \in Nat
    BY <1>3, <1>12 DEF Administer, SetPolicy, ChangeLifecycle, UpdateGovernance, AdminStep,
                       store, process
  <2>2. operational' \in Statuses /\ inferenceBlocked' \in BOOLEAN /\ policy' \in Policies
    BY <1>3, <1>12 DEF Administer, SetPolicy, ChangeLifecycle, UpdateGovernance, Policies
  <2> QED  BY <1>3, <2>1, <2>2
<1>13. CASE PostOrdinary
  BY <1>3, <1>13 DEF PostOrdinary, authority, process, bounds
<1>14. CASE Tick
  BY <1>3, <1>14 DEF Tick, authority, store, process, bounds
<1>15. CASE UNCHANGED vars
  BY <1>3, <1>15 DEF vars, authority, store, process, bounds
<1> QED  BY <1>10, <1>11, <1>12, <1>13, <1>14, <1>15 DEF Next

LEMMA InitialSound == Init => Invariant
<1> SUFFICES ASSUME NEW scene \in Scenes, Begins(scene) PROVE Invariant
  BY DEF Init
<1>1. /\ scene.policy \in Policies /\ scene.faults \in Nat /\ scene.adminSteps \in Nat
  BY ExplorationBounds
<1> DEFINE s == exploration
<1>2. /\ s \in Explorations /\ ~s.present /\ s.managed = None /\ s.terminal = None
      /\ s.outcome = 0 /\ s.grants = <<>> /\ s.outcomes = <<>>
  <2>1. PICK no \in BOOLEAN : no = FALSE
    OBVIOUS
  <2>2. FirstState(Never) = [present |-> TRUE, next |-> 0, managed |-> 0, terminal |-> 0,
                             outcome |-> 0, deferred |-> TRUE, grants |-> <<>>, outcomes |-> <<>>]
    BY DEF FirstState, None, Never
  <2>3. FirstState(Never) \in Explorations
    BY <2>2 DEF Explorations
  <2>4. s = [FirstState(Never) EXCEPT !.present = no, !.deferred = no]
    BY <2>1, Zenon DEF Begins
  <2>5. /\ s \in Explorations /\ s.present = no /\ s.managed = FirstState(Never).managed
        /\ s.terminal = FirstState(Never).terminal /\ s.outcome = FirstState(Never).outcome
        /\ s.grants = FirstState(Never).grants /\ s.outcomes = FirstState(Never).outcomes
    BY <2>3, <2>4 DEF Explorations
  <2> QED  BY <2>1, <2>2, <2>5 DEF None
<1>3. cycles = <<>> /\ cycles \in Seq(CycleRecords)
  BY DEF Begins
<1>4. Sound(exploration, cycles)
  <2>1. CyclesSound(s, cycles) /\ AttemptsSound(cycles)
    BY <1>3 DEF CyclesSound, AttemptsSound
  <2>2. GrantsSound(s, cycles) /\ OutcomesSound(s, cycles) /\ PointersSound(s)
    BY <1>2 DEF GrantsSound, OutcomesSound, PointersSound, Completions, None
  <2> QED  BY <1>2, <1>3, <2>1, <2>2 DEF Sound
<1>5. TypeOK
  <2>1. ordinary \in [Ordinary -> [status : {"none", "pending", "claimed", "consumed"}, due : Nat]]
    BY DEF Begins
  <2>2. /\ clock \in Nat /\ operational \in Statuses /\ inferenceBlocked \in BOOLEAN
        /\ policy \in Policies /\ anchor \in Nat /\ owner \in Runtimes \cup {NoRuntime}
        /\ pc \in [Runtimes -> {"away", "idle", "ready", "loop", "freeze", "invoke", "call"}]
        /\ at \in [Runtimes -> Nat] /\ faults \in Nat /\ adminSteps \in Nat
    BY <1>1 DEF Begins, Statuses, Never
  <2> QED  BY <1>2, <1>3, <2>1, <2>2 DEF TypeOK
<1> QED  BY <1>4, <1>5 DEF Invariant


\* validate_exploration_state, which every run begins with, finds the state of
\* exploration, its grants, their cycles and outcomes in order, whatever the
\* runtimes, administrators and clocks of the hosts did: for every value of the
\* constants, the individual is never stopped by its own allowance.
THEOREM ExplorationStaysSound == Spec => []Invariant
<1>1. Invariant /\ [Next]_vars => Invariant'
  <2> SUFFICES ASSUME Invariant, [Next]_vars PROVE Invariant'
    OBVIOUS
  <2>1. Sound(exploration', cycles')
    BY NextSound
  <2>2. TypeOK'
    BY <2>1, NextTypes DEF Invariant
  <2> QED  BY <2>1, <2>2 DEF Invariant
<1> QED  BY <1>1, InitialSound, PTL DEF Spec

-----------------------------------------------------------------------------
(* The safety properties *)

\* The cycle of a grant is the only one.
LEMMA OneCycle ==
    ASSUME Sound(exploration, cycles),
           NEW c \in DOMAIN cycles, cycles[c].grant # None
    PROVE  CyclesOf(cycles[c].grant, cycles) = {c}
BY DEF Sound, CyclesSound, CyclesOf

LEMMA SoundIsConsistent == Invariant => ExplorationConsistent
<1> SUFFICES ASSUME Invariant PROVE ExplorationConsistent
  OBVIOUS
<1>1. TypeOK /\ Sound(exploration, cycles)
  BY DEF Invariant
<1>2. /\ CyclesSound(exploration, cycles) /\ GrantsSound(exploration, cycles)
      /\ OutcomesSound(exploration, cycles) /\ exploration \in Explorations
  BY <1>1 DEF Sound
<1>3. StateValid(exploration, cycles, FALSE)
  BY <1>1, SoundIsValid, Zenon
<1>4. ASSUME NEW g \in DOMAIN exploration.grants
      PROVE  LET grant == exploration.grants[g]
             IN  IF grant.status \in {"consumed", "cancelled"}
                 THEN \E k \in DOMAIN exploration.outcomes :
                        LET o == exploration.outcomes[k]
                        IN  /\ Outcomes(g) = {k} /\ o.at >= grant.created
                            /\ IF grant.status = "consumed"
                               THEN /\ o.kind = "completed" /\ CyclesOf(g, cycles) = {o.cycle}
                                    /\ o.at = cycles[o.cycle].completed
                               ELSE o.kind = "cancelled" /\ CyclesOf(g, cycles) = {}
                 ELSE /\ Outcomes(g) = {}
                      /\ IF grant.status = "pending" THEN CyclesOf(g, cycles) = {}
                         ELSE \E c \in DOMAIN cycles :
                                  CyclesOf(g, cycles) = {c} /\ cycles[c].status = "active"
  <2> DEFINE grant == exploration.grants[g]
  <2>1. g # None
    BY <1>2, Fields DEF None
  <2>2. CASE grant.status \in {"consumed", "cancelled"}
    <3>1. PICK k \in DOMAIN exploration.outcomes : exploration.outcomes[k].grant = g
      BY <1>2, <2>2 DEF GrantsSound
    <3> DEFINE o == exploration.outcomes[k]
    <3>2. Outcomes(g) = {k}
      BY <1>2, <3>1 DEF OutcomesSound, Outcomes
    <3>3. /\ o.at >= grant.created
          /\ IF o.kind = "completed"
             THEN /\ grant.status = "consumed" /\ o.cycle \in DOMAIN cycles
                  /\ cycles[o.cycle].grant = g /\ cycles[o.cycle].completed = o.at
             ELSE grant.status = "cancelled"
      BY <1>2, <3>1 DEF OutcomesSound
    <3>4. CASE grant.status = "consumed"
      <4>1. /\ o.kind = "completed" /\ o.cycle \in DOMAIN cycles
            /\ cycles[o.cycle].grant = g /\ cycles[o.cycle].completed = o.at
        BY <3>3, <3>4
      <4>2. CyclesOf(g, cycles) = {o.cycle}
        BY <1>1, <2>1, <4>1, OneCycle
      <4> QED  BY <3>2, <3>3, <3>4, <4>1, <4>2
    <3>5. CASE grant.status = "cancelled"
      <4>1. CyclesOf(g, cycles) = {}
        BY <1>2, <2>1, <3>5 DEF CyclesSound, CyclesOf
      <4>2. o.kind = "cancelled"
        BY <1>2, <3>3, <3>5, Fields
      <4> QED  BY <3>2, <3>3, <3>5, <4>1, <4>2
    <3> QED  BY <2>2, <3>4, <3>5
  <2>3. CASE grant.status \notin {"consumed", "cancelled"}
    <3>1. Outcomes(g) = {}
      BY <1>2, <2>3 DEF OutcomesSound, Outcomes
    <3>2. CASE grant.status = "pending"
      <4>1. CyclesOf(g, cycles) = {}
        BY <1>2, <2>1, <3>2 DEF CyclesSound, CyclesOf
      <4> QED  BY <3>1, <3>2, <4>1
    <3>3. CASE grant.status # "pending"
      <4>1. grant.status = "claimed"
        <5>1. grant \in GrantRecords
          BY <1>2 DEF Explorations
        <5> QED  BY <2>3, <3>3, <5>1 DEF GrantRecords
      <4>2. PICK c \in DOMAIN cycles : cycles[c].grant = g
        BY <1>2, <4>1 DEF GrantsSound
      <4>3. CyclesOf(g, cycles) = {c}
        BY <1>1, <2>1, <4>2, OneCycle
      <4>4. cycles[c].status = "active"
        BY <1>2, <2>1, <4>1, <4>2 DEF CyclesSound
      <4> QED  BY <2>3, <3>1, <3>3, <4>3, <4>4
    <3> QED  BY <3>2, <3>3
  <2> QED  BY <2>2, <2>3
<1> QED  BY <1>1, <1>3, <1>4 DEF ExplorationConsistent

\* db/exploration_checks.py, exploration_state, exploration_cycle and
\* exploration_outcome: at no point does the integrity checker find a grant
\* without the one outcome or the one cycle its status calls for, or with one it
\* does not.
THEOREM ExplorationStaysConsistent == Spec => []ExplorationConsistent
BY ExplorationStaysSound, SoundIsConsistent, PTL

LEMMA SoundIsKept == Invariant => AllowanceKept
<1> SUFFICES ASSUME Invariant PROVE AllowanceKept
  OBVIOUS
<1>1. Sound(exploration, cycles)
  BY DEF Invariant
<1>2. /\ CyclesSound(exploration, cycles) /\ GrantsSound(exploration, cycles)
      /\ AttemptsSound(cycles)
      /\ exploration \in Explorations /\ cycles \in Seq(CycleRecords)
  BY <1>1 DEF Sound
<1>3. ASSUME NEW c \in DOMAIN cycles, cycles[c].grant # None
      PROVE  cycles[c].grant \in DOMAIN exploration.grants /\ WithinGrant(exploration, cycles[c])
  BY <1>2, <1>3 DEF CyclesSound
<1>4. CadenceKept
  <2> SUFFICES ASSUME NEW c \in DOMAIN cycles, cycles[c].grant # None,
                      NEW k \in DOMAIN exploration.outcomes,
                      exploration.outcomes[k].grant < cycles[c].grant
               PROVE  cycles[c].started >= exploration.outcomes[k].at + Cadence
    BY DEF CadenceKept
  <2> DEFINE g == cycles[c].grant
  <2>1. g \in DOMAIN exploration.grants /\ cycles[c].started >= exploration.grants[g].notBefore
    BY <1>3 DEF WithinGrant
  <2>2. exploration.grants[g].notBefore >= exploration.outcomes[k].at + Cadence
    BY <1>2, <2>1 DEF GrantsSound
  <2>3. /\ cycles[c].started \in Nat /\ exploration.grants[g].notBefore \in Nat
        /\ exploration.outcomes[k].at \in Nat /\ Cadence \in Nat
    BY <1>2, <2>1, Fields, CycleFields, AllowanceAssumption
  <2> QED  BY <2>1, <2>2, <2>3
<1>5. ASSUME NEW c \in DOMAIN cycles, cycles[c].grant # None
      PROVE  /\ CyclesOf(cycles[c].grant, cycles) = {c}
             /\ WithinGrant(exploration, cycles[c])
             /\ Len(cycles[c].attempts) <= cycles[c].limit
             /\ \A k \in DOMAIN cycles[c].attempts :
                    /\ cycles[c].attempts[k].started < cycles[c].deadline
                    /\ cycles[c].attempts[k].status = "started" => k = Len(cycles[c].attempts)
  <2>1. CyclesOf(cycles[c].grant, cycles) = {c}
    BY <1>1, <1>5, OneCycle
  <2>2. WithinGrant(exploration, cycles[c])
    BY <1>3, <1>5
  <2> QED  BY <1>2, <1>5, <2>1, <2>2 DEF AttemptsSound
<1> QED  BY <1>4, <1>5 DEF AllowanceKept

\* domain/exploration.py, CADENCE_SECONDS, MAX_ATTEMPTS and MAX_SECONDS, with
\* db/exploration_checks.py, _check_attempts: a grant buys one cycle, a cadence
\* after whatever became of every earlier grant, claimed within the limits of the
\* grant and kept within those it was claimed with, under any clocks, limits of
\* the runtimes that continue it and changes by administrators.
THEOREM AllowanceStaysKept == Spec => []AllowanceKept
BY ExplorationStaysSound, SoundIsKept, PTL

-----------------------------------------------------------------------------
(* Nothing starts while it is denied *)

\* No cycle and no attempt begins.
NothingStarts ==
    /\ Len(cycles') = Len(cycles)
    /\ \A c \in DOMAIN cycles : Len(cycles'[c].attempts) = Len(cycles[c].attempts)

\* The latest cycle is replaced by one of as many attempts.
LEMMA ReplaceStartsNothing ==
    ASSUME cycles \in Seq(CycleRecords), NEW c,
           Len(c.attempts) = Len(Latest(cycles).attempts),
           cycles' = [cycles EXCEPT ![Len(cycles)] = c]
    PROVE  NothingStarts
<1>1. /\ Len(cycles') = Len(cycles)
      /\ \A b \in DOMAIN cycles : cycles'[b] = IF b = Len(cycles) THEN c ELSE cycles[b]
  OBVIOUS
<1> QED  BY <1>1 DEF NothingStarts, Latest

LEMMA FinishStartsNothing ==
    ASSUME Sound(exploration, cycles), Running, NEW p, NEW c,
           NEW status \in {"completed", "failed"}, NEW now \in Nat,
           c \in CycleRecords, Len(c.attempts) = Len(Latest(cycles).attempts),
           Finish(p, c, status, now)
    PROVE  NothingStarts
<1> DEFINE d == [c EXCEPT !.status = status, !.completed = now]
<1>1. cycles \in Seq(CycleRecords)
  BY DEF Sound
<1>2. \/ cycles' = cycles
      \/ cycles' = [cycles EXCEPT ![Len(cycles)] = d]
  BY DEF Finish, RunEnds, store
<1>3. Len(d.attempts) = Len(Latest(cycles).attempts)
  BY DEF CycleRecords
<1> HIDE DEF d
<1>4. CASE cycles' = cycles
  BY <1>4 DEF NothingStarts
<1>5. CASE cycles' = [cycles EXCEPT ![Len(cycles)] = d]
  BY <1>1, <1>3, <1>5, ReplaceStartsNothing
<1> QED  BY <1>2, <1>4, <1>5

LEMMA ContinueStartsNothing ==
    ASSUME Sound(exploration, cycles), NEW p, NEW place, NEW c,
           Len(c.attempts) = Len(Latest(cycles).attempts), Continue(p, c, place)
    PROVE  NothingStarts
<1>1. cycles \in Seq(CycleRecords)
  BY DEF Sound
<1> QED  BY <1>1, ReplaceStartsNothing DEF Continue, Replace

LEMMA StartAllowed ==
    ASSUME Invariant, NEW p \in Runtimes, Start(p)
    PROVE  /\ Len(cycles') > Len(cycles) /\ Latest(cycles').grant # None =>
                /\ Enabled /\ RunAllowed
                /\ \A w \in Ordinary : ordinary[w].status = "pending" =>
                       ordinary[w].due > Latest(cycles').started
           /\ \A c \in DOMAIN cycles : Len(cycles'[c].attempts) = Len(cycles[c].attempts)
<1>1. cycles \in Seq(CycleRecords) /\ Now(p) \in Nat
  BY Clocks DEF Invariant, TypeOK
<1>2. ASSUME NEW c, cycles' = Append(cycles, c)
      PROVE  /\ Latest(cycles') = c
             /\ \A b \in DOMAIN cycles : Len(cycles'[b].attempts) = Len(cycles[b].attempts)
  BY <1>1, <1>2 DEF Latest
<1>3. CASE StartFails(p) \/ Resume(p) \/ Idle(p)
  <2>1. cycles' = cycles
    BY <1>3 DEF StartFails, Resume, Idle, RunEnds, store
  <2> QED  BY <1>1, <2>1
<1>4. CASE ClaimOrdinary(p)
  <2>1. PICK W : cycles' = Append(cycles, NewCycle(None, W, Now(p), Limits[p].attempts,
                                                   Limits[p].seconds))
    BY <1>4 DEF ClaimOrdinary, StartCycle
  <2>2. NewCycle(None, W, Now(p), Limits[p].attempts, Limits[p].seconds).grant = None
    BY DEF NewCycle
  <2> QED  BY <1>2, <2>1, <2>2
<1>5. CASE ClaimGrant(p)
  <2>1. PICK g \in Eligible(Ensured(Now(p)), Now(p)) :
            cycles' = Append(cycles, NewCycle(g, {}, Now(p), Min({Limits[p].attempts, MaxAttempts}),
                                                             Min({Limits[p].seconds, MaxSeconds})))
    BY <1>5 DEF ClaimGrant, StartCycle
  <2>2. Enabled /\ RunAllowed
    BY <2>1 DEF Eligible
  <2>3. Latest(cycles').started = Now(p)
    <3> DEFINE c == NewCycle(g, {}, Now(p), Min({Limits[p].attempts, MaxAttempts}),
                                            Min({Limits[p].seconds, MaxSeconds}))
    <3>1. c.started = Now(p)
      BY DEF NewCycle
    <3> HIDE DEF c
    <3>2. Latest(cycles') = c
      BY <1>2, <2>1 DEF c
    <3> QED  BY <3>1, <3>2
  <2>4. ASSUME NEW w \in Ordinary, ordinary[w].status = "pending"
        PROVE  ordinary[w].due > Now(p)
    <3>1. ordinary[w].due \in Nat
      BY DEF Invariant, TypeOK
    <3>2. ~(ordinary[w].due <= Now(p))
      BY <1>5, <2>4 DEF ClaimGrant, NothingElseDue, DueOrdinary
    <3> QED  BY <1>1, <3>1, <3>2
  <2> QED  BY <1>2, <2>1, <2>2, <2>3, <2>4
<1> QED  BY <1>3, <1>4, <1>5 DEF Start

LEMMA LoopStartsNothing ==
    ASSUME Invariant, NEW p \in Runtimes, Loop(p)
    PROVE  NothingStarts
<1>1. Sound(exploration, cycles) /\ Now(p) \in Nat
  BY Clocks DEF Invariant
<1>2. ASSUME RunEnds(p) PROVE NothingStarts
  BY <1>2 DEF RunEnds, store, NothingStarts
<1>3. CASE LeaveLoop(p)
  BY <1>2, <1>3 DEF LeaveLoop
<1>4. ASSUME Running
      PROVE  /\ Follows(Latest(cycles), Latest(cycles)) /\ Latest(cycles) \in CycleRecords
             /\ \A turn \in {"applied", "rejected"} :
                    /\ [Latest(cycles) EXCEPT !.turn = turn] \in CycleRecords
                    /\ [Latest(cycles) EXCEPT !.turn = turn].attempts = Latest(cycles).attempts
  BY <1>1, <1>4, LatestFollows, TurnFollows DEF Follows
<1>5. CASE OrdinaryCycle(p)
  <2>1. ASSUME NEW status \in {"completed", "failed"}, Finish(p, Latest(cycles), status, Now(p))
        PROVE  NothingStarts
    BY <1>1, <1>4, <1>5, <2>1, FinishStartsNothing DEF OrdinaryCycle
  <2> QED  BY <1>2, <1>5, <2>1 DEF OrdinaryCycle
<1>6. CASE Apply(p)
  <2>1. Running
    BY <1>6 DEF Apply, Exploring
  <2>2. CASE Finish(p, [Latest(cycles) EXCEPT !.turn = "applied"], "completed", Now(p))
    BY <1>1, <1>4, <2>1, <2>2, FinishStartsNothing
  <2>3. CASE Finish(p, [Latest(cycles) EXCEPT !.turn = "rejected"], "failed", Now(p))
    BY <1>1, <1>4, <2>1, <2>3, FinishStartsNothing
  <2> QED  BY <1>6, <2>2, <2>3 DEF Apply
<1>7. CASE Settle(p)
  <2> DEFINE c == Abandon(Latest(cycles))
  <2>1. Running
    BY <1>7 DEF Settle, Exploring
  <2>2. Follows(c, Latest(cycles)) /\ Len(c.attempts) = Len(Latest(cycles).attempts)
    BY <1>4, <2>1, AbandonFollows
  <2>3. \/ Finish(p, [c EXCEPT !.turn = "failed"], "failed", Now(p))
        \/ Continue(p, c, "freeze")
    BY <1>7 DEF Settle
  <2> HIDE DEF c
  <2>4. CASE Finish(p, [c EXCEPT !.turn = "failed"], "failed", Now(p))
    <3>1. /\ [c EXCEPT !.turn = "failed"] \in CycleRecords
          /\ [c EXCEPT !.turn = "failed"].attempts = c.attempts
      BY <2>2, TurnFollows DEF Follows
    <3> QED  BY <1>1, <2>1, <2>2, <2>4, <3>1, FinishStartsNothing
  <2>5. CASE Continue(p, c, "freeze")
    BY <1>1, <2>2, <2>5, ContinueStartsNothing
  <2> QED  BY <2>3, <2>4, <2>5
<1> QED  BY <1>3, <1>5, <1>6, <1>7 DEF Loop

\* Only Invoke begins an attempt, and only where its checks let it.
LEMMA InvocationAllowed ==
    ASSUME Invariant, NEW p \in Runtimes, Invocation(p)
    PROVE  \/ NothingStarts
           \/ Enabled /\ RunAllowed /\ Len(cycles') = Len(cycles)
<1>1. Sound(exploration, cycles) /\ Now(p) \in Nat /\ at[p] \in Nat
  BY Clocks DEF Invariant
<1>2. Running
  BY DEF Invocation, Freeze, CannotFreeze, InvokeBlocked, Invoke, AttemptFails, Refused, Decide,
         Exploring
<1>3. Follows(Latest(cycles), Latest(cycles)) /\ Latest(cycles) \in CycleRecords
  BY <1>1, <1>2, LatestFollows DEF Follows
<1>4. CASE Freeze(p)
  <2>1. [Latest(cycles) EXCEPT !.frozen = TRUE].attempts = Latest(cycles).attempts
    BY <1>3, FrozenFollows
  <2>2. Continue(p, [Latest(cycles) EXCEPT !.frozen = TRUE], "invoke")
    BY <1>4 DEF Freeze
  <2> QED  BY <1>1, <2>1, <2>2, ContinueStartsNothing
<1>5. CASE CannotFreeze(p)
  <2>1. /\ [Latest(cycles) EXCEPT !.turn = "failed"] \in CycleRecords
        /\ [Latest(cycles) EXCEPT !.turn = "failed"].attempts = Latest(cycles).attempts
    BY <1>3, TurnFollows DEF Follows
  <2>2. Finish(p, [Latest(cycles) EXCEPT !.turn = "failed"], "failed", at[p])
    BY <1>5 DEF CannotFreeze
  <2> QED  BY <1>1, <1>2, <2>1, <2>2, FinishStartsNothing
<1>6. CASE InvokeBlocked(p)
  BY <1>6 DEF InvokeBlocked, RunEnds, store, NothingStarts
<1>7. CASE Invoke(p)
  <2> DEFINE c    == Abandon(Latest(cycles))
             more == [c EXCEPT !.turn = "invoking",
                               !.attempts = Append(@, [status |-> "started", started |-> Now(p)])]
  <2>1. Follows(c, Latest(cycles)) /\ Len(c.attempts) = Len(Latest(cycles).attempts)
    BY <1>3, AbandonFollows
  <2>2. /\ RunAllowed
        /\ \/ Finish(p, [c EXCEPT !.turn = "failed"], "failed", Now(p))
           \/ ~Spent(c, Now(p)) /\ Continue(p, more, "call")
    BY <1>7 DEF Invoke
  <2> HIDE DEF c
  <2>3. CASE Finish(p, [c EXCEPT !.turn = "failed"], "failed", Now(p))
    <3>1. /\ [c EXCEPT !.turn = "failed"] \in CycleRecords
          /\ [c EXCEPT !.turn = "failed"].attempts = c.attempts
      BY <2>1, TurnFollows DEF Follows
    <3> QED  BY <1>1, <1>2, <2>1, <2>3, <3>1, FinishStartsNothing
  <2>4. CASE ~Spent(c, Now(p)) /\ Continue(p, more, "call")
    <3> HIDE DEF more
    <3>1. Enabled
      BY <2>4 DEF Spent
    <3>2. Len(cycles') = Len(cycles)
      <4>1. cycles \in Seq(CycleRecords)
        BY <1>1 DEF Sound
      <4> QED  BY <2>4, <4>1 DEF Continue, Replace
    <3> QED  BY <2>2, <3>1, <3>2
  <2> QED  BY <2>2, <2>3, <2>4
<1>8. CASE AttemptFails(p)
  <2>1. /\ Len(Answered("failed").attempts) = Len(Latest(cycles).attempts)
        /\ Continue(p, Answered("failed"), "loop")
    BY <1>1, <1>2, <1>8, AnswerFollows DEF AttemptFails
  <2> QED  BY <1>1, <2>1, ContinueStartsNothing
<1>9. CASE Refused(p)
  <2>1. /\ Follows(Answered("failed"), Latest(cycles))
        /\ Len(Answered("failed").attempts) = Len(Latest(cycles).attempts)
    BY <1>1, <1>2, AnswerFollows
  <2>2. /\ [Answered("failed") EXCEPT !.turn = "failed"] \in CycleRecords
        /\ [Answered("failed") EXCEPT !.turn = "failed"].attempts = Answered("failed").attempts
    BY <2>1, TurnFollows DEF Follows
  <2>3. Finish(p, [Answered("failed") EXCEPT !.turn = "failed"], "failed", Now(p))
    BY <1>9 DEF Refused
  <2> QED  BY <1>1, <1>2, <2>1, <2>2, <2>3, FinishStartsNothing
<1>10. CASE Decide(p)
  <2>1. /\ Follows(Answered("completed"), Latest(cycles))
        /\ Len(Answered("completed").attempts) = Len(Latest(cycles).attempts)
    BY <1>1, <1>2, AnswerFollows
  <2>2. [Answered("completed") EXCEPT !.turn = "decided"].attempts = Answered("completed").attempts
    BY <2>1, TurnFollows
  <2>3. Continue(p, [Answered("completed") EXCEPT !.turn = "decided"], "loop")
    BY <1>10 DEF Decide
  <2> QED  BY <1>1, <2>1, <2>2, <2>3, ContinueStartsNothing
<1> QED  BY <1>4, <1>5, <1>6, <1>7, <1>8, <1>9, <1>10 DEF Invocation

\* runtime/exploration_admin.py, discover_exploration and settle_invocation_budget:
\* no step of any actor starts a cycle of a grant, or a further attempt of one,
\* unless policy is enabled and the individual may run in the very state the step
\* is taken in, nor a cycle of a grant while an ordinary wake is due.
THEOREM StartsAreAllowed == Spec => StartsOnlyWhenAllowed
<1> DEFINE Allowed ==
        /\ Len(cycles') > Len(cycles) /\ Latest(cycles').grant # None =>
            /\ Enabled /\ RunAllowed
            /\ \A w \in Ordinary : ordinary[w].status = "pending" =>
                   ordinary[w].due > Latest(cycles').started
        /\ \A c \in DOMAIN cycles :
            cycles[c].grant # None /\ Len(cycles'[c].attempts) > Len(cycles[c].attempts) =>
                Enabled /\ RunAllowed
<1>1. Invariant /\ [Next]_vars => [Allowed]_vars
  <2> SUFFICES ASSUME Invariant, Next PROVE Allowed
    OBVIOUS
  <2>1. /\ Len(cycles) \in Nat
        /\ \A c \in DOMAIN cycles : Len(cycles[c].attempts) \in Nat
    BY CycleFields DEF Invariant, TypeOK
  <2>2. ASSUME NothingStarts PROVE Allowed
    BY <2>1, <2>2 DEF NothingStarts
  <2>3. ASSUME NEW p \in Runtimes, Run(p) PROVE Allowed
    <3>1. CASE Start(p)
      BY <2>1, <3>1, StartAllowed
    <3>2. CASE Loop(p)
      BY <2>2, <3>2, LoopStartsNothing
    <3>3. CASE Invocation(p)
      <4>1. CASE NothingStarts
        BY <2>2, <4>1
      <4>2. CASE Enabled /\ RunAllowed /\ Len(cycles') = Len(cycles)
        BY <2>1, <4>2
      <4> QED  BY <3>3, <4>1, <4>2, InvocationAllowed
    <3>4. CASE Acquire(p)
      <4>1. NothingStarts
        BY <3>4 DEF Acquire, store, NothingStarts
      <4> QED  BY <2>2, <4>1
    <3> QED  BY <2>3, <3>1, <3>2, <3>3, <3>4 DEF Run
  <2>4. CASE \/ \E p \in Runtimes : Interrupted(p)
             \/ Administer \/ PostOrdinary \/ Tick
    <3>1. NothingStarts
      BY <2>4 DEF Interrupted, Administer, SetPolicy, ChangeLifecycle, UpdateGovernance, AdminStep,
                  PostOrdinary, Tick, store, NothingStarts
    <3> QED  BY <2>2, <3>1
  <2> HIDE DEF Allowed
  <2> QED  BY <2>3, <2>4 DEF Next
<1> QED  BY <1>1, ExplorationStaysSound, PTL DEF Spec, StartsOnlyWhenAllowed
=============================================================================
