------------------------ MODULE AdministrationProofs ------------------------
(***************************************************************************)
(* The transactions of an individual never wait for each other in a        *)
(* circle.  Every script takes its locks in one order (Ordered), what is   *)
(* locked after the individual's row is locked by who locked that row      *)
(* (Covered), and that row has one holder, with nobody else sharing it     *)
(* (Exclusive).  Only the runtime locks the row while it shares it.        *)
(*                                                                         *)
(* On the same order rests what audits tell: what an event says of before  *)
(* and after is locked when it is inserted, and stays so to the commit.    *)
(* And as numbers are drawn under the individual's lock, the log read by   *)
(* its sequence replays the individual (EvidenceAlwaysReplays).            *)
(***************************************************************************)
EXTENDS Administration, FiniteSetTheorems, TLAPS

-----------------------------------------------------------------------------
(* The order of statements and rows *)

Firsts  == {"individual", "born"}
Guarded == {"principal", "look", "status", "found", "revise", "block", "explore",
            "governance", "binding", "wake"}

Statements == Firsts \cup Guarded \cup {"mention", "unblock", "event", "redact"}

Rank(st) ==
    CASE st = "mention"                             -> 0
      [] st \in Firsts                              -> 1
      [] st = "principal"                           -> 2
      [] st = "look"                                -> 3
      [] st \in {"status", "revise"}                -> 4
      [] st \in {"block", "explore", "governance"}  -> 5
      [] st \in {"binding", "found"}                -> 6
      [] st = "event"                               -> 7
      [] st \in {"wake", "unblock", "redact"}       -> 8

RowRank(row) ==
    CASE row = "individual" -> 1
      [] row = "principal"  -> 2
      [] row = "revisions"  -> 4
      [] row = "governance" -> 5
      [] row = "binding"    -> 6
      [] row = "wake"       -> 8
      [] row = "content"    -> 8

\* The rows a statement locks.
Writes(st) ==
    CASE st \in {"individual", "born", "status"}             -> {"individual"}
      [] st = "principal"                                    -> {"principal"}
      [] st = "revise"                                       -> {"revisions"}
      [] st \in {"block", "explore", "governance", "unblock"} -> {"governance"}
      [] st = "binding"                                      -> {"binding"}
      [] st = "found"                                        -> {"governance", "principal", "revisions"}
      [] st = "wake"                                         -> {"wake"}
      [] st = "redact"                                       -> {"content"}
      [] OTHER                                               -> {}

Has(q, S) == \E i \in DOMAIN q : q[i] \in S

Ordered(q) == \A i, j \in DOMAIN q : i < j => Rank(q[i]) < Rank(q[j])

-----------------------------------------------------------------------------
(* The inductive invariant *)

Types ==
    /\ table["individual"] \in Individuals
    /\ DOMAIN draft = Sessions
    /\ \A s \in Sessions :
        /\ DOMAIN draft[s] = Rows
        /\ draft[s]["individual"] \in Individuals \cup {Unlocked}
    /\ todo \in [Sessions -> Seq(Statements)]
    /\ DOMAIN call = Sessions
    /\ sharing \subseteq Sessions

\* Rows are locked by those that have locked the individual's row before, except
\* the redacted content, and governance by a caller that locks nothing else.
Covered(s) ==
    /\ \A row \in Rows \ {"individual", "governance", "content"} :
           Holds(s, row) => Holds(s, "individual")
    /\ Holds(s, "governance") => Holds(s, "individual") \/ todo[s] = <<>>
    /\ Has(todo[s], Guarded) => Holds(s, "individual") \/ Has(todo[s], Firsts)

\* What is locked comes before what is still to be done.
Behind(s) ==
    \A row \in Rows : Holds(s, row) /\ todo[s] # <<>> => RowRank(row) < Rank(Head(todo[s]))

Alone(s) ==
    Has(todo[s], {"unblock"}) => Len(todo[s]) = 1 /\ \A row \in Rows : ~Holds(s, row)

Upgrades(s) ==
    /\ Has(todo[s], {"mention"}) => s = Runtime
    /\ s \in sharing /\ Has(todo[s], Firsts) => s = Runtime

Resting(s) ==
    call[s] = NoCall =>
        todo[s] = <<>> /\ s \notin sharing /\ \A row \in Rows : ~Holds(s, row)

Exclusive ==
    \A s, t \in Sessions :
        s # t /\ Holds(s, "individual") => ~Holds(t, "individual") /\ t \notin sharing

SessionInvariant(s) ==
    Ordered(todo[s]) /\ Covered(s) /\ Behind(s) /\ Alone(s) /\ Upgrades(s) /\ Resting(s)

LockInvariant == Types /\ Exclusive /\ \A s \in Sessions : SessionInvariant(s)

-----------------------------------------------------------------------------
(* Facts about the order *)

LEMMA Ranks ==
    /\ \A st \in Statements : Rank(st) \in 0 .. 8
    /\ \A row \in Rows : RowRank(row) \in 1 .. 8
    /\ \A st \in Statements : \A row \in Writes(st) : row \in Rows /\ RowRank(row) <= Rank(st)
    /\ Rank("mention") = 0 /\ Rank("event") = 7
    /\ \A st \in Firsts : Rank(st) = 1
    /\ \A st \in Guarded : Rank(st) > 1
    /\ \A st \in {"unblock", "redact"} : Rank(st) = 8
    /\ RowRank("individual") = 1 /\ RowRank("governance") = 5 /\ RowRank("content") = 8
BY DEF Rank, RowRank, Writes, Statements, Firsts, Guarded, Rows

LEMMA CallNames ==
    LifecycleCalls = {"pause", "resume", "begin_quiesce", "complete_quiesce", "abort_quiesce",
                      "retire"}
<1>1. \A t \in Transitions : t[2] \in {"pause", "resume", "begin_quiesce", "complete_quiesce",
                                       "abort_quiesce", "retire"}
  BY DEF Transitions
<1>2. /\ <<"active", "pause", "paused">>[2] = "pause"
      /\ <<"paused", "resume", "active">>[2] = "resume"
      /\ <<"active", "begin_quiesce", "quiescing">>[2] = "begin_quiesce"
      /\ <<"quiescing", "complete_quiesce", "quiescent">>[2] = "complete_quiesce"
      /\ <<"quiescing", "abort_quiesce", "paused">>[2] = "abort_quiesce"
      /\ <<"paused", "retire", "retired">>[2] = "retire"
  OBVIOUS
<1>3. /\ <<"active", "pause", "paused">> \in Transitions
      /\ <<"paused", "resume", "active">> \in Transitions
      /\ <<"active", "begin_quiesce", "quiescing">> \in Transitions
      /\ <<"quiescing", "complete_quiesce", "quiescent">> \in Transitions
      /\ <<"quiescing", "abort_quiesce", "paused">> \in Transitions
      /\ <<"paused", "retire", "retired">> \in Transitions
  BY DEF Transitions
<1> QED  BY <1>1, <1>2, <1>3 DEF LifecycleCalls

\* Every script keeps the order, locks the individual's row before what it
\* guards, and mentions it first in one call of the runtime only.
LEMMA Scripts ==
    ASSUME NEW c \in OperatorCalls \cup RuntimeCalls \cup IngesterCalls
    PROVE  /\ Script(c) \in Seq(Statements) /\ Ordered(Script(c)) /\ Script(c) # <<>>
           /\ Has(Script(c), Guarded) => Has(Script(c), Firsts)
           /\ Has(Script(c), {"unblock"}) => Len(Script(c)) = 1
           /\ Has(Script(c), {"mention"}) => c = "settle"
<1> DEFINE Sound(q) == /\ q \in Seq(Statements) /\ Ordered(q) /\ q # <<>>
                       /\ Has(q, Guarded) => Has(q, Firsts)
                       /\ Has(q, {"unblock"}) => Len(q) = 1
                       /\ Has(q, {"mention"}) => q[1] = "mention"
<1>1. LifecycleCalls = {"pause", "resume", "begin_quiesce", "complete_quiesce",
                        "abort_quiesce", "retire"}
  BY CallNames
<1>2. Sound(<<"individual", "principal", "look", "status", "event">>)
  BY DEF Ordered, Has, Rank, Statements, Firsts, Guarded
<1>3. Sound(<<"individual", "principal", "look", "block", "event">>)
  BY DEF Ordered, Has, Rank, Statements, Firsts, Guarded
<1>4. Sound(<<"individual", "principal", "explore", "event">>)
  BY DEF Ordered, Has, Rank, Statements, Firsts, Guarded
<1>5. Sound(<<"individual", "principal", "governance", "binding", "event">>)
  BY DEF Ordered, Has, Rank, Statements, Firsts, Guarded
<1>6. Sound(<<"born", "found", "event", "wake">>)
  BY DEF Ordered, Has, Rank, Statements, Firsts, Guarded
<1>7. Sound(<<"individual", "revise", "event">>)
  BY DEF Ordered, Has, Rank, Statements, Firsts, Guarded
<1>8. Sound(<<"unblock">>) /\ Sound(<<"event", "redact">>)
  BY DEF Ordered, Has, Rank, Statements, Firsts, Guarded
<1>9. Sound(<<"individual", "governance">>) /\ Sound(<<"individual", "governance", "binding">>)
  BY DEF Ordered, Has, Rank, Statements, Firsts, Guarded
<1>10. Sound(<<"mention", "individual", "governance">>)
  BY DEF Ordered, Has, Rank, Statements, Firsts, Guarded
<1> DEFINE Kept == Sound(Script(c)) /\ (Script(c)[1] = "mention" => c = "settle")
<1>11. ASSUME c \in LifecycleCalls PROVE Kept
  <2>1. Script(c) = <<"individual", "principal", "look", "status", "event">>
    BY <1>1, <1>11 DEF Script, PolicyCalls, BindingCalls
  <2>2. Script(c)[1] = "individual"
    BY <2>1
  <2> HIDE DEF Sound
  <2> QED  BY <1>2, <1>11, <2>1, <2>2
<1>12. ASSUME c = "emergency_block" PROVE Kept
  <2>1. Script(c) = <<"individual", "principal", "look", "block", "event">>
    BY <1>1, <1>12 DEF Script, PolicyCalls, BindingCalls
  <2>2. Script(c)[1] = "individual"
    BY <2>1
  <2> HIDE DEF Sound
  <2> QED  BY <1>3, <1>12, <2>1, <2>2
<1>13. ASSUME c \in PolicyCalls PROVE Kept
  <2>1. Script(c) = <<"individual", "principal", "explore", "event">>
    BY <1>1, <1>13 DEF Script, PolicyCalls, BindingCalls
  <2>2. Script(c)[1] = "individual"
    BY <2>1
  <2> HIDE DEF Sound
  <2> QED  BY <1>4, <1>13, <2>1, <2>2
<1>14. ASSUME c \in BindingCalls PROVE Kept
  <2>1. Script(c) = <<"individual", "principal", "governance", "binding", "event">>
    BY <1>1, <1>14 DEF Script, PolicyCalls, BindingCalls
  <2>2. Script(c)[1] = "individual"
    BY <2>1
  <2> HIDE DEF Sound
  <2> QED  BY <1>5, <1>14, <2>1, <2>2
<1>15. ASSUME c = "individual.born" PROVE Kept
  <2>1. Script(c) = <<"born", "found", "event", "wake">>
    BY <1>1, <1>15 DEF Script, PolicyCalls, BindingCalls
  <2>2. Script(c)[1] = "born"
    BY <2>1
  <2> HIDE DEF Sound
  <2> QED  BY <1>6, <1>15, <2>1, <2>2
<1>16. ASSUME c = "config.changed" PROVE Kept
  <2>1. Script(c) = <<"individual", "revise", "event">>
    BY <1>1, <1>16 DEF Script, PolicyCalls, BindingCalls
  <2>2. Script(c)[1] = "individual"
    BY <2>1
  <2> HIDE DEF Sound
  <2> QED  BY <1>7, <1>16, <2>1, <2>2
<1>17. ASSUME c = "unblock" PROVE Kept
  <2>1. Script(c) = <<"unblock">>
    BY <1>1, <1>17 DEF Script, PolicyCalls, BindingCalls
  <2>2. Script(c)[1] = "unblock"
    BY <2>1
  <2> HIDE DEF Sound
  <2> QED  BY <1>8, <1>17, <2>1, <2>2
<1>18. ASSUME c = "redact" PROVE Kept
  <2>1. Script(c) = <<"event", "redact">>
    BY <1>1, <1>18 DEF Script, PolicyCalls, BindingCalls
  <2>2. Script(c)[1] = "event"
    BY <2>1
  <2> HIDE DEF Sound
  <2> QED  BY <1>8, <1>18, <2>1, <2>2
<1>19. ASSUME c = "run" PROVE Kept
  <2>1. Script(c) = <<"individual", "governance">>
    BY <1>1, <1>19 DEF Script, PolicyCalls, BindingCalls
  <2>2. Script(c)[1] = "individual"
    BY <2>1
  <2> HIDE DEF Sound
  <2> QED  BY <1>9, <1>19, <2>1, <2>2
<1>20. ASSUME c = "settle" PROVE Kept
  <2>1. Script(c) = <<"mention", "individual", "governance">>
    BY <1>1, <1>20 DEF Script, PolicyCalls, BindingCalls
  <2>2. Script(c)[1] = "mention"
    BY <2>1
  <2> HIDE DEF Sound
  <2> QED  BY <1>10, <1>20, <2>1, <2>2
<1>21. ASSUME c = "ingest" PROVE Kept
  <2>1. Script(c) = <<"individual", "governance", "binding">>
    BY <1>1, <1>21 DEF Script, PolicyCalls, BindingCalls
  <2>2. Script(c)[1] = "individual"
    BY <2>1
  <2> HIDE DEF Sound
  <2> QED  BY <1>9, <1>21, <2>1, <2>2
<1>22. Kept
  <2> HIDE DEF Kept
  <2> QED
    BY <1>11, <1>12, <1>13, <1>14, <1>15, <1>16, <1>17, <1>18, <1>19, <1>20, <1>21
       DEF OperatorCalls, AdminCalls, RuntimeCalls, IngesterCalls
<1> QED  BY <1>22

\* What a session has left after a statement comes after it.
LEMMA Tails ==
    ASSUME NEW q \in Seq(Statements), q # <<>>, Ordered(q)
    PROVE  /\ Head(q) \in Statements
           /\ Tail(q) \in Seq(Statements) /\ Ordered(Tail(q))
           /\ \A i \in DOMAIN Tail(q) : Rank(Head(q)) < Rank(Tail(q)[i])
           /\ Len(q) = 1 => Tail(q) = <<>>
<1> DEFINE n == Len(q)
<1>1. /\ n \in Nat /\ n >= 1 /\ DOMAIN q = 1 .. n /\ Head(q) = q[1]
      /\ Tail(q) \in Seq(Statements) /\ Len(Tail(q)) = n - 1 /\ DOMAIN Tail(q) = 1 .. (n - 1)
      /\ \A i \in 1 .. (n - 1) : Tail(q)[i] = q[i + 1]
  OBVIOUS
<1>2. \A i \in 1 .. n : q[i] \in Statements
  OBVIOUS
<1>3. Ordered(Tail(q))
  <2> SUFFICES ASSUME NEW i \in DOMAIN Tail(q), NEW j \in DOMAIN Tail(q), i < j
               PROVE  Rank(Tail(q)[i]) < Rank(Tail(q)[j])
    BY DEF Ordered
  <2>1. i + 1 \in DOMAIN q /\ j + 1 \in DOMAIN q /\ i + 1 < j + 1
    BY <1>1
  <2> QED  BY <1>1, <2>1 DEF Ordered
<1>4. \A i \in DOMAIN Tail(q) : Rank(Head(q)) < Rank(Tail(q)[i])
  <2> TAKE i \in DOMAIN Tail(q)
  <2>1. 1 \in DOMAIN q /\ i + 1 \in DOMAIN q /\ 1 < i + 1
    BY <1>1
  <2> QED  BY <1>1, <2>1 DEF Ordered
<1> QED  BY <1>1, <1>2, <1>3, <1>4

LEMMA HasTail ==
    ASSUME NEW q \in Seq(Statements), q # <<>>, NEW S
    PROVE  /\ Head(q) \in S => Has(q, S)
           /\ Has(Tail(q), S) => Has(q, S)
           /\ Has(q, S) => Head(q) \in S \/ Has(Tail(q), S)
<1>1. /\ Len(q) \in Nat /\ Len(q) >= 1 /\ DOMAIN q = 1 .. Len(q) /\ Head(q) = q[1]
      /\ DOMAIN Tail(q) = 1 .. (Len(q) - 1)
      /\ \A i \in 1 .. (Len(q) - 1) : Tail(q)[i] = q[i + 1]
  OBVIOUS
<1>2. Head(q) \in S => Has(q, S)
  BY <1>1 DEF Has
<1>3. Has(Tail(q), S) => Has(q, S)
  <2> SUFFICES ASSUME NEW i \in DOMAIN Tail(q), Tail(q)[i] \in S
               PROVE  Has(q, S)
    BY DEF Has
  <2>1. i + 1 \in DOMAIN q /\ q[i + 1] \in S
    BY <1>1
  <2> QED  BY <2>1 DEF Has
<1>4. Has(q, S) => Head(q) \in S \/ Has(Tail(q), S)
  <2> SUFFICES ASSUME NEW i \in DOMAIN q, q[i] \in S
               PROVE  Head(q) \in S \/ Has(Tail(q), S)
    BY DEF Has
  <2>1. CASE i = 1
    BY <1>1, <2>1
  <2>2. CASE i # 1
    <3>1. i - 1 \in DOMAIN Tail(q) /\ Tail(q)[i - 1] \in S
      BY <1>1, <2>2
    <3> QED  BY <3>1 DEF Has
  <2> QED  BY <2>1, <2>2
<1> QED  BY <1>2, <1>3, <1>4

-----------------------------------------------------------------------------
(* What a statement finds *)

\* Before the individual's row is locked nothing is, and what is guarded has it.
LEMMA AtStatement ==
    ASSUME LockInvariant, NEW s \in Sessions, todo[s] # <<>>
    PROVE  /\ Head(todo[s]) \in Statements
           /\ Head(todo[s]) \in Guarded => Holds(s, "individual")
           /\ Head(todo[s]) \in Firsts \cup {"mention"} => \A row \in Rows : ~Holds(s, row)
<1>1. todo[s] \in Seq(Statements) /\ Ordered(todo[s]) /\ Covered(s) /\ Behind(s)
  BY DEF LockInvariant, Types, SessionInvariant
<1>2. /\ Head(todo[s]) \in Statements
      /\ \A i \in DOMAIN Tail(todo[s]) : Rank(Head(todo[s])) < Rank(Tail(todo[s])[i])
      /\ Tail(todo[s]) \in Seq(Statements)
  BY <1>1, Tails
<1>3. ASSUME Head(todo[s]) \in Guarded PROVE Holds(s, "individual")
  <2>1. Has(todo[s], Guarded)
    BY <1>1, <1>3, HasTail
  <2>2. ~Has(Tail(todo[s]), Firsts)
    <3> SUFFICES ASSUME NEW i \in DOMAIN Tail(todo[s]), Tail(todo[s])[i] \in Firsts
                 PROVE  FALSE
      BY DEF Has
    <3>1. Rank(Tail(todo[s])[i]) = 1 /\ Rank(Head(todo[s])) > 1
      BY <1>3, Ranks
    <3>2. Rank(Head(todo[s])) \in 0 .. 8
      BY <1>2, Ranks
    <3> QED  BY <1>2, <3>1, <3>2
  <2>3. Head(todo[s]) \notin Firsts
    BY <1>3 DEF Guarded, Firsts
  <2>4. ~Has(todo[s], Firsts)
    BY <1>1, <2>2, <2>3, HasTail
  <2> QED  BY <1>1, <2>1, <2>4 DEF Covered
<1>4. ASSUME Head(todo[s]) \in Firsts \cup {"mention"}, NEW row \in Rows PROVE ~Holds(s, row)
  <2>1. Rank(Head(todo[s])) <= 1 /\ RowRank(row) \in 1 .. 8 /\ Rank(Head(todo[s])) \in 0 .. 8
    BY <1>2, <1>4, Ranks
  <2> QED  BY <1>1, <2>1 DEF Behind
<1> QED  BY <1>2, <1>3, <1>4

\* A statement that waits for nobody and raises nothing has the individual's row
\* to itself when it locks it, and finds it unlocked when it refers to it.
LEMMA Granted ==
    ASSUME LockInvariant, NEW s \in Sessions, todo[s] # <<>>, Blockers(s) = {}, Accepted(s),
           NEW t \in Sessions \ {s}
    PROVE  /\ Head(todo[s]) \in Firsts => ~Holds(t, "individual") /\ t \notin sharing
           /\ Head(todo[s]) \in {"event", "mention"} => ~Holds(t, "individual")
<1>1. Born(s) \/ At(s, "born")
  BY DEF Accepted
<1>2. ASSUME Head(todo[s]) \in Firsts PROVE ~Holds(t, "individual") /\ t \notin sharing
  <2>1. Row(Head(todo[s])) = "individual" /\ ~Refers(s)
    BY <1>2 DEF Row, Refers, At, Firsts
  <2> QED  BY <1>1, <2>1 DEF Blockers
<1>3. ASSUME Head(todo[s]) \in {"event", "mention"} PROVE ~Holds(t, "individual")
  <2>1. Refers(s)
    BY <1>3 DEF Refers, At
  <2> QED  BY <1>1, <2>1 DEF Blockers
<1> QED  BY <1>2, <1>3

\* A step of s in which nothing but what s has locked, shares and has left changes.
Steps(s) ==
    /\ DOMAIN draft' = Sessions /\ DOMAIN draft'[s] = Rows
    /\ draft'[s]["individual"] \in Individuals \cup {Unlocked}
    /\ \A t \in Sessions \ {s} : draft'[t] = draft[t]
    /\ call' = call /\ table' = table

\* A statement does what it is for, and the session proceeds.
Advances(s) ==
    /\ todo[s] # <<>> /\ Blockers(s) = {} /\ Accepted(s)
    /\ Steps(s) /\ Proceed(s)
    /\ \A row \in Rows \ Writes(Head(todo[s])) : draft'[s][row] = draft[s][row]
    /\ Head(todo[s]) \in Firsts \/ Holds(s, "individual") => draft'[s]["individual"] # Unlocked
    /\ sharing' = sharing \cup IF Head(todo[s]) \in {"event", "mention"} THEN {s} ELSE {}

LEMMA AdvanceKeeps ==
    ASSUME LockInvariant, NEW s \in Sessions, Advances(s)
    PROVE  LockInvariant'
<1> DEFINE st == Head(todo[s])
           q  == Tail(todo[s])
<1>1. /\ todo[s] \in Seq(Statements) /\ todo[s] # <<>> /\ Ordered(todo[s])
      /\ Covered(s) /\ Behind(s) /\ Alone(s) /\ Upgrades(s) /\ Resting(s)
  BY DEF LockInvariant, Types, SessionInvariant, Advances
<1>2. /\ st \in Statements /\ q \in Seq(Statements) /\ Ordered(q)
      /\ \A i \in DOMAIN q : Rank(st) < Rank(q[i])
      /\ Len(todo[s]) = 1 => q = <<>>
  BY <1>1, Tails
<1>3. /\ todo' = [todo EXCEPT ![s] = q] /\ todo'[s] = q
      /\ \A t \in Sessions \ {s} : todo'[t] = todo[t] /\ draft'[t] = draft[t]
  BY DEF Advances, Steps, Proceed, LockInvariant, Types
<1>4. \A t \in Sessions \ {s}, row \in Rows : Holds(t, row)' <=> Holds(t, row)
  BY <1>3 DEF Holds
<1>5. \A row \in Rows : Holds(s, row)' => Holds(s, row) \/ row \in Writes(st)
  BY DEF Advances, Holds
<1>6. st \in Firsts \/ Holds(s, "individual") => Holds(s, "individual")'
  BY DEF Advances, Holds, Rows
<1>7. /\ \A t \in Sessions \ {s} : t \in sharing' <=> t \in sharing
      /\ s \in sharing' => s \in sharing \/ st \in {"event", "mention"}
  BY DEF Advances
<1>8. Types'
  <2>1. todo' \in [Sessions -> Seq(Statements)]
    BY <1>2, <1>3 DEF LockInvariant, Types
  <2>2. sharing' \subseteq Sessions
    BY DEF Advances, LockInvariant, Types
  <2> QED  BY <2>1, <2>2 DEF Advances, Steps, LockInvariant, Types
<1>9. Exclusive'
  <2>1. ASSUME NEW t \in Sessions \ {s}, Holds(t, "individual")'
        PROVE  ~Holds(s, "individual")' /\ s \notin sharing'
    <3>1. Holds(t, "individual")
      BY <1>4, <2>1 DEF Rows
    <3>2. st \notin Firsts /\ st \notin {"event", "mention"}
      BY <3>1, Granted DEF Advances
    <3>3. ~Holds(s, "individual") /\ s \notin sharing
      BY <3>1 DEF LockInvariant, Exclusive
    <3>4. st # "status"
      BY <1>1, <3>3, AtStatement DEF Guarded
    <3>5. "individual" \notin Writes(st)
      BY <1>2, <3>2, <3>4 DEF Writes, Firsts, Statements, Guarded
    <3> QED  BY <1>5, <1>7, <3>2, <3>3, <3>5 DEF Rows
  <2>2. ASSUME NEW t \in Sessions \ {s}, Holds(s, "individual")'
        PROVE  ~Holds(t, "individual")' /\ t \notin sharing'
    <3>1. CASE Holds(s, "individual")
      BY <1>4, <1>7, <3>1 DEF LockInvariant, Exclusive, Rows
    <3>2. CASE ~Holds(s, "individual")
      <4>1. st \notin {"status"}
        BY <1>1, <3>2, AtStatement DEF Guarded
      <4>2. st \in Firsts
        BY <1>2, <1>5, <2>2, <3>2, <4>1 DEF Writes, Firsts, Statements, Guarded, Rows
      <4>3. ~Holds(t, "individual") /\ t \notin sharing
        BY <4>2, Granted DEF Advances
      <4> QED  BY <1>4, <1>7, <4>3 DEF Rows
    <3> QED  BY <3>1, <3>2
  <2>3. ASSUME NEW t \in Sessions \ {s}, NEW u \in Sessions \ {s}, t # u,
               Holds(t, "individual")'
        PROVE  ~Holds(u, "individual")' /\ u \notin sharing'
    BY <1>4, <1>7, <2>3 DEF LockInvariant, Exclusive, Rows
  <2> QED  BY <2>1, <2>2, <2>3 DEF Exclusive
<1>10. Covered(s)'
  <2>1. ASSUME NEW row \in Rows \ {"individual", "content"}, Holds(s, row)',
               row = "governance" => q # <<>>
        PROVE  Holds(s, "individual")'
    <3>1. CASE Holds(s, row)
      BY <1>1, <1>6, <2>1, <3>1 DEF Covered
    <3>2. CASE row \in Writes(st)
      <4>1. st \in Guarded \/ st = "unblock"
        BY <1>2, <2>1, <3>2 DEF Writes, Guarded, Statements, Firsts
      <4>2. st # "unblock"
        <5>1. SUFFICES ASSUME st = "unblock" PROVE FALSE
          OBVIOUS
        <5>2. Has(todo[s], {"unblock"})
          BY <1>1, <5>1, HasTail
        <5> QED  BY <1>1, <1>2, <2>1, <3>2, <5>1, <5>2 DEF Alone, Writes
      <4> QED  BY <1>1, <1>6, <4>1, <4>2, AtStatement
    <3> QED  BY <1>5, <2>1, <3>1, <3>2
  <2>2. ASSUME Has(q, Guarded) PROVE Holds(s, "individual")' \/ Has(q, Firsts)
    <3>1. Holds(s, "individual") \/ Has(todo[s], Firsts)
      BY <1>1, <2>2, HasTail DEF Covered
    <3> QED  BY <1>1, <1>6, <3>1, HasTail
  <2>3. \A row \in Rows \ {"individual", "governance", "content"} :
            Holds(s, row)' => Holds(s, "individual")'
    BY <2>1
  <2>4. Holds(s, "governance")' => Holds(s, "individual")' \/ todo'[s] = <<>>
    BY <1>3, <2>1 DEF Rows
  <2>5. Has(todo'[s], Guarded) => Holds(s, "individual")' \/ Has(todo'[s], Firsts)
    BY <1>3, <2>2
  <2> HIDE DEF st, q
  <2> QED  BY <2>3, <2>4, <2>5 DEF Covered
<1>11. Behind(s)'
  <2> SUFFICES ASSUME NEW row \in Rows, Holds(s, row)', q # <<>>
               PROVE  RowRank(row) < Rank(Head(q))
    BY <1>3 DEF Behind
  <2>1. Rank(st) < Rank(Head(q)) /\ Head(q) \in Statements
    <3>1. 1 \in DOMAIN q /\ Head(q) = q[1] /\ q[1] \in Statements
      BY <1>2
    <3> QED  BY <1>2, <3>1
  <2>2. RowRank(row) \in 1 .. 8 /\ Rank(st) \in 0 .. 8 /\ Rank(Head(q)) \in 0 .. 8
    BY <1>2, <2>1, Ranks
  <2>3. CASE Holds(s, row)
    BY <1>1, <2>1, <2>2, <2>3 DEF Behind
  <2>4. CASE row \in Writes(st)
    <3>1. RowRank(row) <= Rank(st)
      BY <1>2, <2>4, Ranks
    <3> QED  BY <2>1, <2>2, <3>1
  <2> QED  BY <1>5, <2>3, <2>4
<1>12. Alone(s)'
  <2> SUFFICES ASSUME Has(q, {"unblock"}) PROVE FALSE
    BY <1>3 DEF Alone
  <2>1. Len(todo[s]) = 1
    BY <1>1, HasTail DEF Alone
  <2> QED  BY <1>2, <2>1 DEF Has
<1>13. Upgrades(s)'
  <2>1. Has(q, {"mention"}) => s = Runtime
    BY <1>1, HasTail DEF Upgrades
  <2>2. ASSUME s \in sharing', Has(q, Firsts) PROVE s = Runtime
    <3>1. Has(todo[s], Firsts)
      BY <1>1, <2>2, HasTail
    <3>2. CASE s \in sharing
      BY <1>1, <3>1, <3>2 DEF Upgrades
    <3>3. CASE st = "mention"
      BY <1>1, <3>3, HasTail DEF Upgrades
    <3>4. CASE st = "event"
      <4>1. PICK j \in DOMAIN q : q[j] \in Firsts
        BY <2>2 DEF Has
      <4>2. Rank(st) < Rank(q[j]) /\ Rank(st) = 7 /\ Rank(q[j]) = 1
        BY <1>2, <3>4, <4>1, Ranks
      <4> QED  BY <4>2
    <3> QED  BY <1>7, <2>2, <3>2, <3>3, <3>4
  <2> QED  BY <1>3, <2>1, <2>2 DEF Upgrades
<1>14. Resting(s)'
  BY <1>1 DEF Advances, Steps, Resting
<1>15. ASSUME NEW t \in Sessions \ {s} PROVE SessionInvariant(t)'
  <2>1. SessionInvariant(t)
    BY DEF LockInvariant
  <2>2. todo'[t] = todo[t] /\ call'[t] = call[t] /\ (t \in sharing' <=> t \in sharing)
    BY <1>3, <1>7 DEF Advances, Steps
  <2>3. \A row \in Rows : Holds(t, row)' <=> Holds(t, row)
    BY <1>4
  <2>4. Covered(t)'
    BY <2>1, <2>2, <2>3 DEF SessionInvariant, Covered, Rows
  <2>5. Behind(t)' /\ Alone(t)' /\ Upgrades(t)' /\ Resting(t)'
    BY <2>1, <2>2, <2>3 DEF SessionInvariant, Behind, Alone, Upgrades, Resting
  <2> QED  BY <2>1, <2>2, <2>4, <2>5 DEF SessionInvariant
<1>16. SessionInvariant(s)'
  BY <1>2, <1>3, <1>10, <1>11, <1>12, <1>13, <1>14 DEF SessionInvariant
<1> QED  BY <1>8, <1>9, <1>15, <1>16 DEF LockInvariant

\* The end of a transaction: what it committed is a row still.
LEMMA ReleaseKeeps ==
    ASSUME LockInvariant, NEW s \in Sessions, Released(s), table'["individual"] \in Individuals
    PROVE  LockInvariant'
<1>1. /\ \A row \in Rows : ~Holds(s, row)'
      /\ s \notin sharing' /\ todo'[s] = <<>>
      /\ \A t \in Sessions \ {s} : /\ todo'[t] = todo[t] /\ draft'[t] = draft[t] /\ call'[t] = call[t]
                                   /\ t \in sharing' <=> t \in sharing
  BY DEF Released, Holds, LockInvariant, Types
<1>2. Types'
  <2>1. draft' = [draft EXCEPT ![s] = [row \in Rows |-> Unlocked]]
    BY DEF Released
  <2>2. /\ DOMAIN draft' = Sessions
        /\ \A t \in Sessions : DOMAIN draft'[t] = Rows
                                /\ draft'[t]["individual"] \in Individuals \cup {Unlocked}
    BY <2>1 DEF LockInvariant, Types, Rows
  <2>3. todo' \in [Sessions -> Seq(Statements)] /\ DOMAIN call' = Sessions
    BY DEF Released, LockInvariant, Types
  <2>4. sharing' \subseteq Sessions
    BY DEF Released, LockInvariant, Types
  <2> QED  BY <2>2, <2>3, <2>4 DEF Types
<1>3. ASSUME NEW t \in Sessions \ {s} PROVE SessionInvariant(t)'
  <2>1. SessionInvariant(t)
    BY DEF LockInvariant
  <2>2. \A row \in Rows : Holds(t, row)' <=> Holds(t, row)
    BY <1>1 DEF Holds
  <2>3. Covered(t)'
    BY <1>1, <2>1, <2>2 DEF SessionInvariant, Covered, Rows
  <2>4. Ordered(todo'[t]) /\ Behind(t)' /\ Alone(t)' /\ Upgrades(t)' /\ Resting(t)'
    BY <1>1, <2>1, <2>2 DEF SessionInvariant, Behind, Alone, Upgrades, Resting
  <2> QED  BY <2>3, <2>4 DEF SessionInvariant
<1>4. SessionInvariant(s)'
  <2>1. /\ DOMAIN todo'[s] = {} /\ \A S : ~Has(todo'[s], S)
    BY <1>1 DEF Has
  <2>2. Ordered(todo'[s])
    BY <2>1 DEF Ordered
  <2>3. Covered(s)'
    BY <1>1, <2>1 DEF Covered, Rows
  <2>4. Behind(s)' /\ Alone(s)' /\ Upgrades(s)' /\ Resting(s)'
    BY <1>1, <2>1 DEF Behind, Alone, Upgrades, Resting
  <2> QED  BY <2>2, <2>3, <2>4 DEF SessionInvariant
<1>5. Exclusive'
  <2>1. \A t \in Sessions : (Holds(t, "individual")' => Holds(t, "individual") /\ t # s)
                            /\ (t \in sharing' => t \in sharing)
    BY <1>1 DEF Holds, Rows
  <2> QED  BY <2>1 DEF LockInvariant, Exclusive
<1> QED  BY <1>2, <1>3, <1>4, <1>5 DEF LockInvariant

\* A transaction that has nothing left to do keeps what it has.
LEMMA StopKeeps ==
    ASSUME LockInvariant, NEW s \in Sessions, todo' = [todo EXCEPT ![s] = <<>>],
           UNCHANGED <<table, draft, sharing, call>>
    PROVE  LockInvariant'
<1>1. todo'[s] = <<>> /\ \A t \in Sessions \ {s} : todo'[t] = todo[t]
  BY DEF LockInvariant, Types
<1>2. Types' /\ Exclusive'
  BY DEF LockInvariant, Types, Exclusive, Holds
<1>3. ASSUME NEW t \in Sessions \ {s} PROVE SessionInvariant(t)'
  BY <1>1 DEF LockInvariant, SessionInvariant, Covered, Behind, Alone, Upgrades, Resting, Holds
<1>4. SessionInvariant(s)'
  <2>1. /\ DOMAIN todo'[s] = {} /\ \A S : ~Has(todo'[s], S)
    BY <1>1 DEF Has
  <2>2. Ordered(todo'[s])
    BY <2>1 DEF Ordered
  <2>3. Covered(s) /\ Resting(s)
    BY DEF LockInvariant, SessionInvariant
  <2>4. Covered(s)'
    BY <1>1, <2>1, <2>3 DEF Covered, Holds
  <2>5. Behind(s)' /\ Alone(s)' /\ Upgrades(s)' /\ Resting(s)'
    BY <1>1, <2>1, <2>3 DEF Behind, Alone, Upgrades, Resting, Holds
  <2> QED  BY <2>2, <2>4, <2>5 DEF SessionInvariant
<1> QED  BY <1>2, <1>3, <1>4 DEF LockInvariant

\* A session begins with nothing locked, and with what a script has to do.
LEMMA BeginKeeps ==
    ASSUME LockInvariant, NEW s \in Sessions, NEW w,
           NEW c \in OperatorCalls \cup RuntimeCalls \cup IngesterCalls, c = "settle" => s = Runtime,
           Begins(s, c, w)
    PROVE  LockInvariant'
<1>1. /\ Script(c) \in Seq(Statements) /\ Ordered(Script(c)) /\ Script(c) # <<>>
      /\ Has(Script(c), Guarded) => Has(Script(c), Firsts)
      /\ Has(Script(c), {"unblock"}) => Len(Script(c)) = 1
      /\ Has(Script(c), {"mention"}) => c = "settle"
  BY Scripts
<1>2. /\ todo'[s] = Script(c) /\ call'[s] = c
      /\ \A t \in Sessions \ {s} : todo'[t] = todo[t] /\ call'[t] = call[t]
      /\ draft' = draft /\ sharing' = sharing /\ table' = table
  BY DEF Begins, LockInvariant, Types
<1>3. Types'
  BY <1>1 DEF Begins, LockInvariant, Types
<1>4. Exclusive'
  BY <1>2 DEF LockInvariant, Exclusive, Holds
<1>5. ASSUME NEW t \in Sessions \ {s} PROVE SessionInvariant(t)'
  BY <1>2 DEF LockInvariant, SessionInvariant, Covered, Behind, Alone, Upgrades, Resting, Holds
<1>6. s \notin sharing /\ \A row \in Rows : ~Holds(s, row)
  BY DEF Begins, LockInvariant, SessionInvariant, Resting
<1>7. SessionInvariant(s)'
  <2>1. s \notin sharing' /\ \A row \in Rows : ~Holds(s, row)'
    BY <1>2, <1>6 DEF Holds
  <2>2. Covered(s)'
    BY <1>1, <1>2, <2>1 DEF Covered, Rows
  <2>3. Behind(s)' /\ Alone(s)' /\ Upgrades(s)'
    BY <1>1, <1>2, <2>1 DEF Behind, Alone, Upgrades
  <2>4. Resting(s)'
    BY <1>2, CallAssumption DEF Resting
  <2> QED  BY <1>1, <1>2, <2>2, <2>3, <2>4 DEF SessionInvariant
<1> QED  BY <1>3, <1>4, <1>5, <1>7 DEF LockInvariant

-----------------------------------------------------------------------------
(* Every step keeps it *)

LEMMA SeenRow ==
    ASSUME LockInvariant, NEW s \in Sessions
    PROVE  Seen(s, "individual") \in Individuals
BY DEF LockInvariant, Types, Seen, Holds

\* A statement that locks one row and leaves a row in it.
LEMMA WriteAdvances ==
    ASSUME LockInvariant, NEW s \in Sessions, NEW st \in Statements, NEW row \in Rows, NEW value,
           Ready(s, st), Write(s, row, value), Writes(st) = {row},
           row = "individual" => value \in Individuals,
           st \in Firsts => row = "individual"
    PROVE  Advances(s)
<1>1. todo[s] # <<>> /\ Head(todo[s]) = st /\ Blockers(s) = {} /\ Accepted(s)
  BY DEF Ready, At
<1>2. /\ draft' = [draft EXCEPT ![s][row] = value] /\ Proceed(s)
      /\ sharing' = sharing /\ call' = call /\ table' = table
  BY DEF Write
<1>3. /\ DOMAIN draft' = Sessions /\ DOMAIN draft'[s] = Rows /\ draft'[s][row] = value
      /\ \A other \in Rows \ {row} : draft'[s][other] = draft[s][other]
      /\ \A t \in Sessions \ {s} : draft'[t] = draft[t]
  BY <1>2 DEF LockInvariant, Types
<1>4. draft'[s]["individual"] \in Individuals \cup {Unlocked}
  BY <1>3 DEF LockInvariant, Types, Rows
<1>5. st \notin {"event", "mention"}
  BY DEF Writes
<1>6. st \in Firsts \/ Holds(s, "individual") => draft'[s]["individual"] # Unlocked
  <2>1. CASE row = "individual"
    BY <1>3, <2>1, UnlockedAssumption
  <2>2. CASE row # "individual"
    BY <1>3, <2>2 DEF Holds, Rows
  <2> QED  BY <2>1, <2>2
<1> QED  BY <1>1, <1>2, <1>3, <1>4, <1>5, <1>6 DEF Advances, Steps

\* A statement that locks nothing.
LEMMA ReadAdvances ==
    ASSUME LockInvariant, NEW s \in Sessions, NEW st \in {"look", "mention", "event"},
           Ready(s, st), Proceed(s), UNCHANGED <<table, draft, call>>,
           sharing' = sharing \cup IF st = "look" THEN {} ELSE {s}
    PROVE  Advances(s)
<1>1. todo[s] # <<>> /\ Head(todo[s]) = st /\ Blockers(s) = {} /\ Accepted(s)
  BY DEF Ready, At
<1>2. st \notin Firsts
  BY DEF Firsts
<1>3. Holds(s, "individual") => draft'[s]["individual"] # Unlocked
  BY DEF Holds
<1> QED  BY <1>1, <1>2, <1>3 DEF Advances, Steps, LockInvariant, Types

\* Every statement either does what it is for or ends its transaction early.
LEMMA StatementKeeps ==
    ASSUME LockInvariant, NEW s \in Sessions, Statement(s)
    PROVE  LockInvariant'
<1> USE DEF Statements, Firsts, Guarded, Rows, Writes
<1>1. CASE Lock(s)
  <2>1. PICK st \in {"individual", "principal", "governance"} :
            Ready(s, st) /\ Write(s, st, Seen(s, st))
    BY <1>1 DEF Lock
  <2>2. Advances(s)
    BY <2>1, WriteAdvances, SeenRow
  <2> QED  BY <2>2, AdvanceKeeps
<1>2. CASE LockBinding(s)
  <2>1. Advances(s)
    BY <1>2, WriteAdvances DEF LockBinding
  <2> QED  BY <2>1, AdvanceKeeps
<1>3. CASE Look(s)
  <2>1. Advances(s)
    BY <1>3, ReadAdvances DEF Look
  <2> QED  BY <2>1, AdvanceKeeps
<1>4. CASE SetStatus(s)
  <2>1. PICK status \in NextStatuses(s) :
            Write(s, "individual", [status |-> status,
                                    revision |-> Seen(s, "individual").revision + 1])
    BY <1>4 DEF SetStatus
  <2>2. status \in Statuses
    <3>1. \A t \in Transitions : t[3] \in Statuses
      BY DEF Transitions, Statuses
    <3> QED  BY <2>1, <3>1 DEF NextStatuses
  <2>3. [status |-> status, revision |-> Seen(s, "individual").revision + 1] \in Individuals
    BY <2>2, SeenRow DEF Individuals
  <2>4. Ready(s, "status")
    BY <1>4 DEF SetStatus
  <2>5. Advances(s)
    BY <2>1, <2>3, <2>4, WriteAdvances
  <2> QED  BY <2>5, AdvanceKeeps
<1>5. CASE UpdateGovernance(s)
  <2>1. PICK st \in {"block", "unblock"} :
            Ready(s, st) /\ Write(s, "governance", [Seen(s, "governance") EXCEPT
                                       !.blocked = (st = "block"), !.revision = @ + 1])
    BY <1>5 DEF UpdateGovernance
  <2>2. Advances(s)
    BY <2>1, WriteAdvances
  <2> QED  BY <2>2, AdvanceKeeps
<1>6. CASE SetExploration(s)
  <2>1. Advances(s)
    BY <1>6, WriteAdvances DEF SetExploration
  <2> QED  BY <2>1, AdvanceKeeps
<1>7. CASE SetBinding(s)
  <2>1. PICK enabled \in IF call[s] = "connector.register" THEN BOOLEAN
                         ELSE {call[s] = "connector.enable"} :
            Write(s, "binding", [state |-> IF enabled THEN "enabled" ELSE "disabled",
                                 revision |-> Seen(s, "binding").revision + 1])
    BY <1>7 DEF SetBinding
  <2>2. Advances(s)
    BY <1>7, <2>1, WriteAdvances DEF SetBinding
  <2> QED  BY <2>2, AdvanceKeeps
<1>8. CASE Revise(s)
  <2>1. CASE Active(Seen(s, "revisions")) = want[s]
    BY <1>8, <2>1, StopKeeps DEF Revise
  <2>2. CASE Active(Seen(s, "revisions")) # want[s]
    <3>1. Advances(s)
      BY <1>8, <2>2, WriteAdvances DEF Revise
    <3> QED  BY <3>1, AdvanceKeeps
  <2> QED  BY <2>1, <2>2
<1>9. CASE Bear(s)
  <2>1. [status |-> "active", revision |-> 1] \in Individuals
    BY DEF Individuals, Statuses
  <2>2. Advances(s)
    BY <1>9, <2>1, WriteAdvances DEF Bear
  <2> QED  BY <2>2, AdvanceKeeps
<1>10. CASE Found(s)
  <2>1. PICK who \in Subjects, explore \in BOOLEAN :
        draft' = [draft EXCEPT ![s]["governance"] = [blocked |-> TRUE, explore |-> explore, revision |-> 1],
                               ![s]["principal"] = who,
                               ![s]["revisions"] = <<want[s]>>]
    BY <1>10 DEF Found
  <2>2. todo[s] # <<>> /\ Head(todo[s]) = "found" /\ Blockers(s) = {} /\ Accepted(s)
    BY <1>10 DEF Found, Ready, At
  <2>3. /\ DOMAIN draft' = Sessions /\ DOMAIN draft'[s] = Rows
        /\ \A t \in Sessions \ {s} : draft'[t] = draft[t]
    BY <2>1 DEF LockInvariant, Types
  <2>4. \A row \in Rows \ {"governance", "principal", "revisions"} : draft'[s][row] = draft[s][row]
    BY <2>1 DEF LockInvariant, Types
  <2>5. draft'[s]["individual"] = draft[s]["individual"]
    BY <2>4
  <2>6. Advances(s)
    BY <1>10, <2>2, <2>3, <2>4, <2>5 DEF Found, Advances, Steps, Holds, LockInvariant, Types
  <2> QED  BY <2>6, AdvanceKeeps
<1>11. CASE PostBootstrap(s)
  <2>1. Advances(s)
    BY <1>11, WriteAdvances DEF PostBootstrap
  <2> QED  BY <2>1, AdvanceKeeps
<1>12. CASE Redact(s)
  <2>1. Advances(s)
    BY <1>12, WriteAdvances DEF Redact
  <2> QED  BY <2>1, AdvanceKeeps
<1>13. CASE Mention(s)
  <2>1. Advances(s)
    BY <1>13, ReadAdvances DEF Mention
  <2> QED  BY <2>1, AdvanceKeeps
<1>14. CASE AppendEvent(s)
  <2>1. Advances(s)
    BY <1>14, ReadAdvances DEF AppendEvent
  <2> QED  BY <2>1, AdvanceKeeps
<1> QED
  BY <1>1, <1>2, <1>3, <1>4, <1>5, <1>6, <1>7, <1>8, <1>9, <1>10, <1>11, <1>12, <1>13, <1>14
     DEF Statement

LEMMA InitialLocks == Init => LockInvariant
<1> SUFFICES ASSUME Init PROVE LockInvariant
  OBVIOUS
<1>1. /\ table["individual"] = [status |-> "unborn", revision |-> 0]
      /\ \A s \in Sessions : draft[s] = [row \in Rows |-> Unlocked] /\ todo[s] = <<>>
      /\ sharing = {}
  BY DEF Init, Rows
<1>2. /\ \A s \in Sessions, row \in Rows : ~Holds(s, row)
      /\ \A s \in Sessions : DOMAIN todo[s] = {} /\ \A S : ~Has(todo[s], S)
  BY <1>1 DEF Holds, Has
<1>3. Types
  <2>1. table["individual"] \in Individuals
    BY <1>1 DEF Individuals
  <2>2. todo \in [Sessions -> Seq(Statements)] /\ DOMAIN draft = Sessions /\ DOMAIN call = Sessions
    BY DEF Init
  <2>3. \A s \in Sessions : DOMAIN draft[s] = Rows /\ draft[s]["individual"] = Unlocked
    BY <1>1 DEF Rows
  <2> QED  BY <1>1, <2>1, <2>2, <2>3 DEF Types
<1>4. Exclusive
  BY <1>2 DEF Exclusive, Rows
<1>5. ASSUME NEW s \in Sessions PROVE SessionInvariant(s)
  <2>1. Ordered(todo[s]) /\ Behind(s) /\ Alone(s) /\ Upgrades(s) /\ Resting(s)
    BY <1>1, <1>2 DEF Ordered, Behind, Alone, Upgrades, Resting
  <2>2. Covered(s)
    BY <1>2 DEF Covered, Rows
  <2> QED  BY <2>1, <2>2 DEF SessionInvariant
<1> QED  BY <1>3, <1>4, <1>5 DEF LockInvariant

LEMMA NextLocks == LockInvariant /\ [Next]_vars => LockInvariant'
<1> SUFFICES ASSUME LockInvariant, [Next]_vars PROVE LockInvariant'
  OBVIOUS
<1>1. CASE UNCHANGED vars
  <2>1. UNCHANGED <<table, draft, sharing, todo, call>>
    BY <1>1 DEF vars, session
  <2> QED
    BY <2>1 DEF LockInvariant, Types, Exclusive, SessionInvariant, Covered, Behind, Alone,
                Upgrades, Resting, Holds
<1>2. CASE Next
  <2>1. PICK s \in Sessions :
            BeginCall(s) \/ BeginWork(s) \/ Statement(s) \/ Commit(s) \/ Refuse(s) \/ Fail(s)
    BY <1>2 DEF Next
  <2>2. CASE BeginCall(s)
    <3>1. PICK c \in OperatorCalls, w \in Configs \cup {NoConfig} : Begins(s, c, w)
      BY <2>2 DEF BeginCall
    <3>2. c # "settle"
      <4>1. \A t \in Transitions : t[2] # "settle"
        BY DEF Transitions
      <4> QED  BY <4>1 DEF OperatorCalls, AdminCalls, LifecycleCalls, PolicyCalls, BindingCalls
    <3> QED  BY <3>1, <3>2, BeginKeeps
  <2>3. CASE BeginWork(s)
    <3>1. PICK c \in IF s = Runtime THEN RuntimeCalls ELSE IngesterCalls : Begins(s, c, NoConfig)
      BY <2>3 DEF BeginWork
    <3>2. c = "settle" => s = Runtime
      BY DEF IngesterCalls
    <3> QED  BY <3>1, <3>2, BeginKeeps
  <2>4. CASE Statement(s)
    BY <2>4, StatementKeeps
  <2>5. CASE Commit(s)
    <3>1. table'["individual"] = Seen(s, "individual")
      BY <2>5 DEF Commit, Rows
    <3> QED  BY <2>5, <3>1, SeenRow, ReleaseKeeps DEF Commit
  <2>6. CASE Refuse(s) \/ Fail(s)
    <3>1. table'["individual"] \in Individuals
      BY <2>6 DEF Refuse, Fail, LockInvariant, Types
    <3> QED  BY <2>6, <3>1, ReleaseKeeps DEF Refuse, Fail
  <2> QED  BY <2>1, <2>2, <2>3, <2>4, <2>5, <2>6
<1> QED  BY <1>1, <1>2

\* stores/cognition.py, stores/autonomy.py, runtime/connector_admin.py: however
\* many operators there are, the individual's row has one holder whom nobody
\* shares it with, and the other rows are locked in their order under it.
THEOREM LocksInOrder == Spec => []LockInvariant
<1> QED  BY InitialLocks, NextLocks, PTL DEF Spec

-----------------------------------------------------------------------------
(* Who waits for whom *)

\* What the session that s waits for has locked or shares.  Under its lock of the
\* individual's row a session only ever waits for governance.
LEMMA WaitsFor ==
    ASSUME LockInvariant, NEW s \in Sessions, NEW t \in Blockers(s)
    PROVE  /\ t \in Sessions \ {s} /\ todo[s] # <<>>
           /\ Head(todo[s]) \in Firsts => Holds(t, "individual") \/ t \in sharing
           /\ Head(todo[s]) \in {"event", "mention"} => Holds(t, "individual")
           /\ Head(todo[s]) = "redact" => Holds(t, "content")
           /\ Head(todo[s]) \in Guarded \cup {"unblock"} =>
                  Holds(t, "governance") /\ Row(Head(todo[s])) = "governance"
<1> DEFINE st == Head(todo[s])
<1>1. /\ t \in Sessions \ {s} /\ todo[s] # <<>>
      /\ IF Refers(s) THEN Holds(t, "individual")
         ELSE Holds(t, Row(st)) \/ (Row(st) = "individual" /\ t \in sharing)
  BY DEF Blockers
<1>2. Refers(s) <=> st \in {"event", "mention"}
  BY <1>1 DEF Refers, At
<1>3. st \in Firsts => Holds(t, "individual") \/ t \in sharing
  BY <1>1, <1>2 DEF Firsts, Row
<1>4. st \in {"event", "mention"} => Holds(t, "individual")
  BY <1>1, <1>2
<1>5. st = "redact" => Holds(t, "content")
  BY <1>1, <1>2 DEF Row
<1>6. st = "unblock" => Holds(t, "governance") /\ Row(st) = "governance"
  BY <1>1, <1>2 DEF Row
<1>7. ASSUME st \in Guarded PROVE Holds(t, "governance") /\ Row(st) = "governance"
  <2>1. ~Holds(t, "individual") /\ t \notin sharing
    BY <1>1, <1>7, AtStatement DEF LockInvariant, Exclusive
  <2>2. \A row \in Rows \ {"individual", "governance", "content"} : ~Holds(t, row)
    BY <1>1, <2>1 DEF LockInvariant, SessionInvariant, Covered
  <2>3. Holds(t, Row(st)) \/ (Row(st) = "individual" /\ t \in sharing)
    BY <1>1, <1>2, <1>7 DEF Guarded
  <2>4. Row(st) \in Rows \ {"content"}
    BY <1>7, <2>1, <2>3 DEF Guarded, Row, Rows, Holds
  <2> QED  BY <2>1, <2>2, <2>3, <2>4
<1> QED  BY <1>1, <1>3, <1>4, <1>5, <1>6, <1>7

LEMMA NoCircle == LockInvariant => NoCircularWait
<1> SUFFICES ASSUME LockInvariant, NEW D \in SUBSET Waiting, D # {},
                    \A s \in D : Blockers(s) \cap D # {}
             PROVE  FALSE
  BY DEF NoCircularWait
<1>1. \A s \in D : s \in Sessions /\ todo[s] # <<>>
  BY DEF Waiting, Blockers
<1>2. \A s \in D : Head(todo[s]) \in Statements
  BY <1>1, AtStatement
<1>3. \A s \in D : Head(todo[s]) # "redact"
  <2> SUFFICES ASSUME NEW s \in D, Head(todo[s]) = "redact" PROVE FALSE
    OBVIOUS
  <2>1. PICK t \in D : t \in Blockers(s)
    OBVIOUS
  <2>2. Holds(t, "content")
    BY <1>1, <2>1, WaitsFor
  <2>3. RowRank("content") < Rank(Head(todo[t]))
    BY <1>1, <2>2 DEF LockInvariant, SessionInvariant, Behind, Rows
  <2>4. RowRank("content") = 8 /\ Rank(Head(todo[t])) \in 0 .. 8
    BY <1>2, Ranks
  <2> QED  BY <2>3, <2>4
<1>4. \A s, t \in D : Holds(s, "individual") /\ Holds(t, "individual") => s = t
  BY <1>1 DEF LockInvariant, Exclusive
\* Whoever has locked governance has all it needs, or inserts an event.
<1>5. \A t \in D : ~Holds(t, "governance")
  <2> SUFFICES ASSUME NEW t \in D, Holds(t, "governance") PROVE FALSE
    OBVIOUS
  <2>1. Holds(t, "individual")
    BY <1>1 DEF LockInvariant, SessionInvariant, Covered
  <2>2. PICK u \in D : u \in Blockers(t)
    OBVIOUS
  <2>3. RowRank("governance") < Rank(Head(todo[t])) /\ RowRank("governance") = 5
    BY <1>1, Ranks DEF LockInvariant, SessionInvariant, Behind, Rows
  <2>4. Head(todo[t]) \in {"binding", "found", "event", "wake", "unblock"}
    BY <1>2, <1>3, <2>3 DEF Rank, Statements, Firsts, Guarded
  <2>5. Head(todo[t]) # "unblock"
    <3> SUFFICES ASSUME Head(todo[t]) = "unblock" PROVE FALSE
      OBVIOUS
    <3>1. todo[t] \in Seq(Statements)
      BY <1>1 DEF LockInvariant, Types
    <3>2. Has(todo[t], {"unblock"})
      BY <1>1, <3>1, HasTail
    <3> QED  BY <1>1, <2>1, <3>2 DEF LockInvariant, SessionInvariant, Alone, Rows
  <2>6. Head(todo[t]) \notin {"binding", "found", "wake"}
    <3> SUFFICES ASSUME Head(todo[t]) \in {"binding", "found", "wake"} PROVE FALSE
      OBVIOUS
    <3>1. Row(Head(todo[t])) = "governance"
      BY <1>1, <2>2, WaitsFor DEF Guarded
    <3> QED  BY <3>1 DEF Row
  <2>7. Head(todo[t]) # "event"
    <3> SUFFICES ASSUME Head(todo[t]) = "event" PROVE FALSE
      OBVIOUS
    <3>1. Holds(u, "individual") /\ u # t
      BY <1>1, <2>2, WaitsFor
    <3> QED  BY <1>4, <2>1, <2>2, <3>1
  <2> QED  BY <2>4, <2>5, <2>6, <2>7
<1>6. \A s \in D : Head(todo[s]) \in Firsts \cup {"event", "mention"}
  <2> SUFFICES ASSUME NEW s \in D, Head(todo[s]) \notin Firsts \cup {"event", "mention"}
               PROVE  FALSE
    OBVIOUS
  <2>1. PICK t \in D : t \in Blockers(s)
    OBVIOUS
  <2>2. Head(todo[s]) \in Guarded \cup {"unblock"}
    BY <1>2, <1>3 DEF Statements
  <2>3. Holds(t, "governance")
    BY <1>1, <2>1, <2>2, WaitsFor
  <2> QED  BY <1>5, <2>3
\* Whoever has locked the individual's row waits for nobody in D.
<1>7. \A t \in D : ~Holds(t, "individual")
  <2> SUFFICES ASSUME NEW t \in D, Holds(t, "individual") PROVE FALSE
    OBVIOUS
  <2>1. Head(todo[t]) = "event"
    BY <1>1, <1>6, AtStatement DEF Rows
  <2>2. PICK u \in D : u \in Blockers(t)
    OBVIOUS
  <2>3. Holds(u, "individual") /\ u # t
    BY <1>1, <2>1, <2>2, WaitsFor
  <2> QED  BY <1>4, <2>2, <2>3
\* What is left is to lock the individual's row while others share it: the
\* runtime is the only one of them that could wait.
<1>8. \A s \in D : \E t \in D : t # s /\ t = Runtime
  <2> TAKE s \in D
  <2>1. PICK t \in D : t \in Blockers(s)
    OBVIOUS
  <2>2. Head(todo[s]) \in Firsts
    BY <1>1, <1>6, <1>7, <2>1, WaitsFor
  <2>3. t \in sharing /\ t # s
    BY <1>1, <1>7, <2>1, <2>2, WaitsFor
  <2>4. Head(todo[t]) \in Firsts
    <3>1. PICK u \in D : u \in Blockers(t)
      OBVIOUS
    <3> QED  BY <1>1, <1>6, <1>7, <3>1, WaitsFor
  <2>5. Has(todo[t], Firsts)
    <3>1. todo[t] \in Seq(Statements)
      BY <1>1 DEF LockInvariant, Types
    <3> QED  BY <1>1, <2>4, <3>1, HasTail
  <2>6. t = Runtime
    BY <1>1, <2>3, <2>5 DEF LockInvariant, SessionInvariant, Upgrades
  <2> QED  BY <2>3, <2>6
<1>9. PICK s \in D : TRUE
  OBVIOUS
<1>10. Runtime \in D
  BY <1>8, <1>9
<1> QED  BY <1>8, <1>10

\* stores/cognition.py, execution_allowed: transactions that administer, run and
\* ingest for one individual never wait for each other in a circle, for any
\* number of operators and whatever each of them does.
THEOREM NeverDeadlocks == Spec => []NoCircularWait
<1> QED  BY LocksInOrder, NoCircle, PTL

-----------------------------------------------------------------------------
(* What audits tell                                                        *)
(*                                                                         *)
(* An event is written before its transaction commits, so what it says of  *)
(* before and after has to stay true meanwhile: the rows it tells of are   *)
(* locked by then (Reached, EntrySound), nobody else has locked them       *)
(* (Exclusive, Covered, GovernanceAlone), and what was only read before    *)
(* the lock is compared by its revision, which every change of governance  *)
(* moves on (SawSound, GovernanceMoves).                                   *)

\* What an event tells, row by row.
Plain   == {"status", "explore", "binding", "config", "principal"}
Home(f) ==
    CASE f = "status"                           -> "individual"
      [] f \in {"blocked", "explore", "governance"} -> "governance"
      [] f = "binding"                          -> "binding"
      [] f = "config"                           -> "revisions"
      [] f = "principal"                        -> "principal"

View(s) == [row \in Rows |-> Seen(s, row)]

RowTypes ==
    /\ DOMAIN table = Rows
    /\ table["governance"] \in Governances /\ table["binding"] \in Bindings
    /\ \A s \in Sessions : /\ draft[s]["governance"] \in Governances \cup {Unlocked}
                           /\ draft[s]["binding"] \in Bindings \cup {Unlocked}
    /\ DOMAIN saw = Sessions /\ DOMAIN entry = Sessions
    /\ \E S : log \in Seq(S)

\* An individual that was born stays so, and the log is about it.  Nothing but
\* its birth is done about one that is not.
Lives ==
    /\ log # <<>> => table["individual"].status # "unborn"
    /\ table["individual"].status = "unborn" => table["governance"].revision = 0
    /\ \A s \in Sessions :
        /\ Holds(s, "individual") => draft[s]["individual"].status # "unborn"
        /\ Holds(s, "governance") /\ ~Holds(s, "individual") => table["individual"].status # "unborn"
        /\ call[s] = "individual.born" /\ Holds(s, "individual") =>
               table["individual"].status = "unborn"

GovernanceAlone ==
    \A s, t \in Sessions : Holds(s, "governance") /\ Holds(t, "governance") => s = t

\* What a change of governance leaves is a later revision.
GovernanceMoves ==
    \A s \in Sessions : Holds(s, "governance") =>
        \/ draft[s]["governance"] = table["governance"]
        \/ draft[s]["governance"].revision > table["governance"].revision

\* Who is still to do a statement is doing a call that has it.
Purpose(s) ==
    /\ Has(todo[s], {"status"})  => call[s] \in LifecycleCalls
    /\ Has(todo[s], {"block"})   => call[s] = "emergency_block"
    /\ Has(todo[s], {"explore"}) => call[s] \in PolicyCalls
    /\ Has(todo[s], {"binding"}) => call[s] \in BindingCalls \cup IngesterCalls
    /\ Has(todo[s], {"revise"})  => call[s] = "config.changed"
    /\ Has(todo[s], {"born", "found"}) => call[s] = "individual.born"
    /\ Has(todo[s], {"individual"}) => call[s] # "individual.born"
    /\ Has(todo[s], {"governance", "unblock"}) => call[s] \notin AdminCalls \ BindingCalls
    /\ call[s] \in IngesterCalls => s = Ingester

\* The statements by which a call locks what it tells of.
Locking(c) ==
    CASE c \in LifecycleCalls  -> {<<"individual", "individual">>}
      [] c = "emergency_block" -> {<<"individual", "individual">>, <<"block", "governance">>}
      [] c \in PolicyCalls     -> {<<"explore", "governance">>}
      [] c \in BindingCalls    -> {<<"binding", "binding">>}
      [] c = "individual.born" -> {<<"born", "individual">>}
      [] OTHER                 -> {}

Reached(s) == \A p \in Locking(call[s]) : Has(todo[s], {p[1]}) \/ Holds(s, p[2])

\* The governance an emergency block has read before it locks the row.
SawSound(s) ==
    call[s] = "emergency_block" /\ ~Has(todo[s], {"look"}) =>
        /\ saw[s] \in Governances
        /\ saw[s].revision <= table["governance"].revision
        /\ saw[s].revision = table["governance"].revision => saw[s] = table["governance"]
        /\ Holds(s, "governance") => saw[s].revision = table["governance"].revision

\* What a transaction changes is what its call tells of.
Changes(s) ==
    \A f \in Plain : Value(View(s), f) # Value(table, f) =>
        f \in Told(call[s]) \/ call[s] = "individual.born"

\* Until the event is inserted it is due, except where nothing was revised.
EventDue(s) ==
    Told(call[s]) # {} =>
        \/ Has(todo[s], {"event"})
        \/ entry[s] # NoEntry
        \/ call[s] = "config.changed" /\ todo[s] = <<>> /\ ~Holds(s, "revisions")

EntrySound(s) ==
    entry[s] # NoEntry =>
        /\ call[s] # NoCall /\ entry[s].op = call[s] /\ Born(s)
        /\ \A i \in DOMAIN todo[s] : todo[s][i] \in {"wake", "redact"}
        /\ DOMAIN entry[s].after = Told(call[s])
        /\ DOMAIN entry[s].before = IF call[s] \in AdminCalls THEN Told(call[s]) ELSE {}
        /\ \A f \in Exact(entry[s]) :
            /\ Holds(s, Home(f))
            /\ entry[s].before[f] = Value(table, f)
            /\ entry[s].after[f] = Value(View(s), f)

Evident(s) == /\ Purpose(s) /\ Reached(s) /\ SawSound(s) /\ Changes(s) /\ EventDue(s)
              /\ EntrySound(s)

AuditInvariant == /\ LockInvariant /\ RowTypes /\ Lives /\ GovernanceAlone /\ GovernanceMoves
                  /\ \A s \in Sessions : Evident(s)

-----------------------------------------------------------------------------
(* What calls are made of *)

Calls == OperatorCalls \cup RuntimeCalls \cup IngesterCalls

\* The statements of a script, whatever their order.
LEMMA Parts ==
    ASSUME NEW c \in Calls
    PROVE  /\ Has(Script(c), {"status"})  => c \in LifecycleCalls
           /\ Has(Script(c), {"block"})   => c = "emergency_block"
           /\ Has(Script(c), {"explore"}) => c \in PolicyCalls
           /\ Has(Script(c), {"binding"}) => c \in BindingCalls \cup IngesterCalls
           /\ Has(Script(c), {"revise"})  => c = "config.changed"
           /\ Has(Script(c), {"born", "found"}) => c = "individual.born"
           /\ Has(Script(c), {"individual"}) => c # "individual.born"
           /\ Has(Script(c), {"governance", "unblock"}) => c \notin AdminCalls \ BindingCalls
           /\ \A p \in Locking(c) : Has(Script(c), {p[1]})
           /\ Told(c) # {} => Has(Script(c), {"event"})
           /\ c = "emergency_block" => Has(Script(c), {"look"})
<1> USE CallNames DEF PolicyCalls, BindingCalls, AdminCalls, IngesterCalls
<1> DEFINE Fits(q) ==
           /\ Has(q, {"status"})  => c \in LifecycleCalls
           /\ Has(q, {"block"})   => c = "emergency_block"
           /\ Has(q, {"explore"}) => c \in PolicyCalls
           /\ Has(q, {"binding"}) => c \in BindingCalls \cup IngesterCalls
           /\ Has(q, {"revise"})  => c = "config.changed"
           /\ Has(q, {"born", "found"}) => c = "individual.born"
           /\ Has(q, {"individual"}) => c # "individual.born"
           /\ Has(q, {"governance", "unblock"}) => c \notin AdminCalls \ BindingCalls
           /\ \A p \in Locking(c) : Has(q, {p[1]})
           /\ Told(c) # {} => Has(q, {"event"})
           /\ c = "emergency_block" => Has(q, {"look"})
<1>1. ASSUME c \in LifecycleCalls PROVE Fits(Script(c))
  <2> DEFINE q == <<"individual", "principal", "look", "status", "event">>
  <2>1. Script(c) = q
    BY <1>1 DEF Script
  <2>2. Locking(c) = {<<"individual", "individual">>}
    BY <1>1 DEF Locking
  <2>3. \A S : Has(q, S) <=> {"individual", "principal", "look", "status", "event"} \cap S # {}
    BY DEF Has
  <2> HIDE DEF q
  <2> QED  BY <1>1, <2>1, <2>2, <2>3
<1>2. ASSUME c = "emergency_block" PROVE Fits(Script(c))
  <2> DEFINE q == <<"individual", "principal", "look", "block", "event">>
  <2>1. Script(c) = q
    BY <1>2 DEF Script
  <2>2. Locking(c) = {<<"individual", "individual">>, <<"block", "governance">>}
    BY <1>2 DEF Locking
  <2>3. \A S : Has(q, S) <=> {"individual", "principal", "look", "block", "event"} \cap S # {}
    BY DEF Has
  <2> HIDE DEF q
  <2> QED  BY <1>2, <2>1, <2>2, <2>3
<1>3. ASSUME c \in PolicyCalls PROVE Fits(Script(c))
  <2> DEFINE q == <<"individual", "principal", "explore", "event">>
  <2>1. Script(c) = q
    BY <1>3 DEF Script
  <2>2. Locking(c) = {<<"explore", "governance">>}
    BY <1>3 DEF Locking
  <2>3. \A S : Has(q, S) <=> {"individual", "principal", "explore", "event"} \cap S # {}
    BY DEF Has
  <2> HIDE DEF q
  <2> QED  BY <1>3, <2>1, <2>2, <2>3
<1>4. ASSUME c \in BindingCalls PROVE Fits(Script(c))
  <2> DEFINE q == <<"individual", "principal", "governance", "binding", "event">>
  <2>1. Script(c) = q
    BY <1>4 DEF Script
  <2>2. Locking(c) = {<<"binding", "binding">>}
    BY <1>4 DEF Locking
  <2>3. \A S : Has(q, S) <=> {"individual", "principal", "governance", "binding", "event"} \cap S # {}
    BY DEF Has
  <2> HIDE DEF q
  <2> QED  BY <1>4, <2>1, <2>2, <2>3
<1>5. ASSUME c = "individual.born" PROVE Fits(Script(c))
  <2> DEFINE q == <<"born", "found", "event", "wake">>
  <2>1. Script(c) = q
    BY <1>5 DEF Script
  <2>2. Locking(c) = {<<"born", "individual">>}
    BY <1>5 DEF Locking
  <2>3. \A S : Has(q, S) <=> {"born", "found", "event", "wake"} \cap S # {}
    BY DEF Has
  <2> HIDE DEF q
  <2> QED  BY <1>5, <2>1, <2>2, <2>3
<1>6. ASSUME c = "config.changed" PROVE Fits(Script(c))
  <2> DEFINE q == <<"individual", "revise", "event">>
  <2>1. Script(c) = q
    BY <1>6 DEF Script
  <2>2. Locking(c) = {}
    BY <1>6 DEF Locking
  <2>3. \A S : Has(q, S) <=> {"individual", "revise", "event"} \cap S # {}
    BY DEF Has
  <2> HIDE DEF q
  <2> QED  BY <1>6, <2>1, <2>2, <2>3
<1>7. ASSUME c \in {"unblock", "redact", "run", "settle", "ingest"} PROVE Fits(Script(c))
  <2>1. Locking(c) = {} /\ Told(c) = {}
    BY <1>7 DEF Locking, Told
  <2>2. \/ Script(c) = <<"unblock">> \/ Script(c) = <<"event", "redact">>
        \/ Script(c) = <<"individual", "governance">>
        \/ Script(c) = <<"mention", "individual", "governance">>
        \/ Script(c) = <<"individual", "governance", "binding">> /\ c = "ingest"
    BY <1>7 DEF Script
  <2>3. \A S : Has(<<"unblock">>, S) => "unblock" \in S
    BY DEF Has
  <2>4. \A S : Has(<<"event", "redact">>, S) => {"event", "redact"} \cap S # {}
    BY DEF Has
  <2>5. \A S : Has(<<"individual", "governance">>, S) => {"individual", "governance"} \cap S # {}
    BY DEF Has
  <2>6. \A S : Has(<<"mention", "individual", "governance">>, S) =>
                   {"mention", "individual", "governance"} \cap S # {}
    BY DEF Has
  <2>7. \A S : Has(<<"individual", "governance", "binding">>, S) =>
                   {"individual", "governance", "binding"} \cap S # {}
    BY DEF Has
  <2>8. \A S : Has(Script(c), S) => \/ {"individual", "governance", "unblock", "event", "redact",
                                         "mention"} \cap S # {}
                                    \/ "binding" \in S /\ c = "ingest"
    BY <2>2, <2>3, <2>4, <2>5, <2>6, <2>7
  <2> QED  BY <1>7, <2>1, <2>8
<1> HIDE DEF Fits
<1>8. Fits(Script(c))
  BY <1>1, <1>2, <1>3, <1>4, <1>5, <1>6, <1>7 DEF Calls, OperatorCalls, RuntimeCalls
<1> USE DEF Fits
<1> QED  BY <1>8

\* What a field tells is in one row.
LEMMA ValueHome ==
    ASSUME NEW f \in Plain \cup {"blocked", "governance"}, NEW r, NEW q, r[Home(f)] = q[Home(f)]
    PROVE  Value(r, f) = Value(q, f)
BY DEF Plain, Home, Value

LEMMA HomeRow ==
    ASSUME NEW f \in Plain \cup {"blocked", "governance"}
    PROVE  Home(f) \in Rows \ {"wake", "content"}
BY DEF Plain, Home, Rows

LEMMA ToldFields ==
    ASSUME NEW c
    PROVE  Told(c) \subseteq Plain \cup {"blocked", "governance"}
BY DEF Plain, Told

LEMMA ToldBy ==
    ASSUME NEW c
    PROVE  /\ c \in LifecycleCalls => Told(c) = {"status", "blocked"}
           /\ c \in PolicyCalls => Told(c) = {"explore", "governance"}
           /\ c \in BindingCalls => Told(c) = {"binding"}
           /\ c = "config.changed" => Told(c) = {"config"}
<1> USE CallNames DEF PolicyCalls, BindingCalls
<1>1. c \in LifecycleCalls => Told(c) = {"status", "blocked"}
  BY DEF Told
<1>2. c \in PolicyCalls => Told(c) = {"explore", "governance"}
  BY DEF Told
<1>3. c \in BindingCalls => Told(c) = {"binding"}
  BY DEF Told
<1>4. c = "config.changed" => Told(c) = {"config"}
  BY DEF Told
<1> QED  BY <1>1, <1>2, <1>3, <1>4

\* A change of governance is a later revision of it.
LEMMA Revised ==
    ASSUME NEW g \in Governances, NEW b \in BOOLEAN
    PROVE  /\ [g EXCEPT !.blocked = b, !.revision = @ + 1] \in Governances
           /\ [g EXCEPT !.blocked = b, !.revision = @ + 1].revision > g.revision
           /\ [g EXCEPT !.blocked = b, !.revision = @ + 1].explore = g.explore
           /\ [g EXCEPT !.explore = b, !.revision = @ + 1] \in Governances
           /\ [g EXCEPT !.explore = b, !.revision = @ + 1].revision > g.revision
<1>1. g.revision \in Nat
  BY DEF Governances
<1>2. PICK n \in Nat : n = g.revision + 1 /\ n > g.revision
  BY <1>1
<1>3. /\ [g EXCEPT !.blocked = b, !.revision = @ + 1] = [g EXCEPT !.blocked = b, !.revision = n]
      /\ [g EXCEPT !.explore = b, !.revision = @ + 1] = [g EXCEPT !.explore = b, !.revision = n]
  BY <1>2, Zenon DEF Governances
<1>4. /\ [g EXCEPT !.blocked = b, !.revision = n] \in Governances
      /\ [g EXCEPT !.blocked = b, !.revision = n].revision = n
      /\ [g EXCEPT !.blocked = b, !.revision = n].explore = g.explore
  BY DEF Governances
<1>5. /\ [g EXCEPT !.explore = b, !.revision = n] \in Governances
      /\ [g EXCEPT !.explore = b, !.revision = n].revision = n
  BY DEF Governances
<1> QED  BY <1>2, <1>3, <1>4, <1>5, Zenon

\* Rows have one holder, but for the redacted content.
LEMMA RowsApart ==
    ASSUME LockInvariant, GovernanceAlone, NEW s \in Sessions, NEW t \in Sessions \ {s},
           NEW row \in Rows \ {"content"}, Holds(s, row)
    PROVE  ~Holds(t, row)
<1>1. CASE row = "governance"
  BY <1>1 DEF GovernanceAlone
<1>2. CASE row # "governance"
  <2>1. Holds(s, "individual")
    BY <1>2 DEF LockInvariant, SessionInvariant, Covered
  <2>2. ~Holds(t, "individual")
    BY <2>1 DEF LockInvariant, Exclusive
  <2> QED  BY <1>2, <2>2 DEF LockInvariant, SessionInvariant, Covered
<1> QED  BY <1>1, <1>2

\* A call locks what it tells of by statements that write it.
LEMMA LockingRows ==
    ASSUME NEW c, NEW p \in Locking(c)
    PROVE  p[2] \in Writes(p[1]) /\ p[2] \in {"individual", "governance", "binding"}
BY DEF Locking, Writes

-----------------------------------------------------------------------------
(* Steps of one session that commit nothing *)

\* Nothing of any other session changes.
Apart(s) ==
    /\ log' = log /\ table' = table
    /\ DOMAIN saw' = Sessions /\ DOMAIN entry' = Sessions
    /\ \A t \in Sessions \ {s} :
        /\ todo'[t] = todo[t] /\ draft'[t] = draft[t] /\ call'[t] = call[t]
        /\ saw'[t] = saw[t] /\ entry'[t] = entry[t]

LEMMA OthersKeep ==
    ASSUME AuditInvariant, NEW s \in Sessions, Apart(s), NEW t \in Sessions \ {s}
    PROVE  Evident(t)'
<1>1. /\ todo'[t] = todo[t] /\ draft'[t] = draft[t] /\ call'[t] = call[t]
      /\ saw'[t] = saw[t] /\ entry'[t] = entry[t] /\ table' = table
  BY DEF Apart
<1>2. \A row : (Holds(t, row)' <=> Holds(t, row)) /\ Seen(t, row)' = Seen(t, row)
  BY <1>1 DEF Holds, Seen
<1>3. View(t)' = View(t) /\ (Born(t)' <=> Born(t))
  BY <1>2 DEF View, Born
<1>4. Evident(t)
  BY DEF AuditInvariant
<1>5. Purpose(t)' /\ Reached(t)' /\ SawSound(t)'
  BY <1>1, <1>2, <1>4 DEF Evident, Purpose, Reached, SawSound
<1>6. Changes(t)' /\ EventDue(t)'
  BY <1>1, <1>2, <1>3, <1>4 DEF Evident, Changes, EventDue
<1>7. EntrySound(t)'
  BY <1>1, <1>2, <1>3, <1>4 DEF Evident, EntrySound
<1> QED  BY <1>5, <1>6, <1>7 DEF Evident

\* What a statement is for is locked after it; what is left is for the same call.
LEMMA OwnTail ==
    ASSUME AuditInvariant, NEW s \in Sessions, Advances(s),
           \A row \in {"individual", "governance", "binding"} : Holds(s, row) => Holds(s, row)',
           \A p \in Locking(call[s]) : Head(todo[s]) = p[1] => Holds(s, p[2])'
    PROVE  Purpose(s)' /\ Reached(s)'
<1>1. /\ todo[s] \in Seq(Statements) /\ todo[s] # <<>> /\ todo'[s] = Tail(todo[s])
      /\ call' = call
  BY DEF AuditInvariant, LockInvariant, Types, Advances, Steps, Proceed
<1>2. \A S : Has(todo'[s], S) => Has(todo[s], S)
  BY <1>1, HasTail
<1>3. Purpose(s) /\ Reached(s)
  BY DEF AuditInvariant, Evident
<1>4. Purpose(s)'
  BY <1>1, <1>2, <1>3 DEF Purpose
<1>5. Reached(s)'
  <2> SUFFICES ASSUME NEW p \in Locking(call[s])
               PROVE  Has(todo'[s], {p[1]}) \/ Holds(s, p[2])'
    BY <1>1 DEF Reached
  <2>1. Has(todo[s], {p[1]}) \/ Holds(s, p[2])
    BY <1>3 DEF Reached
  <2>2. p[2] \in {"individual", "governance", "binding"}
    BY LockingRows
  <2>3. ASSUME Has(todo[s], {p[1]}) PROVE Head(todo[s]) = p[1] \/ Has(todo'[s], {p[1]})
    <3>1. Head(todo[s]) \in {p[1]} \/ Has(Tail(todo[s]), {p[1]})
      BY <1>1, <2>3, HasTail
    <3> QED  BY <1>1, <3>1
  <2> QED  BY <2>1, <2>2, <2>3
<1> QED  BY <1>4, <1>5

\* An event is due until it is inserted.
LEMMA DueTail ==
    ASSUME AuditInvariant, NEW s \in Sessions, Advances(s), Head(todo[s]) # "event",
           entry'[s] = entry[s]
    PROVE  EventDue(s)'
<1>1. /\ todo[s] \in Seq(Statements) /\ todo[s] # <<>> /\ todo'[s] = Tail(todo[s])
      /\ call' = call
  BY DEF AuditInvariant, LockInvariant, Types, Advances, Steps, Proceed
<1>2. EventDue(s)
  BY DEF AuditInvariant, Evident
<1>3. Has(todo[s], {"event"}) => Has(todo'[s], {"event"})
  BY <1>1, HasTail
<1> QED  BY <1>1, <1>2, <1>3 DEF EventDue

\* A statement that locks governance does so for the first time.
LEMMA FirstLock ==
    ASSUME LockInvariant, NEW s \in Sessions, todo[s] # <<>>,
           Head(todo[s]) \in {"look", "block", "explore", "governance", "unblock"}
    PROVE  ~Holds(s, "governance")
<1>1. todo[s] \in Seq(Statements) /\ Behind(s) /\ Alone(s)
  BY DEF LockInvariant, Types, SessionInvariant
<1>2. CASE Head(todo[s]) = "unblock"
  <2>1. Has(todo[s], {"unblock"})
    BY <1>1, <1>2, HasTail
  <2> QED  BY <1>1, <2>1 DEF Alone, Rows
<1>3. CASE Head(todo[s]) # "unblock"
  <2>1. Rank(Head(todo[s])) \in {3, 5}
    BY <1>3 DEF Rank, Firsts
  <2>2. RowRank("governance") = 5
    BY Ranks
  <2> QED  BY <1>1, <2>1, <2>2 DEF Behind, Rows
<1> QED  BY <1>2, <1>3

\* The rows of a lock, as the session and as others see them.
LEMMA GovernanceTypes ==
    ASSUME AuditInvariant, NEW s \in Sessions
    PROVE  /\ Seen(s, "governance") \in Governances
           /\ Seen(s, "binding") \in Bindings
           /\ Seen(s, "individual") \in Individuals
           /\ Holds(s, "governance") => draft[s]["governance"] \in Governances
BY SeenRow DEF AuditInvariant, RowTypes, Seen, Holds

\* A statement that leaves a row locked, with what its call is about in it.
LEMMA WriteTells ==
    ASSUME AuditInvariant, NEW s \in Sessions, NEW st \in Statements, NEW row \in Rows, NEW value,
           Ready(s, st), Write(s, row, value), Writes(st) = {row},
           st \in Firsts => row = "individual",
           row = "individual" => /\ value \in Individuals /\ value.status # "unborn"
                                 /\ call[s] = "individual.born" =>
                                        table["individual"].status = "unborn",
           row = "governance" => /\ value \in Governances
                                 /\ value = Seen(s, row) \/ value.revision > Seen(s, row).revision
                                 /\ call[s] = "emergency_block" => st = "block",
           row = "binding" => value \in Bindings,
           \A f \in Plain : Home(f) = row =>
               \/ f \in Told(call[s]) \/ call[s] = "individual.born" \/ value = Seen(s, row)
               \/ f = "explore" /\ value.explore = Seen(s, row).explore
    PROVE  AuditInvariant'
<1>1. LockInvariant /\ RowTypes /\ Evident(s)
  BY DEF AuditInvariant
<1>2. Advances(s)
  BY <1>1, WriteAdvances
<1>3. LockInvariant'
  BY <1>1, <1>2, AdvanceKeeps
<1>4. /\ todo[s] # <<>> /\ Head(todo[s]) = st /\ Blockers(s) = {} /\ Accepted(s)
      /\ todo[s] \in Seq(Statements) /\ todo'[s] = Tail(todo[s])
  BY <1>1 DEF Ready, At, Write, Proceed, LockInvariant, Types
<1>5. /\ table' = table /\ log' = log /\ call' = call /\ saw' = saw /\ entry' = entry
      /\ draft' = [draft EXCEPT ![s][row] = value]
  BY DEF Write
<1>6. /\ draft'[s][row] = value
      /\ \A other \in Rows \ {row} : draft'[s][other] = draft[s][other]
      /\ \A t \in Sessions \ {s} : draft'[t] = draft[t] /\ todo'[t] = todo[t]
  BY <1>1, <1>5 DEF LockInvariant, Types, Write, Proceed
<1>7. Apart(s)
  BY <1>1, <1>5, <1>6 DEF Apart, RowTypes
<1>8. /\ \A other \in Rows \ {row} : /\ Holds(s, other)' <=> Holds(s, other)
                                     /\ Seen(s, other)' = Seen(s, other)
      /\ \A t \in Sessions \ {s}, other \in Rows : Holds(t, other)' <=> Holds(t, other)
  BY <1>5, <1>6 DEF Holds, Seen
<1>9. row \in {"individual", "governance", "binding"} => Holds(s, row)' /\ Seen(s, row)' = value
  BY <1>5, <1>6, UnlockedAssumption DEF Holds, Seen
<1>10. value = Seen(s, row) => Seen(s, row)' = Seen(s, row)
  BY <1>5, <1>6 DEF Holds, Seen
<1>11. RowTypes'
  <2>1. /\ draft'[s]["governance"] \in Governances \cup {Unlocked}
        /\ draft'[s]["binding"] \in Bindings \cup {Unlocked}
    BY <1>1, <1>6 DEF RowTypes, Rows
  <2> QED  BY <1>1, <1>5, <1>6, <2>1 DEF RowTypes
<1>12. row = "governance" => /\ ~Holds(s, "governance")
                             /\ \A t \in Sessions \ {s} : ~Holds(t, "governance")
                             /\ Holds(s, "individual") \/ table["individual"].status # "unborn"
  <2> SUFFICES ASSUME row = "governance"
               PROVE  /\ ~Holds(s, "governance")
                      /\ \A t \in Sessions \ {s} : ~Holds(t, "governance")
                      /\ Holds(s, "individual") \/ table["individual"].status # "unborn"
    OBVIOUS
  <2>1. st \in {"block", "explore", "governance", "unblock"}
    BY DEF Writes, Statements, Firsts, Guarded
  <2>2. ~Holds(s, "governance")
    BY <1>1, <1>4, <2>1, FirstLock
  <2>3. Born(s) /\ ~Refers(s) /\ Row(Head(todo[s])) = "governance"
    BY <1>4, <2>1 DEF Accepted, At, Refers, Row
  <2>4. \A t \in Sessions \ {s} : ~Holds(t, "governance")
    BY <1>4, <2>3 DEF Blockers
  <2> QED  BY <2>2, <2>3, <2>4 DEF Born, Seen
<1>13. Lives'
  <2>1. Lives
    BY DEF AuditInvariant
  <2>2. /\ Holds(s, "individual")' => draft'[s]["individual"].status # "unborn"
        /\ call[s] = "individual.born" /\ Holds(s, "individual")' =>
               table["individual"].status = "unborn"
        /\ Holds(s, "individual") => Holds(s, "individual")'
    <3>1. CASE row = "individual"
      BY <1>6, <1>9, <3>1
    <3>2. CASE row # "individual"
      BY <1>6, <1>8, <2>1, <3>2 DEF Lives, Rows
    <3> QED  BY <3>1, <3>2
  <2>3. Holds(s, "governance")' /\ ~Holds(s, "individual")' => table["individual"].status # "unborn"
    <3>1. CASE row = "governance"
      BY <1>12, <2>2, <3>1
    <3>2. CASE row # "governance"
      BY <1>8, <2>1, <2>2, <3>2 DEF Lives, Rows
    <3> QED  BY <3>1, <3>2
  <2>4. \A t \in Sessions \ {s} :
            /\ Holds(t, "individual")' => draft'[t]["individual"].status # "unborn"
            /\ Holds(t, "governance")' /\ ~Holds(t, "individual")' =>
                   table["individual"].status # "unborn"
            /\ call[t] = "individual.born" /\ Holds(t, "individual")' =>
                   table["individual"].status = "unborn"
    BY <1>6, <1>8, <2>1 DEF Lives, Rows
  <2> QED  BY <1>5, <2>1, <2>2, <2>3, <2>4 DEF Lives
<1>14. GovernanceAlone'
  <2>1. CASE row = "governance"
    BY <1>8, <1>12, <2>1 DEF GovernanceAlone, Rows
  <2>2. CASE row # "governance"
    BY <1>8, <2>2 DEF GovernanceAlone, AuditInvariant, Rows
  <2> QED  BY <2>1, <2>2
<1>15. GovernanceMoves'
  <2>1. GovernanceMoves
    BY DEF AuditInvariant
  <2>2. CASE row = "governance"
    <3>1. Seen(s, "governance") = table["governance"]
      BY <1>12, <2>2 DEF Seen
    <3>2. \A t \in Sessions \ {s} : ~Holds(t, "governance")'
      BY <1>8, <1>12, <2>2
    <3> QED  BY <1>5, <1>6, <2>2, <3>1, <3>2 DEF GovernanceMoves
  <2>3. CASE row # "governance"
    BY <1>5, <1>6, <1>8, <2>1, <2>3 DEF GovernanceMoves, Rows
  <2> QED  BY <2>2, <2>3
<1>16. Purpose(s)' /\ Reached(s)'
  <2>1. \A r \in {"individual", "governance", "binding"} : Holds(s, r) => Holds(s, r)'
    BY <1>8, <1>9 DEF Rows
  <2>2. ASSUME NEW p \in Locking(call[s]), Head(todo[s]) = p[1] PROVE Holds(s, p[2])'
    BY <1>4, <1>9, <2>2, LockingRows
  <2> QED  BY <1>2, <2>1, <2>2, OwnTail
<1>17. SawSound(s)'
  <2> SUFFICES ASSUME call[s] = "emergency_block", ~Has(todo'[s], {"look"})
               PROVE  /\ saw[s] \in Governances
                      /\ saw[s].revision <= table["governance"].revision
                      /\ saw[s].revision = table["governance"].revision => saw[s] = table["governance"]
                      /\ Holds(s, "governance")' => saw[s].revision = table["governance"].revision
    BY <1>5 DEF SawSound
  <2>1. st # "look"
    BY DEF Writes
  <2>2. ~Has(todo[s], {"look"})
    BY <1>4, <2>1, HasTail
  <2>3. SawSound(s)
    BY <1>1 DEF Evident
  <2>4. CASE row = "governance"
    <3>1. Seen(s, "governance").revision = saw[s].revision
      BY <1>4, <2>4 DEF Accepted, At
    <3>2. Seen(s, "governance") = table["governance"]
      BY <1>12, <2>4 DEF Seen
    <3> QED  BY <2>2, <2>3, <3>1, <3>2 DEF SawSound
  <2>5. CASE row # "governance"
    BY <1>8, <2>2, <2>3, <2>5 DEF SawSound, Rows
  <2> QED  BY <2>4, <2>5
<1>18. Changes(s)'
  <2> SUFFICES ASSUME NEW f \in Plain, Value(View(s)', f) # Value(table, f)
               PROVE  f \in Told(call[s]) \/ call[s] = "individual.born"
    BY <1>5 DEF Changes
  <2>1. Changes(s)
    BY <1>1 DEF Evident
  <2>2. Home(f) \in Rows
    BY HomeRow
  <2>3. View(s)[Home(f)] = Seen(s, Home(f)) /\ View(s)'[Home(f)] = Seen(s, Home(f))'
    BY <2>2 DEF View
  <2>4. CASE Seen(s, Home(f))' = Seen(s, Home(f))
    <3>1. Value(View(s)', f) = Value(View(s), f)
      BY <2>3, <2>4, ValueHome
    <3> QED  BY <2>1, <3>1 DEF Changes
  <2>5. CASE Home(f) = row /\ value # Seen(s, row)
    <3>1. CASE f = "explore" /\ value.explore = Seen(s, row).explore
      <4>1. row = "governance"
        BY <2>5, <3>1 DEF Home
      <4>2. Value(View(s)', f) = Value(View(s), f)
        BY <1>9, <2>3, <2>5, <3>1, <4>1 DEF Value
      <4> QED  BY <2>1, <4>2 DEF Changes
    <3>2. CASE ~(f = "explore" /\ value.explore = Seen(s, row).explore)
      BY <2>5, <3>2
    <3> QED  BY <3>1, <3>2
  <2> QED  BY <1>8, <1>10, <2>2, <2>4, <2>5
<1>19. EventDue(s)'
  <2>1. st # "event"
    BY DEF Writes
  <2> QED  BY <1>2, <1>4, <1>5, <2>1, DueTail
<1>20. EntrySound(s)'
  <2> SUFFICES ASSUME entry[s] # NoEntry PROVE EntrySound(s)'
    BY <1>5 DEF EntrySound
  <2>1. EntrySound(s)
    BY <1>1 DEF Evident
  <2>2. 1 \in DOMAIN todo[s] /\ Head(todo[s]) = todo[s][1]
    BY <1>4
  <2>3. row \in {"wake", "content"}
    BY <1>4, <2>1, <2>2 DEF EntrySound, Writes
  <2>4. \A i \in DOMAIN todo'[s] : todo'[s][i] \in {"wake", "redact"}
    <3>1. \A i \in DOMAIN todo'[s] : i + 1 \in DOMAIN todo[s] /\ todo'[s][i] = todo[s][i + 1]
      BY <1>4
    <3> QED  BY <2>1, <3>1 DEF EntrySound
  <2>5. Born(s)'
    BY <1>8, <2>1, <2>3 DEF EntrySound, Born, Rows
  <2>6. ASSUME NEW f \in Exact(entry[s])
        PROVE  Holds(s, Home(f))' /\ Value(View(s)', f) = Value(View(s), f)
    <3>1. f \in Plain \cup {"blocked", "governance"}
      BY <2>1, ToldFields DEF EntrySound, Exact
    <3>2. Home(f) \in Rows \ {row}
      BY <2>3, <3>1, HomeRow
    <3>3. Holds(s, Home(f))' /\ Seen(s, Home(f))' = Seen(s, Home(f))
      BY <1>8, <2>1, <3>2 DEF EntrySound
    <3>4. View(s)[Home(f)] = Seen(s, Home(f)) /\ View(s)'[Home(f)] = Seen(s, Home(f))'
      BY <3>2 DEF View
    <3> QED  BY <3>1, <3>3, <3>4, ValueHome
  <2> QED  BY <1>5, <2>1, <2>4, <2>5, <2>6 DEF EntrySound
<1>21. Evident(s)'
  BY <1>16, <1>17, <1>18, <1>19, <1>20 DEF Evident
<1>22. \A t \in Sessions \ {s} : Evident(t)'
  BY <1>7, OthersKeep
<1> QED  BY <1>3, <1>11, <1>13, <1>14, <1>15, <1>21, <1>22 DEF AuditInvariant

\* A statement that locks nothing leaves what is locked, and what changes.
LEMMA ReadTells ==
    ASSUME AuditInvariant, NEW s \in Sessions, Advances(s), Apart(s), draft' = draft,
           Head(todo[s]) \in {"look", "mention", "event"}
    PROVE  /\ LockInvariant' /\ RowTypes' /\ Lives' /\ GovernanceAlone' /\ GovernanceMoves'
           /\ Purpose(s)' /\ Reached(s)' /\ Changes(s)'
           /\ \A t \in Sessions \ {s} : Evident(t)'
           /\ \A t \in Sessions, row \in Rows : /\ Holds(t, row)' <=> Holds(t, row)
                                                /\ Seen(t, row)' = Seen(t, row)
           /\ View(s)' = View(s)
<1>1. table' = table /\ log' = log /\ call' = call
  BY DEF Apart, Advances, Steps
<1>2. LockInvariant'
  BY AdvanceKeeps DEF AuditInvariant
<1>3. \A t \in Sessions, row \in Rows : /\ Holds(t, row)' <=> Holds(t, row)
                                        /\ Seen(t, row)' = Seen(t, row)
  BY <1>1 DEF Holds, Seen
<1>4. View(s)' = View(s)
  BY <1>3 DEF View
<1>5. RowTypes'
  BY <1>1 DEF RowTypes, Apart, AuditInvariant
<1>6. Lives'
  BY <1>1, <1>3 DEF Lives, AuditInvariant, Rows
<1>7. GovernanceAlone' /\ GovernanceMoves'
  BY <1>1, <1>3 DEF GovernanceAlone, GovernanceMoves, AuditInvariant, Rows
<1>8. \A p \in Locking(call[s]) : Head(todo[s]) # p[1]
  BY DEF Locking
<1>9. Purpose(s)' /\ Reached(s)'
  BY <1>3, <1>8, OwnTail DEF Rows
<1>10. Changes(s)'
  BY <1>1, <1>4 DEF AuditInvariant, Evident, Changes
<1>11. \A t \in Sessions \ {s} : Evident(t)'
  BY OthersKeep
<1> QED  BY <1>2, <1>3, <1>4, <1>5, <1>6, <1>7, <1>9, <1>10, <1>11

LEMMA LookTells ==
    ASSUME AuditInvariant, NEW s \in Sessions, Look(s)
    PROVE  AuditInvariant'
<1>1. LockInvariant /\ RowTypes /\ Evident(s)
  BY DEF AuditInvariant
<1>2. /\ todo[s] # <<>> /\ Head(todo[s]) = "look" /\ Ready(s, "look") /\ Proceed(s)
      /\ UNCHANGED <<table, log, draft, sharing, call, entry>>
      /\ saw' = [saw EXCEPT ![s] = Seen(s, "governance")]
  BY DEF Look, Ready, At
<1>3. Advances(s)
  BY <1>1, <1>2, ReadAdvances
<1>4. Apart(s)
  BY <1>1, <1>2 DEF Apart, RowTypes, Proceed, LockInvariant, Types
<1>5. /\ LockInvariant' /\ RowTypes' /\ Lives' /\ GovernanceAlone' /\ GovernanceMoves'
      /\ Purpose(s)' /\ Reached(s)' /\ Changes(s)'
      /\ \A t \in Sessions \ {s} : Evident(t)'
      /\ \A row \in Rows : /\ Holds(s, row)' <=> Holds(s, row)
                           /\ Seen(s, row)' = Seen(s, row)
      /\ View(s)' = View(s)
  BY <1>2, <1>3, <1>4, ReadTells
<1>6. EventDue(s)'
  BY <1>2, <1>3, DueTail
<1>7. SawSound(s)'
  <2>1. ~Holds(s, "governance")
    BY <1>1, <1>2, FirstLock
  <2>2. saw'[s] = table["governance"]
    BY <1>1, <1>2, <2>1 DEF Seen, RowTypes
  <2>3. table["governance"] \in Governances /\ table' = table
    BY <1>1, <1>2 DEF RowTypes
  <2>4. table["governance"].revision \in Nat
    BY <2>3 DEF Governances
  <2> QED  BY <2>2, <2>3, <2>4 DEF SawSound
<1>8. entry[s] = NoEntry
  <2>1. 1 \in DOMAIN todo[s] /\ todo[s][1] = "look"
    BY <1>1, <1>2 DEF LockInvariant, Types
  <2> QED  BY <1>1, <2>1 DEF Evident, EntrySound
<1>9. EntrySound(s)'
  BY <1>2, <1>8 DEF EntrySound
<1>10. Evident(s)'
  BY <1>5, <1>6, <1>7, <1>9 DEF Evident
<1> QED  BY <1>5, <1>10 DEF AuditInvariant

LEMMA MentionTells ==
    ASSUME AuditInvariant, NEW s \in Sessions, Mention(s)
    PROVE  AuditInvariant'
<1>1. LockInvariant /\ RowTypes /\ Evident(s)
  BY DEF AuditInvariant
<1>2. /\ todo[s] # <<>> /\ Head(todo[s]) = "mention" /\ Ready(s, "mention") /\ Proceed(s)
      /\ UNCHANGED <<table, log, draft, call, saw, entry>>
      /\ sharing' = sharing \cup {s}
  BY DEF Mention, Ready, At
<1>3. Advances(s)
  BY <1>1, <1>2, ReadAdvances
<1>4. Apart(s)
  BY <1>1, <1>2 DEF Apart, RowTypes, Proceed, LockInvariant, Types
<1>5. /\ LockInvariant' /\ RowTypes' /\ Lives' /\ GovernanceAlone' /\ GovernanceMoves'
      /\ Purpose(s)' /\ Reached(s)' /\ Changes(s)'
      /\ \A t \in Sessions \ {s} : Evident(t)'
      /\ \A row \in Rows : /\ Holds(s, row)' <=> Holds(s, row)
                           /\ Seen(s, row)' = Seen(s, row)
      /\ View(s)' = View(s)
  BY <1>2, <1>3, <1>4, ReadTells
<1>6. EventDue(s)'
  BY <1>2, <1>3, DueTail
<1>7. SawSound(s)'
  <2>1. todo[s] \in Seq(Statements) /\ todo'[s] = Tail(todo[s])
    BY <1>1, <1>2 DEF Proceed, LockInvariant, Types
  <2>2. Has(todo[s], {"look"}) => Has(todo'[s], {"look"})
    BY <1>2, <2>1, HasTail
  <2> QED  BY <1>1, <1>2, <1>5, <2>2 DEF Evident, SawSound, Rows
<1>8. entry[s] = NoEntry
  <2>1. 1 \in DOMAIN todo[s] /\ todo[s][1] = "mention"
    BY <1>1, <1>2 DEF LockInvariant, Types
  <2> QED  BY <1>1, <2>1 DEF Evident, EntrySound
<1>9. EntrySound(s)'
  BY <1>2, <1>8 DEF EntrySound
<1>10. Evident(s)'
  BY <1>5, <1>6, <1>7, <1>9 DEF Evident
<1> QED  BY <1>5, <1>10 DEF AuditInvariant

\* What an event says when it is inserted is so: what it tells of is locked.
LEMMA EventTells ==
    ASSUME AuditInvariant, NEW s \in Sessions, AppendEvent(s)
    PROVE  AuditInvariant'
<1> DEFINE told == IF call[s] \in AdminCalls THEN Told(call[s]) ELSE {}
           e    == [seq |-> seq + 1, op |-> call[s], by |-> Subject[s],
                    before |-> [f \in told |-> Before(s, f)],
                    after |-> [f \in Told(call[s]) |-> After(s, f)]]
<1>1. LockInvariant /\ RowTypes /\ Evident(s)
  BY DEF AuditInvariant
<1>2. /\ todo[s] # <<>> /\ Head(todo[s]) = "event" /\ Ready(s, "event") /\ Proceed(s)
      /\ UNCHANGED <<table, log, draft, call, saw>>
      /\ sharing' = sharing \cup {s}
      /\ entry' = [entry EXCEPT ![s] = e]
  BY DEF AppendEvent, Ready, At
<1>3. Advances(s)
  BY <1>1, <1>2, ReadAdvances
<1>4. Apart(s)
  BY <1>1, <1>2 DEF Apart, RowTypes, Proceed, LockInvariant, Types
<1>5. /\ LockInvariant' /\ RowTypes' /\ Lives' /\ GovernanceAlone' /\ GovernanceMoves'
      /\ Purpose(s)' /\ Reached(s)' /\ Changes(s)'
      /\ \A t \in Sessions \ {s} : Evident(t)'
      /\ \A row \in Rows : /\ Holds(s, row)' <=> Holds(s, row)
                           /\ Seen(s, row)' = Seen(s, row)
      /\ View(s)' = View(s)
  BY <1>2, <1>3, <1>4, ReadTells
<1>6. todo[s] \in Seq(Statements) /\ Ordered(todo[s]) /\ todo'[s] = Tail(todo[s]) /\ Alone(s)
  BY <1>1, <1>2 DEF Proceed, LockInvariant, Types, SessionInvariant
<1>7. entry'[s] = e /\ e # NoEntry
  <2>1. entry'[s] = e
    BY <1>1, <1>2 DEF RowTypes
  <2>2. "seq" \in DOMAIN e /\ "seq" \notin DOMAIN NoEntry
    BY DEF NoEntry
  <2> QED  BY <2>1, <2>2
<1>8. EventDue(s)'
  BY <1>7 DEF EventDue
<1>9. SawSound(s)'
  <2>1. Has(todo[s], {"look"}) => Has(todo'[s], {"look"})
    BY <1>2, <1>6, HasTail
  <2> QED  BY <1>1, <1>2, <1>5, <2>1 DEF Evident, SawSound, Rows
\* What is left comes after the event.
<1>10. \A S : S \cap {"wake", "unblock", "redact"} = {} /\ S \subseteq Statements =>
              (Has(todo[s], S) => "event" \in S)
  <2> SUFFICES ASSUME NEW S, S \cap {"wake", "unblock", "redact"} = {}, S \subseteq Statements,
                      Has(todo[s], S), "event" \notin S
               PROVE  FALSE
    OBVIOUS
  <2>1. Has(Tail(todo[s]), S)
    BY <1>2, <1>6, HasTail
  <2>2. PICK i \in DOMAIN Tail(todo[s]) : Tail(todo[s])[i] \in S
    BY <2>1 DEF Has
  <2>3. 7 < Rank(Tail(todo[s])[i])
    BY <1>2, <1>6, Tails, Ranks
  <2>4. Rank(Tail(todo[s])[i]) \in 0 .. 7
    BY <2>2 DEF Rank, Statements, Firsts, Guarded
  <2> QED  BY <2>3, <2>4
<1>11. \A i \in DOMAIN todo'[s] : todo'[s][i] \in {"wake", "redact"}
  <2> SUFFICES ASSUME NEW i \in DOMAIN Tail(todo[s])
               PROVE  Tail(todo[s])[i] \in {"wake", "redact"}
    BY <1>6
  <2>1. 7 < Rank(Tail(todo[s])[i]) /\ Tail(todo[s])[i] \in Statements
    BY <1>2, <1>6, Tails, Ranks
  <2>2. Tail(todo[s])[i] \in {"wake", "redact", "unblock"}
    BY <2>1 DEF Rank, Statements, Firsts, Guarded
  <2>3. Tail(todo[s])[i] # "unblock"
    <3> SUFFICES ASSUME Tail(todo[s])[i] = "unblock" PROVE FALSE
      OBVIOUS
    <3>1. Has(Tail(todo[s]), {"unblock"})
      BY DEF Has
    <3>2. Has(todo[s], {"unblock"})
      BY <1>2, <1>6, <3>1, HasTail
    <3>3. Tail(todo[s]) = <<>>
      BY <1>2, <1>6, <3>2, Tails DEF Alone
    <3> QED  BY <3>3
  <2> QED  BY <2>2, <2>3
\* What the call tells of is locked.
<1>12. \A p \in Locking(call[s]) : Holds(s, p[2])
  <2> TAKE p \in Locking(call[s])
  <2>1. p[1] \in {"individual", "block", "explore", "binding", "born"}
    BY DEF Locking
  <2>2. ~Has(todo[s], {p[1]})
    BY <1>10, <2>1 DEF Statements, Firsts, Guarded
  <2> QED  BY <1>1, <2>2 DEF Evident, Reached
<1>13. ASSUME NEW f \in Exact(e)
       PROVE  /\ f \in Plain \cup {"blocked", "governance"}
              /\ Holds(s, Home(f))
              /\ e.before[f] = Value(table, f)
              /\ e.after[f] = Value(View(s), f)
  <2>1. /\ call[s] \in AdminCalls /\ f \in Told(call[s])
        /\ f = "blocked" => call[s] \notin LifecycleCalls
        /\ e.before[f] = Before(s, f) /\ e.after[f] = After(s, f)
    BY DEF Exact
  <2>2. f \in Plain \cup {"blocked", "governance"}
    BY <2>1, ToldFields
  <2>3. Holds(s, Home(f))
    <3> USE CallNames DEF PolicyCalls, BindingCalls
    <3>1. CASE call[s] \in LifecycleCalls
      <4>1. <<"individual", "individual">> \in Locking(call[s])
        BY <3>1 DEF Locking
      <4>2. f = "status"
        BY <2>1, <3>1 DEF Told
      <4>3. Holds(s, "individual")
        BY <1>12, <4>1
      <4> QED  BY <4>2, <4>3 DEF Home
    <3>2. CASE call[s] = "emergency_block"
      <4>1. /\ <<"individual", "individual">> \in Locking(call[s])
            /\ <<"block", "governance">> \in Locking(call[s])
        BY <3>2 DEF Locking
      <4>2. f \in {"status", "blocked"}
        BY <2>1, <3>2 DEF Told
      <4>3. Holds(s, "individual") /\ Holds(s, "governance")
        BY <1>12, <4>1
      <4> QED  BY <4>2, <4>3 DEF Home
    <3>3. CASE call[s] \in PolicyCalls
      <4>1. <<"explore", "governance">> \in Locking(call[s])
        BY <3>3 DEF Locking
      <4>2. f \in {"explore", "governance"}
        BY <2>1, <3>3 DEF Told
      <4>3. Holds(s, "governance")
        BY <1>12, <4>1
      <4> QED  BY <4>2, <4>3 DEF Home
    <3>4. CASE call[s] \in BindingCalls
      <4>1. <<"binding", "binding">> \in Locking(call[s])
        BY <3>4 DEF Locking
      <4>2. f = "binding"
        BY <2>1, <3>4 DEF Told
      <4>3. Holds(s, "binding")
        BY <1>12, <4>1
      <4> QED  BY <4>2, <4>3 DEF Home
    <3> QED  BY <2>1, <3>1, <3>2, <3>3, <3>4 DEF AdminCalls
  <2>4. e.after[f] = Value(View(s), f)
    BY <2>1 DEF After, View
  <2>5. e.before[f] = Value(table, f)
    <3>1. CASE f # "blocked"
      BY <2>1, <3>1 DEF Before
    <3>2. CASE f = "blocked"
      <4>1. call[s] = "emergency_block"
        BY <2>1, <3>2, CallNames DEF Told, AdminCalls, PolicyCalls, BindingCalls
      <4>2. ~Has(todo[s], {"look"})
        BY <1>10 DEF Statements, Firsts, Guarded
      <4>3. Holds(s, "governance")
        BY <2>3, <3>2 DEF Home
      <4>4. saw[s] = table["governance"]
        BY <1>1, <4>1, <4>2, <4>3 DEF Evident, SawSound
      <4> QED  BY <2>1, <3>2, <4>4 DEF Before, Value
    <3> QED  BY <3>1, <3>2
  <2> HIDE DEF e
  <2> QED  BY <2>2, <2>3, <2>4, <2>5
<1>14. /\ e.op = call[s] /\ DOMAIN e.after = Told(call[s]) /\ DOMAIN e.before = told
  OBVIOUS
<1>15. Born(s) /\ call[s] # NoCall
  BY <1>1, <1>2 DEF Ready, Accepted, At, LockInvariant, SessionInvariant, Resting
<1>16. EntrySound(s)'
  <2>1. Born(s)'
    BY <1>5, <1>15 DEF Born, Rows
  <2>2. ASSUME NEW f \in Exact(e)
        PROVE  /\ Holds(s, Home(f))'
               /\ e.before[f] = Value(table', f) /\ e.after[f] = Value(View(s)', f)
    <3>1. Home(f) \in Rows
      BY <1>13, HomeRow
    <3> HIDE DEF e
    <3> QED  BY <1>2, <1>5, <1>13, <3>1
  <2> HIDE DEF e
  <2> QED  BY <1>2, <1>7, <1>11, <1>14, <1>15, <2>1, <2>2 DEF EntrySound
<1>17. Evident(s)'
  BY <1>5, <1>8, <1>9, <1>16 DEF Evident
<1> QED  BY <1>5, <1>17 DEF AuditInvariant

\* A configuration that is the active one already is not revised.
LEMMA StopTells ==
    ASSUME AuditInvariant, NEW s \in Sessions, Ready(s, "revise"),
           todo' = [todo EXCEPT ![s] = <<>>],
           UNCHANGED <<table, log, draft, sharing, call, saw, entry>>
    PROVE  AuditInvariant'
<1>1. LockInvariant /\ RowTypes /\ Evident(s)
  BY DEF AuditInvariant
<1>2. LockInvariant'
  BY <1>1, StopKeeps
<1>3. /\ todo[s] \in Seq(Statements) /\ todo[s] # <<>> /\ Head(todo[s]) = "revise"
      /\ todo'[s] = <<>> /\ \A t \in Sessions \ {s} : todo'[t] = todo[t]
  BY <1>1 DEF Ready, At, LockInvariant, Types
<1>4. Apart(s)
  BY <1>1, <1>3 DEF Apart, RowTypes
<1>5. \A t, row : (Holds(t, row)' <=> Holds(t, row)) /\ Seen(t, row)' = Seen(t, row)
  BY DEF Holds, Seen
<1>6. View(s)' = View(s)
  BY <1>5 DEF View
<1>7. RowTypes' /\ Lives' /\ GovernanceAlone' /\ GovernanceMoves'
  BY <1>5 DEF AuditInvariant, RowTypes, Lives, GovernanceAlone, GovernanceMoves
<1>8. \A S : ~Has(todo'[s], S)
  BY <1>3 DEF Has
<1>9. call[s] = "config.changed"
  <2>1. Has(todo[s], {"revise"})
    BY <1>3, HasTail
  <2> QED  BY <1>1, <2>1 DEF Evident, Purpose
<1>10. ~Holds(s, "revisions")
  <2>1. RowRank("revisions") = 4 /\ Rank("revise") = 4
    BY DEF RowRank, Rank, Firsts
  <2> QED  BY <1>1, <1>3, <2>1 DEF LockInvariant, SessionInvariant, Behind, Rows
<1>11. Purpose(s)'
  BY <1>8, <1>9 DEF Purpose, IngesterCalls
<1>12. Reached(s)'
  <2>1. Locking(call[s]) = {}
    BY <1>9, CallNames DEF Locking, PolicyCalls, BindingCalls
  <2> QED  BY <2>1 DEF Reached
<1>13. SawSound(s)' /\ EventDue(s)' /\ Changes(s)'
  BY <1>1, <1>3, <1>5, <1>6, <1>9, <1>10 DEF SawSound, EventDue, Changes, Evident
<1>14. EntrySound(s)'
  <2>1. 1 \in DOMAIN todo[s] /\ todo[s][1] = "revise"
    BY <1>3
  <2>2. entry[s] = NoEntry
    BY <1>1, <2>1 DEF Evident, EntrySound
  <2> QED  BY <2>2 DEF EntrySound
<1>15. Evident(s)'
  BY <1>11, <1>12, <1>13, <1>14 DEF Evident
<1>16. \A t \in Sessions \ {s} : Evident(t)'
  BY <1>4, OthersKeep
<1> QED  BY <1>2, <1>7, <1>15, <1>16 DEF AuditInvariant

LEMMA FoundAdvances ==
    ASSUME LockInvariant, NEW s \in Sessions, Found(s)
    PROVE  Advances(s)
<1>1. PICK who \in Subjects, explore \in BOOLEAN :
      draft' = [draft EXCEPT ![s]["governance"] = [blocked |-> TRUE, explore |-> explore, revision |-> 1],
                             ![s]["principal"] = who,
                             ![s]["revisions"] = <<want[s]>>]
  BY DEF Found
<1>2. todo[s] # <<>> /\ Head(todo[s]) = "found" /\ Blockers(s) = {} /\ Accepted(s)
  BY DEF Found, Ready, At
<1>3. /\ DOMAIN draft' = Sessions /\ DOMAIN draft'[s] = Rows
      /\ \A t \in Sessions \ {s} : draft'[t] = draft[t]
      /\ \A row \in Rows \ {"governance", "principal", "revisions"} :
             draft'[s][row] = draft[s][row]
  BY <1>1 DEF LockInvariant, Types
<1>4. draft'[s]["individual"] = draft[s]["individual"]
  BY <1>3 DEF Rows
<1>5. \A row \in Rows \ Writes(Head(todo[s])) : draft'[s][row] = draft[s][row]
  BY <1>2, <1>3 DEF Writes, Firsts
<1>6. Head(todo[s]) \in Firsts \/ Holds(s, "individual") => draft'[s]["individual"] # Unlocked
  BY <1>2, <1>4 DEF Firsts, Holds
<1>7. sharing' = sharing \cup IF Head(todo[s]) \in {"event", "mention"} THEN {s} ELSE {}
  BY <1>2 DEF Found
<1>8. Steps(s) /\ Proceed(s)
  BY <1>3, <1>4 DEF Found, Steps, LockInvariant, Types
<1> QED  BY <1>2, <1>5, <1>6, <1>7, <1>8 DEF Advances

\* What a birth founds was not there, and nobody else has found it.
LEMMA FoundTells ==
    ASSUME AuditInvariant, NEW s \in Sessions, Found(s), Advances(s)
    PROVE  AuditInvariant'
<1>1. LockInvariant /\ RowTypes /\ Lives /\ Evident(s)
  BY DEF AuditInvariant
<1>2. PICK who \in Subjects, explore \in BOOLEAN :
          draft' = [draft EXCEPT ![s]["governance"] = [blocked |-> TRUE, explore |-> explore, revision |-> 1],
                                 ![s]["principal"] = who,
                                 ![s]["revisions"] = <<want[s]>>]
  BY DEF Found
<1> DEFINE g == [blocked |-> TRUE, explore |-> explore, revision |-> 1]
<1>3. /\ todo[s] \in Seq(Statements) /\ todo[s] # <<>> /\ Head(todo[s]) = "found"
      /\ UNCHANGED <<table, log, call, saw, entry>> /\ Proceed(s)
  BY <1>1 DEF Found, Ready, At, LockInvariant, Types
<1>4. g \in Governances /\ g # Unlocked /\ g.revision = 1
  <2>1. g \in Governances
    BY DEF Governances
  <2> QED  BY <2>1, UnlockedAssumption
<1>5. /\ draft'[s]["governance"] = g
      /\ draft'[s]["individual"] = draft[s]["individual"]
      /\ draft'[s]["binding"] = draft[s]["binding"]
      /\ \A t \in Sessions \ {s} : draft'[t] = draft[t] /\ todo'[t] = todo[t]
  BY <1>1, <1>2, <1>3 DEF LockInvariant, Types, Proceed, Rows
<1>6. LockInvariant'
  BY <1>1, AdvanceKeeps
<1>7. Apart(s)
  BY <1>1, <1>3, <1>5 DEF Apart, RowTypes
<1>8. call[s] = "individual.born"
  <2>1. Has(todo[s], {"born", "found"})
    BY <1>3, HasTail
  <2> QED  BY <1>1, <2>1 DEF Evident, Purpose
<1>9. /\ Holds(s, "individual")
      /\ table["individual"].status = "unborn" /\ table["governance"].revision = 0
  <2>1. Holds(s, "individual")
    BY <1>1, <1>3, AtStatement DEF Guarded
  <2> QED  BY <1>1, <1>8, <2>1 DEF Lives
<1>10. \A t \in Sessions \ {s} : ~Holds(t, "governance")
  BY <1>1, <1>9 DEF LockInvariant, Exclusive, Lives
<1>11. /\ Holds(s, "governance")'
       /\ Holds(s, "individual")' /\ (Holds(s, "binding")' <=> Holds(s, "binding"))
       /\ \A t \in Sessions \ {s}, row \in Rows : Holds(t, row)' <=> Holds(t, row)
  BY <1>4, <1>5, <1>9 DEF Holds, Rows
<1>12. RowTypes'
  BY <1>1, <1>3, <1>4, <1>5 DEF RowTypes
<1>13. Lives'
  BY <1>1, <1>3, <1>5, <1>9, <1>11 DEF Lives, Rows
<1>14. GovernanceAlone' /\ GovernanceMoves'
  BY <1>3, <1>4, <1>5, <1>9, <1>10, <1>11 DEF GovernanceAlone, GovernanceMoves, Rows
<1>15. Purpose(s)' /\ Reached(s)'
  <2>1. \A p \in Locking(call[s]) : Head(todo[s]) # p[1]
    BY <1>3 DEF Locking
  <2> QED  BY <1>11, <2>1, OwnTail
<1>16. SawSound(s)' /\ Changes(s)'
  BY <1>3, <1>8 DEF SawSound, Changes
<1>17. EventDue(s)'
  BY <1>3, DueTail
<1>18. EntrySound(s)'
  <2>1. 1 \in DOMAIN todo[s] /\ todo[s][1] = "found"
    BY <1>3
  <2>2. entry[s] = NoEntry
    BY <1>1, <2>1 DEF Evident, EntrySound
  <2> QED  BY <1>3, <2>2 DEF EntrySound
<1>19. \A t \in Sessions \ {s} : Evident(t)'
  BY <1>7, OthersKeep
<1> QED  BY <1>6, <1>12, <1>13, <1>14, <1>15, <1>16, <1>17, <1>18, <1>19 DEF AuditInvariant, Evident

LEMMA BeginTells ==
    ASSUME AuditInvariant, NEW s \in Sessions, NEW w, NEW c \in Calls,
           c = "settle" => s = Runtime, c \in IngesterCalls => s = Ingester,
           Begins(s, c, w)
    PROVE  AuditInvariant'
<1>1. LockInvariant /\ RowTypes /\ Evident(s)
  BY DEF AuditInvariant
<1>2. LockInvariant'
  BY <1>1, BeginKeeps DEF Calls
<1>3. /\ todo'[s] = Script(c) /\ call'[s] = c /\ call[s] = NoCall
      /\ \A t \in Sessions \ {s} : todo'[t] = todo[t] /\ call'[t] = call[t]
      /\ UNCHANGED <<table, log, draft, saw, entry>>
  BY <1>1 DEF Begins, LockInvariant, Types
<1>4. Apart(s)
  BY <1>1, <1>3 DEF Apart, RowTypes
<1>5. \A t, row : (Holds(t, row)' <=> Holds(t, row)) /\ Seen(t, row)' = Seen(t, row)
  BY <1>3 DEF Holds, Seen
<1>6. \A row \in Rows : ~Holds(s, row) /\ Seen(s, row) = table[row]
  BY <1>1, <1>3 DEF LockInvariant, SessionInvariant, Resting, Seen
<1>7. RowTypes' /\ GovernanceAlone' /\ GovernanceMoves'
  BY <1>3, <1>5 DEF AuditInvariant, RowTypes, GovernanceAlone, GovernanceMoves
<1>8. Lives'
  BY <1>3, <1>5, <1>6 DEF AuditInvariant, Lives, Rows
<1>9. Purpose(s)'
  <2> HIDE DEF Calls
  <2> QED  BY <1>3, Parts DEF Purpose
<1>10. Reached(s)' /\ SawSound(s)' /\ EventDue(s)'
  BY <1>3, Parts DEF Reached, SawSound, EventDue
<1>11. Changes(s)'
  <2> SUFFICES ASSUME NEW f \in Plain PROVE Value(View(s)', f) = Value(table, f)
    BY <1>3 DEF Changes
  <2>1. Home(f) \in Rows
    BY HomeRow
  <2>2. View(s)'[Home(f)] = table[Home(f)]
    BY <1>5, <1>6, <2>1 DEF View
  <2> QED  BY <2>2, ValueHome
<1>12. EntrySound(s)'
  <2>1. entry[s] = NoEntry
    BY <1>1, <1>3 DEF Evident, EntrySound
  <2> QED  BY <1>3, <2>1 DEF EntrySound
<1>13. \A t \in Sessions \ {s} : Evident(t)'
  BY <1>4, OthersKeep
<1> QED  BY <1>2, <1>7, <1>8, <1>9, <1>10, <1>11, <1>12, <1>13 DEF AuditInvariant, Evident

-----------------------------------------------------------------------------
(* The end of a transaction *)

\* What a transaction leaves behind is what was there, or what it saw.
Leaves(s) == table' = table \/ table' = View(s)

\* Nobody else has locked a row it changes.
LEMMA EndKeepsRows ==
    ASSUME AuditInvariant, NEW s \in Sessions, Leaves(s), NEW t \in Sessions \ {s},
           NEW row \in Rows \ {"content"}, Holds(t, row)
    PROVE  table'[row] = table[row]
<1>1. ~Holds(s, row)
  BY RowsApart DEF AuditInvariant
<1> QED  BY <1>1 DEF Leaves, View, Seen

LEMMA EndTells ==
    ASSUME AuditInvariant, NEW s \in Sessions, Released(s), Leaves(s),
           \E S : log' \in Seq(S),
           log' # <<>> => log # <<>> \/ table'["individual"].status # "unborn"
    PROVE  AuditInvariant'
<1>1. LockInvariant /\ RowTypes /\ Lives /\ GovernanceMoves /\ \A t \in Sessions : Evident(t)
  BY DEF AuditInvariant
<1>2. /\ todo'[s] = <<>> /\ call'[s] = NoCall /\ entry'[s] = NoEntry
      /\ \A row \in Rows : draft'[s][row] = Unlocked
      /\ DOMAIN saw' = Sessions /\ DOMAIN entry' = Sessions
      /\ \A t \in Sessions \ {s} :
            /\ todo'[t] = todo[t] /\ draft'[t] = draft[t] /\ call'[t] = call[t]
            /\ saw'[t] = saw[t] /\ entry'[t] = entry[t]
  BY <1>1 DEF Released, LockInvariant, Types, RowTypes
<1>3. /\ \A row \in Rows : ~Holds(s, row)'
      /\ \A t \in Sessions \ {s}, row \in Rows : Holds(t, row)' <=> Holds(t, row)
  BY <1>2 DEF Holds
<1>4. \A t \in Sessions \ {s}, row \in Rows \ {"content"} :
          Holds(t, row) => table'[row] = table[row]
  BY EndKeepsRows
<1>5. /\ DOMAIN table' = Rows
      /\ table'["individual"] \in Individuals
      /\ table'["governance"] \in Governances /\ table'["binding"] \in Bindings
      /\ table["individual"].status # "unborn" => table'["individual"].status # "unborn"
      /\ table'["individual"].status = "unborn" =>
             /\ table["individual"].status = "unborn"
             /\ table'["governance"] = table["governance"]
  <2>1. CASE table' = table
    BY <1>1, <2>1 DEF RowTypes, LockInvariant, Types
  <2>2. CASE table' = View(s)
    <3>1. /\ table'["individual"] = Seen(s, "individual")
          /\ table'["governance"] = Seen(s, "governance")
          /\ table'["binding"] = Seen(s, "binding")
          /\ DOMAIN table' = Rows
      BY <2>2 DEF View, Rows
    <3>2. Holds(s, "individual") => Seen(s, "individual").status # "unborn"
      BY <1>1 DEF Lives, Seen
    <3>3. ~Holds(s, "individual") => Seen(s, "individual") = table["individual"]
      BY DEF Seen
    <3>4. table["individual"].status = "unborn" /\ ~Holds(s, "individual") =>
              Seen(s, "governance") = table["governance"]
      BY <1>1 DEF Lives, Seen
    <3>5. table["individual"].status # "unborn" => Seen(s, "individual").status # "unborn"
      BY <3>2, <3>3
    <3> QED  BY <3>1, <3>2, <3>3, <3>4, <3>5, GovernanceTypes
  <2> QED  BY <2>1, <2>2 DEF Leaves
<1>6. LockInvariant'
  BY <1>1, <1>5, ReleaseKeeps
<1>7. RowTypes'
  BY <1>1, <1>2, <1>5 DEF RowTypes, Rows
<1>8. Lives'
  <2>1. table'["individual"].status = "unborn" =>
            /\ table["individual"].status = "unborn"
            /\ table'["governance"] = table["governance"]
    BY <1>5
  <2>2. \A t \in Sessions \ {s} : Holds(t, "individual") => table'["individual"] = table["individual"]
    BY <1>4 DEF Rows
  <2> QED  BY <1>1, <1>2, <1>3, <1>5, <2>1, <2>2 DEF Lives, Rows
<1>9. GovernanceAlone'
  BY <1>3 DEF AuditInvariant, GovernanceAlone, Rows
<1>10. GovernanceMoves'
  BY <1>1, <1>2, <1>3, <1>4 DEF GovernanceMoves, Rows
<1>11. ASSUME NEW t \in Sessions \ {s} PROVE Evident(t)'
  <2>1. Evident(t)
    BY <1>1
  <2>2. Purpose(t)' /\ EventDue(t)'
    BY <1>2, <1>3, <2>1 DEF Evident, Purpose, EventDue, Rows
  <2>3. Reached(t)'
    <3> SUFFICES ASSUME NEW p \in Locking(call[t]) PROVE Has(todo[t], {p[1]}) \/ Holds(t, p[2])'
      BY <1>2 DEF Reached
    <3>1. p[2] \in Rows
      BY LockingRows DEF Rows
    <3> QED  BY <1>3, <2>1, <3>1 DEF Evident, Reached
  <2>4. SawSound(t)'
    <3> SUFFICES ASSUME call[t] = "emergency_block", ~Has(todo[t], {"look"})
                 PROVE  /\ saw[t] \in Governances
                        /\ saw[t].revision <= table'["governance"].revision
                        /\ saw[t].revision = table'["governance"].revision =>
                               saw[t] = table'["governance"]
                        /\ Holds(t, "governance")' => saw[t].revision = table'["governance"].revision
      BY <1>2 DEF SawSound
    <3>1. SawSound(t)
      BY <2>1 DEF Evident
    <3>2. CASE table'["governance"] = table["governance"]
      BY <1>3, <3>1, <3>2 DEF SawSound, Rows
    <3>3. CASE table'["governance"] # table["governance"]
      <4>1. ~Holds(t, "governance")'
        BY <1>3, <1>4, <3>3 DEF Rows
      <4>2. table'["governance"].revision > table["governance"].revision
        BY <1>1, <3>3 DEF Leaves, View, Seen, GovernanceMoves, Rows
      <4>3. /\ saw[t].revision \in Nat /\ table["governance"].revision \in Nat
            /\ table'["governance"].revision \in Nat
        BY <1>1, <1>5, <3>1 DEF SawSound, RowTypes, Governances
      <4> QED  BY <3>1, <4>1, <4>2, <4>3 DEF SawSound
    <3> QED  BY <3>2, <3>3
  <2>5. \A row \in Rows \ {"content"} :
            \/ Seen(t, row)' = Seen(t, row) /\ table'[row] = table[row]
            \/ ~Holds(t, row) /\ Seen(t, row)' = table'[row]
    BY <1>2, <1>3, <1>4 DEF Seen
  <2>6. Changes(t)'
    <3> SUFFICES ASSUME NEW f \in Plain, Value(View(t)', f) # Value(table', f)
                 PROVE  f \in Told(call[t]) \/ call[t] = "individual.born"
      BY <1>2 DEF Changes
    <3>1. Home(f) \in Rows \ {"content"}
      BY HomeRow
    <3>2. View(t)[Home(f)] = Seen(t, Home(f)) /\ View(t)'[Home(f)] = Seen(t, Home(f))'
      BY <3>1 DEF View
    <3>3. CASE Seen(t, Home(f))' = Seen(t, Home(f)) /\ table'[Home(f)] = table[Home(f)]
      <4>1. Value(View(t)', f) = Value(View(t), f) /\ Value(table', f) = Value(table, f)
        BY <3>2, <3>3, ValueHome
      <4> QED  BY <2>1, <4>1 DEF Evident, Changes
    <3>4. CASE Seen(t, Home(f))' = table'[Home(f)]
      BY <3>2, <3>4, ValueHome
    <3> QED  BY <2>5, <3>1, <3>3, <3>4
  <2>7. EntrySound(t)'
    <3> SUFFICES ASSUME entry[t] # NoEntry PROVE EntrySound(t)'
      BY <1>2 DEF EntrySound
    <3>1. EntrySound(t)
      BY <2>1 DEF Evident
    <3>2. Born(t)'
      <4>1. Seen(t, "individual").status # "unborn"
        BY <3>1 DEF EntrySound, Born
      <4>2. CASE Holds(t, "individual")
        BY <2>5, <4>1, <4>2 DEF Born, Rows
      <4>3. CASE ~Holds(t, "individual")
        BY <1>3, <1>5, <4>1, <4>3 DEF Born, Seen, Rows
      <4> QED  BY <4>2, <4>3
    <3>3. ASSUME NEW f \in Exact(entry[t])
          PROVE  /\ Holds(t, Home(f))' /\ Value(table', f) = Value(table, f)
                 /\ Value(View(t)', f) = Value(View(t), f)
      <4>1. f \in Plain \cup {"blocked", "governance"}
        BY <3>1, ToldFields DEF EntrySound, Exact
      <4>2. Home(f) \in Rows \ {"content"} /\ Holds(t, Home(f))
        BY <3>1, <4>1, HomeRow DEF EntrySound
      <4>3. /\ View(t)[Home(f)] = Seen(t, Home(f)) /\ View(t)'[Home(f)] = Seen(t, Home(f))'
        BY <4>2 DEF View
      <4>4. Seen(t, Home(f))' = Seen(t, Home(f)) /\ table'[Home(f)] = table[Home(f)]
        BY <2>5, <4>2
      <4>5. Value(table', f) = Value(table, f)
        BY <4>1, <4>4, ValueHome
      <4>6. Value(View(t)', f) = Value(View(t), f)
        BY <4>1, <4>3, <4>4, ValueHome
      <4> QED  BY <1>3, <4>2, <4>5, <4>6
    <3> QED  BY <1>2, <3>1, <3>2, <3>3 DEF EntrySound
  <2> QED  BY <2>1, <2>2, <2>3, <2>4, <2>6, <2>7 DEF Evident
<1>12. Evident(s)'
  <2>1. \A S : ~Has(todo'[s], S)
    BY <1>2 DEF Has
  <2>2. /\ NoCall \notin LifecycleCalls \cup {"emergency_block"} \cup PolicyCalls \cup BindingCalls
        /\ NoCall \notin {"individual.born", "config.changed"} \cup IngesterCalls
    BY CallAssumption DEF OperatorCalls, AdminCalls
  <2>3. Locking(NoCall) = {} /\ Told(NoCall) = {}
    BY <2>2 DEF Locking, Told
  <2>4. Purpose(s)' /\ Reached(s)' /\ SawSound(s)' /\ EventDue(s)' /\ EntrySound(s)'
    BY <1>2, <2>1, <2>2, <2>3 DEF Purpose, Reached, SawSound, EventDue, EntrySound
  <2>5. Changes(s)'
    <3> SUFFICES ASSUME NEW f \in Plain PROVE Value(View(s)', f) = Value(table', f)
      BY DEF Changes
    <3>1. Home(f) \in Rows
      BY HomeRow
    <3>2. View(s)'[Home(f)] = table'[Home(f)]
      BY <1>3, <3>1 DEF View, Seen
    <3> QED  BY <3>2, ValueHome
  <2> QED  BY <2>4, <2>5 DEF Evident
<1> QED  BY <1>6, <1>7, <1>8, <1>9, <1>10, <1>11, <1>12 DEF AuditInvariant

-----------------------------------------------------------------------------
(* Every step keeps it *)

LEMMA StatementTells ==
    ASSUME AuditInvariant, NEW s \in Sessions, Statement(s)
    PROVE  AuditInvariant'
<1>1. LockInvariant /\ RowTypes /\ Lives /\ Evident(s)
  BY DEF AuditInvariant
<1>2. Purpose(s)
  BY <1>1 DEF Evident
<1>3. \A st : Ready(s, st) => /\ todo[s] # <<>> /\ Head(todo[s]) = st /\ Accepted(s)
                              /\ todo[s] \in Seq(Statements) /\ Has(todo[s], {st})
  <2> SUFFICES ASSUME NEW st, Ready(s, st)
               PROVE  /\ todo[s] # <<>> /\ Head(todo[s]) = st /\ Accepted(s)
                      /\ todo[s] \in Seq(Statements) /\ Has(todo[s], {st})
    OBVIOUS
  <2>1. todo[s] # <<>> /\ Head(todo[s]) = st /\ Accepted(s) /\ todo[s] \in Seq(Statements)
    BY <1>1 DEF Ready, At, LockInvariant, Types
  <2> QED  BY <2>1, HasTail
<1>4. /\ Seen(s, "governance") \in Governances /\ Seen(s, "binding") \in Bindings
      /\ Seen(s, "individual") \in Individuals
  BY GovernanceTypes
<1> USE DEF Statements, Firsts, Guarded, Rows, Writes
<1>5. CASE Lock(s)
  <2>1. PICK st \in {"individual", "principal", "governance"} :
            Ready(s, st) /\ Write(s, st, Seen(s, st))
    BY <1>5 DEF Lock
  <2>2. st = "individual" => Seen(s, st).status # "unborn" /\ call[s] # "individual.born"
    BY <1>2, <1>3, <2>1 DEF Accepted, Born, At, Purpose
  <2>3. st = "governance" => call[s] # "emergency_block"
    <3>1. Has(todo[s], {st}) => (st = "governance" => Has(todo[s], {"governance", "unblock"}))
      BY DEF Has
    <3>2. "emergency_block" \in AdminCalls \ BindingCalls
      BY DEF AdminCalls, BindingCalls
    <3> QED  BY <1>2, <1>3, <2>1, <3>1, <3>2 DEF Purpose
  <2> QED  BY <1>4, <2>1, <2>2, <2>3, WriteTells
<1>6. CASE LockBinding(s)
  BY <1>4, <1>6, WriteTells DEF LockBinding
<1>7. CASE Look(s)
  BY <1>7, LookTells
<1>8. CASE SetStatus(s)
  <2>1. PICK status \in NextStatuses(s) :
            Write(s, "individual", [status |-> status,
                                    revision |-> Seen(s, "individual").revision + 1])
    BY <1>8 DEF SetStatus
  <2>2. status \in Statuses
    <3>1. \A t \in Transitions : t[3] \in Statuses
      BY DEF Transitions, Statuses
    <3> QED  BY <2>1, <3>1 DEF NextStatuses
  <2> DEFINE value == [status |-> status, revision |-> Seen(s, "individual").revision + 1]
  <2>3. value \in Individuals /\ value.status # "unborn"
    BY <1>4, <2>2 DEF Individuals, Statuses
  <2>4. Ready(s, "status")
    BY <1>8 DEF SetStatus
  <2>5. call[s] \in LifecycleCalls /\ call[s] # "individual.born"
    BY <1>2, <1>3, <2>4, CallNames DEF Purpose
  <2>6. \A f \in Plain : Home(f) = "individual" => f \in Told(call[s])
    <3>1. \A f \in Plain : Home(f) = "individual" => f = "status"
      BY DEF Plain, Home
    <3> QED  BY <2>5, <3>1, ToldBy
  <2>7. Write(s, "individual", value)
    BY <2>1
  <2> HIDE DEF value
  <2> QED  BY <2>3, <2>4, <2>5, <2>6, <2>7, WriteTells
<1>9. CASE UpdateGovernance(s)
  <2>1. PICK st \in {"block", "unblock"} :
            Ready(s, st) /\ Write(s, "governance", [Seen(s, "governance") EXCEPT
                                       !.blocked = (st = "block"), !.revision = @ + 1])
    BY <1>9 DEF UpdateGovernance
  <2> DEFINE value == [Seen(s, "governance") EXCEPT !.blocked = (st = "block"), !.revision = @ + 1]
  <2>2. /\ value \in Governances /\ value.revision > Seen(s, "governance").revision
        /\ value.explore = Seen(s, "governance").explore
    <3>1. PICK b \in BOOLEAN : b = (st = "block")
      BY Zenon
    <3>2. value = [Seen(s, "governance") EXCEPT !.blocked = b, !.revision = @ + 1]
      BY <3>1, Zenon
    <3> QED  BY <1>4, <3>2, Revised, Zenon
  <2>3. st = "unblock" => call[s] # "emergency_block"
    <3>1. Has(todo[s], {st}) => (st = "unblock" => Has(todo[s], {"governance", "unblock"}))
      BY DEF Has
    <3>2. "emergency_block" \in AdminCalls \ BindingCalls
      BY DEF AdminCalls, BindingCalls
    <3> QED  BY <1>2, <1>3, <2>1, <3>1, <3>2 DEF Purpose
  <2>4. \A f \in Plain : Home(f) = "governance" => f = "explore"
    BY DEF Plain, Home
  <2>5. Ready(s, st) /\ Write(s, "governance", value)
    BY <2>1
  <2> HIDE DEF value
  <2> QED  BY <2>2, <2>3, <2>4, <2>5, WriteTells
<1>10. CASE SetExploration(s)
  <2> DEFINE value == [Seen(s, "governance") EXCEPT !.explore = (call[s] = "enable_exploration"),
                                                    !.revision = @ + 1]
  <2>1. value \in Governances /\ value.revision > Seen(s, "governance").revision
    <3>1. PICK b \in BOOLEAN : b = (call[s] = "enable_exploration")
      BY Zenon
    <3>2. value = [Seen(s, "governance") EXCEPT !.explore = b, !.revision = @ + 1]
      BY <3>1, Zenon
    <3> QED  BY <1>4, <3>2, Revised, Zenon
  <2>2. Ready(s, "explore") /\ Write(s, "governance", value)
    BY <1>10 DEF SetExploration
  <2>3. call[s] \in PolicyCalls
    BY <1>2, <1>3, <2>2 DEF Purpose
  <2>4. call[s] # "emergency_block" /\ "explore" \in Told(call[s])
    BY <2>3, ToldBy DEF PolicyCalls
  <2>5. \A f \in Plain : Home(f) = "governance" => f = "explore"
    BY DEF Plain, Home
  <2> HIDE DEF value
  <2> QED  BY <2>1, <2>2, <2>4, <2>5, WriteTells
<1>11. CASE SetBinding(s)
  <2>1. PICK enabled \in IF call[s] = "connector.register" THEN BOOLEAN
                         ELSE {call[s] = "connector.enable"} :
            Write(s, "binding", [state |-> IF enabled THEN "enabled" ELSE "disabled",
                                 revision |-> Seen(s, "binding").revision + 1])
    BY <1>11 DEF SetBinding
  <2> DEFINE value == [state |-> IF enabled THEN "enabled" ELSE "disabled",
                       revision |-> Seen(s, "binding").revision + 1]
  <2>2. value \in Bindings
    BY <1>4 DEF Bindings
  <2>3. Ready(s, "binding") /\ s \in Operators /\ Write(s, "binding", value)
    BY <1>11, <2>1 DEF SetBinding
  <2>4. call[s] \in BindingCalls
    BY <1>2, <1>3, <2>3, SessionAssumption DEF Purpose
  <2>5. "binding" \in Told(call[s])
    BY <2>4, ToldBy
  <2>6. \A f \in Plain : Home(f) = "binding" => f = "binding"
    BY DEF Plain, Home
  <2> HIDE DEF value
  <2> QED  BY <2>2, <2>3, <2>5, <2>6, WriteTells
<1>12. CASE Revise(s)
  <2>1. Ready(s, "revise")
    BY <1>12 DEF Revise
  <2>2. CASE Active(Seen(s, "revisions")) = want[s]
    BY <1>12, <2>1, <2>2, StopTells DEF Revise
  <2>3. CASE Active(Seen(s, "revisions")) # want[s]
    <3> DEFINE value == Append(Seen(s, "revisions"), want[s])
    <3>1. Write(s, "revisions", value)
      BY <1>12, <2>3 DEF Revise
    <3>2. call[s] = "config.changed"
      BY <1>2, <1>3, <2>1 DEF Purpose
    <3>3. "config" \in Told(call[s])
      BY <3>2, ToldBy
    <3>4. \A f \in Plain : Home(f) = "revisions" => f = "config"
      BY DEF Plain, Home
    <3> HIDE DEF value
    <3> QED  BY <2>1, <3>1, <3>3, <3>4, WriteTells
  <2> QED  BY <2>2, <2>3
<1>13. CASE Bear(s)
  <2> DEFINE value == [status |-> "active", revision |-> 1]
  <2>1. value \in Individuals /\ value.status # "unborn"
    BY DEF Individuals, Statuses
  <2>2. Ready(s, "born") /\ Write(s, "individual", value)
    BY <1>13 DEF Bear
  <2>3. call[s] = "individual.born"
    <3>1. Has(todo[s], {"born"}) => Has(todo[s], {"born", "found"})
      BY DEF Has
    <3> QED  BY <1>2, <1>3, <2>2, <3>1 DEF Purpose
  <2>4. table["individual"].status = "unborn"
    <3>1. ~Holds(s, "individual")
      BY <1>1, <1>3, <2>2, AtStatement
    <3>2. ~Born(s)
      BY <1>3, <2>2 DEF Accepted, At
    <3> QED  BY <3>1, <3>2 DEF Born, Seen
  <2> HIDE DEF value
  <2> QED  BY <2>1, <2>2, <2>3, <2>4, WriteTells
<1>14. CASE Found(s)
  BY <1>1, <1>14, FoundAdvances, FoundTells
<1>15. CASE PostBootstrap(s)
  <2>1. \A f \in Plain : Home(f) # "wake"
    BY HomeRow
  <2> QED  BY <1>15, <2>1, WriteTells DEF PostBootstrap
<1>16. CASE Redact(s)
  <2>1. \A f \in Plain : Home(f) # "content"
    BY HomeRow
  <2> QED  BY <1>16, <2>1, WriteTells DEF Redact
<1>17. CASE Mention(s)
  BY <1>17, MentionTells
<1>18. CASE AppendEvent(s)
  BY <1>18, EventTells
<1> QED
  BY <1>5, <1>6, <1>7, <1>8, <1>9, <1>10, <1>11, <1>12, <1>13, <1>14, <1>15, <1>16, <1>17, <1>18
     DEF Statement

\* The log of a transaction that commits: an event of its own, if it has one.
LEMMA CommitTells ==
    ASSUME AuditInvariant, NEW s \in Sessions, Commit(s)
    PROVE  /\ AuditInvariant'
           /\ IF entry[s] = NoEntry THEN log' = log
              ELSE log' # log /\ log'[Len(log')] = entry[s]
<1>1. RowTypes /\ Lives /\ Evident(s)
  BY DEF AuditInvariant
<1>2. PICK S : log \in Seq(S)
  BY <1>1 DEF RowTypes
<1>3. /\ table' = View(s) /\ Released(s)
      /\ log' = IF entry[s] = NoEntry THEN log ELSE Append(log, entry[s])
  BY DEF Commit, View
<1>4. /\ log' \in Seq(S \cup {entry[s]})
      /\ entry[s] # NoEntry => log' # log /\ log'[Len(log')] = entry[s]
  <2>1. log \in Seq(S \cup {entry[s]})
    BY <1>2
  <2>2. CASE entry[s] = NoEntry
    BY <1>3, <2>1, <2>2
  <2>3. CASE entry[s] # NoEntry
    <3>1. Append(log, entry[s]) \in Seq(S \cup {entry[s]})
      BY <2>1
    <3>2. Len(Append(log, entry[s])) = Len(log) + 1 /\ Len(log) \in Nat
      BY <2>1
    <3>3. Append(log, entry[s])[Len(log) + 1] = entry[s]
      BY <2>1
    <3> QED  BY <1>3, <2>3, <3>1, <3>2, <3>3
  <2> QED  BY <2>2, <2>3
<1>5. log' # <<>> => log # <<>> \/ table'["individual"].status # "unborn"
  <2>1. entry[s] # NoEntry => table'["individual"].status # "unborn"
    BY <1>1, <1>3 DEF Evident, EntrySound, Born, View, Rows
  <2> QED  BY <1>3, <2>1
<1> QED  BY <1>3, <1>4, <1>5, EndTells DEF Leaves

LEMMA InitialAudit == Init => AuditInvariant
<1> SUFFICES ASSUME Init PROVE AuditInvariant
  OBVIOUS
<1>1. LockInvariant
  BY InitialLocks
<1>2. /\ table["individual"] = [status |-> "unborn", revision |-> 0]
      /\ table["governance"] = [blocked |-> TRUE, explore |-> FALSE, revision |-> 0]
      /\ table["binding"] = [state |-> "none", revision |-> 0]
      /\ DOMAIN table = Rows
      /\ \A s \in Sessions : /\ draft[s] = [row \in Rows |-> Unlocked] /\ todo[s] = <<>>
                             /\ call[s] = NoCall /\ entry[s] = NoEntry
      /\ log = <<>> /\ DOMAIN saw = Sessions /\ DOMAIN entry = Sessions
  BY DEF Init, Rows
<1>3. /\ \A s \in Sessions, row \in Rows : ~Holds(s, row) /\ Seen(s, row) = table[row]
      /\ \A s \in Sessions : \A S : ~Has(todo[s], S)
  BY <1>2 DEF Holds, Seen, Has
<1>4. RowTypes
  <2>1. table["governance"] \in Governances /\ table["binding"] \in Bindings
    BY <1>2 DEF Governances, Bindings
  <2>2. log \in Seq({})
    BY <1>2
  <2> QED  BY <1>2, <2>1, <2>2 DEF RowTypes, Rows
<1>5. Lives /\ GovernanceAlone /\ GovernanceMoves
  BY <1>2, <1>3 DEF Lives, GovernanceAlone, GovernanceMoves, Rows
<1>6. ASSUME NEW s \in Sessions PROVE Evident(s)
  <2>1. /\ NoCall \notin LifecycleCalls \cup {"emergency_block"} \cup PolicyCalls \cup BindingCalls
        /\ NoCall \notin {"individual.born", "config.changed"} \cup IngesterCalls
    BY CallAssumption DEF OperatorCalls, AdminCalls
  <2>2. Locking(NoCall) = {} /\ Told(NoCall) = {}
    BY <2>1 DEF Locking, Told
  <2>3. Purpose(s) /\ Reached(s) /\ SawSound(s) /\ EventDue(s) /\ EntrySound(s)
    BY <1>2, <1>3, <2>1, <2>2 DEF Purpose, Reached, SawSound, EventDue, EntrySound
  <2>4. Changes(s)
    <3> SUFFICES ASSUME NEW f \in Plain PROVE Value(View(s), f) = Value(table, f)
      BY DEF Changes
    <3>1. Home(f) \in Rows
      BY HomeRow
    <3>2. View(s)[Home(f)] = table[Home(f)]
      BY <1>3, <3>1 DEF View
    <3> QED  BY <3>2, ValueHome
  <2> QED  BY <2>3, <2>4 DEF Evident
<1> QED  BY <1>1, <1>4, <1>5, <1>6 DEF AuditInvariant

\* A step either commits or leaves what is committed as it is.
LEMMA NextAudit ==
    ASSUME AuditInvariant, Next
    PROVE  /\ AuditInvariant'
           /\ (\E s \in Sessions : Commit(s)) \/ (table' = table /\ log' = log)
<1>1. PICK s \in Sessions :
          BeginCall(s) \/ BeginWork(s) \/ Statement(s) \/ Commit(s) \/ Refuse(s) \/ Fail(s)
  BY DEF Next
<1>2. CASE BeginCall(s)
  <2>1. PICK c \in OperatorCalls, w \in Configs \cup {NoConfig} : Begins(s, c, w)
    BY <1>2 DEF BeginCall
  <2>2. c \notin {"settle"} \cup IngesterCalls
    BY CallNames DEF OperatorCalls, AdminCalls, PolicyCalls, BindingCalls, IngesterCalls
  <2> QED  BY <2>1, <2>2, BeginTells DEF Calls, Begins
<1>3. CASE BeginWork(s)
  <2>1. PICK c \in IF s = Runtime THEN RuntimeCalls ELSE IngesterCalls : Begins(s, c, NoConfig)
    BY <1>3 DEF BeginWork
  <2>2. c = "settle" => s = Runtime
    BY DEF IngesterCalls
  <2>3. c \in IngesterCalls => s = Ingester
    BY <1>3, <2>1 DEF BeginWork, RuntimeCalls, IngesterCalls
  <2> QED  BY <2>1, <2>2, <2>3, BeginTells DEF Calls, Begins
<1>4. CASE Statement(s)
  <2>1. AuditInvariant'
    BY <1>4, StatementTells
  <2>2. table' = table /\ log' = log
    BY <1>4 DEF Statement, Lock, LockBinding, Look, SetStatus, UpdateGovernance, SetExploration,
                SetBinding, Revise, Bear, Found, PostBootstrap, Redact, Mention, AppendEvent, Write
  <2> QED  BY <2>1, <2>2
<1>5. CASE Commit(s)
  BY <1>5, CommitTells
<1>6. CASE Refuse(s) \/ Fail(s)
  <2>1. Released(s) /\ table' = table /\ log' = log
    BY <1>6 DEF Refuse, Fail
  <2>2. \E S : log' \in Seq(S)
    BY <2>1 DEF AuditInvariant, RowTypes
  <2>3. AuditInvariant'
    BY <2>1, <2>2, EndTells DEF Leaves
  <2> QED  BY <2>1, <2>3
<1> QED  BY <1>1, <1>2, <1>3, <1>4, <1>5, <1>6

LEMMA StutterAudit == AuditInvariant /\ UNCHANGED vars => AuditInvariant'
<1> SUFFICES ASSUME AuditInvariant, UNCHANGED vars PROVE AuditInvariant'
  OBVIOUS
<1>1. /\ UNCHANGED <<table, log, draft, sharing, call, todo, saw, entry>>
  BY DEF vars, session
<1>2. LockInvariant'
  BY NextLocks DEF AuditInvariant
<1>3. RowTypes' /\ Lives' /\ GovernanceAlone' /\ GovernanceMoves'
  BY <1>1 DEF AuditInvariant, RowTypes, Lives, GovernanceAlone, GovernanceMoves, Holds
<1>4. ASSUME NEW s \in Sessions PROVE Evident(s)'
  <2>1. \A row : (Holds(s, row)' <=> Holds(s, row)) /\ Seen(s, row)' = Seen(s, row)
    BY <1>1 DEF Holds, Seen
  <2>2. View(s)' = View(s) /\ (Born(s)' <=> Born(s))
    BY <2>1 DEF View, Born
  <2>3. Evident(s)
    BY DEF AuditInvariant
  <2>4. Purpose(s)' /\ Reached(s)' /\ SawSound(s)'
    BY <1>1, <2>1, <2>3 DEF Evident, Purpose, Reached, SawSound
  <2>5. Changes(s)' /\ EventDue(s)' /\ EntrySound(s)'
    BY <1>1, <2>1, <2>2, <2>3 DEF Evident, Changes, EventDue, EntrySound
  <2> QED  BY <2>4, <2>5 DEF Evident
<1> QED  BY <1>2, <1>3, <1>4 DEF AuditInvariant

\* However calls overlap, what each is going to tell stays true until it commits
\* (db/unit_of_work.py, stores/evidence.py: one transaction for the change, its
\* event and its audit).
THEOREM EvidenceIsPrepared == Spec => []AuditInvariant
<1>1. AuditInvariant /\ [Next]_vars => AuditInvariant'
  BY NextAudit, StutterAudit
<1> QED  BY <1>1, InitialAudit, PTL DEF Spec

\* What a transaction tells at its commit is what it leaves.
LEMMA CommitExact ==
    ASSUME AuditInvariant, NEW s \in Sessions, Commit(s)
    PROVE  /\ entry[s] # NoEntry =>
               \A f \in Exact(entry[s]) : /\ entry[s].before[f] = Value(table, f)
                                          /\ entry[s].after[f] = Value(table', f)
           /\ call[s] = "individual.born" => log = <<>> /\ ~(table["individual"].status # "unborn")
           /\ \A f \in Plain : call[s] # "individual.born" /\ Value(table', f) # Value(table, f) =>
                  entry[s] # NoEntry /\ f \in DOMAIN entry[s].after
<1>1. table' = View(s) /\ todo[s] = <<>> /\ call[s] # NoCall
  BY DEF Commit, View
<1>2. Evident(s) /\ Lives /\ LockInvariant
  BY DEF AuditInvariant
<1>3. entry[s] # NoEntry =>
          \A f \in Exact(entry[s]) : /\ entry[s].before[f] = Value(table, f)
                                     /\ entry[s].after[f] = Value(table', f)
  BY <1>1, <1>2 DEF Evident, EntrySound
<1>4. ASSUME call[s] = "individual.born"
      PROVE  log = <<>> /\ ~(table["individual"].status # "unborn")
  <2>1. <<"born", "individual">> \in Locking(call[s])
    BY <1>4, CallNames DEF Locking, PolicyCalls, BindingCalls
  <2>2. ~Has(todo[s], {"born"})
    BY <1>1 DEF Has
  <2>3. Holds(s, "individual")
    BY <1>2, <2>1, <2>2 DEF Evident, Reached
  <2> QED  BY <1>2, <1>4, <2>3 DEF Lives
<1>5. ASSUME NEW f \in Plain, call[s] # "individual.born", Value(table', f) # Value(table, f)
      PROVE  entry[s] # NoEntry /\ f \in DOMAIN entry[s].after
  <2>1. f \in Told(call[s])
    BY <1>1, <1>2, <1>5 DEF Evident, Changes
  <2>2. entry[s] # NoEntry
    <3> SUFFICES ASSUME entry[s] = NoEntry PROVE FALSE
      OBVIOUS
    <3>1. call[s] = "config.changed" /\ ~Holds(s, "revisions")
      BY <1>1, <1>2, <2>1 DEF Evident, EventDue, Has
    <3>2. f = "config"
      BY <2>1, <3>1, ToldBy
    <3>3. table'["revisions"] = table["revisions"]
      BY <1>1, <3>1 DEF View, Seen, Rows
    <3>4. Home(f) = "revisions"
      BY <3>2 DEF Home
    <3> QED  BY <1>5, <3>3, <3>4, ValueHome
  <2> QED  BY <1>2, <2>1, <2>2 DEF Evident, EntrySound
<1> QED  BY <1>3, <1>4, <1>5

\* runtime/lifecycle.py, runtime/exploration_admin.py, runtime/connector_admin.py:
\* for any number of operators, at its commit an audit says what was there until
\* then and what is from now on, and after birth nothing but such a call changes
\* what audits and events tell.
THEOREM AuditsStayExact == Spec => AuditsAreExact
<1> DEFINE Exactly ==
        /\ log' # log =>
            LET e == log'[Len(log')]
            IN  \A f \in Exact(e) : e.before[f] = Value(table, f) /\ e.after[f] = Value(table', f)
        /\ \A f \in {"status", "explore", "binding", "config", "principal"} :
            log # <<>> /\ Value(table', f) # Value(table, f) =>
                log' # log /\ f \in DOMAIN log'[Len(log')].after
<1>1. ASSUME AuditInvariant, Next PROVE Exactly
  <2>1. CASE table' = table /\ log' = log
    BY <2>1
  <2>2. ASSUME NEW s \in Sessions, Commit(s) PROVE Exactly
    <3>1. IF entry[s] = NoEntry THEN log' = log ELSE log' # log /\ log'[Len(log')] = entry[s]
      BY <1>1, <2>2, CommitTells
    <3> QED  BY <1>1, <2>2, <3>1, CommitExact DEF Plain
  <2> QED  BY <1>1, <2>1, <2>2, NextAudit
<1>2. AuditInvariant /\ [Next]_vars => [Exactly]_vars
  BY <1>1
<1> QED  BY <1>2, EvidenceIsPrepared, PTL DEF Spec, AuditsAreExact

-----------------------------------------------------------------------------
(* How the evidence replays                                                *)
(*                                                                         *)
(* All that tell of an individual but redactions have its row locked while *)
(* they hold a number (Employed, Numbered), so the numbers they commit     *)
(* ascend in the log (Ascends), and what is last in the log is last in the *)
(* sequence.  What a transaction is going to leave in the rows it tells of *)
(* is prepared from the rows as they are (Founding, Revising, Redacting),  *)
(* which nobody else changes before its commit.                            *)

\* The calls that tell of an individual with its row locked.
Tellers == AdminCalls \cup {"individual.born", "config.changed"}

IsBorn == table["individual"].status # "unborn"

\* Who is still to do a statement is doing a call that has it.
Duty(s) ==
    /\ Has(todo[s], {"principal"}) => call[s] \in AdminCalls
    /\ Has(todo[s], {"found", "wake"}) => call[s] = "individual.born"
    /\ Has(todo[s], {"redact"}) => call[s] = "redact"
    /\ Has(todo[s], {"event"}) => call[s] \in Tellers \cup {"redact"}

\* Rows are locked by the calls that have something to leave in them.
Bound(s) ==
    /\ Holds(s, "principal") => call[s] \in AdminCalls \cup {"individual.born"}
    /\ Holds(s, "revisions") => call[s] \in {"individual.born", "config.changed"}
    /\ Holds(s, "wake") => call[s] = "individual.born"
    /\ Holds(s, "content") => call[s] = "redact"

Employed(s) == call[s] \in Tellers => Has(todo[s], Firsts) \/ Holds(s, "individual")

\* Nothing but a birth finds an individual that is not born.
Present(s) ==
    call[s] # "individual.born" /\ (entry[s] # NoEntry \/ \E row \in Rows : Holds(s, row)) =>
        IsBorn

Authorised(s) ==
    call[s] \in AdminCalls /\ ~Has(todo[s], {"principal"}) =>
        IsBorn /\ Subject[s] = table["principal"]

Founding(s) ==
    call[s] = "individual.born" =>
        /\ want[s] \in Configs
        /\ ~Has(todo[s], {"found"}) => /\ Holds(s, "revisions") /\ draft[s]["revisions"] = <<want[s]>>
                                       /\ Holds(s, "principal")
        /\ entry[s] # NoEntry => /\ entry[s].after["config"] = want[s]
                                 /\ entry[s].after["principal"] = draft[s]["principal"]
        /\ ~Has(todo[s], {"event"}) => entry[s] # NoEntry
        /\ ~Has(todo[s], {"wake"}) => Holds(s, "wake") /\ draft[s]["wake"] = entry[s].seq

Revising(s) ==
    call[s] = "config.changed" =>
        /\ want[s] \in Configs
        /\ Holds(s, "revisions") => /\ draft[s]["revisions"] = Append(table["revisions"], want[s])
                                    /\ Active(table["revisions"]) # want[s]
        /\ Has(todo[s], {"event"}) => Has(todo[s], {"revise"}) \/ Holds(s, "revisions")
        /\ entry[s] # NoEntry => Holds(s, "revisions") /\ entry[s].after["config"] = want[s]

Redacting(s) ==
    call[s] = "redact" =>
        /\ Has(todo[s], {"event"}) \/ entry[s] # NoEntry
        /\ Has(todo[s], {"redact"}) \/ Holds(s, "content")
        /\ Holds(s, "content") =>
            /\ entry[s] # NoEntry
            /\ draft[s]["content"].audit = IF table["content"].audit = 0 THEN entry[s].seq
                                           ELSE table["content"].audit

\* A number that is held is later than those that were committed before.
Numbered(s) ==
    entry[s] # NoEntry =>
        /\ entry[s].seq \in 1 .. seq
        /\ entry[s].by = Subject[s]
        /\ call[s] \in Tellers \cup {"redact"}
        /\ call[s] # "redact" =>
               \A i \in DOMAIN log : log[i].op # "redact" => log[i].seq < entry[s].seq
        /\ log # <<>> => log[1].seq < entry[s].seq

Remembers(s) == /\ Duty(s) /\ Bound(s) /\ Employed(s) /\ Present(s) /\ Authorised(s)
                /\ Founding(s) /\ Revising(s) /\ Redacting(s) /\ Numbered(s)

\* The log in the order of its commits.
LogTypes ==
    /\ seq \in Nat
    /\ table["revisions"] \in Seq(Configs) /\ table["content"] \in Contents
    /\ DOMAIN want = Sessions
    /\ \A i \in DOMAIN log :
        /\ log[i].seq \in 1 .. seq
        /\ log[i].op \in Tellers \cup {"redact"}
        /\ DOMAIN log[i].after = Told(log[i].op)
    /\ \A s \in Sessions : draft[s]["content"] \in Contents \cup {Unlocked}

Ascends ==
    \A i, j \in DOMAIN log :
        i < j /\ log[i].op # "redact" /\ log[j].op # "redact" => log[i].seq < log[j].seq

Genesis ==
    /\ IsBorn => log # <<>>
    /\ \A i \in DOMAIN log :
        /\ log[i].op = "individual.born" <=> i = 1
        /\ i # 1 => log[1].seq < log[i].seq
        /\ log[i].op \in AdminCalls => log[i].by = table["principal"]
    /\ log # <<>> =>
        /\ table["principal"] = log[1].after["principal"]
        /\ table["revisions"] # <<>> /\ table["revisions"][1] = log[1].after["config"]
        /\ table["wake"] = log[1].seq

\* What an event found is what the one before it left.
Chained ==
    \A f \in {"status", "explore", "binding"} : \A i \in Telling(f) :
        /\ \A j \in Telling(f) :
               i < j /\ (\A k \in Telling(f) : k <= i \/ j <= k) =>
                   log[j].before[f] = log[i].after[f]
        /\ (\A k \in Telling(f) : k <= i) => log[i].after[f] = Value(table, f)

\* The configurations told up to an event.
Upto(i) == {k \in Telling("config") : k <= i}

Listed ==
    /\ Len(table["revisions"]) = Cardinality(Telling("config"))
    /\ \A i \in Telling("config") :
           log[i].after["config"] = table["revisions"][Cardinality(Upto(i))]
    /\ \A k \in 1 .. (Len(table["revisions"]) - 1) :
           table["revisions"][k] # table["revisions"][k + 1]

FirstRedaction ==
    IF Redactions = {} THEN table["content"].audit = 0
    ELSE \E i \in Redactions : /\ \A j \in Redactions : i <= j
                               /\ table["content"].audit = log[i].seq

ContentAlone ==
    \A s, t \in Sessions : Holds(s, "content") /\ Holds(t, "content") => s = t

Recorded == Ascends /\ Genesis /\ Chained /\ Listed /\ FirstRedaction

HistoryInvariant ==
    /\ AuditInvariant /\ LogTypes /\ ContentAlone /\ Recorded
    /\ \A s \in Sessions : Remembers(s)

-----------------------------------------------------------------------------
(* Statements and what they prepare *)

\* Which call has which statements.
LEMMA Roles ==
    ASSUME NEW c \in Calls
    PROVE  /\ Has(Script(c), {"principal"}) <=> c \in AdminCalls
           /\ Has(Script(c), {"found"}) <=> c = "individual.born"
           /\ Has(Script(c), {"wake"}) <=> c = "individual.born"
           /\ Has(Script(c), {"redact"}) <=> c = "redact"
           /\ Has(Script(c), {"event"}) <=> c \in Tellers \cup {"redact"}
           /\ c \in Tellers => Has(Script(c), Firsts)
           /\ Has(Script(c), {"revise"}) <=> c = "config.changed"
<1> USE CallNames DEF PolicyCalls, BindingCalls, AdminCalls, Tellers, Firsts
<1> DEFINE Fits(q) ==
           /\ Has(q, {"principal"}) <=> c \in AdminCalls
           /\ Has(q, {"found"}) <=> c = "individual.born"
           /\ Has(q, {"wake"}) <=> c = "individual.born"
           /\ Has(q, {"redact"}) <=> c = "redact"
           /\ Has(q, {"event"}) <=> c \in Tellers \cup {"redact"}
           /\ c \in Tellers => Has(q, Firsts)
           /\ Has(q, {"revise"}) <=> c = "config.changed"
<1>1. ASSUME c \in LifecycleCalls PROVE Fits(Script(c))
  <2> DEFINE q == <<"individual", "principal", "look", "status", "event">>
  <2>1. Script(c) = q
    BY <1>1 DEF Script
  <2>2. \A S : Has(q, S) <=> {"individual", "principal", "look", "status", "event"} \cap S # {}
    BY DEF Has
  <2> HIDE DEF q
  <2> QED  BY <1>1, <2>1, <2>2
<1>2. ASSUME c = "emergency_block" PROVE Fits(Script(c))
  <2> DEFINE q == <<"individual", "principal", "look", "block", "event">>
  <2>1. Script(c) = q
    BY <1>2 DEF Script
  <2>2. \A S : Has(q, S) <=> {"individual", "principal", "look", "block", "event"} \cap S # {}
    BY DEF Has
  <2> HIDE DEF q
  <2> QED  BY <1>2, <2>1, <2>2
<1>3. ASSUME c \in PolicyCalls PROVE Fits(Script(c))
  <2> DEFINE q == <<"individual", "principal", "explore", "event">>
  <2>1. Script(c) = q
    BY <1>3 DEF Script
  <2>2. \A S : Has(q, S) <=> {"individual", "principal", "explore", "event"} \cap S # {}
    BY DEF Has
  <2> HIDE DEF q
  <2> QED  BY <1>3, <2>1, <2>2
<1>4. ASSUME c \in BindingCalls PROVE Fits(Script(c))
  <2> DEFINE q == <<"individual", "principal", "governance", "binding", "event">>
  <2>1. Script(c) = q
    BY <1>4 DEF Script
  <2>2. \A S : Has(q, S) <=> {"individual", "principal", "governance", "binding", "event"} \cap S # {}
    BY DEF Has
  <2> HIDE DEF q
  <2> QED  BY <1>4, <2>1, <2>2
<1>5. ASSUME c = "individual.born" PROVE Fits(Script(c))
  <2> DEFINE q == <<"born", "found", "event", "wake">>
  <2>1. Script(c) = q
    BY <1>5 DEF Script
  <2>2. \A S : Has(q, S) <=> {"born", "found", "event", "wake"} \cap S # {}
    BY DEF Has
  <2> HIDE DEF q
  <2> QED  BY <1>5, <2>1, <2>2
<1>6. ASSUME c = "config.changed" PROVE Fits(Script(c))
  <2> DEFINE q == <<"individual", "revise", "event">>
  <2>1. Script(c) = q
    BY <1>6 DEF Script
  <2>2. \A S : Has(q, S) <=> {"individual", "revise", "event"} \cap S # {}
    BY DEF Has
  <2> HIDE DEF q
  <2> QED  BY <1>6, <2>1, <2>2
<1>7. ASSUME c = "unblock" PROVE Fits(Script(c))
  <2> DEFINE q == <<"unblock">>
  <2>1. Script(c) = q
    BY <1>7 DEF Script
  <2>2. \A S : Has(q, S) <=> {"unblock"} \cap S # {}
    BY DEF Has
  <2> HIDE DEF q
  <2> QED  BY <1>7, <2>1, <2>2
<1>8. ASSUME c = "redact" PROVE Fits(Script(c))
  <2> DEFINE q == <<"event", "redact">>
  <2>1. Script(c) = q
    BY <1>8 DEF Script
  <2>2. \A S : Has(q, S) <=> {"event", "redact"} \cap S # {}
    BY DEF Has
  <2> HIDE DEF q
  <2> QED  BY <1>8, <2>1, <2>2
<1>9. ASSUME c = "run" PROVE Fits(Script(c))
  <2> DEFINE q == <<"individual", "governance">>
  <2>1. Script(c) = q
    BY <1>9 DEF Script
  <2>2. \A S : Has(q, S) <=> {"individual", "governance"} \cap S # {}
    BY DEF Has
  <2> HIDE DEF q
  <2> QED  BY <1>9, <2>1, <2>2
<1>10. ASSUME c = "settle" PROVE Fits(Script(c))
  <2> DEFINE q == <<"mention", "individual", "governance">>
  <2>1. Script(c) = q
    BY <1>10 DEF Script
  <2>2. \A S : Has(q, S) <=> {"mention", "individual", "governance"} \cap S # {}
    BY DEF Has
  <2> HIDE DEF q
  <2> QED  BY <1>10, <2>1, <2>2
<1>11. ASSUME c = "ingest" PROVE Fits(Script(c))
  <2> DEFINE q == <<"individual", "governance", "binding">>
  <2>1. Script(c) = q
    BY <1>11 DEF Script
  <2>2. \A S : Has(q, S) <=> {"individual", "governance", "binding"} \cap S # {}
    BY DEF Has
  <2> HIDE DEF q
  <2> QED  BY <1>11, <2>1, <2>2
<1> HIDE DEF Fits
<1>12. Fits(Script(c))
  BY <1>1, <1>2, <1>3, <1>4, <1>5, <1>6, <1>7, <1>8, <1>9, <1>10, <1>11 DEF Calls, OperatorCalls, RuntimeCalls, IngesterCalls
<1> USE DEF Fits
<1> QED  BY <1>12

\* Other sessions do not notice what one prepares.
LEMMA OthersRemember ==
    ASSUME HistoryInvariant, NEW s \in Sessions, Apart(s), seq' \in Nat, seq' >= seq,
           \A t \in Sessions \ {s} : want'[t] = want[t],
           NEW t \in Sessions \ {s}
    PROVE  Remembers(t)'
<1>1. /\ todo'[t] = todo[t] /\ draft'[t] = draft[t] /\ call'[t] = call[t]
      /\ entry'[t] = entry[t] /\ want'[t] = want[t] /\ table' = table /\ log' = log
  BY DEF Apart
<1>2. \A row : Holds(t, row)' <=> Holds(t, row)
  BY <1>1 DEF Holds
<1>3. Remembers(t) /\ seq \in Nat
  BY DEF HistoryInvariant, LogTypes
<1>4. Duty(t)' /\ Bound(t)' /\ Employed(t)'
  BY <1>1, <1>2, <1>3 DEF Remembers, Duty, Bound, Employed
<1>5. Present(t)' /\ Authorised(t)'
  BY <1>1, <1>2, <1>3 DEF Remembers, Present, Authorised, IsBorn
<1>6. Founding(t)' /\ Revising(t)' /\ Redacting(t)'
  BY <1>1, <1>2, <1>3 DEF Remembers, Founding, Revising, Redacting
<1>7. Numbered(t)'
  <2> SUFFICES ASSUME entry[t] # NoEntry
               PROVE  /\ entry[t].seq \in 1 .. seq'
                      /\ entry[t].by = Subject[t]
                      /\ call[t] \in Tellers \cup {"redact"}
                      /\ call[t] # "redact" =>
                             \A i \in DOMAIN log : log[i].op # "redact" => log[i].seq < entry[t].seq
                      /\ log # <<>> => log[1].seq < entry[t].seq
    BY <1>1 DEF Numbered
  <2>1. entry[t].seq \in 1 .. seq
    BY <1>3 DEF Remembers, Numbered
  <2>2. entry[t].seq \in 1 .. seq'
    BY <1>3, <2>1
  <2> QED  BY <1>3, <2>2 DEF Remembers, Numbered
<1> QED  BY <1>4, <1>5, <1>6, <1>7 DEF Remembers

\* What is committed stays true as long as nothing is committed.
LEMMA RecordStays ==
    ASSUME HistoryInvariant, table' = table, log' = log, seq' \in Nat, seq' >= seq,
           DOMAIN want' = Sessions,
           \A t \in Sessions : draft'[t]["content"] \in Contents \cup {Unlocked}
    PROVE  LogTypes' /\ Recorded'
<1>1. LogTypes /\ Recorded
  BY DEF HistoryInvariant
<1>2. LogTypes'
  <2>1. \A i \in DOMAIN log : log[i].seq \in 1 .. seq'
    BY <1>1 DEF LogTypes
  <2> QED  BY <1>1, <2>1 DEF LogTypes
<1>3. Ascends' /\ Genesis'
  BY <1>1 DEF Recorded, Ascends, Genesis, IsBorn
<1>4. \A f : Telling(f)' = Telling(f)
  BY DEF Telling
<1>5. Chained'
  BY <1>1, <1>4 DEF Recorded, Chained
<1>6. Listed'
  <2>1. \A i : Upto(i)' = Upto(i)
    BY <1>4 DEF Upto
  <2> QED  BY <1>1, <1>4, <2>1 DEF Recorded, Listed
<1>7. FirstRedaction'
  BY <1>1 DEF Recorded, FirstRedaction, Redactions
<1> QED  BY <1>2, <1>3, <1>5, <1>6, <1>7 DEF Recorded

\* A statement that does what it is for, whichever it is.
LEMMA AdvanceRemembers ==
    ASSUME HistoryInvariant, NEW s \in Sessions, Advances(s)
    PROVE  /\ Duty(s)' /\ Employed(s)' /\ Authorised(s)' /\ Present(s)'
           /\ call[s] # "individual.born" => IsBorn
           /\ \A S : Has(todo'[s], S) => Has(todo[s], S)
           /\ \A S : Has(todo[s], S) => Head(todo[s]) \in S \/ Has(todo'[s], S)
           /\ Has(todo[s], {Head(todo[s])})
           /\ \A st \in Statements : Has(todo'[s], {st}) => Rank(Head(todo[s])) < Rank(st)
           /\ todo[s] \in Seq(Statements) /\ todo[s] # <<>> /\ call' = call
<1>1. LockInvariant /\ Remembers(s) /\ Evident(s)
  BY DEF HistoryInvariant, AuditInvariant
<1>2. /\ todo[s] \in Seq(Statements) /\ todo[s] # <<>> /\ todo'[s] = Tail(todo[s])
      /\ call' = call /\ table' = table /\ Accepted(s) /\ Ordered(todo[s]) /\ Behind(s)
  BY <1>1 DEF LockInvariant, Types, SessionInvariant, Advances, Steps, Proceed
<1>3. /\ \A S : Has(todo'[s], S) => Has(todo[s], S)
      /\ \A S : Has(todo[s], S) => Head(todo[s]) \in S \/ Has(todo'[s], S)
      /\ Has(todo[s], {Head(todo[s])})
  BY <1>2, HasTail
<1>4. ASSUME NEW st \in Statements, Has(todo'[s], {st}) PROVE Rank(Head(todo[s])) < Rank(st)
  <2>1. PICK i \in DOMAIN Tail(todo[s]) : Tail(todo[s])[i] = st
    BY <1>2, <1>4 DEF Has
  <2>2. Rank(Head(todo[s])) < Rank(Tail(todo[s])[i])
    BY <1>2, <2>1, Tails
  <2> QED  BY <2>1, <2>2
<1>5. Duty(s)'
  BY <1>1, <1>2, <1>3 DEF Remembers, Duty
<1>6. Employed(s)'
  <2> SUFFICES ASSUME call[s] \in Tellers PROVE Has(todo'[s], Firsts) \/ Holds(s, "individual")'
    BY <1>2 DEF Employed
  <2>1. Has(todo[s], Firsts) \/ Holds(s, "individual")
    BY <1>1 DEF Remembers, Employed
  <2>2. Head(todo[s]) \in Firsts \/ Holds(s, "individual") => Holds(s, "individual")'
    BY DEF Advances, Holds, Rows
  <2> QED  BY <1>3, <2>1, <2>2
<1>7. ASSUME call[s] # "individual.born" PROVE IsBorn
  <2>1. ~At(s, "born")
    <3> SUFFICES ASSUME Head(todo[s]) = "born" PROVE FALSE
      BY DEF At
    <3>1. Has(todo[s], {"born", "found"})
      BY <1>3 DEF Has
    <3> QED  BY <1>1, <1>7, <3>1 DEF Evident, Purpose
  <2>2. Born(s)
    BY <1>2, <2>1 DEF Accepted
  <2>3. CASE Holds(s, "individual")
    BY <1>1, <1>7, <2>3 DEF Remembers, Present, Rows
  <2>4. CASE ~Holds(s, "individual")
    BY <2>2, <2>4 DEF Born, Seen, IsBorn
  <2> QED  BY <2>3, <2>4
<1>8. Present(s)'
  BY <1>2, <1>7 DEF Present, IsBorn
<1>9. Authorised(s)'
  <2> SUFFICES ASSUME call[s] \in AdminCalls, ~Has(todo'[s], {"principal"})
               PROVE  IsBorn /\ Subject[s] = table["principal"]
    BY <1>2 DEF Authorised, IsBorn
  <2>1. CASE ~Has(todo[s], {"principal"})
    BY <1>1, <2>1 DEF Remembers, Authorised
  <2>2. CASE Has(todo[s], {"principal"})
    <3>1. Head(todo[s]) = "principal"
      BY <1>3, <2>2
    <3>2. Seen(s, "principal") = Subject[s]
      BY <1>2, <3>1 DEF Accepted, At
    <3>3. ~Holds(s, "principal")
      <4>1. RowRank("principal") = 2 /\ Rank("principal") = 2
        BY DEF RowRank, Rank, Firsts
      <4> QED  BY <1>2, <3>1, <4>1 DEF Behind, Rows
    <3>4. call[s] # "individual.born"
      BY CallNames DEF AdminCalls, PolicyCalls, BindingCalls
    <3> QED  BY <1>7, <3>2, <3>3, <3>4 DEF Seen
  <2> QED  BY <2>1, <2>2
<1> QED  BY <1>2, <1>3, <1>4, <1>5, <1>6, <1>7, <1>8, <1>9

\* A step of one session that commits nothing.
LEMMA StepRemembers ==
    ASSUME HistoryInvariant, AuditInvariant', NEW s \in Sessions, Apart(s), Remembers(s)',
           seq' \in Nat, seq' >= seq, DOMAIN want' = Sessions,
           \A t \in Sessions \ {s} : want'[t] = want[t],
           draft'[s]["content"] \in Contents \cup {Unlocked},
           \A t \in Sessions \ {s} : Holds(s, "content")' => ~Holds(t, "content")
    PROVE  HistoryInvariant'
<1>1. LogTypes /\ ContentAlone
  BY DEF HistoryInvariant
<1>2. \A t \in Sessions \ {s} : draft'[t] = draft[t]
  BY DEF Apart
<1>3. LogTypes' /\ Recorded'
  <2>1. \A t \in Sessions : draft'[t]["content"] \in Contents \cup {Unlocked}
    BY <1>1, <1>2 DEF LogTypes
  <2> QED  BY <2>1, RecordStays DEF Apart
<1>4. ContentAlone'
  <2>1. \A t \in Sessions \ {s} : Holds(t, "content")' <=> Holds(t, "content")
    BY <1>2 DEF Holds
  <2> QED  BY <1>1, <2>1 DEF ContentAlone
<1>5. \A t \in Sessions \ {s} : Remembers(t)'
  BY OthersRemember
<1>6. \A t \in Sessions : Remembers(t)'
  BY <1>5
<1> QED  BY <1>3, <1>4, <1>6 DEF HistoryInvariant

\* What a statement leaves alone.
Untold(s) ==
    /\ Apart(s) /\ seq' = seq /\ want' = want /\ entry' = entry
    /\ \A row \in {"revisions", "wake", "content"} : draft'[s][row] = draft[s][row]
    /\ draft'[s]["principal"] = draft[s]["principal"] \/ Head(todo[s]) = "principal"

\* A statement that prepares nothing of what is told.
LEMMA PlainRemembers ==
    ASSUME HistoryInvariant, AuditInvariant', NEW s \in Sessions, Advances(s), Untold(s),
           Head(todo[s]) \notin {"revise", "found", "wake", "redact", "event"}
    PROVE  HistoryInvariant'
<1>1. /\ Remembers(s) /\ LogTypes /\ ContentAlone /\ AuditInvariant
  BY DEF HistoryInvariant
<1>2. /\ call'[s] = call[s] /\ entry'[s] = entry[s] /\ want' = want /\ table' = table
      /\ log' = log /\ seq' = seq
      /\ draft'[s]["revisions"] = draft[s]["revisions"]
      /\ draft'[s]["wake"] = draft[s]["wake"]
      /\ draft'[s]["content"] = draft[s]["content"]
  BY DEF Untold, Advances, Steps, Apart
<1>3. \A row \in {"revisions", "wake", "content"} : Holds(s, row)' <=> Holds(s, row)
  BY <1>2 DEF Holds
<1>4. /\ Duty(s)' /\ Employed(s)' /\ Authorised(s)' /\ Present(s)'
      /\ \A S : Has(todo'[s], S) => Has(todo[s], S)
      /\ \A S : Has(todo[s], S) => Head(todo[s]) \in S \/ Has(todo'[s], S)
      /\ Has(todo[s], {Head(todo[s])})
  BY AdvanceRemembers
<1>5. Head(todo[s]) = "principal" => call[s] \in AdminCalls
  BY <1>1, <1>4 DEF Remembers, Duty
<1>6. "individual.born" \notin AdminCalls
  BY CallNames DEF AdminCalls, PolicyCalls, BindingCalls
<1>7. call[s] = "individual.born" => /\ draft'[s]["principal"] = draft[s]["principal"]
                                     /\ Holds(s, "principal")' <=> Holds(s, "principal")
  BY <1>5, <1>6 DEF Untold, Holds
<1>8. Holds(s, "principal")' => Holds(s, "principal") \/ call[s] \in AdminCalls
  BY <1>5 DEF Untold, Holds
<1>9. Bound(s)'
  BY <1>1, <1>2, <1>3, <1>8 DEF Remembers, Bound
<1>10. \A st \in {"revise", "found", "wake", "redact", "event"} :
           Has(todo'[s], {st}) <=> Has(todo[s], {st})
  BY <1>4
<1>11. Founding(s)'
  BY <1>1, <1>2, <1>3, <1>7, <1>10 DEF Remembers, Founding
<1>12. Revising(s)'
  BY <1>1, <1>2, <1>3, <1>10 DEF Remembers, Revising
<1>13. Redacting(s)'
  BY <1>1, <1>2, <1>3, <1>10 DEF Remembers, Redacting
<1>14. Numbered(s)'
  BY <1>1, <1>2 DEF Remembers, Numbered
<1>15. Remembers(s)'
  BY <1>4, <1>9, <1>11, <1>12, <1>13, <1>14 DEF Remembers
<1>16. \A t \in Sessions \ {s} : Holds(s, "content")' => ~Holds(t, "content")
  BY <1>1, <1>3 DEF ContentAlone
<1>17. seq \in Nat /\ DOMAIN want = Sessions /\ draft[s]["content"] \in Contents \cup {Unlocked}
  BY <1>1 DEF LogTypes
<1>18. seq' \in Nat /\ seq' >= seq /\ Apart(s)
  BY <1>2, <1>17 DEF Untold
<1> QED  BY <1>2, <1>15, <1>16, <1>17, <1>18, StepRemembers

\* A statement that leaves one row locked changes nothing else.
LEMMA WriteUntold ==
    ASSUME HistoryInvariant, NEW s \in Sessions, NEW st \in Statements, NEW row \in Rows, NEW value,
           Ready(s, st), Write(s, row, value),
           row \in {"individual", "governance", "binding"} \/ (row = "principal" /\ st = "principal")
    PROVE  Untold(s)
<1>1. /\ draft' = [draft EXCEPT ![s][row] = value] /\ todo' = [todo EXCEPT ![s] = Tail(@)]
      /\ UNCHANGED <<table, log, seq, call, want, saw, entry>> /\ Head(todo[s]) = st
  BY DEF Write, Proceed, Ready, At
<1>2. /\ DOMAIN draft = Sessions /\ DOMAIN draft[s] = Rows /\ DOMAIN todo = Sessions
      /\ DOMAIN saw = Sessions /\ DOMAIN entry = Sessions
  BY DEF HistoryInvariant, AuditInvariant, LockInvariant, Types, RowTypes
<1>3. /\ \A other \in Rows \ {row} : draft'[s][other] = draft[s][other]
      /\ \A t \in Sessions \ {s} : draft'[t] = draft[t] /\ todo'[t] = todo[t]
  BY <1>1, <1>2
<1>4. Apart(s)
  BY <1>1, <1>2, <1>3 DEF Apart
<1> QED  BY <1>1, <1>3, <1>4 DEF Untold, Rows

LEMMA PlainWriteRemembers ==
    ASSUME HistoryInvariant, AuditInvariant', NEW s \in Sessions, NEW st \in Statements,
           NEW row \in Rows, NEW value,
           Ready(s, st), Write(s, row, value), Writes(st) = {row},
           row = "individual" => value \in Individuals,
           st \notin {"revise", "wake", "redact"}
    PROVE  HistoryInvariant'
<1>1. st \notin {"found", "event"}
  BY DEF Writes
<1>2. st \in Firsts => row = "individual"
  BY DEF Writes, Firsts
<1>3. LockInvariant
  BY DEF HistoryInvariant, AuditInvariant
<1>4. Advances(s)
  BY <1>2, <1>3, WriteAdvances
<1>5. row \in {"individual", "governance", "binding"} \/ (row = "principal" /\ st = "principal")
  <2>1. row \in Writes(st)
    OBVIOUS
  <2> QED  BY <1>1, <2>1 DEF Writes
<1>6. Untold(s)
  BY <1>5, WriteUntold
<1>7. Head(todo[s]) = st
  BY DEF Ready, At
<1> QED  BY <1>1, <1>4, <1>6, <1>7, PlainRemembers

\* A statement that locks nothing, where it inserts no event.
LEMMA PlainReadRemembers ==
    ASSUME HistoryInvariant, AuditInvariant', NEW s \in Sessions, Look(s) \/ Mention(s)
    PROVE  HistoryInvariant'
<1>1. PICK st \in {"look", "mention"} :
          /\ Ready(s, st) /\ Proceed(s) /\ sharing' = sharing \cup IF st = "look" THEN {} ELSE {s}
          /\ UNCHANGED <<table, log, seq, draft, call, want, entry>>
          /\ saw' = saw \/ saw' = [saw EXCEPT ![s] = Seen(s, "governance")]
  <2>1. CASE Look(s)
    <3>1. sharing' = sharing \cup {}
      BY <2>1 DEF Look
    <3> QED  BY <2>1, <3>1 DEF Look
  <2>2. CASE Mention(s)
    BY <2>2 DEF Mention
  <2> QED  BY <2>1, <2>2
<1>2. /\ LockInvariant /\ DOMAIN todo = Sessions /\ DOMAIN saw = Sessions
      /\ DOMAIN entry = Sessions
  BY DEF HistoryInvariant, AuditInvariant, LockInvariant, Types, RowTypes
<1>3. Advances(s)
  BY <1>1, <1>2, ReadAdvances
<1>4. Untold(s)
  <2>1. \A t \in Sessions \ {s} : todo'[t] = todo[t]
    BY <1>1, <1>2 DEF Proceed
  <2>2. DOMAIN saw' = Sessions /\ \A t \in Sessions \ {s} : saw'[t] = saw[t]
    BY <1>1, <1>2
  <2>3. Apart(s)
    BY <1>1, <1>2, <2>1, <2>2 DEF Apart
  <2> QED  BY <1>1, <2>3 DEF Untold
<1>5. Head(todo[s]) = st
  BY <1>1 DEF Ready, At
<1> QED  BY <1>1, <1>3, <1>4, <1>5, PlainRemembers

\* A configuration that is the active one leaves nothing to tell.
LEMMA StopRemembers ==
    ASSUME HistoryInvariant, AuditInvariant', NEW s \in Sessions, Ready(s, "revise"),
           todo' = [todo EXCEPT ![s] = <<>>],
           UNCHANGED <<table, log, seq, draft, sharing, call, want, saw, entry>>
    PROVE  HistoryInvariant'
<1>1. LockInvariant /\ RowTypes /\ Remembers(s) /\ Evident(s) /\ LogTypes /\ ContentAlone
  BY DEF HistoryInvariant, AuditInvariant
<1>2. /\ todo[s] \in Seq(Statements) /\ todo[s] # <<>> /\ Head(todo[s]) = "revise"
      /\ todo'[s] = <<>> /\ \A t \in Sessions \ {s} : todo'[t] = todo[t]
  BY <1>1 DEF Ready, At, LockInvariant, Types
<1>3. \A S : ~Has(todo'[s], S)
  BY <1>2 DEF Has
<1>4. Apart(s)
  BY <1>1, <1>2 DEF Apart, RowTypes
<1>5. call[s] = "config.changed"
  <2>1. Has(todo[s], {"revise"})
    BY <1>2, HasTail
  <2> QED  BY <1>1, <2>1 DEF Evident, Purpose
<1>6. /\ call[s] \notin AdminCalls /\ call[s] \notin {"individual.born", "redact"}
  BY <1>5, CallNames DEF AdminCalls, PolicyCalls, BindingCalls
<1>7. \A row : Holds(s, row)' <=> Holds(s, row)
  BY DEF Holds
<1>8. Holds(s, "individual")
  BY <1>1, <1>2, AtStatement DEF Guarded
<1>9. Duty(s)' /\ Bound(s)' /\ Employed(s)'
  BY <1>1, <1>3, <1>7, <1>8 DEF Remembers, Duty, Bound, Employed
<1>10. Present(s)' /\ Authorised(s)' /\ Founding(s)' /\ Redacting(s)'
  BY <1>1, <1>6, <1>7 DEF Remembers, Present, Authorised, Founding, Redacting, IsBorn
<1>11. Revising(s)' /\ Numbered(s)'
  BY <1>1, <1>3, <1>7 DEF Remembers, Revising, Numbered
<1>12. Remembers(s)'
  BY <1>9, <1>10, <1>11 DEF Remembers
<1>13. /\ seq' \in Nat /\ seq' >= seq /\ DOMAIN want' = Sessions
       /\ draft'[s]["content"] \in Contents \cup {Unlocked}
  BY <1>1 DEF LogTypes
<1>14. \A t \in Sessions \ {s} : Holds(s, "content")' => ~Holds(t, "content")
  BY <1>1, <1>7 DEF ContentAlone
<1> QED  BY <1>4, <1>12, <1>13, <1>14, StepRemembers

\* What a statement that locks one row changes.
LEMMA WriteChanges ==
    ASSUME HistoryInvariant, NEW s \in Sessions, NEW st \in Statements, NEW row \in Rows, NEW value,
           Ready(s, st), Write(s, row, value), Writes(st) = {row}, st \notin Firsts,
           row # "individual"
    PROVE  /\ Advances(s) /\ Apart(s) /\ Head(todo[s]) = st
           /\ seq' = seq /\ want' = want /\ entry' = entry
           /\ draft'[s][row] = value
           /\ \A other \in Rows \ {row} : draft'[s][other] = draft[s][other]
<1>1. /\ draft' = [draft EXCEPT ![s][row] = value] /\ todo' = [todo EXCEPT ![s] = Tail(@)]
      /\ UNCHANGED <<table, log, seq, call, want, saw, entry>> /\ Head(todo[s]) = st
  BY DEF Write, Proceed, Ready, At
<1>2. /\ DOMAIN draft = Sessions /\ DOMAIN draft[s] = Rows /\ DOMAIN todo = Sessions
      /\ DOMAIN saw = Sessions /\ DOMAIN entry = Sessions /\ LockInvariant
  BY DEF HistoryInvariant, AuditInvariant, LockInvariant, Types, RowTypes
<1>3. /\ draft'[s][row] = value
      /\ \A other \in Rows \ {row} : draft'[s][other] = draft[s][other]
      /\ \A t \in Sessions \ {s} : draft'[t] = draft[t] /\ todo'[t] = todo[t]
  BY <1>1, <1>2
<1>4. Apart(s)
  BY <1>1, <1>2, <1>3 DEF Apart
<1>5. Advances(s)
  BY <1>2, WriteAdvances
<1> QED  BY <1>1, <1>3, <1>4, <1>5

\* Where a session is in its call.
LEMMA Whereabouts ==
    ASSUME HistoryInvariant, NEW s \in Sessions, Advances(s)
    PROVE  /\ Head(todo[s]) = "revise" => ~Holds(s, "revisions")
           /\ Head(todo[s]) = "redact" => ~Holds(s, "content") /\ ~Has(todo[s], {"event"})
           /\ Head(todo[s]) = "wake" => ~Has(todo[s], {"event"})
           /\ Head(todo[s]) = "event" => /\ ~Has(todo[s], {"found"}) /\ ~Has(todo[s], {"revise"})
                                         /\ ~Holds(s, "wake") /\ ~Holds(s, "content")
<1>1. Behind(s)
  BY DEF HistoryInvariant, AuditInvariant, LockInvariant, SessionInvariant
<1>2. /\ \A S : Has(todo[s], S) => Head(todo[s]) \in S \/ Has(todo'[s], S)
      /\ \A st \in Statements : Has(todo'[s], {st}) => Rank(Head(todo[s])) < Rank(st)
      /\ todo[s] # <<>>
  BY AdvanceRemembers
<1>3. \A st \in Statements \ {Head(todo[s])} : Has(todo[s], {st}) => Rank(Head(todo[s])) < Rank(st)
  BY <1>2
<1>4. /\ Rank("revise") = 4 /\ Rank("redact") = 8 /\ Rank("wake") = 8 /\ Rank("event") = 7
      /\ Rank("found") = 6
      /\ RowRank("revisions") = 4 /\ RowRank("content") = 8 /\ RowRank("wake") = 8
  BY DEF Rank, RowRank, Firsts
<1>5. {"revise", "redact", "wake", "event", "found"} \subseteq Statements
  BY DEF Statements, Guarded
<1>6. \A row \in Rows : Holds(s, row) => RowRank(row) < Rank(Head(todo[s]))
  BY <1>1, <1>2 DEF Behind
<1>7. {"revisions", "content", "wake"} \subseteq Rows
  BY DEF Rows
<1> QED  BY <1>3, <1>4, <1>5, <1>6, <1>7

LEMMA LastAppended ==
    ASSUME NEW r \in Seq(Configs), NEW w \in Configs
    PROVE  /\ Append(r, w) \in Seq(Configs) /\ Active(Append(r, w)) = w
           /\ <<w>> \in Seq(Configs) /\ Active(<<w>>) = w
<1>1. /\ Append(r, w) \in Seq(Configs) /\ Len(Append(r, w)) = Len(r) + 1
      /\ Append(r, w)[Len(r) + 1] = w /\ Len(r) \in Nat
  OBVIOUS
<1>2. Append(r, w) # <<>>
  BY <1>1
<1>3. <<w>> \in Seq(Configs) /\ <<w>> # <<>> /\ Len(<<w>>) = 1 /\ <<w>>[1] = w
  OBVIOUS
<1> QED  BY <1>1, <1>2, <1>3 DEF Active

LEMMA ReviseRemembers ==
    ASSUME HistoryInvariant, AuditInvariant', NEW s \in Sessions, Revise(s)
    PROVE  HistoryInvariant'
<1>1. CASE Active(Seen(s, "revisions")) = want[s]
  BY <1>1, StopRemembers DEF Revise
<1>2. CASE Active(Seen(s, "revisions")) # want[s]
  <2> DEFINE value == Append(Seen(s, "revisions"), want[s])
  <2>1. Ready(s, "revise") /\ Write(s, "revisions", value)
    BY <1>2 DEF Revise
  <2>2. Writes("revise") = {"revisions"} /\ "revise" \in Statements \ Firsts /\ "revisions" \in Rows
    BY DEF Writes, Statements, Guarded, Firsts, Rows
  <2> HIDE DEF value
  <2>3. /\ Advances(s) /\ Apart(s) /\ Head(todo[s]) = "revise"
        /\ seq' = seq /\ want' = want /\ entry' = entry
        /\ draft'[s]["revisions"] = value
        /\ \A other \in Rows \ {"revisions"} : draft'[s][other] = draft[s][other]
    BY <2>1, <2>2, WriteChanges
  <2>4. Remembers(s) /\ LogTypes /\ ContentAlone /\ Evident(s)
    BY DEF HistoryInvariant, AuditInvariant
  <2>5. /\ Duty(s)' /\ Employed(s)' /\ Authorised(s)' /\ Present(s)'
        /\ \A S : Has(todo'[s], S) => Has(todo[s], S)
        /\ Has(todo[s], {"revise"}) /\ call' = call
    BY <2>3, AdvanceRemembers
  <2>6. call[s] = "config.changed"
    BY <2>4, <2>5 DEF Evident, Purpose
  <2>7. ~Holds(s, "revisions")
    BY <2>3, Whereabouts
  <2>8. want[s] \in Configs /\ table["revisions"] \in Seq(Configs)
    BY <2>4, <2>6 DEF Remembers, Revising, LogTypes
  <2>9. value = Append(table["revisions"], want[s]) /\ Active(table["revisions"]) # want[s]
    BY <1>2, <2>7 DEF value, Seen
  <2>10. Holds(s, "revisions")'
    <3>1. value \in Seq(Configs)
      BY <2>8, <2>9, LastAppended
    <3> QED  BY <2>3, <3>1, UnlockedAssumption DEF Holds, Rows
  <2>11. /\ \A row \in Rows \ {"revisions"} : Holds(s, row)' <=> Holds(s, row)
         /\ table' = table /\ log' = log
    BY <2>3 DEF Holds, Apart
  <2>12. Bound(s)'
    BY <2>4, <2>5, <2>6, <2>11 DEF Remembers, Bound, Rows
  <2>13. Revising(s)'
    BY <2>3, <2>4, <2>5, <2>6, <2>8, <2>9, <2>10, <2>11 DEF Remembers, Revising
  <2>14. Founding(s)' /\ Redacting(s)'
    BY <2>5, <2>6 DEF Founding, Redacting
  <2>15. Numbered(s)'
    BY <2>3, <2>4, <2>5, <2>11 DEF Remembers, Numbered
  <2>16. Remembers(s)'
    BY <2>5, <2>12, <2>13, <2>14, <2>15 DEF Remembers
  <2>17. /\ seq' \in Nat /\ seq' >= seq /\ DOMAIN want' = Sessions
         /\ draft'[s]["content"] \in Contents \cup {Unlocked}
    BY <2>3, <2>4 DEF LogTypes, Rows
  <2>18. \A t \in Sessions \ {s} : Holds(s, "content")' => ~Holds(t, "content")
    BY <2>4, <2>11 DEF ContentAlone, Rows
  <2> QED  BY <2>3, <2>16, <2>17, <2>18, StepRemembers
<1> QED  BY <1>1, <1>2

LEMMA FoundRemembers ==
    ASSUME HistoryInvariant, AuditInvariant', NEW s \in Sessions, Found(s)
    PROVE  HistoryInvariant'
<1>1. LockInvariant /\ RowTypes /\ Remembers(s) /\ LogTypes /\ ContentAlone /\ Evident(s)
  BY DEF HistoryInvariant, AuditInvariant
<1>2. Advances(s)
  BY <1>1, FoundAdvances
<1>3. PICK who \in Subjects, explore \in BOOLEAN :
          draft' = [draft EXCEPT ![s]["governance"] = [blocked |-> TRUE, explore |-> explore, revision |-> 1],
                                 ![s]["principal"] = who,
                                 ![s]["revisions"] = <<want[s]>>]
  BY DEF Found
<1>4. /\ draft'[s]["principal"] = who /\ draft'[s]["revisions"] = <<want[s]>>
      /\ draft'[s]["wake"] = draft[s]["wake"] /\ draft'[s]["content"] = draft[s]["content"]
      /\ \A t \in Sessions \ {s} : draft'[t] = draft[t]
  BY <1>1, <1>3 DEF LockInvariant, Types, Rows
<1>5. /\ Head(todo[s]) = "found" /\ Proceed(s)
      /\ UNCHANGED <<table, log, seq, call, want, saw, entry>>
  BY DEF Found, Ready, At
<1>6. Apart(s)
  <2>1. \A t \in Sessions \ {s} : todo'[t] = todo[t]
    BY <1>1, <1>5 DEF Proceed, LockInvariant, Types
  <2> QED  BY <1>1, <1>4, <1>5, <2>1 DEF Apart, RowTypes
<1>7. /\ Duty(s)' /\ Employed(s)' /\ Authorised(s)' /\ Present(s)'
      /\ \A S : Has(todo'[s], S) => Has(todo[s], S)
      /\ \A S : Has(todo[s], S) => Head(todo[s]) \in S \/ Has(todo'[s], S)
      /\ Has(todo[s], {"found"}) /\ todo[s] \in Seq(Statements) /\ todo[s] # <<>>
  BY <1>2, <1>5, AdvanceRemembers
<1>8. call[s] = "individual.born"
  <2>1. Has(todo[s], {"found", "wake"})
    BY <1>7 DEF Has
  <2> QED  BY <1>1, <2>1 DEF Remembers, Duty
<1>9. want[s] \in Configs
  BY <1>1, <1>8 DEF Remembers, Founding
<1>10. Holds(s, "principal")' /\ Holds(s, "revisions")'
  <2>1. <<want[s]>> \in Seq(Configs)
    BY <1>9
  <2> QED  BY <1>4, <2>1, UnlockedAssumption DEF Holds, Rows
<1>11. entry[s] = NoEntry
  <2>1. 1 \in DOMAIN todo[s] /\ todo[s][1] = "found"
    BY <1>5, <1>7
  <2> QED  BY <1>1, <2>1 DEF Evident, EntrySound
<1>12. \A row \in {"wake", "content"} : Holds(s, row)' <=> Holds(s, row)
  BY <1>4 DEF Holds
<1>13. Bound(s)'
  BY <1>1, <1>5, <1>8, <1>12 DEF Remembers, Bound
<1>14. Founding(s)'
  <2>1. \A st \in {"event", "wake"} : Has(todo'[s], {st}) <=> Has(todo[s], {st})
    BY <1>5, <1>7
  <2> QED  BY <1>1, <1>4, <1>5, <1>8, <1>9, <1>10, <1>11, <1>12, <2>1 DEF Remembers, Founding
<1>15. Revising(s)' /\ Redacting(s)' /\ Numbered(s)'
  BY <1>5, <1>8, <1>11 DEF Revising, Redacting, Numbered
<1>16. Remembers(s)'
  BY <1>7, <1>13, <1>14, <1>15 DEF Remembers
<1>17. /\ seq' \in Nat /\ seq' >= seq /\ DOMAIN want' = Sessions
       /\ draft'[s]["content"] \in Contents \cup {Unlocked}
       /\ \A t \in Sessions \ {s} : want'[t] = want[t]
  BY <1>1, <1>4, <1>5 DEF LogTypes
<1>18. \A t \in Sessions \ {s} : Holds(s, "content")' => ~Holds(t, "content")
  BY <1>1, <1>12 DEF ContentAlone
<1> QED  BY <1>6, <1>16, <1>17, <1>18, StepRemembers

LEMMA BootstrapRemembers ==
    ASSUME HistoryInvariant, AuditInvariant', NEW s \in Sessions, PostBootstrap(s)
    PROVE  HistoryInvariant'
<1>1. Ready(s, "wake") /\ Write(s, "wake", entry[s].seq)
  BY DEF PostBootstrap
<1>2. Writes("wake") = {"wake"} /\ "wake" \in Statements \ Firsts /\ "wake" \in Rows
  BY DEF Writes, Statements, Guarded, Firsts, Rows
<1>3. /\ Advances(s) /\ Apart(s) /\ Head(todo[s]) = "wake"
      /\ seq' = seq /\ want' = want /\ entry' = entry
      /\ draft'[s]["wake"] = entry[s].seq
      /\ \A other \in Rows \ {"wake"} : draft'[s][other] = draft[s][other]
  BY <1>1, <1>2, WriteChanges
<1>4. Remembers(s) /\ LogTypes /\ ContentAlone
  BY DEF HistoryInvariant
<1>5. /\ Duty(s)' /\ Employed(s)' /\ Authorised(s)' /\ Present(s)'
      /\ \A S : Has(todo'[s], S) => Has(todo[s], S)
      /\ \A S : Has(todo[s], S) => Head(todo[s]) \in S \/ Has(todo'[s], S)
      /\ Has(todo[s], {"wake"}) /\ call' = call
  BY <1>3, AdvanceRemembers
<1>6. call[s] = "individual.born"
  <2>1. Has(todo[s], {"found", "wake"})
    BY <1>5 DEF Has
  <2> QED  BY <1>4, <2>1 DEF Remembers, Duty
<1>7. ~Has(todo[s], {"event"})
  BY <1>3, Whereabouts
<1>8. entry[s] # NoEntry /\ entry[s].seq \in Nat
  <2>1. entry[s] # NoEntry
    BY <1>4, <1>6, <1>7 DEF Remembers, Founding
  <2>2. entry[s].seq \in 1 .. seq
    BY <1>4, <2>1 DEF Remembers, Numbered
  <2> QED  BY <1>4, <2>1, <2>2 DEF LogTypes
<1>9. Holds(s, "wake")'
  BY <1>2, <1>3, <1>8, UnlockedAssumption DEF Holds
<1>10. /\ \A row \in Rows \ {"wake"} : Holds(s, row)' <=> Holds(s, row)
       /\ table' = table /\ log' = log
  BY <1>3 DEF Holds, Apart
<1>11. Bound(s)'
  BY <1>4, <1>5, <1>6, <1>10 DEF Remembers, Bound, Rows
<1>12. Founding(s)'
  <2>1. \A st \in {"found", "event"} : Has(todo'[s], {st}) <=> Has(todo[s], {st})
    BY <1>3, <1>5
  <2>2. /\ draft'[s]["revisions"] = draft[s]["revisions"]
        /\ draft'[s]["principal"] = draft[s]["principal"]
        /\ Holds(s, "revisions")' <=> Holds(s, "revisions")
        /\ Holds(s, "principal")' <=> Holds(s, "principal")
    BY <1>3, <1>10 DEF Rows
  <2> QED  BY <1>3, <1>4, <1>6, <1>9, <2>1, <2>2 DEF Remembers, Founding
<1>13. Revising(s)' /\ Redacting(s)'
  BY <1>5, <1>6 DEF Revising, Redacting
<1>14. Numbered(s)'
  BY <1>3, <1>4, <1>5, <1>10 DEF Remembers, Numbered
<1>15. Remembers(s)'
  BY <1>5, <1>11, <1>12, <1>13, <1>14 DEF Remembers
<1>16. /\ seq' \in Nat /\ seq' >= seq /\ DOMAIN want' = Sessions
       /\ draft'[s]["content"] \in Contents \cup {Unlocked}
  BY <1>3, <1>4 DEF LogTypes, Rows
<1>17. \A t \in Sessions \ {s} : Holds(s, "content")' => ~Holds(t, "content")
  BY <1>4, <1>10 DEF ContentAlone, Rows
<1> QED  BY <1>3, <1>15, <1>16, <1>17, StepRemembers

LEMMA RedactRemembers ==
    ASSUME HistoryInvariant, AuditInvariant', NEW s \in Sessions, Redact(s)
    PROVE  HistoryInvariant'
<1> DEFINE value == IF Seen(s, "content").audit = 0 THEN [audit |-> entry[s].seq]
                    ELSE Seen(s, "content")
<1>1. Ready(s, "redact") /\ Write(s, "content", value)
  BY DEF Redact
<1> HIDE DEF value
<1>2. Writes("redact") = {"content"} /\ "redact" \in Statements \ Firsts /\ "content" \in Rows
  BY DEF Writes, Statements, Guarded, Firsts, Rows
<1>3. /\ Advances(s) /\ Apart(s) /\ Head(todo[s]) = "redact"
      /\ seq' = seq /\ want' = want /\ entry' = entry
      /\ draft'[s]["content"] = value
      /\ \A other \in Rows \ {"content"} : draft'[s][other] = draft[s][other]
  BY <1>1, <1>2, WriteChanges
<1>4. Remembers(s) /\ LogTypes /\ ContentAlone
  BY DEF HistoryInvariant
<1>5. /\ Duty(s)' /\ Employed(s)' /\ Authorised(s)' /\ Present(s)'
      /\ Has(todo[s], {"redact"}) /\ call' = call
  BY <1>3, AdvanceRemembers
<1>6. call[s] = "redact"
  BY <1>4, <1>5 DEF Remembers, Duty
<1>7. ~Has(todo[s], {"event"}) /\ ~Holds(s, "content")
  BY <1>3, Whereabouts
<1>8. entry[s] # NoEntry /\ entry[s].seq \in Nat
  <2>1. entry[s] # NoEntry
    BY <1>4, <1>6, <1>7 DEF Remembers, Redacting
  <2>2. entry[s].seq \in 1 .. seq
    BY <1>4, <2>1 DEF Remembers, Numbered
  <2> QED  BY <1>4, <2>1, <2>2 DEF LogTypes
<1>9. Seen(s, "content") = table["content"] /\ table["content"] \in Contents
  BY <1>4, <1>7 DEF Seen, LogTypes
<1>10. /\ value \in Contents
       /\ value.audit = IF table["content"].audit = 0 THEN entry[s].seq ELSE table["content"].audit
  BY <1>8, <1>9 DEF value, Contents
<1>11. Holds(s, "content")'
  BY <1>2, <1>3, <1>10, UnlockedAssumption DEF Holds
<1>12. /\ \A row \in Rows \ {"content"} : Holds(s, row)' <=> Holds(s, row)
       /\ table' = table /\ log' = log
  BY <1>3 DEF Holds, Apart
<1>13. Bound(s)'
  BY <1>4, <1>5, <1>6, <1>12 DEF Remembers, Bound, Rows
<1>14. Redacting(s)'
  BY <1>3, <1>8, <1>10, <1>11, <1>12 DEF Redacting
<1>15. Founding(s)' /\ Revising(s)'
  BY <1>5, <1>6 DEF Founding, Revising
<1>16. Numbered(s)'
  BY <1>3, <1>4, <1>5, <1>12 DEF Remembers, Numbered
<1>17. Remembers(s)'
  BY <1>5, <1>13, <1>14, <1>15, <1>16 DEF Remembers
<1>18. \A t \in Sessions \ {s} : ~Holds(t, "content")
  <2> SUFFICES ASSUME NEW t \in Sessions \ {s} PROVE ~Holds(t, "content")
    OBVIOUS
  <2>1. todo[s] # <<>> /\ Blockers(s) = {} /\ Accepted(s) /\ At(s, "redact")
    BY <1>1 DEF Ready, At
  <2>2. ~Refers(s) /\ Born(s) /\ Row("redact") = "content"
    BY <2>1 DEF Refers, At, Accepted, Row
  <2> QED  BY <1>3, <2>1, <2>2 DEF Blockers
<1>19. /\ seq' \in Nat /\ seq' >= seq /\ DOMAIN want' = Sessions
       /\ draft'[s]["content"] \in Contents \cup {Unlocked}
  BY <1>3, <1>4, <1>10 DEF LogTypes
<1> QED  BY <1>3, <1>17, <1>18, <1>19, StepRemembers

\* An event is numbered after everything that was committed, and tells what its
\* transaction has prepared.
LEMMA EventRemembers ==
    ASSUME HistoryInvariant, AuditInvariant', NEW s \in Sessions, AppendEvent(s)
    PROVE  HistoryInvariant'
<1> DEFINE e == [seq |-> seq + 1, op |-> call[s], by |-> Subject[s],
                 before |-> [f \in IF call[s] \in AdminCalls THEN Told(call[s]) ELSE {} |-> Before(s, f)],
                 after |-> [f \in Told(call[s]) |-> After(s, f)]]
<1>1. LockInvariant /\ RowTypes /\ Remembers(s) /\ LogTypes /\ ContentAlone
  BY DEF HistoryInvariant, AuditInvariant
<1>2. /\ Ready(s, "event") /\ seq' = seq + 1 /\ entry' = [entry EXCEPT ![s] = e]
      /\ sharing' = sharing \cup {s} /\ Proceed(s)
      /\ UNCHANGED <<table, log, draft, call, want, saw>>
  BY DEF AppendEvent
<1>3. Advances(s) /\ Head(todo[s]) = "event"
  BY <1>1, <1>2, ReadAdvances DEF Ready, At
<1>4. /\ entry'[s] = e /\ \A t \in Sessions \ {s} : entry'[t] = entry[t]
      /\ \A t \in Sessions \ {s} : todo'[t] = todo[t]
      /\ DOMAIN entry' = Sessions
  BY <1>1, <1>2 DEF RowTypes, LockInvariant, Types, Proceed
<1>5. /\ e.seq = seq + 1 /\ e.by = Subject[s] /\ e.op = call[s]
      /\ \A f \in Told(call[s]) : e.after[f] = After(s, f)
      /\ e # NoEntry
  <2>1. e # <<>>
    <3>1. "seq" \in DOMAIN e /\ DOMAIN << >> = {}
      OBVIOUS
    <3> QED  BY <3>1
  <2> QED  BY <2>1 DEF NoEntry
<1> HIDE DEF e
<1>6. Apart(s)
  BY <1>1, <1>2, <1>4 DEF Apart, RowTypes
<1>7. /\ Duty(s)' /\ Employed(s)' /\ Authorised(s)' /\ Present(s)'
      /\ call[s] # "individual.born" => IsBorn
      /\ \A S : Has(todo'[s], S) => Has(todo[s], S)
      /\ \A S : Has(todo[s], S) => Head(todo[s]) \in S \/ Has(todo'[s], S)
      /\ Has(todo[s], {"event"})
  BY <1>3, AdvanceRemembers
<1>8. /\ ~Has(todo[s], {"found"}) /\ ~Has(todo[s], {"revise"})
      /\ ~Holds(s, "wake") /\ ~Holds(s, "content")
  BY <1>3, Whereabouts
<1>9. /\ \A row : (Holds(s, row)' <=> Holds(s, row)) /\ Seen(s, row)' = Seen(s, row)
  BY <1>2 DEF Holds, Seen
<1>10. Bound(s)'
  BY <1>1, <1>2, <1>9 DEF Remembers, Bound
<1>11. /\ After(s, "config") = Active(Seen(s, "revisions"))
       /\ After(s, "principal") = Seen(s, "principal")
  BY DEF After, Value, Rows
<1>12. Founding(s)'
  <2> SUFFICES ASSUME call[s] = "individual.born" PROVE Founding(s)'
    BY <1>2 DEF Founding
  <2>1. /\ want[s] \in Configs /\ Holds(s, "revisions") /\ draft[s]["revisions"] = <<want[s]>>
        /\ Holds(s, "principal") /\ Has(todo[s], {"wake"})
    BY <1>1, <1>8 DEF Remembers, Founding
  <2>2. Has(todo'[s], {"wake"})
    BY <1>3, <1>7, <2>1
  <2>3. "config" \in Told(call[s]) /\ "principal" \in Told(call[s])
    BY CallNames DEF Told, PolicyCalls, BindingCalls
  <2>4. Active(<<want[s]>>) = want[s]
    <3>1. table["revisions"] \in Seq(Configs)
      BY <1>1 DEF LogTypes
    <3> QED  BY <2>1, <3>1, LastAppended
  <2>5. /\ e.after["config"] = want[s] /\ e.after["principal"] = draft[s]["principal"]
    BY <1>5, <1>11, <2>1, <2>3, <2>4 DEF Seen
  <2> QED  BY <1>2, <1>4, <1>5, <1>9, <2>1, <2>2, <2>5 DEF Founding
<1>13. Revising(s)'
  <2> SUFFICES ASSUME call[s] = "config.changed" PROVE Revising(s)'
    BY <1>2 DEF Revising
  <2>1. /\ want[s] \in Configs /\ Holds(s, "revisions")
        /\ draft[s]["revisions"] = Append(table["revisions"], want[s])
        /\ table["revisions"] \in Seq(Configs)
    BY <1>1, <1>7, <1>8 DEF Remembers, Revising, LogTypes
  <2>2. "config" \in Told(call[s])
    BY ToldBy
  <2>3. e.after["config"] = want[s]
    BY <1>5, <1>11, <2>1, <2>2, LastAppended DEF Seen
  <2> QED  BY <1>1, <1>2, <1>4, <1>9, <2>1, <2>3 DEF Remembers, Revising
<1>14. Redacting(s)'
  <2> SUFFICES ASSUME call[s] = "redact" PROVE Redacting(s)'
    BY <1>2 DEF Redacting
  <2>1. Has(todo[s], {"redact"})
    BY <1>1, <1>8 DEF Remembers, Redacting
  <2>2. Has(todo'[s], {"redact"})
    BY <1>3, <1>7, <2>1
  <2> QED  BY <1>4, <1>5, <1>8, <1>9, <2>2 DEF Redacting
<1>15. Numbered(s)'
  <2>1. call[s] \in Tellers \cup {"redact"}
    BY <1>1, <1>7 DEF Remembers, Duty
  <2>2. seq \in Nat /\ \A i \in DOMAIN log : log[i].seq \in 1 .. seq
    BY <1>1 DEF LogTypes
  <2>3. \A i \in DOMAIN log : log[i].seq < seq + 1
    BY <2>2
  <2>4. log # <<>> => 1 \in DOMAIN log
    BY <1>1 DEF RowTypes
  <2>5. seq + 1 \in 1 .. (seq + 1)
    BY <2>2
  <2> QED  BY <1>2, <1>4, <1>5, <2>1, <2>3, <2>4, <2>5 DEF Numbered
<1>16. Remembers(s)'
  BY <1>7, <1>10, <1>12, <1>13, <1>14, <1>15 DEF Remembers
<1>17. /\ seq' \in Nat /\ seq' >= seq /\ DOMAIN want' = Sessions
       /\ draft'[s]["content"] \in Contents \cup {Unlocked}
       /\ \A t \in Sessions \ {s} : want'[t] = want[t]
  BY <1>1, <1>2 DEF LogTypes
<1>18. \A t \in Sessions \ {s} : Holds(s, "content")' => ~Holds(t, "content")
  BY <1>8, <1>9
<1> QED  BY <1>6, <1>16, <1>17, <1>18, StepRemembers

LEMMA StatementRemembers ==
    ASSUME HistoryInvariant, NEW s \in Sessions, Statement(s)
    PROVE  HistoryInvariant'
<1>1. AuditInvariant /\ AuditInvariant'
  BY StatementTells DEF HistoryInvariant
<1>2. Seen(s, "individual") \in Individuals
  BY <1>1, GovernanceTypes
<1> USE DEF Statements, Firsts, Guarded, Rows, Writes
<1>3. CASE Lock(s)
  <2>1. PICK st \in {"individual", "principal", "governance"} :
            Ready(s, st) /\ Write(s, st, Seen(s, st))
    BY <1>3 DEF Lock
  <2> QED  BY <1>1, <1>2, <2>1, PlainWriteRemembers
<1>4. CASE LockBinding(s)
  BY <1>1, <1>4, PlainWriteRemembers DEF LockBinding
<1>5. CASE Look(s) \/ Mention(s)
  BY <1>1, <1>5, PlainReadRemembers
<1>6. CASE SetStatus(s)
  <2>1. PICK status \in NextStatuses(s) :
            Write(s, "individual", [status |-> status,
                                    revision |-> Seen(s, "individual").revision + 1])
    BY <1>6 DEF SetStatus
  <2>2. status \in Statuses
    <3>1. \A t \in Transitions : t[3] \in Statuses
      BY DEF Transitions, Statuses
    <3> QED  BY <2>1, <3>1 DEF NextStatuses
  <2> DEFINE value == [status |-> status, revision |-> Seen(s, "individual").revision + 1]
  <2>3. value \in Individuals
    BY <1>2, <2>2 DEF Individuals, Statuses
  <2>4. Ready(s, "status") /\ Write(s, "individual", value)
    BY <1>6, <2>1 DEF SetStatus
  <2> HIDE DEF value
  <2> QED  BY <1>1, <2>3, <2>4, PlainWriteRemembers
<1>7. CASE UpdateGovernance(s)
  <2>1. PICK st \in {"block", "unblock"} : \E value : Ready(s, st) /\ Write(s, "governance", value)
    BY <1>7 DEF UpdateGovernance
  <2> QED  BY <1>1, <2>1, PlainWriteRemembers
<1>8. CASE SetExploration(s)
  <2>1. \E value : Ready(s, "explore") /\ Write(s, "governance", value)
    BY <1>8 DEF SetExploration
  <2> QED  BY <1>1, <2>1, PlainWriteRemembers
<1>9. CASE SetBinding(s)
  <2>1. \E value : Ready(s, "binding") /\ Write(s, "binding", value)
    BY <1>9 DEF SetBinding
  <2> QED  BY <1>1, <2>1, PlainWriteRemembers
<1>10. CASE Revise(s)
  BY <1>1, <1>10, ReviseRemembers
<1>11. CASE Bear(s)
  <2> DEFINE value == [status |-> "active", revision |-> 1]
  <2>1. value \in Individuals
    BY DEF Individuals, Statuses
  <2>2. Ready(s, "born") /\ Write(s, "individual", value)
    BY <1>11 DEF Bear
  <2> HIDE DEF value
  <2> QED  BY <1>1, <2>1, <2>2, PlainWriteRemembers
<1>12. CASE Found(s)
  BY <1>1, <1>12, FoundRemembers
<1>13. CASE PostBootstrap(s)
  BY <1>1, <1>13, BootstrapRemembers
<1>14. CASE Redact(s)
  BY <1>1, <1>14, RedactRemembers
<1>15. CASE AppendEvent(s)
  BY <1>1, <1>15, EventRemembers
<1> QED
  BY <1>3, <1>4, <1>5, <1>6, <1>7, <1>8, <1>9, <1>10, <1>11, <1>12, <1>13, <1>14, <1>15
     DEF Statement

LEMMA BeginRemembers ==
    ASSUME HistoryInvariant, AuditInvariant', NEW s \in Sessions, NEW c \in Calls,
           NEW w \in Configs \cup {NoConfig},
           c \in {"individual.born", "config.changed"} => w # NoConfig,
           Begins(s, c, w)
    PROVE  HistoryInvariant'
<1>1. /\ LockInvariant /\ RowTypes /\ Remembers(s) /\ LogTypes /\ ContentAlone /\ Evident(s)
  BY DEF HistoryInvariant, AuditInvariant
<1>2. /\ todo'[s] = Script(c) /\ call'[s] = c /\ call[s] = NoCall /\ want'[s] = w
      /\ \A t \in Sessions \ {s} : /\ todo'[t] = todo[t] /\ call'[t] = call[t]
                                   /\ want'[t] = want[t]
      /\ DOMAIN want' = Sessions
      /\ UNCHANGED <<table, log, seq, draft, saw, entry>>
  BY <1>1 DEF Begins, LockInvariant, Types, LogTypes
<1>3. Apart(s)
  BY <1>1, <1>2 DEF Apart, RowTypes
<1>4. \A row \in Rows : ~Holds(s, row) /\ ~Holds(s, row)'
  BY <1>1, <1>2 DEF LockInvariant, SessionInvariant, Resting, Holds
<1>5. entry[s] = NoEntry
  BY <1>1, <1>2 DEF Evident, EntrySound
<1>6. {"principal", "revisions", "wake", "content"} \subseteq Rows
  BY DEF Rows
<1> HIDE DEF Calls
<1>7. /\ Has(Script(c), {"principal"}) <=> c \in AdminCalls
      /\ Has(Script(c), {"found"}) <=> c = "individual.born"
      /\ Has(Script(c), {"wake"}) <=> c = "individual.born"
      /\ Has(Script(c), {"redact"}) <=> c = "redact"
      /\ Has(Script(c), {"event"}) <=> c \in Tellers \cup {"redact"}
      /\ c \in Tellers => Has(Script(c), Firsts)
      /\ Has(Script(c), {"revise"}) <=> c = "config.changed"
  BY Roles
<1>8. Duty(s)'
  <2>1. Has(Script(c), {"found", "wake"}) => Has(Script(c), {"found"}) \/ Has(Script(c), {"wake"})
    BY DEF Has
  <2> QED  BY <1>2, <1>7, <2>1 DEF Duty
<1>9. Bound(s)' /\ Employed(s)' /\ Present(s)' /\ Authorised(s)'
  BY <1>2, <1>4, <1>5, <1>6, <1>7 DEF Bound, Employed, Present, Authorised
<1>10. "individual.born" \in Tellers /\ "config.changed" \in Tellers
  BY DEF Tellers
<1>11. Founding(s)' /\ Revising(s)' /\ Redacting(s)' /\ Numbered(s)'
  BY <1>2, <1>4, <1>5, <1>6, <1>7, <1>10 DEF Founding, Revising, Redacting, Numbered
<1>12. Remembers(s)'
  BY <1>8, <1>9, <1>11 DEF Remembers
<1>13. /\ seq' \in Nat /\ seq' >= seq
       /\ draft'[s]["content"] \in Contents \cup {Unlocked}
  BY <1>1, <1>2 DEF LogTypes
<1>14. \A t \in Sessions \ {s} : Holds(s, "content")' => ~Holds(t, "content")
  BY <1>4, <1>6
<1> QED  BY <1>2, <1>3, <1>12, <1>13, <1>14, StepRemembers

-----------------------------------------------------------------------------
(* The end of a transaction *)

\* Who has ended prepares nothing.
LEMMA ReleasedRemembers ==
    ASSUME HistoryInvariant, NEW s \in Sessions, Released(s)
    PROVE  /\ Remembers(s)'
           /\ \A row \in Rows : ~Holds(s, row)' /\ draft'[s][row] = Unlocked
           /\ DOMAIN saw' = Sessions /\ DOMAIN entry' = Sessions /\ DOMAIN want' = Sessions
           /\ \A t \in Sessions \ {s} :
                 /\ todo'[t] = todo[t] /\ draft'[t] = draft[t] /\ call'[t] = call[t]
                 /\ saw'[t] = saw[t] /\ entry'[t] = entry[t] /\ want'[t] = want[t]
<1>1. LockInvariant /\ RowTypes /\ LogTypes
  BY DEF HistoryInvariant, AuditInvariant
<1>2. /\ todo'[s] = <<>> /\ call'[s] = NoCall /\ entry'[s] = NoEntry
      /\ \A row \in Rows : draft'[s][row] = Unlocked
      /\ DOMAIN saw' = Sessions /\ DOMAIN entry' = Sessions /\ DOMAIN want' = Sessions
      /\ \A t \in Sessions \ {s} :
            /\ todo'[t] = todo[t] /\ draft'[t] = draft[t] /\ call'[t] = call[t]
            /\ saw'[t] = saw[t] /\ entry'[t] = entry[t] /\ want'[t] = want[t]
  BY <1>1 DEF Released, LockInvariant, Types, RowTypes, LogTypes
<1>3. /\ \A row \in Rows : ~Holds(s, row)'
      /\ \A S : ~Has(todo'[s], S)
  BY <1>2 DEF Holds, Has
<1>4. ~Holds(s, "principal")' /\ ~Holds(s, "revisions")' /\ ~Holds(s, "wake")' /\ ~Holds(s, "content")'
  BY <1>3 DEF Rows
<1>5. NoCall \notin Tellers /\ NoCall \notin AdminCalls
      /\ NoCall \notin {"individual.born", "config.changed", "redact"}
  BY CallAssumption DEF OperatorCalls, Tellers
<1>6. Duty(s)' /\ Bound(s)' /\ Employed(s)' /\ Present(s)' /\ Authorised(s)'
  BY <1>2, <1>3, <1>4, <1>5 DEF Duty, Bound, Employed, Present, Authorised
<1>7. Founding(s)' /\ Revising(s)' /\ Redacting(s)' /\ Numbered(s)'
  BY <1>2, <1>5 DEF Founding, Revising, Redacting, Numbered
<1>8. Remembers(s)'
  BY <1>6, <1>7 DEF Remembers
<1> QED  BY <1>2, <1>3, <1>8

LEMMA StopsRemembers ==
    ASSUME HistoryInvariant, AuditInvariant', NEW s \in Sessions, Released(s),
           UNCHANGED <<table, log, seq>>
    PROVE  HistoryInvariant'
<1>1. Apart(s) /\ Remembers(s)'
  BY ReleasedRemembers DEF Apart
<1>2. "content" \in Rows
  BY DEF Rows
<1>3. /\ draft'[s]["content"] \in Contents \cup {Unlocked} /\ ~Holds(s, "content")'
      /\ DOMAIN want' = Sessions /\ \A t \in Sessions \ {s} : want'[t] = want[t]
  BY <1>2, ReleasedRemembers
<1>4. seq' \in Nat /\ seq' >= seq
  BY DEF HistoryInvariant, LogTypes
<1> QED  BY <1>1, <1>3, <1>4, StepRemembers

\* What a transaction that commits leaves in the rows of its individual.
LEMMA CommitLeaves ==
    ASSUME HistoryInvariant, NEW s \in Sessions, Commit(s)
    PROVE  /\ \A row \in Rows : ~Holds(s, row) => table'[row] = table[row]
           /\ \A row \in Rows : Holds(s, row) => table'[row] = draft[s][row]
           /\ IsBorn => IsBorn' /\ call[s] # "individual.born"
           /\ IsBorn => log # <<>>
           /\ entry[s] # NoEntry /\ ~IsBorn => call[s] = "individual.born"
           /\ IsBorn' => IsBorn \/ entry[s] # NoEntry
           /\ call[s] = "individual.born" =>
                  /\ log = <<>> /\ entry[s] # NoEntry
                  /\ want[s] \in Configs /\ table'["revisions"] = <<want[s]>>
                  /\ entry[s].after["config"] = want[s]
                  /\ table'["principal"] = entry[s].after["principal"]
                  /\ table'["wake"] = entry[s].seq
           /\ call[s] # "individual.born" =>
                  /\ table'["principal"] = table["principal"]
                  /\ table'["wake"] = table["wake"]
           /\ call[s] \in Tellers => Holds(s, "individual")
<1>1. Remembers(s) /\ AuditInvariant /\ Evident(s) /\ Lives /\ Recorded
  BY DEF HistoryInvariant, AuditInvariant
<1>2. /\ table' = [row \in Rows |-> Seen(s, row)] /\ \A S : ~Has(todo[s], S)
  BY DEF Commit, Has
<1>3. /\ \A row \in Rows : ~Holds(s, row) => table'[row] = table[row]
      /\ \A row \in Rows : Holds(s, row) => table'[row] = draft[s][row]
  BY <1>2 DEF Seen
<1>4. {"individual", "principal", "revisions", "wake"} \subseteq Rows
  BY DEF Rows
<1>5. call[s] = "individual.born" => log = <<>> /\ ~IsBorn
  BY <1>1, CommitExact DEF IsBorn
<1>6. IsBorn => IsBorn'
  <2>1. CASE Holds(s, "individual")
    BY <1>1, <1>3, <1>4, <2>1 DEF Lives, IsBorn
  <2>2. CASE ~Holds(s, "individual")
    BY <1>3, <1>4, <2>2 DEF IsBorn
  <2> QED  BY <2>1, <2>2
<1>7. IsBorn => log # <<>>
  BY <1>1 DEF Recorded, Genesis
<1>8. call[s] = "individual.born" =>
          /\ entry[s] # NoEntry /\ want[s] \in Configs
          /\ Holds(s, "revisions") /\ draft[s]["revisions"] = <<want[s]>>
          /\ Holds(s, "principal") /\ Holds(s, "wake") /\ draft[s]["wake"] = entry[s].seq
          /\ entry[s].after["config"] = want[s]
          /\ entry[s].after["principal"] = draft[s]["principal"]
  BY <1>1, <1>2 DEF Remembers, Founding
<1>9. entry[s] # NoEntry /\ ~IsBorn => call[s] = "individual.born"
  BY <1>1 DEF Remembers, Present
<1>10. IsBorn' => IsBorn \/ entry[s] # NoEntry
  <2>1. CASE call[s] = "individual.born"
    BY <1>8, <2>1
  <2>2. CASE call[s] # "individual.born"
    <3>1. Holds(s, "individual") => IsBorn
      BY <1>1, <1>4, <2>2 DEF Remembers, Present
    <3> QED  BY <1>3, <1>4, <3>1 DEF IsBorn
  <2> QED  BY <2>1, <2>2
<1>11. ASSUME call[s] # "individual.born"
       PROVE  /\ table'["principal"] = table["principal"]
              /\ table'["wake"] = table["wake"]
  <2>1. ~Holds(s, "wake")
    BY <1>1, <1>11 DEF Remembers, Bound
  <2>2. "principal" \notin Told(call[s])
    BY <1>11, CallNames DEF Told
  <2>3. Value(View(s), "principal") = Value(table, "principal")
    BY <1>1, <1>11, <2>2 DEF Evident, Changes, Plain
  <2>4. View(s)["principal"] = table["principal"]
    BY <2>3 DEF Value
  <2> QED  BY <1>2, <1>3, <1>4, <2>1, <2>4 DEF View
<1>12. call[s] \in Tellers => Holds(s, "individual")
  BY <1>1, <1>2 DEF Remembers, Employed
<1> QED
  BY <1>3, <1>4, <1>5, <1>6, <1>7, <1>8, <1>9, <1>10, <1>11, <1>12

\* The log of a transaction that commits.
LEMMA CommitLog ==
    ASSUME HistoryInvariant, NEW s \in Sessions, Commit(s)
    PROVE  /\ Len(log) \in Nat /\ DOMAIN log = 1 .. Len(log)
           /\ log # <<>> <=> Len(log) > 0
           /\ entry[s] = NoEntry => log' = log
           /\ entry[s] # NoEntry => /\ DOMAIN log' = 1 .. (Len(log) + 1) /\ log' # <<>>
                                    /\ \A i \in 1 .. Len(log) : log'[i] = log[i]
                                    /\ log'[Len(log) + 1] = entry[s]
<1>1. PICK S : log \in Seq(S)
  BY DEF HistoryInvariant, AuditInvariant, RowTypes
<1>2. log' = IF entry[s] = NoEntry THEN log ELSE Append(log, entry[s])
  BY DEF Commit
<1>3. log \in Seq(S \cup {entry[s]})
  BY <1>1
<1>4. /\ Len(log) \in Nat /\ DOMAIN log = 1 .. Len(log)
      /\ log # <<>> <=> Len(log) > 0
  BY <1>3
<1>5. /\ DOMAIN Append(log, entry[s]) = 1 .. (Len(log) + 1)
      /\ \A i \in 1 .. Len(log) : Append(log, entry[s])[i] = log[i]
      /\ Append(log, entry[s])[Len(log) + 1] = entry[s]
      /\ Append(log, entry[s]) # <<>>
  BY <1>3
<1> QED  BY <1>2, <1>4, <1>5

\* What others have prepared is not touched by it.
LEMMA CommitOthers ==
    ASSUME HistoryInvariant, NEW s \in Sessions, Commit(s), NEW t \in Sessions \ {s}
    PROVE  Remembers(t)'
<1>1. /\ Remembers(t) /\ Remembers(s) /\ AuditInvariant /\ LockInvariant /\ Evident(t) /\ Evident(s)
      /\ LogTypes /\ ContentAlone /\ Lives
  BY DEF HistoryInvariant, AuditInvariant
<1>2. /\ todo'[t] = todo[t] /\ draft'[t] = draft[t] /\ call'[t] = call[t]
      /\ entry'[t] = entry[t] /\ want'[t] = want[t] /\ seq' = seq
  BY ReleasedRemembers DEF Commit
<1>3. \A row : Holds(t, row)' <=> Holds(t, row)
  BY <1>2 DEF Holds
<1>4. /\ IsBorn => IsBorn' /\ call[s] # "individual.born" /\ log # <<>>
      /\ call[s] # "individual.born" => table'["principal"] = table["principal"]
      /\ \A row \in Rows : ~Holds(s, row) => table'[row] = table[row]
      /\ entry[s] # NoEntry /\ ~IsBorn => call[s] = "individual.born"
      /\ call[s] = "individual.born" => log = <<>>
      /\ call[s] \in Tellers => Holds(s, "individual")
  BY CommitLeaves
<1>5. Duty(t)' /\ Bound(t)' /\ Employed(t)'
  BY <1>1, <1>2, <1>3 DEF Remembers, Duty, Bound, Employed
<1>6. Present(t)' /\ Authorised(t)'
  BY <1>1, <1>2, <1>3, <1>4 DEF Remembers, Present, Authorised
<1>7. Founding(t)'
  BY <1>1, <1>2, <1>3 DEF Remembers, Founding
<1>8. Revising(t)'
  <2>1. Holds(t, "revisions") => table'["revisions"] = table["revisions"]
    <3>1. Holds(t, "revisions") => ~Holds(s, "revisions")
      BY <1>1, RowsApart DEF AuditInvariant, Rows
    <3> QED  BY <1>4, <3>1 DEF Rows
  <2> QED  BY <1>1, <1>2, <1>3, <2>1 DEF Remembers, Revising
<1>9. Redacting(t)'
  <2>1. Holds(t, "content") => table'["content"] = table["content"]
    <3>1. Holds(t, "content") => ~Holds(s, "content")
      BY <1>1 DEF ContentAlone
    <3> QED  BY <1>4, <3>1 DEF Rows
  <2> QED  BY <1>1, <1>2, <1>3, <2>1 DEF Remembers, Redacting
<1>10. Numbered(t)'
  <2> SUFFICES ASSUME entry[t] # NoEntry
               PROVE  /\ call[t] # "redact" =>
                             \A i \in DOMAIN log' : log'[i].op # "redact" => log'[i].seq < entry[t].seq
                      /\ log' # <<>> => log'[1].seq < entry[t].seq
    BY <1>1, <1>2 DEF Remembers, Numbered
  <2>1. /\ call[t] \in Tellers \cup {"redact"}
        /\ call[t] # "redact" =>
               \A i \in DOMAIN log : log[i].op # "redact" => log[i].seq < entry[t].seq
        /\ log # <<>> => log[1].seq < entry[t].seq
    BY <1>1 DEF Remembers, Numbered
  <2>2. /\ Len(log) \in Nat /\ DOMAIN log = 1 .. Len(log)
        /\ log # <<>> <=> Len(log) > 0
        /\ entry[s] = NoEntry => log' = log
        /\ entry[s] # NoEntry => /\ DOMAIN log' = 1 .. (Len(log) + 1) /\ log' # <<>>
                                 /\ \A i \in 1 .. Len(log) : log'[i] = log[i]
                                 /\ log'[Len(log) + 1] = entry[s]
    BY CommitLog
  <2>3. CASE entry[s] = NoEntry
    BY <2>1, <2>2, <2>3
  <2>4. CASE entry[s] # NoEntry
    <3>1. /\ entry[s].op = call[s] /\ call[s] \in Tellers \cup {"redact"}
      BY <1>1, <2>4 DEF Evident, EntrySound, Remembers, Numbered
    <3>2. call[t] # "redact" => Holds(t, "individual")
      <4>1. ~Has(todo[t], Firsts)
        <5>1. \A i \in DOMAIN todo[t] : todo[t][i] \in {"wake", "redact"}
          BY <1>1 DEF Evident, EntrySound
        <5> QED  BY <5>1 DEF Has, Firsts
      <4> QED  BY <1>1, <2>1, <4>1 DEF Remembers, Employed
    <3>3. call[t] # "redact" => call[s] = "redact"
      BY <1>1, <1>4, <3>1, <3>2 DEF LockInvariant, Exclusive
    <3>4. log # <<>>
      <4>1. CASE call[t] = "individual.born"
        <5>1. call[s] # "individual.born"
          BY <3>3, <4>1
        <5> QED  BY <1>4, <2>4, <5>1
      <4>2. CASE call[t] # "individual.born"
        BY <1>1, <1>4, <4>2 DEF Remembers, Present
      <4> QED  BY <4>1, <4>2
    <3>5. 1 \in 1 .. Len(log)
      BY <2>2, <3>4
    <3>6. ASSUME call[t] # "redact", NEW i \in DOMAIN log', log'[i].op # "redact"
          PROVE  log'[i].seq < entry[t].seq
      <4>1. CASE i \in 1 .. Len(log)
        BY <2>1, <2>2, <2>4, <3>6, <4>1
      <4>2. CASE i = Len(log) + 1
        BY <2>2, <2>4, <3>1, <3>3, <3>6, <4>2
      <4>3. i \in 1 .. Len(log) \/ i = Len(log) + 1
        BY <2>2, <2>4
      <4> QED  BY <4>1, <4>2, <4>3
    <3> QED  BY <2>1, <2>2, <2>4, <3>4, <3>5, <3>6
  <2> QED  BY <2>3, <2>4
<1> QED  BY <1>5, <1>6, <1>7, <1>8, <1>9, <1>10 DEF Remembers

\* The event of a transaction that commits.
LEMMA CommitEntry ==
    ASSUME HistoryInvariant, NEW s \in Sessions, Commit(s), entry[s] # NoEntry
    PROVE  /\ entry[s].seq \in 1 .. seq
           /\ entry[s].op = call[s] /\ call[s] \in Tellers \cup {"redact"}
           /\ DOMAIN entry[s].after = Told(call[s])
           /\ DOMAIN entry[s].before = IF call[s] \in AdminCalls THEN Told(call[s]) ELSE {}
           /\ call[s] \in AdminCalls => entry[s].by = table["principal"]
           /\ call[s] # "redact" =>
                  \A i \in DOMAIN log : log[i].op # "redact" => log[i].seq < entry[s].seq
           /\ log # <<>> => log[1].seq < entry[s].seq
<1>1. Remembers(s) /\ Evident(s)
  BY DEF HistoryInvariant, AuditInvariant
<1>2. ~Has(todo[s], {"principal"})
  BY DEF Commit, Has
<1>3. /\ entry[s].op = call[s] /\ DOMAIN entry[s].after = Told(call[s])
      /\ DOMAIN entry[s].before = IF call[s] \in AdminCalls THEN Told(call[s]) ELSE {}
  BY <1>1 DEF Evident, EntrySound
<1>4. /\ entry[s].seq \in 1 .. seq /\ call[s] \in Tellers \cup {"redact"}
      /\ entry[s].by = Subject[s]
      /\ call[s] # "redact" =>
             \A i \in DOMAIN log : log[i].op # "redact" => log[i].seq < entry[s].seq
      /\ log # <<>> => log[1].seq < entry[s].seq
  BY <1>1 DEF Remembers, Numbered
<1>5. call[s] \in AdminCalls => Subject[s] = table["principal"]
  BY <1>1, <1>2 DEF Remembers, Authorised
<1> QED  BY <1>3, <1>4, <1>5

LEMMA CommitTelling ==
    ASSUME HistoryInvariant, NEW s \in Sessions, Commit(s), NEW f
    PROVE  /\ Telling(f) \subseteq 1 .. Len(log) /\ Len(log) \in Nat
           /\ Telling(f)' = IF entry[s] # NoEntry /\ f \in Told(call[s])
                            THEN Telling(f) \cup {Len(log) + 1} ELSE Telling(f)
           /\ \A i \in Telling(f) : log'[i] = log[i]
<1>1. /\ Len(log) \in Nat /\ DOMAIN log = 1 .. Len(log)
      /\ entry[s] = NoEntry => log' = log
      /\ entry[s] # NoEntry => /\ DOMAIN log' = 1 .. (Len(log) + 1)
                               /\ \A i \in 1 .. Len(log) : log'[i] = log[i]
                               /\ log'[Len(log) + 1] = entry[s]
  BY CommitLog
<1>2. Telling(f) \subseteq 1 .. Len(log)
  BY <1>1 DEF Telling
<1>3. CASE entry[s] = NoEntry
  BY <1>1, <1>2, <1>3 DEF Telling
<1>4. CASE entry[s] # NoEntry
  <2>1. DOMAIN entry[s].after = Told(call[s])
    BY <1>4, CommitEntry
  <2>2. \A i : i \in Telling(f)' <=> \/ i \in Telling(f)
                                     \/ i = Len(log) + 1 /\ f \in Told(call[s])
    <3> TAKE i
    <3>1. i \in DOMAIN log' <=> i \in DOMAIN log \/ i = Len(log) + 1
      BY <1>1, <1>4
    <3>2. Len(log) + 1 \notin DOMAIN log
      BY <1>1
    <3>3. i \in DOMAIN log => log'[i] = log[i]
      BY <1>1, <1>4
    <3>4. log'[Len(log) + 1] = entry[s]
      BY <1>1, <1>4
    <3> QED  BY <2>1, <3>1, <3>2, <3>3, <3>4 DEF Telling
  <2> QED  BY <1>1, <1>2, <1>4, <2>2
<1> QED  BY <1>3, <1>4

LEMMA CommitRevisions ==
    ASSUME HistoryInvariant, NEW s \in Sessions, Commit(s)
    PROVE  /\ call[s] = "config.changed" /\ entry[s] # NoEntry =>
                  /\ want[s] \in Configs /\ entry[s].after["config"] = want[s]
                  /\ table'["revisions"] = Append(table["revisions"], want[s])
                  /\ Active(table["revisions"]) # want[s]
           /\ call[s] # "individual.born" /\ ~(call[s] = "config.changed" /\ entry[s] # NoEntry) =>
                  table'["revisions"] = table["revisions"]
<1>1. Remembers(s) /\ Evident(s)
  BY DEF HistoryInvariant, AuditInvariant
<1>2. /\ \A row \in Rows : ~Holds(s, row) => table'[row] = table[row]
      /\ \A row \in Rows : Holds(s, row) => table'[row] = draft[s][row]
      /\ "revisions" \in Rows
  BY CommitLeaves DEF Rows
<1>3. call[s] = "config.changed" /\ entry[s] # NoEntry =>
          /\ Holds(s, "revisions") /\ want[s] \in Configs /\ entry[s].after["config"] = want[s]
          /\ draft[s]["revisions"] = Append(table["revisions"], want[s])
          /\ Active(table["revisions"]) # want[s]
  BY <1>1 DEF Remembers, Revising
<1>4. call[s] # "individual.born" /\ Holds(s, "revisions") => call[s] = "config.changed"
  BY <1>1 DEF Remembers, Bound
<1>5. call[s] = "config.changed" /\ entry[s] = NoEntry => ~Holds(s, "revisions")
  <2>1. call[s] = "config.changed" => Told(call[s]) # {}
    BY ToldBy
  <2>2. ~Has(todo[s], {"event"})
    BY DEF Commit, Has
  <2> QED  BY <1>1, <2>1, <2>2 DEF Evident, EventDue
<1> QED  BY <1>2, <1>3, <1>4, <1>5

LEMMA CommitContent ==
    ASSUME HistoryInvariant, NEW s \in Sessions, Commit(s)
    PROVE  /\ call[s] = "redact" =>
                  /\ entry[s] # NoEntry
                  /\ table'["content"].audit = IF table["content"].audit = 0 THEN entry[s].seq
                                               ELSE table["content"].audit
           /\ call[s] # "redact" => table'["content"] = table["content"]
           /\ table'["content"] \in Contents
<1>1. Remembers(s) /\ LogTypes
  BY DEF HistoryInvariant
<1>2. /\ \A row \in Rows : ~Holds(s, row) => table'[row] = table[row]
      /\ \A row \in Rows : Holds(s, row) => table'[row] = draft[s][row]
      /\ "content" \in Rows
  BY CommitLeaves DEF Rows
<1>3. call[s] # "redact" => ~Holds(s, "content")
  BY <1>1 DEF Remembers, Bound
<1>4. ~Has(todo[s], {"event"}) /\ ~Has(todo[s], {"redact"})
  BY DEF Commit, Has
<1>5. call[s] = "redact" =>
          /\ entry[s] # NoEntry /\ Holds(s, "content")
          /\ draft[s]["content"].audit = IF table["content"].audit = 0 THEN entry[s].seq
                                         ELSE table["content"].audit
  BY <1>1, <1>4 DEF Remembers, Redacting
<1>6. Holds(s, "content") => draft[s]["content"] \in Contents
  BY <1>1, <1>2 DEF LogTypes, Holds
<1> QED  BY <1>1, <1>2, <1>3, <1>5, <1>6 DEF LogTypes

LEMMA CommitTypes ==
    ASSUME HistoryInvariant, NEW s \in Sessions, Commit(s)
    PROVE  LogTypes'
<1>1. LogTypes /\ seq' = seq
  BY DEF HistoryInvariant, Commit
<1>2. table'["revisions"] \in Seq(Configs)
  <2>1. CASE call[s] = "individual.born"
    <3>1. want[s] \in Configs /\ table'["revisions"] = <<want[s]>>
      BY <2>1, CommitLeaves
    <3> QED  BY <3>1
  <2>2. CASE call[s] = "config.changed" /\ entry[s] # NoEntry
    <3>1. want[s] \in Configs /\ table'["revisions"] = Append(table["revisions"], want[s])
      BY <2>2, CommitRevisions
    <3> QED  BY <1>1, <3>1, LastAppended DEF LogTypes
  <2>3. CASE call[s] # "individual.born" /\ ~(call[s] = "config.changed" /\ entry[s] # NoEntry)
    BY <1>1, <2>3, CommitRevisions DEF LogTypes
  <2> QED  BY <2>1, <2>2, <2>3
<1>3. table'["content"] \in Contents
  BY CommitContent
<1>4. \A t \in Sessions : draft'[t]["content"] \in Contents \cup {Unlocked}
  <2>1. draft'[s]["content"] = Unlocked
    BY ReleasedRemembers DEF Commit, Rows
  <2>2. \A t \in Sessions \ {s} : draft'[t] = draft[t]
    BY ReleasedRemembers DEF Commit
  <2> QED  BY <1>1, <2>1, <2>2 DEF LogTypes
<1>5. DOMAIN want' = Sessions
  BY ReleasedRemembers DEF Commit
<1>6. \A i \in DOMAIN log' :
        /\ log'[i].seq \in 1 .. seq
        /\ log'[i].op \in Tellers \cup {"redact"}
        /\ DOMAIN log'[i].after = Told(log'[i].op)
  <2>1. CASE entry[s] = NoEntry
    BY <1>1, <2>1, CommitLog DEF LogTypes
  <2>2. CASE entry[s] # NoEntry
    <3> SUFFICES ASSUME NEW i \in DOMAIN log'
                 PROVE  /\ log'[i].seq \in 1 .. seq
                        /\ log'[i].op \in Tellers \cup {"redact"}
                        /\ DOMAIN log'[i].after = Told(log'[i].op)
      OBVIOUS
    <3>1. (i \in DOMAIN log /\ log'[i] = log[i]) \/ log'[i] = entry[s]
      BY <2>2, CommitLog
    <3>2. /\ entry[s].seq \in 1 .. seq /\ entry[s].op \in Tellers \cup {"redact"}
          /\ DOMAIN entry[s].after = Told(entry[s].op)
      BY <2>2, CommitEntry
    <3> QED  BY <1>1, <3>1, <3>2 DEF LogTypes
  <2> QED  BY <2>1, <2>2
<1> QED  BY <1>1, <1>2, <1>3, <1>4, <1>5, <1>6 DEF LogTypes

LEMMA CommitAscends ==
    ASSUME HistoryInvariant, NEW s \in Sessions, Commit(s)
    PROVE  Ascends'
<1>1. Ascends
  BY DEF HistoryInvariant, Recorded
<1>2. /\ Len(log) \in Nat /\ DOMAIN log = 1 .. Len(log)
      /\ entry[s] = NoEntry => log' = log
      /\ entry[s] # NoEntry => /\ DOMAIN log' = 1 .. (Len(log) + 1)
                               /\ \A i \in 1 .. Len(log) : log'[i] = log[i]
                               /\ log'[Len(log) + 1] = entry[s]
  BY CommitLog
<1>3. CASE entry[s] = NoEntry
  BY <1>1, <1>2, <1>3 DEF Ascends
<1>4. CASE entry[s] # NoEntry
  <2> SUFFICES ASSUME NEW i \in DOMAIN log', NEW j \in DOMAIN log', i < j,
                      log'[i].op # "redact", log'[j].op # "redact"
               PROVE  log'[i].seq < log'[j].seq
    BY DEF Ascends
  <2>1. i \in 1 .. Len(log) /\ log'[i] = log[i]
    BY <1>2, <1>4
  <2>2. CASE j \in 1 .. Len(log)
    BY <1>1, <1>2, <1>4, <2>1, <2>2 DEF Ascends
  <2>3. CASE j = Len(log) + 1
    <3>1. log'[j] = entry[s]
      BY <1>2, <1>4, <2>3
    <3>2. entry[s].op = call[s]
      BY <1>4, CommitEntry
    <3>3. log[i].seq < entry[s].seq
      BY <1>2, <1>4, <2>1, <3>1, <3>2, CommitEntry
    <3> QED  BY <2>1, <3>1, <3>3
  <2> QED  BY <1>2, <1>4, <2>2, <2>3
<1> QED  BY <1>3, <1>4

LEMMA CommitGenesis ==
    ASSUME HistoryInvariant, NEW s \in Sessions, Commit(s)
    PROVE  Genesis'
<1>1. Genesis /\ LogTypes
  BY DEF HistoryInvariant, Recorded
<1>2. /\ Len(log) \in Nat /\ DOMAIN log = 1 .. Len(log) /\ (log # <<>> <=> Len(log) > 0)
      /\ entry[s] = NoEntry => log' = log
      /\ entry[s] # NoEntry => /\ DOMAIN log' = 1 .. (Len(log) + 1) /\ log' # <<>>
                               /\ \A i \in 1 .. Len(log) : log'[i] = log[i]
                               /\ log'[Len(log) + 1] = entry[s]
  BY CommitLog
<1>3. /\ IsBorn => log # <<>> /\ call[s] # "individual.born"
      /\ entry[s] # NoEntry /\ ~IsBorn => call[s] = "individual.born"
      /\ IsBorn' => IsBorn \/ entry[s] # NoEntry
      /\ call[s] = "individual.born" =>
             /\ log = <<>> /\ entry[s] # NoEntry
             /\ want[s] \in Configs /\ table'["revisions"] = <<want[s]>>
             /\ entry[s].after["config"] = want[s]
             /\ table'["principal"] = entry[s].after["principal"]
             /\ table'["wake"] = entry[s].seq
      /\ call[s] # "individual.born" =>
             /\ table'["principal"] = table["principal"]
             /\ table'["wake"] = table["wake"]
  BY CommitLeaves
<1>4. IsBorn' => log' # <<>>
  BY <1>2, <1>3
<1>5. CASE call[s] = "individual.born"
  <2>1. DOMAIN log' = 1 .. 1 /\ log'[1] = entry[s] /\ Len(log) = 0
    BY <1>2, <1>3, <1>5
  <2>2. entry[s].op = "individual.born"
    BY <1>3, <1>5, CommitEntry
  <2>3. "individual.born" \notin AdminCalls
    BY CallNames DEF AdminCalls, PolicyCalls, BindingCalls
  <2>4. <<want[s]>> # <<>> /\ <<want[s]>>[1] = want[s]
    OBVIOUS
  <2>5. \A i \in DOMAIN log' : i = 1
    BY <2>1
  <2> QED  BY <1>3, <1>4, <1>5, <2>1, <2>2, <2>3, <2>4, <2>5 DEF Genesis
<1>6. CASE call[s] # "individual.born"
  <2>1. CASE log = <<>>
    <3>1. ~IsBorn /\ entry[s] = NoEntry
      BY <1>1, <1>3, <1>6, <2>1 DEF Genesis
    <3> QED  BY <1>2, <1>4, <2>1, <3>1 DEF Genesis
  <2>2. CASE log # <<>>
    <3>1. 1 \in DOMAIN log /\ log'[1] = log[1] /\ log' # <<>>
      BY <1>2, <2>2
    <3>2. /\ table["revisions"] # <<>> /\ table["revisions"][1] = log[1].after["config"]
          /\ table["principal"] = log[1].after["principal"] /\ table["wake"] = log[1].seq
      BY <1>1, <2>2 DEF Genesis
    <3>3. table'["revisions"] # <<>> /\ table'["revisions"][1] = table["revisions"][1]
      <4>1. CASE call[s] = "config.changed" /\ entry[s] # NoEntry
        <5>1. /\ table'["revisions"] = Append(table["revisions"], want[s]) /\ want[s] \in Configs
              /\ table["revisions"] \in Seq(Configs)
          BY <1>1, <4>1, CommitRevisions DEF LogTypes
        <5> QED  BY <3>2, <5>1
      <4>2. CASE ~(call[s] = "config.changed" /\ entry[s] # NoEntry)
        BY <1>6, <3>2, <4>2, CommitRevisions
      <4> QED  BY <4>1, <4>2
    <3>4. ASSUME NEW i \in DOMAIN log'
          PROVE  /\ log'[i].op = "individual.born" <=> i = 1
                 /\ i # 1 => log'[1].seq < log'[i].seq
                 /\ log'[i].op \in AdminCalls => log'[i].by = table'["principal"]
      <4>1. CASE i \in DOMAIN log
        <5>1. log'[i] = log[i]
          BY <1>2, <4>1
        <5> QED  BY <1>1, <1>3, <1>6, <3>1, <4>1, <5>1 DEF Genesis
      <4>2. CASE i \notin DOMAIN log
        <5>1. entry[s] # NoEntry /\ i = Len(log) + 1 /\ i # 1 /\ log'[i] = entry[s]
          BY <1>2, <2>2, <4>2
        <5>2. /\ entry[s].op = call[s] /\ log[1].seq < entry[s].seq
              /\ call[s] \in AdminCalls => entry[s].by = table["principal"]
          BY <2>2, <5>1, CommitEntry
        <5> QED  BY <1>3, <1>6, <3>1, <5>1, <5>2
      <4> QED  BY <4>1, <4>2
    <3> QED  BY <1>3, <1>6, <3>1, <3>2, <3>3, <3>4 DEF Genesis
  <2> QED  BY <2>1, <2>2
<1> QED  BY <1>5, <1>6

LEMMA CommitChained ==
    ASSUME HistoryInvariant, NEW s \in Sessions, Commit(s)
    PROVE  Chained'
<1>1. Chained /\ AuditInvariant
  BY DEF HistoryInvariant, Recorded
<1>2. /\ entry[s] # NoEntry =>
             \A f \in Exact(entry[s]) : /\ entry[s].before[f] = Value(table, f)
                                        /\ entry[s].after[f] = Value(table', f)
      /\ call[s] = "individual.born" => log = <<>>
      /\ \A f \in Plain : call[s] # "individual.born" /\ Value(table', f) # Value(table, f) =>
             entry[s] # NoEntry /\ f \in DOMAIN entry[s].after
  BY <1>1, CommitExact
<1> SUFFICES ASSUME NEW f \in {"status", "explore", "binding"}, NEW i \in Telling(f)'
             PROVE  /\ \A j \in Telling(f)' :
                           i < j /\ (\A k \in Telling(f)' : k <= i \/ j <= k) =>
                               log'[j].before[f] = log'[i].after[f]
                    /\ (\A k \in Telling(f)' : k <= i) => log'[i].after[f] = Value(table', f)
  BY DEF Chained
<1>3. /\ Telling(f) \subseteq 1 .. Len(log) /\ Len(log) \in Nat
      /\ Telling(f)' = IF entry[s] # NoEntry /\ f \in Told(call[s])
                       THEN Telling(f) \cup {Len(log) + 1} ELSE Telling(f)
      /\ \A k \in Telling(f) : log'[k] = log[k]
  BY CommitTelling
<1>4. f \in Plain /\ f # "blocked"
  BY DEF Plain
<1>5. CASE ~(entry[s] # NoEntry /\ f \in Told(call[s]))
  <2>1. Telling(f)' = Telling(f)
    BY <1>3, <1>5
  <2>2. call[s] # "individual.born"
    <3> SUFFICES ASSUME log = <<>> PROVE FALSE
      BY <1>2
    <3>1. Len(log) = 0
      BY DEF HistoryInvariant, AuditInvariant, RowTypes
    <3> QED  BY <1>3, <2>1, <3>1
  <2>3. Value(table', f) = Value(table, f)
    <3> SUFFICES ASSUME Value(table', f) # Value(table, f) PROVE FALSE
      OBVIOUS
    <3>1. entry[s] # NoEntry /\ f \in DOMAIN entry[s].after
      BY <1>2, <1>4, <2>2
    <3>2. DOMAIN entry[s].after = Told(call[s])
      BY <3>1, CommitEntry
    <3> QED  BY <1>5, <3>1, <3>2
  <2> QED  BY <1>1, <1>3, <2>1, <2>3 DEF Chained
<1>6. CASE entry[s] # NoEntry /\ f \in Told(call[s])
  <2> DEFINE n == Len(log) + 1
  <2>1. Telling(f)' = Telling(f) \cup {n} /\ n \in Nat /\ \A k \in Telling(f) : k \in Nat /\ k < n
    BY <1>3, <1>6
  <2>2. log'[n] = entry[s]
    BY <1>6, CommitLog
  <2>3. entry[s].before[f] = Value(table, f) /\ entry[s].after[f] = Value(table', f)
    <3>1. call[s] \in AdminCalls
      <4>1. call[s] \in Tellers \cup {"redact"}
        BY <1>6, CommitEntry
      <4>2. call[s] \notin {"individual.born", "config.changed", "redact"}
        BY <1>6, CallNames DEF Told, PolicyCalls, BindingCalls
      <4> QED  BY <4>1, <4>2 DEF Tellers
    <3>2. f \in Exact(entry[s])
      BY <1>4, <1>6, <3>1, CommitEntry DEF Exact
    <3> QED  BY <1>2, <1>6, <3>2
  <2> HIDE DEF n
  <2>4. CASE i = n
    <3>1. \A j \in Telling(f)' : ~(i < j)
      BY <2>1, <2>4
    <3> QED  BY <2>2, <2>3, <2>4, <3>1
  <2>5. CASE i \in Telling(f)
    <3>1. log'[i] = log[i] /\ i < n /\ n \in Telling(f)' /\ i \in Nat
      BY <1>3, <2>1, <2>5
    <3>2. ASSUME NEW j \in Telling(f)', i < j, \A k \in Telling(f)' : k <= i \/ j <= k
          PROVE  log'[j].before[f] = log'[i].after[f]
      <4>1. CASE j = n
        <5>1. \A k \in Telling(f) : k <= i
          BY <2>1, <3>2, <4>1
        <5>2. log[i].after[f] = Value(table, f)
          BY <1>1, <2>5, <5>1 DEF Chained
        <5> QED  BY <2>2, <2>3, <3>1, <4>1, <5>2
      <4>2. CASE j \in Telling(f)
        <5>1. \A k \in Telling(f) : k <= i \/ j <= k
          BY <2>1, <3>2
        <5> QED  BY <1>1, <1>3, <2>5, <3>1, <3>2, <4>2, <5>1 DEF Chained
      <4> QED  BY <2>1, <4>1, <4>2
    <3>3. ~(\A k \in Telling(f)' : k <= i)
      BY <3>1, <2>1
    <3> QED  BY <3>2, <3>3
  <2> QED  BY <2>1, <2>4, <2>5
<1> QED  BY <1>5, <1>6

\* The sets of configurations told are finite, and none has more than there are.
LEMMA ToldCounts ==
    ASSUME HistoryInvariant, NEW i
    PROVE  /\ IsFiniteSet(Telling("config")) /\ Cardinality(Telling("config")) \in Nat
           /\ Upto(i) \subseteq Telling("config")
           /\ IsFiniteSet(Upto(i)) /\ Cardinality(Upto(i)) \in Nat
           /\ Cardinality(Upto(i)) <= Cardinality(Telling("config"))
           /\ i \in Telling("config") => Cardinality(Upto(i)) >= 1
<1>1. IsFiniteSet(1 .. Len(log)) /\ Telling("config") \subseteq 1 .. Len(log) /\ Len(log) \in Nat
  <2>1. Len(log) \in Nat /\ DOMAIN log = 1 .. Len(log)
    BY DEF HistoryInvariant, AuditInvariant, RowTypes
  <2>2. IsFiniteSet(1 .. Len(log))
    BY <2>1, FS_Interval
  <2> QED  BY <2>1, <2>2 DEF Telling
<1>2. IsFiniteSet(Telling("config")) /\ Cardinality(Telling("config")) \in Nat
  BY <1>1, FS_Subset, FS_CardinalityType
<1>3. Upto(i) \subseteq Telling("config")
  BY DEF Upto
<1>4. /\ IsFiniteSet(Upto(i)) /\ Cardinality(Upto(i)) \in Nat
      /\ Cardinality(Upto(i)) <= Cardinality(Telling("config"))
  BY <1>2, <1>3, FS_Subset, FS_CardinalityType
<1>5. ASSUME i \in Telling("config") PROVE Cardinality(Upto(i)) >= 1
  <2>1. i \in Upto(i)
    BY <1>1, <1>5 DEF Upto
  <2>2. Cardinality(Upto(i)) # 0
    BY <1>4, <2>1, FS_EmptySet
  <2> QED  BY <1>4, <2>2
<1> QED  BY <1>2, <1>3, <1>4, <1>5

LEMMA CommitListed ==
    ASSUME HistoryInvariant, NEW s \in Sessions, Commit(s)
    PROVE  Listed'
<1> DEFINE T == Telling("config")
           r == table["revisions"]
<1>1. Listed /\ LogTypes /\ Genesis
  BY DEF HistoryInvariant, Recorded
<1>2. /\ T \subseteq 1 .. Len(log) /\ Len(log) \in Nat
      /\ Telling("config")' = IF entry[s] # NoEntry /\ "config" \in Told(call[s])
                              THEN T \cup {Len(log) + 1} ELSE T
      /\ \A i \in T : log'[i] = log[i]
  BY CommitTelling
<1>3. "config" \in Told(call[s]) <=> call[s] \in {"individual.born", "config.changed"}
  BY CallNames DEF Told, PolicyCalls, BindingCalls
<1>4. CASE call[s] # "individual.born" /\ ~(call[s] = "config.changed" /\ entry[s] # NoEntry)
  <2>1. Telling("config")' = T /\ table'["revisions"] = r
    BY <1>2, <1>3, <1>4, CommitRevisions
  <2>2. \A i : Upto(i)' = Upto(i)
    BY <2>1 DEF Upto
  <2> QED  BY <1>1, <1>2, <2>1, <2>2 DEF Listed
<1>5. CASE call[s] = "individual.born"
  <2>1. /\ log = <<>> /\ entry[s] # NoEntry /\ table'["revisions"] = <<want[s]>>
        /\ entry[s].after["config"] = want[s] /\ want[s] \in Configs
    BY <1>5, CommitLeaves
  <2>2. Len(log) = 0 /\ log'[1] = entry[s]
    BY <2>1, CommitLog
  <2>3. Telling("config")' = {1}
    <3>1. T = {}
      BY <1>2, <2>2
    <3> QED  BY <1>2, <1>3, <1>5, <2>1, <2>2, <3>1
  <2>4. Upto(1)' = {1}
    BY <2>3 DEF Upto
  <2>5. Cardinality({1}) = 1
    BY FS_Singleton
  <2>6. Len(<<want[s]>>) = 1 /\ <<want[s]>>[1] = want[s] /\ \A k : k \notin 1 .. 0
    BY <2>1
  <2>7. \A k : k \notin 1 .. (Len(table'["revisions"]) - 1)
    BY <2>1, <2>6
  <2> QED  BY <2>1, <2>2, <2>3, <2>4, <2>5, <2>6, <2>7 DEF Listed
<1>6. CASE call[s] = "config.changed" /\ entry[s] # NoEntry
  <2> DEFINE w == want[s]
             c == Cardinality(T)
  <2>0. PICK n : n = Len(log) + 1
    OBVIOUS
  <2>1. /\ w \in Configs /\ entry[s].after["config"] = w
        /\ table'["revisions"] = Append(r, w) /\ Active(r) # w
    BY <1>6, CommitRevisions
  <2>2. r \in Seq(Configs)
    BY <1>1 DEF LogTypes
  <2>3. /\ Len(r) \in Nat /\ Len(Append(r, w)) = Len(r) + 1 /\ Append(r, w)[Len(r) + 1] = w
        /\ \A k \in 1 .. Len(r) : Append(r, w)[k] = r[k]
    BY <2>1, <2>2
  <2>4. Telling("config")' = T \cup {n} /\ n \notin T /\ n \in Nat /\ \A k \in T : k < n /\ k \in Nat
    BY <1>2, <1>3, <1>6, <2>0
  <2>5. Len(r) = c /\ IsFiniteSet(T) /\ c \in Nat
    BY <1>1, ToldCounts DEF Listed
  <2>6. Cardinality(T \cup {n}) = c + 1
    BY <2>4, <2>5, FS_AddElement
  <2>7. log'[n] = entry[s]
    BY <1>6, <2>0, CommitLog
  <2>8. /\ Upto(n)' = T \cup {n}
        /\ \A i \in T : Upto(i)' = Upto(i)
    <3>1. n <= n
      BY <2>4
    <3>2. Upto(n)' = T \cup {n}
      BY <2>4, <3>1 DEF Upto
    <3>3. ASSUME NEW i \in T PROVE Upto(i)' = Upto(i)
      <4>1. ~(n <= i)
        BY <2>4
      <4> QED  BY <2>4, <4>1 DEF Upto
    <3> QED  BY <3>2, <3>3
  <2>9. ASSUME NEW i \in T
        PROVE  log[i].after["config"] = Append(r, w)[Cardinality(Upto(i))]
    <3>1. Cardinality(Upto(i)) \in 1 .. Len(r)
      <4>1. /\ Cardinality(Upto(i)) \in Nat /\ Cardinality(Upto(i)) <= c
            /\ Cardinality(Upto(i)) >= 1
        BY ToldCounts
      <4> HIDE DEF c
      <4> QED  BY <2>5, <4>1
    <3>2. log[i].after["config"] = r[Cardinality(Upto(i))]
      BY <1>1 DEF Listed
    <3> QED  BY <2>3, <3>1, <3>2
  <2>10. ASSUME NEW k \in 1 .. Len(r)
         PROVE  Append(r, w)[k] # Append(r, w)[k + 1]
    <3>1. CASE k = Len(r)
      <4>1. r # <<>> /\ Active(r) = r[Len(r)]
        BY <2>2, <2>3, <3>1 DEF Active
      <4> QED  BY <2>1, <2>3, <3>1, <4>1
    <3>2. CASE k # Len(r)
      <4>1. k \in 1 .. (Len(r) - 1) /\ k + 1 \in 1 .. Len(r)
        BY <2>3, <3>2
      <4>2. r[k] # r[k + 1]
        BY <1>1, <4>1 DEF Listed
      <4> QED  BY <2>3, <4>1, <4>2
    <3> QED  BY <3>1, <3>2
  <2>11. Len(table'["revisions"]) = Cardinality(Telling("config")')
    <3> HIDE DEF c, T, r
    <3> QED  BY <2>1, <2>3, <2>4, <2>5, <2>6
  <2>12. ASSUME NEW i \in Telling("config")'
         PROVE  log'[i].after["config"] = table'["revisions"][Cardinality(Upto(i)')]
    <3>1. CASE i \in T
      <4>1. log'[i] = log[i] /\ Upto(i)' = Upto(i)
        BY <1>2, <2>8, <3>1
      <4>2. log[i].after["config"] = Append(r, w)[Cardinality(Upto(i))]
        BY <2>9, <3>1
      <4> HIDE DEF r, T, w
      <4> QED  BY <2>1, <4>1, <4>2
    <3>2. CASE i = n
      <4>1. Cardinality(Upto(i)') = c + 1 /\ log'[i].after["config"] = w
        BY <2>1, <2>6, <2>7, <2>8, <3>2
      <4> HIDE DEF c, r, w
      <4> QED  BY <2>1, <2>3, <2>5, <4>1
    <3> QED  BY <2>4, <3>1, <3>2
  <2>13. \A k \in 1 .. (Len(table'["revisions"]) - 1) :
             table'["revisions"][k] # table'["revisions"][k + 1]
    <3>1. Len(table'["revisions"]) - 1 = Len(r)
      BY <2>1, <2>3
    <3> QED  BY <2>1, <2>10, <3>1
  <2> QED  BY <2>11, <2>12, <2>13 DEF Listed
<1> QED  BY <1>4, <1>5, <1>6

LEMMA CommitRedaction ==
    ASSUME HistoryInvariant, NEW s \in Sessions, Commit(s)
    PROVE  FirstRedaction'
<1>1. FirstRedaction /\ LogTypes
  BY DEF HistoryInvariant, Recorded
<1>2. /\ Len(log) \in Nat /\ DOMAIN log = 1 .. Len(log)
      /\ entry[s] = NoEntry => log' = log
      /\ entry[s] # NoEntry => /\ DOMAIN log' = 1 .. (Len(log) + 1)
                               /\ \A i \in 1 .. Len(log) : log'[i] = log[i]
                               /\ log'[Len(log) + 1] = entry[s]
  BY CommitLog
<1>3. /\ call[s] = "redact" =>
             /\ entry[s] # NoEntry
             /\ table'["content"].audit = IF table["content"].audit = 0 THEN entry[s].seq
                                          ELSE table["content"].audit
      /\ call[s] # "redact" => table'["content"] = table["content"]
  BY CommitContent
<1>4. entry[s] # NoEntry => entry[s].op = call[s]
  BY CommitEntry
<1>5. Redactions \subseteq 1 .. Len(log)
  BY <1>2 DEF Redactions
<1>6. \A i \in Redactions : log'[i] = log[i]
  BY <1>2, <1>5
<1>7. Redactions' = IF call[s] = "redact" THEN Redactions \cup {Len(log) + 1} ELSE Redactions
  <2>1. CASE entry[s] = NoEntry
    BY <1>2, <1>3, <2>1 DEF Redactions
  <2>2. CASE entry[s] # NoEntry
    <3>1. \A i : i \in Redactions' <=> i \in Redactions \/ (i = Len(log) + 1 /\ call[s] = "redact")
      <4> TAKE i
      <4>1. i \in DOMAIN log' <=> i \in DOMAIN log \/ i = Len(log) + 1
        BY <1>2, <2>2
      <4>2. Len(log) + 1 \notin DOMAIN log
        BY <1>2
      <4>3. i \in DOMAIN log => log'[i] = log[i]
        BY <1>2, <2>2
      <4>4. log'[Len(log) + 1] = entry[s]
        BY <1>2, <2>2
      <4> QED  BY <1>4, <2>2, <4>1, <4>2, <4>3, <4>4 DEF Redactions
    <3> QED  BY <3>1
  <2> QED  BY <2>1, <2>2
<1>8. CASE call[s] # "redact"
  <2>1. Redactions' = Redactions /\ table'["content"] = table["content"]
    BY <1>3, <1>7, <1>8
  <2> QED  BY <1>1, <1>6, <2>1 DEF FirstRedaction
<1>9. CASE call[s] = "redact"
  <2> DEFINE n == Len(log) + 1
  <2>1. /\ Redactions' = Redactions \cup {n} /\ log'[n] = entry[s] /\ n \in Nat
        /\ \A i \in Redactions : i < n
    BY <1>2, <1>3, <1>5, <1>7, <1>9
  <2>2. CASE Redactions = {}
    <3>1. table["content"].audit = 0
      BY <1>1, <2>2 DEF FirstRedaction
    <3>2. table'["content"].audit = log'[n].seq
      BY <1>3, <1>9, <2>1, <3>1
    <3>3. Redactions' = {n} /\ n <= n
      BY <2>1, <2>2
    <3> HIDE DEF n
    <3> QED  BY <3>2, <3>3 DEF FirstRedaction
  <2>3. CASE Redactions # {}
    <3>1. PICK i \in Redactions : /\ \A j \in Redactions : i <= j
                                  /\ table["content"].audit = log[i].seq
      BY <1>1, <2>3 DEF FirstRedaction
    <3>2. log[i].seq \in 1 .. seq /\ seq \in Nat
      BY <1>1, <3>1 DEF LogTypes, Redactions
    <3>3. table["content"].audit # 0
      BY <3>1, <3>2
    <3>4. table'["content"].audit = log'[i].seq
      BY <1>3, <1>6, <1>9, <3>1, <3>3
    <3>5. i \in Redactions' /\ \A j \in Redactions' : i <= j
      BY <1>2, <1>5, <2>1, <3>1
    <3>6. Redactions' # {}
      BY <3>5
    <3> QED  BY <3>4, <3>5, <3>6 DEF FirstRedaction
  <2> QED  BY <2>2, <2>3
<1> QED  BY <1>8, <1>9

LEMMA CommitRemembers ==
    ASSUME HistoryInvariant, NEW s \in Sessions, Commit(s)
    PROVE  HistoryInvariant'
<1>1. AuditInvariant'
  BY CommitTells DEF HistoryInvariant
<1>2. LogTypes'
  BY CommitTypes
<1>3. Recorded'
  BY CommitAscends, CommitGenesis, CommitChained, CommitListed, CommitRedaction DEF Recorded
<1>4. ContentAlone'
  <2>1. ~Holds(s, "content")'
    BY ReleasedRemembers DEF Commit, Rows
  <2>2. \A t \in Sessions \ {s} : Holds(t, "content")' => Holds(t, "content")
    BY ReleasedRemembers DEF Commit, Holds
  <2> QED  BY <2>1, <2>2 DEF ContentAlone, HistoryInvariant
<1>5. \A t \in Sessions : Remembers(t)'
  BY CommitOthers, ReleasedRemembers DEF Commit
<1> QED  BY <1>1, <1>2, <1>3, <1>4, <1>5 DEF HistoryInvariant

LEMMA InitialHistory == Init => HistoryInvariant
<1> SUFFICES ASSUME Init PROVE HistoryInvariant
  OBVIOUS
<1>1. AuditInvariant
  BY InitialAudit
<1>2. /\ table["individual"] = [status |-> "unborn", revision |-> 0]
      /\ table["revisions"] = <<>> /\ table["content"] = [audit |-> 0]
      /\ log = <<>> /\ seq = 0 /\ DOMAIN want = Sessions
      /\ \A s \in Sessions : /\ draft[s] = [row \in Rows |-> Unlocked] /\ todo[s] = <<>>
                             /\ call[s] = NoCall /\ entry[s] = NoEntry
  BY DEF Init, Rows
<1>3. /\ \A s \in Sessions, row \in Rows : ~Holds(s, row) /\ draft[s][row] = Unlocked
      /\ \A s \in Sessions : \A S : ~Has(todo[s], S)
      /\ DOMAIN log = {} /\ "content" \in Rows
  BY <1>2 DEF Holds, Has, Rows
<1>4. LogTypes
  <2>1. <<>> \in Seq(Configs) /\ [audit |-> 0] \in Contents /\ 0 \in Nat
    BY DEF Contents
  <2> QED  BY <1>2, <1>3, <2>1 DEF LogTypes
<1>5. Recorded
  <2>1. \A f : Telling(f) = {}
    BY <1>3 DEF Telling
  <2>2. Redactions = {}
    BY <1>3 DEF Redactions
  <2>3. Ascends /\ Genesis /\ Chained
    BY <1>2, <1>3, <2>1 DEF Ascends, Genesis, Chained, IsBorn
  <2>4. Listed
    <3>1. Len(table["revisions"]) = 0 /\ Cardinality(Telling("config")) = 0
      BY <1>2, <2>1, FS_EmptySet
    <3>2. \A k : k \notin 1 .. (Len(table["revisions"]) - 1)
      BY <3>1
    <3> QED  BY <2>1, <3>1, <3>2 DEF Listed
  <2>5. FirstRedaction
    BY <1>2, <2>2 DEF FirstRedaction
  <2> QED  BY <2>3, <2>4, <2>5 DEF Recorded
<1>6. ContentAlone
  BY <1>3 DEF ContentAlone
<1>7. ASSUME NEW s \in Sessions PROVE Remembers(s)
  <2>1. NoCall \notin Tellers /\ NoCall \notin AdminCalls
        /\ NoCall \notin {"individual.born", "config.changed", "redact"}
    BY CallAssumption DEF OperatorCalls, Tellers
  <2>2. ~Holds(s, "principal") /\ ~Holds(s, "revisions") /\ ~Holds(s, "wake") /\ ~Holds(s, "content")
    BY <1>3 DEF Rows
  <2>3. Duty(s) /\ Bound(s) /\ Employed(s) /\ Present(s) /\ Authorised(s)
    BY <1>2, <1>3, <2>1, <2>2 DEF Duty, Bound, Employed, Present, Authorised
  <2>4. Founding(s) /\ Revising(s) /\ Redacting(s) /\ Numbered(s)
    BY <1>2, <2>1 DEF Founding, Revising, Redacting, Numbered
  <2> QED  BY <2>3, <2>4 DEF Remembers
<1> QED  BY <1>1, <1>4, <1>5, <1>6, <1>7 DEF HistoryInvariant

LEMMA NextRemembers ==
    ASSUME HistoryInvariant, Next
    PROVE  HistoryInvariant'
<1>1. AuditInvariant'
  BY NextAudit DEF HistoryInvariant
<1>2. PICK s \in Sessions :
          BeginCall(s) \/ BeginWork(s) \/ Statement(s) \/ Commit(s) \/ Refuse(s) \/ Fail(s)
  BY DEF Next
<1>3. CASE BeginCall(s)
  <2>1. PICK c \in OperatorCalls, w \in Configs \cup {NoConfig} :
            /\ w = NoConfig <=> c \notin {"individual.born", "config.changed"}
            /\ Begins(s, c, w)
    BY <1>3 DEF BeginCall
  <2>2. c \in Calls
    BY DEF Calls
  <2> QED  BY <1>1, <2>1, <2>2, BeginRemembers
<1>4. CASE BeginWork(s)
  <2>1. PICK c \in IF s = Runtime THEN RuntimeCalls ELSE IngesterCalls : Begins(s, c, NoConfig)
    BY <1>4 DEF BeginWork
  <2>2. c \in Calls /\ c \notin {"individual.born", "config.changed"}
    BY <2>1 DEF Calls, RuntimeCalls, IngesterCalls
  <2> QED  BY <1>1, <2>1, <2>2, BeginRemembers
<1>5. CASE Statement(s)
  BY <1>5, StatementRemembers
<1>6. CASE Commit(s)
  BY <1>6, CommitRemembers
<1>7. CASE Refuse(s) \/ Fail(s)
  <2>1. Released(s) /\ UNCHANGED <<table, log, seq>>
    BY <1>7 DEF Refuse, Fail
  <2> QED  BY <1>1, <2>1, StopsRemembers
<1> QED  BY <1>2, <1>3, <1>4, <1>5, <1>6, <1>7

LEMMA StutterHistory == HistoryInvariant /\ UNCHANGED vars => HistoryInvariant'
<1> SUFFICES ASSUME HistoryInvariant, UNCHANGED vars PROVE HistoryInvariant'
  OBVIOUS
<1>1. UNCHANGED <<table, log, seq, draft, call, want, todo, saw, entry>>
  BY DEF vars, session
<1>2. AuditInvariant'
  BY StutterAudit DEF HistoryInvariant
<1>3. LogTypes /\ RowTypes /\ ContentAlone
  BY DEF HistoryInvariant, AuditInvariant
<1>4. \A t, row : Holds(t, row)' <=> Holds(t, row)
  BY <1>1 DEF Holds
<1>5. ContentAlone'
  BY <1>3, <1>4 DEF ContentAlone
<1>6. LogTypes' /\ Recorded'
  BY <1>1, <1>3, RecordStays DEF LogTypes
<1>7. ASSUME NEW t \in Sessions PROVE Remembers(t)'
  <2>1. Remembers(t)
    BY DEF HistoryInvariant
  <2>2. Duty(t)' /\ Bound(t)' /\ Employed(t)'
    BY <1>1, <1>4, <2>1 DEF Remembers, Duty, Bound, Employed
  <2>3. Present(t)' /\ Authorised(t)'
    BY <1>1, <1>4, <2>1 DEF Remembers, Present, Authorised, IsBorn
  <2>4. Founding(t)' /\ Revising(t)' /\ Redacting(t)' /\ Numbered(t)'
    BY <1>1, <1>4, <2>1 DEF Remembers, Founding, Revising, Redacting, Numbered
  <2> QED  BY <2>2, <2>3, <2>4 DEF Remembers
<1> QED  BY <1>2, <1>5, <1>6, <1>7 DEF HistoryInvariant

\* However calls race, what was committed and what is prepared fit: the numbers of
\* the events that tell of an individual ascend in the order of their commits, and
\* each transaction will continue what they tell (stores/evidence.py:
\* append_event; db/unit_of_work.py).
THEOREM EvidenceIsOrdered == Spec => []HistoryInvariant
<1>1. HistoryInvariant /\ [Next]_vars => HistoryInvariant'
  BY NextRemembers, StutterHistory
<1> QED  BY <1>1, InitialHistory, PTL DEF Spec

-----------------------------------------------------------------------------
(* Reading the evidence by its sequence *)

\* Events that tell of a field are in the log in the order of their numbers.
LEMMA ToldInOrder ==
    ASSUME HistoryInvariant, NEW f, NEW i \in Telling(f), NEW j \in Telling(f)
    PROVE  /\ i \in Nat /\ j \in Nat
           /\ log[i].seq \in Nat
           /\ log[i].seq < log[j].seq <=> i < j
<1>1. LogTypes /\ Ascends
  BY DEF HistoryInvariant, Recorded
<1>2. DOMAIN log = 1 .. Len(log) /\ Len(log) \in Nat
  BY DEF HistoryInvariant, AuditInvariant, RowTypes
<1>3. i \in DOMAIN log /\ j \in DOMAIN log
  BY DEF Telling
<1>4. log[i].op # "redact" /\ log[j].op # "redact"
  <2>1. Told("redact") = {}
    BY CallNames DEF Told, PolicyCalls, BindingCalls
  <2> QED  BY <1>1, <1>3, <2>1 DEF Telling, LogTypes
<1>5. i \in Nat /\ j \in Nat
  BY <1>2, <1>3
<1>6. log[i].seq \in Nat /\ log[j].seq \in Nat
  <2>1. log[i].seq \in 1 .. seq /\ log[j].seq \in 1 .. seq
    BY <1>1, <1>3 DEF LogTypes
  <2> QED  BY <1>1, <2>1 DEF LogTypes
<1>7. i < j => log[i].seq < log[j].seq
  BY <1>1, <1>3, <1>4 DEF Ascends
<1>8. j < i => log[j].seq < log[i].seq
  BY <1>1, <1>3, <1>4 DEF Ascends
<1>9. log[i].seq < log[j].seq => i < j
  <2> SUFFICES ASSUME log[i].seq < log[j].seq, ~(i < j) PROVE FALSE
    OBVIOUS
  <2>1. j < i \/ i = j
    BY <1>5
  <2> QED  BY <1>6, <1>8, <2>1
<1> QED  BY <1>5, <1>6, <1>7, <1>9

\* What the evidence says in the order of its sequence is what it says in the
\* order of the commits.
LEMMA OrderOfSequence ==
    ASSUME HistoryInvariant, NEW f, NEW i \in Telling(f)
    PROVE  /\ Later(i, f) = {k \in Telling(f) : i < k}
           /\ \A j \in Telling(f) : Precedes(i, j, f) =>
                  i < j /\ \A k \in Telling(f) : k <= i \/ j <= k
<1>1. \A k \in Telling(f) : log[k].seq > log[i].seq <=> i < k
  BY ToldInOrder
<1>2. Later(i, f) = {k \in Telling(f) : i < k}
  BY <1>1 DEF Later
<1>3. ASSUME NEW j \in Telling(f), Precedes(i, j, f)
      PROVE  i < j /\ \A k \in Telling(f) : k <= i \/ j <= k
  <2>1. i < j
    BY <1>3, ToldInOrder DEF Precedes
  <2>2. ASSUME NEW k \in Telling(f), ~(k <= i), ~(j <= k) PROVE FALSE
    <3>1. i \in Nat /\ j \in Nat /\ k \in Nat
      BY ToldInOrder
    <3>2. i < k /\ k < j
      BY <2>2, <3>1
    <3>3. log[i].seq < log[k].seq /\ log[k].seq < log[j].seq
      BY <3>2, ToldInOrder
    <3> QED  BY <1>3, <3>3 DEF Precedes
  <2> QED  BY <2>1, <2>2
<1> QED  BY <1>2, <1>3

LEMMA HistoryReplays == HistoryInvariant => EvidenceReplays
<1> SUFFICES ASSUME HistoryInvariant PROVE EvidenceReplays
  OBVIOUS
<1>1. /\ Ascends /\ Genesis /\ Chained /\ Listed /\ FirstRedaction /\ LogTypes /\ Lives
  BY DEF HistoryInvariant, Recorded, AuditInvariant
<1>2. DOMAIN log = 1 .. Len(log) /\ Len(log) \in Nat /\ (log # <<>> <=> Len(log) > 0)
  BY DEF HistoryInvariant, AuditInvariant, RowTypes
<1>3. log = <<>> <=> table["individual"].status = "unborn"
  BY <1>1 DEF Genesis, IsBorn, Lives
<1>4. ASSUME NEW i \in DOMAIN log
      PROVE  /\ log[i].op = "individual.born" <=> \A j \in DOMAIN log : log[i].seq <= log[j].seq
             /\ log[i].op = "individual.born" =>
                    /\ table["principal"] = log[i].after["principal"]
                    /\ table["revisions"][1] = log[i].after["config"]
                    /\ table["wake"] = log[i].seq
             /\ log[i].op \in AdminCalls => log[i].by = table["principal"]
  <2>1. log # <<>> /\ 1 \in DOMAIN log
    BY <1>2, <1>4
  <2>2. \A j \in DOMAIN log : log[j].seq \in Nat
    <3>1. \A j \in DOMAIN log : log[j].seq \in 1 .. seq
      BY <1>1 DEF LogTypes
    <3> QED  BY <1>1, <3>1 DEF LogTypes
  <2>3. \A j \in DOMAIN log : j # 1 => log[1].seq < log[j].seq
    BY <1>1 DEF Genesis
  <2>4. i = 1 <=> \A j \in DOMAIN log : log[i].seq <= log[j].seq
    <3>1. ASSUME i = 1, NEW j \in DOMAIN log PROVE log[i].seq <= log[j].seq
      BY <2>2, <2>3, <3>1
    <3>2. ASSUME i # 1 PROVE ~(log[i].seq <= log[1].seq)
      BY <2>1, <2>2, <2>3, <3>2
    <3> QED  BY <2>1, <3>1, <3>2
  <2> QED  BY <1>1, <2>1, <2>4 DEF Genesis
<1>5. ASSUME NEW f \in {"status", "explore", "binding"}, NEW i \in Telling(f)
      PROVE  /\ \A j \in Telling(f) : Precedes(i, j, f) => log[j].before[f] = log[i].after[f]
             /\ Later(i, f) = {} => log[i].after[f] = Value(table, f)
  <2>1. \A j \in Telling(f) : Precedes(i, j, f) => log[j].before[f] = log[i].after[f]
    BY <1>1, OrderOfSequence DEF Chained
  <2>2. ASSUME Later(i, f) = {} PROVE log[i].after[f] = Value(table, f)
    <3>1. \A k \in Telling(f) : ~(i < k)
      BY <2>2, OrderOfSequence
    <3>2. \A k \in Telling(f) : k <= i
      BY <3>1, ToldInOrder
    <3> QED  BY <1>1, <3>2 DEF Chained
  <2> QED  BY <2>1, <2>2
<1>6. ASSUME NEW i \in Telling("config")
      PROVE  /\ log[i].after["config"] =
                    table["revisions"][Len(table["revisions"]) - Cardinality(Later(i, "config"))]
             /\ \A j \in Telling("config") :
                    Precedes(i, j, "config") => log[j].after["config"] # log[i].after["config"]
  <2> DEFINE T == Telling("config")
             r == table["revisions"]
  <2>1. /\ IsFiniteSet(T) /\ IsFiniteSet(Upto(i)) /\ Cardinality(Upto(i)) \in Nat
        /\ Cardinality(Upto(i)) >= 1 /\ Cardinality(T) \in Nat
    BY ToldCounts
  <2>2. Len(r) = Cardinality(T)
    BY <1>1 DEF Listed
  <2>3. Later(i, "config") = {k \in T : i < k}
    BY OrderOfSequence
  <2>4. \A k \in T : k \in Nat
    BY ToldInOrder
  <2>5. T = Upto(i) \cup Later(i, "config") /\ Upto(i) \cap Later(i, "config") = {}
    BY <2>3, <2>4 DEF Upto
  <2>6. /\ IsFiniteSet(Later(i, "config")) /\ Cardinality(Later(i, "config")) \in Nat
        /\ Cardinality(T) = Cardinality(Upto(i)) + Cardinality(Later(i, "config"))
    <3>1. IsFiniteSet(Later(i, "config")) /\ Cardinality(Later(i, "config")) \in Nat
      BY <2>1, <2>5, FS_Subset, FS_CardinalityType
    <3>2. Cardinality(Upto(i) \cup Later(i, "config")) =
              Cardinality(Upto(i)) + Cardinality(Later(i, "config"))
              - Cardinality(Upto(i) \cap Later(i, "config"))
      BY <2>1, <3>1, FS_Union
    <3>3. Cardinality(Upto(i) \cap Later(i, "config")) = 0
      BY <2>5, FS_EmptySet
    <3>4. Cardinality(T) = Cardinality(Upto(i) \cup Later(i, "config"))
      BY <2>5
    <3> HIDE DEF T
    <3> QED  BY <2>1, <3>1, <3>2, <3>3, <3>4
  <2>7. Len(r) - Cardinality(Later(i, "config")) = Cardinality(Upto(i))
    <3> HIDE DEF r, T
    <3> QED  BY <2>1, <2>2, <2>6
  <2>8. log[i].after["config"] = r[Cardinality(Upto(i))]
    BY <1>1 DEF Listed
  <2>9. ASSUME NEW j \in T, Precedes(i, j, "config")
        PROVE  log[j].after["config"] # log[i].after["config"]
    <3>1. i < j /\ \A k \in T : k <= i \/ j <= k
      BY <2>9, OrderOfSequence
    <3>2. Upto(j) = Upto(i) \cup {j} /\ j \notin Upto(i)
      BY <2>4, <3>1 DEF Upto
    <3>3. Cardinality(Upto(j)) = Cardinality(Upto(i)) + 1
      BY <2>1, <3>2, FS_AddElement
    <3>4. Cardinality(Upto(j)) <= Cardinality(T) /\ Cardinality(Upto(j)) \in Nat
      BY ToldCounts
    <3>5. Cardinality(Upto(i)) \in 1 .. (Len(r) - 1)
      <4> HIDE DEF r, T
      <4> QED  BY <2>1, <2>2, <3>3, <3>4
    <3>6. r[Cardinality(Upto(i))] # r[Cardinality(Upto(i)) + 1]
      BY <1>1, <3>5 DEF Listed
    <3>7. log[j].after["config"] = r[Cardinality(Upto(j))]
      BY <1>1 DEF Listed
    <3> QED  BY <2>8, <3>3, <3>6, <3>7
  <2> HIDE DEF r
  <2>10. log[i].after["config"] = r[Len(r) - Cardinality(Later(i, "config"))]
    BY <2>7, <2>8
  <2> USE DEF r
  <2> QED  BY <2>9, <2>10
<1>7. Len(table["revisions"]) = Cardinality(Telling("config"))
  BY <1>1 DEF Listed
<1> QED  BY <1>1, <1>3, <1>4, <1>5, <1>6, <1>7 DEF EvidenceReplays, FirstRedaction

\* stores/evidence.py, db/checks.py, individual_genesis and active_config_revision:
\* for any number of operators, subjects, configurations and calls, the evidence
\* read by its sequence tells how the individual came to be as it is.
THEOREM EvidenceAlwaysReplays == Spec => []EvidenceReplays
<1> QED  BY EvidenceIsOrdered, HistoryReplays, PTL

=============================================================================
