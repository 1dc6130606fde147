--------------------------- MODULE OwnershipProofs ---------------------------
(***************************************************************************)
(* Exclusive ownership, for any number of attempts and individuals and any *)
(* lock keys, colliding or not.                                            *)
(***************************************************************************)
EXTENDS Ownership, TLAPS

\* A lock belongs to a live session, and the session of an attempt that acts or
\* is about to unlock has the lock of its individual.
LockMatchesSession ==
    /\ \A k \in LockKeys : lock[k] # NoAttempt =>
           session[lock[k]] = "live" /\ KeyOf(lock[k]) = k
    /\ \A a \in Attempts : session[a] = "live" => lock[KeyOf(a)] = a
    /\ \A a \in Attempts : stage[a] \in {"new", "refused", "done"} => session[a] # "live"
    /\ \A a \in Attempts : stage[a] = "new" => session[a] = "none"

\* A row exists only of an attempt that started.
RowMatchesStage ==
    \A a \in Attempts : stage[a] \in {"new", "locked", "refused"} => row[a] = "none"

LockInv == TypeOK /\ LockMatchesSession

RowInv == LockInv /\ RowMatchesStage /\ RowsFollowLock

-----------------------------------------------------------------------------

LEMMA KeyOfType == ASSUME NEW a \in Attempts PROVE KeyOf(a) \in LockKeys
BY OfAssumption, KeyAssumption DEF KeyOf

LEMMA UnlockedType ==
    ASSUME TypeOK, NEW a \in Attempts
    PROVE  Unlocked(a) \in [LockKeys -> Attempts \cup {NoAttempt}]
BY DEF Unlocked, TypeOK

LEMMA SignedType ==
    ASSUME NEW past \in Seq(Attempts), NEW a \in Attempts
    PROVE  Signed(past, a) \in Seq(Attempts)
BY DEF Signed

\* The tables hold what their columns allow, through every crash and loss.
THEOREM TypeInvariant == Spec => []TypeOK
<1>1. Init => TypeOK
  BY MaxFaultsAssumption DEF Init, TypeOK, Stages, Rows
<1>2. TypeOK /\ [Next]_vars => TypeOK'
  <2> SUFFICES ASSUME TypeOK, [Next]_vars PROVE TypeOK'
    OBVIOUS
  <2>1. ASSUME NEW a \in Attempts, Acquire(a) PROVE TypeOK'
    <3>1. KeyOf(a) \in LockKeys
      BY KeyOfType
    <3>2. CASE TryLock(a)
      BY <3>1, <3>2 DEF TryLock, Enter, TypeOK, Stages
    <3>3. CASE Refused(a)
      BY <3>3 DEF Refused, Enter, TypeOK, Stages
    <3>4. CASE RecordStart(a)
      BY <3>4 DEF RecordStart, Enter, TypeOK, Stages, Rows
    <3>5. CASE StartFails(a)
      BY <3>5 DEF StartFails, Enter, Fault, TypeOK, Stages
    <3> QED BY <2>1, <3>2, <3>3, <3>4, <3>5 DEF Acquire
  <2>2. ASSUME NEW a \in Attempts, Use(a) PROVE TypeOK'
    <3>1. CASE Begin(a)
      BY <3>1 DEF Begin, TypeOK
    <3>2. CASE Commit(a)
      <4>1. Of[a] \in Individuals
        BY OfAssumption
      <4>2. Signed(written[Of[a]], a) \in Seq(Attempts)
        BY <4>1, SignedType DEF TypeOK
      <4> QED BY <3>2, <4>1, <4>2 DEF Commit, TypeOK
    <3> QED BY <2>2, <3>1, <3>2 DEF Use
  <2>3. ASSUME NEW a \in Attempts, Close(a) PROVE TypeOK'
    <3>1. CASE RecordStop(a)
      BY <3>1 DEF RecordStop, Ended, Enter, TypeOK, Stages, Rows
    <3>2. CASE StopFails(a)
      BY <3>2 DEF StopFails, Enter, Fault, TypeOK, Stages
    <3>3. CASE Unlock(a)
      BY <3>3, UnlockedType DEF Unlock, Enter, TypeOK, Stages
    <3> QED BY <2>3, <3>1, <3>2, <3>3 DEF Close
  <2>4. ASSUME NEW a \in Attempts, Fails(a) PROVE TypeOK'
    <3>1. CASE Crash(a)
      BY <3>1 DEF Crash, Enter, Fault, TypeOK, Stages
    <3>2. CASE Reap(a)
      BY <3>2, UnlockedType DEF Reap, EndSession, TypeOK
    <3>3. CASE SessionLost(a)
      BY <3>3, UnlockedType DEF SessionLost, EndSession, Fault, TypeOK
    <3> QED BY <2>4, <3>1, <3>2, <3>3 DEF Fails
  <2>5. CASE Terminated \/ UNCHANGED vars
    BY <2>5 DEF Terminated, vars, TypeOK
  <2> QED BY <2>1, <2>2, <2>3, <2>4, <2>5 DEF Next
<1> QED BY <1>1, <1>2, PTL DEF Spec


-----------------------------------------------------------------------------

\* Ending the session of a takes its lock away and no other.
LEMMA UnlockedLocks ==
    ASSUME TypeOK, LockMatchesSession, NEW a \in Attempts,
           lock' = Unlocked(a), session' = [session EXCEPT ![a] = "gone"],
           \A b \in Attempts : stage'[b] = stage[b] \/ b = a,
           stage'[a] # "new"
    PROVE  LockMatchesSession'
<1>1. \A k \in LockKeys : lock'[k] = IF lock[k] = a THEN NoAttempt ELSE lock[k]
  BY DEF Unlocked
<1>2. \A b \in Attempts : session'[b] = IF b = a THEN "gone" ELSE session[b]
  BY DEF TypeOK
<1>3. \A k \in LockKeys : lock'[k] # NoAttempt =>
          session'[lock'[k]] = "live" /\ KeyOf(lock'[k]) = k
  BY <1>1, <1>2 DEF LockMatchesSession, TypeOK
<1>4. ASSUME NEW b \in Attempts, session'[b] = "live" PROVE lock'[KeyOf(b)] = b
  <2>1. b # a /\ session[b] = "live"
    BY <1>2, <1>4
  <2>2. lock[KeyOf(b)] = b
    BY <2>1 DEF LockMatchesSession
  <2> QED BY <1>1, <2>1, <2>2, KeyOfType
<1>5. \A b \in Attempts : stage'[b] \in {"new", "refused", "done"} => session'[b] # "live"
  BY <1>2 DEF LockMatchesSession
<1>6. \A b \in Attempts : stage'[b] = "new" => session'[b] = "none"
  BY <1>2 DEF LockMatchesSession
<1> QED BY <1>3, <1>4, <1>5, <1>6 DEF LockMatchesSession, KeyOf

\* A step that keeps locks and sessions, and lets nobody end who has one.
LEMMA UntouchedLocks ==
    ASSUME LockMatchesSession, UNCHANGED <<lock, session>>,
           \A b \in Attempts : stage'[b] \in {"new", "refused", "done"} => session[b] # "live",
           \A b \in Attempts : stage'[b] = "new" => stage[b] = "new"
    PROVE  LockMatchesSession'
BY DEF LockMatchesSession, KeyOf

LEMMA LockStep == TypeOK /\ LockMatchesSession /\ [Next]_vars => LockMatchesSession'
<1> SUFFICES ASSUME TypeOK, LockMatchesSession, [Next]_vars PROVE LockMatchesSession'
  OBVIOUS
<1>1. ASSUME NEW a \in Attempts, TryLock(a) PROVE LockMatchesSession'
  <2>1. KeyOf(a) \in LockKeys
    BY KeyOfType
  <2>2. \A k \in LockKeys : lock'[k] = IF k = KeyOf(a) THEN a ELSE lock[k]
    BY <1>1, <2>1 DEF TryLock, TypeOK
  <2>3. \A b \in Attempts : session'[b] = IF b = a THEN "live" ELSE session[b]
    BY <1>1 DEF TryLock, TypeOK
  <2>4. \A b \in Attempts : stage'[b] = IF b = a THEN "locked" ELSE stage[b]
    BY <1>1 DEF TryLock, Enter, TypeOK
  <2>5. lock[KeyOf(a)] = NoAttempt
    BY <1>1 DEF TryLock
  <2>6. \A k \in LockKeys : lock'[k] # NoAttempt =>
            session'[lock'[k]] = "live" /\ KeyOf(lock'[k]) = k
    BY <2>2, <2>3 DEF LockMatchesSession, TypeOK
  <2>7. ASSUME NEW b \in Attempts, session'[b] = "live" PROVE lock'[KeyOf(b)] = b
    <3>1. CASE b = a
      BY <2>1, <2>2, <3>1
    <3>2. CASE b # a
      <4>1. lock[KeyOf(b)] = b
        BY <2>3, <2>7, <3>2 DEF LockMatchesSession
      <4>2. KeyOf(b) # KeyOf(a)
        BY <2>5, <4>1, NoAttemptAssumption
      <4> QED BY <2>2, <4>1, <4>2, KeyOfType
    <3> QED BY <3>1, <3>2
  <2>8. \A b \in Attempts : stage'[b] \in {"new", "refused", "done"} => session'[b] # "live"
    BY <2>3, <2>4 DEF LockMatchesSession
  <2>9. \A b \in Attempts : stage'[b] = "new" => session'[b] = "none"
    BY <2>3, <2>4 DEF LockMatchesSession
  <2> QED BY <2>6, <2>7, <2>8, <2>9 DEF LockMatchesSession, KeyOf
<1>2. ASSUME NEW a \in Attempts,
             Refused(a) \/ RecordStart(a) \/ StartFails(a) \/ RecordStop(a)
                 \/ StopFails(a) \/ Crash(a)
      PROVE  LockMatchesSession'
  <2>1. UNCHANGED <<lock, session>>
    BY <1>2 DEF Refused, RecordStart, StartFails, RecordStop, StopFails, Crash
  <2>2. \A b \in Attempts : b # a => stage'[b] = stage[b]
    BY <1>2 DEF Refused, RecordStart, StartFails, RecordStop, StopFails, Crash, Enter, TypeOK
  <2>3. \/ stage'[a] = "refused" /\ stage[a] = "new"
        \/ stage'[a] \in {"running", "unlocking", "dead"}
    BY <1>2 DEF Refused, RecordStart, StartFails, RecordStop, StopFails, Crash, Enter, TypeOK
  <2> QED BY <2>1, <2>2, <2>3, UntouchedLocks DEF LockMatchesSession
<1>3. ASSUME NEW a \in Attempts, Use(a) PROVE LockMatchesSession'
  BY <1>3 DEF Use, Begin, Commit, LockMatchesSession, KeyOf
<1>4. ASSUME NEW a \in Attempts, Unlock(a) PROVE LockMatchesSession'
  <2>1. stage'[a] = "done" /\ \A b \in Attempts : b # a => stage'[b] = stage[b]
    BY <1>4 DEF Unlock, Enter, TypeOK
  <2> QED BY <1>4, <2>1, UnlockedLocks DEF Unlock
<1>5. ASSUME NEW a \in Attempts, EndSession(a) PROVE LockMatchesSession'
  <2>1. stage' = stage /\ stage[a] # "new"
    BY <1>5 DEF EndSession, LockMatchesSession
  <2> QED BY <1>5, <2>1, UnlockedLocks DEF EndSession
<1>6. CASE Terminated \/ UNCHANGED vars
  BY <1>6 DEF Terminated, vars, LockMatchesSession, KeyOf
<1> QED BY <1>1, <1>2, <1>3, <1>4, <1>5, <1>6
        DEF Next, Acquire, Close, Fails, Reap, SessionLost

\* Every lock belongs to the live session of an attempt made for it.
THEOREM LockInvariant == Spec => []LockInv
<1>1. Init => LockInv
  <2>1. Init => TypeOK
    BY MaxFaultsAssumption DEF Init, TypeOK, Stages, Rows
  <2> QED BY <2>1 DEF Init, LockInv, LockMatchesSession
<1>2. TypeOK /\ TypeOK' /\ LockMatchesSession /\ [Next]_vars => LockMatchesSession'
  BY LockStep
<1>3. Init => LockMatchesSession
  BY <1>1 DEF LockInv
<1> QED BY <1>2, <1>3, TypeInvariant, PTL DEF Spec, LockInv

\* At most one attempt acts for an individual, or for two individuals whose
\* lock keys collide (db/locks.py).
THEOREM ExclusiveOwnership == Spec => []OneOwner
<1>1. LockInv => OneOwner
  BY DEF LockInv, LockMatchesSession, OneOwner, Acts
<1> QED BY <1>1, LockInvariant, PTL


-----------------------------------------------------------------------------

RowFacts == RowMatchesStage /\ RowsFollowLock

\* A step that leaves the rows alone and makes nobody a running owner.
LEMMA UntouchedRows ==
    ASSUME RowFacts, row' = row,
           \A b \in Attempts : stage'[b] \in {"new", "locked", "refused"}
                                   => row[b] = "none",
           \A b \in Attempts : Acts(b)' /\ stage'[b] = "running"
                                   => Acts(b) /\ stage[b] = "running"
    PROVE  RowFacts'
BY DEF RowFacts, RowMatchesStage, RowsFollowLock

LEMMA RowStep == LockInv /\ RowFacts /\ [Next]_vars => RowFacts'
<1> SUFFICES ASSUME LockInv, RowFacts, [Next]_vars PROVE RowFacts'
  OBVIOUS
<1> TypeOK /\ LockMatchesSession
  BY DEF LockInv
<1>1. ASSUME NEW a \in Attempts, RecordStart(a) PROVE RowFacts'
  <2>1. \A b \in Attempts :
            row'[b] = IF b = a THEN "starting" ELSE IF Stale(a, b) THEN "crashed" ELSE row[b]
    BY <1>1 DEF RecordStart
  <2>2. \A b \in Attempts : stage'[b] = IF b = a THEN "running" ELSE stage[b]
    BY <1>1 DEF RecordStart, Enter, TypeOK
  <2>3. session' = session /\ Acts(a)
    BY <1>1 DEF RecordStart, Acts
  <2>4. RowMatchesStage'
    BY <2>1, <2>2 DEF RowFacts, RowMatchesStage, Stale
  <2>5. ASSUME NEW b \in Attempts, Acts(b)', stage'[b] = "running"
        PROVE  row'[b] = "starting"
    <3>1. CASE b = a
      BY <2>1, <3>1
    <3>2. CASE b # a
      <4>1. Acts(b) /\ stage[b] = "running"
        BY <2>2, <2>3, <2>5, <3>2 DEF Acts
      <4>2. row[b] = "starting"
        BY <4>1 DEF RowFacts, RowsFollowLock
      <4>3. Of[b] # Of[a]
        BY <2>3, <3>2, <4>1 DEF LockMatchesSession, Acts, KeyOf
      <4> QED BY <2>1, <3>2, <4>2, <4>3 DEF Stale
    <3> QED BY <3>1, <3>2
  <2>6. ASSUME NEW b \in Attempts, NEW c \in Attempts,
               row'[b] = "starting", row'[c] = "starting", Of[b] = Of[c]
        PROVE  b = c
    BY <2>1, <2>6 DEF Stale, RowFacts, RowsFollowLock
  <2> QED BY <2>4, <2>5, <2>6 DEF RowFacts, RowsFollowLock
<1>2. ASSUME NEW a \in Attempts, RecordStop(a) PROVE RowFacts'
  <2>1. \A b \in Attempts :
            row'[b] = IF b = a /\ row[b] = "starting" THEN "stopped" ELSE row[b]
    BY <1>2 DEF RecordStop, Ended, TypeOK
  <2>2. \A b \in Attempts : stage'[b] = IF b = a THEN "unlocking" ELSE stage[b]
    BY <1>2 DEF RecordStop, Ended, Enter, TypeOK
  <2>3. session' = session
    BY <1>2 DEF RecordStop, Ended
  <2>4. RowMatchesStage'
    BY <2>1, <2>2 DEF RowFacts, RowMatchesStage
  <2>5. RowsFollowLock'
    BY <2>1, <2>2, <2>3 DEF RowFacts, RowsFollowLock, Acts
  <2> QED BY <2>4, <2>5 DEF RowFacts
<1>3. ASSUME NEW a \in Attempts,
             TryLock(a) \/ Refused(a) \/ StartFails(a) \/ StopFails(a) \/ Unlock(a) \/ Crash(a)
      PROVE  RowFacts'
  <2>1. row' = row
    BY <1>3 DEF TryLock, Refused, StartFails, StopFails, Unlock, Crash
  <2>2. \A b \in Attempts : b # a => stage'[b] = stage[b] /\ session'[b] = session[b]
    BY <1>3 DEF TryLock, Refused, StartFails, StopFails, Unlock, Crash, Enter, TypeOK
  <2>3. \/ stage'[a] \in {"locked", "refused"} /\ stage[a] = "new"
        \/ stage'[a] \in {"unlocking", "done", "dead"}
    BY <1>3 DEF TryLock, Refused, StartFails, StopFails, Unlock, Crash, Enter, TypeOK
  <2>4. \A b \in Attempts : stage'[b] \in {"new", "locked", "refused"} => row[b] = "none"
    BY <2>2, <2>3 DEF RowFacts, RowMatchesStage
  <2>5. \A b \in Attempts : Acts(b)' /\ stage'[b] = "running"
                                => Acts(b) /\ stage[b] = "running"
    BY <2>2, <2>3 DEF Acts
  <2> QED BY <2>1, <2>4, <2>5, UntouchedRows
<1>4. ASSUME NEW a \in Attempts, Use(a) \/ EndSession(a) PROVE RowFacts'
  <2>1. row' = row /\ stage' = stage
    BY <1>4 DEF Use, Begin, Commit, EndSession
  <2>2. \A b \in Attempts : session'[b] = "live" => session[b] = "live"
    BY <1>4 DEF Use, Begin, Commit, EndSession, TypeOK
  <2> QED BY <2>1, <2>2, UntouchedRows DEF RowFacts, RowMatchesStage, Acts
<1>5. CASE Terminated \/ UNCHANGED vars
  BY <1>5 DEF Terminated, vars, RowFacts, RowMatchesStage, RowsFollowLock, Acts
<1> QED BY <1>1, <1>2, <1>3, <1>4, <1>5
        DEF Next, Acquire, Close, Fails, Reap, SessionLost

\* The observed rows agree with the authority: nobody marks the row of a
\* running owner, and an individual never has two rows that are not ended.
THEOREM RowsInvariant == Spec => []RowsFollowLock
<1>1. Init => RowFacts
  BY DEF Init, RowFacts, RowMatchesStage, RowsFollowLock, Acts
<1>2. LockInv /\ RowFacts /\ [Next]_vars => RowFacts'
  BY RowStep
<1>3. RowFacts => RowsFollowLock
  BY DEF RowFacts
<1> QED BY <1>1, <1>2, <1>3, LockInvariant, PTL DEF Spec

LEMMA EndedRowsStay ==
    LockInv /\ RowFacts /\ [Next]_vars =>
        [\A a \in Attempts : row[a] \in {"stopped", "crashed"} => row'[a] = row[a]]_vars
<1> SUFFICES ASSUME LockInv, RowFacts, Next,
                    NEW b \in Attempts, row[b] \in {"stopped", "crashed"}
             PROVE  row'[b] = row[b]
  OBVIOUS
<1>1. ASSUME NEW a \in Attempts, RecordStart(a) PROVE row'[b] = row[b]
  <2>1. row[a] = "none"
    BY <1>1 DEF RecordStart, RowFacts, RowMatchesStage
  <2> QED BY <1>1, <2>1 DEF RecordStart, Stale
<1>2. ASSUME NEW a \in Attempts, RecordStop(a) PROVE row'[b] = row[b]
  BY <1>2 DEF RecordStop, Ended, LockInv, TypeOK
<1>3. ASSUME NEW a \in Attempts, Use(a) \/ Fails(a) PROVE row'[b] = row[b]
  BY <1>3 DEF Use, Begin, Commit, Fails, Crash, Reap, SessionLost, EndSession
<1>4. ASSUME NEW a \in Attempts, TryLock(a) \/ Refused(a) \/ StartFails(a)
                                     \/ StopFails(a) \/ Unlock(a)
      PROVE row'[b] = row[b]
  BY <1>4 DEF TryLock, Refused, StartFails, StopFails, Unlock
<1>5. CASE Terminated
  BY <1>5 DEF Terminated, vars
<1> QED BY <1>1, <1>2, <1>3, <1>4, <1>5 DEF Next, Acquire, Close

\* A row that was stopped or marked crashed is never changed again.
THEOREM RowsEnd == Spec => RowsEndOnce
<1>1. Init => RowFacts
  BY DEF Init, RowFacts, RowMatchesStage, RowsFollowLock, Acts
<1>2. LockInv /\ RowFacts /\ [Next]_vars => RowFacts'
  BY RowStep
<1> QED BY <1>1, <1>2, EndedRowsStay, LockInvariant, PTL DEF Spec, RowsEndOnce


-----------------------------------------------------------------------------

\* Everyone who committed work has left the start behind, and everyone but the
\* last has lost its authority, for good.
Predecessors ==
    \A i \in Individuals : \A n \in DOMAIN written[i] :
        /\ Of[written[i][n]] = i
        /\ stage[written[i][n]] \notin {"new", "locked"}
        /\ n < Len(written[i]) => ~Acts(written[i][n])

WrittenInv == Predecessors /\ OwnersNeverAlternate

\* A commit extends the list by the committing owner, unless it ends with it.
LEMMA SignedLast ==
    ASSUME NEW past \in Seq(Attempts), NEW a \in Attempts
    PROVE  \/ /\ past # <<>> /\ past[Len(past)] = a /\ Signed(past, a) = past
           \/ /\ past = <<>> \/ past[Len(past)] # a
              /\ Len(Signed(past, a)) = Len(past) + 1
              /\ DOMAIN Signed(past, a) = 1 .. Len(past) + 1
              /\ Signed(past, a)[Len(past) + 1] = a
              /\ \A n \in DOMAIN past : Signed(past, a)[n] = past[n]
BY DEF Signed

LEMMA CommitKeepsOrder ==
    ASSUME LockInv, WrittenInv, NEW a \in Attempts, Commit(a)
    PROVE  WrittenInv'
<1> DEFINE i == Of[a]
           past == written[i]
<1>1. i \in Individuals /\ past \in Seq(Attempts)
  BY OfAssumption DEF LockInv, TypeOK
<1>2. \A j \in Individuals : written'[j] = IF j = i THEN Signed(past, a) ELSE written[j]
  BY <1>1 DEF Commit, LockInv, TypeOK
<1>3. stage' = stage /\ session' = session /\ Acts(a) /\ stage[a] = "running"
  BY DEF Commit, Connected, Acts
<1>4. \A b \in Attempts : b # a /\ Of[b] = i => ~Acts(b)
  BY <1>3 DEF LockInv, LockMatchesSession, Acts, KeyOf
<1>5. CASE Signed(past, a) = past
  BY <1>2, <1>3, <1>5 DEF WrittenInv, Predecessors, OwnersNeverAlternate, Acts
<1>6. CASE /\ past = <<>> \/ past[Len(past)] # a
           /\ Len(Signed(past, a)) = Len(past) + 1
           /\ DOMAIN Signed(past, a) = 1 .. Len(past) + 1
           /\ Signed(past, a)[Len(past) + 1] = a
           /\ \A n \in DOMAIN past : Signed(past, a)[n] = past[n]
  <2>1. DOMAIN past = 1 .. Len(past) /\ Len(past) \in Nat
    BY <1>1
  <2>2. \A n \in DOMAIN past : past[n] \in Attempts
    BY <1>1
  <2>3. \A n \in DOMAIN past : past[n] # a
    <3> SUFFICES ASSUME NEW n \in DOMAIN past, past[n] = a PROVE FALSE
      OBVIOUS
    <3>1. n = Len(past)
      BY <1>1, <1>3, <2>1 DEF WrittenInv, Predecessors
    <3> QED BY <1>6, <2>1, <3>1
  <2>4. \A n \in DOMAIN past : ~Acts(past[n])
    BY <1>1, <1>4, <2>2, <2>3 DEF WrittenInv, Predecessors
  <2>5. Predecessors'
    <3> SUFFICES ASSUME NEW j \in Individuals, NEW n \in DOMAIN written'[j]
                 PROVE  /\ Of[written'[j][n]] = j
                        /\ stage'[written'[j][n]] \notin {"new", "locked"}
                        /\ n < Len(written'[j]) =>
                               ~(stage'[written'[j][n]] \in {"locked", "running"}
                                   /\ session'[written'[j][n]] = "live")
      BY DEF Predecessors, Acts
    <3>1. CASE j # i
      <4>1. written'[j] = written[j]
        BY <1>2, <3>1
      <4> QED BY <1>3, <4>1 DEF WrittenInv, Predecessors, Acts
    <3>2. CASE j = i
      <4>1. written'[j] = Signed(past, a)
        BY <1>2, <3>2
      <4>2. CASE n \in DOMAIN past
        <5>1. written'[j][n] = past[n]
          BY <1>6, <4>1, <4>2
        <5>2. Of[past[n]] = i /\ stage[past[n]] \notin {"new", "locked"}
          BY <1>1, <4>2 DEF WrittenInv, Predecessors
        <5> QED BY <1>3, <2>4, <3>2, <4>2, <5>1, <5>2 DEF Acts
      <4>3. CASE n = Len(past) + 1
        BY <1>3, <1>6, <2>1, <3>2, <4>1, <4>3
      <4> QED BY <1>6, <2>1, <4>1, <4>2, <4>3
    <3> QED BY <3>1, <3>2
  <2>6. OwnersNeverAlternate'
    <3> SUFFICES ASSUME NEW j \in Individuals,
                        NEW m \in DOMAIN written'[j], NEW n \in DOMAIN written'[j],
                        written'[j][m] = written'[j][n]
                 PROVE  m = n
      BY DEF OwnersNeverAlternate
    <3>1. CASE j # i
      <4>1. written'[j] = written[j]
        BY <1>2, <3>1
      <4> QED BY <4>1 DEF WrittenInv, OwnersNeverAlternate
    <3>2. CASE j = i
      <4>1. written'[j] = Signed(past, a)
        BY <1>2, <3>2
      <4>2. \A p, q \in DOMAIN past : past[p] = past[q] => p = q
        BY <1>1 DEF WrittenInv, OwnersNeverAlternate
      <4>3. \A p \in 1 .. Len(past) + 1 : p \in DOMAIN past \/ p = Len(past) + 1
        BY <2>1
      <4> QED BY <1>6, <2>3, <4>1, <4>2, <4>3
    <3> QED BY <3>1, <3>2
  <2> QED BY <2>5, <2>6 DEF WrittenInv
<1> QED BY <1>1, <1>5, <1>6, SignedLast

LEMMA WrittenStep == LockInv /\ WrittenInv /\ [Next]_vars => WrittenInv'
<1> SUFFICES ASSUME LockInv, WrittenInv, [Next]_vars PROVE WrittenInv'
  OBVIOUS
<1>1. ASSUME NEW a \in Attempts, Commit(a) PROVE WrittenInv'
  BY <1>1, CommitKeepsOrder
<1>2. ASSUME written' = written,
             \A b \in Attempts : stage[b] \notin {"new", "locked"} =>
                 stage'[b] \notin {"new", "locked"} /\ (Acts(b)' => Acts(b))
      PROVE  WrittenInv'
  BY <1>2 DEF LockInv, TypeOK, WrittenInv, Predecessors, OwnersNeverAlternate
<1>3. ASSUME NEW a \in Attempts,
             TryLock(a) \/ Refused(a) \/ RecordStart(a) \/ StartFails(a) \/ Begin(a)
                 \/ RecordStop(a) \/ StopFails(a) \/ Unlock(a) \/ Crash(a) \/ EndSession(a)
      PROVE  WrittenInv'
  <2>1. written' = written
    BY <1>3 DEF TryLock, Refused, RecordStart, StartFails, Begin, RecordStop,
                StopFails, Unlock, Crash, EndSession
  <2>2. \A b \in Attempts : b # a => stage'[b] = stage[b] /\ session'[b] = session[b]
    BY <1>3 DEF TryLock, Refused, RecordStart, StartFails, Begin, RecordStop,
                StopFails, Unlock, Crash, EndSession, Enter, LockInv, TypeOK
  <2>3. \/ stage[a] \in {"new", "locked"}
        \/ stage'[a] \in {"unlocking", "done", "dead"}
        \/ stage'[a] = stage[a] /\ (session'[a] = "live" => session[a] = "live")
    BY <1>3 DEF TryLock, Refused, RecordStart, StartFails, Begin, RecordStop,
                StopFails, Unlock, Crash, EndSession, Enter, LockInv, TypeOK
  <2> QED BY <1>2, <2>1, <2>2, <2>3 DEF Acts
<1>4. CASE Terminated \/ UNCHANGED vars
  BY <1>2, <1>4 DEF Terminated, vars, Acts
<1> QED BY <1>1, <1>3, <1>4 DEF Next, Acquire, Use, Close, Fails, Reap, SessionLost

\* Owners of an individual follow each other: once a successor has committed
\* work, no predecessor commits again, however long it believes it owns.
THEOREM FencedSuccession == Spec => []OwnersNeverAlternate
<1>1. Init => WrittenInv
  BY DEF Init, WrittenInv, Predecessors, OwnersNeverAlternate
<1>2. LockInv /\ WrittenInv /\ [Next]_vars => WrittenInv'
  BY WrittenStep
<1>3. WrittenInv => OwnersNeverAlternate
  BY DEF WrittenInv
<1> QED BY <1>1, <1>2, <1>3, LockInvariant, PTL DEF Spec

=============================================================================
