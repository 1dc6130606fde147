------------------------------ MODULE Ownership ------------------------------
(***************************************************************************)
(* Ownership of an individual by at most one runtime: a session-level      *)
(* advisory lock on a dedicated connection that is never pooled and never  *)
(* reconnected, and the runtime_instances rows that only observe it        *)
(* (db/locks.py, runtime/ownership.py, stores/runtime.py).                 *)
(*                                                                         *)
(* An attempt is one call of acquire_runtime_ownership up to the close of  *)
(* what it returned: one session, and at most one row.  A runtime that     *)
(* starts again makes another attempt.  The server may end the session of  *)
(* an attempt at any time; the process may die at any point.               *)
(***************************************************************************)
EXTENDS Naturals, Sequences

CONSTANTS
    Attempts,
    NoAttempt,
    Individuals,
    Of,           \* Of[a]: the individual attempt a is made for
    LockKeys,
    Key,          \* Key[i]: advisory_lock_key; two individuals may collide
    MaxFaults     \* bound: crashes, lost sessions and failed transactions

ASSUME OfAssumption == Of \in [Attempts -> Individuals]
ASSUME KeyAssumption == Key \in [Individuals -> LockKeys]
ASSUME NoAttemptAssumption == NoAttempt \notin Attempts
ASSUME MaxFaultsAssumption == MaxFaults \in Nat

VARIABLES
    stage,        \* how far the process of an attempt has come
    session,      \* its session as the server sees it
    lock,         \* the attempt whose session holds each advisory lock
    row,          \* the status of its runtime_instances row
    pending,      \* whether its session has uncommitted work
    written,      \* for each individual, who committed work, in order
    faults

vars == <<stage, session, lock, row, pending, written, faults>>

Stages == {"new", "locked", "running", "unlocking", "refused", "done", "dead"}
Rows   == {"none", "starting", "stopped", "crashed"}

KeyOf(a) == Key[Of[a]]

Fault == faults < MaxFaults /\ faults' = faults + 1

Enter(a, s) == stage' = [stage EXCEPT ![a] = s]

\* The locks once the session of a is over: none of them is its own.
Unlocked(a) == [k \in LockKeys |-> IF lock[k] = a THEN NoAttempt ELSE lock[k]]

-----------------------------------------------------------------------------
(* acquire_individual_lock *)

\* A plausible bug: the answer of pg_try_advisory_lock is not looked at.
TryLockBlind(a) ==
    /\ stage[a] = "new"
    /\ lock' = IF lock[KeyOf(a)] = NoAttempt THEN [lock EXCEPT ![KeyOf(a)] = a] ELSE lock
    /\ session' = [session EXCEPT ![a] = "live"]
    /\ Enter(a, "locked")
    /\ UNCHANGED <<row, pending, written, faults>>

TryLock(a) ==
    /\ stage[a] = "new" /\ lock[KeyOf(a)] = NoAttempt
    /\ lock' = [lock EXCEPT ![KeyOf(a)] = a]
    /\ session' = [session EXCEPT ![a] = "live"]
    /\ Enter(a, "locked")
    /\ UNCHANGED <<row, pending, written, faults>>

\* OwnershipUnavailableError: the connection is closed, nothing was recorded.
Refused(a) ==
    /\ stage[a] = "new" /\ lock[KeyOf(a)] # NoAttempt
    /\ Enter(a, "refused")
    /\ UNCHANGED <<session, lock, row, pending, written, faults>>

-----------------------------------------------------------------------------
(* record_runtime_start, on the session that holds the lock *)

\* An earlier row of the same individual that nobody ended.
Stale(a, b) == b # a /\ Of[b] = Of[a] /\ row[b] = "starting"

RecordStart(a) ==
    /\ stage[a] = "locked" /\ session[a] = "live"
    /\ row' = [b \in Attempts |-> IF b = a THEN "starting"
                                  ELSE IF Stale(a, b) THEN "crashed" ELSE row[b]]
    /\ Enter(a, "running")
    /\ UNCHANGED <<session, lock, pending, written, faults>>

\* The session is gone, or the transaction fails: what was acquired is closed.
StartFails(a) ==
    /\ stage[a] = "locked"
    /\ \/ session[a] = "gone" /\ UNCHANGED faults
       \/ session[a] = "live" /\ Fault
    /\ Enter(a, "unlocking")
    /\ UNCHANGED <<session, lock, row, pending, written>>

-----------------------------------------------------------------------------
(* Work through the connection of the ownership *)

Begin(a) ==
    /\ stage[a] = "running" /\ session[a] = "live" /\ ~pending[a]
    /\ pending' = [pending EXCEPT ![a] = TRUE]
    /\ UNCHANGED <<stage, session, lock, row, written, faults>>

\* Who committed work for an individual; a run of commits counts once.
Signed(past, a) ==
    IF past # <<>> /\ past[Len(past)] = a THEN past ELSE Append(past, a)

\* A plausible bug: the pool replaces a session that has ended.
Reconnects(a) == stage[a] = "running"

\* The connection never reconnects: work goes through the session of the lock.
Connected(a) == stage[a] = "running" /\ session[a] = "live"

Commit(a) ==
    /\ Connected(a)
    /\ pending' = [pending EXCEPT ![a] = FALSE]
    /\ written' = [written EXCEPT ![Of[a]] = Signed(@, a)]
    /\ UNCHANGED <<stage, session, lock, row, faults>>

-----------------------------------------------------------------------------
(* RuntimeOwnership.close *)

\* Only a row that nobody has ended yet is marked.
Ended(s) == IF s = "starting" THEN "stopped" ELSE s

\* The caller's open transaction is rolled back, then the stop is recorded,
\* unless another owner has already ended the row.
RecordStop(a) ==
    /\ stage[a] = "running" /\ session[a] = "live"
    /\ row' = [row EXCEPT ![a] = Ended(@)]
    /\ pending' = [pending EXCEPT ![a] = FALSE]
    /\ Enter(a, "unlocking")
    /\ UNCHANGED <<session, lock, written, faults>>

\* The session is known or found to be gone, or the statement fails: the row is
\* left for the next owner to mark.
StopFails(a) ==
    /\ stage[a] = "running"
    /\ \/ session[a] = "gone" /\ UNCHANGED faults
       \/ session[a] = "live" /\ Fault
    /\ pending' = [pending EXCEPT ![a] = FALSE]
    /\ Enter(a, "unlocking")
    /\ UNCHANGED <<session, lock, row, written>>

\* A plausible bug: a failed close leaves the session of the lock open.
CloseProcessOnly(a) ==
    /\ stage[a] = "unlocking"
    /\ Enter(a, "done")
    /\ UNCHANGED <<session, lock, row, pending, written, faults>>

\* AdvisoryOwnership.close: unlock if the session is still there, and close the
\* physical connection whatever happened.
Unlock(a) ==
    /\ stage[a] = "unlocking"
    /\ lock' = Unlocked(a)
    /\ session' = [session EXCEPT ![a] = "gone"]
    /\ Enter(a, "done")
    /\ UNCHANGED <<row, pending, written, faults>>

-----------------------------------------------------------------------------
(* Failures *)

\* The process dies; its session lasts until the server notices.
Crash(a) ==
    /\ stage[a] \in {"locked", "running", "unlocking"} /\ Fault
    /\ Enter(a, "dead")
    /\ UNCHANGED <<session, lock, row, pending, written>>

EndSession(a) ==
    /\ session[a] = "live"
    /\ session' = [session EXCEPT ![a] = "gone"]
    /\ lock' = Unlocked(a)
    /\ pending' = [pending EXCEPT ![a] = FALSE]
    /\ UNCHANGED <<stage, row, written>>

Reap(a) == stage[a] = "dead" /\ EndSession(a) /\ UNCHANGED faults

SessionLost(a) == stage[a] # "dead" /\ EndSession(a) /\ Fault

-----------------------------------------------------------------------------

Init ==
    /\ stage = [a \in Attempts |-> "new"]
    /\ session = [a \in Attempts |-> "none"]
    /\ lock = [k \in LockKeys |-> NoAttempt]
    /\ row = [a \in Attempts |-> "none"]
    /\ pending = [a \in Attempts |-> FALSE]
    /\ written = [i \in Individuals |-> <<>>]
    /\ faults = 0

Acquire(a) == TryLock(a) \/ Refused(a) \/ RecordStart(a) \/ StartFails(a)
Use(a)     == Begin(a) \/ Commit(a)
Close(a)   == RecordStop(a) \/ StopFails(a) \/ Unlock(a)
Fails(a)   == Crash(a) \/ Reap(a) \/ SessionLost(a)

\* Every attempt may have ended.
Terminated == /\ \A a \in Attempts : stage[a] \in {"refused", "done", "dead"}
              /\ \A a \in Attempts : session[a] # "live"
              /\ UNCHANGED vars

Next == \/ \E a \in Attempts : Acquire(a) \/ Use(a) \/ Close(a) \/ Fails(a)
        \/ Terminated

Spec == Init /\ [][Next]_vars

\* A process that lives goes on to the end of its close, and the server ends
\* the session of one that died.
Fairness == \A a \in Attempts :
                WF_vars(RecordStart(a) \/ StartFails(a) \/ Close(a)) /\ WF_vars(Reap(a))

FairSpec == Spec /\ Fairness

-----------------------------------------------------------------------------
(* Properties *)

TypeOK ==
    /\ stage \in [Attempts -> Stages]
    /\ session \in [Attempts -> {"none", "live", "gone"}]
    /\ lock \in [LockKeys -> Attempts \cup {NoAttempt}]
    /\ row \in [Attempts -> Rows]
    /\ pending \in [Attempts -> BOOLEAN]
    /\ written \in [Individuals -> Seq(Attempts)]
    /\ faults \in Nat

\* An attempt whose next statement would still be executed.
Acts(a) == stage[a] \in {"locked", "running"} /\ session[a] = "live"

\* docs of advisory_lock_key: at most one runtime acts for an individual, and
\* individuals whose keys collide exclude each other rather than share.
OneOwner ==
    \A a, b \in Attempts : Acts(a) /\ Acts(b) /\ KeyOf(a) = KeyOf(b) => a = b

\* The rows agree with the authority they observe: nobody marks the row of a
\* running owner, and an individual never has two rows that are not ended.
RowsFollowLock ==
    /\ \A a \in Attempts : Acts(a) /\ stage[a] = "running" => row[a] = "starting"
    /\ \A a, b \in Attempts :
           row[a] = "starting" /\ row[b] = "starting" /\ Of[a] = Of[b] => a = b

\* Owners of an individual follow each other: once a successor has committed
\* work, a predecessor that still believes it owns never commits again.
OwnersNeverAlternate ==
    \A i \in Individuals : \A m, n \in DOMAIN written[i] :
        written[i][m] = written[i][n] => m = n

\* A row ends once: stopped stays stopped, crashed stays crashed.
RowsEndOnce ==
    [][\A a \in Attempts : row[a] \in {"stopped", "crashed"} => row'[a] = row[a]]_vars

\* runtime/ownership.py, close: "always relinquish authority", whatever failed
\* before, and a process that died does not keep it either.
AuthorityRelinquished ==
    \A a \in Attempts :
        (stage[a] \in {"unlocking", "dead"}) ~> (\A k \in LockKeys : lock[k] # a)

=============================================================================
