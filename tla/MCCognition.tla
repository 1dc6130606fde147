---------------------------- MODULE MCCognition ----------------------------
(* Small instances of Cognition for TLC. *)
EXTENDS CognitionLedger

CONSTANTS fast, slow,         \* runtimes
          opA, opB,           \* operation identities
          birth, other,       \* posted wakes, by birth and later
          legacy,             \* a wake claimed by no cycle
          key,                \* the one coalescing key
          first, second       \* configuration revisions

\* The clock of fast's host is one unit ahead.
SkewedClocks == [r \in Runtimes |-> IF r = fast THEN 1 ELSE 0]
TrueClocks   == [r \in Runtimes |-> 0]

Limit(t, a, w, s, d) == [turns |-> t, attempts |-> a, wakes |-> w, seconds |-> s, delay |-> d]

\* The two runtimes were constructed with different limits.
UnequalLimits == [r \in Runtimes |-> IF r = fast THEN Limit(2, 1, 1, 2, 1)
                                                 ELSE Limit(1, 2, 2, 2, 0)]
BriefLimits   == [r \in Runtimes |-> Limit(2, 1, 2, 1, 1)]

Unbound == [r \in Runtimes |-> NoModel]
\* Every runtime is bound to the model of the first revision.
BoundToFirst == [r \in Runtimes |-> first]

PolicyOf(min, max, f) == [minimum |-> min, maximum |-> max, factor |-> f]
Policies2 == [g \in Configs |-> IF g = first THEN PolicyOf(1, 3, 2) ELSE PolicyOf(2, 2, 1)]
Models2   == [g \in Configs |-> g]

Ask(op, at, k) == [op |-> op, notBefore |-> at, key |-> k]
Plan(i, v, disp, reqs, acts) ==
    [id |-> i, valid |-> v, disposition |-> disp, requests |-> reqs, personal |-> acts]

Go       == Plan(2, TRUE,  "continue", {Ask(opA, 0, key)}, {})
Repeat   == Plan(3, TRUE,  "sleep",    {Ask(opA, 0, NoKey)}, {})
Invalid  == Plan(4, FALSE, "continue", {Ask(opB, 0, key)}, {})
Act      == Plan(5, TRUE,  "continue", {}, {opB})
Both     == Plan(6, TRUE,  "sleep",    {Ask(opA, 2, key), Ask(opB, 0, key)}, {})

RecoveryDecisions   == {Go, Repeat, Act, Invalid}
GovernanceDecisions == {Both}

=============================================================================
