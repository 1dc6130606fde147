--------------------------- MODULE MCExploration ---------------------------
(* A small instance of Exploration for TLC. *)
EXTENDS Exploration

CONSTANTS r1, r2,     \* runtimes
          w1          \* an ordinary wake

\* The second runtime is behind the first, and allows more than any grant.
Behind  == [p \in Runtimes |-> IF p = r1 THEN 1 ELSE 0]
Unequal == [p \in Runtimes |-> IF p = r1 THEN [attempts |-> 1, seconds |-> 1]
                                         ELSE [attempts |-> 3, seconds |-> 3]]

\* Runtimes that take over from each other, after an interruption or around a
\* change by administrators; an ordinary wake around such a change; and two
\* changes, from any policy.
Recovery   == [policy : {"enabled"}, hosts : {{r1, r2}}, wakes : {{}}, faults : {1}, adminSteps : {0}]
Takeover   == [policy : {"enabled"}, hosts : {{r1, r2}}, wakes : {{}}, faults : {0}, adminSteps : {1}]
Priority   == [policy : {"enabled"}, hosts : {{r2}}, wakes : {{w1}}, faults : {0}, adminSteps : {1}]
Governance == [policy : Policies, hosts : {{r2}}, wakes : {{}}, faults : {0}, adminSteps : {2}]

AllScenes == Recovery \cup Takeover \cup Priority \cup Governance
=============================================================================
