---------------------------- MODULE MCPerception ----------------------------
(* Small instances of Perception for TLC. *)
EXTENDS Perception

CONSTANTS ingest1, ingest2, run1, run2,   \* processes
          inbox, feed,              \* bindings
          plain, again, clash,      \* fixtures
          k1, k2, k3,               \* delivery identities
          p1, p2,                   \* fingerprints
          w1, w2                    \* ordinary wakes

Item(k, p) == [key |-> k, print |-> p]

\* Three items; the same with a redelivery inside a page and one across pages;
\* and one identity delivered with two contents.
Content3 == [f \in Fixtures |->
                CASE f = plain -> <<Item(k1, p1), Item(k2, p1), Item(k3, p2)>>
                  [] f = again -> <<Item(k1, p1), Item(k1, p1), Item(k2, p1), Item(k1, p1)>>
                  [] f = clash -> <<Item(k1, p1), Item(k2, p1), Item(k1, p2)>>]

Plain == [b \in Bindings |-> plain]
Again == [b \in Bindings |-> again]

TrueClocks == [p \in Processes |-> 0]
\* The clock of the second runner is one unit behind the others.
SlowSuccessor == [p \in Processes |-> IF p = run2 THEN 0 ELSE 1]
\* The clock of the ingesting hosts is one unit ahead of the runner's.
FastIngest == [p \in Processes |-> IF p \in Ingesters THEN 1 ELSE 0]

=============================================================================
