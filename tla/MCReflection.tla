---------------------------- MODULE MCReflection ----------------------------
(* Small instances of Reflection for TLC. *)
EXTENDS Reflection

CONSTANTS r1, r2     \* runtimes

\* The clock of the first runtime is one unit ahead.
Behind == [p \in Runtimes |-> IF p = r1 THEN 1 ELSE 0]

\* Two beliefs.
Rows == [f \in Families |-> IF f = "self_state" THEN 2 ELSE 0]

\* Other wakes are about the first one.
AboutFirst == {{<<"self_state", 1>>}}

=============================================================================
