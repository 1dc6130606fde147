----------------------------- MODULE MCOwnership -----------------------------
(* Two individuals whose lock keys collide and a third of its own.           *)
EXTENDS Ownership

CONSTANTS a1, a2, a3, a4, one, two, three, shared, own

Targets == [a \in Attempts |-> IF a = a3 THEN two ELSE IF a = a4 THEN three ELSE one]
Hashes  == [i \in Individuals |-> IF i = three THEN own ELSE shared]

=============================================================================
