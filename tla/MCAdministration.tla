-------------------------- MODULE MCAdministration --------------------------
(* Small instances of Administration for TLC. *)
EXTENDS Administration, TLC

CONSTANTS o1, o2,          \* sessions of operators
          owner, stranger  \* local users

\* Both are sessions of one user, who is the administrator or is not.
SameSubject == [s \in Operators |-> owner]

Symmetry == Permutations({o1, o2}) \cup Permutations(Configs)
=============================================================================
