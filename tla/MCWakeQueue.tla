---------------------------- MODULE MCWakeQueue ----------------------------
(* A small instance of WakeQueue for TLC. *)
EXTENDS WakeQueue

CONSTANTS s1, s2, run,      \* sessions
          a, b, c, d, e, f, g, \* requests
          lost, gone, anew, again, \* orphans and the wakes that replace them
          k1, k2            \* coalescing keys

Ask(id, key, due) == [id |-> id, key |-> key, due |-> due, refs |-> {id}]

\* Two posters and the decision of the runtime use the keys in opposite orders.
Crossed == [s \in Sessions |->
               CASE s = s1 -> <<Ask(a, k1, 1), Ask(b, k2, 0)>>
                 [] s = s2 -> <<Ask(c, k2, 1), Ask(d, k1, 0)>>
                 [] s = run -> <<Ask(e, k1, 0), Ask(f, NoKey, 1), Ask(g, k2, 0)>>]
Renewed == [w \in Wakes |-> [Ask(IF w = lost THEN anew ELSE again, IF w = lost THEN k1 ELSE k2, 1)
                              EXCEPT !.refs = {w}]]

=============================================================================
