------------------------- MODULE MCHeartbeatTiming -------------------------
(* Small policies: below and above one second, equal bounds, factors 1 to 3. *)
EXTENDS HeartbeatTiming

SmallPolicies == {p \in [minimum : {1, 3}, maximum : {1, 3, 7}, factor : 1 .. 3] :
                     p.maximum >= p.minimum}

=============================================================================
