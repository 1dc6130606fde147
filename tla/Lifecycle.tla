------------------------------ MODULE Lifecycle ------------------------------
(***************************************************************************)
(* The operational status of an individual and the administrative          *)
(* operations that change it (policy/governance.py).                       *)
(***************************************************************************)
Statuses == {"active", "paused", "quiescing", "quiescent", "retired"}

\* <<status, operation, next status>>: everything else is refused.
Transitions == {<<"active", "pause", "paused">>,
                <<"paused", "resume", "active">>,
                <<"quiescent", "resume", "active">>,
                <<"active", "begin_quiesce", "quiescing">>,
                <<"paused", "begin_quiesce", "quiescing">>,
                <<"quiescing", "complete_quiesce", "quiescent">>,
                <<"quiescing", "abort_quiesce", "paused">>,
                <<"paused", "retire", "retired">>,
                <<"quiescent", "retire", "retired">>}

=============================================================================
