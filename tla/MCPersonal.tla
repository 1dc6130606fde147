----------------------------- MODULE MCPersonal -----------------------------
(* Small instances of Personal for TLC. *)
EXTENDS Personal

CONSTANTS
    goal, project, commitment, belief, rival, episode, entity, relationship, thread,
    interest, preference, self, story,      \* objects
    e1, e2, e3,                             \* events
    found, echo, bond, argue, settle, stage, again, replace, return, sleep, wake, retire,   \* turns
    s1, s2                                  \* sessions

AllObjects == {goal, project, commitment, belief, rival, episode, entity, relationship,
               thread, interest, preference, self, story}

Family == [o \in AllObjects |->
    CASE o = goal -> "goal" [] o = project -> "project" [] o = commitment -> "commitment"
      [] o \in {belief, rival} -> "belief" [] o = episode -> "episode"
      [] o = entity -> "entity" [] o = relationship -> "relationship"
      [] o = thread -> "relationship_thread" [] o = interest -> "interest"
      [] o = preference -> "preference" [] o = self -> "self_belief" [] o = story -> "narrative"]

\* An operation that cites refs and gives nothing but its wording.
Op(id, act, target, text, refs) ==
    [id |-> id, act |-> act, target |-> target, text |-> text, refs |-> refs,
     status |-> None, parent |-> None, link |-> None, against |-> {}]

Batch(ops, attends) == [ops |-> ops, attends |-> attends]

\* What the turns decide.
Menu == [t \in {found, echo, bond, argue, settle, stage, again, replace, return, sleep, wake, retire} |->
    CASE t = found ->
           Batch({Op(1, "create", goal, "a", {}), Op(2, "create", commitment, "a", {}),
                  Op(3, "create", belief, "a", {}),
                  Op(4, "create", interest, "a", {e1}), Op(5, "create", preference, "a", {e1}),
                  Op(6, "propose", self, "A", {e1}), Op(7, "create", entity, "a", {})}, {})
      [] t = echo -> Batch({Op(7, "revise", entity, "b", {}), Op(8, "create", story, "b", {e1})}, {})
      [] t = bond ->
           Batch({[Op(11, "create", relationship, "a", {e1}) EXCEPT !.parent = entity],
                  [Op(12, "set_status", project, "b", {}) EXCEPT !.status = "completed"],
                  [Op(13, "set_status", commitment, "b", {}) EXCEPT !.status = "active"],
                  Op(14, "create", episode, "a", {e2})}, {})
      [] t = argue ->
           Batch({[Op(21, "supersede", rival, "b", {e2}) EXCEPT !.parent = belief, !.status = "accepted"],
                  [Op(22, "create", thread, "a", {e1}) EXCEPT !.parent = relationship, !.link = commitment],
                  Op(23, "propose", story, "b", {e2})}, {})
      [] t = settle ->
           Batch({[Op(31, "set_status", belief, "c", {}) EXCEPT !.status = "withdrawn"],
                  [Op(32, "set_status", goal, "c", {}) EXCEPT !.status = "completed"],
                  Op(33, "revise", entity, "c", {})}, {})
      [] t = stage -> Batch({Op(41, "propose", self, "A", {e2})}, {self})
      [] t = again ->
           Batch({Op(51, "propose", self, "A", {<<goal, 1>>}),
                  Op(52, "establish", preference, "d", {<<goal, 1>>, e2}),
                  Op(53, "establish", interest, "d", {e2})}, {self, interest, preference})
      [] t = replace -> Batch({Op(61, "propose", self, "B", {e2})}, {self})
      [] t = return -> Batch({Op(65, "propose", self, "A", {e1})}, {self})
      [] t = sleep -> Batch({Op(71, "set_dormant", interest, "e", {e1}),
                             Op(72, "create", episode, "e", {e3})}, {})
      [] t = wake -> Batch({Op(81, "establish", interest, "f", {episode})}, {interest})
      [] t = retire -> Batch({Op(91, "retire", interest, "g", {e3}),
                              Op(92, "retire", preference, "g", {episode})}, {interest, preference})]

\* What another session asks of the stores.
Requests ==
    {Op(0, "create", project, "a", {}), Op(0, "revise", project, "y", {}),
     [Op(0, "revise", project, "z", {}) EXCEPT !.status = "abandoned"],
     Op(0, "revise", relationship, "z", {e1})}

\* The first event is old, the others are recorded a Day later.
Instants == [e \in {e1, e2, e3} |-> IF e = e1 THEN 0 ELSE 1]

\* Claims and inclinations over time; social life among other sessions; and an
\* operation that is named twice.
Lives == {[turns |-> {found, stage, again, replace, return}, calls |-> 0, faults |-> 0, ticks |-> 3],
          [turns |-> {found, again, sleep, wake, retire}, calls |-> 0, faults |-> 0, ticks |-> 4],
          [turns |-> {found, bond, argue, settle}, calls |-> 2, faults |-> 1, ticks |-> 1],
          [turns |-> {found, echo}, calls |-> 1, faults |-> 1, ticks |-> 0]}

Ahead == [s \in Sessions |-> IF s = s1 THEN 1 ELSE 0]

=============================================================================
