--------------------------- MODULE DecisionLedger ---------------------------
(***************************************************************************)
(* What the durable cycle promises about decisions, without saying how:    *)
(* a ledger of turns per cycle.  One turn at a time is open in the whole   *)
(* ledger; it is given at most one decision, for good, and the decision    *)
(* either takes effect completely and once or not at all.  Crashes,        *)
(* retries, failovers, pauses and clocks do not appear: they may delay a   *)
(* step but never add, repeat, split or undo one.                          *)
(***************************************************************************)
EXTENDS Naturals, Sequences

CONSTANTS Cycles, Ops, Decisions, NoDecision,
          Operations(_),   \* the operations a decision carries
          Continues(_)     \* whether it asks for another turn

VARIABLES ledger,          \* the turns of each cycle: phase and decision
          effect           \* the turn each operation took effect in

lvars == <<ledger, effect>>

Nowhere  == <<0, 0>>
OpenTurn == [phase |-> "open", decision |-> NoDecision]

Live(c) == ledger[c] # <<>> /\ ledger[c][Len(ledger[c])].phase \in {"open", "decided"}

Last(c) == ledger[c][Len(ledger[c])]

\* The turns with the last one replaced by t.
Relast(turns, t) == [o \in DOMAIN turns |-> IF o = Len(turns) THEN t ELSE turns[o]]

Closed(turns, p) == Relast(turns, [phase |-> p, decision |-> turns[Len(turns)].decision])

Init ==
    /\ ledger = [c \in Cycles |-> <<>>]
    /\ effect = [op \in Ops |-> Nowhere]

\* A cycle starts with one open turn, when no other turn is live.
Begin(c) ==
    /\ ledger[c] = <<>> /\ \A b \in Cycles : ~Live(b)
    /\ ledger' = [ledger EXCEPT ![c] = <<OpenTurn>>]
    /\ UNCHANGED effect

\* The open turn is given a decision no turn was ever given.
Commit(c, d) ==
    /\ Live(c) /\ Last(c).phase = "open"
    /\ \A b \in Cycles : \A o \in DOMAIN ledger[b] : ledger[b][o].decision # d
    /\ ledger' = [ledger EXCEPT ![c] =
                      Relast(@, [phase |-> "decided", decision |-> d])]
    /\ UNCHANGED effect

\* Every operation of the decision takes effect, none of them a second time;
\* a continuing decision may open the next turn in the same step.
Enact(c) ==
    /\ Live(c) /\ Last(c).phase = "decided"
    /\ \A op \in Operations(Last(c).decision) : effect[op] = Nowhere
    /\ effect' = [op \in Ops |-> IF op \in Operations(Last(c).decision)
                                 THEN <<c, Len(ledger[c])>> ELSE effect[op]]
    /\ \/ ledger' = [ledger EXCEPT ![c] = Closed(@, "applied")]
       \/ /\ Continues(Last(c).decision)
          /\ ledger' = [ledger EXCEPT ![c] = Append(Closed(@, "applied"), OpenTurn)]

Refuse(c) ==
    /\ Live(c) /\ Last(c).phase = "decided"
    /\ ledger' = [ledger EXCEPT ![c] = Closed(@, "rejected")]
    /\ UNCHANGED effect

GiveUp(c) ==
    /\ Live(c) /\ Last(c).phase = "open"
    /\ ledger' = [ledger EXCEPT ![c] = Closed(@, "failed")]
    /\ UNCHANGED effect

Next == \E c \in Cycles : \/ Begin(c) \/ Enact(c) \/ Refuse(c) \/ GiveUp(c)
                          \/ \E d \in Decisions : Commit(c, d)

Spec == Init /\ [][Next]_lvars

=============================================================================
