-------------------------- MODULE CognitionLedger --------------------------
(***************************************************************************)
(* The durable cycle implements the decision ledger: a turn is open while  *)
(* it is prepared or invoking, and operations take effect in the turn      *)
(* applied_operations names.                                               *)
(***************************************************************************)
EXTENDS CognitionProperties

PhaseOf(s) == IF s \in {"prepared", "invoking"} THEN "open" ELSE s

LedgerOf == [c \in Cycles |->
                [o \in DOMAIN turn[c] |-> [phase |-> PhaseOf(turn[c][o].status),
                                           decision |-> turn[c][o].decision]]]

EffectOf == [op \in Ops |-> <<applied[op].cycle, applied[op].ordinal>>]

WantsMore(d) == d.disposition = "continue"

Ledger == INSTANCE DecisionLedger WITH
              ledger <- LedgerOf, effect <- EffectOf, Continues <- WantsMore

\* Every behaviour of the durable cycle, with its crashes, lost sessions,
\* retries, pauses and clocks, is a behaviour of the ledger
\* (stores/cognition.py, claim_or_resume to apply_decision).
ImplementsLedger == Ledger!Spec

=============================================================================
