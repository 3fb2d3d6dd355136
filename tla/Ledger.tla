------------------------------- MODULE Ledger -------------------------------
(***************************************************************************)
(* What a learner's wallet promises: every movement of money is posted to  *)
(* the ledger at most once, and changes the balance once after it was      *)
(* posted, whoever asks for it and how often; or, where processes die,     *)
(* never.                                                                  *)
(***************************************************************************)
EXTENDS Integers

CONSTANTS
  Movements,
  Value,      \* what each movement adds to the balance
  Opening,    \* the balance before the first movement
  Lossy       \* whether a posted movement may get lost

VARIABLES
  funds,      \* the balance
  posted,     \* the movements in the ledger
  settled     \* the posted movements that are over

ledger == <<funds, posted, settled>>

LedgerInit == funds = Opening /\ posted = {} /\ settled = {}

Post(m) == /\ m \notin posted
           /\ posted' = posted \cup {m}
           /\ UNCHANGED <<funds, settled>>

Settle(m) == /\ m \in posted \ settled
             /\ settled' = settled \cup {m}
             /\ funds' = funds + Value[m]
             /\ UNCHANGED posted

Lose(m) == /\ Lossy
           /\ m \in posted \ settled
           /\ settled' = settled \cup {m}
           /\ UNCHANGED <<funds, posted>>

LedgerNext == \E m \in Movements : Post(m) \/ Settle(m) \/ Lose(m)

LedgerSpec == LedgerInit /\ [][LedgerNext]_ledger
=============================================================================
