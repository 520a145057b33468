--------------------------- MODULE OperationLedger ---------------------------
(***************************************************************************)
(* What the recovery records promise a dapp about each operation it gave   *)
(* to a wallet, whatever the transport and whatever the storage layout:    *)
(*                                                                         *)
(*   - an operation has at most one transaction and at most one answer,    *)
(*     and neither changes once it is recorded;                            *)
(*   - a proven non-submission excludes a transaction and an answer;       *)
(*   - delivery is acknowledged only for an operation with an answer or a  *)
(*     proof, and archived only for one that has neither;                  *)
(*   - only delivered operations are forgotten.                            *)
(***************************************************************************)

CONSTANTS
    Op,      \* operations
    Tx,      \* transaction identities
    Answer,  \* verified answers a wallet can give
    None,
    TxOf(_)  \* the transaction an answer names, or None

VARIABLE ledger  \* [Op -> Entry or None]

Entry ==
    [ answer : Answer \cup {None}, tx : Tx \cup {None}, proof : {"none", "not-submitted"},
      delivery : {"active", "acknowledged", "archived"} ]

LedgerInit == ledger = [op \in Op |-> None]

Known(op) == ledger[op] # None

Settled(entry) == entry.answer # None \/ entry.proof = "not-submitted"

Open(op, delivery) ==
    /\ ~Known(op)
    /\ delivery # "acknowledged"
    /\ ledger' = [ledger EXCEPT ![op] =
         [ answer |-> None, tx |-> None, proof |-> "none", delivery |-> delivery ]]

Identify(op, tx) ==
    /\ Known(op)
    /\ ledger[op].tx = None
    /\ ~Settled(ledger[op])
    /\ ledger' = [ledger EXCEPT ![op].tx = tx]

Settle(op, answer) ==
    /\ Known(op)
    /\ ledger[op].delivery = "active"
    /\ ~Settled(ledger[op])
    /\ ledger[op].tx \in {None, TxOf(answer)}
    /\ ledger' = [ledger EXCEPT ![op].answer = answer, ![op].tx = TxOf(answer)]

RuleOut(op) ==
    /\ Known(op)
    /\ ledger[op].delivery = "active"
    /\ ~Settled(ledger[op])
    /\ ledger[op].tx = None
    /\ ledger' = [ledger EXCEPT ![op].proof = "not-submitted"]

Deliver(op, delivery) ==
    /\ Known(op)
    /\ ledger[op].delivery = "active"
    /\ delivery = IF Settled(ledger[op]) THEN "acknowledged" ELSE "archived"
    /\ ledger' = [ledger EXCEPT ![op].delivery = delivery]

Forget(ops) ==
    /\ \A op \in ops : Known(op) /\ ledger[op].delivery # "active"
    /\ ledger' = [op \in Op |-> IF op \in ops THEN None ELSE ledger[op]]

LedgerNext ==
    \/ \E op \in Op :
         \/ \E delivery \in {"active", "archived"} : Open(op, delivery)
         \/ \E tx \in Tx : Identify(op, tx)
         \/ \E answer \in Answer : Settle(op, answer)
         \/ RuleOut(op)
         \/ \E delivery \in {"acknowledged", "archived"} : Deliver(op, delivery)
    \/ \E ops \in SUBSET Op : Forget(ops)

LedgerSpec == LedgerInit /\ [][LedgerNext]_ledger
==============================================================================
