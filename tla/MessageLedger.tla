--------------------------- MODULE MessageLedger ---------------------------
(***************************************************************************)
(* What the pending-message table promises ("该表负责 client_msg_no 幂等与   *)
(* 三条消息预占", partners-20260712-01.sql): a requester owns a fixed       *)
(* number of messages; one is taken when a client_msg_no is reserved, is   *)
(* given back at most once and only if the message was not delivered, and  *)
(* the limit ends with the first reply.                                    *)
(***************************************************************************)
EXTENDS Integers

CONSTANTS
  Msgs,     \* the client_msg_no values
  Quota     \* the messages the requester may send besides the greeting

VARIABLES
  ledger,   \* the use each client_msg_no makes of the quota
  left,     \* how many messages may still be reserved
  open      \* the receiver has replied

lvars == <<ledger, left, open>>

LedgerInit ==
  /\ ledger = [m \in Msgs |-> "free"]
  /\ left = Quota
  /\ open = FALSE

Reserve(m) ==
  /\ ~open /\ left > 0
  /\ ledger[m] = "free"
  /\ ledger' = [ledger EXCEPT ![m] = "held"]
  /\ left' = left - 1
  /\ UNCHANGED open

Spend(m) ==
  /\ ledger[m] = "held"
  /\ ledger' = [ledger EXCEPT ![m] = "spent"]
  /\ UNCHANGED <<left, open>>

Refund(m) ==
  /\ ledger[m] = "held"
  /\ ledger' = [ledger EXCEPT ![m] = "free"]
  /\ left' = IF open THEN left ELSE left + 1
  /\ UNCHANGED open

\* The record of a spent message is dropped; the message stays counted.
Forget(m) ==
  /\ ledger[m] = "spent"
  /\ ledger' = [ledger EXCEPT ![m] = "free"]
  /\ UNCHANGED <<left, open>>

\* A message that was sent without a reservation is counted afterwards.
TakeUnreserved ==
  /\ ~open /\ left > 0
  /\ left' = left - 1
  /\ UNCHANGED <<ledger, open>>

Reply ==
  /\ open' = TRUE
  /\ UNCHANGED <<ledger, left>>

LedgerNext ==
  \/ \E m \in Msgs : Reserve(m) \/ Spend(m) \/ Refund(m) \/ Forget(m)
  \/ TakeUnreserved
  \/ Reply

LedgerSpec == LedgerInit /\ [][LedgerNext]_lvars
=============================================================================
