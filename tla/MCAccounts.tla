----------------------------- MODULE MCAccounts -----------------------------
(***************************************************************************)
(* Accounts and Conversations for TLC: the logins of users and the syncing *)
(* of one on its phones.  The two share no table and no key: TLC follows   *)
(* one at a time, and part says which.                                     *)
(***************************************************************************)
EXTENDS Accounts, Conversations, TLC

CONSTANTS u1, u2, w1, w2

VARIABLE part

MCSymmetry == Permutations(Users) \cup Permutations(Requests)

partVars == <<accountVars, conversationVars, part>>

PartInit ==
  AccountsInit /\ ConversationsInit /\ part \in {"accounts", "conversations"}

PartNext ==
  \/ part = "accounts" /\ AccountsNext /\ UNCHANGED <<conversationVars, part>>
  \/ part = "conversations" /\ ConversationsNext /\ UNCHANGED <<accountVars, part>>

PartSpec == PartInit /\ [][PartNext]_partVars
=============================================================================
