----------------------------- MODULE MCGreeting -----------------------------
(***************************************************************************)
(* Greeting and PartnerPool for TLC: both users may greet, and the job     *)
(* runs beside a request; the pool of candidates from which the users are  *)
(* found.  A greeting neither reads nor writes the pool: TLC follows one   *)
(* of the two at a time, and part says which.                              *)
(***************************************************************************)
EXTENDS Greeting, PartnerPool, TLC

CONSTANTS u1, u2

VARIABLE part

MCUsers == {u1, u2}
MCSymmetry == Permutations(MCUsers) \cup Permutations(Workers)

partnerVars == <<vars, allPoolVars, part>>

PartnersInit == Init /\ PoolInit /\ part \in {"greeting", "pool"}

PartnersNext ==
  \/ part = "greeting" /\ Next /\ UNCHANGED <<allPoolVars, part>>
  \/ part = "pool" /\ PoolNext /\ UNCHANGED <<vars, part>>

PartnersSpec == PartnersInit /\ [][PartnersNext]_partnerVars
=============================================================================
