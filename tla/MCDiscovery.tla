----------------------------- MODULE MCDiscovery -----------------------------
(***************************************************************************)
(* Feed and PartnerList for TLC: what users are shown of others.  The two  *)
(* share no table, no key and no call: TLC follows one at a time, and part *)
(* says which.                                                             *)
(***************************************************************************)
EXTENDS Feed, PartnerList, TLC

CONSTANTS a, b, c, w1, w2

VARIABLE part

MCSymmetry ==
  Permutations(Users \ {Author}) \cup Permutations(Requests)
    \cup Permutations(Candidates)

discoveryVars == <<feedVars, listVars, part>>

DiscoveryInit == FeedInit /\ ListInit /\ part \in {"feed", "list"}

DiscoveryNext ==
  \/ part = "feed" /\ FeedNext /\ UNCHANGED <<listVars, part>>
  \/ part = "list" /\ ListNext /\ UNCHANGED <<feedVars, part>>

DiscoverySpec == DiscoveryInit /\ [][DiscoveryNext]_discoveryVars
=============================================================================
