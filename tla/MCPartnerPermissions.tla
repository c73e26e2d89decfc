------------------------ MODULE MCPartnerPermissions ------------------------
(***************************************************************************)
(* PartnerPermissions, followed on the channel of one of two users, and    *)
(* OnlineStatus, which keeps the profiles of partners up to date, for TLC. *)
(* They share no table: TLC follows one of the two at a time, and part     *)
(* says which.                                                             *)
(***************************************************************************)
EXTENDS PartnerPermissions, OnlineStatus

CONSTANTS u1, u2

VARIABLE part

MCUsers == {u1, u2}
MCChannels == {u1}
MCDevices == {<<u1, "app">>, <<u1, "pc">>}

partnerVars == <<vars, permVars, onlineVars, part>>

PartnersInit == PermInit /\ OnlineInit /\ part \in {"permissions", "online"}

PartnersNext ==
  \/ part = "permissions" /\ PermNext /\ UNCHANGED <<onlineVars, part>>
  \/ part = "online" /\ OnlineNext /\ UNCHANGED <<vars, permVars, part>>

PartnersSpec == PartnersInit /\ [][PartnersNext]_partnerVars
=============================================================================
