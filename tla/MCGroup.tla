------------------------------- MODULE MCGroup -------------------------------
(***************************************************************************)
(* Group and ChatRooms for TLC: two users and the administrator in a       *)
(* group, one request at a time; two topic rooms with two requests side by *)
(* side.  A topic room has a row in the table group too, but the handlers  *)
(* of the one never touch the rows of the other: TLC follows one of them   *)
(* at a time, and part says which.                                         *)
(***************************************************************************)
EXTENDS Group, ChatRooms, TLC

CONSTANTS a, b

VARIABLE part

MCSymmetry == Permutations(Members) \cup Permutations(Topics)
                \cup Permutations(Visits)

placesVars == <<groupVars, roomVars, part>>

PlacesInit == GroupInit /\ RoomsInit /\ part \in {"group", "rooms"}

PlacesNext ==
  \/ part = "group" /\ GroupNext /\ UNCHANGED <<roomVars, part>>
  \/ part = "rooms" /\ RoomsNext /\ UNCHANGED <<groupVars, part>>

PlacesSpec == PlacesInit /\ [][PlacesNext]_placesVars
=============================================================================
