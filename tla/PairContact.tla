---------------------------- MODULE PairContact ----------------------------
(***************************************************************************)
(* The partner_contacts relation of one pair of users, and the updates     *)
(* that the partners module (modules/partners/db.go) and the message       *)
(* gateway (modules/message/partner_pending.go) make to it.                *)
(*                                                                         *)
(* The code keeps two mirrored rows, (uid, to_uid) and (to_uid, uid).      *)
(* Every statement that writes one writes the other in the same            *)
(* transaction, so the pair is one record here.  The statuses "ignored"    *)
(* and "blocked" are read by the code and never written by it.             *)
(***************************************************************************)
EXTENDS Integers

CONSTANTS
  Users,        \* the two uids of the pair
  NoUser,       \* requester_uid of a relation that does not exist
  MaxPending    \* partnerPendingMaxMessages = MaxPendingGreetingMessages = 3

ASSUME UsersAssumption ==
  /\ NoUser \notin Users
  /\ \A u \in Users : \E v \in Users : Users = {u, v} /\ u # v

ASSUME MaxPendingAssumption == MaxPending \in Nat \ {0}

Other(u) == CHOOSE v \in Users : v # u

ContactStatus == {"none", "pending", "active"}

Contact ==
  [status : ContactStatus, requester : Users \cup {NoUser}, count : Nat]

NoContact == [status |-> "none", requester |-> NoUser, count |-> 0]

Larger(i, j) == IF i >= j THEN i ELSE j

IsPendingOf(c, u) == c.status = "pending" /\ c.requester = u

\* The message of u answers the greeting of the other side.
IsReplyOf(c, u) == c.status = "pending" /\ c.requester # u

(***************************************************************************)
(* db.ensurePendingContact: insert the relation with one message counted,  *)
(* or, ON DUPLICATE KEY, keep the status, take over requester_uid and keep *)
(* the larger count.                                                       *)
(***************************************************************************)
EnsurePending(c, u) ==
  IF c.status = "none"
  THEN [status |-> "pending", requester |-> u, count |-> 1]
  ELSE [c EXCEPT !.requester = u, !.count = Larger(@, 1)]

(***************************************************************************)
(* The contact part of db.rollbackPendingGreetingSend: give one message    *)
(* back, and delete the relation when none is left.                        *)
(***************************************************************************)
DropGreeting(c, u) ==
  IF ~IsPendingOf(c, u) THEN c
  ELSE IF c.count <= 1 THEN NoContact
  ELSE [c EXCEPT !.count = @ - 1]

(***************************************************************************)
(* db.incrementPendingRequesterMsgCount: a message of the requester that   *)
(* did not pass the gateway is counted afterwards, up to the limit.        *)
(***************************************************************************)
CountDirect(c, u) ==
  IF IsPendingOf(c, u) /\ c.count < MaxPending
  THEN [c EXCEPT !.count = @ + 1]
  ELSE c

\* The compare-and-set of preparePartnerTemporaryMessage on both rows.
ReserveOne(c) == [c EXCEPT !.count = @ + 1]

\* The refund of rollbackPartnerPendingMessage; the greeting itself is kept.
ReleaseOne(c, u) ==
  IF IsPendingOf(c, u) THEN [c EXCEPT !.count = Larger(@ - 1, 1)] ELSE c

\* activatePartnerContactAfterReply, and db.activateContactOnReply.
Activate(c, u) ==
  IF IsReplyOf(c, u) THEN [c EXCEPT !.status = "active"] ELSE c
=============================================================================
