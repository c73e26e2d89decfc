----------------------------- MODULE PartnerPair -----------------------------
(***************************************************************************)
(* The greeting and the message gateway of one pair, which share the       *)
(* partner_contacts relation: Greeting without its abstract gateway, and   *)
(* PendingGateway started before the greeting.                             *)
(***************************************************************************)
EXTENDS PairContact, FiniteSets

CONSTANTS
  Msgs, NoMsg, Sender, Attempts, Overrun, LateAccept,  \* PendingGateway
  Workers, NoWorker, MaxGreets, Overlap                \* Greeting

VARIABLES
  contact,
  rows, im, flight, attempt,                    \* PendingGateway
  greeting, target, stored, worker, clock       \* Greeting

G == INSTANCE Greeting
P == INSTANCE PendingGateway

gatewayVars == <<rows, im, flight, attempt>>
greetingVars == <<greeting, target, stored, worker, clock>>

Init ==
  /\ G!Init
  /\ rows = [m \in Msgs |-> P!NoRow]
  /\ im = [m \in Msgs |-> "no"]
  /\ flight = {}
  /\ attempt = [a \in Attempts |-> P!Idle]

Next ==
  \/ G!GreetNext /\ UNCHANGED gatewayVars
  \/ P!Next /\ UNCHANGED greetingVars

Spec == Init /\ [][Next]_<<contact, gatewayVars, greetingVars>>

-----------------------------------------------------------------------------
\* All that the receiver sees of u: its greetings and its further messages.
Seen(u) ==
  Cardinality({s \in stored : s[1] = u})
    + Cardinality({m \in Msgs : Sender[m] = u /\ im[m] # "no"})

\* Before the receiver has replied the requester has shown at most MaxPending
\* messages (service.go:1191, "at most 3 messages before the other side
\* replies").
SeenWithinLimit ==
  contact.status = "pending" => Seen(contact.requester) <= MaxPending
=============================================================================
