--------------------------- MODULE PendingGateway ---------------------------
(***************************************************************************)
(* The gateway of POST /v1/message/send for two users who are not friends  *)
(* yet (modules/message/api.go sendMsg, modules/message/partner_pending.go)*)
(* with the webhook that listens to delivered messages                     *)
(* (modules/partners/service.go listenerMessages).                         *)
(*                                                                         *)
(* Before a message goes to the WuKongIM server a row of                   *)
(* partner_pending_message is reserved for its client_msg_no and, when the *)
(* sender is the requester of the pending relation, one of the MaxPending  *)
(* messages is counted.  The server is then called, the row is settled     *)
(* (delivered, uncertain or failed with the count given back) and a reply  *)
(* of the receiver activates the relation.                                 *)
(*                                                                         *)
(* An attempt is one run of the handler.  Every database transaction is    *)
(* one step; between two steps any other attempt, webhook or crash may     *)
(* come.  Clocks are not modelled: Elapse lets the 30 s of a reservation   *)
(* or the 5 s of an uncertain row pass.                                    *)
(***************************************************************************)
EXTENDS PairContact, FiniteSets

CONSTANTS
  Msgs,         \* the client_msg_no values in use
  NoMsg,        \* the message of an attempt that is not running
  Sender,       \* Sender[m], the user who sends m
  Attempts,     \* runs of the handler
  Overrun,      \* may an attempt still run when its reservation is 30 s old?
  LateAccept    \* may the IM server accept a request after its time-out?

ASSUME MsgsAssumption == IsFiniteSet(Msgs) /\ NoMsg \notin Msgs
ASSUME SenderAssumption == Sender \in [Msgs -> Users]
ASSUME FlagAssumption == Overrun \in BOOLEAN /\ LateAccept \in BOOLEAN

VARIABLES
  contact,      \* partner_contacts of the pair
  rows,         \* partner_pending_message, by client_msg_no
  im,           \* what the IM server stored for the stable client number
  flight,       \* timed-out requests that the IM server may still accept
  attempt       \* what each run of the handler does next

vars == <<contact, rows, im, flight, attempt>>

RowStatus == {"none", "reserved", "delivered", "failed", "uncertain"}

\* due: reserved for 30 s, or next_check_at of an uncertain row has passed.
Row == [status : RowStatus, reserved : {0, 1}, due : BOOLEAN]

NoRow == [status |-> "none", reserved |-> 0, due |-> FALSE]

\* The payload carries partner_pending_gateway ("gateway") or not ("plain").
Kind == {"plain", "gateway"}

Busy == {"search", "send", "complete", "mark", "rollback", "activate"}

Idle == [pc |-> "idle", msg |-> NoMsg, gateway |-> FALSE, reply |-> FALSE]

(***************************************************************************)
(* The part of partnerPendingGuard that later steps read: gateway is       *)
(* guard.Requester, reply is guard.ReceiverReply.                          *)
(***************************************************************************)
Attempt ==
  {Idle} \cup [pc : Busy, msg : Msgs, gateway : BOOLEAN, reply : BOOLEAN]

TypeOK ==
  /\ contact \in Contact
  /\ rows \in [Msgs -> Row]
  /\ im \in [Msgs -> Kind \cup {"no"}]
  /\ flight \subseteq Msgs \X Kind
  /\ attempt \in [Attempts -> Attempt]

\* A pending relation whose greeting the IM server has accepted.
Greeted(u) == [status |-> "pending", requester |-> u, count |-> 1]

Init ==
  /\ \E u \in Users : contact = Greeted(u)
  /\ rows = [m \in Msgs |-> NoRow]
  /\ im = [m \in Msgs |-> "no"]
  /\ flight = {}
  /\ attempt = [a \in Attempts |-> Idle]

-----------------------------------------------------------------------------
\* The database transactions of partner_pending.go.

(***************************************************************************)
(* A definition that follows the comment "Fault:" is a plausible slip in   *)
(* the definition after it.  No specification uses it: it takes the place  *)
(* of that definition to confirm that a property notices.                  *)
(***************************************************************************)

\* Fault: a failed row is taken again without being counted again.
ReserveFailedFree(m) ==
  LET counted == IsPendingOf(contact, Sender[m]) IN
  /\ rows[m].status \in {"none", "failed"}
  /\ counted => contact.count < MaxPending
  /\ rows' = [rows EXCEPT ![m] = [status |-> "reserved",
                                  reserved |-> IF counted THEN 1 ELSE 0,
                                  due |-> FALSE]]
  /\ contact' = IF counted /\ rows[m].status = "none"
                THEN ReserveOne(contact) ELSE contact

\* preparePartnerTemporaryMessage: a new or failed row is reserved; the
\* requester also takes one message of the count.
ReserveTx(m) ==
  LET counted == IsPendingOf(contact, Sender[m]) IN
  /\ rows[m].status \in {"none", "failed"}
  /\ counted => contact.count < MaxPending
  /\ rows' = [rows EXCEPT ![m] = [status |-> "reserved",
                                  reserved |-> IF counted THEN 1 ELSE 0,
                                  due |-> FALSE]]
  /\ contact' = IF counted THEN ReserveOne(contact) ELSE contact

\* Fault: a fresh reservation is claimed too.
ClaimFresh(m) ==
  /\ rows[m].status \in {"reserved", "uncertain"}
  /\ rows' = [rows EXCEPT ![m].status = "reserved", ![m].due = FALSE]
  /\ UNCHANGED contact

\* Fault: a reservation left behind by a crash is never claimed.
ClaimUncertainOnly(m) ==
  /\ rows[m].status = "uncertain"
  /\ rows[m].due
  /\ rows' = [rows EXCEPT ![m].status = "reserved", ![m].due = FALSE]
  /\ UNCHANGED contact

\* preparePartnerTemporaryMessage: a stale reservation or a due uncertain
\* row is claimed for reconciliation.
ClaimTx(m) ==
  /\ rows[m].status \in {"reserved", "uncertain"}
  /\ rows[m].due
  /\ rows' = [rows EXCEPT ![m].status = "reserved", ![m].due = FALSE]
  /\ UNCHANGED contact

\* completePartnerPendingMessageForSender, db.markPendingMessageDelivered
SettleTx(m) ==
  /\ rows' = IF rows[m].status \in {"reserved", "uncertain"}
             THEN [rows EXCEPT ![m].status = "delivered", ![m].due = FALSE]
             ELSE rows
  /\ UNCHANGED contact

\* markPartnerPendingUncertain
DoubtTx(m) ==
  /\ rows' = IF rows[m].status \in {"reserved", "uncertain"}
             THEN [rows EXCEPT ![m].status = "uncertain", ![m].due = FALSE]
             ELSE rows
  /\ UNCHANGED contact

\* Fault: the mark of the reservation stays on the refunded row.
RefundKeepsMark(m) ==
  /\ rows[m].status \notin {"none", "delivered"}
  /\ contact' = IF rows[m].reserved > 0 THEN ReleaseOne(contact, Sender[m])
                                        ELSE contact
  /\ rows' = [rows EXCEPT ![m].status = "failed", ![m].due = FALSE]

\* rollbackPartnerPendingMessage
RefundTx(m) ==
  /\ rows[m].status \notin {"none", "delivered"}
  /\ contact' = IF rows[m].reserved > 0 THEN ReleaseOne(contact, Sender[m])
                                        ELSE contact
  /\ rows' = [rows EXCEPT ![m] = [status |-> "failed", reserved |-> 0,
                                  due |-> FALSE]]

\* A failed statement, a failed commit, or nothing to write.
NoTx == UNCHANGED <<contact, rows>>

-----------------------------------------------------------------------------
\* The control of one attempt.

Goto(a, pc) == attempt' = [attempt EXCEPT ![a].pc = pc]

Finish(a) == attempt' = [attempt EXCEPT ![a] = Idle]

\* activatePartnerReply of sendMsg runs only for a reply of the receiver.
AfterSend(a) == IF attempt[a].reply THEN Goto(a, "activate") ELSE Finish(a)

-----------------------------------------------------------------------------
\* preparePartnerTemporaryMessage, one transaction.  An attempt that it
\* refuses changes nothing and is not a step.

Start(a, m, pc) ==
  attempt' = [attempt EXCEPT ![a] =
    [pc |-> pc, msg |-> m,
     gateway |-> IsPendingOf(contact, Sender[m]),
     reply |-> IsReplyOf(contact, Sender[m])]]

\* A row that is already delivered: only the activation of a reply is
\* repeated.
Prepare(a, m) ==
  /\ attempt[a].pc = "idle"
  /\ contact.status \in {"pending", "active"}
  /\ \/ /\ rows[m].status = "delivered" /\ IsReplyOf(contact, Sender[m])
        /\ NoTx
        /\ Start(a, m, "activate")
     \/ ClaimTx(m) /\ Start(a, m, "search")
     \/ ReserveTx(m) /\ Start(a, m, "send")
  /\ UNCHANGED <<im, flight>>

-----------------------------------------------------------------------------
\* reconcilePartnerPendingMessage: ask the IM server for the stable number.

\* Fault: any answer of the search counts as found.
SearchAssumesFound(a) ==
  LET m == attempt[a].msg IN
  /\ attempt[a].pc = "search"
  /\ \/ SettleTx(m) /\ AfterSend(a)
     \/ NoTx /\ Goto(a, "mark")
  /\ UNCHANGED <<im, flight>>

\* Found: the row is settled; when that write fails it is marked uncertain.
SearchFound(a) ==
  LET m == attempt[a].msg IN
  /\ attempt[a].pc = "search"
  /\ im[m] # "no"
  /\ \/ SettleTx(m) /\ AfterSend(a)
     \/ NoTx /\ Goto(a, "mark")
  /\ UNCHANGED <<im, flight>>

SearchMissing(a) ==
  /\ attempt[a].pc = "search"
  /\ im[attempt[a].msg] = "no"
  /\ Goto(a, "send")
  /\ UNCHANGED <<contact, rows, im, flight>>

SearchError(a) ==
  /\ attempt[a].pc = "search"
  /\ Goto(a, "mark")
  /\ UNCHANGED <<contact, rows, im, flight>>

-----------------------------------------------------------------------------
\* sendPartnerMessageStable: the server stores one message per client number.

KindOf(a) == IF attempt[a].gateway THEN "gateway" ELSE "plain"

Store(m, k) == [im EXCEPT ![m] = IF @ = "no" THEN k ELSE @]

SendAccepted(a) ==
  /\ attempt[a].pc = "send"
  /\ im' = Store(attempt[a].msg, KindOf(a))
  /\ Goto(a, "complete")
  /\ UNCHANGED <<contact, rows, flight>>

\* Fault: an unknown result is treated as a failure.
SendUnknownRefunds(a) ==
  /\ attempt[a].pc = "send"
  /\ im' = Store(attempt[a].msg, KindOf(a)) \/ UNCHANGED im
  /\ Goto(a, "rollback")
  /\ UNCHANGED <<contact, rows, flight>>

\* Time-out, broken answer, 5xx, 408, 409, 429 or "duplicate": the message
\* may be stored, or not, or (LateAccept) be stored some time later.
SendUnknown(a) ==
  /\ attempt[a].pc = "send"
  /\ \/ im' = Store(attempt[a].msg, KindOf(a)) /\ UNCHANGED flight
     \/ UNCHANGED <<im, flight>>
     \/ /\ LateAccept
        /\ flight' = flight \cup {<<attempt[a].msg, KindOf(a)>>}
        /\ UNCHANGED im
  /\ Goto(a, "mark")
  /\ UNCHANGED <<contact, rows>>

\* Any other 4xx.  A number the server has stored is answered as a
\* duplicate, which the code classes as unknown.
SendRejected(a) ==
  /\ attempt[a].pc = "send"
  /\ im[attempt[a].msg] = "no"
  /\ Goto(a, "rollback")
  /\ UNCHANGED <<contact, rows, im, flight>>

\* A request that timed out at the gateway reaches the server after all.
LateArrival(m, k) ==
  /\ <<m, k>> \in flight
  /\ flight' = flight \ {<<m, k>>}
  /\ im' = Store(m, k)
  /\ UNCHANGED <<contact, rows, attempt>>

-----------------------------------------------------------------------------
\* Settling the row.  Each write may fail; the handler ignores the error.

Complete(a) ==
  /\ attempt[a].pc = "complete"
  /\ SettleTx(attempt[a].msg) \/ NoTx
  /\ AfterSend(a)
  /\ UNCHANGED <<im, flight>>

MarkUncertain(a) ==
  /\ attempt[a].pc = "mark"
  /\ DoubtTx(attempt[a].msg) \/ NoTx
  /\ Finish(a)
  /\ UNCHANGED <<im, flight>>

Rollback(a) ==
  /\ attempt[a].pc = "rollback"
  /\ RefundTx(attempt[a].msg) \/ NoTx
  /\ Finish(a)
  /\ UNCHANGED <<im, flight>>

ActivateReply(a) ==
  /\ attempt[a].pc = "activate"
  /\ \/ contact' = Activate(contact, Sender[attempt[a].msg])
     \/ UNCHANGED contact
  /\ Finish(a)
  /\ UNCHANGED <<rows, im, flight>>

\* The process dies, or the request is dropped, between two steps.
Crash(a) ==
  /\ attempt[a].pc # "idle"
  /\ Finish(a)
  /\ UNCHANGED <<contact, rows, im, flight>>

-----------------------------------------------------------------------------
\* Fault: the webhook leaves the activation to the handler.
WebhookNeverActivates(m) ==
  /\ im[m] # "no"
  /\ IF IsPendingOf(contact, Sender[m]) /\ im[m] = "plain"
     THEN contact' = CountDirect(contact, Sender[m]) /\ UNCHANGED rows
     ELSE SettleTx(m)
  /\ UNCHANGED <<im, flight, attempt>>

\* listenerMessages for a message that passed the gateway; it may be repeated.
Webhook(m) ==
  /\ im[m] # "no"
  /\ IF IsPendingOf(contact, Sender[m])
     THEN IF im[m] = "gateway"
          THEN SettleTx(m)
          ELSE contact' = CountDirect(contact, Sender[m]) /\ UNCHANGED rows
     ELSE contact' = Activate(contact, Sender[m]) /\ UNCHANGED rows
  /\ UNCHANGED <<im, flight, attempt>>

\* listenerMessages for a message sent straight to the IM server.
DirectWebhook(u) ==
  /\ contact' = IF IsPendingOf(contact, u) THEN CountDirect(contact, u)
                                           ELSE Activate(contact, u)
  /\ UNCHANGED <<rows, im, flight, attempt>>

WorksOn(a, m) == attempt[a].pc # "idle" /\ attempt[a].msg = m

\* 30 s (or 5 s) pass.  Without Overrun they outlast the attempts on m.
Elapse(m) ==
  /\ rows[m].status \in {"reserved", "uncertain"}
  /\ ~rows[m].due
  /\ Overrun \/ \A a \in Attempts : ~WorksOn(a, m)
  /\ rows' = [rows EXCEPT ![m].due = TRUE]
  /\ UNCHANGED <<contact, im, flight, attempt>>

\* db.cleanupPartnerOperationalRows deletes settled rows after 30 days.
Cleanup(m) ==
  /\ rows[m].status \in {"delivered", "failed"}
  /\ \A k \in Kind : <<m, k>> \notin flight
  /\ \A a \in Attempts : ~WorksOn(a, m)
  /\ rows' = [rows EXCEPT ![m] = NoRow]
  /\ UNCHANGED <<contact, im, flight, attempt>>

-----------------------------------------------------------------------------
Step(a) ==
  \/ SearchFound(a) \/ SearchMissing(a) \/ SearchError(a)
  \/ SendAccepted(a) \/ SendUnknown(a) \/ SendRejected(a)
  \/ Complete(a) \/ MarkUncertain(a) \/ Rollback(a) \/ ActivateReply(a)

Next ==
  \/ \E a \in Attempts : (\E m \in Msgs : Prepare(a, m)) \/ Step(a) \/ Crash(a)
  \/ \E m \in Msgs : Webhook(m) \/ Elapse(m) \/ Cleanup(m)
  \/ \E m \in Msgs, k \in Kind : LateArrival(m, k)
  \/ \E u \in Users : DirectWebhook(u)

Spec == Init /\ [][Next]_vars

-----------------------------------------------------------------------------
(***************************************************************************)
(* Safety                                                                  *)
(***************************************************************************)

\* While no reply has come the count stays between the greeting and the
\* limit of three messages (errPartnerPendingLimit), whatever order the
\* attempts, their retries, refunds and the webhook come in.
CountWithinLimit ==
  contact.status = "pending" => contact.count \in 1..MaxPending

Reserved(u) == {m \in Msgs : Sender[m] = u /\ rows[m].reserved = 1}

\* Every reservation the requester holds is paid for in the count, next to
\* the greeting: no refund gives back a message twice, although a refund
\* carries no token of the attempt that reserved the row.
ReservationsCounted ==
  contact.status = "pending" =>
    Cardinality(Reserved(contact.requester)) < contact.count

Visible(u) == {m \in Msgs : Sender[m] = u /\ im[m] # "no"}

\* What the limit is for: before the receiver has replied the requester has
\* at most MaxPending messages, the greeting included, on the IM server.
VisibleWithinLimit ==
  contact.status = "pending" =>
    Cardinality(Visible(contact.requester)) < MaxPending

\* A message reported as failed, whose count was given back, was not
\* stored by the IM server.
FailedNotStored == \A m \in Msgs : rows[m].status = "failed" => im[m] = "no"

\* A message reported as delivered was stored, also when the answer to the
\* attempt that stored it was lost.
DeliveredIsStored ==
  \A m \in Msgs : rows[m].status = "delivered" => im[m] # "no"

AtOnce(pcs) ==
  \E a, b \in Attempts : /\ a # b /\ {attempt[a].pc, attempt[b].pc} \subseteq pcs
                         /\ attempt[a].msg = attempt[b].msg

\* One message is not sent by two attempts at a time: a reservation that is
\* in the hands of a running attempt is refused to every other one.
OneSender == ~AtOnce({"search", "send", "rollback"})

\* A delivered row is never claimed, doubted, refunded or reserved again by
\* a slower attempt on the same message; only the cleanup removes it.
DeliveredIsFinal ==
  [][\A m \in Msgs : rows[m].status = "delivered" =>
       rows'[m].status \in {"delivered", "none"}]_vars

-----------------------------------------------------------------------------
(***************************************************************************)
(* The gateway implements the ledger of MessageLedger: a row with          *)
(* reserved_count = 1 is a message taken from the quota.                   *)
(***************************************************************************)
LedgerOf(r) ==
  IF r.reserved = 0 THEN "free"
  ELSE IF r.status = "delivered" THEN "spent" ELSE "held"

Ledger == INSTANCE MessageLedger WITH
  Quota <- MaxPending - 1,
  ledger <- [m \in Msgs |-> LedgerOf(rows[m])],
  left <- MaxPending - contact.count,
  open <- contact.status = "active"

\* Every step of the handler, the webhook and the cleanup takes, gives back
\* or settles at most one message of the quota, as the ledger allows.
ImplementsLedger == Ledger!LedgerSpec

-----------------------------------------------------------------------------
(***************************************************************************)
(* Liveness                                                                *)
(*                                                                         *)
(* The IM server repeats its webhook until it is handled, a running        *)
(* handler goes on, time passes.  Nothing in the server retries a reserved *)
(* row: that the sender's client repeats the request with the same         *)
(* client_msg_no, as errPartnerMessageUncertain asks it to, and that the   *)
(* database and the IM server answer again and again, is assumed.          *)
(***************************************************************************)
RetryClaim(m) ==
  \E a \in Attempts : /\ Prepare(a, m)
                      /\ rows[m].status \in {"reserved", "uncertain"}

SearchAnswers(m) ==
  \E a \in Attempts : WorksOn(a, m) /\ SearchMissing(a)

SendSucceeds(m) ==
  \E a \in Attempts : WorksOn(a, m) /\ SendAccepted(a)

SettleSucceeds(m) ==
  \E a \in Attempts : /\ WorksOn(a, m)
                      /\ Complete(a) \/ SearchFound(a)
                      /\ rows'[m].status = "delivered"

Fairness ==
  /\ \A a \in Attempts : WF_vars(Step(a))
  /\ \A m \in Msgs : /\ WF_vars(Webhook(m))
                     /\ WF_vars(Elapse(m))
                     /\ SF_vars(RetryClaim(m))
                     /\ SF_vars(SearchAnswers(m))
                     /\ SF_vars(SendSucceeds(m))
                     /\ SF_vars(SettleSucceeds(m))

FairSpec == Spec /\ Fairness

\* A stored reply of the receiver ends the pending phase, even when the
\* handler dies before it reaches its own activation.
ReplyActivates ==
  \A m \in Msgs :
    (im[m] # "no" /\ IsReplyOf(contact, Sender[m])) ~> contact.status = "active"

\* No reservation stays open for ever: neither a lost answer nor a crash
\* between reserving and settling keeps a message of the quota taken without
\* a final result.
ReservationSettles ==
  \A m \in Msgs :
    rows[m].status \in {"reserved", "uncertain"} ~>
      rows[m].status \notin {"reserved", "uncertain"}
=============================================================================
