------------------------------ MODULE Greeting ------------------------------
(***************************************************************************)
(* The first message between strangers: RecordGreeting, the delivery of a  *)
(* greeting row, its roll-back and the job that repeats both               *)
(* (modules/partners/service.go, modules/partners/db.go), for one pair of  *)
(* users and one recommendation day.                                       *)
(*                                                                         *)
(* A worker is a run of RecordGreeting or of the job on one row.  Every    *)
(* statement or transaction of MySQL and every call of the IM server is    *)
(* one step; it may fail, and a worker may die between two steps.  Two IM  *)
(* requests with the same client_msg_no store one message.  What the calls *)
(* do to the whitelists of the IM server is in PartnerPermissions.         *)
(***************************************************************************)
EXTENDS PairContact, FiniteSets

CONSTANTS
  Workers,      \* runs of RecordGreeting and of the delivery job
  NoWorker,     \* the sender of a worker that is not running
  MaxGreets,    \* bound on the greetings recorded
  Overlap       \* may two runs deliver the greeting of one sender at a time?

ASSUME MaxGreetsAssumption == MaxGreets \in Nat
ASSUME NoWorkerAssumption == NoWorker \notin Users
ASSUME OverlapAssumption == Overlap \in BOOLEAN

VARIABLES
  contact,      \* partner_contacts of the pair
  greeting,     \* partner_greetings, by sender
  target,       \* target[u]: partner_greeting_daily_target holds the pair
  stored,       \* the greetings that the IM server stored
  worker,       \* what each worker does next
  clock         \* the last last_greet_at that was used

vars == <<contact, greeting, target, stored, worker, clock>>

GreetStatus == {"none", "unsure", "sent", "failed"}

\* at is last_greet_at, done the roll-back marker in failed_reason, and due
\* says that last_send_at is 30 s old.
Greeting ==
  [at : 0..MaxGreets, status : GreetStatus, done : BOOLEAN, due : BOOLEAN]

NoGreeting == [at |-> 0, status |-> "none", done |-> FALSE, due |-> FALSE]

Idle == [pc |-> "idle", from |-> NoWorker, at |-> 0, run |-> "request"]

Pc == {"look", "recover", "stats", "reserve", "record", "ensure", "abandon",
       "release", "search", "check", "remove", "add", "settle", "send",
       "sent", "unsure", "failed", "rollback"}

\* A retry is a request that finds its last greeting unsure.
Run == {"request", "retry", "job"}

TypeOK ==
  /\ contact \in Contact
  /\ greeting \in [Users -> Greeting]
  /\ target \in [Users -> BOOLEAN]
  /\ stored \subseteq Users \X (1..MaxGreets)
  /\ worker \in [Workers ->
       {Idle} \cup [pc : Pc, from : Users, at : 0..MaxGreets, run : Run]]
  /\ clock \in 0..MaxGreets

Init ==
  /\ contact = NoContact
  /\ greeting = [u \in Users |-> NoGreeting]
  /\ target = [u \in Users |-> FALSE]
  /\ stored = {}
  /\ worker = [w \in Workers |-> Idle]
  /\ clock = 0

Goto(w, pc) == worker' = [worker EXCEPT ![w].pc = pc]
Finish(w) == worker' = [worker EXCEPT ![w] = Idle]

\* Nobody but a roll-back of the job works on the greeting of u.
Alone(u) ==
  \A v \in Workers :
    worker[v].from = u => worker[v].run = "job" /\ worker[v].pc = "rollback"

-----------------------------------------------------------------------------
\* RecordGreeting up to the delivery.

\* getPartnerContact.  An active relation, the other side's greeting and a
\* relation with further messages are answered without a change.
Greet(w, u) ==
  /\ worker[w].pc = "idle"
  /\ Overlap \/ Alone(u)
  /\ \/ contact.status = "none"
     \/ IsPendingOf(contact, u) /\ contact.count <= 1
  /\ worker' = [worker EXCEPT ![w] =
       [pc |-> IF contact.status = "none" THEN "stats" ELSE "look",
        from |-> u, at |-> 0, run |-> "request"]]
  /\ UNCHANGED <<contact, greeting, target, stored, clock>>

\* Fault: a failed greeting is delivered again like an unsure one.
LookRedelivers(w) ==
  LET g == greeting[worker[w].from] IN
  /\ worker[w].pc = "look"
  /\ \/ /\ g.status \in {"failed", "unsure"}
        /\ worker' = [worker EXCEPT ![w].pc = "search", ![w].at = g.at,
                                    ![w].run = "retry"]
     \/ Finish(w)
  /\ UNCHANGED <<contact, greeting, target, stored, clock>>

\* db.greetingDelivery: a failed greeting is rolled back and sent afresh, an
\* unsure one is delivered again.
Look(w) ==
  LET g == greeting[worker[w].from] IN
  /\ worker[w].pc = "look"
  /\ \/ /\ g.status = "failed"
        /\ worker' = [worker EXCEPT ![w].pc = "recover", ![w].at = g.at]
     \/ /\ g.status = "unsure"
        /\ worker' = [worker EXCEPT ![w].pc = "search", ![w].at = g.at,
                                    ![w].run = "retry"]
     \/ Finish(w)
  /\ UNCHANGED <<contact, greeting, target, stored, clock>>

\* db.greetingStats and allowNewGreetingRate: the same target only after the
\* cool-down of a week, unless its greeting failed; the rate may refuse.
Stats(w) ==
  /\ worker[w].pc = "stats"
  /\ \/ /\ greeting[worker[w].from].status \in {"none", "failed"}
        /\ Goto(w, "reserve")
     \/ Finish(w)
  /\ UNCHANGED <<contact, greeting, target, stored, clock>>

\* db.reserveGreetingDailyTarget.  used_count moves with the target rows in
\* every transaction that writes either.
Reserve(w) ==
  LET u == worker[w].from IN
  /\ worker[w].pc = "reserve"
  /\ \/ ~target[u] /\ target' = [target EXCEPT ![u] = TRUE] /\ Goto(w, "record")
     \/ UNCHANGED target /\ Finish(w)
  /\ UNCHANGED <<contact, greeting, stored, clock>>

\* Fault: the message is numbered by a time of its own, not by that of the row.
RecordOtherTime(w) ==
  LET u == worker[w].from IN
  /\ worker[w].pc = "record"
  /\ \/ /\ clock < MaxGreets
        /\ clock' = clock + 1
        /\ greeting' = [greeting EXCEPT ![u] =
             [NoGreeting EXCEPT !.at = clock', !.status = "unsure"]]
        /\ \/ worker' = [worker EXCEPT ![w].pc = "ensure", ![w].at = clock' + 1]
           \/ Goto(w, "release")
     \/ UNCHANGED <<greeting, clock>> /\ Goto(w, "release")
  /\ UNCHANGED <<contact, target, stored>>

\* db.recordGreeting overwrites the row of the pair.  Its answer may be lost.
Record(w) ==
  LET u == worker[w].from IN
  /\ worker[w].pc = "record"
  /\ \/ /\ clock < MaxGreets
        /\ clock' = clock + 1
        /\ greeting' = [greeting EXCEPT ![u] =
             [NoGreeting EXCEPT !.at = clock', !.status = "unsure"]]
        /\ \/ worker' = [worker EXCEPT ![w].pc = "ensure", ![w].at = clock']
           \/ Goto(w, "release")
     \/ UNCHANGED <<greeting, clock>> /\ Goto(w, "release")
  /\ UNCHANGED <<contact, target, stored>>

\* db.ensurePendingContact
Ensure(w) ==
  /\ worker[w].pc = "ensure"
  /\ \/ contact' = EnsurePending(contact, worker[w].from) /\ Goto(w, "search")
     \/ contact' \in {contact, EnsurePending(contact, worker[w].from)}
        /\ Goto(w, "abandon")
  /\ UNCHANGED <<greeting, target, stored, clock>>

\* db.markGreetingSendStatus: it overwrites failed_reason and last_send_at of
\* the row if that still has the last_greet_at of this run.
Mark(w, status) ==
  LET u == worker[w].from IN
  greeting' = IF greeting[u].at = worker[w].at
              THEN [greeting EXCEPT ![u].status = status,
                                    ![u].done = FALSE, ![u].due = FALSE]
              ELSE greeting

Abandon(w) ==
  /\ worker[w].pc = "abandon"
  /\ Mark(w, "failed") \/ UNCHANGED greeting
  /\ Goto(w, "release")
  /\ UNCHANGED <<contact, target, stored, clock>>

\* db.releaseGreetingDailyTarget
Release(w) ==
  /\ worker[w].pc = "release"
  /\ target' = [target EXCEPT ![worker[w].from] = FALSE] \/ UNCHANGED target
  /\ Finish(w)
  /\ UNCHANGED <<contact, greeting, stored, clock>>

-----------------------------------------------------------------------------
\* deliverGreetingRow

Sent(w) == <<worker[w].from, worker[w].at>>

\* Fault: a greeting that is delivered again is not searched for.
SearchSkipped(w) ==
  /\ worker[w].pc = "search"
  /\ Goto(w, "check")
  /\ UNCHANGED <<contact, greeting, target, stored, clock>>

\* greetingAlreadyDelivered
Search(w) ==
  /\ worker[w].pc = "search"
  /\ Goto(w, IF Sent(w) \in stored THEN "sent" ELSE "check") \/ Goto(w, "unsure")
  /\ UNCHANGED <<contact, greeting, target, stored, clock>>

\* db.hasPendingGreetingContact
Check(w) ==
  /\ worker[w].pc = "check"
  /\ \/ Goto(w, IF IsPendingOf(contact, worker[w].from) THEN "remove" ELSE "failed")
     \/ Goto(w, "unsure")
  /\ UNCHANGED <<contact, greeting, target, stored, clock>>

\* ensurePendingPermissionsNow: first take the sender off the whitelist of the
\* receiver, then put the receiver on that of the sender.
RemoveSender(w) ==
  /\ worker[w].pc = "remove"
  /\ Goto(w, "add") \/ Goto(w, "unsure")
  /\ UNCHANGED <<contact, greeting, target, stored, clock>>

AddReceiver(w) ==
  /\ worker[w].pc = "add"
  /\ Goto(w, "settle") \/ Goto(w, "unsure")
  /\ UNCHANGED <<contact, greeting, target, stored, clock>>

\* db.markIMPermissionDoneByKeys, whose error is ignored.
Settle(w) ==
  /\ worker[w].pc = "settle"
  /\ Goto(w, "send")
  /\ UNCHANGED <<contact, greeting, target, stored, clock>>

\* sendGreetingMessage: accepted; unknown, so that the message may be stored
\* or not; or a definite 4xx, which the server does not give for a number it
\* has stored.
Send(w) ==
  /\ worker[w].pc = "send"
  /\ \/ stored' = stored \cup {Sent(w)} /\ Goto(w, "sent")
     \/ stored' \in {stored, stored \cup {Sent(w)}} /\ Goto(w, "unsure")
     \/ Sent(w) \notin stored /\ UNCHANGED stored /\ Goto(w, "failed")
  /\ UNCHANGED <<contact, greeting, target, clock>>

MarkSent(w) ==
  /\ worker[w].pc = "sent"
  /\ Mark(w, "sent") \/ UNCHANGED greeting
  /\ Finish(w)
  /\ UNCHANGED <<contact, target, stored, clock>>

MarkUnsure(w) ==
  /\ worker[w].pc = "unsure"
  /\ Mark(w, "unsure") \/ UNCHANGED greeting
  /\ Finish(w)
  /\ UNCHANGED <<contact, target, stored, clock>>

\* A failure that is recorded is rolled back, by a retry later by the job.
MarkFailed(w) ==
  /\ worker[w].pc = "failed"
  /\ \/ Mark(w, "failed") /\ worker[w].run # "retry" /\ Goto(w, "rollback")
     \/ Mark(w, "failed") /\ worker[w].run = "retry" /\ Finish(w)
     \/ UNCHANGED greeting /\ Finish(w)
  /\ UNCHANGED <<contact, target, stored, clock>>

-----------------------------------------------------------------------------
\* db.rollbackPendingGreetingSend, one transaction.

Claimable(u, at) ==
  greeting[u].at = at /\ greeting[u].status = "failed" /\ ~greeting[u].done

RollbackTx(u, at) ==
  IF Claimable(u, at)
  THEN /\ greeting' = [greeting EXCEPT ![u].done = TRUE]
       /\ contact' = DropGreeting(contact, u)
       /\ target' = [target EXCEPT ![u] = FALSE]
  ELSE UNCHANGED <<greeting, contact, target>>

NoTx == UNCHANGED <<greeting, contact, target>>

Rollback(w) ==
  /\ worker[w].pc = "rollback"
  /\ RollbackTx(worker[w].from, worker[w].at) \/ NoTx
  /\ Finish(w)
  /\ UNCHANGED <<stored, clock>>

\* The roll-back of a request that finds its last greeting failed.
Recover(w) ==
  /\ worker[w].pc = "recover"
  /\ \/ RollbackTx(worker[w].from, worker[w].at) /\ Goto(w, "stats")
     \/ NoTx /\ Finish(w)
  /\ UNCHANGED <<stored, clock>>

-----------------------------------------------------------------------------
\* reconcileGreetingDeliveries: the exclusive job reads a row, perhaps long
\* before it comes to it.

JobTakes(w, u, pc) ==
  /\ \A v \in Workers : worker[v].run # "job"
  /\ worker[w].pc = "idle"
  /\ worker' = [worker EXCEPT ![w] =
       [pc |-> pc, from |-> u, at |-> greeting[u].at, run |-> "job"]]
  /\ UNCHANGED <<contact, greeting, target, stored, clock>>

\* db.failedGreetingRollbacks
JobRollback(w, u) == Claimable(u, greeting[u].at) /\ JobTakes(w, u, "rollback")

\* db.pendingGreetingDeliveries.  Without Overlap the 30 s outlast every run.
JobDeliver(w, u) ==
  /\ greeting[u].status = "unsure" /\ greeting[u].due
  /\ Overlap \/ Alone(u)
  /\ JobTakes(w, u, "search")

\* 30 s pass since last_send_at.
Elapse(u) ==
  /\ greeting[u].status = "unsure" /\ ~greeting[u].due
  /\ greeting' = [greeting EXCEPT ![u].due = TRUE]
  /\ UNCHANGED <<contact, target, stored, worker, clock>>

Crash(w) ==
  /\ worker[w].pc # "idle"
  /\ Finish(w)
  /\ UNCHANGED <<contact, greeting, target, stored, clock>>

WorkerStep(w) ==
  \/ Look(w) \/ Stats(w) \/ Reserve(w) \/ Record(w) \/ Ensure(w)
  \/ Abandon(w) \/ Release(w)
  \/ Search(w) \/ Check(w) \/ RemoveSender(w) \/ AddReceiver(w) \/ Settle(w)
  \/ Send(w) \/ MarkSent(w) \/ MarkUnsure(w) \/ MarkFailed(w)
  \/ Rollback(w) \/ Recover(w)

Begin(w, u) == Greet(w, u) \/ JobRollback(w, u) \/ JobDeliver(w, u)

GreetNext ==
  \/ \E w \in Workers : WorkerStep(w) \/ Crash(w) \/ \E u \in Users : Begin(w, u)
  \/ \E u \in Users : Elapse(u)

\* What the message gateway and the webhook may do to the relation meanwhile,
\* in any order.  PartnerPair puts the gateway itself in their place.
Elsewhere == UNCHANGED <<greeting, target, stored, worker, clock>>

Counting(u) ==
  /\ \/ /\ IsPendingOf(contact, u) /\ contact.count < MaxPending
        /\ contact' = ReserveOne(contact)
     \/ contact' = ReleaseOne(contact, u)
  /\ Elsewhere

DirectMessage(u) == contact' = CountDirect(contact, u) /\ Elsewhere

Reply(u) == contact' = Activate(contact, u) /\ Elsewhere

Next ==
  \/ GreetNext
  \/ \E u \in Users : Counting(u) \/ DirectMessage(u) \/ Reply(u)

Spec == Init /\ [][Next]_vars

-----------------------------------------------------------------------------
(***************************************************************************)
(* Safety                                                                  *)
(***************************************************************************)

\* The row names every greeting of its sender that the receiver can see: a
\* lost answer, a crash or a roll-back never lets a second greeting follow a
\* visible one (service.go:1253, "this cannot create a second visible
\* greeting").
VisibleIsCurrent == \A s \in stored : greeting[s[1]].at = s[2]

\* A greeting that is recorded as failed, and so will be rolled back and
\* refunded, was not stored by the IM server.
FailedNotVisible ==
  \A u \in Users :
    greeting[u].status = "failed" => <<u, greeting[u].at>> \notin stored

\* The marker of a roll-back stays until a new greeting is recorded, so no
\* later write of the same greeting lets it be refunded twice
\* (db.go:1034, "the marker makes retries idempotent").
RollbackIsFinal ==
  [][\A u \in Users :
       greeting[u].done /\ greeting'[u].at = greeting[u].at => greeting'[u].done]_vars
=============================================================================
