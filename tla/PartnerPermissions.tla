------------------------- MODULE PartnerPermissions -------------------------
(***************************************************************************)
(* Greeting with the whitelists that the IM server keeps for the personal  *)
(* channels of the pair, and the outbox that keeps them in step with       *)
(* partner_contacts (partner_im_permission_outbox in modules/partners/db.go*)
(* with the flush job and the daily repair of modules/partners/service.go).*)
(*                                                                         *)
(* A change of the relation enqueues a task for each channel in its own    *)
(* transaction.  The exclusive flush job reads what the relation asks for  *)
(* now, calls the IM server and marks the task done: three steps between   *)
(* which the relation may change.  The deliverer of a greeting calls the   *)
(* IM server itself.  Every call may fail, with or without its effect.     *)
(***************************************************************************)
EXTENDS Greeting

\* The channels whose permission is followed.  No task of one channel reads
\* or writes another, so one of the two is enough to check.
CONSTANT Channels

ASSUME ChannelsAssumption == Channels \subseteq Users

VARIABLES
  whitelist,    \* whitelist[c]: may the other user send into the channel of c?
  tasks,        \* idempotency keys of the rows with status 0 or 2
  queued,       \* those of all rows that a greeting has left
  flush         \* the run of flushPartnerIMPermissionOutbox

permVars == <<whitelist, tasks, queued, flush>>

TaskKind == {"pending", "active", "rollback", "repair"}

\* permissionTransitionKey: what happened, to which channel, by which greeting.
Task == [kind : TaskKind, channel : Channels, at : 0..MaxGreets]

Keys(kind, at) == {[kind |-> kind, channel |-> u, at |-> at] : u \in Channels}

FlushIdle == [pc |-> "idle", key |-> {}, want |-> FALSE]

PermTypeOK ==
  /\ whitelist \in [Channels -> BOOLEAN]
  /\ queued \subseteq Task /\ tasks \subseteq Task
  /\ flush.pc \in {"idle", "apply", "done"}
  /\ flush.key \subseteq Task
  /\ flush.want \in BOOLEAN

PermInit ==
  /\ Init
  /\ whitelist = [c \in Channels |-> FALSE]
  /\ tasks = {} /\ queued = {}
  /\ flush = FlushIdle

Set(channel, allowed) ==
  [c \in Channels |-> IF c = channel THEN allowed ELSE whitelist[c]]

-----------------------------------------------------------------------------
\* What the steps of a worker and of the gateway do to the permissions.

\* ensurePendingContact enqueues in its transaction.
EnsureEnqueues(w) ==
  /\ Ensure(w)
  /\ \/ /\ contact' = EnsurePending(contact, worker[w].from)
        /\ tasks' = tasks \cup Keys("pending", worker[w].at)
        /\ queued' = queued \cup Keys("pending", worker[w].at)
     \/ contact' = contact /\ worker'[w].pc = "abandon" /\ UNCHANGED <<tasks, queued>>
  /\ UNCHANGED <<whitelist, flush>>

\* removePartnerSenderWhitelist
RemoveCalls(w) ==
  /\ RemoveSender(w)
  /\ \/ whitelist' = Set(Other(worker[w].from), FALSE)
     \/ worker'[w].pc = "unsure" /\ UNCHANGED whitelist
  /\ UNCHANGED <<tasks, queued, flush>>

\* addPartnerWhitelist
AddCalls(w) ==
  /\ AddReceiver(w)
  /\ \/ whitelist' = Set(worker[w].from, TRUE)
     \/ worker'[w].pc = "unsure" /\ UNCHANGED whitelist
  /\ UNCHANGED <<tasks, queued, flush>>

\* markIMPermissionDoneByKeys
SettleCloses(w) ==
  /\ Settle(w)
  /\ tasks' \in {tasks \ Keys("pending", worker[w].at), tasks}
  /\ UNCHANGED <<whitelist, queued, flush>>

\* Fault: a roll-back leaves the permissions to the next transition.
RollbackForgets(w) ==
  /\ Rollback(w) \/ Recover(w)
  /\ UNCHANGED permVars

\* rollbackPendingGreetingSend enqueues when it deletes the relation.
RollbackEnqueues(w) ==
  /\ Rollback(w) \/ Recover(w)
  /\ tasks' = IF contact.status # "none" /\ contact'.status = "none"
              THEN tasks \cup Keys("rollback", worker[w].at) ELSE tasks
  /\ UNCHANGED <<whitelist, queued, flush>>

OtherStep(w) ==
  /\ \/ Look(w) \/ Stats(w) \/ Reserve(w) \/ Record(w) \/ Abandon(w) \/ Release(w)
     \/ Search(w) \/ Check(w) \/ Send(w)
     \/ MarkSent(w) \/ MarkUnsure(w) \/ MarkFailed(w)
     \/ Crash(w) \/ \E u \in Users : Begin(w, u)
  /\ UNCHANGED permVars

\* listenerMessages takes a sender who reached the limit off the whitelist.
DirectMessageCalls(u) ==
  /\ DirectMessage(u)
  /\ \/ UNCHANGED whitelist
     \/ /\ contact' # contact /\ contact'.count = MaxPending
        /\ whitelist' = Set(Other(u), FALSE)
  /\ UNCHANGED <<tasks, queued, flush>>

\* activatePartnerContactAfterReply and activateContactOnReply enqueue with
\* the change; no pair is activated twice.
ReplyEnqueues(u) ==
  /\ Reply(u)
  /\ tasks' = IF contact' = contact THEN tasks ELSE tasks \cup Keys("active", 0)
  /\ UNCHANGED <<whitelist, queued, flush>>

-----------------------------------------------------------------------------
\* flushPartnerIMPermissionOutbox

\* db.desiredPartnerIMPermission for a pair that is not befriended.
Desired(c) == contact.status = "active" \/ IsPendingOf(contact, c)

FlushUnchanged == UNCHANGED <<queued, contact, greeting, target, stored, worker, clock>>

\* pendingIMPermissionTasks and desiredPartnerIMPermission.  The runs of the
\* job follow one another, so a run is the sequence of its rows, whatever
\* their next_retry_at and wherever it breaks off.  A row that a deliverer has
\* closed since the run read it is applied all the same.
FlushRead ==
  /\ flush.pc = "idle"
  /\ \E k \in tasks \cup queued :
       flush' = [pc |-> "apply", key |-> {k}, want |-> Desired(k.channel)]
  /\ UNCHANGED <<whitelist, tasks>> /\ FlushUnchanged

\* IMWhitelistAdd or IMWhitelistRemove.  After an error the task stays open.
FlushApply ==
  /\ flush.pc = "apply"
  /\ \E k \in flush.key :
       LET applied == Set(k.channel, flush.want) IN
       \/ whitelist' = applied /\ flush' = [flush EXCEPT !.pc = "done"]
       \/ whitelist' \in {applied, whitelist} /\ flush' = FlushIdle
  /\ UNCHANGED tasks /\ FlushUnchanged

\* Fault: every task of the channel is closed, not only the one applied.
FlushDoneAll ==
  /\ flush.pc = "done"
  /\ tasks' = {t \in tasks : \A k \in flush.key : t.channel # k.channel}
  /\ flush' = FlushIdle
  /\ UNCHANGED whitelist /\ FlushUnchanged

\* markIMPermissionDone, whose error is ignored.
FlushDone ==
  /\ flush.pc = "done"
  /\ tasks' \in {tasks \ flush.key, tasks}
  /\ flush' = FlushIdle
  /\ UNCHANGED whitelist /\ FlushUnchanged

FlushCrash ==
  /\ flush.pc # "idle"
  /\ flush' = FlushIdle
  /\ UNCHANGED <<whitelist, tasks>> /\ FlushUnchanged

\* reconcilePendingWhitelists: the daily repair reopens its own two tasks of
\* every pending pair.
Repair ==
  /\ contact.status = "pending"
  /\ tasks' = tasks \cup Keys("repair", 0)
  /\ UNCHANGED <<whitelist, flush>> /\ FlushUnchanged

-----------------------------------------------------------------------------
PermNext ==
  \/ \E w \in Workers :
       \/ EnsureEnqueues(w) \/ RemoveCalls(w) \/ AddCalls(w) \/ SettleCloses(w)
       \/ RollbackEnqueues(w) \/ OtherStep(w)
  \/ \E u \in Users :
       \/ DirectMessageCalls(u) \/ ReplyEnqueues(u)
       \/ (Counting(u) \/ Elapse(u)) /\ UNCHANGED permVars
  \/ FlushRead \/ FlushApply \/ FlushDone \/ FlushCrash
  \/ Repair

PermSpec == PermInit /\ [][PermNext]_<<vars, permVars>>

-----------------------------------------------------------------------------
\* Nothing is open for the channel and nobody is about to write it.
Settled(c) ==
  /\ \A k \in tasks \cup flush.key : k.channel # c
  /\ \A w \in Workers : worker[w].pc = "idle"

\* Once the outbox has caught up the requester of a pending relation cannot
\* send past the gateway (service.go:1431, "the requester must never be able
\* to send directly into the receiver's personal channel").
RequesterKeptOut ==
  \A c \in Channels :
    Settled(c) /\ contact.status = "pending" /\ contact.requester # c
      => ~whitelist[c]

\* Once the outbox has caught up nothing is left of a relation that was
\* rolled back (db.go, "so no stale personal-channel whitelist remains").
NothingLeftBehind ==
  \A c \in Channels : Settled(c) /\ contact.status = "none" => ~whitelist[c]
=============================================================================
