----------------------------- MODULE Friendship -----------------------------
(***************************************************************************)
(* Two users who may be friends: their friend rows (modules/user), the     *)
(* events that are written with every change of them (modules/base/event)  *)
(* and the whitelists of their personal channels at the IM server, which   *)
(* the handlers of the events change (modules/user/event_friend.go).       *)
(*                                                                         *)
(* A thread that has committed a change handles its event itself; an event *)
(* that is still waiting after 60 s is handled by the timer.  Statements   *)
(* and calls of the IM server are one step each.  The pair has no relation *)
(* in partner_contacts.                                                    *)
(***************************************************************************)
EXTENDS Integers

CONSTANTS
  Users,        \* the two users
  Threads,      \* threads of the one server process
  Slots,        \* places for waiting events, a bound
  MaxFailures   \* a bound on failed statements and calls, and crashes

ASSUME UsersAssumption == \A u \in Users : \E v \in Users : Users = {u, v} /\ u # v
ASSUME MaxFailuresAssumption == MaxFailures \in Nat

VARIABLES
  friend,       \* friend[u]: the friend row of u about the other user
  events,       \* rows of event with status 0, by place
  whitelist,    \* whitelist[c]: may the other user send into the channel of c?
  thread,       \* the handler that each thread runs
  confirmed,    \* history: users who confirmed in the app and did not delete
  failures      \* history: what has failed so far

fvars == <<friend, events, whitelist, thread, confirmed, failures>>

Other(u) == CHOOSE v \in Users : v # u

\* is_deleted and is_alone of a row.  A deleted row is also alone.
RowState == {"none", "mutual", "alone", "deleted"}

\* source_vercode: an application in the app, or a match of the dating module.
Source == {"app", "match"}

Friend == [state : RowState, source : Source]

NoEvent == [kind |-> "free"]
Event == {NoEvent} \cup [kind : {"sure", "delete"}, by : Users]

Pc == {"check", "addOwn", "addOther", "recheck", "keepOwn", "keepOther",
       "dropOwn", "dropOther", "removeOther", "removeOwn", "commit"}

Idle == [pc |-> "idle"]
Handler == {Idle} \cup [pc : Pc, slot : Slots, by : Users, keep : SUBSET Users]

FriendTypeOK ==
  /\ friend \in [Users -> Friend]
  /\ events \in [Slots -> Event]
  /\ whitelist \in [Users -> BOOLEAN]
  /\ thread \in [Threads -> Handler]
  /\ confirmed \subseteq Users
  /\ failures \in 0 .. MaxFailures

FriendInit ==
  /\ friend = [u \in Users |-> [state |-> "none", source |-> "app"]]
  /\ events = [e \in Slots |-> NoEvent]
  /\ whitelist = [u \in Users |-> FALSE]
  /\ thread = [t \in Threads |-> Idle]
  /\ confirmed = {}
  /\ failures = 0

-----------------------------------------------------------------------------
\* The friend rows.

\* friendDB.isMutualFriend
Mutual == \A u \in Users : friend[u].state = "mutual"

\* friendDB.hasWhitelistRelationship, db.hasOtherChatRelationship
HasRow(u) == friend[u].state \in {"mutual", "alone"}

\* friendDB.updateRelationshipTx or InsertTx on both rows, by friendSure.
SureRows == [u \in Users |-> [state |-> "mutual", source |-> "app"]]

\* friendDB.updateRelationship2Tx and updateAloneTx, by delete.
DeleteRows(u) ==
  [v \in Users |->
    IF friend[v].state = "none" THEN friend[v]
    ELSE IF v = u THEN [friend[v] EXCEPT !.state = "deleted"]
    ELSE [friend[v] EXCEPT !.state = IF @ = "deleted" THEN @ ELSE "alone"]]

\* Fault: the source of a row that is still there is overwritten.  No
\* specification uses a definition that follows "Fault:"; it takes the place
\* of the next one to confirm that a property notices.
EnsureOverwrites ==
  IF Mutual THEN friend ELSE [u \in Users |-> [state |-> "mutual", source |-> "match"]]

\* friendDB.ensureMutualFriendsTx: only a row that was missing or deleted gets
\* the match for its source.
EnsureRows ==
  [u \in Users |->
    IF HasRow(u) THEN [friend[u] EXCEPT !.state = "mutual"]
    ELSE [state |-> "mutual", source |-> "match"]]

Managed(f, u) == f[u].state # "none" /\ f[u].source = "match"

\* friendDB.removeMutualFriendsIfSourceTx: a row that the match created goes;
\* the row opposite to it, if not created by the match, is alone again.
RemoveRows ==
  [u \in Users |->
    IF Managed(friend, u) THEN [friend[u] EXCEPT !.state = "deleted"]
    ELSE IF Managed(friend, Other(u)) /\ HasRow(u)
         THEN [friend[u] EXCEPT !.state = "alone"]
    ELSE friend[u]]

-----------------------------------------------------------------------------
\* Events.

Fail == failures < MaxFailures /\ failures' = failures + 1
Works == UNCHANGED failures
Clean == failures = 0

\* EventBegin in the transaction of u, EventCommit after it.  The thread may
\* fail to read the event back, and then leaves it to the timer.
Publish(t, kind, u) ==
  /\ thread[t] = Idle
  /\ \E e \in Slots :
       /\ events[e] = NoEvent
       /\ events' = [events EXCEPT ![e] = [kind |-> kind, by |-> u]]
       /\ \/ /\ Works
             /\ thread' = [thread EXCEPT ![t] =
                  [pc |-> IF kind = "sure" THEN "check" ELSE "removeOther",
                   slot |-> e, by |-> u, keep |-> {}]]
          \/ Fail /\ UNCHANGED thread
  /\ UNCHANGED whitelist

\* The same where the thread cannot read the event back.
Unread(kind, u) ==
  /\ \E e \in Slots :
       /\ events[e] = NoEvent
       /\ events' = [events EXCEPT ![e] = [kind |-> kind, by |-> u]]
  /\ Fail
  /\ UNCHANGED <<whitelist, thread>>

\* friendSure of u, who accepts the application of the other user.
Sure(t, u) ==
  /\ Publish(t, "sure", u)
  /\ friend' = SureRows
  /\ confirmed' = Users

\* delete, by u.
Delete(t, u) ==
  /\ Publish(t, "delete", u)
  /\ friend' = DeleteRows(u)
  /\ confirmed' = confirmed \ {u}

\* EventTimerPush.  The 60 s outlast a handler that is at work.
Timer(t, e) ==
  /\ thread[t] = Idle
  /\ events[e] # NoEvent
  /\ \A s \in Threads : thread[s].pc # "idle" => thread[s].slot # e
  /\ thread' = [thread EXCEPT ![t] =
       [pc |-> IF events[e].kind = "sure" THEN "check" ELSE "removeOther",
        slot |-> e, by |-> events[e].by, keep |-> {}]]
  /\ UNCHANGED <<friend, events, whitelist, confirmed, failures>>

-----------------------------------------------------------------------------
\* The handlers.

Goto(t, pc) == thread' = [thread EXCEPT ![t].pc = pc]

HandlerUnchanged == UNCHANGED <<friend, events, confirmed>>

\* A read of the database; an error ends the handler.
Reads(t, pc, next) ==
  /\ thread[t].pc = pc
  /\ \/ Works /\ Goto(t, next)
     \/ Fail /\ Goto(t, "commit")
  /\ UNCHANGED whitelist
  /\ HandlerUnchanged

\* A call that sets the whitelist of channel c; it may fail with or without its
\* effect, and then the handler goes to onError.
Calls(t, pc, c, allowed, next, onError) ==
  /\ thread[t].pc = pc
  /\ \/ Works /\ whitelist' = [whitelist EXCEPT ![c] = allowed] /\ Goto(t, next)
     \/ /\ Fail
        /\ whitelist' \in {whitelist, [whitelist EXCEPT ![c] = allowed]}
        /\ Goto(t, onError)
  /\ HandlerUnchanged

\* handleFriendSure
Check(t) == Reads(t, "check", IF Mutual THEN "addOwn" ELSE "commit")
AddOwn(t) == Calls(t, "addOwn", thread[t].by, TRUE, "addOther", "commit")
AddOther(t) == Calls(t, "addOther", Other(thread[t].by), TRUE, "recheck", "commit")

\* Fault: the friendship is not looked at again.
RecheckSkipped(t) == Reads(t, "recheck", "commit")

Recheck(t) == Reads(t, "recheck", IF Mutual THEN "commit" ELSE "keepOwn")

Keeps(t, pc, c, next) ==
  /\ thread[t].pc = pc
  /\ \/ Works /\ thread' = [thread EXCEPT ![t].pc = next,
                              ![t].keep = IF HasRow(c) THEN @ \cup {c} ELSE @]
     \/ Fail /\ Goto(t, "commit")
  /\ UNCHANGED whitelist
  /\ HandlerUnchanged

KeepOwn(t) == Keeps(t, "keepOwn", thread[t].by, "keepOther")
KeepOther(t) == Keeps(t, "keepOther", Other(thread[t].by), "dropOwn")

\* IMWhitelistRemove unless a relation needs the entry; errors are ignored.
Drops(t, pc, c, next) ==
  /\ thread[t].pc = pc
  /\ IF c \in thread[t].keep
     THEN Works /\ Goto(t, next) /\ UNCHANGED whitelist /\ HandlerUnchanged
     ELSE Calls(t, pc, c, FALSE, next, next)

DropOwn(t) == Drops(t, "dropOwn", thread[t].by, "dropOther")
DropOther(t) == Drops(t, "dropOther", Other(thread[t].by), "commit")

\* handleDeleteFriend
RemoveOther(t) ==
  Calls(t, "removeOther", Other(thread[t].by), FALSE, "removeOwn", "commit")
RemoveOwn(t) == Calls(t, "removeOwn", thread[t].by, FALSE, "commit", "commit")

\* updateEventStatus: done or failed, the row is not read again.
Commit(t) ==
  /\ thread[t].pc = "commit"
  /\ \/ Works /\ events' = [events EXCEPT ![thread[t].slot] = NoEvent]
     \/ Fail /\ UNCHANGED events
  /\ thread' = [thread EXCEPT ![t] = Idle]
  /\ UNCHANGED <<friend, whitelist, confirmed>>

Handle(t) ==
  \/ Check(t) \/ AddOwn(t) \/ AddOther(t) \/ Recheck(t)
  \/ KeepOwn(t) \/ KeepOther(t) \/ DropOwn(t) \/ DropOther(t)
  \/ RemoveOther(t) \/ RemoveOwn(t) \/ Commit(t)

\* The process dies; its threads are gone.
FriendCrash == Fail /\ thread' = [t \in Threads |-> Idle]
               /\ UNCHANGED <<friend, events, whitelist, confirmed>>

FriendNext ==
  \/ \E t \in Threads : \/ Handle(t)
                        \/ \E u \in Users : Sure(t, u) \/ Delete(t, u)
                        \/ \E e \in Slots : Timer(t, e)
  \/ FriendCrash

FriendSpec == FriendInit /\ [][FriendNext]_fvars

-----------------------------------------------------------------------------
Settled ==
  /\ \A e \in Slots : events[e] = NoEvent
  /\ \A t \in Threads : thread[t] = Idle

\* Friends may write to each other once their events are handled: the event is
\* committed with the rows lest a temporary failure of the IM server leave the
\* two at odds for ever (user/service.go:493).
FriendsMayTalk == Settled /\ Mutual => \A u \in Users : whitelist[u]

\* When nothing failed, users who have both deleted each other are not on each
\* other's whitelists, although an older confirmation may have been handled at
\* the same time (event_friend.go:35).
SeparatedKeptApart ==
  Settled /\ Clean /\ (\A u \in Users : friend[u].state = "deleted")
    => \A u \in Users : ~whitelist[u]
=============================================================================
