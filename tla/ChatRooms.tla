------------------------------ MODULE ChatRooms ------------------------------
(***************************************************************************)
(* The topic rooms of modules/chatrooms: the row of a room and those of    *)
(* its members, the native group and the channel that belong to it, and    *)
(* the queue in memory through which the messages of the IM server reach   *)
(* the row: a timer takes the queue, writes each item in one transaction   *)
(* and puts back what failed.  A room is open for Ttl after its last       *)
(* reply; a job removes it Grace later, another deletes what is left.      *)
(*                                                                         *)
(* All clients use one create_request_no, that of the host.                *)
(***************************************************************************)
EXTENDS Integers, FiniteSets, Sequences

CONSTANTS
  Guests,      \* the users
  Host,        \* the one who creates the rooms
  Topics,      \* room ids
  Visits,      \* the requests that are worked on, and the job
  Ttl,         \* three hours in the code
  Grace,       \* ten seconds
  Retention,   \* three days
  Prompt,      \* TRUE when a reply reaches its row before the clock ticks
  MaxClock,    \* bound: the ticks of the clock
  MaxSent,     \* bound: messages
  MaxVisits,   \* bound: requests
  MaxFailures  \* bound: calls that fail and requests that overlap

ASSUME ChatRoomsAssumption ==
  /\ Host \in Guests
  /\ {Ttl, Grace, Retention, MaxClock, MaxSent} \subseteq Nat \ {0}
  /\ {MaxVisits, MaxFailures} \subseteq Nat
  /\ Prompt \in BOOLEAN

VARIABLES
  topic,       \* topic_rooms
  guest,       \* topic_room_members: last_read_at per user
  native,      \* group and group_member
  subscriber,  \* the channels at the IM server
  known,       \* topicChannelCache
  sent,        \* the messages the IM server has stored
  recent,      \* recentMessageIDs
  pending,     \* lastReplyPending
  flushing,    \* the items the timer has taken
  openUntil,   \* history: how long a room was open by its replies
  visit,       \* the requests
  clock,
  used         \* requests and failures so far

rowVars == <<topic, guest, native>>
replyVars == <<recent, pending, flushing>>
roomVars == <<rowVars, subscriber, known, sent, replyVars, openUntil, visit,
              clock, used>>

Absent == -1
NoReply == [by |-> Host, at |-> 0]
NoItem == [count |-> 0, latest |-> NoReply, people |-> [u \in Guests |-> 0]]
Away == [op |-> "none", topic |-> "none", uid |-> Host,
         who |-> {}, calls |-> <<>>]
Nobody == [u \in Guests |-> Absent]

RoomsInit ==
  /\ topic = [r \in Topics |-> [status |-> "unused", expire |-> 0,
                                replies |-> 0, people |-> 0, last |-> NoReply]]
  /\ guest = [r \in Topics |-> Nobody]
  /\ native = [r \in Topics |-> [status |-> "none", live |-> {}]]
  /\ subscriber = [r \in Topics |-> {}]
  /\ known = [r \in Topics |-> "unknown"]
  /\ sent = <<>> /\ recent = {}
  /\ pending = [r \in Topics |-> NoItem]
  /\ flushing = [r \in Topics |-> NoItem]
  /\ openUntil = [r \in Topics |-> 0]
  /\ visit = [w \in Visits |-> Away]
  /\ clock = 1
  /\ used = [visits |-> 0, failures |-> 0]

\* The row of a room, and what get and getByCreateRequest find.
Stored(r) == topic[r].status \in {"active", "gone"}
IsOpen(r) == topic[r].status = "active" /\ topic[r].expire > clock
GuestsOf(r) == {u \in Guests : guest[r][u] # Absent}

-----------------------------------------------------------------------------
(***************************************************************************)
(* Requests                                                                *)
(***************************************************************************)
Underway(w) == visit[w].calls # <<>>
Calm == \A w \in Visits : ~Underway(w)
MayFail == used.failures < MaxFailures

Arrive(w, op, r, u, calls) ==
  /\ ~Underway(w)
  /\ used.visits < MaxVisits
  /\ ~Calm => MayFail
  /\ used' = [visits |-> used.visits + 1,
              failures |-> IF Calm THEN used.failures ELSE used.failures + 1]
  /\ visit' = [visit EXCEPT ![w] = [op |-> op, topic |-> r, uid |-> u,
                                    who |-> {u}, calls |-> calls]]

Next1(w, call) == Underway(w) /\ Head(visit[w].calls) = call
Continue(w, calls) ==
  visit' = [visit EXCEPT ![w] =
    IF calls = <<>> THEN Away ELSE [@ EXCEPT !.calls = calls]]
Proceed(w) == Continue(w, Tail(visit[w].calls)) /\ UNCHANGED used
Answer(w) == Continue(w, <<>>) /\ UNCHANGED used

\* A call fails; what was written stays.  Only a creation is rolled back, and
\* an error of the roll-back is logged.
VisitFails(w) ==
  /\ Underway(w) /\ MayFail
  /\ used' = [used EXCEPT !.failures = @ + 1]
  /\ Continue(w, CASE Head(visit[w].calls) = "open" -> <<"rollback", "drop">>
                   [] Head(visit[w].calls) = "rollback" -> <<"drop">>
                   [] OTHER -> <<>>)
  /\ known' = IF Head(visit[w].calls) = "open"
              THEN [known EXCEPT ![visit[w].topic] = "no"] ELSE known
  /\ UNCHANGED <<rowVars, subscriber, sent, replyVars, openUntil, clock>>

-----------------------------------------------------------------------------
(***************************************************************************)
(* Creating a room                                                         *)
(***************************************************************************)
\* The room of the request number: Create answers with it if it is open.
CreateAgain(w, r) ==
  /\ Stored(r) /\ IsOpen(r)
  /\ Arrive(w, "create", r, Host, <<"members", "sync">>)
  /\ UNCHANGED <<rowVars, subscriber, known, sent, replyVars, openUntil, clock>>

\* A new id: util.GenerUUID.
CreateRoom(w, r) ==
  /\ topic[r].status = "unused"
  /\ \A q \in Topics : ~Stored(q)
  /\ \A v \in Visits : visit[v].topic = r => ~Underway(v)
  /\ Arrive(w, "create", r, Host, <<"insert", "open">>)
  /\ UNCHANGED <<rowVars, subscriber, known, sent, replyVars, openUntil, clock>>

\* create of db.go in one transaction.  The index on the request number lets
\* one creation through, another is answered with the room it finds.
InsertRoom(w) ==
  LET r == visit[w].topic
      first == {q \in Topics : Stored(q)}
  IN
  /\ Next1(w, "insert")
  /\ IF first = {}
     THEN /\ topic' = [topic EXCEPT ![r] =
               [status |-> "active", expire |-> clock + Ttl, replies |-> 0,
                people |-> 1, last |-> NoReply]]
          /\ guest' = [guest EXCEPT ![r][Host] = clock]
          /\ native' = [native EXCEPT ![r] =
                         [status |-> "normal", live |-> @.live \cup {Host}]]
          /\ openUntil' = [openUntil EXCEPT ![r] = clock + Ttl]
          /\ known' = [known EXCEPT ![r] = "yes"]
          /\ Proceed(w)
     ELSE /\ visit' = [visit EXCEPT ![w] =
               LET q == CHOOSE q \in first : TRUE IN
               IF IsOpen(q) THEN [@ EXCEPT !.topic = q,
                                           !.calls = <<"members", "sync">>]
               ELSE Away]
          /\ UNCHANGED <<topic, guest, native, openUntil, known, used>>
  /\ UNCHANGED <<subscriber, sent, replyVars, clock>>

\* syncIMChannelWithStoredMembers
ReadMembers(w) ==
  LET r == visit[w].topic IN
  /\ Next1(w, "members")
  /\ visit' = [visit EXCEPT
       ![w].who = IF GuestsOf(r) = {} THEN {Host} ELSE GuestsOf(r),
       ![w].calls = Tail(@)]
  /\ UNCHANGED <<rowVars, subscriber, known, sent, replyVars, openUntil, clock,
                 used>>

\* IMCreateOrUpdateChannel: the subscribers are those it is given.
SyncIMChannel(w) ==
  /\ Next1(w, "sync") \/ Next1(w, "open")
  /\ subscriber' = [subscriber EXCEPT ![visit[w].topic] = visit[w].who]
  /\ Proceed(w)
  /\ UNCHANGED <<rowVars, known, sent, replyVars, openUntil, clock>>

DeleteFailedCreate(w) ==
  LET r == visit[w].topic IN
  /\ Next1(w, "rollback")
  /\ IF Stored(r)
     THEN /\ topic' = [topic EXCEPT ![r].status = "deleted"]
          /\ guest' = [guest EXCEPT ![r] = Nobody]
          /\ native' = [native EXCEPT ![r] = [status |-> "disband", live |-> {}]]
     ELSE UNCHANGED rowVars
  /\ Proceed(w)
  /\ UNCHANGED <<subscriber, known, sent, replyVars, openUntil, clock>>

-----------------------------------------------------------------------------
(***************************************************************************)
(* Entering, reading, deleting                                             *)
(***************************************************************************)
Enter(w, r, u) ==
  /\ IsOpen(r)
  /\ Arrive(w, "enter", r, u, <<"join", "subscribe", "read">>)
  /\ known' = [known EXCEPT ![r] = "yes"]
  /\ UNCHANGED <<rowVars, subscriber, sent, replyVars, openUntil, clock>>

\* addMemberToRoom does not look at the room again.
AddMemberToRoom(w) ==
  LET r == visit[w].topic
      u == visit[w].uid
  IN
  /\ Next1(w, "join")
  /\ native' = [native EXCEPT ![r] =
                 [status |-> "normal", live |-> @.live \cup {u}]]
  /\ IF guest[r][u] = Absent
     THEN /\ guest' = [guest EXCEPT ![r][u] = 0]
          /\ topic' = [topic EXCEPT ![r].people =
                        IF Stored(r) THEN @ + 1 ELSE @]
     ELSE UNCHANGED <<guest, topic>>
  /\ Proceed(w)
  /\ UNCHANGED <<subscriber, known, sent, replyVars, openUntil, clock>>

AddIMSubscribers(w) ==
  /\ Next1(w, "subscribe")
  /\ subscriber' = [subscriber EXCEPT ![visit[w].topic] = @ \cup visit[w].who]
  /\ Proceed(w)
  /\ UNCHANGED <<rowVars, known, sent, replyVars, openUntil, clock>>

Read(w, r, u) ==
  /\ IsOpen(r)
  /\ Arrive(w, "read", r, u, <<"read">>)
  /\ UNCHANGED <<rowVars, subscriber, known, sent, replyVars, openUntil, clock>>

Later(s, t) == IF s > t THEN s ELSE t

MarkRead(w) ==
  LET r == visit[w].topic
      u == visit[w].uid
  IN
  /\ Next1(w, "read")
  /\ guest' = IF guest[r][u] = Absent THEN guest
              ELSE [guest EXCEPT ![r][u] = Later(@, clock)]
  /\ Answer(w)
  /\ UNCHANGED <<topic, native, subscriber, known, sent, replyVars, openUntil,
                 clock>>

Delete(w, r) ==
  /\ IsOpen(r)
  /\ Arrive(w, "delete", r, Host, <<"soft", "drop">>)
  /\ UNCHANGED <<rowVars, subscriber, known, sent, replyVars, openUntil, clock>>

\* Fault: the rooms that have just expired are removed at once.
ExpiredAtOnce(r) == topic[r].status = "active" /\ topic[r].expire <= clock

\* Rooms that expired before the grace.
Expired(r) == topic[r].status = "active" /\ topic[r].expire <= clock - Grace

\* The job holds a lock in Redis, so there is one; it works on one room after
\* the other, which it has listed before.
CleanupExpired(w, r) ==
  /\ Expired(r)
  /\ \A v \in Visits : visit[v].op # "cleanup"
  /\ Arrive(w, "cleanup", r, Host, <<"soft", "drop">>)
  /\ UNCHANGED <<rowVars, subscriber, known, sent, replyVars, openUntil, clock>>

\* softDelete: expire_at becomes the time of the deletion.
SoftDelete(w) ==
  LET r == visit[w].topic IN
  /\ Next1(w, "soft")
  /\ IF topic[r].status = "active"
     THEN /\ topic' = [topic EXCEPT ![r].status = "gone", ![r].expire = clock]
          /\ native' = [native EXCEPT ![r] = [status |-> "disband", live |-> {}]]
          /\ known' = [known EXCEPT ![r] = "no"]
          /\ Proceed(w)
     ELSE UNCHANGED <<topic, native, known>> /\ Answer(w)
  /\ UNCHANGED <<guest, subscriber, sent, replyVars, openUntil, clock>>

DeleteIMChannel(w) ==
  /\ Next1(w, "drop")
  /\ subscriber' = [subscriber EXCEPT ![visit[w].topic] = {}]
  /\ Answer(w)
  /\ UNCHANGED <<rowVars, known, sent, replyVars, openUntil, clock>>

\* purgeDeleted: the native group goes only if it is still disbanded.
PurgeDeleted(r) ==
  /\ topic[r].status = "gone" /\ topic[r].expire <= clock - Retention
  /\ topic' = [topic EXCEPT ![r].status = "deleted"]
  /\ guest' = [guest EXCEPT ![r] = Nobody]
  /\ native' = [native EXCEPT ![r] =
       [status |-> IF @.status = "disband" THEN "none" ELSE @.status,
        live |-> {}]]
  /\ UNCHANGED <<subscriber, known, sent, replyVars, openUntil, visit, clock,
                 used>>

-----------------------------------------------------------------------------
(***************************************************************************)
(* Replies                                                                 *)
(***************************************************************************)
\* A client posts to the channel; the IM server stores the message, and will
\* call the listener with it.
SendReply(r, u) ==
  /\ u \in subscriber[r] /\ Len(sent) < MaxSent
  /\ sent' = Append(sent, [topic |-> r, by |-> u, at |-> clock])
  /\ openUntil' = [openUntil EXCEPT ![r] =
                    IF clock <= @ THEN clock + Ttl ELSE @]
  /\ UNCHANGED <<rowVars, subscriber, known, replyVars, visit, clock, used>>

\* IsTopicChannel answers from its cache, or isTopicChannelAt from the row.
IsTopicChannel(r) ==
  known[r] = "yes" \/ (known[r] = "unknown" /\ IsOpen(r))
IsTopicMessage(m) ==
  LET r == sent[m].topic IN
  \/ IsTopicChannel(r)
  \/ topic[r].status = "active" /\ topic[r].expire >= sent[m].at

\* One reply joins an item, or an item is put back into a newer one.
Merge(item, other) ==
  [count |-> item.count + other.count,
   latest |-> IF other.latest.at >= item.latest.at
              THEN other.latest ELSE item.latest,
   people |-> [u \in Guests |-> Later(item.people[u], other.people[u])]]
ItemOf(m) ==
  [count |-> 1, latest |-> [by |-> sent[m].by, at |-> sent[m].at],
   people |-> [NoItem.people EXCEPT ![sent[m].by] = sent[m].at]]

\* queueLastReply, with the ids it has seen.
QueueLastReply(m) ==
  LET r == sent[m].topic IN
  IF m \in recent THEN UNCHANGED <<recent, pending>>
  ELSE /\ recent' = recent \cup {m}
       /\ pending' = [pending EXCEPT ![r] = Merge(@, ItemOf(m))]

\* listenerMessages for one message; the calls of the IM server come in any
\* order and more than once.
ListenerMessages(m) ==
  LET r == sent[m].topic IN
  /\ known' = [known EXCEPT ![r] =
       IF @ # "unknown" THEN @ ELSE IF IsOpen(r) THEN "yes" ELSE "no"]
  /\ IF IsTopicMessage(m) THEN QueueLastReply(m) ELSE UNCHANGED <<recent, pending>>
  /\ UNCHANGED <<rowVars, subscriber, sent, flushing, openUntil, visit, clock,
                 used>>

\* The entry of the cache expires.
CacheExpires(r) ==
  /\ known[r] # "unknown"
  /\ known' = [known EXCEPT ![r] = "unknown"]
  /\ UNCHANGED <<rowVars, subscriber, sent, replyVars, openUntil, visit, clock,
                 used>>

\* FlushPendingLastReplies: the queue is taken as a whole.
TakePending ==
  /\ \A r \in Topics : flushing[r] = NoItem
  /\ \E r \in Topics : pending[r] # NoItem
  /\ flushing' = pending
  /\ pending' = [r \in Topics |-> NoItem]
  /\ UNCHANGED <<rowVars, subscriber, known, sent, recent, openUntil, visit,
                 clock, used>>

\* updateLastReplyBatch in one transaction.  A room that is over or was over
\* before the latest of the replies drops the item.
UpdateLastReplyBatch(r) ==
  LET item == flushing[r]
      came == {u \in Guests : item.people[u] > 0}
  IN
  /\ item # NoItem
  /\ IF topic[r].status = "active" /\ item.latest.at <= topic[r].expire
     THEN /\ topic' = [topic EXCEPT
               ![r].replies = @ + item.count,
               ![r].people = @ + Cardinality(came \ GuestsOf(r)),
               ![r].last = IF @.at <= item.latest.at THEN item.latest ELSE @,
               ![r].expire = Later(@, item.latest.at + Ttl)]
          /\ guest' = [guest EXCEPT ![r] = [u \in Guests |->
               IF u \in came THEN Later(@[u], item.people[u]) ELSE @[u]]]
          /\ native' = [native EXCEPT ![r].live = @ \cup came]
     ELSE UNCHANGED rowVars
  /\ flushing' = [flushing EXCEPT ![r] = NoItem]
  /\ UNCHANGED <<subscriber, known, sent, recent, pending, openUntil, visit,
                 clock, used>>

\* Fault: the item that is put back replaces what has come since.
RequeueOver(r) ==
  pending' = [pending EXCEPT ![r] = flushing[r]]

\* requeueLastReplyItem
Requeue(r) ==
  pending' = [pending EXCEPT ![r] = Merge(@, flushing[r])]

\* The last of three attempts fails.
FlushFails(r) ==
  /\ flushing[r] # NoItem /\ MayFail
  /\ used' = [used EXCEPT !.failures = @ + 1]
  /\ Requeue(r)
  /\ flushing' = [flushing EXCEPT ![r] = NoItem]
  /\ UNCHANGED <<rowVars, subscriber, known, sent, recent, openUntil, visit,
                 clock>>

Tick ==
  /\ clock < MaxClock
  /\ Prompt =>
       /\ \A r \in Topics : pending[r] = NoItem /\ flushing[r] = NoItem
       /\ \A m \in 1..Len(sent) : m \in recent \/ ~IsTopicMessage(m)
  /\ clock' = clock + 1
  /\ UNCHANGED <<rowVars, subscriber, known, sent, replyVars, openUntil, visit,
                 used>>

-----------------------------------------------------------------------------
Visiting(w) ==
  \/ \E r \in Topics :
       \/ CreateAgain(w, r) \/ CreateRoom(w, r) \/ Delete(w, r)
       \/ CleanupExpired(w, r)
       \/ \E u \in Guests : Enter(w, r, u) \/ Read(w, r, u)
  \/ InsertRoom(w) \/ ReadMembers(w) \/ SyncIMChannel(w)
  \/ DeleteFailedCreate(w) \/ AddMemberToRoom(w) \/ AddIMSubscribers(w)
  \/ MarkRead(w) \/ SoftDelete(w) \/ DeleteIMChannel(w) \/ VisitFails(w)

RoomsNext ==
  \/ \E w \in Visits : Visiting(w)
  \/ \E r \in Topics :
       \/ PurgeDeleted(r) \/ CacheExpires(r)
       \/ UpdateLastReplyBatch(r) \/ FlushFails(r)
       \/ \E u \in Guests : SendReply(r, u)
  \/ \E m \in 1..Len(sent) : ListenerMessages(m)
  \/ TakePending
  \/ Tick

RoomsSpec == RoomsInit /\ [][RoomsNext]_roomVars

-----------------------------------------------------------------------------
(***************************************************************************)
(* What the rooms promise                                                  *)
(***************************************************************************)
CountOf(r) == topic[r].replies + pending[r].count + flushing[r].count

\* While a room is open, a reply that the listener accepted is in the count
\* of its row once, or in an item that is still to be written: neither the
\* exchange of the queue, nor a flush that failed and was put back, nor a
\* repeated call of the IM server loses one or counts it twice.
EveryReplyCounted ==
  [][\A r \in Topics : IsOpen(r) /\ IsOpen(r)' =>
       CountOf(r)' = CountOf(r)
         + Cardinality({m \in recent' \ recent : sent[m].topic = r})]_roomVars

\* The cleanup removes a room only after the last of its replies is Ttl old:
\* the grace covers those that wait in the queue (the README of the module:
\* lest the room be deleted before a message at the limit is written).
RepliedRoomStays ==
  [][\A r \in Topics :
       topic[r].status = "active" /\ topic'[r].status = "gone" =>
         \/ openUntil[r] < clock
         \/ \E w \in Visits : visit[w].op = "delete" /\ visit'[w] # visit[w]
     ]_roomVars
=============================================================================
