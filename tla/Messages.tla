------------------------------ MODULE Messages ------------------------------
(***************************************************************************)
(* What modules/message keeps of the messages of one group: the row of     *)
(* message_extra with what all members see of a message, who has read it,  *)
(* the pinned messages, and what a member has cleared.                     *)
(*                                                                         *)
(* Every write of message_extra carries the time as its version, and a     *)
(* phone asks for the rows with a version above the one it has.  A request *)
(* is the calls it has left to make; a timer counts the readers.           *)
(***************************************************************************)
EXTENDS Integers, FiniteSets, Sequences

CONSTANTS
  Last,         \* the messages are 1..Last, in the order of the channel
  Users,        \* the members of the group
  Managers,     \* its creator and managers
  Sender,       \* who has sent a message
  MemberPins,   \* group setting: an ordinary member may pin
  MaxPinned,    \* the pinned messages of a channel: 10 in the code
  Requests,     \* the requests that are worked on
  MaxReads,     \* bound: the requests that report a message as read
  MaxRequests,  \* bound: the other requests
  MaxOverlaps,  \* bound: writers that start while another one is at work
  MaxFaults     \* bound: failed calls and crashes

MessageIds == 1..Last

ASSUME MessagesAssumption ==
  /\ Last \in Nat \ {0}
  /\ Managers \subseteq Users
  /\ Sender \in [MessageIds -> Users]
  /\ MemberPins \in BOOLEAN
  /\ MaxPinned \in Nat \ {0}
  /\ MaxReads \in Nat /\ MaxRequests \in Nat /\ MaxOverlaps \in Nat /\ MaxFaults \in Nat

VARIABLES
  extra,     \* message_extra
  reads,     \* member_readed: <<user, message>>
  keys,      \* Redis: the messages whose readers are to be counted
  job,       \* the timer that counts them
  pin,       \* pinned_message
  hidden,    \* message_user_extra: <<user, message>> deleted for the user
  offset,    \* channel_offset: how far a user has cleared the channel
  time,      \* the time, which gives the versions
  phone,     \* a phone, and the version the server has cached for it
  request,   \* the requests
  spent      \* requests, overlaps and faults so far

channelVars == <<hidden, offset>>
countVars == <<reads, keys, job>>
rowVars == <<extra, pin, time>>
messageVars ==
  <<rowVars, countVars, channelVars, phone, request, spent>>

NoRow == [row |-> FALSE, revoked |-> FALSE, deleted |-> FALSE,
          pinned |-> FALSE, edited |-> FALSE, count |-> 0, version |-> 0]
NoJob == [step |-> "idle", listed |-> {}, batch |-> {},
          rows |-> [m \in MessageIds |-> NoRow]]
Idle == [op |-> "none", uid |-> CHOOSE u \in Users : TRUE, msg |-> 1,
         on |-> FALSE, all |-> {}, row |-> NoRow, at |-> 0, todo |-> <<>>]

MessagesInit ==
  /\ extra = [m \in MessageIds |-> NoRow]
  /\ reads = {} /\ keys = {} /\ job = NoJob
  /\ pin = [m \in MessageIds |-> "none"]
  /\ hidden = {} /\ offset = [u \in Users |-> 0]
  /\ time = 0
  /\ phone = [version |-> 0, cached |-> 0,
              rows |-> [m \in MessageIds |-> NoRow]]
  /\ request = [w \in Requests |-> Idle]
  /\ spent = [reads |-> 0, requests |-> 0, overlaps |-> 0, faults |-> 0]

Active(w) == request[w].op # "none"
Writing(w) == request[w].op \notin {"none", "read"}

Pinned == {m \in MessageIds : pin[m] = "pinned"}
Readers(m) == {u \in Users : <<u, m>> \in reads}

\* What a user no longer sees of the channel.
Cleared(u, m) == <<u, m>> \in hidden \/ m <= offset[u]

-----------------------------------------------------------------------------
(***************************************************************************)
(* Requests and their calls                                                *)
(***************************************************************************)
Of(op, u, m) == [Idle EXCEPT !.op = op, !.uid = u, !.msg = m]
On(op, m) == [Idle EXCEPT !.op = op, !.msg = m]

Overlap(clash) ==
  /\ clash => spent.overlaps < MaxOverlaps
  /\ spent' = IF clash THEN [spent EXCEPT !.overlaps = @ + 1] ELSE spent

\* Readers may come at any time; a writer counts as an overlap when another
\* writer or the timer is at work.
Start(w, r, todo) ==
  LET clash == job.step # "idle" \/ \E v \in Requests : Writing(v)
  IN
  /\ ~Active(w)
  /\ IF r.op = "read"
     THEN /\ spent.reads < MaxReads
          /\ spent' = [spent EXCEPT !.reads = @ + 1]
     ELSE /\ spent.requests < MaxRequests
          /\ clash => spent.overlaps < MaxOverlaps
          /\ spent' = [spent EXCEPT !.requests = @ + 1,
                         !.overlaps = IF clash THEN spent.overlaps + 1 ELSE spent.overlaps]
  /\ request' = [request EXCEPT ![w] = [r EXCEPT !.todo = todo]]
  /\ UNCHANGED <<extra, pin, countVars, channelVars, phone>>

\* genMessageExtraSeq: the time in microseconds, before the commit.
Stamped(r) == [r EXCEPT !.at = time + 1]
Tick == time' = time + 1

\* A request of one transaction that no other reads half-done.
AtOnce ==
  /\ spent.requests < MaxRequests
  /\ spent' = [spent EXCEPT !.requests = @ + 1]
  /\ UNCHANGED <<rowVars, countVars, phone, request>>

Due(w, call) == Active(w) /\ Head(request[w].todo) = call

Done(w) ==
  /\ request' = [request EXCEPT ![w] =
       IF Len(request[w].todo) = 1 THEN Idle
       ELSE [request[w] EXCEPT !.todo = Tail(request[w].todo)]]
  /\ UNCHANGED <<phone, spent>>

Refuse(w) ==
  /\ request' = [request EXCEPT ![w] = Idle]
  /\ UNCHANGED <<rowVars, countVars, channelVars, phone, spent>>

\* A call fails or the process dies.
Fail(w) ==
  /\ Active(w)
  /\ spent.faults < MaxFaults
  /\ spent' = [spent EXCEPT !.faults = @ + 1]
  /\ request' = [request EXCEPT ![w] = Idle]
  /\ UNCHANGED <<rowVars, countVars, channelVars, phone>>

-----------------------------------------------------------------------------
(***************************************************************************)
(* The handlers: what they check before they write                         *)
(***************************************************************************)
\* Fault: the timer is told before the reader is in the table.
ReadedTellsFirst(w, u, m) ==
  Start(w, Of("read", u, m), <<"key", "read">>) /\ UNCHANGED time

\* messageReaded: the row of the reader is committed, and a goroutine leaves
\* the key for the timer.
MessageReaded(w, u, m) ==
  Start(w, Of("read", u, m), <<"read", "key">>) /\ UNCHANGED time

\* messageEdit: the same text is not written again.
MessageEdit(w, u, m) ==
  /\ ~extra[m].edited
  /\ Tick
  /\ Start(w, Stamped(On("edit", m)), <<"edit">>)

MutualDelete(w, u, m) ==
  /\ u = Sender[m] \/ u \in Managers
  /\ Tick
  /\ Start(w, Stamped(On("mutualDelete", m)), <<"erase">>)

\* delete of api_manager.go takes the pin away as well.
ManagerDelete(w, u, m) ==
  /\ Tick
  /\ Start(w, [Stamped(On("managerDelete", m))
                 EXCEPT !.on = m \in Pinned], <<"eraseAndUnpin">>)

\* hasRevokePermission: one's own message, or as a manager that of an
\* ordinary member.
Revoke(w, u, m) ==
  /\ u = Sender[m] \/ (u \in Managers /\ Sender[m] \notin Managers)
  /\ UNCHANGED time
  /\ Start(w, On("revoke", m), <<"readRow", "revoke">>)

\* pinnedMessage turns the pin over; the limit is counted before.
PinnedMessage(w, u, m) ==
  /\ u \in Managers \/ MemberPins
  /\ ~extra[m].deleted
  /\ m \in Pinned \/ Cardinality(Pinned) < MaxPinned
  /\ UNCHANGED time
  /\ Start(w, [On("pin", m) EXCEPT
                 !.on = m \notin Pinned,
                 !.all = IF pin[m] = "none" THEN {m} ELSE {}],
           <<"pin", "flag">>)

\* clearPinnedMessage: the pinned messages that the manager still sees.
ClearPinnedMessage(w, u) ==
  LET seen == {m \in Pinned : ~Cleared(u, m)} IN
  /\ u \in Managers
  /\ seen # {}
  /\ Tick
  /\ Start(w, [Stamped(On("clear", 1)) EXCEPT !.all = seen],
           <<"unpinAll">>)

\* offset: the user clears the channel up to a message.
Offset(w, u, m) ==
  /\ offset[u] < m
  /\ UNCHANGED time
  /\ Start(w, Of("offset", u, m), <<"offset">>)

\* Fault: a new member starts at the beginning, whatever was cleared.
JoinShowsAll(w, u, history) ==
  /\ UNCHANGED time
  /\ Start(w, [Of("join", u, 1) EXCEPT
                 !.on = history, !.at = IF history THEN 0 ELSE Last],
           <<"join">>)

\* updateMembersChannelOffset, for a user who joins again: the channel is
\* hidden up to its newest message; in a group that shows its history, only
\* what the user had cleared stays hidden.
UpdateMembersChannelOffset(w, u, history) ==
  /\ UNCHANGED time
  /\ history => offset[u] = 0
  /\ Start(w, [Of("join", u, 1) EXCEPT
                 !.on = history, !.at = IF history THEN 0 ELSE Last],
           <<"join">>)

\* delete: for the user alone.
Delete(u, m) ==
  /\ hidden' = hidden \cup {<<u, m>>}
  /\ AtOnce
  /\ UNCHANGED offset

-----------------------------------------------------------------------------
(***************************************************************************)
(* The calls                                                               *)
(***************************************************************************)
AddReader(w) ==
  /\ Due(w, "read")
  /\ reads' = reads \cup {<<request[w].uid, request[w].msg>>}
  /\ Done(w)
  /\ UNCHANGED <<keys, job, rowVars, channelVars>>

SetKey(w) ==
  /\ Due(w, "key")
  /\ keys' = keys \cup {request[w].msg}
  /\ Done(w)
  /\ UNCHANGED <<reads, job, rowVars, channelVars>>

\* insertOrUpdate...: the row is made if it is not there, and its version is
\* the one of this request, even if the row has a later one.
Upsert(m, at, field, value) ==
  [extra EXCEPT ![m] =
     [extra[m] EXCEPT !.row = TRUE, !.version = at, ![field] = value]]

InsertOrUpdateContentEdit(w) ==
  LET r == request[w] IN
  /\ Due(w, "edit")
  /\ extra' = Upsert(r.msg, r.at, "edited", TRUE)
  /\ Done(w)
  /\ UNCHANGED <<pin, time, countVars, channelVars>>

InsertOrUpdateDeleted(w) ==
  LET r == request[w] IN
  /\ Due(w, "erase")
  /\ extra' = Upsert(r.msg, r.at, "deleted", TRUE)
  /\ Done(w)
  /\ UNCHANGED <<pin, time, countVars, channelVars>>

EraseAndUnpin(w) ==
  LET r == request[w] IN
  /\ Due(w, "eraseAndUnpin")
  /\ extra' = Upsert(r.msg, r.at, "deleted", TRUE)
  /\ pin' = IF r.on THEN [pin EXCEPT ![r.msg] = "unpinned"] ELSE pin
  /\ Done(w)
  /\ UNCHANGED <<time, countVars, channelVars>>

\* The row and the version of a revocation, before its transaction.
ReadRow(w) ==
  /\ Due(w, "readRow")
  /\ Tick
  /\ request' = [request EXCEPT ![w] =
       [request[w] EXCEPT !.row = extra[request[w].msg], !.at = time + 1,
                          !.todo = Tail(request[w].todo)]]
  /\ UNCHANGED <<extra, pin, countVars, channelVars, phone, spent>>

\* A row that was read is written with the number of readers it had then; one
\* that was not there is inserted, and refused if it has been made meanwhile.
\* deletePinnedMessage belongs to the same transaction.
RevokeRow(w) ==
  LET r == request[w]
      m == r.msg
  IN
  /\ Due(w, "revoke")
  /\ IF ~r.row.row /\ extra[m].row
     THEN Refuse(w)
     ELSE /\ extra' = [extra EXCEPT ![m] =
               [extra[m] EXCEPT !.row = TRUE, !.revoked = TRUE,
                                !.count = r.row.count, !.version = r.at]]
          /\ pin' = IF pin[m] = "none" THEN pin
                    ELSE [pin EXCEPT ![m] = "unpinned"]
          /\ Done(w)
          /\ UNCHANGED <<time, countVars, channelVars>>

\* The row of the pin is committed on its own, before the transaction that
\* writes the flag; a second insertion of it is refused.
WritePin(w) ==
  LET r == request[w] IN
  /\ Due(w, "pin")
  /\ IF r.all # {} /\ pin[r.msg] # "none"
     THEN Refuse(w)
     ELSE /\ pin' = [pin EXCEPT ![r.msg] = IF r.on THEN "pinned"
                                                   ELSE "unpinned"]
          /\ Tick
          /\ request' = [request EXCEPT ![w] =
               [r EXCEPT !.at = time + 1, !.todo = Tail(r.todo)]]
          /\ UNCHANGED <<extra, countVars, channelVars, phone, spent>>

InsertOrUpdatePinned(w) ==
  LET r == request[w] IN
  /\ Due(w, "flag")
  /\ extra' = Upsert(r.msg, r.at, "pinned", r.on)
  /\ Done(w)
  /\ UNCHANGED <<pin, time, countVars, channelVars>>

UnpinAll(w) ==
  LET r == request[w] IN
  /\ Due(w, "unpinAll")
  /\ pin' = [m \in MessageIds |-> IF m \in r.all THEN "unpinned" ELSE pin[m]]
  /\ extra' = [m \in MessageIds |->
       IF m \in r.all
       THEN [extra[m] EXCEPT !.row = TRUE, !.pinned = FALSE, !.version = r.at]
       ELSE extra[m]]
  /\ Done(w)
  /\ UNCHANGED <<time, countVars, channelVars>>

\* The offset only grows here.
WriteOffset(w) ==
  LET r == request[w] IN
  /\ Due(w, "offset")
  /\ offset' = [offset EXCEPT ![r.uid] = IF @ < r.msg THEN r.msg ELSE @]
  /\ Done(w)
  /\ UNCHANGED <<hidden, rowVars, countVars>>

Join(w) ==
  LET r == request[w] IN
  /\ Due(w, "join")
  /\ offset' = [offset EXCEPT ![r.uid] = r.at]
  /\ Done(w)
  /\ UNCHANGED <<hidden, rowVars, countVars>>

-----------------------------------------------------------------------------
(***************************************************************************)
(* The timer: handleReadedMessageCount                                     *)
(***************************************************************************)
StartJob ==
  /\ job.step = "idle"
  /\ keys # {}
  /\ Overlap(\E w \in Requests : Writing(w))
  /\ job' = [NoJob EXCEPT !.step = "take", !.listed = keys]
  /\ UNCHANGED <<rowVars, reads, keys, channelVars, phone, request>>

\* A key is read and removed, one after the other.
TakeKey(m) ==
  /\ job.step = "take"
  /\ m \in job.listed
  /\ keys' = keys \ {m}
  /\ job' = [job EXCEPT !.listed = @ \ {m}, !.batch = @ \cup {m}]
  /\ UNCHANGED <<rowVars, reads, channelVars, phone, request, spent>>

\* The rows, the readers and the version are read before the transaction
\* commits; the mutex keeps only new keys away.
ReadRows ==
  /\ job.step = "take"
  /\ job.listed = {}
  /\ job' = [job EXCEPT
       !.step = "write",
       !.rows = [m \in MessageIds |->
         IF m \in job.batch
         THEN [extra[m] EXCEPT !.count = Cardinality(Readers(m)),
                               !.version = time + 1]
         ELSE NoRow]]
  /\ Tick
  /\ UNCHANGED <<extra, pin, reads, keys, channelVars, phone, request,
                 spent>>

\* One transaction: a row that has been made meanwhile cannot be inserted,
\* and then nothing is written.
WriteRows ==
  LET Written(m) == [extra[m] EXCEPT !.row = TRUE,
                                     !.revoked = job.rows[m].revoked,
                                     !.count = job.rows[m].count,
                                     !.version = job.rows[m].version]
      refused == \E m \in job.batch : extra[m].row /\ ~job.rows[m].row
  IN
  /\ job.step = "write"
  /\ extra' = [m \in MessageIds |->
       IF m \in job.batch /\ ~refused THEN Written(m) ELSE extra[m]]
  /\ job' = NoJob
  /\ UNCHANGED <<pin, time, reads, keys, channelVars, phone, request,
                 spent>>

JobFails ==
  /\ job.step # "idle"
  /\ spent.faults < MaxFaults
  /\ spent' = [spent EXCEPT !.faults = @ + 1]
  /\ job' = NoJob
  /\ UNCHANGED <<rowVars, reads, keys, channelVars, phone, request>>

-----------------------------------------------------------------------------
(***************************************************************************)
(* The IM server and a phone                                               *)
(***************************************************************************)
\* The newest of two versions.
Newer(a, b) == IF a < b THEN b ELSE a

\* The rows above a version, and the phone after it has got them.
Answer(known) == {m \in MessageIds : extra[m].row /\ extra[m].version > known}
Synced(known) ==
  [phone EXCEPT
     !.cached = known,
     !.version = CHOOSE v \in {known} \cup
                              {extra[m].version : m \in Answer(known)} :
                   \A m \in Answer(known) : extra[m].version <= v,
     !.rows = [m \in MessageIds |->
                 IF m \in Answer(known) THEN extra[m] ELSE phone.rows[m]]]

\* Fault: the server caches the version of its answer.
SyncCachesAnswer(arrives) ==
  LET known == Newer(phone.cached, phone.version)
      after == Synced(known)
  IN
  /\ phone' = IF arrives THEN [after EXCEPT !.cached = after.version]
                         ELSE [phone EXCEPT !.cached = after.version]
  /\ UNCHANGED <<rowVars, countVars, channelVars, request, spent>>

\* syncMessageExtra: the cache only learns what the phone says it has, so an
\* answer that is lost is given again.
SyncMessageExtra(arrives) ==
  LET known == Newer(phone.cached, phone.version) IN
  /\ phone' = IF arrives THEN Synced(known)
                         ELSE [phone EXCEPT !.cached = known]
  /\ UNCHANGED <<rowVars, countVars, channelVars, request, spent>>

-----------------------------------------------------------------------------
Handle(w, u) ==
  \/ \E m \in MessageIds :
       \/ MessageReaded(w, u, m) \/ MessageEdit(w, u, m)
       \/ MutualDelete(w, u, m) \/ ManagerDelete(w, u, m)
       \/ Revoke(w, u, m) \/ PinnedMessage(w, u, m) \/ Offset(w, u, m)
  \/ ClearPinnedMessage(w, u)
  \/ \E history \in BOOLEAN : UpdateMembersChannelOffset(w, u, history)

Call(w) ==
  \/ AddReader(w) \/ SetKey(w) \/ InsertOrUpdateContentEdit(w)
  \/ InsertOrUpdateDeleted(w) \/ EraseAndUnpin(w)
  \/ ReadRow(w) \/ RevokeRow(w) \/ WritePin(w) \/ InsertOrUpdatePinned(w)
  \/ UnpinAll(w) \/ WriteOffset(w) \/ Join(w)

MessagesNext ==
  \/ \E w \in Requests :
       \/ \E u \in Users : Handle(w, u)
       \/ Call(w)
       \/ Fail(w)
  \/ \E u \in Users, m \in MessageIds : Delete(u, m)
  \/ StartJob
  \/ \E m \in MessageIds : TakeKey(m)
  \/ ReadRows \/ WriteRows \/ JobFails
  \/ \E arrives \in BOOLEAN : SyncMessageExtra(arrives)

MessagesSpec == MessagesInit /\ [][MessagesNext]_messageVars

-----------------------------------------------------------------------------
(***************************************************************************)
(* Properties                                                              *)
(***************************************************************************)
MessagesTypeOK ==
  /\ \A m \in MessageIds : /\ extra[m].version \in 0..time
                           /\ extra[m].count \in 0..Cardinality(Users)
                           /\ ~extra[m].row => extra[m] = NoRow
  /\ reads \subseteq Users \X MessageIds /\ keys \subseteq MessageIds
  /\ job.step \in {"idle", "take", "write"}
  /\ pin \in [MessageIds -> {"none", "pinned", "unpinned"}]
  /\ hidden \subseteq Users \X MessageIds
  /\ offset \in [Users -> 0..Last]
  /\ phone.version \in 0..time /\ phone.cached \in 0..phone.version
  /\ spent \in [reads : 0..MaxReads, requests : 0..MaxRequests,
                overlaps : 0..MaxOverlaps, faults : 0..MaxFaults]

\* Whatever the phone has asked for and whichever answers were lost, a row
\* that is not above its version is the row it has (api.go:616-694): every
\* write of message_extra has a new version.  Writers that overlap may commit
\* in another order than their versions.
NothingMissed ==
  spent.overlaps = 0 =>
    \A m \in MessageIds :
      extra[m].row /\ extra[m].version <= phone.version
        => phone.rows[m] = extra[m]

\* Once the timer has worked off the keys, a message has the number of its
\* readers (api.go:497-551, event.go:33-185), if no writer ran into the timer
\* and nothing failed: a reader is in the table before its key is set.
ReadsAreCounted ==
  /\ keys = {} /\ job.step = "idle"
  /\ \A w \in Requests : request[w].op # "read"
  /\ spent.overlaps = 0 /\ spent.faults = 0
  => \A m \in MessageIds : extra[m].count = Cardinality(Readers(m))

\* In a group that shows its history, what a user has cleared before leaving
\* does not come back when the user joins again (event.go:369-377), if no
\* clearing overlaps.
ClearedStaysCleared ==
  [][spent.overlaps = 0 =>
       \A u \in Users :
         \/ offset'[u] >= offset[u]
         \/ \E w \in Requests : Due(w, "join") /\ ~request[w].on]_messageVars
=============================================================================
