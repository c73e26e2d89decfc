------------------------------- MODULE Group -------------------------------
(***************************************************************************)
(* One group chat of modules/group: its row in the table group, the rows   *)
(* of its members, and its channel at the IM server, which decides who     *)
(* receives the messages (subscribers) and who may write (white- and       *)
(* blacklist).                                                             *)
(*                                                                         *)
(* Every handler reads the tables without a lock, checks, calls the IM     *)
(* server before it commits (create, add, join, mute all, exit) or after   *)
(* (remove, transfer, blacklist, ...), and writes in one transaction.  A   *)
(* request is therefore a record: what it has read, the IM calls still to  *)
(* come, and whether its transaction is behind it.                         *)
(***************************************************************************)
EXTENDS Integers, FiniteSets, Sequences

CONSTANTS
  Members,       \* the users that can be members of the group
  Requests,      \* the requests that are worked on, one record each
  Admin,         \* the super administrator and the events of the server
  Overlap,       \* TRUE when requests may run side by side
  MaxRequests,   \* bound: the requests of a behaviour
  MaxFaults      \* bound: failed calls, failed transactions and crashes

ASSUME GroupAssumption ==
  /\ Admin \notin Members
  /\ Overlap \in BOOLEAN
  /\ MaxRequests \in Nat
  /\ MaxFaults \in Nat

VARIABLES
  group,     \* the row of the group
  member,    \* the rows of group_member, per user
  channel,   \* the channel of the group at the IM server
  invite,    \* the latest invitation that waits for a confirmation
  request,   \* the requests
  spent      \* requests and faults so far

groupVars == <<group, member, channel, invite, request, spent>>

Roles == {"common", "manager", "creator"}
Statuses == {"none", "disabled", "normal", "disband"}
Kinds == {"user", "org", "system"}

\* created_at is left out: two members may have joined in the same second.
MemberRow == [in : {"never", "live", "deleted"}, role : Roles,
              blocked : BOOLEAN, muted : BOOLEAN]
NewMember(role) ==
  [in |-> "live", role |-> role, blocked |-> FALSE, muted |-> FALSE]
NoMember == [NewMember("common") EXCEPT !.in = "never"]

GroupRow == [status : Statuses, kind : Kinds, forbidden : BOOLEAN,
             invite : BOOLEAN, event : {"none", "wait", "done", "fail"}]
NoGroup == [status |-> "none", kind |-> "user", forbidden |-> FALSE,
            invite |-> FALSE, event |-> "none"]

NoInvite == [status |-> "none", by |-> Admin, uids |-> {}]

IMCall == [do : {"create", "subscribe", "unsubscribe", "silence", "unsilence",
                 "whitelist", "managers", "ban", "unban"},
           uids : SUBSET Members]
Call(do, uids) == [do |-> do, uids |-> uids]

Idle == [pc |-> "idle", op |-> "none", by |-> Admin, to |-> {}, on |-> FALSE,
         group |-> NoGroup, rows |-> [u \in Members |-> NoMember],
         calls |-> <<>>]

GroupInit ==
  /\ group = NoGroup
  /\ member = [u \in Members |-> NoMember]
  /\ channel = [exists |-> FALSE, ban |-> FALSE, subscribers |-> {},
                white |-> {}, black |-> {}]
  /\ invite = NoInvite
  /\ request = [w \in Requests |-> Idle]
  /\ spent = [requests |-> 0, faults |-> 0]

-----------------------------------------------------------------------------
(***************************************************************************)
(* Queries of db.go                                                        *)
(***************************************************************************)
LiveIn(rows) == {u \in Members : rows[u].in = "live"}
Live == LiveIn(member)
IsGroupCreator(u) == u \in Live /\ member[u].role = "creator"
IsGroupManagerOrCreator(u) == u \in Live /\ member[u].role # "common"
ManagersAndCreator == {u \in Members : IsGroupManagerOrCreator(u)}

\* getGroupInfo refuses a group that does not exist or is disbanded.
GroupFound == group.status \notin {"none", "disband"}

\* UpdateTx and Update write the whole row as the request read it.
WriteBack(g) == [group EXCEPT !.status = g.status,
                              !.forbidden = g.forbidden,
                              !.invite = g.invite]

\* UpdateMember writes the row as it was read, except the status.
UpdateMember(u, row) ==
  [member EXCEPT ![u] = [row EXCEPT !.blocked = member[u].blocked]]

\* DeleteMemberTx; a user without a row is not touched.
DeleteMembers(rows, us) ==
  [u \in Members |-> IF u \in us /\ rows[u].in = "live"
                     THEN [rows[u] EXCEPT !.in = "deleted"] ELSE rows[u]]

\* UpdateMembersToManager, UpdateManagersToMember, UpdateMemberRoleTx.
SetRole(rows, us, role) ==
  [u \in Members |-> IF u \in us /\ rows[u].in = "live"
                     THEN [rows[u] EXCEPT !.role = role] ELSE rows[u]]

\* recoverMemberTx resets the role, but neither the status nor a mute.
RecoverOrInsert(rows, us) ==
  [u \in Members |->
     IF u \notin us THEN rows[u]
     ELSE IF rows[u].in = "never" THEN NewMember("common")
          ELSE [rows[u] EXCEPT !.in = "live", !.role = "common"]]

-----------------------------------------------------------------------------
(***************************************************************************)
(* The phases of a request                                                 *)
(***************************************************************************)
Free(w) ==
  /\ request[w].pc = "idle"
  /\ spent.requests < MaxRequests
  /\ Overlap \/ \A v \in Requests : request[v].pc = "idle"

\* The checks are done; calls are those that come before the transaction.
Start(w, op, by, to, on, calls) ==
  /\ Free(w)
  /\ request' = [request EXCEPT ![w] =
       [pc |-> "run", op |-> op, by |-> by, to |-> to, on |-> on,
        group |-> group, rows |-> member, calls |-> calls]]
  /\ spent' = [spent EXCEPT !.requests = @ + 1]
  /\ UNCHANGED <<group, member, channel, invite>>

Ready(w, ops) ==
  /\ request[w].pc = "run"
  /\ request[w].op \in ops
  /\ request[w].calls = <<>>

\* The transaction commits; calls are those that come after it.
Commit(w, g, rows, calls) ==
  /\ group' = g
  /\ member' = rows
  /\ request' = [request EXCEPT ![w] =
       IF calls = <<>> THEN Idle
       ELSE [request[w] EXCEPT !.pc = "after", !.calls = calls]]
  /\ UNCHANGED <<channel, spent>>

Refuse(w) ==
  /\ request' = [request EXCEPT ![w] = Idle]
  /\ UNCHANGED <<group, member, channel, invite, spent>>

\* What a call does at the IM server.
Apply(c) ==
  CASE c.do = "create" -> [channel EXCEPT !.exists = TRUE,
                                          !.subscribers = c.uids]
    [] c.do = "subscribe" -> [channel EXCEPT !.subscribers = @ \cup c.uids]
    [] c.do = "unsubscribe" -> [channel EXCEPT !.subscribers = @ \ c.uids]
    [] c.do = "silence" -> [channel EXCEPT !.black = @ \cup c.uids]
    [] c.do = "unsilence" -> [channel EXCEPT !.black = @ \ c.uids]
    [] c.do = "whitelist" -> [channel EXCEPT !.white = c.uids]
    [] c.do = "ban" -> [channel EXCEPT !.ban = TRUE]
    [] c.do = "unban" -> [channel EXCEPT !.ban = FALSE]

\* setIMWhitelistForGroupManager reads the managers for the call.
ReadManagers(w) ==
  LET r == request[w] IN
  /\ r.calls # <<>>
  /\ Head(r.calls).do = "managers"
  /\ request' = [request EXCEPT ![w].calls =
       <<Call("whitelist", ManagersAndCreator)>> \o Tail(r.calls)]
  /\ UNCHANGED <<group, member, channel, invite, spent>>

CallIM(w) ==
  LET r == request[w] IN
  /\ r.calls # <<>>
  /\ Head(r.calls).do # "managers"
  /\ channel' = Apply(Head(r.calls))
  /\ request' = [request EXCEPT ![w] =
       IF r.pc = "after" /\ Len(r.calls) = 1 THEN Idle
       ELSE [r EXCEPT !.calls = Tail(r.calls)]]
  /\ UNCHANGED <<group, member, invite, spent>>

\* A call or the transaction fails, or the process dies: the handler goes
\* no further and nothing takes back the calls it has made.
Fail(w) ==
  /\ request[w].pc # "idle"
  /\ spent.faults < MaxFaults
  /\ spent' = [spent EXCEPT !.faults = @ + 1]
  /\ request' = [request EXCEPT ![w] = Idle]
  /\ UNCHANGED <<group, member, channel, invite>>

-----------------------------------------------------------------------------
(***************************************************************************)
(* Creating and disbanding                                                 *)
(***************************************************************************)
Create(w, kind, by, to) ==
  /\ group.status = "none"
  /\ Start(w, kind, by, to, kind = "org", <<Call("create", to \cup {by})>>)

\* The members are those whose accounts still exist.
GroupCreate(w, by, to) == to # {} /\ Create(w, "user", by, to)

\* The group of an organisation or a department: it is by invitation.
HandleOrgOrDeptCreateEvent(w, by, to) == by \notin to /\ Create(w, "org", by, to)

\* The first registration makes the group of the system.
SystemGroupCreate(w, by) == Create(w, "system", by, {})

GroupCreateTx(w) ==
  LET r == request[w] IN
  /\ Ready(w, Kinds)
  /\ group.status = "none"
  /\ Commit(w, [NoGroup EXCEPT !.status = "normal", !.kind = r.op,
                               !.invite = r.on],
            [u \in Members |-> IF u = r.by THEN NewMember("creator")
                               ELSE IF u \in r.to THEN NewMember("common")
                                    ELSE NoMember],
            <<>>)
  /\ UNCHANGED invite

Disband(w, by) ==
  /\ GroupFound
  /\ IsGroupCreator(by)
  /\ Start(w, "disband", by, {}, FALSE, <<>>)

DisbandTx(w) ==
  /\ Ready(w, {"disband"})
  /\ Commit(w, [WriteBack([request[w].group EXCEPT !.status = "disband"])
                  EXCEPT !.event = "wait"], member, <<>>)
  /\ UNCHANGED invite

\* handleGroupDisbandEvent deletes the channel, or marks the event failed.
HandleGroupDisbandEvent(ok) ==
  /\ group.event = "wait"
  /\ group' = [group EXCEPT !.event = IF ok THEN "done" ELSE "fail"]
  /\ IF ok
     THEN /\ channel' = [exists |-> FALSE, ban |-> FALSE, subscribers |-> {},
                         white |-> {}, black |-> {}]
          /\ UNCHANGED spent
     ELSE /\ spent.faults < MaxFaults
          /\ spent' = [spent EXCEPT !.faults = @ + 1]
          /\ UNCHANGED channel
  /\ UNCHANGED <<member, invite, request>>

-----------------------------------------------------------------------------
(***************************************************************************)
(* Joining                                                                 *)
(***************************************************************************)
\* addMembersTx takes those who are neither members nor blacklisted.
Addable(to) == {u \in to : u \notin Live /\ ~member[u].blocked}

\* The IM server hears of the new members before the transaction commits.
AddMembers(w, op, by, to) ==
  /\ by \in Live
  /\ Addable(to) # {}
  /\ Start(w, op, by, Addable(to), FALSE, <<Call("subscribe", Addable(to))>>)

\* With the switch for invitations on, only managers add directly.
MemberAdd(w, by, to) ==
  /\ GroupFound
  /\ ~group.invite \/ IsGroupManagerOrCreator(by)
  /\ AddMembers(w, "add", by, to)

\* The registration of a user adds it to the group of the system.
HandleRegisterUserEvent(w, by, u) ==
  /\ group.kind = "system"
  /\ IsGroupCreator(by)
  /\ AddMembers(w, "add", by, {u})

\* groupScanJoin asks neither the generator of the code nor the blacklist.
GroupScanJoin(w, by, u) ==
  /\ GroupFound
  /\ ~group.invite
  /\ u \notin Live
  /\ Start(w, "scan", by, {u}, FALSE, <<Call("subscribe", {u})>>)

\* groupMemberInviteAdd: any user may ask a manager to let others in.
InviteAdd(by, to) ==
  /\ GroupFound
  /\ invite.status # "wait"
  /\ spent.requests < MaxRequests
  /\ invite' = [status |-> "wait", by |-> by, uids |-> to]
  /\ spent' = [spent EXCEPT !.requests = @ + 1]
  /\ UNCHANGED <<group, member, channel, request>>

\* groupMemberInviteSure, with the code that a manager was given.
InviteSure(w, by) ==
  /\ GroupFound
  /\ invite.status = "wait"
  /\ IsGroupManagerOrCreator(by)
  /\ AddMembers(w, "sure", invite.by, invite.uids)

\* handleOrgOrDeptEmployeeUpdate, action add; a row that exists and is not
\* deleted makes the insertion fail.
OrgEmployeeAdd(w, u) ==
  /\ group.kind = "org"
  /\ u \notin Live
  /\ Start(w, "employee", Admin, {u}, FALSE, <<Call("subscribe", {u})>>)

\* Inserts a row or recovers a deleted one, as it was read; a row that was
\* inserted meanwhile refuses the transaction (index group_no_uid).
JoinTx(w) ==
  LET r == request[w] IN
  /\ Ready(w, {"add", "scan", "sure", "employee"})
  /\ IF \E u \in r.to : r.rows[u].in = "never" /\ member[u].in # "never"
     THEN Refuse(w)
     ELSE /\ Commit(w, group, RecoverOrInsert(member, r.to), <<>>)
          /\ invite' = IF r.op = "sure" THEN [NoInvite EXCEPT !.status = "ok"]
                                        ELSE invite

-----------------------------------------------------------------------------
(***************************************************************************)
(* Leaving                                                                 *)
(***************************************************************************)
MemberRemove(w, by, to) ==
  /\ GroupFound
  /\ by \notin to
  /\ to \cap Live # {}
  /\ \/ IsGroupCreator(by)
     \/ /\ IsGroupManagerOrCreator(by)
        /\ \A u \in to \cap Live : member[u].role = "common"
  /\ Start(w, "remove", by, to, FALSE, <<>>)

\* removeMember of api_manager.go goes through memberRemove, which asks the
\* administrator for no role in the group.
AdminRemove(w, to) ==
  /\ GroupFound
  /\ to \cap Live # {}
  /\ Start(w, "remove", Admin, to, FALSE, <<>>)

MemberRemoveTx(w) ==
  LET r == request[w] IN
  /\ Ready(w, {"remove"})
  /\ Commit(w, group, DeleteMembers(member, r.to),
            <<Call("unsubscribe", r.to)>>)
  /\ UNCHANGED invite

\* Fault: the exit leaves the subscription to the event.
ExitKeepsSubscription(w, by) ==
  /\ GroupFound
  /\ Start(w, "exit", by, {}, FALSE, <<>>)

\* groupExit unsubscribes before it looks whether the user is a member.
GroupExit(w, by) ==
  /\ GroupFound
  /\ Start(w, "exit", by, {}, FALSE, <<Call("unsubscribe", {by})>>)

\* Fault: the owner leaves without a successor.
ExitWithoutSuccessor(w) ==
  /\ Ready(w, {"exit"})
  /\ IF request[w].by \notin Live
     THEN Refuse(w)
     ELSE /\ request' = [request EXCEPT ![w].op = "exiting"]
          /\ UNCHANGED <<group, member, channel, invite, spent>>

\* The member and, when the creator leaves, its successor: the member
\* that has been in the group for longest.
GroupExitRead(w) ==
  LET by == request[w].by IN
  /\ Ready(w, {"exit"})
  /\ IF by \notin Live
     THEN Refuse(w)
     ELSE /\ \E next \in SUBSET {u \in Live : member[u].role # "creator"} :
               /\ IF /\ IsGroupCreator(by)
                     /\ \E u \in Live : member[u].role # "creator"
                  THEN Cardinality(next) = 1 ELSE next = {}
               /\ request' = [request EXCEPT ![w].op = "exiting",
                                             ![w].to = next]
          /\ UNCHANGED <<group, member, channel, invite, spent>>

GroupExitTx(w) ==
  LET r == request[w] IN
  /\ Ready(w, {"exiting"})
  /\ Commit(w, group,
            DeleteMembers(SetRole(member, r.to, "creator"), {r.by}), <<>>)
  /\ UNCHANGED invite

\* handleOrgEmployeeExit and the action delete of
\* handleOrgOrDeptEmployeeUpdate: whatever role the employee has.
OrgEmployeeExit(w, u) ==
  /\ group.kind = "org"
  /\ Start(w, "remove", Admin, {u}, FALSE, <<>>)

-----------------------------------------------------------------------------
(***************************************************************************)
(* Roles                                                                   *)
(***************************************************************************)
ManagerAdd(w, by, to) ==
  /\ GroupFound
  /\ by \notin to
  /\ IsGroupCreator(by)
  /\ Start(w, "manager", by, to, TRUE, <<>>)

ManagerRemove(w, by, to) ==
  /\ GroupFound
  /\ by \notin to
  /\ IsGroupCreator(by)
  /\ Start(w, "manager", by, to, FALSE, <<>>)

\* One statement; then the whitelist follows when the group was muted.
ManagerTx(w) ==
  LET r == request[w] IN
  /\ Ready(w, {"manager"})
  /\ Commit(w, group,
            SetRole(member, r.to, IF r.on THEN "manager" ELSE "common"),
            IF r.group.forbidden THEN <<Call("managers", {})>> ELSE <<>>)
  /\ UNCHANGED invite

TransferGrouper(w, by, u) ==
  /\ GroupFound
  /\ u \in Live
  /\ IsGroupCreator(by)
  /\ Start(w, "transfer", by, {u}, member[u].muted, <<>>)

\* The old owner becomes a common member, the new one may write again.
TransferTx(w) ==
  LET r == request[w]
      rows == SetRole(SetRole(member, {r.by}, "common"), r.to, "creator")
  IN
  /\ Ready(w, {"transfer"})
  /\ Commit(w, group,
            [u \in Members |-> IF u \in r.to \cap Live
                               THEN [rows[u] EXCEPT !.muted = FALSE]
                               ELSE rows[u]],
            (IF r.group.forbidden THEN <<Call("managers", {})>> ELSE <<>>)
              \o (IF r.on THEN <<Call("unsilence", r.to)>> ELSE <<>>))
  /\ UNCHANGED invite

\* memberUpdate writes a remark, and with it the row as it was read.
MemberUpdate(w, by, u) ==
  /\ GroupFound
  /\ IsGroupManagerOrCreator(by) \/ by = u
  /\ u \in Live
  /\ Start(w, "remark", by, {u}, FALSE, <<>>)

-----------------------------------------------------------------------------
(***************************************************************************)
(* Silence                                                                 *)
(***************************************************************************)
\* Fault: lifting the mute sets the whitelist of the managers again.
ForbiddenKeepsWhitelist(w, by, on) ==
  /\ GroupFound
  /\ IsGroupManagerOrCreator(by)
  /\ Start(w, "forbid", by, {}, on, <<Call("whitelist", ManagersAndCreator)>>)

\* The whitelist first, then the row.
GroupForbidden(w, by, on) ==
  /\ GroupFound
  /\ IsGroupManagerOrCreator(by)
  /\ Start(w, "forbid", by, {}, on,
           <<Call("whitelist", IF on THEN ManagersAndCreator ELSE {})>>)

\* forbidden of api_manager.go, on every group that has a row.
AdminForbidden(w, on) ==
  /\ group.status # "none"
  /\ Start(w, "forbid", Admin, {}, on,
           <<Call("whitelist", IF on THEN ManagersAndCreator ELSE {})>>)

\* The setting forbidden: the row first, then the whitelist.
SettingForbidden(w, by, on) ==
  /\ GroupFound
  /\ IsGroupManagerOrCreator(by)
  /\ Start(w, "forbidSetting", by, {}, on, <<>>)

ForbiddenTx(w) ==
  LET r == request[w] IN
  /\ Ready(w, {"forbid", "forbidSetting"})
  /\ Commit(w, WriteBack([r.group EXCEPT !.forbidden = r.on]), member,
            IF r.op = "forbid" THEN <<>>
            ELSE IF r.on THEN <<Call("managers", {})>>
                 ELSE <<Call("whitelist", {})>>)
  /\ UNCHANGED invite

GroupUpdate(w, by, on) ==
  /\ GroupFound
  /\ IsGroupManagerOrCreator(by)
  /\ Start(w, "update", by, {}, on, <<>>)

\* groupSettingUpdate with another attribute.
SettingUpdate(w, by, on) ==
  /\ GroupFound
  /\ IsGroupManagerOrCreator(by)
  /\ Start(w, "update", by, {}, on, <<>>)

GroupUpdateTx(w) ==
  LET r == request[w] IN
  /\ Ready(w, {"update"})
  /\ Commit(w, WriteBack([r.group EXCEPT !.invite = r.on]), member, <<>>)
  /\ UNCHANGED invite

\* leftbangroup of api_manager.go works on every group that has a row.
LeftBanGroup(w, status) ==
  /\ group.status \notin {"none", status}
  /\ Start(w, status, Admin, {}, FALSE,
           <<Call(IF status = "disabled" THEN "ban" ELSE "unban", {})>>)

LeftBanGroupTx(w) ==
  LET r == request[w] IN
  /\ Ready(w, {"disabled", "normal"})
  /\ Commit(w, WriteBack([r.group EXCEPT !.status = r.op]), member, <<>>)
  /\ UNCHANGED invite

\* blacklist changes the status of the rows, deleted ones too.  Taking users
\* off needs one of them in the group to reach the IM server, and takes all
\* of them off there as soon as one is not muted.
Blacklist(w, by, to, on) ==
  /\ GroupFound
  /\ IsGroupManagerOrCreator(by)
  /\ Start(w, "blacklist", by, to, on, <<>>)

BlacklistTx(w) ==
  LET r == request[w] IN
  /\ Ready(w, {"blacklist"})
  /\ Commit(w, group,
            [u \in Members |-> IF u \in r.to /\ member[u].in # "never"
                               THEN [member[u] EXCEPT !.blocked = r.on]
                               ELSE member[u]],
            IF r.on THEN <<Call("silence", r.to)>>
            ELSE IF \E u \in r.to \cap Live : ~member[u].muted
                 THEN <<Call("unsilence", r.to)>> ELSE <<>>)
  /\ UNCHANGED invite

ForbiddenWithGroupMember(w, by, u, on) ==
  /\ GroupFound
  /\ by \in Live
  /\ u \in Live
  /\ member[by].role # "common"
  /\ member[u].role # "creator"
  /\ member[by].role # member[u].role
  /\ Start(w, "mute", by, {u}, on, <<>>)

\* CheckForbiddenLoop takes up a mute whose time is over, also of a user who
\* is no longer in the group.
CheckForbiddenLoop(w, u) ==
  /\ member[u].muted
  /\ Start(w, "muteOver", Admin, {u}, FALSE, <<>>)

\* The three handlers that save a member with UpdateMember.
UpdateMemberTx(w) ==
  LET r == request[w]
      u == CHOOSE v \in r.to : TRUE
      row == r.rows[u]
  IN
  /\ Ready(w, {"remark", "mute", "muteOver"})
  /\ Commit(w, group,
            UpdateMember(u, IF r.op = "remark" THEN row
                            ELSE [row EXCEPT !.muted = r.on]),
            CASE r.op = "remark" -> <<>>
              [] r.op = "mute" ->
                   <<Call(IF r.on THEN "silence" ELSE "unsilence", r.to)>>
              [] OTHER ->
                   IF row.blocked THEN <<>> ELSE <<Call("unsilence", r.to)>>)
  /\ UNCHANGED invite

-----------------------------------------------------------------------------
Transaction(w) ==
  \/ GroupCreateTx(w) \/ DisbandTx(w) \/ JoinTx(w) \/ MemberRemoveTx(w)
  \/ GroupExitRead(w) \/ GroupExitTx(w) \/ ManagerTx(w) \/ TransferTx(w)
  \/ ForbiddenTx(w) \/ GroupUpdateTx(w) \/ LeftBanGroupTx(w)
  \/ BlacklistTx(w) \/ UpdateMemberTx(w)

OfAdmin(w) ==
  \/ \E on \in BOOLEAN : AdminForbidden(w, on)
  \/ \E status \in {"disabled", "normal"} : LeftBanGroup(w, status)
  \/ \E to \in SUBSET Members : AdminRemove(w, to)
  \/ \E u \in Members : \/ OrgEmployeeAdd(w, u)
                        \/ OrgEmployeeExit(w, u)
                        \/ CheckForbiddenLoop(w, u)

OfMember(w, by) ==
  \/ SystemGroupCreate(w, by) \/ Disband(w, by) \/ GroupExit(w, by)
  \/ InviteSure(w, by)
  \/ \E u \in Members : \/ HandleRegisterUserEvent(w, by, u)
                        \/ GroupScanJoin(w, by, u)
                        \/ TransferGrouper(w, by, u)
                        \/ MemberUpdate(w, by, u)
  \/ \E to \in SUBSET Members \ {{}} :
       \/ GroupCreate(w, by, to)
       \/ HandleOrgOrDeptCreateEvent(w, by, to)
       \/ MemberAdd(w, by, to)
       \/ MemberRemove(w, by, to)
       \/ ManagerAdd(w, by, to)
       \/ ManagerRemove(w, by, to)
       \/ \E on \in BOOLEAN : Blacklist(w, by, to, on)
  \/ \E on \in BOOLEAN :
       \/ GroupForbidden(w, by, on)
       \/ SettingForbidden(w, by, on)
       \/ GroupUpdate(w, by, on)
       \/ SettingUpdate(w, by, on)
       \/ \E u \in Members : ForbiddenWithGroupMember(w, by, u, on)

GroupNext ==
  \/ \E w \in Requests :
       \/ OfAdmin(w)
       \/ \E by \in Members : OfMember(w, by)
       \/ Transaction(w) \/ ReadManagers(w) \/ CallIM(w) \/ Fail(w)
  \/ \E by \in Members, to \in SUBSET Members \ {{}} : InviteAdd(by, to)
  \/ \E ok \in BOOLEAN : HandleGroupDisbandEvent(ok)

GroupSpec == GroupInit /\ [][GroupNext]_groupVars

-----------------------------------------------------------------------------
(***************************************************************************)
(* Properties                                                              *)
(***************************************************************************)
RequestRow ==
  [pc : {"idle", "run", "after"},
   op : {"none", "disband", "add", "scan", "sure", "employee", "remove", "exit",
         "exiting", "manager", "transfer", "remark", "forbid", "forbidSetting",
         "update", "disabled", "normal", "blacklist", "mute", "muteOver"}
        \cup Kinds,
   by : Members \cup {Admin}, to : SUBSET Members, on : BOOLEAN,
   group : GroupRow, rows : [Members -> MemberRow], calls : Seq(IMCall)]

\* Every row, call and request has the fields the tables and the API give it.
GroupTypeOK ==
  /\ group \in GroupRow
  /\ member \in [Members -> MemberRow]
  /\ channel \in [exists : BOOLEAN, ban : BOOLEAN, subscribers : SUBSET Members,
                  white : SUBSET Members, black : SUBSET Members]
  /\ invite \in [status : {"none", "wait", "ok"}, by : Members \cup {Admin},
                 uids : SUBSET Members]
  /\ \A w \in Requests : request[w] \in RequestRow
  /\ spent \in [requests : 0..MaxRequests, faults : 0..MaxFaults]

\* Between two requests, none of which has failed half-way.
Clean == spent.faults = 0 /\ \A w \in Requests : request[w] = Idle

\* Those who receive the messages of a group are its members: joining,
\* removing, exiting, inviting and the events of an organisation keep the
\* subscribers of the channel and the rows of group_member together.
ReceiversAreMembers ==
  Clean /\ channel.exists => channel.subscribers = Live

\* Unless everybody is muted nobody is shut out by a whitelist, which bars
\* all who are not on it, whatever happened to managers and owner meanwhile.
OpenWhenAllowed == Clean /\ ~group.forbidden => channel.white = {}

OneOwner == Cardinality({u \in Members : IsGroupCreator(u)}) = 1

RemovedByAdmin ==
  \E w \in Requests : Ready(w, {"remove"}) /\ request[w].by = Admin

\* A group that users made has one owner from its creation until its last
\* member leaves, through transfers, exits and changes of managers ("if the
\* one who leaves is the owner, the second to have joined becomes the owner",
\* api.go:2385); only the administrator can take the owner away.
OwnerStays ==
  [][(group.status = "none" \/ OneOwner) /\ group'.status # "none"
       /\ group'.kind = "user" /\ ~RemovedByAdmin
       => OneOwner' \/ Live' = {}]_groupVars
=============================================================================
