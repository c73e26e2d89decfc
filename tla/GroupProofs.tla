---------------------------- MODULE GroupProofs ----------------------------
(***************************************************************************)
(* Theorems about Group for any members and any number of requests, where  *)
(* one request is worked on at a time and nothing fails; and about         *)
(* ChatRooms for any rooms and guests, where requests overlap and calls    *)
(* fail as they like.                                                      *)
(***************************************************************************)
EXTENDS Group, ChatRooms, SequenceTheorems, FiniteSetTheorems, TLAPS

-----------------------------------------------------------------------------
(***************************************************************************)
(* The rows of the members                                                 *)
(***************************************************************************)
RowsOK(rows) ==
  DOMAIN rows = Members /\ \A u \in Members : "in" \in DOMAIN rows[u]

LEMMA DeletedRows ==
  ASSUME NEW rows, RowsOK(rows), NEW us
  PROVE  /\ RowsOK(DeleteMembers(rows, us))
         /\ LiveIn(DeleteMembers(rows, us)) = LiveIn(rows) \ us
BY DEF RowsOK, DeleteMembers, LiveIn

LEMMA RoleRows ==
  ASSUME NEW rows, RowsOK(rows), NEW us, NEW role
  PROVE  /\ RowsOK(SetRole(rows, us, role))
         /\ LiveIn(SetRole(rows, us, role)) = LiveIn(rows)
BY DEF RowsOK, SetRole, LiveIn

LEMMA JoinedRows ==
  ASSUME NEW rows, RowsOK(rows), NEW us \in SUBSET Members
  PROVE  /\ RowsOK(RecoverOrInsert(rows, us))
         /\ LiveIn(RecoverOrInsert(rows, us)) = LiveIn(rows) \cup us
<1> DEFINE new == RecoverOrInsert(rows, us)
<1>1. DOMAIN new = Members
  BY DEF RecoverOrInsert
<1>2. ASSUME NEW u \in Members
      PROVE  /\ "in" \in DOMAIN new[u]
             /\ new[u].in = "live" <=> u \in us \/ rows[u].in = "live"
  <2>1. CASE u \notin us
    BY <2>1 DEF RecoverOrInsert, RowsOK
  <2>2. CASE u \in us /\ rows[u].in = "never"
    BY <2>2 DEF RecoverOrInsert, NewMember
  <2>3. CASE u \in us /\ rows[u].in # "never"
    <3> DEFINE r == [rows[u] EXCEPT !.in = "live"]
               s == [r EXCEPT !.role = "common"]
    <3>1. new[u] = s
      BY <2>3 DEF RecoverOrInsert
    <3>2. "in" \in DOMAIN r /\ r.in = "live"
      BY DEF RowsOK
    <3> HIDE DEF r
    <3>3. "in" \in DOMAIN s /\ s.in = "live"
      BY <3>2
    <3>4. QED BY <2>3, <3>1, <3>3
  <2>4. QED BY <2>1, <2>2, <2>3
<1> HIDE DEF new
<1>3. RowsOK(new) /\ LiveIn(new) = LiveIn(rows) \cup us
  BY <1>1, <1>2 DEF RowsOK, LiveIn
<1>4. QED BY <1>3 DEF new

\* Other fields of the rows may change.
LEMMA SameLive ==
  ASSUME NEW rows, NEW new, RowsOK(rows), DOMAIN new = Members,
         \A u \in Members : "in" \in DOMAIN new[u] /\ new[u].in = rows[u].in
  PROVE  RowsOK(new) /\ LiveIn(new) = LiveIn(rows)
BY DEF RowsOK, LiveIn

LEMMA Sequences1 ==
  ASSUME NEW x
  PROVE  <<x>> # <<>> /\ Head(<<x>>) = x /\ Tail(<<x>>) = <<>> /\ Len(<<x>>) = 1
OBVIOUS

LEMMA Sequences2 ==
  ASSUME NEW x, NEW y, NEW z
  PROVE  /\ <<x, y>> # <<>> /\ Head(<<x, y>>) = x /\ Tail(<<x, y>>) = <<y>>
         /\ Len(<<x, y>>) = 2
         /\ <<z>> \o Tail(<<x, y>>) = <<z, y>> /\ <<z>> \o Tail(<<x>>) = <<z>>
         /\ <<>> \o <<z>> = <<z>> /\ <<z>> \o <<>> = <<z>> /\ <<x>> \o <<y>> = <<x, y>>
         /\ <<>> \o <<>> = <<>>
<1>1. <<x, y>> # <<>> /\ Head(<<x, y>>) = x /\ Len(<<x, y>>) = 2
  OBVIOUS
<1>2. Tail(<<x, y>>) = <<y>>
  OBVIOUS
<1>3. Tail(<<x>>) = <<>>
  OBVIOUS
<1>4. \A v, w : <<v>> \o <<w>> = <<v, w>>
  <2>1. SUFFICES ASSUME NEW v, NEW w PROVE <<v>> \o <<w>> = <<v, w>>
    OBVIOUS
  <2>2. <<v>> \in Seq({v, w}) /\ <<w>> \in Seq({v, w}) /\ <<v, w>> \in Seq({v, w})
    OBVIOUS
  <2>3. Len(<<v>> \o <<w>>) = 2 /\ <<v>> \o <<w>> \in Seq({v, w})
    BY <2>2, ConcatProperties
  <2>4. (<<v>> \o <<w>>)[1] = v /\ (<<v>> \o <<w>>)[2] = w
    BY <2>2, ConcatProperties
  <2>5. Len(<<v, w>>) = 2 /\ <<v, w>>[1] = v /\ <<v, w>>[2] = w
    OBVIOUS
  <2>6. \A i \in 1 .. Len(<<v>> \o <<w>>) : (<<v>> \o <<w>>)[i] = <<v, w>>[i]
    BY <2>3, <2>4, <2>5
  <2>7. QED BY <2>2, <2>3, <2>5, <2>6, SeqEqual
<1>5. <<>> \o <<z>> = <<z>>
  OBVIOUS
<1>6. <<z>> \o <<>> = <<z>>
  OBVIOUS
<1>7. <<>> \o <<>> = <<>>
  OBVIOUS
<1>8. QED BY <1>1, <1>2, <1>3, <1>4, <1>5, <1>6, <1>7

LEMMA HeadSwapped ==
  ASSUME NEW x, NEW y, NEW z
  PROVE  <<z>> \o Tail(<<x, y>>) = <<z, y>> /\ <<z>> \o Tail(<<x>>) = <<z>>
<1>1. Tail(<<x, y>>) = <<y>> /\ Tail(<<x>>) = <<>>
  OBVIOUS
<1>2. <<z>> \o <<y>> = <<z, y>> /\ <<z>> \o <<>> = <<z>>
  <2>1. \A a, b : <<a>> \o <<b>> = <<a, b>> /\ <<a>> \o <<>> = <<a>>
    BY Sequences2
  <2>2. QED BY <2>1
<1>3. QED BY <1>1, <1>2, Zenon

-----------------------------------------------------------------------------
(***************************************************************************)
(* The inductive invariant                                                 *)
(***************************************************************************)
RequestFields == {"pc", "op", "by", "to", "on", "group", "rows", "calls"}
GroupFields == {"status", "kind", "forbidden", "invite", "event"}
ChannelFields == {"exists", "ban", "subscribers", "white", "black"}
Joins == {"add", "scan", "sure", "employee"}
Exits == {"exit", "exiting"}
Mutes == {"forbid", "forbidSetting"}

\* Between two requests.
Rest == /\ channel.exists => channel.subscribers = Live
        /\ ~group.forbidden => channel.white = {}

\* The calls before the transaction.
Before(op, by, to, on, calls) ==
  \/ op \in Kinds /\ calls = <<Call("create", to \cup {by})>>
  \/ op \in Joins /\ calls = <<Call("subscribe", to)>>
  \/ op = "exit" /\ calls = <<Call("unsubscribe", {by})>>
  \/ op = "forbid" /\ \E us : calls = <<Call("whitelist", us)>> /\ (~on => us = {})
  \/ op \in {"disabled", "normal"} /\ \E do \in {"ban", "unban"} : calls = <<Call(do, {})>>

\* The calls after it.
Whites == {"managers", "whitelist"}
Voices == {"silence", "unsilence"}
Behind(op, to, muted, calls) ==
  \/ op = "remove" /\ calls = <<Call("unsubscribe", to)>>
  \/ op = "forbidSetting" /\ ~muted /\ calls = <<Call("whitelist", {})>>
  \/ /\ op \in {"manager", "transfer", "forbidSetting"} /\ muted
     /\ \E us : \E do \in Whites :
          \/ calls = <<Call(do, us)>>
          \/ op = "transfer" /\ calls = <<Call(do, us), Call("unsilence", to)>>
  \/ op \in {"transfer", "blacklist", "mute", "muteOver"}
     /\ \E do \in Voices : calls = <<Call(do, to)>>

\* What a request knows; nobody has come between its reads and its transaction.
Knows(r) ==
  /\ r.to \in SUBSET Members
  /\ r.op \in Kinds => r.by \in Members
  /\ r.op \in Mutes => group.status # "none"
  /\ r.pc = "run" => /\ r.rows = member /\ DOMAIN r.group = GroupFields
                     /\ r.group.status = group.status
                     /\ r.group.forbidden = group.forbidden
                     /\ r.calls = <<>> \/ Before(r.op, r.by, r.to, r.on, r.calls)
  /\ r.pc = "after" => Behind(r.op, r.to, group.forbidden, r.calls)

Ahead(r) == r.pc = "run" /\ r.calls = <<>>
Removes(r) == r.pc = "after" /\ r.op = "remove"

\* The subscribers and the whitelist in the midst of a request.
SubsRight(r) ==
  channel.exists =>
    /\ Ahead(r) /\ r.op \in Kinds => channel.subscribers = r.to \cup {r.by}
    /\ Ahead(r) /\ r.op \in Joins => channel.subscribers = Live \cup r.to
    /\ Ahead(r) /\ r.op \in Exits => channel.subscribers = Live \ {r.by}
    /\ Removes(r) => channel.subscribers \ r.to = Live
    /\ r.op \notin Kinds /\ ~Removes(r) /\ ~(Ahead(r) /\ r.op \in Joins \cup Exits)
         => channel.subscribers = Live

WhiteRight(r) ==
  /\ Ahead(r) /\ r.op = "forbid" => (~r.on => channel.white = {})
  /\ ~(Ahead(r) /\ r.op = "forbid") /\ ~(r.pc = "after" /\ r.op = "forbidSetting")
       => (~group.forbidden => channel.white = {})

Right(r) ==
  /\ DOMAIN r = RequestFields
  /\ \/ r = Idle /\ Rest
     \/ r.pc \in {"run", "after"} /\ Knows(r) /\ SubsRight(r) /\ WhiteRight(r)

Globals ==
  /\ DOMAIN channel = ChannelFields /\ DOMAIN group = GroupFields
  /\ RowsOK(member) /\ invite.uids \in SUBSET Members
  /\ group.status = "none" => ~group.forbidden

\* One request at a time.
Sound ==
  /\ Globals
  /\ DOMAIN request = Requests
  /\ \A v, w \in Requests : v # w => request[v] = Idle \/ request[w] = Idle
  /\ \A w \in Requests : (\A v \in Requests \ {w} : request[v] = Idle) => Right(request[w])
  /\ (\A w \in Requests : request[w] = Idle) => Rest

GroupInv ==
  /\ DOMAIN spent = {"requests", "faults"} /\ spent.faults \in Nat
  /\ spent.faults = 0 => Sound

LEMMA IdleIs == DOMAIN Idle = RequestFields /\ Idle.pc = "idle"
BY DEF Idle, RequestFields

\* The request w becomes r while the others rest.
LEMMA SoundKept ==
  ASSUME Sound, NEW w \in Requests, NEW r, request' = [request EXCEPT ![w] = r],
         \A v \in Requests \ {w} : request[v] = Idle, Globals', Right(r)'
  PROVE  Sound'
<1>1. /\ DOMAIN request' = Requests /\ request'[w] = r
      /\ \A v \in Requests \ {w} : request'[v] = Idle
  BY DEF Sound
<1>2. ASSUME NEW x \in Requests, \A v \in Requests \ {x} : request'[v] = Idle
      PROVE  Right(request[x])'
  <2>1. CASE x = w
    BY <1>1, <2>1 DEF Right
  <2>2. CASE x # w
    <3>1. r = Idle /\ request'[x] = Idle
      BY <1>1, <1>2, <2>2
    <3>2. Rest'
      BY <3>1, IdleIs DEF Right
    <3>3. QED BY <3>1, <3>2, IdleIs DEF Right
  <2>3. QED BY <2>1, <2>2
<1>3. (\A x \in Requests : request'[x] = Idle) => Rest'
  BY <1>1, IdleIs DEF Right
<1>4. \A v, x \in Requests : v # x => request'[v] = Idle \/ request'[x] = Idle
  BY <1>1
<1>5. QED BY <1>1, <1>2, <1>3, <1>4 DEF Sound

\* A request that is being worked on has the others rest.
LEMMA ActiveIs ==
  ASSUME Sound, NEW w \in Requests, request[w].pc # "idle"
  PROVE  /\ \A v \in Requests \ {w} : request[v] = Idle
         /\ DOMAIN request[w] = RequestFields /\ request[w].pc \in {"run", "after"}
         /\ Knows(request[w]) /\ SubsRight(request[w]) /\ WhiteRight(request[w])
<1>1. request[w] # Idle
  BY IdleIs
<1>2. \A v \in Requests \ {w} : request[v] = Idle
  BY <1>1 DEF Sound
<1>3. Right(request[w])
  BY <1>2 DEF Sound
<1>4. QED BY <1>1, <1>2, <1>3 DEF Right
LEMMA RestingIs ==
  ASSUME Sound, ~Overlap, NEW w \in Requests, Free(w)
  PROVE  (\A v \in Requests : request[v] = Idle) /\ Rest
<1>1. \A v \in Requests : request[v].pc = "idle"
  BY DEF Free
<1>2. ASSUME NEW v \in Requests PROVE request[v] = Idle
  BY <1>1, <1>2, ActiveIs DEF Sound, Right
<1>3. QED BY <1>2 DEF Sound

-----------------------------------------------------------------------------
(***************************************************************************)
(* The phases of a request                                                 *)
(***************************************************************************)
Counted == spent' = [spent EXCEPT !.requests = spent.requests + 1]

LEMMA StartKept ==
  ASSUME Sound, ~Overlap, NEW w \in Requests, NEW op, NEW by, NEW to \in SUBSET Members,
         NEW on, NEW calls, Start(w, op, by, to, on, calls),
         op \in Kinds => by \in Members,
         op \in Mutes => group.status # "none",
         \/ calls = <<>> /\ op \notin Kinds \cup Joins \cup Exits \cup {"forbid"}
         \/ Before(op, by, to, on, calls)
  PROVE  Sound' /\ Counted
<1>0. PICK r : r = [pc |-> "run", op |-> op, by |-> by, to |-> to, on |-> on,
                    group |-> group, rows |-> member, calls |-> calls]
  OBVIOUS
<1>1. (\A v \in Requests : request[v] = Idle) /\ Rest
  BY RestingIs DEF Start
<1>2. /\ request' = [request EXCEPT ![w] = r] /\ group' = group /\ member' = member
      /\ channel' = channel /\ invite' = invite
  BY <1>0 DEF Start
<1>3. /\ DOMAIN r = RequestFields /\ r.pc = "run" /\ r.op = op /\ r.by = by /\ r.to = to
      /\ r.on = on /\ r.group = group /\ r.rows = member /\ r.calls = calls
  BY <1>0 DEF RequestFields
<1>4. Knows(r)'
  BY <1>2, <1>3 DEF Knows, Sound, Globals
<1>5. Globals'
  BY <1>2 DEF Sound, Globals
<1>6. calls = <<>> => op \notin Kinds \cup Joins \cup Exits \cup {"forbid"}
  BY Sequences1 DEF Before
<1>7. Live' = Live
  BY <1>2 DEF Live
<1>8. op \notin Kinds => ~(Ahead(r) /\ r.op \in Joins \cup Exits)
  BY <1>3, <1>6 DEF Ahead
<1>9. SubsRight(r)'
  BY <1>1, <1>2, <1>3, <1>6, <1>7 DEF SubsRight, Rest, Ahead, Removes
<1>10. WhiteRight(r)'
  BY <1>1, <1>2, <1>3, <1>6 DEF WhiteRight, Rest, Ahead
<1>11. Counted
  BY DEF Start, Counted
<1>12. QED BY <1>1, <1>2, <1>3, <1>4, <1>5, <1>9, <1>10, <1>11, SoundKept DEF Right

\* The request ends where it is to leave things at rest.
LEMMA EndKept ==
  ASSUME Sound, NEW w \in Requests, request[w].pc # "idle",
         request' = [request EXCEPT ![w] = Idle], Globals', Rest'
  PROVE  Sound'
BY ActiveIs, IdleIs, SoundKept DEF Right

LEMMA CommitIs ==
  ASSUME Sound, NEW w \in Requests, request[w].pc # "idle",
         NEW g, NEW rows, NEW calls, Commit(w, g, rows, calls),
         DOMAIN g = GroupFields, RowsOK(rows), g.status = "none" => ~g.forbidden,
         invite'.uids \in SUBSET Members,
         channel.exists =>
           \/ calls # <<>> /\ request[w].op = "remove"
                /\ channel.subscribers \ request[w].to = LiveIn(rows)
           \/ calls # <<>> /\ request[w].op \notin {"remove"} \cup Kinds
                /\ channel.subscribers = LiveIn(rows)
           \/ calls = <<>> /\ channel.subscribers = LiveIn(rows),
         \/ ~g.forbidden => channel.white = {}
         \/ calls # <<>> /\ request[w].op = "forbidSetting",
         request[w].op \in Mutes => g.status # "none",
         calls = <<>> \/ Behind(request[w].op, request[w].to, g.forbidden, calls),
         calls # <<>> => request[w].op \notin Kinds
  PROVE  Sound'
<1>1. /\ group' = g /\ member' = rows /\ channel' = channel
  BY DEF Commit
<1>2. Globals' /\ Live' = LiveIn(rows)
  BY <1>1 DEF Sound, Globals, Live
<1>3. CASE calls = <<>>
  <2>1. request' = [request EXCEPT ![w] = Idle]
    BY <1>3 DEF Commit
  <2>2. Rest'
    BY <1>1, <1>2, <1>3 DEF Rest
  <2>3. QED BY <1>2, <2>1, <2>2, EndKept
<1>4. CASE calls # <<>>
  <2>q. PICK q : q = [request[w] EXCEPT !.pc = "after"]
    OBVIOUS
  <2>r. PICK r : r = [q EXCEPT !.calls = calls]
    OBVIOUS
  <2>1. request' = [request EXCEPT ![w] = r]
    BY <1>4, <2>q, <2>r DEF Commit
  <2>2. DOMAIN request[w] = RequestFields /\ Knows(request[w])
        /\ \A v \in Requests \ {w} : request[v] = Idle
    BY ActiveIs
  <2>3. /\ DOMAIN q = RequestFields /\ q.pc = "after" /\ q.op = request[w].op
        /\ q.by = request[w].by /\ q.to = request[w].to
    BY <2>q, <2>2 DEF RequestFields
  <2>4. /\ DOMAIN r = RequestFields /\ r.pc = "after" /\ r.op = request[w].op
        /\ r.by = request[w].by /\ r.to = request[w].to /\ r.calls = calls
    BY <2>r, <2>3 DEF RequestFields
  <2>5. Knows(r)'
    BY <1>1, <1>4, <2>2, <2>4 DEF Knows
  <2>6. SubsRight(r)'
    BY <1>1, <1>2, <1>4, <2>4 DEF SubsRight, Ahead, Removes
  <2>7. WhiteRight(r)'
    BY <1>1, <1>4, <2>4 DEF WhiteRight, Ahead
  <2>8. QED BY <1>2, <2>1, <2>2, <2>4, <2>5, <2>6, <2>7, SoundKept DEF Right
<1>5. QED BY <1>3, <1>4

-----------------------------------------------------------------------------
(***************************************************************************)
(* The calls of the IM server                                              *)
(***************************************************************************)
Same(ch, fields) == DOMAIN ch = ChannelFields /\ \A f \in fields : ch[f] = channel[f]

LEMMA ApplyIs ==
  ASSUME DOMAIN channel = ChannelFields, NEW us
  PROVE  /\ Same(Apply(Call("create", us)), {"white"})
         /\ Apply(Call("create", us)).subscribers = us
         /\ Same(Apply(Call("subscribe", us)), {"exists", "white"})
         /\ Apply(Call("subscribe", us)).subscribers = channel.subscribers \cup us
         /\ Same(Apply(Call("unsubscribe", us)), {"exists", "white"})
         /\ Apply(Call("unsubscribe", us)).subscribers = channel.subscribers \ us
         /\ Same(Apply(Call("whitelist", us)), {"exists", "subscribers"})
         /\ Apply(Call("whitelist", us)).white = us
         /\ \A do \in {"silence", "unsilence", "ban", "unban"} :
              Same(Apply(Call(do, us)), {"exists", "subscribers", "white"})
<1>1. \A do : Call(do, us).do = do /\ Call(do, us).uids = us
  BY DEF Call
<1>2. Apply(Call("create", us)) =
        [channel EXCEPT !.exists = TRUE, !.subscribers = Call("create", us).uids]
  <2>1. SUFFICES ASSUME NEW c, c.do = "create"
        PROVE  Apply(c) = [channel EXCEPT !.exists = TRUE, !.subscribers = c.uids]
    BY <1>1, Zenon
  <2>2. PICK e : e = [channel EXCEPT !.exists = TRUE, !.subscribers = c.uids]
    BY Zenon
  <2>3. Apply(c) = e
    BY <2>1, <2>2, SMT DEF Apply
  <2>4. QED BY <2>2, <2>3, Zenon
<1>3. /\ Same(Apply(Call("create", us)), {"white"})
      /\ Apply(Call("create", us)).subscribers = us
  <2> DEFINE a == [channel EXCEPT !.exists = TRUE]
             b == [a EXCEPT !.subscribers = Call("create", us).uids]
  <2>1. Apply(Call("create", us)) = b
    BY <1>2
  <2>2. DOMAIN a = ChannelFields /\ a.white = channel.white
    BY DEF ChannelFields
  <2> HIDE DEF a
  <2>3. DOMAIN b = ChannelFields /\ b.white = channel.white /\ b.subscribers = us
    BY <1>1, <2>2 DEF ChannelFields
  <2> HIDE DEF b
  <2>4. QED BY <2>1, <2>3 DEF Same
<1>4. /\ Same(Apply(Call("subscribe", us)), {"exists", "white"})
      /\ Apply(Call("subscribe", us)).subscribers = channel.subscribers \cup us
  BY <1>1 DEF Apply, Same, ChannelFields
<1>5. /\ Same(Apply(Call("unsubscribe", us)), {"exists", "white"})
      /\ Apply(Call("unsubscribe", us)).subscribers = channel.subscribers \ us
  BY <1>1 DEF Apply, Same, ChannelFields
<1>6. /\ Same(Apply(Call("whitelist", us)), {"exists", "subscribers"})
      /\ Apply(Call("whitelist", us)).white = us
  BY <1>1 DEF Apply, Same, ChannelFields
<1>7. /\ Same(Apply(Call("silence", us)), {"exists", "subscribers", "white"})
      /\ Same(Apply(Call("unsilence", us)), {"exists", "subscribers", "white"})
  BY <1>1 DEF Apply, Same, ChannelFields
<1>8. /\ Same(Apply(Call("ban", us)), {"exists", "subscribers", "white"})
      /\ Same(Apply(Call("unban", us)), {"exists", "subscribers", "white"})
  BY <1>1 DEF Apply, Same, ChannelFields
<1>9. QED BY <1>3, <1>4, <1>5, <1>6, <1>7, <1>8

LEMMA CallerIs ==
  ASSUME Sound, NEW w \in Requests, request[w].calls # <<>>
  PROVE  request[w].pc # "idle"
BY DEF Sound, Right, Knows, Idle, SubsRight

LEMMA CallBefore ==
  ASSUME Sound, NEW w \in Requests, request[w].pc = "run", CallIM(w)
  PROVE  Sound'
<1> PICK p : p = request[w]
  OBVIOUS
<1>1. /\ \A v \in Requests \ {w} : request[v] = Idle
      /\ DOMAIN p = RequestFields /\ p.pc = "run"
      /\ Knows(p) /\ SubsRight(p) /\ WhiteRight(p)
  BY ActiveIs
<1>2. /\ Before(p.op, p.by, p.to, p.on, p.calls) /\ p.calls # <<>>
      /\ channel' = Apply(Head(p.calls))
      /\ group' = group /\ member' = member /\ invite' = invite
  BY <1>1 DEF CallIM, Knows
<1>3. PICK r : r = [p EXCEPT !.calls = Tail(p.calls)]
  OBVIOUS
<1>4. request' = [request EXCEPT ![w] = r]
  BY <1>1, <1>3 DEF CallIM
<1>5. PICK c : p.calls = <<c>>
  BY <1>2 DEF Before
<1>6. channel' = Apply(c) /\ Tail(p.calls) = <<>>
  BY <1>2, <1>5, Sequences1
<1>7. /\ DOMAIN r = RequestFields /\ r.pc = "run" /\ r.op = p.op /\ r.by = p.by
      /\ r.to = p.to /\ r.on = p.on /\ r.group = p.group /\ r.rows = p.rows
      /\ r.calls = <<>>
  BY <1>1, <1>3, <1>6 DEF RequestFields
<1>8. Knows(r)'
  BY <1>1, <1>2, <1>7 DEF Knows
<1>9. Live' = Live
  BY <1>2 DEF Live
<1>10. DOMAIN channel = ChannelFields
  BY DEF Sound, Globals
<1>11. ~Ahead(p) /\ ~Removes(p) /\ Ahead(r) /\ ~Removes(r)
  BY <1>1, <1>2, <1>7 DEF Ahead, Removes
<1>12. /\ \A x, y : <<x>> = <<y>> => x = y
  OBVIOUS
<1>13. DOMAIN channel' = ChannelFields /\ SubsRight(r)' /\ WhiteRight(r)'
  <2>1. CASE p.op \in Kinds /\ c = Call("create", p.to \cup {p.by})
    <3>1. DOMAIN channel' = ChannelFields /\ channel'.white = channel.white
      BY <1>6, <1>10, <2>1, ApplyIs DEF Same
    <3>2. channel'.subscribers = p.to \cup {p.by}
      BY <1>6, <1>10, <2>1, ApplyIs DEF Same
    <3>3. SubsRight(r)'
      BY <1>1, <1>7, <1>9, <1>11, <2>1, <3>2
         DEF SubsRight, Ahead, Removes, Kinds, Joins, Exits
    <3>4. WhiteRight(r)'
      BY <1>1, <1>2, <1>7, <1>11, <2>1, <3>1 DEF WhiteRight, Ahead, Kinds, Joins
    <3>5. QED BY <3>1, <3>3, <3>4
  <2>2. CASE p.op \in Joins /\ c = Call("subscribe", p.to)
    <3>1. DOMAIN channel' = ChannelFields /\ channel'.white = channel.white
      BY <1>6, <1>10, <2>2, ApplyIs DEF Same
    <3>2. channel'.exists = channel.exists /\ channel'.subscribers = channel.subscribers \cup p.to
      BY <1>6, <1>10, <2>2, ApplyIs DEF Same
    <3>3. SubsRight(r)'
      BY <1>1, <1>7, <1>9, <1>11, <2>2, <3>2
         DEF SubsRight, Ahead, Removes, Kinds, Joins, Exits
    <3>4. WhiteRight(r)'
      BY <1>1, <1>2, <1>7, <1>11, <2>2, <3>1 DEF WhiteRight, Ahead, Kinds, Joins
    <3>5. QED BY <3>1, <3>3, <3>4
  <2>3. CASE p.op = "exit" /\ c = Call("unsubscribe", {p.by})
    <3>1. DOMAIN channel' = ChannelFields /\ channel'.white = channel.white
      BY <1>6, <1>10, <2>3, ApplyIs DEF Same
    <3>2. channel'.exists = channel.exists /\ channel'.subscribers = channel.subscribers \ {p.by}
      BY <1>6, <1>10, <2>3, ApplyIs DEF Same
    <3>3. SubsRight(r)'
      BY <1>1, <1>7, <1>9, <1>11, <2>3, <3>2
         DEF SubsRight, Ahead, Removes, Kinds, Joins, Exits
    <3>4. WhiteRight(r)'
      BY <1>1, <1>2, <1>7, <1>11, <2>3, <3>1 DEF WhiteRight, Ahead, Kinds, Joins
    <3>5. QED BY <3>1, <3>3, <3>4
  <2>4. CASE p.op = "forbid" /\ \E us : c = Call("whitelist", us) /\ (~p.on => us = {})
    <3>1. DOMAIN channel' = ChannelFields /\ (~p.on => channel'.white = {})
      BY <1>6, <1>10, <2>4, ApplyIs DEF Same
    <3>2. channel'.exists = channel.exists /\ channel'.subscribers = channel.subscribers
      BY <1>6, <1>10, <2>4, ApplyIs DEF Same
    <3>3. SubsRight(r)'
      BY <1>1, <1>7, <1>9, <1>11, <2>4, <3>2
         DEF SubsRight, Ahead, Removes, Kinds, Joins, Exits
    <3>4. WhiteRight(r)'
      BY <1>1, <1>2, <1>7, <1>11, <2>4, <3>1 DEF WhiteRight, Ahead, Kinds, Joins
    <3>5. QED BY <3>1, <3>3, <3>4
  <2>5. CASE p.op \in {"disabled", "normal"} /\ \E do \in {"ban", "unban"} : c = Call(do, {})
    <3>1. DOMAIN channel' = ChannelFields /\ channel'.white = channel.white
      BY <1>6, <1>10, <2>5, ApplyIs DEF Same
    <3>2. channel'.exists = channel.exists /\ channel'.subscribers = channel.subscribers
      BY <1>6, <1>10, <2>5, ApplyIs DEF Same
    <3>3. SubsRight(r)'
      BY <1>1, <1>7, <1>9, <1>11, <2>5, <3>2
         DEF SubsRight, Ahead, Removes, Kinds, Joins, Exits
    <3>4. WhiteRight(r)'
      BY <1>1, <1>2, <1>7, <1>11, <2>5, <3>1 DEF WhiteRight, Ahead, Kinds, Joins
    <3>5. QED BY <3>1, <3>3, <3>4
  <2>6. QED BY <1>2, <1>5, <1>12, <2>1, <2>2, <2>3, <2>4, <2>5 DEF Before
<1>14. Globals'
  BY <1>2, <1>13 DEF Sound, Globals
<1>15. QED BY <1>1, <1>4, <1>7, <1>8, <1>13, <1>14, SoundKept DEF Right

LEMMA CallAfter ==
  ASSUME Sound, NEW w \in Requests, request[w].pc = "after", CallIM(w)
  PROVE  Sound'
<1> PICK p : p = request[w]
  OBVIOUS
<1>1. /\ \A v \in Requests \ {w} : request[v] = Idle
      /\ DOMAIN p = RequestFields /\ p.pc = "after"
      /\ Knows(p) /\ SubsRight(p) /\ WhiteRight(p)
  BY ActiveIs
<1>2. /\ Behind(p.op, p.to, group.forbidden, p.calls) /\ p.calls # <<>>
      /\ channel' = Apply(Head(p.calls)) /\ Head(p.calls).do # "managers"
      /\ group' = group /\ member' = member /\ invite' = invite
  BY <1>1 DEF CallIM, Knows
<1>3. Live' = Live
  BY <1>2 DEF Live
<1>4. DOMAIN channel = ChannelFields
  BY DEF Sound, Globals
<1>5. \A do, us : Call(do, us).do = do
  BY DEF Call
<1>6. ~Ahead(p)
  BY <1>1 DEF Ahead
<1>7. /\ p.op # "remove" => (channel.exists => channel.subscribers = Live)
      /\ p.op # "forbidSetting" => (~group.forbidden => channel.white = {})
  <2>1. p.op \notin Kinds
    BY <1>2 DEF Behind, Kinds
  <2>2. p.op # "remove" => ~Removes(p)
    BY DEF Removes
  <2>3. QED BY <1>1, <1>6, <2>1, <2>2 DEF SubsRight, WhiteRight, Removes
<1>8. ASSUME NEW c, p.calls = <<c>>, DOMAIN channel' = ChannelFields, Rest' PROVE Sound'
  <2>1. Len(p.calls) = 1
    BY <1>8
  <2>2. request' = [request EXCEPT ![w] = Idle]
    BY <1>1, <2>1 DEF CallIM
  <2>3. Globals'
    BY <1>2, <1>8 DEF Sound, Globals
  <2>4. QED BY <1>1, <1>8, <2>2, <2>3, EndKept
<1>9. CASE p.op = "remove" /\ p.calls = <<Call("unsubscribe", p.to)>>
  <2>1. channel' = Apply(Call("unsubscribe", p.to))
    BY <1>2, <1>9, Sequences1
  <2>2. /\ DOMAIN channel' = ChannelFields /\ channel'.exists = channel.exists
        /\ channel'.white = channel.white
        /\ channel'.subscribers = channel.subscribers \ p.to
    BY <1>4, <2>1, ApplyIs DEF Same
  <2>3. channel.exists => channel.subscribers \ p.to = Live
    BY <1>1, <1>9 DEF SubsRight, Removes
  <2>4. Rest'
    BY <1>2, <1>3, <1>7, <1>9, <2>2, <2>3 DEF Rest
  <2>5. QED BY <1>8, <1>9, <2>2, <2>4
<1>10. CASE p.op = "forbidSetting" /\ ~group.forbidden /\ p.calls = <<Call("whitelist", {})>>
  <2>1. channel' = Apply(Call("whitelist", {}))
    BY <1>2, <1>10, Sequences1
  <2>2. /\ DOMAIN channel' = ChannelFields /\ channel'.exists = channel.exists
        /\ channel'.white = {} /\ channel'.subscribers = channel.subscribers
    BY <1>4, <2>1, ApplyIs DEF Same
  <2>3. Rest'
    BY <1>2, <1>3, <1>7, <1>10, <2>2 DEF Rest
  <2>4. QED BY <1>8, <1>10, <2>2, <2>3
<1>11. ASSUME p.op \in {"manager", "transfer", "forbidSetting"}, group.forbidden,
              NEW us, NEW do \in Whites, Head(p.calls) = Call(do, us)
       PROVE  /\ DOMAIN channel' = ChannelFields /\ channel'.exists = channel.exists
              /\ channel'.subscribers = channel.subscribers /\ Rest'
  <2>1. do = "whitelist"
    BY <1>2, <1>5, <1>11 DEF Whites
  <2>2. /\ DOMAIN channel' = ChannelFields /\ channel'.exists = channel.exists
        /\ channel'.subscribers = channel.subscribers
    BY <1>2, <1>4, <1>11, <2>1, ApplyIs DEF Same
  <2>3. Rest'
    BY <1>2, <1>3, <1>7, <1>11, <2>2 DEF Rest
  <2>4. QED BY <2>2, <2>3
<1>12. CASE /\ p.op \in {"manager", "transfer", "forbidSetting"} /\ group.forbidden
            /\ \E us : \E do \in Whites : p.calls = <<Call(do, us)>>
  <2>1. PICK us : \E do \in Whites : p.calls = <<Call(do, us)>>
    BY <1>12
  <2>2. PICK do \in Whites : p.calls = <<Call(do, us)>>
    BY <2>1
  <2>3. Head(p.calls) = Call(do, us)
    BY <2>2, Sequences1
  <2>4. QED BY <1>8, <1>11, <1>12, <2>2, <2>3
<1>13. CASE /\ p.op = "transfer" /\ group.forbidden
            /\ \E us : \E do \in Whites : p.calls = <<Call(do, us), Call("unsilence", p.to)>>
  <2>1. PICK us : \E do \in Whites : p.calls = <<Call(do, us), Call("unsilence", p.to)>>
    BY <1>13
  <2>2. PICK do \in Whites : p.calls = <<Call(do, us), Call("unsilence", p.to)>>
    BY <2>1
  <2>3. /\ Head(p.calls) = Call(do, us) /\ Len(p.calls) # 1
        /\ Tail(p.calls) = <<Call("unsilence", p.to)>>
    BY <2>2, Sequences2
  <2>4. /\ DOMAIN channel' = ChannelFields /\ channel'.exists = channel.exists
        /\ channel'.subscribers = channel.subscribers /\ Rest'
    BY <1>11, <1>13, <2>3
  <2>5. PICK r : r = [p EXCEPT !.calls = Tail(p.calls)]
    OBVIOUS
  <2>6. request' = [request EXCEPT ![w] = r]
    BY <2>3, <2>5 DEF CallIM
  <2>7. /\ DOMAIN r = RequestFields /\ r.pc = "after" /\ r.op = "transfer"
        /\ r.to = p.to /\ r.calls = <<Call("unsilence", p.to)>>
    BY <1>1, <1>13, <2>3, <2>5 DEF RequestFields
  <2>8. Behind(r.op, r.to, group'.forbidden, r.calls)
    BY <2>7 DEF Behind, Voices
  <2>9. Knows(r)'
    BY <1>1, <2>7, <2>8 DEF Knows, Kinds, Mutes
  <2>10. SubsRight(r)'
    BY <2>4, <2>7 DEF Rest, SubsRight, Ahead, Removes, Kinds
  <2>11. WhiteRight(r)'
    BY <2>4, <2>7 DEF Rest, WhiteRight, Ahead
  <2>12. Globals'
    BY <1>2, <2>4 DEF Sound, Globals
  <2>13. QED BY <1>1, <2>6, <2>7, <2>9, <2>10, <2>11, <2>12, SoundKept DEF Right
<1>14. CASE /\ p.op \in {"transfer", "blacklist", "mute", "muteOver"}
            /\ \E do \in Voices : p.calls = <<Call(do, p.to)>>
  <2>1. PICK do \in Voices : p.calls = <<Call(do, p.to)>>
    BY <1>14
  <2>2. channel' = Apply(Call(do, p.to))
    BY <1>2, <2>1, Sequences1
  <2>3. /\ DOMAIN channel' = ChannelFields /\ channel'.exists = channel.exists
        /\ channel'.white = channel.white /\ channel'.subscribers = channel.subscribers
    BY <1>4, <2>1, <2>2, ApplyIs DEF Same, Voices
  <2>4. Rest'
    BY <1>2, <1>3, <1>7, <1>14, <2>3 DEF Rest
  <2>5. QED BY <1>8, <2>1, <2>3, <2>4
<1>15. QED BY <1>2, <1>9, <1>10, <1>12, <1>13, <1>14 DEF Behind

LEMMA ReadManagersKept ==
  ASSUME Sound, NEW w \in Requests, ReadManagers(w)
  PROVE  Sound'
<1> PICK p : p = request[w]
  OBVIOUS
<1>1. /\ \A v \in Requests \ {w} : request[v] = Idle
      /\ DOMAIN p = RequestFields /\ p.pc \in {"run", "after"}
      /\ Knows(p) /\ SubsRight(p) /\ WhiteRight(p)
  BY ActiveIs, CallerIs DEF ReadManagers
<1>2. /\ p.calls # <<>> /\ Head(p.calls).do = "managers"
      /\ channel' = channel /\ group' = group /\ member' = member /\ invite' = invite
  BY DEF ReadManagers
<1>3. \A do, us : Call(do, us).do = do
  BY DEF Call
<1>4. p.pc = "after"
  <2>1. SUFFICES ASSUME Before(p.op, p.by, p.to, p.on, p.calls) PROVE FALSE
    BY <1>1, <1>2 DEF Knows
  <2>2. QED BY <1>2, <1>3, <2>1, Sequences1 DEF Before
<1>5. PICK us : p.op \in {"manager", "transfer", "forbidSetting"} /\ group.forbidden
        /\ (\/ p.calls = <<Call("managers", us)>>
            \/ p.op = "transfer" /\ p.calls = <<Call("managers", us), Call("unsilence", p.to)>>)
  BY <1>1, <1>2, <1>3, <1>4, Sequences1, Sequences2 DEF Knows, Behind, Whites, Voices
<1>6. PICK v : v = ManagersAndCreator
  OBVIOUS
<1>7. PICK r : r = [p EXCEPT !.calls = <<Call("whitelist", v)>> \o Tail(p.calls)]
  OBVIOUS
<1>8. request' = [request EXCEPT ![w] = r]
  BY <1>6, <1>7 DEF ReadManagers
<1>9. /\ DOMAIN r = RequestFields /\ r.pc = "after" /\ r.op = p.op /\ r.by = p.by
      /\ r.to = p.to /\ r.calls = <<Call("whitelist", v)>> \o Tail(p.calls)
  BY <1>1, <1>4, <1>7 DEF RequestFields
<1>10. Behind(r.op, r.to, group.forbidden, r.calls)
  <2>1. \/ r.calls = <<Call("whitelist", v)>>
        \/ r.op = "transfer" /\ r.calls = <<Call("whitelist", v), Call("unsilence", r.to)>>
    <3>1. r.calls = <<Call("whitelist", v)>> \o Tail(p.calls)
      BY <1>9
    <3>2. CASE p.calls = <<Call("managers", us)>>
      BY <3>1, <3>2, HeadSwapped
    <3>3. CASE p.op = "transfer" /\ p.calls = <<Call("managers", us), Call("unsilence", p.to)>>
      BY <1>9, <3>1, <3>3, HeadSwapped
    <3>4. QED BY <1>5, <3>2, <3>3
  <2>2. QED BY <1>5, <1>9, <2>1 DEF Behind, Whites
<1>11. Knows(r)'
  BY <1>1, <1>2, <1>4, <1>9, <1>10 DEF Knows
<1>12. SubsRight(r)'
  BY <1>1, <1>2, <1>4, <1>9 DEF SubsRight, Ahead, Removes, Live
<1>13. WhiteRight(r)'
  BY <1>1, <1>2, <1>4, <1>9 DEF WhiteRight, Ahead
<1>14. Globals'
  BY <1>2 DEF Sound, Globals
<1>15. QED BY <1>1, <1>8, <1>9, <1>11, <1>12, <1>13, <1>14, SoundKept DEF Right

-----------------------------------------------------------------------------
(***************************************************************************)
(* The transactions                                                        *)
(***************************************************************************)
LEMMA WriteBackIs ==
  ASSUME DOMAIN group = GroupFields, NEW g
  PROVE  /\ DOMAIN WriteBack(g) = GroupFields
         /\ WriteBack(g).status = g.status /\ WriteBack(g).forbidden = g.forbidden
<1> PICK a : a = [group EXCEPT !.status = g.status]
  OBVIOUS
<1> PICK b : b = [a EXCEPT !.forbidden = g.forbidden]
  OBVIOUS
<1> PICK c : c = [b EXCEPT !.invite = g.invite]
  OBVIOUS
<1>1. WriteBack(g) = c
  BY DEF WriteBack
<1>2. DOMAIN a = GroupFields /\ a.status = g.status
  BY DEF GroupFields
<1>3. DOMAIN b = GroupFields /\ b.status = g.status /\ b.forbidden = g.forbidden
  BY <1>2 DEF GroupFields
<1>4. DOMAIN c = GroupFields /\ c.status = g.status /\ c.forbidden = g.forbidden
  BY <1>3 DEF GroupFields
<1>5. QED BY <1>1, <1>4

LEMMA ReadyIs ==
  ASSUME Sound, NEW w \in Requests, NEW ops, Ready(w, ops)
  PROVE  /\ request[w].pc = "run" /\ request[w].op \in ops /\ request[w].calls = <<>>
         /\ Ahead(request[w]) /\ ~Removes(request[w])
         /\ Knows(request[w]) /\ SubsRight(request[w]) /\ WhiteRight(request[w])
         /\ request[w].to \in SUBSET Members /\ request[w].rows = member
         /\ DOMAIN request[w].group = GroupFields
         /\ request[w].group.status = group.status
         /\ request[w].group.forbidden = group.forbidden
         /\ RowsOK(member) /\ DOMAIN group = GroupFields
         /\ invite.uids \in SUBSET Members
         /\ group.status = "none" => ~group.forbidden
<1>1. request[w].pc = "run" /\ request[w].op \in ops /\ request[w].calls = <<>>
  BY DEF Ready
<1>2. Knows(request[w]) /\ SubsRight(request[w]) /\ WhiteRight(request[w])
  BY <1>1, ActiveIs
<1>3. QED BY <1>1, <1>2 DEF Ahead, Removes, Knows, Sound, Globals

\* Where neither rows nor mute of the group are concerned.
LEMMA PlainIs ==
  ASSUME Sound, NEW w \in Requests, NEW ops, Ready(w, ops),
         ops \cap (Kinds \cup Joins \cup Exits \cup {"forbid"}) = {}
  PROVE  /\ channel.exists => channel.subscribers = Live
         /\ ~group.forbidden => channel.white = {}
         /\ request[w].op \notin Kinds
BY ReadyIs DEF SubsRight, WhiteRight

LEMMA CreateTxKept ==
  ASSUME Sound, NEW w \in Requests, GroupCreateTx(w)
  PROVE  Sound'
<1> PICK p : p = request[w]
  OBVIOUS
<1> PICK g : g = [NoGroup EXCEPT !.status = "normal", !.kind = p.op, !.invite = p.on]
  OBVIOUS
<1> PICK rows : rows = [u \in Members |-> IF u = p.by THEN NewMember("creator")
                               ELSE IF u \in p.to THEN NewMember("common")
                                    ELSE NoMember]
  OBVIOUS
<1>1. Ready(w, Kinds) /\ group.status = "none" /\ Commit(w, g, rows, <<>>) /\ invite' = invite
  BY DEF GroupCreateTx
<1>2. DOMAIN g = GroupFields /\ ~g.forbidden /\ g.status = "normal"
  BY DEF NoGroup, GroupFields
<1>3. p.by \in Members /\ p.to \in SUBSET Members /\ p.op \in Kinds /\ p.op \notin Mutes
  BY <1>1, ReadyIs DEF Knows, Kinds, Mutes
<1>4. /\ \A u \in Members : "in" \in DOMAIN rows[u] /\ (rows[u].in = "live" <=> u \in p.to \cup {p.by})
      /\ DOMAIN rows = Members
  BY <1>3 DEF NewMember, NoMember
<1>5. RowsOK(rows) /\ LiveIn(rows) = p.to \cup {p.by}
  BY <1>3, <1>4 DEF RowsOK, LiveIn
<1>6. channel.exists => channel.subscribers = p.to \cup {p.by}
  BY <1>1, <1>3, ReadyIs DEF SubsRight
<1>7. channel.white = {}
  BY <1>1, <1>3, ReadyIs DEF WhiteRight, Kinds
<1>8. request[w].pc # "idle" /\ invite'.uids \in SUBSET Members
  BY <1>1, ReadyIs
<1>9. QED BY <1>1, <1>2, <1>3, <1>5, <1>6, <1>7, <1>8, CommitIs

LEMMA DisbandTxKept ==
  ASSUME Sound, NEW w \in Requests, DisbandTx(w)
  PROVE  Sound'
<1> PICK p : p = request[w]
  OBVIOUS
<1> PICK h : h = WriteBack([p.group EXCEPT !.status = "disband"])
  OBVIOUS
<1> PICK g : g = [h EXCEPT !.event = "wait"]
  OBVIOUS
<1>1. Ready(w, {"disband"}) /\ Commit(w, g, member, <<>>) /\ invite' = invite
  BY DEF DisbandTx
<1>2. DOMAIN h = GroupFields /\ h.status = "disband" /\ h.forbidden = group.forbidden
  BY <1>1, ReadyIs, WriteBackIs DEF GroupFields
<1>3. DOMAIN g = GroupFields /\ g.status = "disband" /\ g.forbidden = group.forbidden
  BY <1>2 DEF GroupFields
<1>4. /\ channel.exists => channel.subscribers = Live
      /\ ~group.forbidden => channel.white = {}
  BY <1>1, PlainIs DEF Kinds, Joins, Exits
<1>5. request[w].pc # "idle" /\ invite'.uids \in SUBSET Members /\ RowsOK(member)
      /\ request[w].op \notin Mutes
  BY <1>1, ReadyIs DEF Mutes
<1>6. QED BY <1>1, <1>3, <1>4, <1>5, CommitIs DEF Live

LEMMA JoinTxKept ==
  ASSUME Sound, NEW w \in Requests, JoinTx(w)
  PROVE  Sound'
<1> PICK p : p = request[w]
  OBVIOUS
<1> PICK rows : rows = RecoverOrInsert(member, p.to)
  OBVIOUS
<1>1. Ready(w, Joins)
  BY DEF JoinTx, Joins
<1>2. Commit(w, group, rows, <<>>)
      /\ invite' = IF p.op = "sure" THEN [NoInvite EXCEPT !.status = "ok"] ELSE invite
  BY <1>1, ReadyIs DEF JoinTx
<1>3. invite'.uids \in SUBSET Members
  BY <1>1, <1>2, ReadyIs DEF NoInvite
<1>4. RowsOK(rows) /\ LiveIn(rows) = Live \cup p.to
  BY <1>1, ReadyIs, JoinedRows DEF Live
<1>5. p.op \in Joins /\ p.op \notin Mutes /\ p.op \notin Kinds
  BY <1>1, ReadyIs DEF Joins, Mutes, Kinds
<1>6. /\ channel.exists => channel.subscribers = Live \cup p.to
      /\ ~group.forbidden => channel.white = {}
  BY <1>1, <1>5, ReadyIs DEF SubsRight, WhiteRight, Mutes, Joins
<1>7. request[w].pc # "idle" /\ DOMAIN group = GroupFields
      /\ (group.status = "none" => ~group.forbidden)
  BY <1>1, ReadyIs
<1>8. QED BY <1>2, <1>3, <1>4, <1>5, <1>6, <1>7, CommitIs

LEMMA RemoveTxKept ==
  ASSUME Sound, NEW w \in Requests, MemberRemoveTx(w)
  PROVE  Sound'
<1> PICK p : p = request[w]
  OBVIOUS
<1> PICK rows : rows = DeleteMembers(member, p.to)
  OBVIOUS
<1> PICK calls : calls = <<Call("unsubscribe", p.to)>>
  OBVIOUS
<1>1. Ready(w, {"remove"}) /\ Commit(w, group, rows, calls) /\ invite' = invite
  BY DEF MemberRemoveTx
<1>2. RowsOK(rows) /\ LiveIn(rows) = Live \ p.to
  BY <1>1, ReadyIs, DeletedRows DEF Live
<1>3. /\ channel.exists => channel.subscribers = Live
      /\ ~group.forbidden => channel.white = {}
  BY <1>1, PlainIs DEF Kinds, Joins, Exits
<1>4. request[w].pc # "idle" /\ invite'.uids \in SUBSET Members /\ p.op = "remove"
      /\ DOMAIN group = GroupFields /\ (group.status = "none" => ~group.forbidden)
  BY <1>1, ReadyIs
<1>5. calls # <<>> /\ Behind(p.op, p.to, group.forbidden, calls)
  BY <1>4, Sequences1 DEF Behind
<1>6. QED BY <1>1, <1>2, <1>3, <1>4, <1>5, CommitIs DEF Mutes, Kinds

LEMMA ExitReadKept ==
  ASSUME Sound, NEW w \in Requests, GroupExitRead(w)
  PROVE  Sound'
<1> PICK p : p = request[w]
  OBVIOUS
<1>1. Ready(w, {"exit"})
  BY DEF GroupExitRead
<1>2. /\ p.op = "exit" /\ p.pc = "run" /\ Knows(p) /\ Ahead(p)
      /\ \A v \in Requests \ {w} : request[v] = Idle
      /\ DOMAIN p = RequestFields
  BY <1>1, ReadyIs, ActiveIs
<1>3. /\ channel.exists => channel.subscribers = Live \ {p.by}
      /\ ~group.forbidden => channel.white = {}
  BY <1>1, <1>2, ReadyIs DEF SubsRight, WhiteRight, Exits
<1>4. group' = group /\ member' = member /\ channel' = channel /\ invite' = invite
  BY DEF GroupExitRead, Refuse
<1>5. Globals' /\ Live' = Live
  BY <1>4 DEF Sound, Globals, Live
<1>6. CASE p.by \notin Live
  <2>1. request' = [request EXCEPT ![w] = Idle]
    BY <1>6 DEF GroupExitRead, Refuse
  <2>2. Rest'
    BY <1>3, <1>4, <1>5, <1>6 DEF Rest
  <2>3. QED BY <1>2, <1>5, <2>1, <2>2, EndKept
<1>7. CASE p.by \in Live
  <2>1. PICK next \in SUBSET Live :
          request' = [request EXCEPT ![w].op = "exiting", ![w].to = next]
    BY <1>7 DEF GroupExitRead
  <2>2. PICK q : q = [p EXCEPT !.op = "exiting"]
    OBVIOUS
  <2>3. PICK r : r = [q EXCEPT !.to = next]
    OBVIOUS
  <2>4. PICK x : x = [request EXCEPT ![w] = q]
    OBVIOUS
  <2>5. request' = [x EXCEPT ![w].to = next] /\ x = [request EXCEPT ![w].op = "exiting"]
    BY <2>1, <2>2, <2>4
  <2>6. DOMAIN x = Requests /\ x[w] = q /\ DOMAIN request = Requests
    BY <2>4 DEF Sound
  <2>7. request' = [x EXCEPT ![w] = r]
    BY <2>3, <2>5, <2>6
  <2>8. request' = [request EXCEPT ![w] = r]
    BY <2>4, <2>6, <2>7
  <2>9. DOMAIN q = RequestFields /\ q.op = "exiting" /\ q.pc = "run" /\ q.by = p.by
        /\ q.on = p.on /\ q.group = p.group /\ q.rows = p.rows /\ q.calls = p.calls
    BY <1>2, <2>2 DEF RequestFields
  <2>10. DOMAIN r = RequestFields /\ r.op = "exiting" /\ r.pc = "run" /\ r.by = p.by
        /\ r.on = p.on /\ r.group = p.group /\ r.rows = p.rows /\ r.calls = p.calls
        /\ r.to = next
    BY <2>3, <2>9 DEF RequestFields
  <2>11. p.calls = <<>>
    BY <1>1 DEF Ready
  <2>12. Knows(r)'
    BY <1>2, <1>4, <2>10, <2>11 DEF Knows, Kinds, Mutes, Live, LiveIn
  <2>13. SubsRight(r)'
    BY <1>3, <1>4, <1>5, <2>10, <2>11 DEF SubsRight, Ahead, Removes, Kinds, Joins, Exits
  <2>14. WhiteRight(r)'
    BY <1>3, <1>4, <2>10 DEF WhiteRight, Ahead
  <2>15. QED BY <1>2, <1>5, <2>8, <2>10, <2>12, <2>13, <2>14, SoundKept DEF Right
<1>8. QED BY <1>6, <1>7

LEMMA ExitTxKept ==
  ASSUME Sound, NEW w \in Requests, GroupExitTx(w)
  PROVE  Sound'
<1> PICK p : p = request[w]
  OBVIOUS
<1> PICK set : set = SetRole(member, p.to, "creator")
  OBVIOUS
<1> PICK rows : rows = DeleteMembers(set, {p.by})
  OBVIOUS
<1>1. Ready(w, {"exiting"}) /\ Commit(w, group, rows, <<>>) /\ invite' = invite
  BY DEF GroupExitTx
<1>2. RowsOK(set) /\ LiveIn(set) = Live
  BY <1>1, ReadyIs, RoleRows DEF Live
<1>3. RowsOK(rows) /\ LiveIn(rows) = Live \ {p.by}
  BY <1>2, DeletedRows
<1>4. request[w].pc # "idle" /\ invite'.uids \in SUBSET Members /\ p.op = "exiting"
      /\ DOMAIN group = GroupFields /\ (group.status = "none" => ~group.forbidden)
  BY <1>1, ReadyIs
<1>5. /\ channel.exists => channel.subscribers = Live \ {p.by}
      /\ ~group.forbidden => channel.white = {}
  BY <1>1, <1>4, ReadyIs DEF SubsRight, WhiteRight, Exits
<1>6. QED BY <1>1, <1>3, <1>4, <1>5, CommitIs DEF Mutes, Kinds

LEMMA ManagerTxKept ==
  ASSUME Sound, NEW w \in Requests, ManagerTx(w)
  PROVE  Sound'
<1> PICK p : p = request[w]
  OBVIOUS
<1> PICK rows : rows = SetRole(member, p.to, IF p.on THEN "manager" ELSE "common")
  OBVIOUS
<1> PICK calls : calls = IF p.group.forbidden THEN <<Call("managers", {})>> ELSE <<>>
  OBVIOUS
<1>1. Ready(w, {"manager"}) /\ Commit(w, group, rows, calls) /\ invite' = invite
  BY DEF ManagerTx
<1>2. RowsOK(rows) /\ LiveIn(rows) = Live
  BY <1>1, ReadyIs, RoleRows DEF Live
<1>3. /\ channel.exists => channel.subscribers = Live
      /\ ~group.forbidden => channel.white = {}
  BY <1>1, PlainIs DEF Kinds, Joins, Exits
<1>4. request[w].pc # "idle" /\ invite'.uids \in SUBSET Members /\ p.op = "manager"
      /\ DOMAIN group = GroupFields /\ (group.status = "none" => ~group.forbidden)
      /\ p.group.forbidden = group.forbidden
  BY <1>1, ReadyIs
<1>5. calls = <<>> \/ Behind(p.op, p.to, group.forbidden, calls)
  BY <1>4 DEF Behind, Whites
<1>6. QED BY <1>1, <1>2, <1>3, <1>4, <1>5, CommitIs DEF Mutes, Kinds

LEMMA TransferTxKept ==
  ASSUME Sound, NEW w \in Requests, TransferTx(w)
  PROVE  Sound'
<1> PICK p : p = request[w]
  OBVIOUS
<1> PICK old : old = SetRole(member, {p.by}, "common")
  OBVIOUS
<1> PICK set : set = SetRole(old, p.to, "creator")
  OBVIOUS
<1> PICK rows : rows = [u \in Members |-> IF u \in p.to \cap Live
                               THEN [set[u] EXCEPT !.muted = FALSE]
                               ELSE set[u]]
  OBVIOUS
<1> PICK first : first = IF p.group.forbidden THEN <<Call("managers", {})>> ELSE <<>>
  OBVIOUS
<1> PICK second : second = IF p.on THEN <<Call("unsilence", p.to)>> ELSE <<>>
  OBVIOUS
<1> PICK calls : calls = first \o second
  OBVIOUS
<1>1. Ready(w, {"transfer"}) /\ Commit(w, group, rows, calls) /\ invite' = invite
  BY DEF TransferTx
<1>2. RowsOK(old) /\ LiveIn(old) = Live
  BY <1>1, ReadyIs, RoleRows DEF Live
<1>3. RowsOK(set) /\ LiveIn(set) = Live
  BY <1>2, RoleRows
<1>4. RowsOK(rows) /\ LiveIn(rows) = Live
  <2>1. DOMAIN rows = Members /\ \A u \in Members :
          "in" \in DOMAIN rows[u] /\ rows[u].in = set[u].in
    BY <1>3 DEF RowsOK
  <2>2. QED BY <1>3, <2>1, SameLive
<1>5. /\ channel.exists => channel.subscribers = Live
      /\ ~group.forbidden => channel.white = {}
  BY <1>1, PlainIs DEF Kinds, Joins, Exits
<1>6. request[w].pc # "idle" /\ invite'.uids \in SUBSET Members /\ p.op = "transfer"
      /\ DOMAIN group = GroupFields /\ (group.status = "none" => ~group.forbidden)
      /\ p.group.forbidden = group.forbidden
  BY <1>1, ReadyIs
<1>7. \A x, y : <<x>> \o <<y>> = <<x, y>> /\ <<x>> \o <<>> = <<x>> /\ <<>> \o <<x>> = <<x>>
  BY Sequences2
<1>8. calls = <<>> \/ Behind(p.op, p.to, group.forbidden, calls)
  <2>1. CASE p.group.forbidden /\ p.on
    <3>1. calls = <<Call("managers", {}), Call("unsilence", p.to)>>
      BY <1>7, <2>1
    <3>2. QED BY <1>6, <2>1, <3>1 DEF Behind, Whites
  <2>2. CASE p.group.forbidden /\ ~p.on
    <3>1. calls = <<Call("managers", {})>>
      BY <1>7, <2>2
    <3>2. QED BY <1>6, <2>2, <3>1 DEF Behind, Whites
  <2>3. CASE ~p.group.forbidden /\ p.on
    <3>1. calls = <<Call("unsilence", p.to)>>
      BY <1>7, <2>3
    <3>2. QED BY <1>6, <2>3, <3>1 DEF Behind, Voices
  <2>4. CASE ~p.group.forbidden /\ ~p.on
    BY <2>4, Sequences2
  <2>5. QED BY <2>1, <2>2, <2>3, <2>4
<1>9. QED BY <1>1, <1>4, <1>5, <1>6, <1>8, CommitIs DEF Mutes, Kinds

LEMMA ForbiddenTxKept ==
  ASSUME Sound, NEW w \in Requests, ForbiddenTx(w)
  PROVE  Sound'
<1> PICK p : p = request[w]
  OBVIOUS
<1> PICK h : h = [p.group EXCEPT !.forbidden = p.on]
  OBVIOUS
<1> PICK g : g = WriteBack(h)
  OBVIOUS
<1> PICK calls : calls = IF p.op = "forbid" THEN <<>>
            ELSE IF p.on THEN <<Call("managers", {})>> ELSE <<Call("whitelist", {})>>
  OBVIOUS
<1>1. Ready(w, Mutes) /\ Commit(w, g, member, calls) /\ invite' = invite
  BY DEF ForbiddenTx, Mutes
<1>2. h.status = group.status /\ h.forbidden = p.on
  BY <1>1, ReadyIs DEF GroupFields
<1>3. DOMAIN g = GroupFields /\ g.status = group.status /\ g.forbidden = p.on
  BY <1>1, <1>2, ReadyIs, WriteBackIs
<1>4. /\ request[w].pc # "idle" /\ invite'.uids \in SUBSET Members /\ RowsOK(member)
      /\ p.op \in Mutes /\ group.status # "none"
  BY <1>1, ReadyIs DEF Knows
<1>5. p.op \notin Kinds /\ p.op \notin Joins /\ p.op \notin Exits /\ p.op # "remove"
  BY <1>4 DEF Mutes, Kinds, Joins, Exits
<1>6. channel.exists => channel.subscribers = Live
  BY <1>1, <1>5, ReadyIs DEF SubsRight
<1>7. calls # <<>> => p.op = "forbidSetting"
  BY <1>4 DEF Mutes
<1>8. \/ ~g.forbidden => channel.white = {}
      \/ calls # <<>> /\ p.op = "forbidSetting"
  <2>1. CASE p.op = "forbid"
    BY <1>1, <1>3, <2>1, ReadyIs DEF WhiteRight
  <2>2. CASE p.op # "forbid"
    <3>1. calls # <<>>
      BY <2>2, Sequences1
    <3>2. QED BY <1>7, <3>1
  <2>3. QED BY <2>1, <2>2
<1>9. calls = <<>> \/ Behind(p.op, p.to, g.forbidden, calls)
  <2>1. SUFFICES ASSUME p.op = "forbidSetting" PROVE Behind(p.op, p.to, g.forbidden, calls)
    BY <1>7
  <2>2. CASE p.on
    BY <1>3, <2>1, <2>2 DEF Behind, Whites
  <2>3. CASE ~p.on
    BY <1>3, <2>1, <2>3 DEF Behind
  <2>4. QED BY <2>2, <2>3
<1>10. QED
  <2>1. g.status = "none" => ~g.forbidden
    BY <1>3, <1>4
  <2>2. p.op \in Mutes => g.status # "none"
    BY <1>3, <1>4
  <2>3. channel.exists =>
           \/ calls # <<>> /\ p.op \notin {"remove"} \cup Kinds
                /\ channel.subscribers = LiveIn(member)
           \/ calls = <<>> /\ channel.subscribers = LiveIn(member)
    BY <1>5, <1>6 DEF Live
  <2>4. QED BY <1>1, <1>3, <1>4, <1>5, <1>8, <1>9, <2>1, <2>2, <2>3, CommitIs

\* The row of the group is written back as it was read.
LEMMA WrittenBack ==
  ASSUME Sound, NEW w \in Requests, NEW ops, Ready(w, ops),
         ops \cap (Kinds \cup Joins \cup Exits \cup Mutes \cup {"remove"}) = {},
         NEW h, h.forbidden = group.forbidden, h.status = "none" => group.status = "none",
         Commit(w, WriteBack(h), member, <<>>), invite' = invite
  PROVE  Sound'
<1> PICK g : g = WriteBack(h)
  OBVIOUS
<1>1. DOMAIN g = GroupFields /\ g.status = h.status /\ g.forbidden = group.forbidden
  BY ReadyIs, WriteBackIs
<1>2. /\ request[w].pc # "idle" /\ invite'.uids \in SUBSET Members /\ RowsOK(member)
      /\ request[w].op \in ops /\ (group.status = "none" => ~group.forbidden)
  BY ReadyIs
<1>3. /\ channel.exists => channel.subscribers = Live
      /\ ~group.forbidden => channel.white = {}
  BY PlainIs DEF Mutes
<1>4. QED BY <1>1, <1>2, <1>3, CommitIs DEF Live

LEMMA UpdateTxKept ==
  ASSUME Sound, NEW w \in Requests, GroupUpdateTx(w)
  PROVE  Sound'
<1> PICK p : p = request[w]
  OBVIOUS
<1> PICK h : h = [p.group EXCEPT !.invite = p.on]
  OBVIOUS
<1>1. Ready(w, {"update"}) /\ Commit(w, WriteBack(h), member, <<>>) /\ invite' = invite
  BY DEF GroupUpdateTx
<1>2. h.status = group.status /\ h.forbidden = group.forbidden
  BY <1>1, ReadyIs DEF GroupFields
<1>3. {"update"} \cap (Kinds \cup Joins \cup Exits \cup Mutes \cup {"remove"}) = {}
  BY DEF Kinds, Joins, Exits, Mutes
<1>4. QED BY <1>1, <1>2, <1>3, WrittenBack

LEMMA LeftBanTxKept ==
  ASSUME Sound, NEW w \in Requests, LeftBanGroupTx(w)
  PROVE  Sound'
<1> PICK p : p = request[w]
  OBVIOUS
<1> PICK h : h = [p.group EXCEPT !.status = p.op]
  OBVIOUS
<1> PICK ops : ops = {"disabled", "normal"}
  OBVIOUS
<1>1. Ready(w, ops) /\ Commit(w, WriteBack(h), member, <<>>) /\ invite' = invite
  BY DEF LeftBanGroupTx
<1>2. h.status = p.op /\ p.op # "none" /\ h.forbidden = group.forbidden
  BY <1>1, ReadyIs DEF GroupFields
<1>3. ops \cap (Kinds \cup Joins \cup Exits \cup Mutes \cup {"remove"}) = {}
  BY DEF Kinds, Joins, Exits, Mutes
<1>4. QED BY <1>1, <1>2, <1>3, WrittenBack

\* A transaction on the rows that keeps who is a member.
LEMMA SilenceCommitKept ==
  ASSUME Sound, NEW w \in Requests, NEW ops, Ready(w, ops),
         ops \cap (Kinds \cup Joins \cup Exits \cup Mutes \cup {"remove"}) = {},
         NEW rows, DOMAIN rows = Members,
         \A u \in Members : "in" \in DOMAIN rows[u] /\ rows[u].in = member[u].in,
         NEW calls, Commit(w, group, rows, calls), invite' = invite,
         calls = <<>> \/ Behind(request[w].op, request[w].to, group.forbidden, calls)
  PROVE  Sound'
<1>1. RowsOK(rows) /\ LiveIn(rows) = Live
  BY ReadyIs, SameLive DEF Live
<1>2. /\ request[w].pc # "idle" /\ invite'.uids \in SUBSET Members
      /\ DOMAIN group = GroupFields
      /\ request[w].op \in ops /\ (group.status = "none" => ~group.forbidden)
  BY ReadyIs
<1>3. /\ channel.exists => channel.subscribers = Live
      /\ ~group.forbidden => channel.white = {}
  BY PlainIs DEF Mutes
<1>4. QED BY <1>1, <1>2, <1>3, CommitIs

LEMMA BlacklistTxKept ==
  ASSUME Sound, NEW w \in Requests, BlacklistTx(w)
  PROVE  Sound'
<1> PICK p : p = request[w]
  OBVIOUS
<1> PICK rows : rows = [u \in Members |-> IF u \in p.to /\ member[u].in # "never"
                               THEN [member[u] EXCEPT !.blocked = p.on]
                               ELSE member[u]]
  OBVIOUS
<1> PICK calls : calls = IF p.on THEN <<Call("silence", p.to)>>
            ELSE IF \E u \in p.to \cap Live : ~member[u].muted
                 THEN <<Call("unsilence", p.to)>> ELSE <<>>
  OBVIOUS
<1>1. Ready(w, {"blacklist"}) /\ Commit(w, group, rows, calls) /\ invite' = invite
  BY DEF BlacklistTx
<1>2. DOMAIN rows = Members /\ \A u \in Members :
        "in" \in DOMAIN rows[u] /\ rows[u].in = member[u].in
  BY <1>1, ReadyIs DEF RowsOK
<1>3. p.op = "blacklist"
  BY <1>1, ReadyIs
<1>4. calls = <<>> \/ Behind(p.op, p.to, group.forbidden, calls)
  BY <1>3 DEF Behind, Voices
<1>5. {"blacklist"} \cap (Kinds \cup Joins \cup Exits \cup Mutes \cup {"remove"}) = {}
  BY DEF Kinds, Joins, Exits, Mutes
<1>6. QED BY <1>1, <1>2, <1>4, <1>5, SilenceCommitKept

LEMMA UpdateMemberTxKept ==
  ASSUME Sound, NEW w \in Requests, UpdateMemberTx(w)
  PROVE  Sound'
<1> PICK p : p = request[w]
  OBVIOUS
<1> PICK u : u = CHOOSE v \in p.to : TRUE
  OBVIOUS
<1> PICK mute : mute = [p.rows[u] EXCEPT !.muted = p.on]
  OBVIOUS
<1> PICK row : /\ p.op = "remark" => row = p.rows[u]
               /\ p.op # "remark" => row = mute
  <2>1. CASE p.op = "remark"
    BY <2>1
  <2>2. CASE p.op # "remark"
    BY <2>2
  <2>3. QED BY <2>1, <2>2
<1> PICK new : new = [row EXCEPT !.blocked = member[u].blocked]
  OBVIOUS
<1> PICK rows : rows = [member EXCEPT ![u] = new]
  OBVIOUS
<1> PICK ops : ops = {"remark", "mute", "muteOver"}
  OBVIOUS
<1>0. row = IF p.op = "remark" THEN p.rows[u] ELSE [p.rows[u] EXCEPT !.muted = p.on]
  <2>1. CASE p.op = "remark"
    BY <2>1
  <2>2. CASE p.op # "remark"
    BY <2>2
  <2>3. QED BY <2>1, <2>2
<1>1. Ready(w, ops) /\ p.op \in ops /\ invite' = invite
  BY ReadyIs DEF UpdateMemberTx
<1>2. DOMAIN rows = Members /\ \A x \in Members :
        "in" \in DOMAIN rows[x] /\ rows[x].in = member[x].in
  <2>1. RowsOK(member) /\ p.rows = member
    BY <1>1, ReadyIs
  <2>2. SUFFICES ASSUME u \in Members
        PROVE  "in" \in DOMAIN new /\ new.in = member[u].in
    BY <2>1 DEF RowsOK
  <2>3. "in" \in DOMAIN row /\ row.in = member[u].in
    <3>1. "in" \in DOMAIN member[u]
      BY <2>1, <2>2 DEF RowsOK
    <3>2. "in" \in DOMAIN mute /\ mute.in = member[u].in
      BY <2>1, <3>1
    <3>3. CASE p.op = "remark"
      BY <2>1, <3>1, <3>3
    <3>4. CASE p.op # "remark"
      BY <3>2, <3>4
    <3>5. QED BY <3>3, <3>4
  <2>4. QED BY <2>3
<1>3. PICK calls :
        /\ Commit(w, group, rows, calls)
        /\ calls = <<>> \/ Behind(p.op, p.to, group.forbidden, calls)
  <2>1. CASE p.op = "remark"
    <3>1. Commit(w, group, rows, <<>>)
      BY <1>0, <2>1 DEF UpdateMemberTx, UpdateMember
    <3>2. QED BY <3>1
  <2>2. CASE p.op = "mute"
    <3>1. PICK do \in Voices : do = IF p.on THEN "silence" ELSE "unsilence"
      BY DEF Voices
    <3>2. Commit(w, group, rows, <<Call(do, p.to)>>)
      BY <1>0, <2>2, <3>1 DEF UpdateMemberTx, UpdateMember
    <3>3. QED BY <2>2, <3>2 DEF Behind
  <2>3. CASE p.op = "muteOver"
    <3>1. \/ Commit(w, group, rows, <<>>)
          \/ Commit(w, group, rows, <<Call("unsilence", p.to)>>)
      BY <1>0, <2>3 DEF UpdateMemberTx, UpdateMember
    <3>2. QED BY <2>3, <3>1 DEF Behind, Voices
  <2>4. QED BY <1>1, <2>1, <2>2, <2>3
<1>5. ops \cap (Kinds \cup Joins \cup Exits \cup Mutes \cup {"remove"}) = {}
  BY DEF Kinds, Joins, Exits, Mutes
<1>6. QED BY <1>1, <1>2, <1>3, <1>5, SilenceCommitKept

LEMMA TransactionKept ==
  ASSUME Sound, NEW w \in Requests, Transaction(w)
  PROVE  Sound'
BY CreateTxKept, DisbandTxKept, JoinTxKept, RemoveTxKept, ExitReadKept, ExitTxKept,
   ManagerTxKept, TransferTxKept, ForbiddenTxKept, UpdateTxKept, LeftBanTxKept,
   BlacklistTxKept, UpdateMemberTxKept DEF Transaction

-----------------------------------------------------------------------------
(***************************************************************************)
(* The beginnings of the requests                                          *)
(***************************************************************************)
LEMMA PlainStart ==
  ASSUME Sound, ~Overlap, NEW w \in Requests, NEW op, NEW by, NEW to \in SUBSET Members,
         NEW on, Start(w, op, by, to, on, <<>>),
         op \notin Kinds \cup Joins \cup Exits \cup {"forbid"},
         op \in Mutes => group.status # "none"
  PROVE  Sound' /\ Counted
BY StartKept

LEMMA CreateKept ==
  ASSUME Sound, ~Overlap, NEW w \in Requests, NEW kind \in Kinds, NEW by \in Members,
         NEW to \in SUBSET Members, Create(w, kind, by, to)
  PROVE  Sound' /\ Counted
<1>1. PICK calls : calls = <<Call("create", to \cup {by})>>
  OBVIOUS
<1>2. Start(w, kind, by, to, kind = "org", calls)
  BY <1>1 DEF Create
<1>3. Before(kind, by, to, kind = "org", calls)
  BY <1>1 DEF Before
<1>4. kind \notin Mutes
  BY DEF Kinds, Mutes
<1>5. QED BY <1>2, <1>3, <1>4, StartKept

LEMMA JoinKept ==
  ASSUME Sound, ~Overlap, NEW w \in Requests, NEW op \in Joins, NEW by,
         NEW to \in SUBSET Members, Start(w, op, by, to, FALSE, <<Call("subscribe", to)>>)
  PROVE  Sound' /\ Counted
<1>1. PICK calls : calls = <<Call("subscribe", to)>>
  OBVIOUS
<1>2. Before(op, by, to, FALSE, calls)
  BY <1>1 DEF Before
<1>3. op \notin Mutes /\ op \notin Kinds
  BY DEF Joins, Mutes, Kinds
<1>4. QED BY <1>1, <1>2, <1>3, StartKept

LEMMA MuteKept ==
  ASSUME Sound, ~Overlap, NEW w \in Requests, NEW by, NEW on, group.status # "none",
         Start(w, "forbid", by, {}, on,
               <<Call("whitelist", IF on THEN ManagersAndCreator ELSE {})>>)
  PROVE  Sound' /\ Counted
<1>1. PICK us : (on => us = ManagersAndCreator) /\ (~on => us = {})
  <2>1. CASE on
    BY <2>1
  <2>2. CASE ~on
    BY <2>2
  <2>3. QED BY <2>1, <2>2
<1>2. PICK calls : calls = <<Call("whitelist", us)>>
  OBVIOUS
<1>3. Start(w, "forbid", by, {}, on, calls)
  <2>1. CASE on
    BY <1>1, <1>2, <2>1
  <2>2. CASE ~on
    BY <1>1, <1>2, <2>2
  <2>3. QED BY <2>1, <2>2
<1>4. Before("forbid", by, {}, on, calls)
  BY <1>1, <1>2 DEF Before
<1>5. "forbid" \notin Kinds
  BY DEF Kinds
<1>6. QED BY <1>3, <1>4, <1>5, StartKept

LEMMA AdminKept ==
  ASSUME Sound, ~Overlap, NEW w \in Requests, OfAdmin(w)
  PROVE  Sound' /\ Counted
<1>1. ASSUME NEW on, AdminForbidden(w, on) PROVE Sound' /\ Counted
  BY <1>1, MuteKept DEF AdminForbidden
<1>2. ASSUME NEW status \in {"disabled", "normal"}, LeftBanGroup(w, status)
      PROVE  Sound' /\ Counted
  <2>1. PICK do : do = IF status = "disabled" THEN "ban" ELSE "unban"
    OBVIOUS
  <2>2. PICK calls : calls = <<Call(do, {})>>
    OBVIOUS
  <2>3. Start(w, status, Admin, {}, FALSE, calls)
    BY <1>2, <2>1, <2>2 DEF LeftBanGroup
  <2>4. Before(status, Admin, {}, FALSE, calls)
    BY <2>1, <2>2 DEF Before
  <2>5. status \notin Kinds /\ status \notin Mutes
    BY DEF Kinds, Mutes
  <2>6. QED BY <2>3, <2>4, <2>5, StartKept
<1>3. ASSUME NEW to \in SUBSET Members, AdminRemove(w, to) PROVE Sound' /\ Counted
  BY <1>3, PlainStart DEF AdminRemove, Kinds, Joins, Exits, Mutes
<1>4. ASSUME NEW u \in Members, OrgEmployeeAdd(w, u) PROVE Sound' /\ Counted
  <2>1. {u} \in SUBSET Members /\ "employee" \in Joins
    BY DEF Joins
  <2>2. QED BY <1>4, <2>1, JoinKept DEF OrgEmployeeAdd
<1>5. ASSUME NEW u \in Members, OrgEmployeeExit(w, u) PROVE Sound' /\ Counted
  <2>1. {u} \in SUBSET Members
    OBVIOUS
  <2>2. QED BY <1>5, <2>1, PlainStart DEF OrgEmployeeExit, Kinds, Joins, Exits, Mutes
<1>6. ASSUME NEW u \in Members, CheckForbiddenLoop(w, u) PROVE Sound' /\ Counted
  <2>1. {u} \in SUBSET Members
    OBVIOUS
  <2>2. QED BY <1>6, <2>1, PlainStart DEF CheckForbiddenLoop, Kinds, Joins, Exits, Mutes
<1>7. QED BY <1>1, <1>2, <1>3, <1>4, <1>5, <1>6 DEF OfAdmin

LEMMA AddMembersKept ==
  ASSUME Sound, ~Overlap, NEW w \in Requests, NEW op \in Joins, NEW by,
         NEW to \in SUBSET Members, AddMembers(w, op, by, to)
  PROVE  Sound' /\ Counted
<1>1. PICK us : us = Addable(to)
  OBVIOUS
<1>2. us \in SUBSET Members
  BY <1>1 DEF Addable
<1>3. QED BY <1>1, <1>2, JoinKept DEF AddMembers

LEMMA MemberKept ==
  ASSUME Sound, ~Overlap, NEW w \in Requests, NEW by \in Members, OfMember(w, by)
  PROVE  Sound' /\ Counted
<1>1. ASSUME SystemGroupCreate(w, by) PROVE Sound' /\ Counted
  BY <1>1, CreateKept DEF SystemGroupCreate, Kinds
<1>2. ASSUME Disband(w, by) PROVE Sound' /\ Counted
  BY <1>2, PlainStart DEF Disband, Kinds, Joins, Exits, Mutes
<1>3. ASSUME GroupExit(w, by) PROVE Sound' /\ Counted
  <2>1. PICK calls : calls = <<Call("unsubscribe", {by})>>
    OBVIOUS
  <2>2. Start(w, "exit", by, {}, FALSE, calls) /\ Before("exit", by, {}, FALSE, calls)
    BY <1>3, <2>1 DEF GroupExit, Before
  <2>3. QED BY <2>2, StartKept DEF Kinds, Mutes
<1>4. ASSUME InviteSure(w, by) PROVE Sound' /\ Counted
  <2>1. invite.uids \in SUBSET Members /\ "sure" \in Joins
    BY DEF Sound, Globals, Joins
  <2>2. PICK of, us : of = invite.by /\ us = invite.uids
    OBVIOUS
  <2>3. QED BY <1>4, <2>1, <2>2, AddMembersKept DEF InviteSure
<1>5. ASSUME NEW u \in Members, HandleRegisterUserEvent(w, by, u) PROVE Sound' /\ Counted
  <2>1. {u} \in SUBSET Members /\ "add" \in Joins
    BY DEF Joins
  <2>2. QED BY <1>5, <2>1, AddMembersKept DEF HandleRegisterUserEvent
<1>6. ASSUME NEW u \in Members, GroupScanJoin(w, by, u) PROVE Sound' /\ Counted
  <2>1. {u} \in SUBSET Members /\ "scan" \in Joins
    BY DEF Joins
  <2>2. QED BY <1>6, <2>1, JoinKept DEF GroupScanJoin
<1>7. ASSUME NEW u \in Members, TransferGrouper(w, by, u) \/ MemberUpdate(w, by, u)
      PROVE  Sound' /\ Counted
  <2>1. {u} \in SUBSET Members
    OBVIOUS
  <2>2. PICK on : on = member[u].muted
    OBVIOUS
  <2>3. QED BY <1>7, <2>1, <2>2, PlainStart
               DEF TransferGrouper, MemberUpdate, Kinds, Joins, Exits, Mutes
<1>8. ASSUME NEW to \in SUBSET Members,
             \/ GroupCreate(w, by, to) \/ HandleOrgOrDeptCreateEvent(w, by, to)
      PROVE  Sound' /\ Counted
  BY <1>8, CreateKept DEF GroupCreate, HandleOrgOrDeptCreateEvent, Kinds
<1>9. ASSUME NEW to \in SUBSET Members, MemberAdd(w, by, to) PROVE Sound' /\ Counted
  <2>1. "add" \in Joins
    BY DEF Joins
  <2>2. QED BY <1>9, <2>1, AddMembersKept DEF MemberAdd
<1>10. ASSUME NEW to \in SUBSET Members,
              \/ MemberRemove(w, by, to) \/ ManagerAdd(w, by, to) \/ ManagerRemove(w, by, to)
              \/ \E on \in BOOLEAN : Blacklist(w, by, to, on)
       PROVE  Sound' /\ Counted
  BY <1>10, PlainStart
     DEF MemberRemove, ManagerAdd, ManagerRemove, Blacklist, Kinds, Joins, Exits, Mutes
<1>11. ASSUME NEW on, GroupForbidden(w, by, on) PROVE Sound' /\ Counted
  BY <1>11, MuteKept DEF GroupForbidden, GroupFound
<1>12. ASSUME NEW on, \/ SettingForbidden(w, by, on) \/ GroupUpdate(w, by, on)
                      \/ SettingUpdate(w, by, on)
       PROVE  Sound' /\ Counted
  BY <1>12, PlainStart
     DEF SettingForbidden, GroupUpdate, SettingUpdate, GroupFound, Kinds, Joins, Exits, Mutes
<1>13. ASSUME NEW on, NEW u \in Members, ForbiddenWithGroupMember(w, by, u, on)
       PROVE  Sound' /\ Counted
  <2>1. {u} \in SUBSET Members
    OBVIOUS
  <2>2. QED BY <1>13, <2>1, PlainStart
               DEF ForbiddenWithGroupMember, Kinds, Joins, Exits, Mutes
<1>14. QED BY <1>1, <1>2, <1>3, <1>4, <1>5, <1>6, <1>7, <1>8, <1>9, <1>10, <1>11, <1>12,
              <1>13 DEF OfMember

-----------------------------------------------------------------------------
(***************************************************************************)
(* The steps                                                               *)
(***************************************************************************)
LEMMA CallKept ==
  ASSUME Sound, NEW w \in Requests, CallIM(w)
  PROVE  Sound'
<1>1. request[w].calls # <<>>
  BY DEF CallIM
<1>2. request[w].pc \in {"run", "after"}
  BY <1>1, CallerIs, ActiveIs
<1>3. QED BY <1>2, CallBefore, CallAfter

LEMMA InviteKept ==
  ASSUME Sound, NEW by, NEW to \in SUBSET Members, InviteAdd(by, to)
  PROVE  Sound' /\ Counted
<1>1. /\ group' = group /\ member' = member /\ channel' = channel /\ request' = request
      /\ invite' = [status |-> "wait", by |-> by, uids |-> to] /\ Counted
  BY DEF InviteAdd, Counted
<1>2. invite'.uids \in SUBSET Members
  BY <1>1
<1>3. Globals' /\ (Rest' <=> Rest)
  BY <1>1, <1>2 DEF Sound, Globals, Rest, Live
<1>4. ASSUME NEW w \in Requests, Right(request[w]) PROVE Right(request[w])'
  <2> PICK r : r = request[w]
    OBVIOUS
  <2>1. Right(r)'
    BY <1>1, <1>3, <1>4 DEF Right, Knows, SubsRight, WhiteRight, Live
  <2>2. QED BY <1>1, <2>1 DEF Right
<1>5. QED BY <1>1, <1>3, <1>4 DEF Sound

LEMMA EventKept ==
  ASSUME Sound, HandleGroupDisbandEvent(TRUE)
  PROVE  Sound'
<1>1. /\ group' = [group EXCEPT !.event = "done"] /\ member' = member
      /\ invite' = invite /\ request' = request
      /\ channel' = [exists |-> FALSE, ban |-> FALSE, subscribers |-> {},
                     white |-> {}, black |-> {}]
  BY DEF HandleGroupDisbandEvent
<1>2. /\ DOMAIN channel' = ChannelFields /\ ~channel'.exists /\ channel'.white = {}
      /\ DOMAIN group' = GroupFields /\ group'.status = group.status
      /\ group'.forbidden = group.forbidden
  BY <1>1 DEF ChannelFields, GroupFields, Sound, Globals
<1>3. Globals' /\ Rest'
  BY <1>1, <1>2 DEF Sound, Globals, Rest
<1>4. ASSUME NEW w \in Requests, Right(request[w]) PROVE Right(request[w])'
  <2> PICK r : r = request[w]
    OBVIOUS
  <2>1. CASE r = Idle
    BY <1>1, <1>3, <1>4, <2>1 DEF Right, Idle
  <2>2. CASE r # Idle
    <3>1. Knows(r)'
      BY <1>1, <1>2, <1>4, <2>2 DEF Right, Knows
    <3>2. SubsRight(r)' /\ WhiteRight(r)'
      BY <1>2 DEF SubsRight, WhiteRight
    <3>3. QED BY <1>1, <1>4, <2>2, <3>1, <3>2 DEF Right
  <2>3. QED BY <2>1, <2>2
<1>5. QED BY <1>1, <1>3, <1>4 DEF Sound

LEMMA InitKept == GroupInit => GroupInv
<1> SUFFICES ASSUME GroupInit PROVE GroupInv
  OBVIOUS
<1>1. DOMAIN channel = ChannelFields /\ ~channel.exists /\ channel.white = {}
  BY DEF GroupInit, ChannelFields
<1>2. DOMAIN group = GroupFields /\ ~group.forbidden
  BY DEF GroupInit, NoGroup, GroupFields
<1>3. RowsOK(member)
  BY DEF GroupInit, RowsOK, NoMember, NewMember
<1>4. invite.uids \in SUBSET Members
  BY DEF GroupInit, NoInvite
<1>5. Globals /\ Rest
  BY <1>1, <1>2, <1>3, <1>4 DEF Globals, Rest
<1>6. DOMAIN request = Requests /\ \A w \in Requests : request[w] = Idle
  BY DEF GroupInit
<1>7. \A w \in Requests : Right(request[w])
  BY <1>5, <1>6, IdleIs DEF Right
<1>8. Sound
  BY <1>5, <1>6, <1>7 DEF Sound
<1>9. QED BY <1>8 DEF GroupInit, GroupInv

\* A request is counted when it begins.
LEMMA OfAdminCounts == ASSUME NEW w, OfAdmin(w) PROVE Counted
BY DEF OfAdmin, Counted, Start, AdminForbidden, LeftBanGroup, AdminRemove,
       OrgEmployeeAdd, OrgEmployeeExit, CheckForbiddenLoop

LEMMA OfMemberCounts == ASSUME NEW w, NEW by, OfMember(w, by) PROVE Counted
BY DEF OfMember, Counted, Start, Create, AddMembers, SystemGroupCreate, Disband,
       GroupExit, InviteSure, HandleRegisterUserEvent, GroupScanJoin, TransferGrouper,
       MemberUpdate, GroupCreate, HandleOrgOrDeptCreateEvent, MemberAdd, MemberRemove,
       ManagerAdd, ManagerRemove, Blacklist, GroupForbidden, SettingForbidden,
       GroupUpdate, SettingUpdate, ForbiddenWithGroupMember

LEMMA NextKept ==
  ASSUME GroupInv, ~Overlap, GroupNext
  PROVE  GroupInv'
<1>1. ASSUME spent.faults = 0 => Sound', spent' = spent PROVE GroupInv'
  BY <1>1 DEF GroupInv
<1>2. ASSUME spent.faults = 0 => Sound', Counted PROVE GroupInv'
  BY <1>2 DEF GroupInv, Counted
<1>3. ASSUME spent' = [spent EXCEPT !.faults = spent.faults + 1] PROVE GroupInv'
  BY <1>3 DEF GroupInv
<1>4. ASSUME NEW w \in Requests, OfAdmin(w) \/ \E by \in Members : OfMember(w, by)
      PROVE  GroupInv'
  <2>1. Counted
    BY <1>4, OfAdminCounts, OfMemberCounts
  <2>2. spent.faults = 0 => Sound'
    BY <1>4, AdminKept, MemberKept DEF GroupInv
  <2>3. QED BY <1>2, <2>1, <2>2
<1>5. ASSUME NEW w \in Requests, Transaction(w) \/ ReadManagers(w) \/ CallIM(w)
      PROVE  GroupInv'
  <2>1. spent' = spent
    BY <1>5 DEF Transaction, ReadManagers, CallIM, GroupCreateTx, DisbandTx, JoinTx,
         MemberRemoveTx, GroupExitRead, GroupExitTx, ManagerTx, TransferTx, ForbiddenTx,
         GroupUpdateTx, LeftBanGroupTx, BlacklistTx, UpdateMemberTx, Commit, Refuse
  <2>2. spent.faults = 0 => Sound'
    BY <1>5, TransactionKept, ReadManagersKept, CallKept DEF GroupInv
  <2>3. QED BY <1>1, <2>1, <2>2
<1>6. ASSUME NEW w \in Requests, Fail(w) PROVE GroupInv'
  BY <1>3, <1>6 DEF Fail
<1>7. ASSUME NEW by \in Members, NEW to \in SUBSET Members, InviteAdd(by, to)
      PROVE  GroupInv'
  <2>1. Counted
    BY <1>7 DEF InviteAdd, Counted
  <2>2. spent.faults = 0 => Sound'
    BY <1>7, InviteKept DEF GroupInv
  <2>3. QED BY <1>2, <2>1, <2>2
<1>8. ASSUME NEW ok \in BOOLEAN, HandleGroupDisbandEvent(ok) PROVE GroupInv'
  <2>1. CASE ok = TRUE
    <3>1. spent' = spent
      BY <1>8, <2>1 DEF HandleGroupDisbandEvent
    <3>2. spent.faults = 0 => Sound'
      BY <1>8, <2>1, EventKept DEF GroupInv
    <3>3. QED BY <1>1, <3>1, <3>2
  <2>2. CASE ok = FALSE
    BY <1>3, <1>8, <2>2 DEF HandleGroupDisbandEvent
  <2>3. QED BY <2>1, <2>2
<1>9. QED BY <1>4, <1>5, <1>6, <1>7, <1>8 DEF GroupNext

LEMMA GroupKept == ASSUME ~Overlap PROVE GroupSpec => []GroupInv
<1>1. GroupInv /\ [GroupNext]_groupVars => GroupInv'
  <2>1. ASSUME GroupInv, UNCHANGED groupVars PROVE GroupInv'
    <3>1. /\ group' = group /\ member' = member /\ channel' = channel
          /\ request' = request /\ invite' = invite /\ spent' = spent
      BY <2>1 DEF groupVars
    <3>2. ASSUME NEW w \in Requests, Right(request[w]) PROVE Right(request[w])'
      BY <3>1, <3>2 DEF Right, Rest, Knows, SubsRight, WhiteRight, Live
    <3>3. Sound => Sound'
      BY <3>1, <3>2 DEF Sound, Globals, Rest, Live
    <3>4. QED BY <2>1, <3>1, <3>3 DEF GroupInv
  <2>2. QED BY <2>1, NextKept
<1>2. QED BY <1>1, InitKept, PTL DEF GroupSpec

-----------------------------------------------------------------------------
(***************************************************************************)
(* The owner.  The invariant holds after failures too: it is about what a  *)
(* request knows until its transaction, which none has overtaken.          *)
(***************************************************************************)
RowFields == {"in", "role", "blocked", "muted"}
RowsWhole(rows) == DOMAIN rows = Members /\ \A u \in Members : DOMAIN rows[u] = RowFields
Owners(rows) == {u \in LiveIn(rows) : rows[u].role = "creator"}

LEMMA OwnersAre == {u \in Members : IsGroupCreator(u)} = Owners(member)
BY DEF IsGroupCreator, Owners, Live, LiveIn

LEMMA OneOwnerIs ==
  ASSUME IsFiniteSet(Members)
  PROVE  OneOwner <=> \E u \in Members : Owners(member) = {u}
<1>1. IsFiniteSet(Owners(member))
  BY FS_Subset DEF Owners, LiveIn
<1>2. OneOwner <=> Cardinality(Owners(member)) = 1
  BY OwnersAre DEF OneOwner
<1>3. OneOwner <=> \E u : Owners(member) = {u}
  BY <1>1, <1>2, FS_Singleton
<1>4. Owners(member) \subseteq Members
  BY DEF Owners, LiveIn
<1>5. QED BY <1>3, <1>4

LEMMA OneOwnerNext ==
  ASSUME IsFiniteSet(Members)
  PROVE  OneOwner' <=> \E u \in Members : Owners(member') = {u}
<1>1. {u \in Members : IsGroupCreator(u)}' = Owners(member')
  BY DEF IsGroupCreator, Owners, Live, LiveIn
<1>2. IsFiniteSet(Owners(member'))
  BY FS_Subset DEF Owners, LiveIn
<1>3. OneOwner' <=> Cardinality(Owners(member')) = 1
  BY <1>1 DEF OneOwner
<1>4. OneOwner' <=> \E u : Owners(member') = {u}
  BY <1>2, <1>3, FS_Singleton
<1>5. Owners(member') \subseteq Members
  BY DEF Owners, LiveIn
<1>6. QED BY <1>4, <1>5

LEMMA DeletedOwners ==
  ASSUME NEW rows, RowsWhole(rows), NEW us
  PROVE  /\ RowsWhole(DeleteMembers(rows, us))
         /\ LiveIn(DeleteMembers(rows, us)) = LiveIn(rows) \ us
         /\ Owners(DeleteMembers(rows, us)) = Owners(rows) \ us
BY DEF RowsWhole, RowFields, DeleteMembers, LiveIn, Owners

LEMMA RoleOwners ==
  ASSUME NEW rows, RowsWhole(rows), NEW us, NEW role
  PROVE  /\ RowsWhole(SetRole(rows, us, role))
         /\ LiveIn(SetRole(rows, us, role)) = LiveIn(rows)
         /\ role = "creator" =>
              Owners(SetRole(rows, us, role)) = Owners(rows) \cup (us \cap LiveIn(rows))
         /\ role # "creator" => Owners(SetRole(rows, us, role)) = Owners(rows) \ us
BY DEF RowsWhole, RowFields, SetRole, LiveIn, Owners

LEMMA JoinedOwners ==
  ASSUME NEW rows, RowsWhole(rows), NEW us, us \cap LiveIn(rows) = {}
  PROVE  /\ RowsWhole(RecoverOrInsert(rows, us))
         /\ Owners(RecoverOrInsert(rows, us)) = Owners(rows)
<1> PICK new : new = RecoverOrInsert(rows, us)
  OBVIOUS
<1>1. DOMAIN new = Members
  BY DEF RecoverOrInsert
<1>2. ASSUME NEW u \in Members
      PROVE  /\ DOMAIN new[u] = RowFields
             /\ u \notin us => new[u] = rows[u]
             /\ u \in us => new[u].role = "common"
  <2>1. CASE u \notin us
    BY <2>1 DEF RecoverOrInsert, RowsWhole
  <2>2. CASE u \in us /\ rows[u].in = "never"
    BY <2>2 DEF RecoverOrInsert, NewMember, RowFields
  <2>3. CASE u \in us /\ rows[u].in # "never"
    <3>1. PICK r : r = [rows[u] EXCEPT !.in = "live"]
      OBVIOUS
    <3>2. PICK s : s = [r EXCEPT !.role = "common"]
      OBVIOUS
    <3>3. new[u] = s
      BY <2>3, <3>1, <3>2 DEF RecoverOrInsert
    <3>4. DOMAIN r = RowFields
      BY <3>1 DEF RowsWhole
    <3>5. DOMAIN s = RowFields /\ s.role = "common"
      BY <3>2, <3>4 DEF RowFields
    <3>6. QED BY <2>3, <3>3, <3>5
  <2>4. QED BY <2>1, <2>2, <2>3
<1>3. RowsWhole(new)
  BY <1>1, <1>2 DEF RowsWhole
<1>4. Owners(new) = Owners(rows)
  BY <1>2 DEF Owners, LiveIn
<1>5. QED BY <1>3, <1>4

LEMMA SameOwners ==
  ASSUME NEW rows, NEW new, RowsWhole(rows), RowsWhole(new),
         \A u \in Members : new[u].in = rows[u].in /\ new[u].role = rows[u].role
  PROVE  LiveIn(new) = LiveIn(rows) /\ Owners(new) = Owners(rows)
BY DEF LiveIn, Owners

\* What was checked before the transaction still holds at it.
Saves == {"disband", "update", "disabled", "normal"} \cup Mutes
Succession(by, to) ==
  \A u : Owners(member) = {u} =>
    /\ by # u => to = {}
    /\ by = u => Live = {u} \/ \E v \in Live \ {u} : to = {v}
Owns(op, by, to) ==
  /\ op \in Kinds => by \in Members
  /\ op \in Saves => group.status # "none"
  /\ op \in Joins => to \cap Live = {}
  /\ op = "remove" => by = Admin \/ \A u : Owners(member) = {u} => u \notin to
  /\ op = "manager" => \A u : Owners(member) = {u} => u \notin to
  /\ op = "transfer" => /\ \E v \in Live : to = {v}
                        /\ \A u : Owners(member) = {u} => by = u
  /\ op = "exiting" => Succession(by, to)

RunRight(r) ==
  /\ r = Idle \/ r.pc \in {"run", "after"}
  /\ r.pc = "run" => /\ Owns(r.op, r.by, r.to)
                     /\ r.rows = member /\ DOMAIN r.group = GroupFields
                     /\ r.group.status = group.status

OwnerInv ==
  /\ RowsWhole(member) /\ DOMAIN group = GroupFields
  /\ DOMAIN request = Requests
  /\ \A v, w \in Requests : v # w => request[v] = Idle \/ request[w] = Idle
  /\ \A w \in Requests : DOMAIN request[w] = RequestFields /\ RunRight(request[w])

LEMMA OthersIdle ==
  ASSUME OwnerInv, NEW w \in Requests, request[w].pc # "idle"
  PROVE  \A v \in Requests \ {w} : request[v] = Idle
BY IdleIs DEF OwnerInv

\* The request w becomes r while the others rest.
LEMMA OwnerKept ==
  ASSUME OwnerInv, NEW w \in Requests, NEW r, request' = [request EXCEPT ![w] = r],
         \A v \in Requests \ {w} : request[v] = Idle,
         RowsWhole(member'), DOMAIN group' = GroupFields,
         DOMAIN r = RequestFields, RunRight(r)'
  PROVE  OwnerInv'
<1>1. /\ DOMAIN request' = Requests /\ request'[w] = r
      /\ \A v \in Requests \ {w} : request'[v] = Idle
  BY DEF OwnerInv
<1>2. ASSUME NEW v \in Requests
      PROVE  DOMAIN request'[v] = RequestFields /\ RunRight(request[v])'
  <2>1. CASE v = w
    BY <1>1, <2>1 DEF RunRight
  <2>2. CASE v # w
    BY <1>1, <2>2, IdleIs DEF RunRight
  <2>3. QED BY <2>1, <2>2
<1>3. QED BY <1>1, <1>2 DEF OwnerInv

LEMMA OwnerStart ==
  ASSUME OwnerInv, ~Overlap, NEW w \in Requests, NEW op, NEW by, NEW to, NEW on, NEW calls,
         Start(w, op, by, to, on, calls), Owns(op, by, to)
  PROVE  OwnerInv'
<1>1. \A v \in Requests : request[v].pc = "idle"
  BY DEF Start, Free
<1>2. PICK r : r = [pc |-> "run", op |-> op, by |-> by, to |-> to, on |-> on,
                    group |-> group, rows |-> member, calls |-> calls]
  OBVIOUS
<1>3. request' = [request EXCEPT ![w] = r] /\ group' = group /\ member' = member
  BY <1>2 DEF Start
<1>4. DOMAIN r = RequestFields /\ r.pc = "run" /\ r.op = op /\ r.by = by /\ r.to = to
      /\ r.group = group /\ r.rows = member
  BY <1>2 DEF RequestFields
<1>5. Owns(op, by, to)'
  BY <1>3 DEF Owns, Succession, Live
<1>6. RunRight(r)'
  BY <1>3, <1>4, <1>5 DEF RunRight, OwnerInv
<1>7. \A v \in Requests : request[v] = Idle
  BY <1>1 DEF OwnerInv, RunRight
<1>8. QED BY <1>3, <1>4, <1>6, <1>7, OwnerKept DEF OwnerInv

LEMMA OwnerCommit ==
  ASSUME OwnerInv, NEW w \in Requests, request[w].pc = "run",
         NEW g, NEW rows, NEW calls, Commit(w, g, rows, calls),
         DOMAIN g = GroupFields, RowsWhole(rows)
  PROVE  OwnerInv'
<1>1. \A v \in Requests \ {w} : request[v] = Idle
  BY OthersIdle
<1>2. group' = g /\ member' = rows
  BY DEF Commit
<1>3. CASE calls = <<>>
  <2>1. request' = [request EXCEPT ![w] = Idle]
    BY <1>3 DEF Commit
  <2>2. RunRight(Idle)'
    BY IdleIs DEF RunRight, Idle
  <2>3. QED BY <1>1, <1>2, <2>1, <2>2, IdleIs, OwnerKept
<1>4. CASE calls # <<>>
  <2>1. PICK q : q = [request[w] EXCEPT !.pc = "after"]
    OBVIOUS
  <2>2. PICK r : r = [q EXCEPT !.calls = calls]
    OBVIOUS
  <2>3. request' = [request EXCEPT ![w] = r]
    BY <1>4, <2>1, <2>2 DEF Commit
  <2>4. DOMAIN q = RequestFields /\ q.pc = "after"
    BY <2>1 DEF OwnerInv, RequestFields
  <2>5. DOMAIN r = RequestFields /\ r.pc = "after"
    BY <2>2, <2>4 DEF RequestFields
  <2>6. RunRight(r)'
    BY <2>5 DEF RunRight
  <2>7. QED BY <1>1, <1>2, <2>3, <2>5, <2>6, OwnerKept
<1>5. QED BY <1>3, <1>4

LEMMA OwnerRefuse ==
  ASSUME OwnerInv, NEW w \in Requests, request[w].pc # "idle",
         request' = [request EXCEPT ![w] = Idle], group' = group, member' = member
  PROVE  OwnerInv'
<1>1. RunRight(Idle)'
  BY IdleIs DEF RunRight, Idle
<1>2. QED BY <1>1, IdleIs, OthersIdle, OwnerKept DEF OwnerInv

LEMMA OwnerCall ==
  ASSUME OwnerInv, NEW w \in Requests, ReadManagers(w) \/ CallIM(w)
  PROVE  OwnerInv' /\ group' = group /\ member' = member
<1>1. /\ group' = group /\ member' = member /\ request[w].calls # <<>>
  BY DEF ReadManagers, CallIM
<1>2. request[w].pc \in {"run", "after"} /\ \A v \in Requests \ {w} : request[v] = Idle
  <2>1. request[w] # Idle
    BY <1>1 DEF Idle
  <2>2. request[w].pc \in {"run", "after"}
    BY <2>1 DEF OwnerInv, RunRight
  <2>3. QED BY <2>2, OthersIdle
<1>3. ASSUME NEW calls, request' = [request EXCEPT ![w] = [request[w] EXCEPT !.calls = calls]]
      PROVE  OwnerInv'
  <2>1. PICK p : p = request[w]
    OBVIOUS
  <2>2. PICK r : r = [p EXCEPT !.calls = calls]
    OBVIOUS
  <2>3. DOMAIN p = RequestFields /\ RunRight(p)
    BY <2>1 DEF OwnerInv
  <2>4. DOMAIN r = RequestFields /\ r.pc = p.pc /\ r.op = p.op /\ r.by = p.by /\ r.to = p.to
        /\ r.group = p.group /\ r.rows = p.rows
    BY <2>2, <2>3 DEF RequestFields
  <2>5. Owns(p.op, p.by, p.to) => Owns(r.op, r.by, r.to)'
    BY <1>1, <2>4 DEF Owns, Succession, Live
  <2>6. RunRight(r)'
    BY <1>1, <1>2, <2>1, <2>3, <2>4, <2>5 DEF RunRight
  <2>7. QED BY <1>1, <1>2, <1>3, <2>1, <2>2, <2>4, <2>6, OwnerKept DEF OwnerInv
<1>4. CASE ReadManagers(w)
  <2>1. PICK v : v = ManagersAndCreator
    OBVIOUS
  <2>2. PICK calls : calls = <<Call("whitelist", v)>> \o Tail(request[w].calls)
    OBVIOUS
  <2>3. request' = [request EXCEPT ![w] = [request[w] EXCEPT !.calls = calls]]
    BY <1>4, <2>1, <2>2 DEF ReadManagers
  <2>4. QED BY <1>1, <1>3, <2>3
<1>5. CASE CallIM(w)
  <2>1. \/ request' = [request EXCEPT ![w] = Idle]
        \/ request' = [request EXCEPT ![w] = [request[w] EXCEPT !.calls = Tail(request[w].calls)]]
    BY <1>5 DEF CallIM
  <2>2. QED BY <1>1, <1>2, <1>3, <2>1, OwnerRefuse
<1>6. QED BY <1>4, <1>5

\* What OwnerStays says of a step.
OwnerStep ==
  (group.status = "none" \/ OneOwner) /\ group'.status # "none"
    /\ group'.kind = "user" /\ ~RemovedByAdmin
    => OneOwner' \/ Live' = {}

LEMMA StepIs ==
  ASSUME IsFiniteSet(Members), group.status = "none" => group'.status = "none",
         ~RemovedByAdmin =>
           \A u \in Members : Owners(member) = {u} =>
             (\E v \in Members : Owners(member') = {v}) \/ LiveIn(member') = {}
  PROVE  OwnerStep
<1>1. Live' = LiveIn(member')
  BY DEF Live, LiveIn
<1>2. QED BY <1>1, OneOwnerIs, OneOwnerNext DEF OwnerStep

LEMMA RunIs ==
  ASSUME OwnerInv, NEW w \in Requests, NEW ops, Ready(w, ops)
  PROVE  /\ request[w].pc = "run" /\ request[w].op \in ops
         /\ Owns(request[w].op, request[w].by, request[w].to)
         /\ RowsWhole(member) /\ DOMAIN group = GroupFields
         /\ request[w].rows = member /\ DOMAIN request[w].group = GroupFields
         /\ request[w].group.status = group.status
BY DEF Ready, OwnerInv, RunRight

\* A transaction on the rows of the members, and one on the row of the group.
LEMMA RowsStep ==
  ASSUME IsFiniteSet(Members), OwnerInv, NEW w \in Requests, NEW ops, Ready(w, ops),
         NEW rows, NEW calls, Commit(w, group, rows, calls), RowsWhole(rows),
         ~RemovedByAdmin =>
           \A u \in Members : Owners(member) = {u} =>
             (\E v \in Members : Owners(rows) = {v}) \/ LiveIn(rows) = {}
  PROVE  OwnerInv' /\ OwnerStep
<1>1. group' = group /\ member' = rows
  BY DEF Commit
<1>2. OwnerInv'
  BY RunIs, OwnerCommit
<1>3. OwnerStep
  BY <1>1, StepIs
<1>4. QED BY <1>2, <1>3

LEMMA SaveStep ==
  ASSUME IsFiniteSet(Members), OwnerInv, NEW w \in Requests, NEW ops, Ready(w, ops),
         ops \subseteq Saves, NEW g, NEW calls, Commit(w, g, member, calls),
         DOMAIN g = GroupFields
  PROVE  OwnerInv' /\ OwnerStep
<1>1. group' = g /\ member' = member
  BY DEF Commit
<1>2. OwnerInv'
  BY RunIs, OwnerCommit
<1>3. group.status # "none"
  BY RunIs DEF Owns
<1>4. OwnerStep
  BY <1>1, <1>3, StepIs
<1>5. QED BY <1>2, <1>4

LEMMA CreateOwner ==
  ASSUME IsFiniteSet(Members), OwnerInv, NEW w \in Requests, GroupCreateTx(w)
  PROVE  OwnerInv' /\ OwnerStep
<1> PICK p : p = request[w]
  OBVIOUS
<1> PICK g : g = [NoGroup EXCEPT !.status = "normal", !.kind = p.op, !.invite = p.on]
  OBVIOUS
<1> PICK rows : rows = [u \in Members |-> IF u = p.by THEN NewMember("creator")
                               ELSE IF u \in p.to THEN NewMember("common")
                                    ELSE NoMember]
  OBVIOUS
<1>1. Ready(w, Kinds) /\ Commit(w, g, rows, <<>>)
  BY DEF GroupCreateTx
<1>2. DOMAIN g = GroupFields
  BY DEF NoGroup, GroupFields
<1>3. p.by \in Members
  BY <1>1, RunIs DEF Owns
<1>4. RowsWhole(rows)
  BY DEF RowsWhole, RowFields, NewMember, NoMember
<1>5. Owners(rows) = {p.by}
  BY <1>3 DEF Owners, LiveIn, NewMember, NoMember
<1>6. OwnerInv'
  BY <1>1, <1>2, <1>4, RunIs, OwnerCommit
<1>7. member' = rows
  BY <1>1 DEF Commit
<1>8. OneOwner'
  BY <1>3, <1>5, <1>7, OneOwnerNext
<1>9. QED BY <1>6, <1>8 DEF OwnerStep

LEMMA SavesOwner ==
  ASSUME IsFiniteSet(Members), OwnerInv, NEW w \in Requests,
         DisbandTx(w) \/ ForbiddenTx(w) \/ GroupUpdateTx(w) \/ LeftBanGroupTx(w)
  PROVE  OwnerInv' /\ OwnerStep
<1> PICK p : p = request[w]
  OBVIOUS
<1>0. DOMAIN group = GroupFields
  BY DEF OwnerInv
<1>1. CASE DisbandTx(w)
  <2>1. PICK h : h = WriteBack([p.group EXCEPT !.status = "disband"])
    OBVIOUS
  <2>2. PICK g : g = [h EXCEPT !.event = "wait"]
    OBVIOUS
  <2>3. Ready(w, {"disband"}) /\ Commit(w, g, member, <<>>)
    BY <1>1, <2>1, <2>2 DEF DisbandTx
  <2>4. DOMAIN h = GroupFields
    BY <1>0, <2>1, WriteBackIs
  <2>5. DOMAIN g = GroupFields
    BY <2>2, <2>4
  <2>6. QED BY <2>3, <2>5, SaveStep DEF Saves
<1>2. CASE ForbiddenTx(w)
  <2>1. PICK h : h = [p.group EXCEPT !.forbidden = p.on]
    OBVIOUS
  <2>2. PICK g : g = WriteBack(h)
    OBVIOUS
  <2>3. PICK calls : calls = IF p.op = "forbid" THEN <<>>
            ELSE IF p.on THEN <<Call("managers", {})>> ELSE <<Call("whitelist", {})>>
    OBVIOUS
  <2>4. Ready(w, Mutes) /\ Commit(w, g, member, calls)
    BY <1>2, <2>1, <2>2, <2>3 DEF ForbiddenTx, Mutes
  <2>5. DOMAIN g = GroupFields
    BY <1>0, <2>2, WriteBackIs
  <2>6. QED BY <2>4, <2>5, SaveStep DEF Saves
<1>3. CASE GroupUpdateTx(w)
  <2>1. PICK g : g = WriteBack([p.group EXCEPT !.invite = p.on])
    OBVIOUS
  <2>2. Ready(w, {"update"}) /\ Commit(w, g, member, <<>>)
    BY <1>3, <2>1 DEF GroupUpdateTx
  <2>3. DOMAIN g = GroupFields
    BY <1>0, <2>1, WriteBackIs
  <2>4. QED BY <2>2, <2>3, SaveStep DEF Saves
<1>4. CASE LeftBanGroupTx(w)
  <2>1. PICK g : g = WriteBack([p.group EXCEPT !.status = p.op])
    OBVIOUS
  <2>2. Ready(w, {"disabled", "normal"}) /\ Commit(w, g, member, <<>>)
    BY <1>4, <2>1 DEF LeftBanGroupTx
  <2>3. DOMAIN g = GroupFields
    BY <1>0, <2>1, WriteBackIs
  <2>4. QED BY <2>2, <2>3, SaveStep DEF Saves
<1>5. QED BY <1>1, <1>2, <1>3, <1>4

LEMMA JoinOwner ==
  ASSUME IsFiniteSet(Members), OwnerInv, NEW w \in Requests, JoinTx(w)
  PROVE  OwnerInv' /\ OwnerStep
<1> PICK p : p = request[w]
  OBVIOUS
<1> PICK rows : rows = RecoverOrInsert(member, p.to)
  OBVIOUS
<1>1. Ready(w, Joins)
  BY DEF JoinTx, Joins
<1>2. CASE Refuse(w)
  <2>1. request[w].pc # "idle" /\ group' = group /\ member' = member
        /\ request' = [request EXCEPT ![w] = Idle]
    BY <1>1, <1>2, RunIs DEF Refuse
  <2>2. QED BY <2>1, OwnerRefuse, StepIs
<1>3. CASE Commit(w, group, rows, <<>>)
  <2>1. p.to \cap LiveIn(member) = {} /\ RowsWhole(member)
    BY <1>1, RunIs DEF Owns, Live
  <2>2. RowsWhole(rows) /\ Owners(rows) = Owners(member)
    BY <2>1, JoinedOwners
  <2>3. QED BY <1>1, <1>3, <2>2, RowsStep
<1>4. QED BY <1>2, <1>3 DEF JoinTx

LEMMA RemoveOwner ==
  ASSUME IsFiniteSet(Members), OwnerInv, NEW w \in Requests, MemberRemoveTx(w)
  PROVE  OwnerInv' /\ OwnerStep
<1> PICK p : p = request[w]
  OBVIOUS
<1> PICK rows : rows = DeleteMembers(member, p.to)
  OBVIOUS
<1> PICK calls : calls = <<Call("unsubscribe", p.to)>>
  OBVIOUS
<1>1. Ready(w, {"remove"}) /\ Commit(w, group, rows, calls)
  BY DEF MemberRemoveTx
<1>2. RowsWhole(rows) /\ Owners(rows) = Owners(member) \ p.to
  BY <1>1, RunIs, DeletedOwners
<1>3. ASSUME ~RemovedByAdmin, NEW u \in Members, Owners(member) = {u}
      PROVE  Owners(rows) = {u}
  <2>1. p.by # Admin
    BY <1>1, <1>3 DEF RemovedByAdmin
  <2>2. u \notin p.to
    BY <1>1, <1>3, <2>1, RunIs DEF Owns
  <2>3. QED BY <1>2, <1>3, <2>2
<1>4. QED BY <1>1, <1>2, <1>3, RowsStep

LEMMA ExitOwner ==
  ASSUME IsFiniteSet(Members), OwnerInv, NEW w \in Requests, GroupExitTx(w)
  PROVE  OwnerInv' /\ OwnerStep
<1> PICK p : p = request[w]
  OBVIOUS
<1> PICK set : set = SetRole(member, p.to, "creator")
  OBVIOUS
<1> PICK rows : rows = DeleteMembers(set, {p.by})
  OBVIOUS
<1>1. Ready(w, {"exiting"}) /\ Commit(w, group, rows, <<>>)
  BY DEF GroupExitTx
<1>2. /\ RowsWhole(set) /\ LiveIn(set) = Live
      /\ Owners(set) = Owners(member) \cup (p.to \cap Live)
  BY <1>1, RunIs, RoleOwners DEF Live
<1>3. /\ RowsWhole(rows) /\ LiveIn(rows) = Live \ {p.by}
      /\ Owners(rows) = (Owners(member) \cup (p.to \cap Live)) \ {p.by}
  BY <1>2, DeletedOwners
<1>4. ASSUME NEW u \in Members, Owners(member) = {u}
      PROVE  (\E v \in Members : Owners(rows) = {v}) \/ LiveIn(rows) = {}
  <2>1. /\ p.by # u => p.to = {}
        /\ p.by = u => Live = {u} \/ \E v \in Live \ {u} : p.to = {v}
    BY <1>1, <1>4, RunIs DEF Owns, Succession
  <2>2. CASE p.by # u
    BY <1>3, <1>4, <2>1, <2>2
  <2>3. CASE p.by = u /\ Live = {u}
    BY <1>3, <2>3
  <2>4. CASE p.by = u /\ \E v \in Live \ {u} : p.to = {v}
    <3>1. PICK v \in Live \ {u} : p.to = {v}
      BY <2>4
    <3>2. v \in Members
      BY <3>1 DEF Live, LiveIn
    <3>3. Owners(rows) = {v}
      BY <1>3, <1>4, <2>4, <3>1
    <3>4. QED BY <3>2, <3>3
  <2>5. QED BY <2>1, <2>2, <2>3, <2>4
<1>5. QED BY <1>1, <1>3, <1>4, RowsStep

LEMMA ExitReadOwner ==
  ASSUME IsFiniteSet(Members), OwnerInv, NEW w \in Requests, GroupExitRead(w)
  PROVE  OwnerInv' /\ OwnerStep
<1> PICK p : p = request[w]
  OBVIOUS
<1>1. Ready(w, {"exit"}) /\ group' = group /\ member' = member
  BY DEF GroupExitRead, Refuse
<1>2. /\ p.op = "exit" /\ p.pc = "run" /\ DOMAIN p = RequestFields /\ RunRight(p)
      /\ \A v \in Requests \ {w} : request[v] = Idle
  BY <1>1, RunIs, OthersIdle DEF OwnerInv
<1>3. OwnerStep
  BY <1>1, StepIs
<1>4. CASE p.by \notin Live
  BY <1>1, <1>2, <1>3, <1>4, OwnerRefuse DEF GroupExitRead, Refuse
<1>5. CASE p.by \in Live
  <2>1. PICK next \in SUBSET {u \in Live : member[u].role # "creator"} :
          /\ IF /\ IsGroupCreator(p.by)
                /\ \E u \in Live : member[u].role # "creator"
             THEN Cardinality(next) = 1 ELSE next = {}
          /\ request' = [request EXCEPT ![w].op = "exiting", ![w].to = next]
    BY <1>5 DEF GroupExitRead
  <2>2. PICK q : q = [p EXCEPT !.op = "exiting"]
    OBVIOUS
  <2>3. PICK r : r = [q EXCEPT !.to = next]
    OBVIOUS
  <2>4. PICK x : x = [request EXCEPT ![w] = q]
    OBVIOUS
  <2>5. request' = [x EXCEPT ![w].to = next] /\ x = [request EXCEPT ![w].op = "exiting"]
    BY <2>1, <2>2, <2>4
  <2>6. DOMAIN x = Requests /\ x[w] = q /\ DOMAIN request = Requests
    BY <2>4 DEF OwnerInv
  <2>7. request' = [x EXCEPT ![w] = r]
    BY <2>3, <2>5, <2>6
  <2>8. request' = [request EXCEPT ![w] = r]
    BY <2>4, <2>6, <2>7
  <2>9. DOMAIN q = RequestFields /\ q.op = "exiting" /\ q.pc = "run" /\ q.by = p.by
        /\ q.group = p.group /\ q.rows = p.rows
    BY <1>2, <2>2 DEF RequestFields
  <2>10. DOMAIN r = RequestFields /\ r.op = "exiting" /\ r.pc = "run" /\ r.by = p.by
        /\ r.group = p.group /\ r.rows = p.rows /\ r.to = next
    BY <2>3, <2>9 DEF RequestFields
  <2>11. IsFiniteSet(next)
    BY <2>1, FS_Subset DEF Live, LiveIn
  <2>12. ASSUME NEW u, Owners(member) = {u}
         PROVE  /\ p.by # u => next = {}
                /\ p.by = u => Live = {u} \/ \E v \in Live \ {u} : next = {v}
    <3>1. \A v \in Live : member[v].role = "creator" <=> v = u
      BY <2>12 DEF Owners, Live
    <3>2. CASE p.by # u
      BY <2>1, <3>1, <3>2 DEF IsGroupCreator
    <3>3. CASE p.by = u /\ \A v \in Live : member[v].role = "creator"
      <4>1. Live = {u}
        BY <1>5, <3>1, <3>3
      <4>2. QED BY <3>3, <4>1
    <3>4. CASE p.by = u /\ \E v \in Live : member[v].role # "creator"
      <4>1. Cardinality(next) = 1
        BY <1>5, <2>1, <3>1, <3>4 DEF IsGroupCreator
      <4>2. PICK v : next = {v}
        BY <2>11, <4>1, FS_Singleton
      <4>3. v \in Live \ {u}
        BY <2>1, <3>1, <4>2
      <4>4. QED BY <3>4, <4>2, <4>3
    <3>5. QED BY <3>2, <3>3, <3>4
  <2>13. Succession(p.by, next)
    BY <2>12 DEF Succession
  <2>14. Succession(p.by, next)'
    BY <1>1, <2>13 DEF Succession, Live
  <2>15. Owns(r.op, r.by, r.to)'
    BY <2>10, <2>14 DEF Owns, Kinds, Saves, Mutes, Joins
  <2>16. RunRight(r)'
    BY <1>1, <1>2, <2>10, <2>15 DEF RunRight
  <2>17. OwnerInv'
    BY <1>1, <1>2, <2>8, <2>10, <2>16, OwnerKept DEF OwnerInv
  <2>18. QED BY <1>3, <2>17
<1>6. QED BY <1>4, <1>5

LEMMA ManagerOwner ==
  ASSUME IsFiniteSet(Members), OwnerInv, NEW w \in Requests, ManagerTx(w)
  PROVE  OwnerInv' /\ OwnerStep
<1> PICK p : p = request[w]
  OBVIOUS
<1> PICK role : role = IF p.on THEN "manager" ELSE "common"
  OBVIOUS
<1> PICK rows : rows = SetRole(member, p.to, role)
  OBVIOUS
<1> PICK calls : calls = IF p.group.forbidden THEN <<Call("managers", {})>> ELSE <<>>
  OBVIOUS
<1>1. Ready(w, {"manager"}) /\ Commit(w, group, rows, calls)
  BY DEF ManagerTx
<1>2. role # "creator"
  OBVIOUS
<1>3. RowsWhole(rows) /\ Owners(rows) = Owners(member) \ p.to
  BY <1>1, <1>2, RunIs, RoleOwners
<1>4. ASSUME NEW u \in Members, Owners(member) = {u} PROVE Owners(rows) = {u}
  <2>1. u \notin p.to
    BY <1>1, <1>4, RunIs DEF Owns
  <2>2. QED BY <1>3, <1>4, <2>1
<1>5. QED BY <1>1, <1>3, <1>4, RowsStep

LEMMA TransferOwner ==
  ASSUME IsFiniteSet(Members), OwnerInv, NEW w \in Requests, TransferTx(w)
  PROVE  OwnerInv' /\ OwnerStep
<1>p. PICK p : p = request[w]
  OBVIOUS
<1>o. PICK old : old = SetRole(member, {p.by}, "common")
  OBVIOUS
<1>s. PICK set : set = SetRole(old, p.to, "creator")
  OBVIOUS
<1>r. PICK rows : rows = [u \in Members |-> IF u \in p.to \cap Live
                               THEN [set[u] EXCEPT !.muted = FALSE]
                               ELSE set[u]]
  OBVIOUS
<1>1. Ready(w, {"transfer"})
  BY DEF TransferTx
<1>2. PICK calls : Commit(w, group, rows, calls)
  BY <1>p, <1>o, <1>s, <1>r DEF TransferTx
<1>3. RowsWhole(old) /\ LiveIn(old) = Live /\ Owners(old) = Owners(member) \ {p.by}
  BY <1>1, <1>o, RunIs, RoleOwners DEF Live
<1>4. /\ RowsWhole(set) /\ LiveIn(set) = Live
      /\ Owners(set) = (Owners(member) \ {p.by}) \cup (p.to \cap Live)
  <2>1. /\ RowsWhole(set) /\ LiveIn(set) = LiveIn(old)
        /\ Owners(set) = Owners(old) \cup (p.to \cap LiveIn(old))
    BY <1>3, <1>s, RoleOwners
  <2>2. QED BY <1>3, <2>1
<1>5. RowsWhole(rows) /\ Owners(rows) = Owners(set)
  <2>1. DOMAIN rows = Members /\ \A u \in Members : DOMAIN set[u] = RowFields
    BY <1>4, <1>r DEF RowsWhole
  <2>2. ASSUME NEW u \in Members
        PROVE  /\ DOMAIN rows[u] = RowFields
               /\ rows[u].in = set[u].in /\ rows[u].role = set[u].role
    <3>1. rows[u] = set[u] \/ rows[u] = [set[u] EXCEPT !.muted = FALSE]
      BY <1>r
    <3>2. QED BY <2>1, <3>1 DEF RowFields
  <2>3. RowsWhole(rows)
    BY <2>1, <2>2 DEF RowsWhole
  <2>4. QED BY <1>4, <2>2, <2>3, SameOwners
<1>6. ASSUME NEW u \in Members, Owners(member) = {u}
      PROVE  \E v \in Members : Owners(rows) = {v}
  <2>1. p.by = u
    BY <1>1, <1>6, <1>p, RunIs DEF Owns
  <2>2. PICK v \in Live : p.to = {v}
    BY <1>1, <1>p, RunIs DEF Owns
  <2>3. Owners(rows) = {v}
    BY <1>4, <1>5, <1>6, <2>1, <2>2
  <2>4. v \in Members
    BY <2>2 DEF Live, LiveIn
  <2>5. QED BY <2>3, <2>4
<1>7. QED BY <1>1, <1>2, <1>5, <1>6, RowsStep

LEMMA SilenceOwner ==
  ASSUME IsFiniteSet(Members), OwnerInv, NEW w \in Requests,
         BlacklistTx(w) \/ UpdateMemberTx(w)
  PROVE  OwnerInv' /\ OwnerStep
<1> PICK p : p = request[w]
  OBVIOUS
<1>1. ASSUME NEW ops, Ready(w, ops), NEW rows, NEW calls, Commit(w, group, rows, calls),
             RowsWhole(rows),
             \A u \in Members : rows[u].in = member[u].in /\ rows[u].role = member[u].role
      PROVE  OwnerInv' /\ OwnerStep
  <2>1. Owners(rows) = Owners(member)
    BY <1>1, SameOwners DEF OwnerInv
  <2>2. QED BY <1>1, <2>1, RowsStep
<1>2. CASE BlacklistTx(w)
  <2>1. PICK rows : rows = [u \in Members |-> IF u \in p.to /\ member[u].in # "never"
                               THEN [member[u] EXCEPT !.blocked = p.on]
                               ELSE member[u]]
    OBVIOUS
  <2>2. Ready(w, {"blacklist"}) /\ \E calls : Commit(w, group, rows, calls)
    BY <1>2, <2>1 DEF BlacklistTx
  <2>3. RowsWhole(rows) /\ \A u \in Members :
          rows[u].in = member[u].in /\ rows[u].role = member[u].role
    BY <2>1 DEF OwnerInv, RowsWhole, RowFields
  <2>4. QED BY <1>1, <2>2, <2>3
<1>3. CASE UpdateMemberTx(w)
  <2>1. PICK u : u = CHOOSE v \in p.to : TRUE
    OBVIOUS
  <2>2. PICK mute : mute = [p.rows[u] EXCEPT !.muted = p.on]
    OBVIOUS
  <2>3. Ready(w, {"remark", "mute", "muteOver"})
    BY <1>3 DEF UpdateMemberTx
  <2>4. \/ \E calls : Commit(w, group, UpdateMember(u, p.rows[u]), calls)
        \/ \E calls : Commit(w, group, UpdateMember(u, mute), calls)
    BY <1>3, <2>1, <2>2 DEF UpdateMemberTx
  <2>5. ASSUME NEW row, u \in Members => /\ DOMAIN row = RowFields
                                        /\ row.in = member[u].in /\ row.role = member[u].role,
               \E calls : Commit(w, group, UpdateMember(u, row), calls)
        PROVE  OwnerInv' /\ OwnerStep
    <3>1. PICK new : new = [row EXCEPT !.blocked = member[u].blocked]
      OBVIOUS
    <3>2. PICK rows : rows = [member EXCEPT ![u] = new]
      OBVIOUS
    <3>3. \E calls : Commit(w, group, rows, calls)
      BY <2>5, <3>1, <3>2 DEF UpdateMember
    <3>4. u \in Members => /\ DOMAIN new = RowFields
                           /\ new.in = member[u].in /\ new.role = member[u].role
      BY <2>5, <3>1 DEF RowFields
    <3>5. RowsWhole(rows) /\ \A v \in Members :
            rows[v].in = member[v].in /\ rows[v].role = member[v].role
      BY <3>2, <3>4 DEF OwnerInv, RowsWhole
    <3>6. QED BY <1>1, <2>3, <3>3, <3>5
  <2>6. p.rows = member /\ RowsWhole(member)
    BY <2>3, RunIs
  <2>7. u \in Members => /\ DOMAIN mute = RowFields
                         /\ mute.in = member[u].in /\ mute.role = member[u].role
    BY <2>2, <2>6 DEF RowsWhole, RowFields
  <2>8. u \in Members => DOMAIN p.rows[u] = RowFields /\ p.rows[u] = member[u]
    BY <2>6 DEF RowsWhole
  <2>9. QED BY <2>4, <2>5, <2>7, <2>8
<1>4. QED BY <1>2, <1>3

\* A request may begin where what it has checked is so.
Begins == \E w \in Requests : \E op, by, to, on, calls :
            Start(w, op, by, to, on, calls) /\ Owns(op, by, to)

LEMMA BeginOwner ==
  ASSUME IsFiniteSet(Members), OwnerInv, ~Overlap, Begins
  PROVE  OwnerInv' /\ OwnerStep
<1>1. PICK w \in Requests : \E op, by, to, on, calls :
        Start(w, op, by, to, on, calls) /\ Owns(op, by, to)
  BY DEF Begins
<1>2. PICK op, by, to, on, calls : Start(w, op, by, to, on, calls) /\ Owns(op, by, to)
  BY <1>1
<1>3. group' = group /\ member' = member
  BY <1>2 DEF Start
<1>4. QED BY <1>2, <1>3, OwnerStart, StepIs

LEMMA BeginIs ==
  ASSUME NEW w \in Requests, NEW op, NEW by, NEW to, NEW on, NEW calls,
         Start(w, op, by, to, on, calls), Owns(op, by, to)
  PROVE  Begins
BY DEF Begins

LEMMA AdminBegins ==
  ASSUME NEW w \in Requests, OfAdmin(w)
  PROVE  Begins
<1>1. ASSUME NEW on, AdminForbidden(w, on) PROVE Begins
  <2>1. Owns("forbid", Admin, {})
    BY <1>1 DEF AdminForbidden, Owns, Kinds, Saves, Mutes, Joins
  <2>2. PICK calls : Start(w, "forbid", Admin, {}, on, calls)
    BY <1>1 DEF AdminForbidden
  <2>3. QED BY <2>1, <2>2, BeginIs
<1>2. ASSUME NEW status \in {"disabled", "normal"}, LeftBanGroup(w, status) PROVE Begins
  <2>1. Owns(status, Admin, {})
    BY <1>2 DEF LeftBanGroup, Owns, Kinds, Saves, Mutes, Joins
  <2>2. PICK calls : Start(w, status, Admin, {}, FALSE, calls)
    BY <1>2 DEF LeftBanGroup
  <2>3. QED BY <2>1, <2>2, BeginIs
<1>3. ASSUME NEW to, Start(w, "remove", Admin, to, FALSE, <<>>) PROVE Begins
  <2>1. Owns("remove", Admin, to)
    BY DEF Owns, Kinds, Saves, Mutes, Joins
  <2>2. QED BY <1>3, <2>1, BeginIs
<1>4. ASSUME NEW u \in Members, OrgEmployeeAdd(w, u) PROVE Begins
  <2>1. Owns("employee", Admin, {u})
    BY <1>4 DEF OrgEmployeeAdd, Owns, Kinds, Saves, Mutes, Joins
  <2>2. PICK calls : Start(w, "employee", Admin, {u}, FALSE, calls)
    BY <1>4 DEF OrgEmployeeAdd
  <2>3. QED BY <2>1, <2>2, BeginIs
<1>5. ASSUME NEW u \in Members, CheckForbiddenLoop(w, u) PROVE Begins
  <2>1. Owns("muteOver", Admin, {u})
    BY DEF Owns, Kinds, Saves, Mutes, Joins
  <2>2. QED BY <1>5, <2>1, BeginIs DEF CheckForbiddenLoop
<1>6. QED BY <1>1, <1>2, <1>3, <1>4, <1>5 DEF OfAdmin, AdminRemove, OrgEmployeeExit

LEMMA AddBegins ==
  ASSUME NEW w \in Requests, NEW op \in Joins, NEW by, NEW to, AddMembers(w, op, by, to)
  PROVE  Begins
<1>1. PICK us : us = Addable(to)
  OBVIOUS
<1>2. us \cap Live = {}
  BY <1>1 DEF Addable
<1>3. Owns(op, by, us)
  BY <1>2 DEF Owns, Kinds, Saves, Mutes, Joins
<1>4. PICK calls : Start(w, op, by, us, FALSE, calls)
  BY <1>1 DEF AddMembers
<1>5. QED BY <1>3, <1>4, BeginIs

\* Operations that concern no owner.
LEMMA OtherBegins ==
  ASSUME NEW w \in Requests, NEW op, NEW by, NEW to, NEW on, NEW calls,
         Start(w, op, by, to, on, calls),
         op \in Saves => group.status # "none",
         op \notin Kinds \cup Joins \cup {"remove", "manager", "transfer", "exiting"}
  PROVE  Begins
BY BeginIs DEF Owns

LEMMA CreateBegins ==
  ASSUME NEW w \in Requests, NEW kind \in Kinds, NEW by \in Members, NEW to,
         Create(w, kind, by, to)
  PROVE  Begins
<1>1. Owns(kind, by, to)
  BY DEF Owns, Kinds, Saves, Mutes, Joins
<1>2. PICK on, calls : Start(w, kind, by, to, on, calls)
  BY DEF Create
<1>3. QED BY <1>1, <1>2, BeginIs

LEMMA CreatorIs ==
  ASSUME NEW u, Owners(member) = {u}
  PROVE  \A v \in Members : /\ IsGroupCreator(v) <=> v = u
                            /\ v \in Live => (member[v].role = "creator" <=> v = u)
                            /\ u \in Live
BY DEF Owners, IsGroupCreator, Live

LEMMA MemberBegins ==
  ASSUME NEW w \in Requests, NEW by \in Members, OfMember(w, by)
  PROVE  Begins
<1>1. ASSUME NEW to, \/ SystemGroupCreate(w, by) \/ GroupCreate(w, by, to)
                     \/ HandleOrgOrDeptCreateEvent(w, by, to)
      PROVE  Begins
  BY <1>1, CreateBegins
     DEF SystemGroupCreate, GroupCreate, HandleOrgOrDeptCreateEvent, Kinds
<1>2. ASSUME Disband(w, by) PROVE Begins
  <2>1. Start(w, "disband", by, {}, FALSE, <<>>) /\ group.status # "none"
    BY <1>2 DEF Disband, GroupFound
  <2>2. QED BY <2>1, OtherBegins DEF Kinds, Joins
<1>3. ASSUME GroupExit(w, by) PROVE Begins
  <2>1. PICK calls : Start(w, "exit", by, {}, FALSE, calls)
    BY <1>3 DEF GroupExit
  <2>2. QED BY <2>1, OtherBegins DEF Kinds, Joins, Saves, Mutes
<1>4. ASSUME NEW u, NEW to, \/ InviteSure(w, by) \/ HandleRegisterUserEvent(w, by, u)
                            \/ MemberAdd(w, by, to)
      PROVE  Begins
  <2>1. "add" \in Joins /\ "sure" \in Joins
    BY DEF Joins
  <2>2. PICK of, us : of = invite.by /\ us = invite.uids
    OBVIOUS
  <2>3. QED BY <1>4, <2>1, <2>2, AddBegins DEF InviteSure, HandleRegisterUserEvent, MemberAdd
<1>5. ASSUME NEW u, GroupScanJoin(w, by, u) PROVE Begins
  <2>1. Owns("scan", by, {u})
    BY <1>5 DEF GroupScanJoin, Owns, Kinds, Saves, Mutes, Joins
  <2>2. PICK calls : Start(w, "scan", by, {u}, FALSE, calls)
    BY <1>5 DEF GroupScanJoin
  <2>3. QED BY <2>1, <2>2, BeginIs
<1>6. ASSUME NEW u \in Members, TransferGrouper(w, by, u) PROVE Begins
  <2>1. u \in Live /\ IsGroupCreator(by)
    BY <1>6 DEF TransferGrouper
  <2>2. \A v : Owners(member) = {v} => by = v
    BY <2>1, CreatorIs
  <2>3. Owns("transfer", by, {u})
    BY <2>1, <2>2 DEF Owns, Kinds, Saves, Mutes, Joins
  <2>4. PICK on : on = member[u].muted
    OBVIOUS
  <2>5. Start(w, "transfer", by, {u}, on, <<>>)
    BY <1>6, <2>4 DEF TransferGrouper
  <2>6. QED BY <2>3, <2>5, BeginIs
<1>7. ASSUME NEW u, MemberUpdate(w, by, u) PROVE Begins
  <2>1. Start(w, "remark", by, {u}, FALSE, <<>>)
    BY <1>7 DEF MemberUpdate
  <2>2. QED BY <2>1, OtherBegins DEF Kinds, Joins, Saves, Mutes
<1>8. ASSUME NEW to \in SUBSET Members, MemberRemove(w, by, to) PROVE Begins
  <2>1. \A u : Owners(member) = {u} => u \notin to
    <3>1. SUFFICES ASSUME NEW u, Owners(member) = {u}, u \in to PROVE FALSE
      OBVIOUS
    <3>2. u \in to \cap Live /\ member[u].role = "creator" /\ by # u
      BY <1>8, <3>1, CreatorIs DEF MemberRemove
    <3>3. ~IsGroupCreator(by)
      BY <3>1, <3>2, CreatorIs
    <3>4. QED BY <1>8, <3>2, <3>3 DEF MemberRemove
  <2>2. Owns("remove", by, to)
    BY <2>1 DEF Owns, Kinds, Saves, Mutes, Joins
  <2>3. QED BY <1>8, <2>2, BeginIs DEF MemberRemove
<1>9. ASSUME NEW to, ManagerAdd(w, by, to) \/ ManagerRemove(w, by, to) PROVE Begins
  <2>1. IsGroupCreator(by) /\ by \notin to
    BY <1>9 DEF ManagerAdd, ManagerRemove
  <2>2. \A u : Owners(member) = {u} => u \notin to
    BY <2>1, CreatorIs
  <2>3. Owns("manager", by, to)
    BY <2>2 DEF Owns, Kinds, Saves, Mutes, Joins
  <2>4. QED BY <1>9, <2>3, BeginIs DEF ManagerAdd, ManagerRemove
<1>10. ASSUME NEW to, NEW on, Blacklist(w, by, to, on) PROVE Begins
  BY <1>10, OtherBegins DEF Blacklist, Kinds, Joins, Saves, Mutes
<1>11. ASSUME NEW on, GroupForbidden(w, by, on) PROVE Begins
  <2>1. PICK calls : Start(w, "forbid", by, {}, on, calls)
    BY <1>11 DEF GroupForbidden
  <2>2. group.status # "none"
    BY <1>11 DEF GroupForbidden, GroupFound
  <2>3. QED BY <2>1, <2>2, OtherBegins DEF Kinds, Joins
<1>12. ASSUME NEW on, \/ SettingForbidden(w, by, on) \/ GroupUpdate(w, by, on)
                      \/ SettingUpdate(w, by, on)
       PROVE  Begins
  BY <1>12, OtherBegins DEF SettingForbidden, GroupUpdate, SettingUpdate, GroupFound, Kinds, Joins
<1>13. ASSUME NEW on, NEW u, ForbiddenWithGroupMember(w, by, u, on) PROVE Begins
  BY <1>13, OtherBegins DEF ForbiddenWithGroupMember, Kinds, Joins, Saves, Mutes
<1>14. QED BY <1>1, <1>2, <1>3, <1>4, <1>5, <1>6, <1>7, <1>8, <1>9, <1>10, <1>11, <1>12,
              <1>13 DEF OfMember

LEMMA OwnerNext ==
  ASSUME IsFiniteSet(Members), OwnerInv, ~Overlap, GroupNext
  PROVE  OwnerInv' /\ OwnerStep
<1>1. ASSUME NEW w \in Requests, OfAdmin(w) \/ \E by \in Members : OfMember(w, by)
      PROVE  OwnerInv' /\ OwnerStep
  BY <1>1, AdminBegins, MemberBegins, BeginOwner
<1>2. ASSUME NEW w \in Requests, Transaction(w) PROVE OwnerInv' /\ OwnerStep
  BY <1>2, CreateOwner, SavesOwner, JoinOwner, RemoveOwner, ExitReadOwner, ExitOwner,
     ManagerOwner, TransferOwner, SilenceOwner DEF Transaction
<1>3. ASSUME NEW w \in Requests, ReadManagers(w) \/ CallIM(w)
      PROVE  OwnerInv' /\ OwnerStep
  BY <1>3, OwnerCall, StepIs
<1>4. ASSUME NEW w \in Requests, Fail(w) PROVE OwnerInv' /\ OwnerStep
  BY <1>4, OwnerRefuse, StepIs DEF Fail
<1>5. ASSUME NEW by, NEW to, InviteAdd(by, to) PROVE OwnerInv' /\ OwnerStep
  <2>1. group' = group /\ member' = member /\ request' = request
    BY <1>5 DEF InviteAdd
  <2>2. OwnerInv'
    BY <2>1 DEF OwnerInv, RunRight, Owns, Succession, Live
  <2>3. QED BY <2>1, <2>2, StepIs
<1>6. ASSUME NEW ok \in BOOLEAN, HandleGroupDisbandEvent(ok) PROVE OwnerInv' /\ OwnerStep
  <2>1. PICK e : group' = [group EXCEPT !.event = e] /\ member' = member /\ request' = request
    BY <1>6 DEF HandleGroupDisbandEvent
  <2>2. DOMAIN group' = GroupFields /\ group'.status = group.status
    BY <2>1 DEF OwnerInv, GroupFields
  <2>3. ASSUME NEW r, RunRight(r) PROVE RunRight(r)'
    BY <2>1, <2>2, <2>3 DEF RunRight, Owns, Succession, Live
  <2>4. ASSUME NEW w \in Requests PROVE RunRight(request[w])'
    <3>1. PICK r : r = request[w]
      OBVIOUS
    <3>2. RunRight(r)'
      BY <2>3, <3>1 DEF OwnerInv
    <3>3. QED BY <2>1, <3>1, <3>2 DEF RunRight
  <2>5. OwnerInv'
    BY <2>1, <2>2, <2>4 DEF OwnerInv
  <2>6. QED BY <2>1, <2>2, <2>5, StepIs
<1>7. QED BY <1>1, <1>2, <1>3, <1>4, <1>5, <1>6 DEF GroupNext

LEMMA OwnerInit == GroupInit => OwnerInv
<1> SUFFICES ASSUME GroupInit PROVE OwnerInv
  OBVIOUS
<1>1. RowsWhole(member)
  BY DEF GroupInit, RowsWhole, RowFields, NoMember, NewMember
<1>2. DOMAIN group = GroupFields
  BY DEF GroupInit, NoGroup, GroupFields
<1>3. DOMAIN request = Requests /\ \A w \in Requests : request[w] = Idle
  BY DEF GroupInit
<1>4. RunRight(Idle)
  BY IdleIs DEF RunRight
<1>5. \A w \in Requests : RunRight(request[w])
  BY <1>3, <1>4 DEF RunRight
<1>6. QED BY <1>1, <1>2, <1>3, <1>5, IdleIs DEF OwnerInv

LEMMA OwnerStepsKept ==
  ASSUME IsFiniteSet(Members), ~Overlap
  PROVE  /\ OwnerInv /\ [GroupNext]_groupVars => OwnerInv'
         /\ OwnerInv /\ [GroupNext]_groupVars => [OwnerStep]_groupVars
<1>1. ASSUME OwnerInv, UNCHANGED groupVars PROVE OwnerInv'
  <2>1. group' = group /\ member' = member /\ request' = request
    BY <1>1 DEF groupVars
  <2>2. QED BY <1>1, <2>1 DEF OwnerInv, RunRight, Owns, Succession, Live
<1>2. QED BY <1>1, OwnerNext

-----------------------------------------------------------------------------
(***************************************************************************)
(* The theorems                                                            *)
(***************************************************************************)
\* Those who receive the messages of a group are its members, for any members
\* and any number of requests one after another: a join subscribes before its
\* rows are written and a removal unsubscribes after it, and both come to the
\* same set (addMembersTx, memberRemove, groupExit).  Requests that overlap
\* are left out: a remark that was read before its member was removed brings
\* the row back (UpdateMember), and nobody subscribes him again.
THEOREM MembersReceive == ASSUME ~Overlap PROVE GroupSpec => []ReceiversAreMembers
<1>1. GroupInv => ReceiversAreMembers
  BY DEF GroupInv, ReceiversAreMembers, Clean, Sound, Rest
<1>2. QED BY <1>1, GroupKept, PTL

\* Unless everybody is muted nobody is shut out by a whitelist: lifting the
\* mute empties it, before the row (groupForbidden) or after it (the setting),
\* and only a muted group gets a new one when its managers change.  Requests
\* that overlap are left out: a row of the group that was read before the mute
\* is written back without it.
THEOREM NobodyShutOut == ASSUME ~Overlap PROVE GroupSpec => []OpenWhenAllowed
<1>1. GroupInv => OpenWhenAllowed
  BY DEF GroupInv, OpenWhenAllowed, Clean, Sound, Rest
<1>2. QED BY <1>1, GroupKept, PTL

\* A group that users made has one owner until its last member leaves: whoever
\* changes roles or rows has checked, before his transaction, that the owner is
\* himself or not concerned, and an owner who leaves has chosen a successor
\* among the members; only an administrator can take the owner away.  Failures
\* do no harm here, because each change is one transaction.
THEOREM OneOwnerStays ==
  ASSUME IsFiniteSet(Members), ~Overlap
  PROVE  GroupSpec => OwnerStays
<1>1. OwnerInv /\ [GroupNext]_groupVars =>
        [(group.status = "none" \/ OneOwner) /\ group'.status # "none"
          /\ group'.kind = "user" /\ ~RemovedByAdmin
          => OneOwner' \/ Live' = {}]_groupVars
  BY OwnerStepsKept DEF OwnerStep
<1>2. OwnerInv /\ [GroupNext]_groupVars => OwnerInv'
  BY OwnerStepsKept
<1>3. QED BY <1>1, <1>2, OwnerInit, PTL DEF GroupSpec, OwnerStays

-----------------------------------------------------------------------------
(***************************************************************************)
(* ChatRooms.  An item waits in the queue no longer than the clock stands  *)
(* still (Prompt), so what an active room has not written yet was sent at  *)
(* this moment, and a room that is over is behind all that is on its way.  *)
(* The parts that lean on Prompt are stated under it: the invariant holds  *)
(* without it as well, and the count of the replies needs no more.         *)
(***************************************************************************)
TopicFields == {"status", "expire", "replies", "people", "last"}
VisitFields == {"op", "topic", "uid", "who", "calls"}

SoftCalls == <<"soft", "drop">>
InsertCalls == <<"insert", "open">>
\* The calls that a request may still have before it.
CallLists ==
  {<<>>, InsertCalls, <<"open">>, <<"members", "sync">>, <<"sync">>,
   <<"join", "subscribe", "read">>, <<"subscribe", "read">>, <<"read">>,
   SoftCalls, <<"drop">>, <<"rollback", "drop">>}

Message == [topic : Topics, by : Guests, at : Nat]

\* A room that is over: it takes no reply sent after this.
Active(r) == topic[r].status = "active"
Over(r) == Active(r) /\ clock > topic[r].expire

RowsTyped ==
  /\ clock \in Nat \ {0}
  /\ DOMAIN topic = Topics /\ openUntil \in [Topics -> Nat]
  /\ \A r \in Topics : /\ DOMAIN topic[r] = TopicFields
                       /\ topic[r].expire \in Nat /\ topic[r].replies \in Nat

\* No reply comes from the future.
ItemTimely(i) == i.count \in Nat /\ i.latest.at \in Nat /\ i.latest.at <= clock

RepliesTyped ==
  /\ sent \in Seq(Message) /\ recent \subseteq DOMAIN sent
  /\ \A m \in DOMAIN sent : sent[m].at \in Nat /\ sent[m].at <= clock
  /\ DOMAIN pending = Topics /\ DOMAIN flushing = Topics
  /\ \A r \in Topics : ItemTimely(pending[r]) /\ ItemTimely(flushing[r])

VisitOK(x) ==
  /\ DOMAIN x = VisitFields /\ x.calls \in CallLists
  /\ x.calls # <<>> => x.topic \in Topics

VisitsTyped == DOMAIN visit = Visits /\ \A w \in Visits : VisitOK(visit[w])

\* A reply of this moment is on its way to the row.
Fresh(r) ==
  \/ \E m \in DOMAIN sent \ recent : sent[m].topic = r /\ sent[m].at = clock
  \/ pending[r].latest.at = clock \/ flushing[r].latest.at = clock

\* A row that is behind the replies of its room has one of this moment before it.
OpenRight ==
  Prompt => \A r \in Topics : Active(r) /\ openUntil[r] > topic[r].expire =>
    clock <= topic[r].expire /\ openUntil[r] <= clock + Ttl /\ Fresh(r)

\* What waits for a room that is over came too late for it.
OverRight ==
  Prompt => \A r \in Topics : Over(r) =>
    /\ pending[r] # NoItem => pending[r].latest.at > topic[r].expire
    /\ flushing[r] # NoItem => flushing[r].latest.at > topic[r].expire
    /\ \A m \in DOMAIN sent \ recent :
         sent[m].topic = r => sent[m].at > topic[r].expire

\* The cleanup has listed rooms that are over.
SoftRight ==
  \A w \in Visits : visit[w].calls = SoftCalls =>
    /\ visit[w].op \in {"delete", "cleanup"}
    /\ visit[w].op = "cleanup" =>
         /\ topic[visit[w].topic].status # "unused"
         /\ Prompt /\ Active(visit[w].topic) => Over(visit[w].topic)

\* A room that is to be inserted has no row, and one request inserts it.
InsertRight ==
  \A w \in Visits : visit[w].calls = InsertCalls =>
    /\ topic[visit[w].topic].status = "unused"
    /\ \A v \in Visits \ {w} :
         visit[v].topic = visit[w].topic => visit[v].calls # InsertCalls

VisitsRight == VisitsTyped /\ SoftRight /\ InsertRight
RoomTypes == RowsTyped /\ RepliesTyped
RoomsInv == RoomTypes /\ VisitsRight /\ OpenRight /\ OverRight

-----------------------------------------------------------------------------
LEMMA CallsAre ==
  ASSUME NEW c \in CallLists, c # <<>>
  PROVE  /\ Tail(c) \in CallLists \ {SoftCalls, InsertCalls}
         /\ Head(c) = "soft" => c = SoftCalls
         /\ Head(c) = "insert" => c = InsertCalls
         /\ Tail(c) # c
<1>1. Tail(<<"insert", "open">>) = <<"open">> /\ Tail(<<"open">>) = <<>>
      /\ Tail(<<"members", "sync">>) = <<"sync">> /\ Tail(<<"sync">>) = <<>>
      /\ Tail(<<"join", "subscribe", "read">>) = <<"subscribe", "read">>
      /\ Tail(<<"subscribe", "read">>) = <<"read">> /\ Tail(<<"read">>) = <<>>
      /\ Tail(<<"soft", "drop">>) = <<"drop">> /\ Tail(<<"drop">>) = <<>>
      /\ Tail(<<"rollback", "drop">>) = <<"drop">>
  OBVIOUS
<1>2. /\ {<<>>, <<"open">>, <<"sync">>, <<"subscribe", "read">>, <<"read">>, <<"drop">>}
           \subseteq CallLists \ {SoftCalls, InsertCalls}
  BY DEF CallLists, SoftCalls, InsertCalls
<1>3. Tail(c) \in CallLists \ {SoftCalls, InsertCalls}
  BY <1>1, <1>2 DEF CallLists, SoftCalls, InsertCalls
<1>4. /\ Head(c) = "soft" => c = SoftCalls
      /\ Head(c) = "insert" => c = InsertCalls
  BY DEF CallLists, SoftCalls, InsertCalls
<1>5. Tail(c) # c
  BY <1>1 DEF CallLists, SoftCalls, InsertCalls
<1>6. QED BY <1>3, <1>4, <1>5

LEMMA PlainCalls ==
  /\ {<<>>, <<"rollback", "drop">>, <<"drop">>, <<"members", "sync">>,
      <<"join", "subscribe", "read">>, <<"read">>}
       \subseteq CallLists \ {SoftCalls, InsertCalls}
  /\ SoftCalls # InsertCalls /\ {SoftCalls, InsertCalls} \subseteq CallLists
  /\ SoftCalls # <<>> /\ InsertCalls # <<>>
BY DEF CallLists, SoftCalls, InsertCalls

Plain(x) == VisitOK(x) /\ x.calls \notin {SoftCalls, InsertCalls}

LEMMA AwayIs == Plain(Away)
BY PlainCalls DEF Away, Plain, VisitOK, VisitFields

\* What may become of the rows for the requests that are worked on.
RowsGoOn ==
  /\ clock <= clock' /\ clock' \in Nat
  /\ \A r \in Topics :
       /\ topic'[r].status = "unused" <=> topic[r].status = "unused"
       /\ Active(r)' => Active(r)
       /\ Prompt /\ Over(r) /\ Active(r)' => topic'[r].expire = topic[r].expire

LEMMA VisitsStay ==
  ASSUME RowsTyped, VisitsRight, RowsGoOn, visit' = visit
  PROVE  VisitsRight'
<1>1. VisitsTyped'
  BY DEF VisitsRight, VisitsTyped, VisitOK
<1>2. InsertRight'
  BY PlainCalls DEF VisitsRight, VisitsTyped, VisitOK, InsertRight, RowsGoOn
<1>3. SoftRight'
  BY PlainCalls DEF VisitsRight, VisitsTyped, VisitOK, SoftRight, RowsGoOn, Over, Active, RowsTyped
<1>4. QED BY <1>1, <1>2, <1>3 DEF VisitsRight

LEMMA PlainKept ==
  ASSUME RowsTyped, VisitsRight, RowsGoOn, NEW w \in Visits, NEW x, Plain(x),
         visit' = [visit EXCEPT ![w] = x]
  PROVE  VisitsRight'
<1>1. /\ DOMAIN visit' = Visits /\ visit'[w] = x
      /\ \A v \in Visits \ {w} : visit'[v] = visit[v]
  BY DEF VisitsRight, VisitsTyped
<1>2. VisitsTyped'
  BY <1>1 DEF VisitsRight, VisitsTyped, VisitOK, Plain
<1>3. \A v \in Visits : visit'[v].calls \in {SoftCalls, InsertCalls} =>
        v # w /\ visit'[v] = visit[v] /\ visit[v].topic \in Topics
  BY <1>1, PlainCalls DEF Plain, VisitsRight, VisitsTyped, VisitOK
<1>4. InsertRight'
  BY <1>1, <1>3 DEF VisitsRight, InsertRight, RowsGoOn
<1>5. SoftRight'
  BY <1>3 DEF VisitsRight, SoftRight, RowsGoOn, Over, Active, RowsTyped
<1>6. QED BY <1>2, <1>4, <1>5 DEF VisitsRight

\* A request goes on with other calls.
LEMMA ContinueIs ==
  ASSUME VisitsTyped, NEW w \in Visits, Underway(w),
         NEW calls \in CallLists \ {SoftCalls, InsertCalls}, Continue(w, calls)
  PROVE  \E x : /\ Plain(x) /\ visit' = [visit EXCEPT ![w] = x] /\ x.calls = calls
<1>1. VisitOK(visit[w]) /\ visit[w].topic \in Topics
  BY DEF VisitsTyped, VisitOK, Underway
<1>2. CASE calls = <<>>
  <2>1. visit' = [visit EXCEPT ![w] = Away] /\ Away.calls = calls
    BY <1>2 DEF Continue, Away
  <2>2. QED BY <2>1, AwayIs
<1>3. CASE calls # <<>>
  <2> DEFINE x == [visit[w] EXCEPT !.calls = calls]
  <2>1. visit' = [visit EXCEPT ![w] = x]
    BY <1>3 DEF Continue
  <2>2. DOMAIN x = VisitFields /\ x.calls = calls /\ x.topic = visit[w].topic
    BY <1>1 DEF VisitOK, VisitFields
  <2> HIDE DEF x
  <2>3. Plain(x)
    BY <1>1, <2>2 DEF Plain, VisitOK
  <2>4. QED BY <2>1, <2>2, <2>3
<1>4. QED BY <1>2, <1>3

LEMMA ProceedIs ==
  ASSUME VisitsTyped, NEW w \in Visits, Underway(w), Proceed(w)
  PROVE  \E x : /\ Plain(x) /\ visit' = [visit EXCEPT ![w] = x]
                /\ x.calls # visit[w].calls
<1>1. visit[w].calls \in CallLists /\ visit[w].calls # <<>>
  BY DEF VisitsTyped, VisitOK, Underway
<1>2. /\ Tail(visit[w].calls) \in CallLists \ {SoftCalls, InsertCalls}
      /\ Tail(visit[w].calls) # visit[w].calls
  BY <1>1, CallsAre
<1>3. Continue(w, Tail(visit[w].calls))
  BY DEF Proceed
<1>4. QED BY <1>2, <1>3, ContinueIs

LEMMA AnswerIs ==
  ASSUME NEW w \in Visits, Answer(w)
  PROVE  visit' = [visit EXCEPT ![w] = Away] /\ Plain(Away)
BY AwayIs DEF Answer, Continue

LEMMA ArriveIs ==
  ASSUME NEW w \in Visits, NEW op, NEW r \in Topics, NEW u, NEW calls \in CallLists,
         Arrive(w, op, r, u, calls)
  PROVE  \E x : /\ VisitOK(x) /\ visit' = [visit EXCEPT ![w] = x]
                /\ x.op = op /\ x.topic = r /\ x.calls = calls
<1> DEFINE x == [op |-> op, topic |-> r, uid |-> u, who |-> {u}, calls |-> calls]
<1>1. visit' = [visit EXCEPT ![w] = x]
  BY DEF Arrive
<1>2. VisitOK(x) /\ x.op = op /\ x.topic = r /\ x.calls = calls
  BY DEF VisitOK, VisitFields
<1> HIDE DEF x
<1>3. QED BY <1>1, <1>2

\* The request makes a step of which the rest does not depend.
PlainStep(w) == \E x : Plain(x) /\ visit' = [visit EXCEPT ![w] = x]

\* The rows, the replies and the clock stay, but for the people of a room.
SameRows ==
  /\ DOMAIN topic' = DOMAIN topic
  /\ \A r \in Topics : /\ DOMAIN topic'[r] = TopicFields
                       /\ topic'[r].status = topic[r].status
                       /\ topic'[r].expire = topic[r].expire
                       /\ topic'[r].replies = topic[r].replies
  /\ UNCHANGED <<sent, recent, pending, flushing, openUntil, clock>>

LEMMA RowsUnchanged ==
  ASSUME RowsTyped, UNCHANGED <<topic, sent, replyVars, openUntil, clock>>
  PROVE  SameRows
BY DEF SameRows, replyVars, RowsTyped

LEMMA SameRowsKeep ==
  ASSUME RoomTypes, OpenRight, OverRight, SameRows
  PROVE  RoomTypes' /\ OpenRight' /\ OverRight' /\ RowsGoOn
<1>1. RoomTypes'
  <2>1. RowsTyped'
    BY DEF RoomTypes, RowsTyped, SameRows
  <2>2. RepliesTyped'
    BY DEF RoomTypes, RepliesTyped, SameRows, ItemTimely
  <2>3. QED BY <2>1, <2>2 DEF RoomTypes
<1>2. \A r \in Topics : /\ Active(r)' <=> Active(r)
                        /\ Over(r)' <=> Over(r)
                        /\ Fresh(r)' <=> Fresh(r)
                        /\ topic'[r].expire = topic[r].expire
  BY DEF SameRows, Active, Over, Fresh
<1>3. OpenRight'
  BY <1>2 DEF OpenRight, SameRows
<1>4. OverRight'
  BY <1>2 DEF OverRight, SameRows
<1>5. RowsGoOn
  BY <1>2 DEF RowsGoOn, RoomTypes, RowsTyped, SameRows
<1>6. QED BY <1>1, <1>3, <1>4, <1>5

LEMMA JoinSame ==
  ASSUME RowsTyped, VisitsTyped, NEW w \in Visits, AddMemberToRoom(w)
  PROVE  SameRows
<1> DEFINE r == visit[w].topic
<1>1. r \in Topics /\ DOMAIN topic[r] = TopicFields
  BY DEF AddMemberToRoom, Next1, Underway, VisitsTyped, VisitOK, RowsTyped
<1>2. UNCHANGED <<sent, recent, pending, flushing, openUntil, clock>>
  BY DEF AddMemberToRoom, replyVars
<1>3. CASE topic' = topic
  BY <1>2, <1>3 DEF SameRows, RowsTyped
<1>4. ASSUME NEW n, topic' = [topic EXCEPT ![r].people = n] PROVE SameRows
  <2> DEFINE z == [topic[r] EXCEPT !.people = n]
  <2>1. topic' = [topic EXCEPT ![r] = z]
    BY <1>4
  <2>2. DOMAIN z = TopicFields /\ z.status = topic[r].status
        /\ z.expire = topic[r].expire /\ z.replies = topic[r].replies
    BY <1>1 DEF TopicFields
  <2> HIDE DEF z
  <2>3. /\ DOMAIN topic' = DOMAIN topic /\ topic'[r] = z
        /\ \A q \in Topics \ {r} : topic'[q] = topic[q]
    BY <1>1, <2>1 DEF RowsTyped
  <2>4. QED BY <1>2, <2>2, <2>3 DEF SameRows, RowsTyped
<1>5. topic' = topic \/ \E n : topic' = [topic EXCEPT ![r].people = n]
  BY DEF AddMemberToRoom
<1>6. QED BY <1>3, <1>4, <1>5

-----------------------------------------------------------------------------
\* Requests that leave the rows alone.

LEMMA QuietKept ==
  ASSUME RoomsInv, SameRows, NEW w, (w \in Visits /\ PlainStep(w)) \/ visit' = visit
  PROVE  RoomsInv'
<1>1. RoomTypes /\ OpenRight /\ OverRight /\ VisitsRight /\ RowsTyped
  BY DEF RoomsInv, RoomTypes
<1>2. RoomTypes' /\ OpenRight' /\ OverRight' /\ RowsGoOn
  BY <1>1, SameRowsKeep
<1>3. VisitsRight'
  BY <1>1, <1>2, PlainKept, VisitsStay DEF PlainStep
<1>4. QED BY <1>2, <1>3 DEF RoomsInv

LEMMA ReadMembersIs ==
  ASSUME VisitsTyped, NEW w \in Visits, ReadMembers(w)
  PROVE  PlainStep(w)
<1> DEFINE s == IF GuestsOf(visit[w].topic) = {} THEN {Host} ELSE GuestsOf(visit[w].topic)
           y == [visit[w] EXCEPT !.who = s]
           x == [y EXCEPT !.calls = Tail(visit[w].calls)]
<1>1. /\ VisitOK(visit[w]) /\ visit[w].topic \in Topics /\ visit[w].calls # <<>>
      /\ w \in DOMAIN visit
  BY DEF ReadMembers, Next1, Underway, VisitsTyped, VisitOK
<1>2. Tail(visit[w].calls) \in CallLists \ {SoftCalls, InsertCalls}
  BY <1>1, CallsAre DEF VisitOK
<1>3. visit' = [visit EXCEPT ![w].who = s, ![w].calls = Tail(visit[w].calls)]
  BY <1>1 DEF ReadMembers
<1> HIDE DEF s
<1>4. visit' = [visit EXCEPT ![w] = x]
  BY <1>1, <1>3
<1>5. /\ DOMAIN y = VisitFields /\ y.topic = visit[w].topic
  BY <1>1 DEF VisitOK, VisitFields
<1> HIDE DEF y
<1>6. DOMAIN x = VisitFields /\ x.topic = visit[w].topic
      /\ x.calls = Tail(visit[w].calls)
  BY <1>5 DEF VisitFields
<1> HIDE DEF x
<1>7. Plain(x)
  BY <1>1, <1>2, <1>6 DEF Plain, VisitOK
<1>8. QED BY <1>4, <1>7 DEF PlainStep

LEMMA QuietVisits ==
  ASSUME RoomsInv, NEW w \in Visits,
         \/ ReadMembers(w) \/ SyncIMChannel(w) \/ AddMemberToRoom(w)
         \/ AddIMSubscribers(w) \/ MarkRead(w) \/ DeleteIMChannel(w) \/ VisitFails(w)
  PROVE  RoomsInv'
<1>1. RowsTyped /\ VisitsTyped
  BY DEF RoomsInv, RoomTypes, VisitsRight
<1>2. SameRows
  <2>1. CASE AddMemberToRoom(w)
    BY <1>1, <2>1, JoinSame
  <2>2. CASE ~AddMemberToRoom(w)
    BY <1>1, <2>2, RowsUnchanged DEF ReadMembers, SyncIMChannel, AddIMSubscribers,
                        MarkRead, DeleteIMChannel, VisitFails, rowVars
  <2>3. QED BY <2>1, <2>2
<1>3. PlainStep(w)
  <2>1. CASE ReadMembers(w)
    BY <1>1, <2>1, ReadMembersIs
  <2>2. CASE SyncIMChannel(w) \/ AddMemberToRoom(w) \/ AddIMSubscribers(w)
    <3>1. Underway(w) /\ Proceed(w)
      BY <2>2 DEF SyncIMChannel, AddMemberToRoom, AddIMSubscribers, Next1
    <3>2. QED BY <1>1, <3>1, ProceedIs DEF PlainStep
  <2>3. CASE MarkRead(w) \/ DeleteIMChannel(w)
    BY <2>3, AnswerIs DEF MarkRead, DeleteIMChannel, PlainStep
  <2>4. CASE VisitFails(w)
    <3>1. Underway(w) /\ \E c \in {<<"rollback", "drop">>, <<"drop">>, <<>>} : Continue(w, c)
      BY <2>4 DEF VisitFails
    <3>2. QED BY <1>1, <3>1, PlainCalls, ContinueIs DEF PlainStep
  <2>5. QED BY <2>1, <2>2, <2>3, <2>4
<1>4. QED BY <1>2, <1>3, QuietKept

-----------------------------------------------------------------------------
\* Requests that arrive.

LEMMA ArriveKept ==
  ASSUME RoomsInv, SameRows, NEW w \in Visits, NEW x, VisitOK(x),
         visit' = [visit EXCEPT ![w] = x],
         x.calls = SoftCalls =>
           /\ x.op \in {"delete", "cleanup"}
           /\ x.op = "cleanup" => Over(x.topic),
         x.calls = InsertCalls =>
           /\ topic[x.topic].status = "unused"
           /\ \A v \in Visits : visit[v].topic = x.topic => visit[v].calls = <<>>
  PROVE  RoomsInv'
<1>1. RoomTypes /\ OpenRight /\ OverRight /\ VisitsRight /\ RowsTyped
  BY DEF RoomsInv, RoomTypes
<1>2. RoomTypes' /\ OpenRight' /\ OverRight' /\ RowsGoOn
  BY <1>1, SameRowsKeep
<1>3. /\ DOMAIN visit' = Visits /\ visit'[w] = x
      /\ \A v \in Visits \ {w} : visit'[v] = visit[v] /\ VisitOK(visit[v])
  BY <1>1 DEF VisitsRight, VisitsTyped
<1>4. VisitsTyped'
  BY <1>1, <1>3 DEF VisitsTyped, VisitOK
<1>5. x.calls \in {SoftCalls, InsertCalls} => x.topic \in Topics
  BY PlainCalls DEF VisitOK
<1>6. \A r \in Topics : /\ topic'[r].status = topic[r].status
                        /\ Active(r)' <=> Active(r)
                        /\ Over(r)' <=> Over(r)
  BY DEF SameRows, Active, Over
<1>7. ASSUME NEW v \in Visits, visit'[v].calls = SoftCalls
      PROVE  /\ visit'[v].op \in {"delete", "cleanup"}
             /\ visit'[v].op = "cleanup" =>
                  /\ topic'[visit'[v].topic].status # "unused"
                  /\ Prompt /\ topic'[visit'[v].topic].status = "active" =>
                       clock' > topic'[visit'[v].topic].expire
  <2>1. visit'[v].topic \in Topics
    BY <1>4, <1>7, PlainCalls DEF VisitsTyped, VisitOK
  <2>2. CASE v = w
    <3>1. /\ x.op \in {"delete", "cleanup"}
          /\ x.op = "cleanup" => /\ topic[x.topic].status = "active"
                                 /\ clock > topic[x.topic].expire
      BY <1>3, <1>7, <2>2 DEF Over, Active
    <3>2. QED BY <1>3, <2>1, <2>2, <3>1 DEF SameRows
  <2>3. CASE v # w
    <3>1. visit'[v] = visit[v]
      BY <1>3, <2>3
    <3>2. /\ visit[v].op \in {"delete", "cleanup"}
          /\ visit[v].op = "cleanup" =>
               /\ topic[visit[v].topic].status # "unused"
               /\ Prompt /\ topic[visit[v].topic].status = "active" =>
                    clock > topic[visit[v].topic].expire
      BY <1>1, <1>7, <3>1 DEF VisitsRight, SoftRight, Over, Active
    <3>3. QED BY <2>1, <3>1, <3>2 DEF SameRows
  <2>4. QED BY <2>2, <2>3
<1>8. SoftRight'
  BY <1>7 DEF SoftRight, Over, Active
<1>9. ASSUME NEW v \in Visits, visit'[v].calls = InsertCalls
      PROVE  /\ topic'[visit'[v].topic].status = "unused"
             /\ \A z \in Visits \ {v} :
                  visit'[z].topic = visit'[v].topic => visit'[z].calls # InsertCalls
  <2>1. visit'[v].topic \in Topics
    BY <1>4, <1>9, PlainCalls DEF VisitsTyped, VisitOK
  <2>2. CASE v = w
    BY <1>3, <1>6, <1>9, <2>1, <2>2, PlainCalls
  <2>3. CASE v # w
    <3>1. topic'[visit'[v].topic].status = "unused"
      BY <1>1, <1>3, <1>6, <1>9, <2>1, <2>3 DEF VisitsRight, InsertRight
    <3>2. ASSUME NEW z \in Visits \ {v}, visit'[z].topic = visit'[v].topic,
                 visit'[z].calls = InsertCalls
          PROVE  FALSE
      <4>1. CASE z = w
        BY <1>3, <1>9, <2>3, <3>2, <4>1, PlainCalls
      <4>2. CASE z # w
        BY <1>1, <1>3, <1>9, <2>3, <3>2, <4>2 DEF VisitsRight, InsertRight
      <4>3. QED BY <4>1, <4>2
    <3>3. QED BY <3>1, <3>2
  <2>4. QED BY <2>2, <2>3
<1>10. InsertRight'
  BY <1>9 DEF InsertRight
<1>11. QED BY <1>2, <1>4, <1>8, <1>10 DEF RoomsInv, VisitsRight

LEMMA ArrivalsKeep ==
  ASSUME RoomsInv, NEW w \in Visits, NEW r \in Topics,
         \/ CreateAgain(w, r) \/ CreateRoom(w, r) \/ Delete(w, r)
         \/ CleanupExpired(w, r)
         \/ \E u \in Guests : Enter(w, r, u) \/ Read(w, r, u)
  PROVE  RoomsInv'
<1>1. SameRows
  BY RowsUnchanged DEF CreateAgain, CreateRoom, Delete, CleanupExpired, Enter, Read,
                       rowVars, RoomsInv, RoomTypes
<1>2. /\ {<<"members", "sync">>, <<"join", "subscribe", "read">>, <<"read">>}
           \subseteq CallLists \ {SoftCalls, InsertCalls}
      /\ SoftCalls # InsertCalls /\ SoftCalls \in CallLists /\ InsertCalls \in CallLists
  BY PlainCalls
<1>3. ASSUME NEW op, NEW u, NEW calls \in CallLists \ {SoftCalls, InsertCalls},
             Arrive(w, op, r, u, calls)
      PROVE  RoomsInv'
  BY <1>1, <1>3, ArriveIs, ArriveKept
<1>4. CASE CreateAgain(w, r)
  BY <1>2, <1>3, <1>4 DEF CreateAgain
<1>5. CASE \E u \in Guests : Enter(w, r, u) \/ Read(w, r, u)
  BY <1>2, <1>3, <1>5 DEF Enter, Read
<1>6. CASE CreateRoom(w, r)
  <2>1. Arrive(w, "create", r, Host, InsertCalls)
    BY <1>6 DEF CreateRoom, InsertCalls
  <2>2. topic[r].status = "unused"
        /\ \A v \in Visits : visit[v].topic = r => visit[v].calls = <<>>
    BY <1>6 DEF CreateRoom, Underway
  <2>3. PICK x : /\ VisitOK(x) /\ visit' = [visit EXCEPT ![w] = x]
                 /\ x.topic = r /\ x.calls = InsertCalls
    BY <1>2, <2>1, ArriveIs
  <2>4. QED BY <1>1, <1>2, <2>2, <2>3, ArriveKept
<1>7. CASE Delete(w, r)
  <2>1. Arrive(w, "delete", r, Host, SoftCalls)
    BY <1>7 DEF Delete, SoftCalls
  <2>2. PICK x : /\ VisitOK(x) /\ visit' = [visit EXCEPT ![w] = x]
                 /\ x.op = "delete" /\ x.calls = SoftCalls
    BY <1>2, <2>1, ArriveIs
  <2>3. QED BY <1>1, <1>2, <2>2, ArriveKept
<1>8. CASE CleanupExpired(w, r)
  <2>1. Arrive(w, "cleanup", r, Host, SoftCalls)
    BY <1>8 DEF CleanupExpired, SoftCalls
  <2>2. PICK x : /\ VisitOK(x) /\ visit' = [visit EXCEPT ![w] = x]
                 /\ x.topic = r /\ x.calls = SoftCalls /\ x.op = "cleanup"
    BY <1>2, <2>1, ArriveIs
  <2>3. Over(r)
    <3>1. clock \in Nat /\ topic[r].expire \in Nat /\ Grace \in Nat \ {0}
      BY ChatRoomsAssumption DEF RoomsInv, RoomTypes, RowsTyped
    <3>2. QED BY <1>8, <3>1 DEF CleanupExpired, Expired, Over, Active
  <2>4. QED BY <1>1, <1>2, <2>2, <2>3, ArriveKept
<1>9. QED BY <1>4, <1>5, <1>6, <1>7, <1>8

-----------------------------------------------------------------------------
\* Rooms that come and go.

\* The row of one room changes.
RowBecomes(r, z) ==
  topic' = [topic EXCEPT ![r] = z] /\ UNCHANGED <<sent, recent, pending, flushing, clock>>

LEMMA RowBecomesIs ==
  ASSUME RowsTyped, NEW r \in Topics, NEW z, RowBecomes(r, z)
  PROVE  /\ DOMAIN topic' = Topics /\ topic'[r] = z
         /\ \A q \in Topics \ {r} : /\ topic'[q] = topic[q]
                                    /\ Active(q)' <=> Active(q)
                                    /\ Over(q)' <=> Over(q)
         /\ \A q \in Topics : Fresh(q)' <=> Fresh(q)
BY DEF RowsTyped, RowBecomes, Active, Over, Fresh

LEMMA RepliesStay ==
  ASSUME RepliesTyped, UNCHANGED <<sent, recent, pending, flushing, clock>>
  PROVE  RepliesTyped'
BY DEF RepliesTyped, ItemTimely

LEMMA RoomGoes ==
  ASSUME RoomsInv, NEW r \in Topics, NEW z, RowBecomes(r, z), openUntil' = openUntil,
         DOMAIN z = TopicFields, z.expire \in Nat, z.replies \in Nat,
         z.status \in {"gone", "deleted"}, topic[r].status # "unused",
         NEW w, (w \in Visits /\ PlainStep(w)) \/ visit' = visit
  PROVE  RoomsInv'
<1>1. RowsTyped /\ RepliesTyped /\ VisitsRight /\ OpenRight /\ OverRight
  BY DEF RoomsInv, RoomTypes
<1>2. /\ DOMAIN topic' = Topics /\ topic'[r] = z
      /\ \A q \in Topics \ {r} : /\ topic'[q] = topic[q]
                                 /\ Active(q)' <=> Active(q)
                                 /\ Over(q)' <=> Over(q)
      /\ \A q \in Topics : Fresh(q)' <=> Fresh(q)
  BY <1>1, RowBecomesIs
<1>3. clock' = clock /\ UNCHANGED <<sent, recent, pending, flushing>>
  BY DEF RowBecomes
<1>4. ~Active(r)' /\ ~Over(r)'
  BY <1>2 DEF Active, Over
<1>5. RowsTyped' /\ RepliesTyped'
  BY <1>1, <1>2, <1>3, RepliesStay DEF RowsTyped
<1>6. RowsGoOn
  BY <1>1, <1>2, <1>3, <1>4 DEF RowsGoOn, RowsTyped
<1>7. VisitsRight'
  BY <1>1, <1>6, PlainKept, VisitsStay DEF PlainStep
<1>8. OpenRight'
  BY <1>1, <1>2, <1>3, <1>4 DEF OpenRight
<1>9. OverRight'
  BY <1>1, <1>2, <1>3, <1>4 DEF OverRight
<1>10. QED BY <1>5, <1>7, <1>8, <1>9 DEF RoomsInv, RoomTypes

LEMMA GoneRow ==
  ASSUME RowsTyped, NEW r \in Topics, NEW s
  PROVE  /\ LET z == [topic[r] EXCEPT !.status = s] IN
            /\ DOMAIN z = TopicFields /\ z.status = s /\ z.expire = topic[r].expire
            /\ z.replies = topic[r].replies
         /\ LET z == [topic[r] EXCEPT !.status = s, !.expire = clock] IN
            /\ DOMAIN z = TopicFields /\ z.status = s /\ z.expire = clock
            /\ z.replies = topic[r].replies
BY DEF RowsTyped, TopicFields

LEMMA PurgeKept ==
  ASSUME RoomsInv, NEW r \in Topics, PurgeDeleted(r)
  PROVE  RoomsInv'
<1> DEFINE z == [topic[r] EXCEPT !.status = "deleted"]
<1>1. RowsTyped
  BY DEF RoomsInv, RoomTypes
<1>2. /\ DOMAIN z = TopicFields /\ z.status = "deleted" /\ z.expire = topic[r].expire
      /\ z.replies = topic[r].replies
  BY <1>1, GoneRow
<1>3. RowBecomes(r, z) /\ openUntil' = openUntil /\ visit' = visit
      /\ topic[r].status = "gone"
  BY DEF PurgeDeleted, RowBecomes, replyVars
<1> HIDE DEF z
<1>4. QED BY <1>1, <1>2, <1>3, RoomGoes DEF RowsTyped

LEMMA SoftIs ==
  ASSUME RoomsInv, NEW w \in Visits, SoftDelete(w)
  PROVE  visit[w].topic \in Topics /\ visit[w].calls = SoftCalls /\ Underway(w)
BY CallsAre DEF SoftDelete, Next1, Underway, RoomsInv, VisitsRight, VisitsTyped, VisitOK

LEMMA SoftKept ==
  ASSUME RoomsInv, NEW w \in Visits, SoftDelete(w)
  PROVE  RoomsInv'
<1> DEFINE r == visit[w].topic
<1>1. RowsTyped /\ VisitsTyped /\ r \in Topics /\ Underway(w)
  BY SoftIs DEF RoomsInv, RoomTypes, VisitsRight
<1>2. CASE topic[r].status = "active"
  <2> DEFINE z == [topic[r] EXCEPT !.status = "gone", !.expire = clock]
  <2>1. /\ DOMAIN z = TopicFields /\ z.status = "gone" /\ z.expire = clock
        /\ z.replies = topic[r].replies
    BY <1>1, GoneRow
  <2>2. RowBecomes(r, z) /\ openUntil' = openUntil /\ Proceed(w)
    BY <1>1, <1>2 DEF SoftDelete, RowBecomes, replyVars, RowsTyped
  <2> HIDE DEF z
  <2>3. PlainStep(w)
    BY <1>1, <2>2, ProceedIs DEF PlainStep
  <2>4. QED BY <1>1, <1>2, <2>1, <2>2, <2>3, RoomGoes DEF RowsTyped
<1>3. CASE topic[r].status # "active"
  <2>1. UNCHANGED <<topic, sent, replyVars, openUntil, clock>> /\ Answer(w)
    BY <1>3 DEF SoftDelete
  <2>2. QED BY <1>1, <2>1, RowsUnchanged, AnswerIs, QuietKept DEF PlainStep
<1>4. QED BY <1>2, <1>3

LEMMA RollbackRoomKept ==
  ASSUME RoomsInv, NEW w \in Visits, DeleteFailedCreate(w)
  PROVE  RoomsInv'
<1> DEFINE r == visit[w].topic
           z == [topic[r] EXCEPT !.status = "deleted"]
<1>1. RowsTyped /\ VisitsTyped /\ r \in Topics /\ Underway(w) /\ Proceed(w)
  BY DEF RoomsInv, RoomTypes, VisitsRight, DeleteFailedCreate, Next1, VisitsTyped,
         VisitOK, Underway
<1>2. PlainStep(w)
  BY <1>1, ProceedIs DEF PlainStep
<1>3. CASE Stored(r)
  <2>1. /\ DOMAIN z = TopicFields /\ z.status = "deleted" /\ z.expire = topic[r].expire
        /\ z.replies = topic[r].replies
    BY <1>1, GoneRow
  <2>2. RowBecomes(r, z) /\ openUntil' = openUntil /\ topic[r].status # "unused"
    BY <1>3 DEF DeleteFailedCreate, RowBecomes, replyVars, Stored
  <2> HIDE DEF z
  <2>3. QED BY <1>1, <1>2, <2>1, <2>2, RoomGoes DEF RowsTyped
<1>4. CASE ~Stored(r)
  BY <1>1, <1>2, <1>4, RowsUnchanged, QuietKept DEF DeleteFailedCreate, rowVars
<1>5. QED BY <1>3, <1>4

LEMMA InsertIs ==
  ASSUME RoomsInv, NEW w \in Visits, InsertRoom(w)
  PROVE  /\ visit[w].topic \in Topics /\ visit[w].calls = InsertCalls /\ Underway(w)
         /\ topic[visit[w].topic].status = "unused"
<1>1. visit[w].topic \in Topics /\ visit[w].calls = InsertCalls /\ Underway(w)
  BY CallsAre DEF InsertRoom, Next1, Underway, RoomsInv, VisitsRight, VisitsTyped,
                  VisitOK
<1>2. QED BY <1>1 DEF RoomsInv, VisitsRight, InsertRight

LEMMA FirstRoomKept ==
  ASSUME RoomsInv, NEW w \in Visits, InsertRoom(w), {q \in Topics : Stored(q)} = {}
  PROVE  RoomsInv'
<1> DEFINE r == visit[w].topic
           z == [status |-> "active", expire |-> clock + Ttl, replies |-> 0,
                 people |-> 1, last |-> NoReply]
<1>1. RowsTyped /\ RepliesTyped /\ VisitsRight /\ OpenRight /\ OverRight
      /\ VisitsTyped
  BY DEF RoomsInv, RoomTypes, VisitsRight
<1>2. /\ r \in Topics /\ visit[w].calls = InsertCalls /\ Underway(w)
      /\ topic[r].status = "unused"
  BY InsertIs
<1>3. RowBecomes(r, z) /\ openUntil' = [openUntil EXCEPT ![r] = clock + Ttl] /\ Proceed(w)
  BY DEF InsertRoom, RowBecomes, replyVars
<1>4. clock \in Nat /\ clock + Ttl \in Nat /\ clock <= clock + Ttl
  BY <1>1, ChatRoomsAssumption DEF RowsTyped
<1>5. /\ DOMAIN z = TopicFields /\ z.status = "active" /\ z.expire = clock + Ttl
      /\ z.replies \in Nat
  BY DEF TopicFields
<1> HIDE DEF z
<1>6. /\ DOMAIN topic' = Topics /\ topic'[r] = z
      /\ \A q \in Topics \ {r} : /\ topic'[q] = topic[q]
                                 /\ Active(q)' <=> Active(q)
                                 /\ Over(q)' <=> Over(q)
      /\ \A q \in Topics : Fresh(q)' <=> Fresh(q)
  BY <1>1, <1>2, <1>3, RowBecomesIs
<1>7. clock' = clock /\ UNCHANGED <<sent, recent, pending, flushing>>
  BY <1>3 DEF RowBecomes
<1>8. /\ openUntil' \in [Topics -> Nat] /\ openUntil'[r] = clock + Ttl
      /\ \A q \in Topics \ {r} : openUntil'[q] = openUntil[q]
  BY <1>1, <1>2, <1>3, <1>4 DEF RowsTyped
<1>9. RowsTyped' /\ RepliesTyped'
  BY <1>1, <1>4, <1>5, <1>6, <1>7, <1>8, RepliesStay DEF RowsTyped
<1>10. PICK x : Plain(x) /\ visit' = [visit EXCEPT ![w] = x]
  BY <1>1, <1>2, <1>3, ProceedIs
<1>11. /\ DOMAIN visit' = Visits /\ visit'[w] = x
       /\ \A v \in Visits \ {w} : visit'[v] = visit[v]
  BY <1>1, <1>10 DEF VisitsTyped
<1>12. VisitsTyped'
  BY <1>1, <1>10, <1>11 DEF VisitsTyped, VisitOK, Plain
<1>13. \A v \in Visits : visit'[v].calls \in {SoftCalls, InsertCalls} =>
         v # w /\ visit'[v] = visit[v] /\ visit[v].topic \in Topics
  BY <1>1, <1>10, <1>11, PlainCalls DEF Plain, VisitsTyped, VisitOK
<1>14. \A v \in Visits : visit'[v].calls = InsertCalls => visit[v].topic # r
  BY <1>1, <1>2, <1>13 DEF VisitsRight, InsertRight
<1>15. InsertRight'
  BY <1>1, <1>6, <1>11, <1>13, <1>14 DEF VisitsRight, InsertRight
<1>16. SoftRight'
  <2>1. \A v \in Visits : visit'[v].calls = SoftCalls /\ visit[v].op = "cleanup" =>
          visit[v].topic # r
    BY <1>1, <1>2, <1>13 DEF VisitsRight, SoftRight
  <2>2. QED BY <1>1, <1>6, <1>7, <1>13, <2>1 DEF VisitsRight, SoftRight, Active, Over
<1>17. OpenRight'
  BY <1>1, <1>4, <1>5, <1>6, <1>7, <1>8 DEF OpenRight
<1>18. OverRight'
  <2>1. ASSUME NEW q \in Topics, Over(q)' PROVE q # r /\ Over(q)
    BY <1>4, <1>5, <1>6, <1>7, <2>1 DEF Over
  <2>2. QED BY <1>1, <1>6, <1>7, <2>1 DEF OverRight
<1>19. QED BY <1>9, <1>12, <1>15, <1>16, <1>17, <1>18
           DEF RoomsInv, RoomTypes, VisitsRight

LEMMA InsertKept ==
  ASSUME RoomsInv, NEW w \in Visits, InsertRoom(w)
  PROVE  RoomsInv'
<1> DEFINE first == {q \in Topics : Stored(q)}
<1>1. CASE first = {}
  BY <1>1, FirstRoomKept
<1>2. CASE first # {}
  <2> DEFINE q == CHOOSE p \in first : TRUE
             y == [visit[w] EXCEPT !.topic = q]
             x == [y EXCEPT !.calls = <<"members", "sync">>]
  <2>1. q \in Topics
    BY <1>2
  <2>2. /\ UNCHANGED <<topic, sent, replyVars, openUntil, clock>>
        /\ visit' = [visit EXCEPT ![w] =
             IF IsOpen(q) THEN [@ EXCEPT !.topic = q, !.calls = <<"members", "sync">>]
             ELSE Away]
    BY <1>2 DEF InsertRoom
  <2> HIDE DEF q
  <2>3. visit' = [visit EXCEPT ![w] = x] \/ visit' = [visit EXCEPT ![w] = Away]
    BY <2>2
  <2>4. VisitOK(visit[w])
    BY DEF RoomsInv, VisitsRight, VisitsTyped
  <2>5. DOMAIN y = VisitFields /\ y.topic = q
    BY <2>4 DEF VisitOK, VisitFields
  <2> HIDE DEF y
  <2>6. DOMAIN x = VisitFields /\ x.topic = q /\ x.calls = <<"members", "sync">>
    BY <2>5 DEF VisitFields
  <2> HIDE DEF x
  <2>7. Plain(x)
    BY <2>1, <2>6, PlainCalls DEF Plain, VisitOK
  <2>8. PlainStep(w)
    BY <2>3, <2>7, AwayIs DEF PlainStep
  <2>9. QED BY <2>2, <2>8, RowsUnchanged, QuietKept DEF RoomsInv, RoomTypes
<1>3. QED BY <1>1, <1>2

-----------------------------------------------------------------------------
\* Replies.

\* The rows and the requests stay.
LEMMA NoVisit ==
  ASSUME RowsTyped, VisitsRight, UNCHANGED <<topic, visit, clock>>
  PROVE  VisitsRight'
<1>1. RowsGoOn
  BY DEF RowsGoOn, RowsTyped, Active
<1>2. QED BY <1>1, VisitsStay

LEMMA SendKept ==
  ASSUME RoomsInv, NEW r \in Topics, NEW u \in Guests, SendReply(r, u)
  PROVE  RoomsInv'
<1> DEFINE e == [topic |-> r, by |-> u, at |-> clock]
<1>1. RowsTyped /\ RepliesTyped /\ VisitsRight /\ OpenRight /\ OverRight
  BY DEF RoomsInv, RoomTypes
<1>2. sent' = Append(sent, e) /\ UNCHANGED <<topic, visit, clock, recent, pending, flushing>>
      /\ openUntil' = [openUntil EXCEPT ![r] =
                        IF clock <= openUntil[r] THEN clock + Ttl ELSE openUntil[r]]
  BY DEF SendReply, rowVars, replyVars
<1>3. clock \in Nat /\ Ttl \in Nat /\ clock + Ttl \in Nat
  BY <1>1, ChatRoomsAssumption DEF RowsTyped
<1>4. e \in Message /\ e.at = clock /\ e.topic = r
  BY <1>3 DEF Message
<1> HIDE DEF e
<1> DEFINE n == Len(sent) + 1
<1>5. /\ sent' \in Seq(Message) /\ DOMAIN sent' = DOMAIN sent \cup {n}
      /\ sent'[n] = e /\ n \notin DOMAIN sent
      /\ \A m \in DOMAIN sent : sent'[m] = sent[m]
  BY <1>1, <1>2, <1>4 DEF RepliesTyped
<1> HIDE DEF n
<1>6. RepliesTyped'
  BY <1>1, <1>2, <1>3, <1>4, <1>5 DEF RepliesTyped, ItemTimely
<1>7. RowsTyped'
  BY <1>1, <1>2, <1>3 DEF RowsTyped
<1>8. VisitsRight'
  BY <1>1, <1>2, NoVisit
<1>9. \A q \in Topics : /\ Active(q)' <=> Active(q)
                        /\ Over(q)' <=> Over(q)
                        /\ Fresh(q) => Fresh(q)'
  BY <1>2, <1>5 DEF Active, Over, Fresh
<1>10. Fresh(r)'
  BY <1>1, <1>2, <1>4, <1>5 DEF Fresh, RepliesTyped
<1>11. ASSUME Prompt, NEW q \in Topics, Active(q)', openUntil'[q] > topic'[q].expire
       PROVE  clock' <= topic'[q].expire /\ openUntil'[q] <= clock' + Ttl /\ Fresh(q)'
  <2>1. openUntil \in [Topics -> Nat] /\ topic[q].expire \in Nat
    BY <1>1 DEF RowsTyped
  <2>2. CASE openUntil'[q] = openUntil[q]
    BY <1>1, <1>2, <1>9, <1>11, <2>2 DEF OpenRight
  <2>3. CASE openUntil'[q] # openUntil[q]
    <3>1. q = r /\ clock <= openUntil[q] /\ openUntil'[q] = clock + Ttl
      BY <1>2, <2>1, <2>3
    <3>2. clock <= topic[q].expire
      BY <1>1, <1>3, <1>9, <1>11, <2>1, <3>1 DEF OpenRight
    <3>3. QED BY <1>2, <1>3, <1>10, <3>1, <3>2
  <2>4. QED BY <2>2, <2>3
<1>12. OpenRight'
  BY <1>11 DEF OpenRight
<1>13. OverRight'
  BY <1>1, <1>2, <1>3, <1>4, <1>5, <1>9 DEF OverRight, Over, RepliesTyped
<1>14. QED BY <1>6, <1>7, <1>8, <1>12, <1>13 DEF RoomsInv, RoomTypes

LEMMA MergeIs ==
  ASSUME NEW i, NEW j, ItemTimely(i), ItemTimely(j), clock \in Nat
  PROVE  /\ ItemTimely(Merge(i, j)) /\ Merge(i, j).count = i.count + j.count
         /\ Merge(i, j).latest.at \in {i.latest.at, j.latest.at}
         /\ Merge(i, j).latest.at >= i.latest.at /\ Merge(i, j).latest.at >= j.latest.at
<1>1. /\ Merge(i, j).count = i.count + j.count
      /\ Merge(i, j).latest = IF j.latest.at >= i.latest.at THEN j.latest ELSE i.latest
  BY DEF Merge
<1>2. QED BY <1>1 DEF ItemTimely

LEMMA NoItemIs ==
  ASSUME clock \in Nat
  PROVE  NoItem.count = 0 /\ NoItem.latest.at = 0 /\ ItemTimely(NoItem)
BY DEF NoItem, NoReply, ItemTimely

\* An item of a room and what has been seen changes, the rows and requests stay.
Handling ==
  /\ UNCHANGED <<topic, sent, openUntil, visit, clock>>
  /\ recent \subseteq recent' /\ recent' \subseteq DOMAIN sent
  /\ DOMAIN pending' = Topics /\ DOMAIN flushing' = Topics
  /\ \A r \in Topics : ItemTimely(pending'[r]) /\ ItemTimely(flushing'[r])

LEMMA HandlingKeeps ==
  ASSUME RoomsInv, Handling,
         \A q \in Topics : Fresh(q) => Fresh(q)',
         \A q \in Topics : Prompt /\ Over(q) =>
           /\ pending'[q] # NoItem => pending'[q].latest.at > topic[q].expire
           /\ flushing'[q] # NoItem => flushing'[q].latest.at > topic[q].expire
  PROVE  RoomsInv'
<1>1. RowsTyped /\ RepliesTyped /\ VisitsRight /\ OpenRight /\ OverRight
  BY DEF RoomsInv, RoomTypes
<1>2. VisitsRight'
  BY <1>1, NoVisit DEF Handling
<1>3. RowsTyped'
  BY <1>1 DEF RowsTyped, Handling
<1>4. RepliesTyped'
  BY <1>1 DEF RepliesTyped, Handling, ItemTimely
<1>5. \A q \in Topics : (Active(q)' <=> Active(q)) /\ (Over(q)' <=> Over(q))
  BY DEF Handling, Active, Over
<1>6. OpenRight'
  BY <1>1, <1>5 DEF OpenRight, Handling
<1>7. OverRight'
  BY <1>1, <1>5 DEF OverRight, Handling
<1>8. QED BY <1>2, <1>3, <1>4, <1>6, <1>7 DEF RoomsInv, RoomTypes

LEMMA ListenKept ==
  ASSUME RoomsInv, NEW m \in DOMAIN sent, ListenerMessages(m)
  PROVE  RoomsInv'
<1> DEFINE r == sent[m].topic
<1>1. RowsTyped /\ RepliesTyped /\ OverRight /\ clock \in Nat
  BY DEF RoomsInv, RoomTypes, RowsTyped
<1>2. UNCHANGED <<topic, sent, openUntil, visit, clock, flushing>>
  BY DEF ListenerMessages, rowVars
<1>3. CASE UNCHANGED <<recent, pending>>
  BY <1>1, <1>2, <1>3, RowsUnchanged, QuietKept DEF replyVars
<1>4. CASE ~UNCHANGED <<recent, pending>>
  <2> DEFINE i == ItemOf(m)
             j == Merge(pending[r], i)
  <2>1. /\ m \notin recent /\ recent' = recent \cup {m}
        /\ pending' = [pending EXCEPT ![r] = j]
    BY <1>4 DEF ListenerMessages, QueueLastReply
  <2>2. r \in Topics /\ sent[m].at \in Nat /\ sent[m].at <= clock
    <3>1. sent[m] \in Message
      BY <1>1 DEF RepliesTyped
    <3>2. QED BY <1>1, <3>1 DEF RepliesTyped, Message
  <2>3. i.count = 1 /\ i.latest.at = sent[m].at
    BY DEF ItemOf
  <2>4. ItemTimely(i)
    BY <2>2, <2>3 DEF ItemTimely
  <2> HIDE DEF i
  <2>5. ItemTimely(pending[r])
    BY <1>1, <2>2 DEF RepliesTyped
  <2>6. /\ ItemTimely(j) /\ j.latest.at \in {pending[r].latest.at, sent[m].at}
        /\ j.latest.at >= pending[r].latest.at /\ j.latest.at >= sent[m].at
    BY <1>1, <2>3, <2>4, <2>5, MergeIs
  <2> HIDE DEF j
  <2>7. /\ DOMAIN pending' = Topics /\ pending'[r] = j
        /\ \A q \in Topics \ {r} : pending'[q] = pending[q]
    BY <1>1, <2>1, <2>2 DEF RepliesTyped
  <2> HIDE DEF r
  <2>8. Handling
    BY <1>1, <1>2, <2>1, <2>6, <2>7 DEF Handling, RepliesTyped
  <2>9. ASSUME NEW q \in Topics, Fresh(q) PROVE Fresh(q)'
    <3>1. CASE pending[q].latest.at = clock
      BY <1>1, <1>2, <2>2, <2>6, <2>7, <3>1 DEF Fresh, ItemTimely
    <3>2. CASE flushing[q].latest.at = clock
      BY <1>2, <3>2 DEF Fresh
    <3>3. CASE \E n \in DOMAIN sent \ recent : sent[n].topic = q /\ sent[n].at = clock
      <4>1. PICK n \in DOMAIN sent \ recent : sent[n].topic = q /\ sent[n].at = clock
        BY <3>3
      <4>2. CASE n = m
        <5>1. q = r /\ sent[m].at = clock
          BY <4>1, <4>2 DEF r
        <5>2. pending'[q].latest.at = clock
          BY <1>1, <2>6, <2>7, <5>1 DEF ItemTimely
        <5>3. QED BY <1>2, <5>2 DEF Fresh
      <4>3. CASE n # m
        BY <1>2, <2>1, <4>1, <4>3 DEF Fresh
      <4>4. QED BY <4>2, <4>3
    <3>4. QED BY <2>9, <3>1, <3>2, <3>3 DEF Fresh
  <2>10. ASSUME NEW q \in Topics, Prompt, Over(q)
         PROVE  /\ pending'[q] # NoItem => pending'[q].latest.at > topic[q].expire
                /\ flushing'[q] # NoItem => flushing'[q].latest.at > topic[q].expire
    <3>1. q = r => sent[m].at > topic[q].expire
      BY <1>1, <2>1, <2>10 DEF OverRight, r
    <3>2. topic[q].expire \in Nat
      BY <1>1 DEF RowsTyped
    <3>3. CASE q = r
      BY <1>1, <1>2, <2>2, <2>6, <2>7, <2>10, <3>1, <3>2, <3>3 DEF OverRight, ItemTimely
    <3>4. CASE q # r
      BY <1>1, <1>2, <2>7, <2>10, <3>4 DEF OverRight
    <3>5. QED BY <3>3, <3>4
  <2>11. QED BY <2>8, <2>9, <2>10, HandlingKeeps
<1>5. QED BY <1>3, <1>4

LEMMA TakeKept ==
  ASSUME RoomsInv, TakePending
  PROVE  RoomsInv'
<1>1. RowsTyped /\ RepliesTyped /\ OverRight /\ clock \in Nat \ {0}
  BY DEF RoomsInv, RoomTypes, RowsTyped
<1>2. /\ UNCHANGED <<topic, sent, openUntil, visit, clock, recent>>
      /\ flushing' = pending /\ pending' = [r \in Topics |-> NoItem]
      /\ \A r \in Topics : flushing[r] = NoItem
  BY DEF TakePending, rowVars
<1>3. NoItem.latest.at = 0 /\ ItemTimely(NoItem)
  BY <1>1, NoItemIs
<1>4. Handling
  BY <1>1, <1>2, <1>3 DEF Handling, RepliesTyped
<1>5. \A q \in Topics : Fresh(q) => Fresh(q)'
  BY <1>1, <1>2, <1>3 DEF Fresh
<1>6. \A q \in Topics : Prompt /\ Over(q) =>
        /\ pending'[q] # NoItem => pending'[q].latest.at > topic[q].expire
        /\ flushing'[q] # NoItem => flushing'[q].latest.at > topic[q].expire
  BY <1>1, <1>2 DEF OverRight
<1>7. QED BY <1>4, <1>5, <1>6, HandlingKeeps

LEMMA FlushFailKept ==
  ASSUME RoomsInv, NEW r \in Topics, FlushFails(r)
  PROVE  RoomsInv'
<1> DEFINE j == Merge(pending[r], flushing[r])
<1>1. RowsTyped /\ RepliesTyped /\ OverRight /\ clock \in Nat
  BY DEF RoomsInv, RoomTypes, RowsTyped
<1>2. /\ UNCHANGED <<topic, sent, openUntil, visit, clock, recent>>
      /\ pending' = [pending EXCEPT ![r] = j] /\ flushing[r] # NoItem
      /\ flushing' = [flushing EXCEPT ![r] = NoItem]
  BY DEF FlushFails, Requeue, rowVars
<1>3. ItemTimely(NoItem)
  BY <1>1, NoItemIs
<1>4. ItemTimely(pending[r]) /\ ItemTimely(flushing[r])
  BY <1>1 DEF RepliesTyped
<1>5. /\ ItemTimely(j) /\ j.latest.at \in {pending[r].latest.at, flushing[r].latest.at}
      /\ j.latest.at >= pending[r].latest.at /\ j.latest.at >= flushing[r].latest.at
  BY <1>1, <1>4, MergeIs
<1> HIDE DEF j
<1>6. /\ DOMAIN pending' = Topics /\ pending'[r] = j
      /\ DOMAIN flushing' = Topics /\ flushing'[r] = NoItem
      /\ \A q \in Topics \ {r} : pending'[q] = pending[q] /\ flushing'[q] = flushing[q]
  BY <1>1, <1>2 DEF RepliesTyped
<1>7. Handling
  BY <1>1, <1>2, <1>3, <1>5, <1>6 DEF Handling, RepliesTyped
<1>8. ASSUME NEW q \in Topics, Fresh(q) PROVE Fresh(q)'
  <2>1. CASE q = r
    <3>1. pending[r].latest.at = clock \/ flushing[r].latest.at = clock =>
            j.latest.at = clock
      BY <1>1, <1>4, <1>5 DEF ItemTimely
    <3>2. QED BY <1>2, <1>6, <1>8, <2>1, <3>1 DEF Fresh
  <2>2. CASE q # r
    BY <1>2, <1>6, <1>8, <2>2 DEF Fresh
  <2>3. QED BY <2>1, <2>2
<1>9. ASSUME NEW q \in Topics, Prompt, Over(q)
      PROVE  /\ pending'[q] # NoItem => pending'[q].latest.at > topic[q].expire
             /\ flushing'[q] # NoItem => flushing'[q].latest.at > topic[q].expire
  <2>1. CASE q = r
    <3>1. flushing[r].latest.at > topic[r].expire /\ topic[r].expire \in Nat
      BY <1>1, <1>2, <1>9, <2>1 DEF OverRight, RowsTyped
    <3>2. QED BY <1>4, <1>5, <1>6, <2>1, <3>1 DEF ItemTimely
  <2>2. CASE q # r
    BY <1>1, <1>6, <1>9, <2>2 DEF OverRight
  <2>3. QED BY <2>1, <2>2
<1>10. QED BY <1>7, <1>8, <1>9, HandlingKeeps

LEMMA CacheKept ==
  ASSUME RoomsInv, NEW r \in Topics, CacheExpires(r)
  PROVE  RoomsInv'
BY RowsUnchanged, QuietKept DEF CacheExpires, rowVars, RoomsInv, RoomTypes

Came(i) == {u \in Guests : i.people[u] > 0}

\* The item of a room is written, or dropped.
LEMMA BatchIs ==
  ASSUME RowsTyped, RepliesTyped, NEW r \in Topics, UpdateLastReplyBatch(r)
  PROVE  \/ /\ UNCHANGED topic
            /\ ~Active(r) \/ flushing[r].latest.at > topic[r].expire
         \/ /\ Active(r) /\ flushing[r].latest.at <= topic[r].expire
            /\ \E z : /\ topic' = [topic EXCEPT ![r] = z]
                      /\ DOMAIN z = TopicFields /\ z.status = "active"
                      /\ z.replies = topic[r].replies + flushing[r].count
                      /\ z.expire \in Nat /\ z.expire >= topic[r].expire
                      /\ z.expire >= flushing[r].latest.at + Ttl
<1>1. ItemTimely(flushing[r]) /\ DOMAIN topic[r] = TopicFields /\ topic[r].expire \in Nat
  BY DEF RowsTyped, RepliesTyped
<1>2. CASE Active(r) /\ flushing[r].latest.at <= topic[r].expire
  <2> DEFINE n == Cardinality(Came(flushing[r]) \ GuestsOf(r))
             e == Later(topic[r].expire, flushing[r].latest.at + Ttl)
             z == [topic[r] EXCEPT
                    !.replies = @ + flushing[r].count,
                    !.people = @ + n,
                    !.last = IF @.at <= flushing[r].latest.at
                             THEN flushing[r].latest ELSE @,
                    !.expire = Later(@, flushing[r].latest.at + Ttl)]
  <2>1. topic' = [topic EXCEPT ![r] = z]
    BY <1>2 DEF UpdateLastReplyBatch, Active, Came
  <2>2. e \in Nat /\ e >= topic[r].expire /\ e >= flushing[r].latest.at + Ttl
    BY <1>1, ChatRoomsAssumption DEF Later, ItemTimely
  <2> HIDE DEF n
  <2>3. /\ DOMAIN z = TopicFields /\ z.status = topic[r].status
        /\ z.replies = topic[r].replies + flushing[r].count /\ z.expire = e
    BY <1>1 DEF TopicFields
  <2> HIDE DEF z, e
  <2>4. QED BY <1>2, <2>1, <2>2, <2>3 DEF Active
<1>3. CASE ~(Active(r) /\ flushing[r].latest.at <= topic[r].expire)
  <2>1. UNCHANGED topic
    BY <1>3 DEF UpdateLastReplyBatch, rowVars, Active
  <2>2. QED BY <1>1, <1>3, <2>1 DEF ItemTimely
<1>4. QED BY <1>2, <1>3

LEMMA BatchKept ==
  ASSUME RoomsInv, NEW r \in Topics, UpdateLastReplyBatch(r)
  PROVE  RoomsInv'
<1>1. RowsTyped /\ RepliesTyped /\ VisitsRight /\ OpenRight /\ OverRight
      /\ clock \in Nat \ {0} /\ Ttl \in Nat \ {0}
  BY ChatRoomsAssumption DEF RoomsInv, RoomTypes, RowsTyped
<1>2. /\ UNCHANGED <<sent, openUntil, visit, clock, recent, pending>>
      /\ flushing' = [flushing EXCEPT ![r] = NoItem] /\ flushing[r] # NoItem
  BY DEF UpdateLastReplyBatch
<1>3. NoItem.latest.at = 0 /\ ItemTimely(NoItem)
  BY <1>1, NoItemIs
<1>4. ItemTimely(flushing[r]) /\ topic[r].expire \in Nat /\ topic[r].replies \in Nat
      /\ openUntil[r] \in Nat
  BY <1>1 DEF RepliesTyped, RowsTyped
<1>5. /\ DOMAIN flushing' = Topics /\ flushing'[r] = NoItem
      /\ \A q \in Topics \ {r} : flushing'[q] = flushing[q]
  BY <1>1, <1>2 DEF RepliesTyped
<1>6. RepliesTyped'
  BY <1>1, <1>2, <1>3, <1>5 DEF RepliesTyped, ItemTimely
<1>7. \A q \in Topics \ {r} : Fresh(q) <=> Fresh(q)'
  BY <1>2, <1>5 DEF Fresh
<1>8. Fresh(r) => flushing[r].latest.at = clock \/ Fresh(r)'
  BY <1>2 DEF Fresh
<1>9. CASE UNCHANGED topic /\ (~Active(r) \/ flushing[r].latest.at > topic[r].expire)
  <2>1. RowsTyped' /\ VisitsRight'
    BY <1>1, <1>2, <1>9, NoVisit DEF RowsTyped
  <2>2. \A q \in Topics : (Active(q)' <=> Active(q)) /\ (Over(q)' <=> Over(q))
    BY <1>2, <1>9 DEF Active, Over
  <2>3. OpenRight'
    <3>1. Prompt => ~(Active(r) /\ openUntil[r] > topic[r].expire)
      BY <1>1, <1>4, <1>9 DEF OpenRight, ItemTimely
    <3>2. QED BY <1>1, <1>2, <1>7, <1>9, <2>2, <3>1 DEF OpenRight
  <2>4. OverRight'
    BY <1>1, <1>2, <1>5, <1>9, <2>2 DEF OverRight
  <2>5. QED BY <1>6, <2>1, <2>3, <2>4 DEF RoomsInv, RoomTypes
<1>10. CASE /\ Active(r) /\ flushing[r].latest.at <= topic[r].expire
            /\ \E z : /\ topic' = [topic EXCEPT ![r] = z]
                      /\ DOMAIN z = TopicFields /\ z.status = "active"
                      /\ z.replies = topic[r].replies + flushing[r].count
                      /\ z.expire \in Nat /\ z.expire >= topic[r].expire
                      /\ z.expire >= flushing[r].latest.at + Ttl
  <2>1. PICK z : /\ topic' = [topic EXCEPT ![r] = z]
                 /\ DOMAIN z = TopicFields /\ z.status = "active"
                 /\ z.replies = topic[r].replies + flushing[r].count
                 /\ z.expire \in Nat /\ z.expire >= topic[r].expire
                 /\ z.expire >= flushing[r].latest.at + Ttl
    BY <1>10
  <2>2. /\ DOMAIN topic' = Topics /\ topic'[r] = z
        /\ \A q \in Topics \ {r} : topic'[q] = topic[q]
    BY <1>1, <2>1 DEF RowsTyped
  <2>3. Active(r)' /\ \A q \in Topics \ {r} : /\ Active(q)' <=> Active(q)
                                              /\ Over(q)' <=> Over(q)
    BY <1>2, <2>1, <2>2 DEF Active, Over
  <2>4. Prompt => ~Over(r) /\ ~Over(r)'
    <3>1. Prompt => ~Over(r)
      BY <1>1, <1>2, <1>4, <1>10 DEF OverRight, ItemTimely
    <3>2. QED BY <1>1, <1>2, <1>4, <1>10, <2>1, <2>2, <3>1 DEF Over, Active
  <2>5. RowsTyped'
    <3>1. z.replies \in Nat
      BY <1>4, <2>1 DEF ItemTimely
    <3>2. QED BY <1>1, <1>2, <2>1, <2>2, <3>1 DEF RowsTyped
  <2>6. VisitsRight'
    <3>1. RowsGoOn
      BY <1>1, <1>2, <1>10, <2>1, <2>2, <2>3, <2>4 DEF RowsGoOn, Active
    <3>2. QED BY <1>1, <1>2, <3>1, VisitsStay
  <2>7. OpenRight'
    <3>1. ASSUME Prompt, openUntil[r] > z.expire
          PROVE  clock <= z.expire /\ openUntil[r] <= clock + Ttl /\ Fresh(r)'
      <4>1. clock <= topic[r].expire /\ openUntil[r] <= clock + Ttl /\ Fresh(r)
        BY <1>1, <1>4, <1>10, <2>1, <3>1 DEF OpenRight
      <4>2. flushing[r].latest.at # clock
        BY <1>1, <1>4, <2>1, <3>1, <4>1 DEF ItemTimely
      <4>3. QED BY <1>1, <1>4, <1>8, <2>1, <4>1, <4>2
    <3>2. QED BY <1>1, <1>2, <1>7, <2>2, <2>3, <3>1 DEF OpenRight
  <2>8. OverRight'
    BY <1>1, <1>2, <1>5, <2>2, <2>3, <2>4 DEF OverRight
  <2>9. QED BY <1>6, <2>5, <2>6, <2>7, <2>8 DEF RoomsInv, RoomTypes
<1>11. QED BY <1>1, <1>9, <1>10, BatchIs

LEMMA TickKept ==
  ASSUME RoomsInv, Tick
  PROVE  RoomsInv'
<1>1. RowsTyped /\ RepliesTyped /\ VisitsRight /\ OpenRight /\ OverRight
      /\ clock \in Nat \ {0}
  BY DEF RoomsInv, RoomTypes, RowsTyped
<1>2. /\ UNCHANGED <<topic, sent, openUntil, visit, recent, pending, flushing>>
      /\ clock' = clock + 1
  BY DEF Tick, rowVars, replyVars
<1>3. ASSUME Prompt
      PROVE  /\ \A r \in Topics : pending[r] = NoItem /\ flushing[r] = NoItem
             /\ \A m \in DOMAIN sent \ recent :
                  Active(sent[m].topic) => topic[sent[m].topic].expire < sent[m].at
  <2>1. /\ \A r \in Topics : pending[r] = NoItem /\ flushing[r] = NoItem
        /\ \A m \in 1..Len(sent) : m \in recent \/ ~IsTopicMessage(m)
    BY <1>3 DEF Tick
  <2>2. ASSUME NEW m \in DOMAIN sent \ recent, Active(sent[m].topic)
        PROVE  topic[sent[m].topic].expire < sent[m].at
    <3>1. DOMAIN sent = 1..Len(sent) /\ sent[m] \in Message
      BY <1>1 DEF RepliesTyped
    <3>2. sent[m].topic \in Topics /\ sent[m].at \in Nat
      BY <3>1 DEF Message
    <3>3. topic[sent[m].topic].expire \in Nat
      BY <1>1, <3>2 DEF RowsTyped
    <3>4. ~IsTopicMessage(m)
      BY <2>1, <3>1
    <3>5. QED BY <2>2, <3>2, <3>3, <3>4 DEF IsTopicMessage, Active
  <2>3. QED BY <2>1, <2>2
<1>4. RowsTyped'
  BY <1>1, <1>2 DEF RowsTyped
<1>5. RepliesTyped'
  BY <1>1, <1>2 DEF RepliesTyped, ItemTimely
<1>6. VisitsRight'
  <2>1. RowsGoOn
    BY <1>1, <1>2 DEF RowsGoOn, Active, Over
  <2>2. QED BY <1>1, <1>2, <2>1, VisitsStay
<1>7. OpenRight'
  <2>1. ASSUME Prompt, NEW r \in Topics, Active(r), openUntil[r] > topic[r].expire
        PROVE  FALSE
    <3>1. clock <= topic[r].expire /\ Fresh(r)
      BY <1>1, <2>1 DEF OpenRight
    <3>2. NoItem.latest.at = 0
      BY <1>1, NoItemIs
    <3>3. PICK m \in DOMAIN sent \ recent : sent[m].topic = r /\ sent[m].at = clock
      BY <1>1, <1>3, <2>1, <3>1, <3>2 DEF Fresh
    <3>4. topic[r].expire \in Nat
      BY <1>1 DEF RowsTyped
    <3>5. QED BY <1>1, <1>3, <2>1, <3>1, <3>3, <3>4
  <2>2. QED BY <1>2, <2>1 DEF OpenRight, Active
<1>8. OverRight'
  BY <1>2, <1>3 DEF OverRight, Over, Active, RowsTyped
<1>9. QED BY <1>4, <1>5, <1>6, <1>7, <1>8 DEF RoomsInv, RoomTypes

-----------------------------------------------------------------------------
LEMMA RoomsInitOK == RoomsInit => RoomsInv
<1> SUFFICES ASSUME RoomsInit PROVE RoomsInv
  OBVIOUS
<1>1. clock = 1 /\ sent = <<>> /\ recent = {}
  BY DEF RoomsInit
<1>2. /\ pending = [r \in Topics |-> NoItem] /\ flushing = [r \in Topics |-> NoItem]
      /\ openUntil = [r \in Topics |-> 0] /\ visit = [w \in Visits |-> Away]
  BY DEF RoomsInit
<1>3. \A r \in Topics : /\ DOMAIN topic[r] = TopicFields /\ topic[r].status = "unused"
                        /\ topic[r].expire = 0 /\ topic[r].replies = 0
  BY DEF RoomsInit, TopicFields
<1>4. RowsTyped
  <2>1. DOMAIN topic = Topics
    BY DEF RoomsInit
  <2>2. QED BY <1>1, <1>2, <1>3, <2>1 DEF RowsTyped
<1>5. RepliesTyped
  <2>1. ItemTimely(NoItem)
    BY <1>1, NoItemIs
  <2>2. QED BY <1>1, <1>2, <2>1 DEF RepliesTyped
<1>6. VisitsRight
  <2>1. \A w \in Visits : visit[w] = Away
    BY <1>2
  <2>2. VisitsTyped
    BY <1>2, <2>1, AwayIs DEF VisitsTyped, Plain
  <2>3. SoftRight /\ InsertRight
    BY <2>1, PlainCalls DEF SoftRight, InsertRight, Away
  <2>4. QED BY <2>2, <2>3 DEF VisitsRight
<1>7. OpenRight /\ OverRight
  BY <1>3 DEF OpenRight, OverRight, Over, Active
<1>8. QED BY <1>4, <1>5, <1>6, <1>7 DEF RoomsInv, RoomTypes

LEMMA RoomsStepOK ==
  ASSUME RoomsInv, [RoomsNext]_roomVars
  PROVE  RoomsInv'
<1>1. CASE UNCHANGED roomVars
  <2>1. SameRows /\ visit' = visit
    BY <1>1, RowsUnchanged DEF roomVars, rowVars, RoomsInv, RoomTypes
  <2>2. QED BY <2>1, QuietKept
<1>2. ASSUME NEW w \in Visits, Visiting(w) PROVE RoomsInv'
  <2>1. \/ \E r \in Topics :
             \/ CreateAgain(w, r) \/ CreateRoom(w, r) \/ Delete(w, r)
             \/ CleanupExpired(w, r)
             \/ \E u \in Guests : Enter(w, r, u) \/ Read(w, r, u)
        \/ InsertRoom(w) \/ DeleteFailedCreate(w) \/ SoftDelete(w)
        \/ ReadMembers(w) \/ SyncIMChannel(w) \/ AddMemberToRoom(w)
        \/ AddIMSubscribers(w) \/ MarkRead(w) \/ DeleteIMChannel(w) \/ VisitFails(w)
    BY <1>2 DEF Visiting
  <2>2. QED BY <2>1, ArrivalsKeep, InsertKept, RollbackRoomKept, SoftKept, QuietVisits
<1>3. ASSUME NEW r \in Topics,
             \/ PurgeDeleted(r) \/ CacheExpires(r)
             \/ UpdateLastReplyBatch(r) \/ FlushFails(r)
             \/ \E u \in Guests : SendReply(r, u)
      PROVE  RoomsInv'
  BY <1>3, PurgeKept, CacheKept, BatchKept, FlushFailKept, SendKept
<1>4. ASSUME NEW m \in 1..Len(sent), ListenerMessages(m) PROVE RoomsInv'
  <2>1. m \in DOMAIN sent
    BY DEF RoomsInv, RoomTypes, RepliesTyped
  <2>2. QED BY <1>4, <2>1, ListenKept
<1>5. CASE TakePending \/ Tick
  BY <1>5, TakeKept, TickKept
<1>6. QED BY <1>1, <1>2, <1>3, <1>4, <1>5 DEF RoomsNext

-----------------------------------------------------------------------------
\* Only softDelete takes a room that is open away.
LEMMA OnlySoftGoes ==
  ASSUME RoomsInv, RoomsNext, NEW r \in Topics,
         topic[r].status = "active", topic'[r].status = "gone"
  PROVE  \E w \in Visits : SoftDelete(w) /\ visit[w].topic = r
<1>1. RowsTyped /\ RepliesTyped /\ VisitsTyped
  BY DEF RoomsInv, RoomTypes, VisitsRight
<1>2. ~SameRows
  BY DEF SameRows
<1>3. ~UNCHANGED topic
  OBVIOUS
<1>4. ASSUME NEW q \in Topics, PurgeDeleted(q) PROVE FALSE
  <2>1. topic'[q].status = "deleted" \/ q # r
    BY <1>1, <1>4 DEF PurgeDeleted, RowsTyped
  <2>2. QED BY <1>1, <1>4, <2>1 DEF PurgeDeleted, RowsTyped
<1>5. ASSUME NEW q \in Topics, UpdateLastReplyBatch(q) PROVE FALSE
  BY <1>1, <1>3, <1>5, BatchIs DEF RowsTyped
<1>6. ASSUME NEW w \in Visits, InsertRoom(w) PROVE FALSE
  BY <1>1, <1>6 DEF InsertRoom, Stored
<1>7. ASSUME NEW w \in Visits, DeleteFailedCreate(w) PROVE FALSE
  <2> DEFINE q == visit[w].topic
             z == [topic[q] EXCEPT !.status = "deleted"]
  <2>1. topic' = [topic EXCEPT ![q] = z] /\ q \in Topics
    BY <1>1, <1>3, <1>7 DEF DeleteFailedCreate, rowVars, Next1, Underway, VisitsTyped,
                            VisitOK
  <2>2. z.status = "deleted"
    BY <1>1, <2>1, GoneRow
  <2> HIDE DEF z
  <2>3. QED BY <1>1, <2>1, <2>2 DEF RowsTyped
<1>8. ASSUME NEW w \in Visits, SoftDelete(w) PROVE visit[w].topic = r
  <2> DEFINE q == visit[w].topic
             z == [topic[q] EXCEPT !.status = "gone", !.expire = clock]
  <2>1. topic' = [topic EXCEPT ![q] = z]
    BY <1>3, <1>8 DEF SoftDelete
  <2> HIDE DEF z
  <2>2. QED BY <1>1, <2>1 DEF RowsTyped
<1>9. ASSUME NEW w \in Visits, Visiting(w) PROVE SoftDelete(w)
  <2>1. ~AddMemberToRoom(w)
    BY <1>1, <1>2, JoinSame
  <2>2. ~ \E q \in Topics :
             \/ CreateAgain(w, q) \/ CreateRoom(w, q) \/ Delete(w, q)
             \/ CleanupExpired(w, q)
             \/ \E u \in Guests : Enter(w, q, u) \/ Read(w, q, u)
    BY <1>3 DEF CreateAgain, CreateRoom, Delete, CleanupExpired, Enter, Read, rowVars
  <2>3. ~ (\/ ReadMembers(w) \/ SyncIMChannel(w) \/ AddIMSubscribers(w)
           \/ MarkRead(w) \/ DeleteIMChannel(w) \/ VisitFails(w))
    BY <1>3 DEF ReadMembers, SyncIMChannel, AddIMSubscribers, MarkRead,
                DeleteIMChannel, VisitFails, rowVars
  <2>4. QED BY <1>6, <1>7, <1>9, <2>1, <2>2, <2>3 DEF Visiting
<1>10. ~ (\/ TakePending \/ Tick
          \/ \E m \in 1..Len(sent) : ListenerMessages(m)
          \/ \E q \in Topics : \/ CacheExpires(q) \/ FlushFails(q)
                               \/ \E u \in Guests : SendReply(q, u))
  BY <1>3 DEF TakePending, Tick, ListenerMessages, CacheExpires, FlushFails, SendReply,
              rowVars
<1>11. \E w \in Visits : SoftDelete(w)
  BY <1>4, <1>5, <1>9, <1>10 DEF RoomsNext
<1>12. QED BY <1>8, <1>11

LEMMA GoneAfterReplies ==
  ASSUME Prompt, RoomsInv, RoomsNext, NEW r \in Topics,
         topic[r].status = "active", topic'[r].status = "gone"
  PROVE  \/ openUntil[r] < clock
         \/ \E w \in Visits : visit[w].op = "delete" /\ visit'[w] # visit[w]
<1>1. PICK w \in Visits : SoftDelete(w) /\ visit[w].topic = r
  BY OnlySoftGoes
<1>2. visit[w].calls = SoftCalls /\ Underway(w) /\ VisitsTyped
  BY <1>1, SoftIs DEF RoomsInv, VisitsRight
<1>3. visit[w].op \in {"delete", "cleanup"}
      /\ (visit[w].op = "cleanup" => Over(r))
  BY <1>1, <1>2 DEF RoomsInv, VisitsRight, SoftRight, Active
<1>4. CASE visit[w].op = "delete"
  <2>1. Proceed(w)
    BY <1>1 DEF SoftDelete
  <2>2. PICK x : visit' = [visit EXCEPT ![w] = x] /\ x.calls # visit[w].calls
    BY <1>2, <2>1, ProceedIs
  <2>3. visit'[w] # visit[w]
    BY <1>2, <2>2 DEF VisitsTyped
  <2>4. QED BY <1>4, <2>3
<1>5. CASE visit[w].op = "cleanup"
  <2>1. clock \in Nat /\ topic[r].expire \in Nat /\ openUntil[r] \in Nat
    BY DEF RoomsInv, RoomTypes, RowsTyped
  <2>2. QED BY <1>3, <1>5, <2>1 DEF RoomsInv, OpenRight, Over
<1>6. QED BY <1>3, <1>4, <1>5

-----------------------------------------------------------------------------
\* The replies that a step has seen for the first time, of a room.
Accepted(r) == {m \in recent' \ recent : sent[m].topic = r}

\* What is counted for the room stays where it is.
LEMMA CountStays ==
  ASSUME NEW r \in Topics, recent' = recent, topic'[r].replies = topic[r].replies,
         pending' = pending, flushing' = flushing, RoomsInv
  PROVE  CountOf(r)' = CountOf(r) + Cardinality(Accepted(r))
<1>1. Accepted(r) = {}
  BY DEF Accepted
<1>2. /\ topic[r].replies \in Nat /\ pending[r].count \in Nat
      /\ flushing[r].count \in Nat
  BY DEF RoomsInv, RoomTypes, RowsTyped, RepliesTyped, ItemTimely
<1>3. QED BY <1>1, <1>2, FS_EmptySet DEF CountOf

LEMMA ListenCounts ==
  ASSUME RoomsInv, NEW m \in DOMAIN sent, ListenerMessages(m), NEW r \in Topics
  PROVE  CountOf(r)' = CountOf(r) + Cardinality(Accepted(r))
<1> DEFINE s == sent[m].topic
           j == Merge(pending[s], ItemOf(m))
<1>1. RowsTyped /\ RepliesTyped /\ topic' = topic /\ flushing' = flushing
      /\ clock \in Nat
  BY DEF RoomsInv, RoomTypes, RowsTyped, ListenerMessages, rowVars
<1>2. CASE UNCHANGED <<recent, pending>>
  BY <1>1, <1>2, CountStays
<1>3. CASE ~UNCHANGED <<recent, pending>>
  <2>1. /\ m \notin recent /\ recent' = recent \cup {m}
        /\ pending' = [pending EXCEPT ![s] = j]
    BY <1>3 DEF ListenerMessages, QueueLastReply
  <2>2. recent' \ recent = {m}
    BY <2>1
  <2>3. j.count = pending[s].count + 1
    BY DEF Merge, ItemOf
  <2> HIDE DEF j
  <2>4. /\ topic[r].replies \in Nat /\ pending[r].count \in Nat
        /\ flushing[r].count \in Nat
    BY <1>1 DEF RowsTyped, RepliesTyped, ItemTimely
  <2>5. CASE s = r
    <3>1. Accepted(r) = {m}
      BY <2>2, <2>5 DEF Accepted
    <3>2. Cardinality(Accepted(r)) = 1
      BY <3>1, FS_Singleton
    <3>3. pending'[r].count = pending[r].count + 1
      BY <1>1, <2>1, <2>3, <2>5 DEF RepliesTyped
    <3>4. QED BY <1>1, <2>4, <3>2, <3>3 DEF CountOf
  <2>6. CASE s # r
    <3>1. Accepted(r) = {}
      BY <2>2, <2>6 DEF Accepted
    <3>2. Cardinality(Accepted(r)) = 0
      BY <3>1, FS_EmptySet
    <3>3. pending'[r] = pending[r]
      BY <1>1, <2>1, <2>6 DEF RepliesTyped
    <3>4. QED BY <1>1, <2>4, <3>2, <3>3 DEF CountOf
  <2>7. QED BY <2>5, <2>6
<1>4. QED BY <1>2, <1>3

\* The queue is taken, an item is put back: the replies are counted on.
LEMMA QueueCounts ==
  ASSUME RoomsInv, NEW r \in Topics, TakePending \/ \E q \in Topics : FlushFails(q)
  PROVE  CountOf(r)' = CountOf(r) + Cardinality(Accepted(r))
<1>1. RowsTyped /\ RepliesTyped /\ clock \in Nat
  BY DEF RoomsInv, RoomTypes, RowsTyped
<1>2. topic' = topic /\ recent' = recent
  BY DEF TakePending, FlushFails, rowVars
<1>3. Accepted(r) = {}
  BY <1>2 DEF Accepted
<1>4. Cardinality(Accepted(r)) = 0
  BY <1>3, FS_EmptySet
<1>5. /\ topic[r].replies \in Nat /\ pending[r].count \in Nat
      /\ flushing[r].count \in Nat
  BY <1>1 DEF RowsTyped, RepliesTyped, ItemTimely
<1>6. NoItem.count = 0
  BY <1>1, NoItemIs
<1>7. pending'[r].count + flushing'[r].count = pending[r].count + flushing[r].count
  <2>1. CASE TakePending
    BY <1>5, <1>6, <2>1 DEF TakePending
  <2>2. ASSUME NEW q \in Topics, FlushFails(q)
        PROVE  pending'[r].count + flushing'[r].count
                 = pending[r].count + flushing[r].count
    <3> DEFINE j == Merge(pending[q], flushing[q])
    <3>1. /\ pending' = [pending EXCEPT ![q] = j]
          /\ flushing' = [flushing EXCEPT ![q] = NoItem]
      BY <2>2 DEF FlushFails, Requeue
    <3>2. j.count = pending[q].count + flushing[q].count
      BY DEF Merge
    <3> HIDE DEF j
    <3>3. CASE q = r
      <4>1. pending'[r] = j /\ flushing'[r] = NoItem
        BY <1>1, <3>1, <3>3 DEF RepliesTyped
      <4>2. QED BY <1>5, <1>6, <3>2, <3>3, <4>1
    <3>4. CASE q # r
      <4>1. pending'[r] = pending[r] /\ flushing'[r] = flushing[r]
        BY <1>1, <3>1, <3>4 DEF RepliesTyped
      <4>2. QED BY <4>1
    <3>5. QED BY <3>3, <3>4
  <2>3. QED BY <2>1, <2>2
<1>8. pending'[r].count \in Nat /\ flushing'[r].count \in Nat
  <2>1. RoomsInv'
    BY TakeKept, FlushFailKept
  <2>2. QED BY <2>1 DEF RoomsInv, RoomTypes, RepliesTyped, ItemTimely
<1>9. QED BY <1>2, <1>4, <1>5, <1>7, <1>8 DEF CountOf

\* An open room takes its item.
LEMMA BatchCounts ==
  ASSUME RoomsInv, NEW r \in Topics, IsOpen(r), NEW q \in Topics,
         UpdateLastReplyBatch(q)
  PROVE  CountOf(r)' = CountOf(r) + Cardinality(Accepted(r))
<1>1. RowsTyped /\ RepliesTyped /\ clock \in Nat
  BY DEF RoomsInv, RoomTypes, RowsTyped
<1>2. recent' = recent /\ pending' = pending
      /\ flushing' = [flushing EXCEPT ![q] = NoItem]
  BY DEF UpdateLastReplyBatch
<1>3. Accepted(r) = {}
  BY <1>2 DEF Accepted
<1>4. Cardinality(Accepted(r)) = 0
  BY <1>3, FS_EmptySet
<1>5. /\ topic[r].replies \in Nat /\ pending[r].count \in Nat
      /\ flushing[r].count \in Nat /\ topic[r].expire \in Nat
      /\ flushing[r].latest.at \in Nat /\ flushing[r].latest.at <= clock
  BY <1>1 DEF RowsTyped, RepliesTyped, ItemTimely
<1>6. NoItem.count = 0
  BY <1>1, NoItemIs
<1>7. topic'[r].replies + flushing'[r].count = topic[r].replies + flushing[r].count
      /\ topic'[r].replies \in Nat
  <2>1. CASE q = r
    <3>1. Active(r) /\ ~(flushing[r].latest.at > topic[r].expire)
      BY <1>1, <1>5 DEF IsOpen, Active
    <3>2. PICK z : topic' = [topic EXCEPT ![r] = z]
                   /\ z.replies = topic[r].replies + flushing[r].count
      BY <1>1, <2>1, <3>1, BatchIs
    <3>3. topic'[r] = z /\ flushing'[r] = NoItem
      BY <1>1, <1>2, <2>1, <3>2 DEF RowsTyped, RepliesTyped
    <3>4. QED BY <1>5, <1>6, <3>2, <3>3
  <2>2. CASE q # r
    <3>1. topic'[r] = topic[r]
      BY <1>1, <2>2, BatchIs DEF RowsTyped
    <3>2. flushing'[r] = flushing[r]
      BY <1>1, <1>2, <2>2 DEF RepliesTyped
    <3>3. QED BY <1>5, <3>1, <3>2
  <2>3. QED BY <2>1, <2>2
<1>8. flushing'[r].count \in Nat
  BY <1>1, <1>2, <1>5, <1>6 DEF RepliesTyped
<1>9. QED BY <1>2, <1>4, <1>5, <1>7, <1>8 DEF CountOf

\* The row of another room goes, or this one is open no longer.
LEMMA OtherGoes ==
  ASSUME RoomsInv, NEW r \in Topics, NEW q, NEW s,
         s # "active", topic'[r].status = "active",
         topic' = [topic EXCEPT ![q].status = s]
         \/ topic' = [topic EXCEPT ![q].status = s, ![q].expire = clock]
  PROVE  topic'[r] = topic[r]
<1> DEFINE y == [topic[q] EXCEPT !.status = s]
           z == [topic[q] EXCEPT !.status = s, !.expire = clock]
<1>1. RowsTyped
  BY DEF RoomsInv, RoomTypes
<1>2. topic' = [topic EXCEPT ![q] = y] \/ topic' = [topic EXCEPT ![q] = z]
  OBVIOUS
<1>3. q \in Topics => y.status = s /\ z.status = s
  BY <1>1, GoneRow
<1> HIDE DEF y, z
<1>4. QED BY <1>1, <1>2, <1>3 DEF RowsTyped

LEMMA StepCounts ==
  ASSUME RoomsInv, RoomsNext, NEW r \in Topics, IsOpen(r), topic'[r].status = "active"
  PROVE  CountOf(r)' = CountOf(r) + Cardinality(Accepted(r))
<1>1. RowsTyped /\ RepliesTyped /\ VisitsTyped
  BY DEF RoomsInv, RoomTypes, VisitsRight
<1>2. ASSUME NEW w \in Visits, Visiting(w)
      PROVE  /\ UNCHANGED replyVars
             /\ topic'[r].replies = topic[r].replies
  <2>1. UNCHANGED replyVars
    BY <1>2 DEF Visiting, CreateAgain, CreateRoom, Delete, CleanupExpired, Enter, Read,
         Arrive, InsertRoom, ReadMembers, SyncIMChannel, DeleteFailedCreate,
         AddMemberToRoom, AddIMSubscribers, MarkRead, SoftDelete, DeleteIMChannel,
         VisitFails
  <2>2. CASE AddMemberToRoom(w)
    BY <1>1, <2>1, <2>2, JoinSame DEF SameRows
  <2>3. CASE SoftDelete(w) \/ DeleteFailedCreate(w)
    <3>1. \/ topic' = topic
          \/ topic' = [topic EXCEPT ![visit[w].topic].status = "deleted"]
          \/ topic' = [topic EXCEPT ![visit[w].topic].status = "gone",
                                    ![visit[w].topic].expire = clock]
      BY <2>3 DEF SoftDelete, DeleteFailedCreate, rowVars
    <3>2. topic'[r] = topic[r]
      BY <3>1, OtherGoes
    <3>3. QED BY <2>1, <3>2
  <2>4. CASE InsertRoom(w)
    <3>1. {q \in Topics : Stored(q)} # {}
      BY DEF Stored, IsOpen
    <3>2. QED BY <2>1, <2>4, <3>1 DEF InsertRoom
  <2>5. CASE ~(\/ AddMemberToRoom(w) \/ SoftDelete(w) \/ DeleteFailedCreate(w)
               \/ InsertRoom(w))
    <3>1. topic' = topic
      BY <1>2, <2>5 DEF Visiting, CreateAgain, CreateRoom, Delete, CleanupExpired,
           Enter, Read, ReadMembers, SyncIMChannel, AddIMSubscribers, MarkRead,
           DeleteIMChannel, VisitFails, rowVars
    <3>2. QED BY <2>1, <3>1
  <2>6. QED BY <2>2, <2>3, <2>4, <2>5
<1>3. ASSUME NEW w \in Visits, Visiting(w)
      PROVE  CountOf(r)' = CountOf(r) + Cardinality(Accepted(r))
  BY <1>2, <1>3, CountStays DEF replyVars
<1>4. ASSUME NEW q \in Topics, PurgeDeleted(q)
      PROVE  CountOf(r)' = CountOf(r) + Cardinality(Accepted(r))
  <2>1. topic'[r] = topic[r]
    BY <1>4, OtherGoes DEF PurgeDeleted
  <2>2. QED BY <1>4, <2>1, CountStays DEF PurgeDeleted, replyVars
<1>5. ASSUME NEW q \in Topics, CacheExpires(q) \/ \E u \in Guests : SendReply(q, u)
      PROVE  CountOf(r)' = CountOf(r) + Cardinality(Accepted(r))
  BY <1>5, CountStays DEF CacheExpires, SendReply, rowVars, replyVars
<1>6. CASE Tick
  BY <1>6, CountStays DEF Tick, rowVars, replyVars
<1>7. ASSUME NEW m \in 1..Len(sent), ListenerMessages(m)
      PROVE  CountOf(r)' = CountOf(r) + Cardinality(Accepted(r))
  <2>1. m \in DOMAIN sent
    BY <1>1 DEF RepliesTyped
  <2>2. QED BY <1>7, <2>1, ListenCounts
<1>8. CASE TakePending \/ \E q \in Topics : FlushFails(q)
  BY <1>8, QueueCounts
<1>9. ASSUME NEW q \in Topics, UpdateLastReplyBatch(q)
      PROVE  CountOf(r)' = CountOf(r) + Cardinality(Accepted(r))
  BY <1>9, BatchCounts
<1>10. QED BY <1>3, <1>4, <1>5, <1>6, <1>7, <1>8, <1>9 DEF RoomsNext

-----------------------------------------------------------------------------
\* The replies of an open room are counted once each: from queueLastReply
\* through FlushPendingLastReplies and requeueLastReplyItem to the row that
\* updateLastReplyBatch writes, whatever requests and failures fall between.
THEOREM RepliesAreCounted == RoomsSpec => EveryReplyCounted
<1>1. RoomsInit => RoomsInv
  BY RoomsInitOK
<1>2. RoomsInv /\ [RoomsNext]_roomVars => RoomsInv'
  BY RoomsStepOK
<1>3. RoomsInv /\ [RoomsNext]_roomVars =>
        [\A r \in Topics : IsOpen(r) /\ IsOpen(r)' =>
           CountOf(r)' = CountOf(r)
             + Cardinality({m \in recent' \ recent : sent[m].topic = r})]_roomVars
  <2> SUFFICES ASSUME RoomsInv, RoomsNext, NEW r \in Topics, IsOpen(r), IsOpen(r)'
               PROVE  CountOf(r)' = CountOf(r)
                 + Cardinality({m \in recent' \ recent : sent[m].topic = r})
    OBVIOUS
  <2>1. topic'[r].status = "active"
    BY DEF IsOpen
  <2>2. QED BY <2>1, StepCounts DEF Accepted
<1>4. QED BY <1>1, <1>2, <1>3, PTL DEF RoomsSpec, EveryReplyCounted

\* When a reply reaches its row before the clock ticks (Prompt), the softDelete
\* of cleanupExpired takes no room within Ttl of its last reply, and a room
\* that goes earlier was deleted by its host.
THEOREM CleanupComesAfterReplies ==
  ASSUME Prompt PROVE RoomsSpec => RepliedRoomStays
<1>1. RoomsInit => RoomsInv
  BY RoomsInitOK
<1>2. RoomsInv /\ [RoomsNext]_roomVars => RoomsInv'
  BY RoomsStepOK
<1>3. RoomsInv /\ [RoomsNext]_roomVars =>
        [\A r \in Topics :
           topic[r].status = "active" /\ topic'[r].status = "gone" =>
             \/ openUntil[r] < clock
             \/ \E w \in Visits : visit[w].op = "delete" /\ visit'[w] # visit[w]
        ]_roomVars
  BY GoneAfterReplies
<1>4. QED BY <1>1, <1>2, <1>3, PTL DEF RoomsSpec, RepliedRoomStays
=============================================================================
