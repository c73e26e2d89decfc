---------------------------- MODULE OnlineStatus ----------------------------
(***************************************************************************)
(* Who is online (modules/user): the rows of user_online, which follow the *)
(* notices of the IM server, the copy of them in partner_profiles, what    *)
(* friends are told, and the timer that looks for rows whose notice was    *)
(* lost.                                                                   *)
(*                                                                         *)
(* The two writers are transactions, with the locks of their rows: those   *)
(* they write, and all rows of a user once they have read them for his     *)
(* copy.  The IM server posts its notices one list at a time.  The copy in *)
(* dating_profiles is written like that in partner_profiles; the order and *)
(* the limit of the rows that one check reads, and which friends are told, *)
(* are left out.                                                           *)
(***************************************************************************)
EXTENDS Integers, Sequences, FiniteSets, FiniteSetsExt

CONSTANTS
  Devices,      \* pairs of a user and a kind of device
  Main,         \* the kind of device with the greatest weight
  MaxSockets,   \* bound: connections of all devices
  MaxWaiting,   \* bound: notices that wait at the IM server
  MaxLapses     \* bound: lost notices, failed statements, broken checks

ASSUME OnlineAssumption ==
  /\ IsFiniteSet(Devices)
  /\ {MaxSockets, MaxWaiting, MaxLapses} \subseteq Nat

VARIABLES
  sockets,   \* the connections of a device at the IM server
  notices,   \* what the IM server has not yet posted, in order
  online,    \* user_online.online
  recent,    \* rows with a last_online of the last minute
  shown,     \* partner_profiles.online
  told,      \* what the friends of a user were told last
  writer,    \* listenOnlineStatus and onlineStatusCheck
  misled,    \* history: devices whose row need not be right
  uncopied,  \* history: users whose copy need not be right
  untold,    \* history: users whose friends need not know
  lapses

historyVars == <<misled, uncopied, untold, lapses>>
onlineVars == <<sockets, notices, online, recent, shown, told, writer, historyVars>>

Owner(d) == d[1]
Owners == {Owner(d) : d \in Devices}
DevicesOf(u) == {d \in Devices : Owner(d) = u}
Writers == {"listener", "check"}

\* rows is what a transaction has written, copied whose copies it has brought
\* up to date, torn that it goes on without being a transaction any more,
\* and tells what friends are told afterwards.
NoWriter == [pc |-> "idle", list |-> <<>>, found |-> {}, rows |-> <<>>,
             copied |-> <<>>, torn |-> FALSE, tells |-> <<>>]

OnlineInit ==
  /\ sockets = [d \in Devices |-> 0] /\ notices = <<>>
  /\ online = [d \in Devices |-> FALSE] /\ recent = {}
  /\ shown = [u \in Owners |-> FALSE] /\ told = shown
  /\ writer = [w \in Writers |-> NoWriter]
  /\ misled = {} /\ uncopied = {} /\ untold = {} /\ lapses = 0

MayLapse == lapses < MaxLapses /\ lapses' = lapses + 1
WriterAt(w, pc) == writer[w].pc = pc
WriterGoes(w, s) == writer' = [writer EXCEPT ![w] = s]

-----------------------------------------------------------------------------
(***************************************************************************)
(* The IM server (external)                                                *)
(***************************************************************************)
\* It tells how many connections the device has left.
Posts(d, on, count) ==
  notices' = Append(notices, [dev |-> d, on |-> on, count |-> count])

Connects(d) ==
  /\ MapThenSumSet(LAMBDA e : sockets[e], Devices) < MaxSockets
  /\ Len(notices) < MaxWaiting
  /\ sockets' = [sockets EXCEPT ![d] = @ + 1]
  /\ Posts(d, TRUE, sockets[d] + 1)
  /\ UNCHANGED <<misled, lapses>>

Disconnects(d) ==
  /\ sockets[d] > 0 /\ Len(notices) < MaxWaiting
  /\ sockets' = [sockets EXCEPT ![d] = @ - 1]
  /\ Posts(d, FALSE, sockets[d] - 1)
  /\ UNCHANGED <<misled, lapses>>

\* The server stops: its connections are gone and it told nobody.
Restarts ==
  /\ MayLapse
  /\ sockets' = [d \in Devices |-> 0] /\ notices' = <<>>
  /\ misled' = Devices

-----------------------------------------------------------------------------
(***************************************************************************)
(* insertOrUpdateUserOnlineTx, for both writers                            *)
(***************************************************************************)
Written(w) == DOMAIN writer[w].rows
Copied(w) == DOMAIN writer[w].copied

\* The rows as this transaction sees them.
Sees(w, d) == IF d \in Written(w) THEN writer[w].rows[d] ELSE online[d]

RowTaken(w, d) ==
  \E v \in Writers \ {w} : d \in Written(v) \/ Owner(d) \in Copied(v)
UserTaken(w, u) ==
  \E v \in Writers \ {w} : u \in Copied(v) \/ \E d \in Written(v) : Owner(d) = u

\* Fault: every notice is taken for the device.
KeptAll(notice) == TRUE

\* A connection is gone and others of the device are left: both listeners pass
\* over the notice.
Kept(notice) == notice.on \/ notice.count = 0

\* The first entry of the list is next.
Entry(w) == Head(writer[w].list)
Blocked(w) ==
  \/ WriterAt(w, "row") /\ Kept(Entry(w)) /\ RowTaken(w, Entry(w).dev)
  \/ WriterAt(w, "copy") /\ UserTaken(w, Owner(Entry(w).dev))

Put(f, x, v) == [y \in DOMAIN f \cup {x} |-> IF y = x THEN v ELSE f[y]]

\* The rows D become visible.  A check that has asked before a device connected
\* puts it off, and nobody is told what a check does.
Appear(w, D) ==
  LET off == {d \in D : w = "check"} IN
  /\ misled' = misled \cup {d \in off : sockets[d] > 0}
  /\ untold' = untold \cup {Owner(d) : d \in off}

WriteRow(w) ==
  LET d == Entry(w).dev on == Entry(w).on IN
  /\ WriterAt(w, "row") /\ Kept(Entry(w)) /\ ~Blocked(w)
  /\ IF writer[w].torn
     THEN /\ online' = [online EXCEPT ![d] = on]
          /\ recent' = IF on THEN recent \cup {d} ELSE recent
          /\ uncopied' = uncopied \cup {Owner(d)}
          /\ Appear(w, {d})
          /\ WriterGoes(w, [writer[w] EXCEPT !.pc = "copy"])
     ELSE /\ WriterGoes(w, [writer[w] EXCEPT !.pc = "copy", !.rows = Put(@, d, on)])
          /\ UNCHANGED <<online, recent, misled, uncopied, untold>>
  /\ UNCHANGED <<shown, told, lapses>>

\* Fault: the copy takes over the device that changed.
CopyOfDevice(w, d) == Sees(w, d)

\* Any of his devices will do.
CopyOfUser(w, d) == \E e \in DevicesOf(Owner(d)) : Sees(w, e)

\* The next entry, or the commit.
Proceeds(w, s) ==
  WriterGoes(w, [s EXCEPT !.list = Tail(@),
                          !.pc = IF Len(s.list) > 1 THEN "row" ELSE "commit"])

PassOver(w) ==
  /\ WriterAt(w, "row") /\ ~Kept(Entry(w))
  /\ Proceeds(w, writer[w])
  /\ UNCHANGED <<online, recent, shown, told, historyVars>>

WriteCopy(w) ==
  LET d == Entry(w).dev u == Owner(d) on == CopyOfUser(w, d) IN
  /\ WriterAt(w, "copy") /\ ~Blocked(w)
  /\ IF writer[w].torn
     THEN /\ shown' = [shown EXCEPT ![u] = on]
          /\ uncopied' = uncopied \ {u}
          /\ Proceeds(w, writer[w])
     ELSE /\ Proceeds(w, [writer[w] EXCEPT !.copied = Put(@, u, on)])
          /\ UNCHANGED <<shown, uncopied>>
  /\ UNCHANGED <<online, recent, told, misled, untold, lapses>>

\* The statement fails or waits too long; its error is dropped.
CopyFails(w) ==
  LET u == Owner(Entry(w).dev) IN
  /\ WriterAt(w, "copy") /\ MayLapse
  /\ uncopied' = uncopied \cup {u}
  /\ Proceeds(w, [writer[w] EXCEPT !.copied = [v \in Copied(w) \ {u} |-> @[v]]])
  /\ UNCHANGED <<online, recent, shown, told, misled, untold>>

\* The listener goes on with the friends, whatever became of the rows.
Leaves(w) ==
  WriterGoes(w, IF writer[w].tells = <<>> THEN NoWriter
                ELSE [NoWriter EXCEPT !.pc = "tell", !.tells = writer[w].tells])

EntriesOf(list) == {list[i].dev : i \in {j \in DOMAIN list : Kept(list[j])}}

\* What the lost entries said, the check's own aside.
Loses(w, s) ==
  misled' = IF w = "check" THEN misled
            ELSE misled \cup DOMAIN s.rows \cup EntriesOf(s.list)

\* Two writers wait for each other, and MySQL rolls one back.  A writer at a
\* row sees the error and gives up its list.  A writer at a copy drops the
\* error and goes on, each of its statements now on its own.
Deadlock(w) ==
  LET s == writer[w] IN
  /\ \A v \in Writers : Blocked(v)
  /\ w = "check" => MayLapse
  /\ w # "check" => UNCHANGED lapses
  /\ IF WriterAt(w, "row")
     THEN Leaves(w) /\ Loses(w, s)
     ELSE /\ Proceeds(w, [s EXCEPT !.rows = <<>>, !.copied = <<>>, !.torn = TRUE])
          /\ Loses(w, [s EXCEPT !.list = <<>>])
  /\ UNCHANGED <<online, recent, shown, told, uncopied, untold>>

Commit(w) ==
  LET s == writer[w] IN
  /\ WriterAt(w, "commit")
  /\ online' = [d \in Devices |-> Sees(w, d)]
  /\ recent' = recent \cup {d \in Written(w) : s.rows[d]}
  /\ shown' = [u \in Owners |-> IF u \in Copied(w) THEN s.copied[u] ELSE shown[u]]
  /\ Appear(w, Written(w))
  /\ uncopied' = uncopied \ Copied(w)
  /\ Leaves(w)
  /\ UNCHANGED <<told, lapses>>

\* A row or the commit fails.
WriterFails(w) ==
  /\ writer[w].pc \in {"row", "copy", "commit"} /\ MayLapse
  /\ Leaves(w) /\ Loses(w, writer[w])
  /\ UNCHANGED <<online, recent, shown, told, uncopied, untold>>

\* The process dies; the IM server does not post the list again.
WriterDies(w) ==
  /\ ~WriterAt(w, "idle") /\ MayLapse
  /\ WriterGoes(w, NoWriter) /\ Loses(w, writer[w])
  /\ untold' = untold \cup {Owner(d) : d \in EntriesOf(writer[w].tells)}
  /\ UNCHANGED <<online, recent, shown, told, uncopied>>

-----------------------------------------------------------------------------
(***************************************************************************)
(* handleOnlineStatus tells the friends of the user, and his other devices *)
(***************************************************************************)
\* getOnlineMainDeviceFlagModel
AnyOnline(u) == \E d \in DevicesOf(u) : online[d]

\* Fault: the device that changed stands for all.
NowOnlineOfDevice(notice) == notice.on

\* The main device comes online, or any device of his is.
NowOnline(notice) ==
  (notice.on /\ notice.dev[2] = Main) \/ AnyOnline(Owner(notice.dev))

\* SendCMD's error is dropped.
TellFriends ==
  LET notice == Head(writer["listener"].tells) u == Owner(notice.dev) IN
  /\ WriterAt("listener", "tell")
  /\ \/ /\ Kept(notice)
        /\ told' = [told EXCEPT ![u] = NowOnline(notice)]
        /\ untold' = untold \ {u} /\ UNCHANGED lapses
     \/ Kept(notice) /\ MayLapse /\ untold' = untold \cup {u} /\ UNCHANGED told
     \/ ~Kept(notice) /\ UNCHANGED <<told, untold, lapses>>
  /\ WriterGoes("listener",
       IF Len(writer["listener"].tells) = 1 THEN NoWriter
       ELSE [writer["listener"] EXCEPT !.tells = Tail(@)])
  /\ UNCHANGED <<sockets, notices, online, recent, shown, misled, uncopied>>

-----------------------------------------------------------------------------
(***************************************************************************)
(* Where the lists come from                                               *)
(***************************************************************************)
Starts(w, list, tells) ==
  WriterGoes(w, [NoWriter EXCEPT !.pc = "row", !.list = list, !.tells = tells])

\* listenOnlineStatus
Listen ==
  /\ WriterAt("listener", "idle") /\ notices # <<>>
  /\ Starts("listener", notices, notices)
  /\ notices' = <<>>
  /\ UNCHANGED <<sockets, online, recent, shown, told, historyVars>>

\* queryOnlinesMoreThan
CheckReads ==
  LET found == {d \in Devices : online[d] /\ d \notin recent} IN
  /\ WriterAt("check", "idle") /\ found # {}
  /\ WriterGoes("check", [NoWriter EXCEPT !.pc = "ask", !.found = found])
  /\ UNCHANGED <<online, recent, shown, told, historyVars>>

Orders(S) ==
  {s \in [1..Cardinality(S) -> S] : {s[i] : i \in DOMAIN s} = S}

\* IMSOnlineStatus, and which devices are not in the answer.
CheckAsks ==
  LET gone == {d \in writer["check"].found : sockets[d] = 0} IN
  /\ WriterAt("check", "ask")
  /\ IF gone = {} THEN WriterGoes("check", NoWriter)
     ELSE \E s \in Orders(gone) :
            Starts("check", [i \in DOMAIN s |-> [dev |-> s[i], on |-> FALSE, count |-> 0]],
                   <<>>)
  /\ UNCHANGED <<online, recent, shown, told, historyVars>>

MinutePasses(d) ==
  /\ d \in recent
  /\ recent' = recent \ {d}
  /\ UNCHANGED <<sockets, notices, online, shown, told, writer, historyVars>>

-----------------------------------------------------------------------------
IMServer ==
  /\ \/ \E d \in Devices : Connects(d) \/ Disconnects(d)
     \/ Restarts
  /\ UNCHANGED <<online, recent, shown, told, writer, uncopied, untold>>

Writes(w) ==
  /\ WriteRow(w) \/ PassOver(w) \/ WriteCopy(w) \/ Commit(w)
  /\ UNCHANGED <<sockets, notices>>

Mistakes(w) ==
  /\ CopyFails(w) \/ Deadlock(w) \/ WriterFails(w) \/ WriterDies(w)
  /\ UNCHANGED <<sockets, notices>>

Checks == (CheckReads \/ CheckAsks) /\ UNCHANGED <<sockets, notices>>

OnlineNext ==
  \/ IMServer \/ Listen \/ TellFriends \/ Checks
  \/ \E w \in Writers : Writes(w) \/ Mistakes(w)
  \/ \E d \in Devices : MinutePasses(d)

OnlineSpec == OnlineInit /\ [][OnlineNext]_onlineVars

-----------------------------------------------------------------------------
(***************************************************************************)
(* What the rows promise                                                   *)
(***************************************************************************)
\* When every notice has been handled the rows say who is connected.  A lost
\* notice, and a check that asked before the device connected and wrote after
\* its notice, are the exceptions.
HandledRowsRight ==
  notices = <<>> /\ (\A w \in Writers : WriterAt(w, "idle")) =>
    \A d \in Devices \ misled : online[d] <=> sockets[d] > 0

\* A user is shown online as long as one of his devices is, unless his copy
\* could not be written: a device that leaves does not take the others along,
\* whichever of two writers is rolled back.
ShownWithAnyDevice ==
  \A u \in Owners \ uncopied : shown[u] <=> \E d \in DevicesOf(u) : online[d]

\* When every notice has been handled the friends of a user know whether any of
\* his devices is online, so they must be told after the rows are written
\* (user/api.go:212).  Exceptions are a message that was not sent, and a row
\* that the check has put off, which nobody is told.
FriendsKnow ==
  notices = <<>> /\ (\A w \in Writers : WriterAt(w, "idle")) =>
    \A u \in Owners \ untold :
      DevicesOf(u) \cap misled = {} => (told[u] <=> AnyOnline(u))
=============================================================================
