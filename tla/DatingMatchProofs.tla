------------------------- MODULE DatingMatchProofs -------------------------
(***************************************************************************)
(* Theorems about DatingMatch for any number of threads, waiting events    *)
(* and failures, and any distribution of the lock keys but where a         *)
(* theorem names one.                                                      *)
(***************************************************************************)
EXTENDS DatingMatch, TLAPS

allVars == <<fvars, dvars>>

-----------------------------------------------------------------------------
\* The rows: whatever happens to them is one of five updates.

RowsType == friend \in [Users -> Friend]

FriendUpdate ==
  \/ UNCHANGED <<friend, confirmed>>
  \/ friend' = SureRows /\ confirmed' = Users
  \/ \E u \in Users : friend' = DeleteRows(u) /\ confirmed' = confirmed \ {u}
  \/ friend' = EnsureRows /\ UNCHANGED confirmed
  \/ friend' = RemoveRows /\ UNCHANGED confirmed

LEMMA HandlersKeepFriends ==
  ASSUME NEW t \in Threads, Handle(t)
  PROVE  UNCHANGED <<friend, confirmed>>
BY DEF Handle, Check, AddOwn, AddOther, Recheck, KeepOwn, KeepOther, DropOwn,
       DropOther, RemoveOther, RemoveOwn, Commit, Reads, Calls, Keeps, Drops,
       HandlerUnchanged

LEMMA WritesKeepFriends ==
  ASSUME NEW t, NEW m, NEW l, NEW b, NEW next, Writes(t, m, l, b, next)
  PROVE  UNCHANGED <<friend, confirmed>>
BY DEF Writes, FriendSame

LEMMA RemovesUpdates ==
  ASSUME NEW t, NEW next, Removes(t, next)
  PROVE  FriendUpdate
BY DEF Removes, FriendUpdate

LEMMA CutsKeepFriends ==
  ASSUME NEW t, NEW read, NEW cut, NEW c, NEW next,
         CutChannel(t, read, cut, c, next)
  PROVE  UNCHANGED <<friend, confirmed>>
BY DEF CutChannel

LEMMA CallUpdates ==
  ASSUME NEW t \in Threads, CallStep(t)
  PROVE  FriendUpdate
<1>1. CASE LockUser(t) \/ LockPair(t)
  BY <1>1 DEF LockUser, LockPair, Lock, fvars, FriendUpdate
<1>2. CASE Look(t) \/ Refuse(t) \/ Record(t) \/ LikedBack(t) \/ Create(t)
  BY <1>2, WritesKeepFriends
     DEF Look, Refuse, Record, LikedBack, Create, Goes, FriendUpdate
<1>3. CASE Sync(t) \/ Mark(t)
  BY <1>3, WritesKeepFriends DEF Sync, Mark, Goes, FriendUpdate
<1>4. CASE Ensure(t)
  BY <1>4 DEF Ensure, FriendUpdate
<1>5. CASE UndoLook(t) \/ Undo(t)
  BY <1>5, WritesKeepFriends DEF UndoLook, Undo, Goes, FriendUpdate
<1>6. CASE Cancel(t) \/ Block(t)
  BY <1>6, WritesKeepFriends DEF Cancel, Block, FriendUpdate
<1>7. CASE Unmake(t) \/ Cut(t)
  BY <1>7, RemovesUpdates DEF Unmake, Cut
<1>8. CASE CutOwn(t) \/ CutOther(t)
  BY <1>8, CutsKeepFriends DEF CutOwn, CutOther, FriendUpdate
<1>9. QED
  BY <1>1, <1>2, <1>3, <1>4, <1>5, <1>6, <1>7, <1>8 DEF CallStep

LEMMA NextUpdates == [DatingNext]_allVars => FriendUpdate
<1>1. SUFFICES ASSUME [DatingNext]_allVars PROVE FriendUpdate
  OBVIOUS
<1>2. CASE UNCHANGED allVars
  BY <1>2 DEF allVars, fvars, FriendUpdate
<1>3. ASSUME NEW t \in Threads, CallStep(t) PROVE FriendUpdate
  BY <1>3, CallUpdates
<1>4. ASSUME NEW t \in Threads, FriendStep(t) PROVE FriendUpdate
  <2>1. CASE Handle(t)
    BY <2>1, HandlersKeepFriends DEF FriendUpdate
  <2>2. ASSUME NEW u \in Users, Sure(t, u) \/ Delete(t, u) PROVE FriendUpdate
    BY <2>2 DEF Sure, Delete, FriendUpdate
  <2>3. ASSUME NEW e \in Slots, Timer(t, e) PROVE FriendUpdate
    BY <2>3 DEF Timer, FriendUpdate
  <2>4. QED BY <1>4, <2>1, <2>2, <2>3 DEF FriendStep
<1>5. ASSUME NEW t \in Threads, NEW u \in Users, NEW op \in Op, Begin(t, u, op)
      PROVE  FriendUpdate
  BY <1>5 DEF Begin, fvars, FriendUpdate
<1>6. CASE Crash
  BY <1>6 DEF Crash, FriendCrash, FriendUpdate
<1>7. QED BY <1>1, <1>2, <1>3, <1>4, <1>5, <1>6 DEF DatingNext

-----------------------------------------------------------------------------
\* OwnFriendsKept alone is not preserved: removing a match's friendship takes
\* the rows that have the match for their source, so the rows of users who
\* confirmed must have the app for theirs.
ConfirmedRows ==
  /\ RowsType
  /\ confirmed \subseteq Users
  /\ \A u \in confirmed : HasRow(u) /\ friend[u].source = "app"

LEMMA ConfirmedInit == DatingInit => ConfirmedRows
BY DEF DatingInit, FriendInit, ConfirmedRows, RowsType, Friend, RowState, Source

LEMMA ConfirmedUpdate ==
  ASSUME ConfirmedRows, FriendUpdate
  PROVE  ConfirmedRows'
<1> USE DEF ConfirmedRows, RowsType, HasRow, Friend, RowState, Source
<1>1. CASE UNCHANGED <<friend, confirmed>>
  BY <1>1
<1>2. CASE friend' = SureRows /\ confirmed' = Users
  BY <1>2 DEF SureRows
<1>3. ASSUME NEW u \in Users,
             friend' = DeleteRows(u), confirmed' = confirmed \ {u}
      PROVE  ConfirmedRows'
  <2>1. RowsType'
    BY <1>3 DEF DeleteRows
  <2>2. ASSUME NEW v \in confirmed'
        PROVE  HasRow(v)' /\ friend'[v].source = "app"
    <3>1. v \in confirmed /\ v # u /\ v \in Users
      BY <1>3, <2>2
    <3>2. friend'[v] = [friend[v] EXCEPT !.state = IF @ = "deleted" THEN @ ELSE "alone"]
      BY <1>3, <3>1 DEF DeleteRows
    <3>3. QED BY <3>1, <3>2
  <2>3. QED BY <1>3, <2>1, <2>2
<1>4. CASE friend' = EnsureRows /\ UNCHANGED confirmed
  <2>1. RowsType'
    BY <1>4 DEF EnsureRows
  <2>2. ASSUME NEW v \in confirmed'
        PROVE  HasRow(v)' /\ friend'[v].source = "app"
    <3>1. v \in Users /\ friend'[v] = [friend[v] EXCEPT !.state = "mutual"]
      BY <1>4, <2>2 DEF EnsureRows
    <3>2. QED BY <1>4, <2>2, <3>1
  <2>3. QED BY <1>4, <2>1, <2>2
<1>5. CASE friend' = RemoveRows /\ UNCHANGED confirmed
  <2>1. RowsType'
    BY <1>5 DEF RemoveRows
  <2>2. ASSUME NEW v \in confirmed'
        PROVE  HasRow(v)' /\ friend'[v].source = "app"
    <3>1. v \in Users /\ ~Managed(friend, v)
      BY <1>5, <2>2 DEF Managed
    <3>2. friend'[v] \in {friend[v], [friend[v] EXCEPT !.state = "alone"]}
      BY <1>5, <3>1 DEF RemoveRows
    <3>3. QED BY <1>5, <2>2, <3>1, <3>2
  <2>3. QED BY <1>5, <2>1, <2>2
<1>6. QED BY <1>1, <1>2, <1>3, <1>4, <1>5 DEF FriendUpdate

\* A user who confirmed the friendship in the app (friendSure) and did not
\* delete it keeps it, whatever matches are made, repaired, cancelled and
\* blocked meanwhile (removeMutualFriendsIfSourceTx).
THEOREM OwnFriendshipKept == DatingSpec => []OwnFriendsKept
<1>1. DatingInit => ConfirmedRows
  BY ConfirmedInit
<1>2. ConfirmedRows /\ [DatingNext]_allVars => ConfirmedRows'
  BY NextUpdates, ConfirmedUpdate
<1>3. ConfirmedRows => OwnFriendsKept
  BY DEF ConfirmedRows, OwnFriendsKept
<1>4. QED BY <1>1, <1>2, <1>3, PTL DEF DatingSpec, allVars

-----------------------------------------------------------------------------
\* A block.

\* The match is a record, without which a write of its status says nothing.
MatchType == match \in Match

StaysBlocked == match.status = "blocked" => match'.status = "blocked"

LEMMA WritesMatch ==
  ASSUME NEW t, NEW m, NEW l, NEW b, NEW next, Writes(t, m, l, b, next)
  PROVE  match' = m \/ match' = match
BY DEF Writes

LEMMA CallMatch ==
  ASSUME NEW t \in Threads, CallStep(t), MatchType
  PROVE  MatchType' /\ StaysBlocked
<1> USE DEF MatchType, Match, MatchStatus, StaysBlocked
<1>1. CASE LockUser(t) \/ LockPair(t)
  BY <1>1 DEF LockUser, LockPair, Lock
<1>2. CASE Look(t) \/ Refuse(t) \/ Record(t) \/ LikedBack(t)
  BY <1>2, WritesMatch DEF Look, Refuse, Record, LikedBack, Goes
<1>3. CASE Create(t)
  <2>1. \/ match' = match
        \/ /\ match.status \in {"none", "canceled"}
           /\ match' = [status |-> "active", synced |-> FALSE]
    BY <1>3, WritesMatch DEF Create
  <2>2. [status |-> "active", synced |-> FALSE] \in Match
    OBVIOUS
  <2>3. QED BY <2>1, <2>2
<1>4. CASE Sync(t) \/ Ensure(t) \/ Unmake(t)
  BY <1>4, WritesMatch DEF Sync, Ensure, Unmake, Goes, Removes
<1>5. CASE Mark(t)
  BY <1>5, WritesMatch DEF Mark, Goes
<1>6. CASE UndoLook(t) \/ Undo(t)
  BY <1>6, WritesMatch DEF UndoLook, Undo, Goes
<1>7. CASE Cancel(t)
  <2>1. \/ match' = match
        \/ match' = [match EXCEPT !.status = IF @ = "blocked" THEN @ ELSE "canceled"]
    BY <1>7, WritesMatch DEF Cancel
  <2>2. QED BY <2>1
<1>8. CASE Block(t)
  <2>1. match' \in {match, [match EXCEPT !.status = "blocked"]}
    BY <1>8, WritesMatch DEF Block
  <2>2. [match EXCEPT !.status = "blocked"] \in Match
    OBVIOUS
  <2>3. [match EXCEPT !.status = "blocked"].status = "blocked"
    OBVIOUS
  <2>4. QED BY <2>1, <2>2, <2>3
<1>9. CASE Cut(t) \/ CutOwn(t) \/ CutOther(t)
  BY <1>9 DEF Cut, CutOwn, CutOther, CutChannel, Removes
<1>10. QED
  BY <1>1, <1>2, <1>3, <1>4, <1>5, <1>6, <1>7, <1>8, <1>9 DEF CallStep

LEMMA NextMatch ==
  MatchType /\ [DatingNext]_allVars => MatchType' /\ StaysBlocked
<1>1. SUFFICES ASSUME MatchType, [DatingNext]_allVars
               PROVE  MatchType' /\ StaysBlocked
  OBVIOUS
<1>2. ASSUME NEW t \in Threads, CallStep(t) PROVE MatchType' /\ StaysBlocked
  BY <1>1, <1>2, CallMatch
<1>3. ASSUME UNCHANGED match PROVE MatchType' /\ StaysBlocked
  BY <1>1, <1>3 DEF MatchType, StaysBlocked
<1>4. ASSUME NEW t \in Threads, FriendStep(t) PROVE UNCHANGED match
  BY <1>4 DEF FriendStep, dvars
<1>5. ASSUME NEW t \in Threads, NEW u \in Users, NEW op \in Op, Begin(t, u, op)
      PROVE  UNCHANGED match
  BY <1>5 DEF Begin
<1>6. CASE Crash \/ UNCHANGED allVars
  BY <1>3, <1>6 DEF Crash, allVars, dvars
<1>7. QED BY <1>1, <1>2, <1>3, <1>4, <1>5, <1>6 DEF DatingNext

\* A blocked match stays blocked: neither a cancellation that arrives later nor
\* a like or a repair that was under way lowers it (cancelMatch, createMatch
\* and markMatchFriendSynced each spare it).
THEOREM BlockStays == DatingSpec => BlockedIsFinal
<1>1. DatingInit => MatchType
  BY DEF DatingInit, MatchType, Match, MatchStatus
<1>2. MatchType /\ [DatingNext]_allVars => MatchType' /\ StaysBlocked
  BY NextMatch
<1>3. QED
  BY <1>1, <1>2, PTL DEF DatingSpec, BlockedIsFinal, StaysBlocked, allVars

-----------------------------------------------------------------------------
\* The friends that a match made.

\* GoneMatchLeavesNoFriends says nothing of the requests that are under way:
\* whoever leaves such friends behind a match that is gone still has to take
\* them away.
LeftOver == \E u \in Users : HasRow(u) /\ Managed(friend, u)

Removing(c) ==
  c.op # "none" /\ (c.pc = "cut" \/ (c.pc \in {"mark", "unmake"} /\ c.managed))

CallFields == {"op", "pc", "by", "managed", "holds"}
Shape(c) == c.op # "none" => DOMAIN c = CallFields

Gone == match.status \in {"canceled", "blocked"}

Watched ==
  /\ failures \in Nat
  /\ DOMAIN call = Threads /\ \A t \in Threads : Shape(call[t])
  /\ Clean /\ Gone /\ LeftOver => \E t \in Threads : Removing(call[t])

LEMMA WatchedInit == DatingInit => Watched
<1>1. ASSUME DatingInit PROVE Watched
  <2>1. ~Gone
    BY <1>1 DEF DatingInit, Gone
  <2>2. Shape(NoCall)
    BY DEF Shape, NoCall
  <2>3. QED BY <1>1, <2>1, <2>2 DEF DatingInit, FriendInit, Watched
<1>2. QED BY <1>1

\* What any step but Ensure does to the rows.
OtherUpdate ==
  \/ friend' \in {friend, SureRows, RemoveRows}
  \/ \E u \in Users : friend' = DeleteRows(u)

\* Only EnsureRows leaves something new over, and RemoveRows leaves nothing.
LEMMA LeftOverUpdate ==
  ASSUME RowsType, OtherUpdate
  PROVE  LeftOver' => LeftOver /\ friend' # RemoveRows
<1> USE DEF RowsType, HasRow, Managed, Friend, RowState, Source
<1>1. SUFFICES ASSUME NEW v \in Users, HasRow(v)', Managed(friend, v)'
               PROVE  LeftOver /\ friend' # RemoveRows
  BY DEF LeftOver
<1>2. friend' # SureRows
  BY <1>1 DEF SureRows
<1>3. friend' # RemoveRows
  <2>1. SUFFICES ASSUME friend' = RemoveRows PROVE FALSE
    OBVIOUS
  <2>2. CASE Managed(friend, v)
    <3>1. friend'[v] = [friend[v] EXCEPT !.state = "deleted"]
      BY <2>1, <2>2 DEF RemoveRows
    <3>2. QED BY <1>1, <3>1
  <2>3. CASE ~Managed(friend, v)
    <3>1. friend'[v] \in {friend[v], [friend[v] EXCEPT !.state = "alone"]}
          /\ (friend'[v] # friend[v] => HasRow(v))
      BY <2>1, <2>3 DEF RemoveRows
    <3>2. QED BY <1>1, <2>3, <3>1
  <2>4. QED BY <2>2, <2>3
<1>4. CASE friend' = friend
  BY <1>1, <1>3, <1>4 DEF LeftOver
<1>5. ASSUME NEW u \in Users, friend' = DeleteRows(u) PROVE LeftOver
  <2>1. friend'[v] \in {friend[v], [friend[v] EXCEPT !.state = "deleted"],
                        [friend[v] EXCEPT !.state = "alone"]}
        /\ (friend'[v] = [friend[v] EXCEPT !.state = "alone"] =>
              friend[v].state \in {"mutual", "alone"} \/ friend'[v] = friend[v])
    BY <1>5 DEF DeleteRows
  <2>2. QED BY <1>1, <2>1 DEF LeftOver
<1>6. QED BY <1>2, <1>3, <1>4, <1>5 DEF OtherUpdate

\* The thread t goes on as c.
LEMMA WatchedKept ==
  ASSUME Watched, NEW t \in Threads, NEW c, call' = [call EXCEPT ![t] = c], Shape(c),
         failures' \in Nat, Clean' => Clean,
         Clean' /\ Gone' => Gone \/ Removing(c),
         Clean' /\ LeftOver' => LeftOver \/ Removing(c),
         Clean' /\ Gone' /\ LeftOver' /\ Removing(call[t]) => Removing(c)
  PROVE  Watched'
<1>1. /\ DOMAIN call' = Threads /\ call'[t] = c
      /\ \A s \in Threads \ {t} : call'[s] = call[s]
  BY DEF Watched
<1>2. ASSUME Clean', Gone', LeftOver' PROVE \E s \in Threads : Removing(call'[s])
  <2>1. CASE Removing(c)
    BY <1>1, <2>1
  <2>2. CASE ~Removing(c)
    <3>1. PICK s \in Threads : Removing(call[s])
      BY <1>2, <2>2 DEF Watched
    <3>2. s # t
      BY <1>2, <2>2, <3>1
    <3>3. QED BY <1>1, <3>1, <3>2
  <2>3. QED BY <2>1, <2>2
<1>3. QED BY <1>1, <1>2 DEF Watched

\* How a request goes on after a statement that did not fail.
LEMMA WritesCall ==
  ASSUME Watched, NEW t \in Threads, call[t].op # "none",
         NEW m, NEW l, NEW b, NEW next, Writes(t, m, l, b, next)
  PROVE  /\ friend' = friend /\ failures' \in Nat /\ (Clean' => Clean)
         /\ \E c : /\ call' = [call EXCEPT ![t] = c] /\ Shape(c)
                   /\ Clean' =>
                        /\ match' = m
                        /\ next = "return" => c = NoCall
                        /\ next # "return" =>
                             /\ c.op = call[t].op /\ c.pc = next
                             /\ c.managed = call[t].managed
<1>1. /\ friend' = friend /\ failures' \in Nat /\ (Clean' => Clean)
  BY DEF Writes, FriendSame, Works, Fail, Clean, Watched
<1>2. CASE Return(t) /\ (Clean' => match' = m /\ next = "return")
  <2>1. Shape(NoCall)
    BY DEF Shape, NoCall
  <2>2. QED BY <1>1, <1>2, <2>1 DEF Return
<1>3. CASE Proceed(t, next) /\ match' = m /\ next # "return"
  <2> DEFINE c == [call[t] EXCEPT !.pc = next]
  <2>1. DOMAIN call[t] = CallFields
    BY DEF Watched, Shape
  <2>2. /\ DOMAIN c = CallFields /\ c.op = call[t].op /\ c.pc = next
        /\ c.managed = call[t].managed
    BY <2>1 DEF CallFields
  <2>3. call' = [call EXCEPT ![t] = c]
    BY <1>3 DEF Proceed
  <2> HIDE DEF c
  <2>4. Shape(c)
    BY <2>2 DEF Shape
  <2>5. QED BY <1>1, <1>3, <2>2, <2>3, <2>4
<1>4. QED
  BY <1>2, <1>3 DEF Writes, Works, Fail, Clean, Watched

\* A statement after which the match is not gone, unless it was gone before or
\* the request goes on to remove the friends.
LEMMA WritesWatched ==
  ASSUME Watched, NEW t \in Threads, call[t].op # "none",
         NEW m, NEW l, NEW b, NEW next, Writes(t, m, l, b, next),
         m.status \in {"canceled", "blocked"} => Gone \/ next = "cut",
         m.status \in {"canceled", "blocked"} /\ Removing(call[t]) =>
           next = "cut" \/ (next = "unmake" /\ call[t].managed)
  PROVE  Watched'
<1>1. PICK c :
        /\ call' = [call EXCEPT ![t] = c] /\ Shape(c)
        /\ Clean' => /\ match' = m
                     /\ next = "return" => c = NoCall
                     /\ next # "return" => /\ c.op = call[t].op /\ c.pc = next
                                           /\ c.managed = call[t].managed
  BY WritesCall
<1>2. friend' = friend /\ failures' \in Nat /\ (Clean' => Clean)
  BY WritesCall
<1>3. LeftOver' => LeftOver
  BY <1>2 DEF LeftOver, HasRow, Managed
<1>4. ASSUME Clean', Gone', Removing(call[t]) PROVE Removing(c)
  BY <1>1, <1>4 DEF Gone, Removing
<1>5. ASSUME Clean', Gone', ~Gone PROVE Removing(c)
  BY <1>1, <1>5 DEF Gone, Removing
<1>6. QED BY <1>1, <1>2, <1>3, <1>4, <1>5, WatchedKept

\* A removal takes everything away, or has failed.
LEMMA RemovesWatched ==
  ASSUME Watched, RowsType, NEW t \in Threads, call[t].op # "none",
         NEW next, Removes(t, next)
  PROVE  Watched'
<1>1. /\ failures' \in Nat /\ (Clean' => Clean) /\ (Gone' => Gone)
      /\ Clean' => friend' = RemoveRows
  BY DEF Removes, Works, Fail, Clean, Gone, Watched
<1>2. Clean' => ~LeftOver'
  BY <1>1, LeftOverUpdate DEF OtherUpdate
<1>3. CASE Return(t)
  <2>1. Shape(NoCall)
    BY DEF Shape, NoCall
  <2>2. call' = [call EXCEPT ![t] = NoCall]
    BY <1>3 DEF Return
  <2>3. QED BY <1>1, <1>2, <2>1, <2>2, WatchedKept
<1>4. CASE Proceed(t, next)
  <2> DEFINE c == [call[t] EXCEPT !.pc = next]
  <2>1. DOMAIN call[t] = CallFields
    BY DEF Watched, Shape
  <2>2. DOMAIN c = CallFields /\ c.op = call[t].op
    BY <2>1 DEF CallFields
  <2>3. call' = [call EXCEPT ![t] = c]
    BY <1>4 DEF Proceed
  <2> HIDE DEF c
  <2>4. Shape(c)
    BY <2>2 DEF Shape
  <2>5. QED BY <1>1, <1>2, <2>3, <2>4, WatchedKept
<1>5. QED BY <1>3, <1>4 DEF Removes

\* A step that leaves rows and match alone, of a thread that removes nothing.
LEMMA AsideWatched ==
  ASSUME Watched, NEW t \in Threads, NEW c, call' = [call EXCEPT ![t] = c],
         Shape(c), friend' = friend, match' = match, failures' \in Nat,
         Clean' => Clean, ~Removing(call[t])
  PROVE  Watched'
<1>1. (LeftOver' => LeftOver) /\ (Gone' => Gone)
  BY DEF LeftOver, HasRow, Managed, Gone
<1>2. QED BY <1>1, WatchedKept

LEMMA LockWatched ==
  ASSUME Watched, NEW t \in Threads, NEW key, NEW next, NEW pc \in {"lockUser", "lockPair"},
         At(t, pc), Lock(t, key, next)
  PROVE  Watched'
<1> DEFINE h == [call[t] EXCEPT !.holds = call[t].holds \cup {key}]
           c == [h EXCEPT !.pc = next]
<1>1. DOMAIN call[t] = CallFields
  BY DEF Watched, Shape, At
<1>2. DOMAIN h = CallFields
  BY <1>1 DEF CallFields
<1>3. call' = [call EXCEPT ![t] = c]
  BY <1>1 DEF Lock, CallFields
<1> HIDE DEF h
<1>4. DOMAIN c = CallFields
  BY <1>2 DEF CallFields
<1> HIDE DEF c
<1>5. Shape(c) /\ ~Removing(call[t])
  BY <1>4 DEF Shape, Removing, At
<1>6. friend' = friend /\ match' = match /\ failures' = failures
  BY DEF Lock, fvars
<1>7. failures' \in Nat /\ (Clean' => Clean)
  BY <1>6 DEF Watched, Clean
<1>8. QED BY <1>3, <1>5, <1>6, <1>7, AsideWatched

LEMMA CutChannelWatched ==
  ASSUME Watched, NEW t \in Threads, NEW read, NEW cut, NEW c, NEW next,
         CutChannel(t, read, cut, c, next),
         read \in {"readOwn", "readOther"}, cut \in {"cutOwn", "cutOther"}
  PROVE  Watched'
<1>1. /\ friend' = friend /\ match' = match /\ failures' \in Nat
      /\ Clean' => Clean
      /\ call[t].op # "none" /\ call[t].pc \in {read, cut}
      /\ Return(t) \/ Proceed(t, next) \/ Proceed(t, cut)
  BY DEF CutChannel, At, Works, Fail, Clean, Watched
<1>2. ~Removing(call[t])
  BY <1>1 DEF Removing
<1>3. CASE Return(t)
  <2>1. Shape(NoCall)
    BY DEF Shape, NoCall
  <2>2. QED BY <1>1, <1>2, <1>3, <2>1, AsideWatched DEF Return
<1>4. ASSUME NEW pc, Proceed(t, pc) PROVE Watched'
  <2> DEFINE d == [call[t] EXCEPT !.pc = pc]
  <2>1. DOMAIN d = CallFields
    BY <1>1 DEF Watched, Shape, CallFields
  <2>2. call' = [call EXCEPT ![t] = d]
    BY <1>4 DEF Proceed
  <2> HIDE DEF d
  <2>3. Shape(d)
    BY <2>1 DEF Shape
  <2>4. QED BY <1>1, <1>2, <2>2, <2>3, AsideWatched
<1>5. QED BY <1>1, <1>3, <1>4

\* Ensure makes the rows; the thread goes on to mark the match.
LEMMA EnsureWatched ==
  ASSUME Watched, RowsType, NEW t \in Threads, Ensure(t)
  PROVE  Watched'
<1> DEFINE managed == \E u \in Users : Managed(friend', u)
<1>1. /\ call[t].op # "none" /\ call[t].pc = "ensure" /\ match' = match
  BY DEF Ensure, At
<1>2. ~Removing(call[t]) /\ (Gone' => Gone)
  BY <1>1 DEF Removing, Gone
<1>3. CASE Works /\ call' = [call EXCEPT ![t].pc = "mark", ![t].managed = managed]
  <2> DEFINE d == [call[t] EXCEPT !.pc = "mark"]
             c == [d EXCEPT !.managed = managed]
  <2>1. DOMAIN call[t] = CallFields
    BY <1>1 DEF Watched, Shape
  <2>2. call' = [call EXCEPT ![t] = c]
    BY <1>3, <2>1 DEF CallFields
  <2>3. DOMAIN d = CallFields /\ d.op = call[t].op /\ d.pc = "mark"
    BY <2>1 DEF CallFields
  <2>4. LeftOver' => managed
    BY DEF LeftOver
  <2> HIDE DEF d, managed
  <2>5. /\ DOMAIN c = CallFields /\ c.op = call[t].op /\ c.pc = "mark"
        /\ c.managed = managed
    BY <2>3 DEF CallFields
  <2> HIDE DEF c
  <2>6. Shape(c) /\ (LeftOver' => Removing(c))
    BY <1>1, <2>4, <2>5 DEF Shape, Removing
  <2>7. failures' \in Nat /\ (Clean' => Clean)
    BY <1>3 DEF Works, Clean, Watched
  <2>8. QED BY <1>2, <2>2, <2>6, <2>7, WatchedKept
<1>4. CASE Fail /\ Return(t)
  <2>1. Shape(NoCall)
    BY DEF Shape, NoCall
  <2>2. ~Clean' /\ failures' \in Nat
    BY <1>4 DEF Fail, Clean, Watched
  <2>3. call' = [call EXCEPT ![t] = NoCall]
    BY <1>4 DEF Return
  <2>4. QED BY <2>1, <2>2, <2>3, WatchedKept
<1>5. CASE Fail /\ ~Return(t)
  <2>1. call' = [call EXCEPT ![t].pc = "mark", ![t].managed = managed]
    BY <1>5 DEF Ensure, Unread
  <2> DEFINE d == [call[t] EXCEPT !.pc = "mark"]
             c == [d EXCEPT !.managed = managed]
  <2>2. DOMAIN call[t] = CallFields
    BY <1>1 DEF Watched, Shape
  <2>3. call' = [call EXCEPT ![t] = c]
    BY <2>1, <2>2 DEF CallFields
  <2>4. DOMAIN c = CallFields
    BY <2>2 DEF CallFields
  <2> HIDE DEF c
  <2>5. Shape(c) /\ ~Clean' /\ failures' \in Nat
    BY <1>5, <2>4 DEF Shape, Fail, Clean, Watched
  <2>6. QED BY <2>3, <2>5, WatchedKept
<1>6. QED
  BY <1>3, <1>4, <1>5 DEF Ensure, Publish, Unread

LEMMA CallWatched ==
  ASSUME Watched, RowsType, MatchType, NEW t \in Threads, CallStep(t)
  PROVE  Watched'
<1>1. CASE LockUser(t) \/ LockPair(t)
  BY <1>1, LockWatched DEF LockUser, LockPair
<1>2. CASE Look(t) \/ Refuse(t) \/ Record(t) \/ LikedBack(t)
  BY <1>2, WritesWatched
     DEF Look, Refuse, Record, LikedBack, Goes, At, Gone, Removing
<1>3. CASE Create(t)
  <2> DEFINE m == IF match.status \in {"none", "canceled"}
                  THEN [status |-> "active", synced |-> FALSE] ELSE match
             next == IF match.status = "blocked" THEN "return" ELSE "sync"
  <2>1. Writes(t, m, liked, blocked, next) /\ ~Removing(call[t]) /\ call[t].op # "none"
    BY <1>3 DEF Create, At, Removing
  <2>2. m.status \in {"canceled", "blocked"} => Gone
    BY DEF Gone
  <2> HIDE DEF m, next
  <2>3. QED BY <2>1, <2>2, WritesWatched
<1>4. CASE Sync(t) \/ UndoLook(t) \/ Undo(t)
  BY <1>4, WritesWatched DEF Sync, UndoLook, Undo, Goes, At, Gone, Removing
<1>5. CASE Ensure(t)
  BY <1>5, EnsureWatched
<1>6. CASE Mark(t)
  <2>1. call[t].op # "none" /\ call[t].pc = "mark"
    BY <1>6 DEF Mark, At
  <2>2. CASE match.status = "active"
    <3> DEFINE m == [match EXCEPT !.synced = TRUE]
    <3>1. Writes(t, m, liked, blocked, "return") /\ m.status = "active"
      BY <1>6, <2>2 DEF Mark, MatchType, Match
    <3> HIDE DEF m
    <3>2. QED BY <2>1, <3>1, WritesWatched
  <2>3. CASE match.status # "active" /\ call[t].managed
    <3>1. Writes(t, match, liked, blocked, "unmake")
      BY <1>6, <2>3 DEF Mark, Goes
    <3>2. QED BY <2>1, <2>3, <3>1, WritesWatched DEF Gone
  <2>4. CASE match.status # "active" /\ ~call[t].managed
    <3>1. Writes(t, match, liked, blocked, "return") /\ ~Removing(call[t])
      BY <1>6, <2>1, <2>4 DEF Mark, Goes, Removing
    <3>2. QED BY <2>1, <3>1, WritesWatched DEF Gone
  <2>5. QED BY <2>2, <2>3, <2>4
<1>7. CASE Unmake(t) \/ Cut(t)
  BY <1>7, RemovesWatched DEF Unmake, Cut, At
<1>8. CASE Cancel(t)
  BY <1>8, WritesWatched DEF Cancel, At
<1>9. CASE Block(t)
  <2>1. call[t].op # "none" /\ ~Removing(call[t])
    BY <1>9 DEF Block, At, Removing
  <2>2. CASE match.status = "none"
    BY <1>9, <2>1, <2>2, WritesWatched DEF Block
  <2>3. CASE match.status # "none"
    <3> DEFINE m == [match EXCEPT !.status = "blocked"]
    <3>1. Writes(t, m, liked, TRUE, "cut")
      BY <1>9, <2>3 DEF Block
    <3> HIDE DEF m
    <3>2. QED BY <2>1, <3>1, WritesWatched
  <2>4. QED BY <2>2, <2>3
<1>10. CASE CutOwn(t) \/ CutOther(t)
  BY <1>10, CutChannelWatched DEF CutOwn, CutOther
<1>11. QED
  BY <1>1, <1>2, <1>3, <1>4, <1>5, <1>6, <1>7, <1>8, <1>9, <1>10 DEF CallStep

\* A step of the friends module makes no friends for a match.
LEMMA FriendStepWatched ==
  ASSUME Watched, RowsType, NEW t \in Threads, FriendStep(t)
  PROVE  Watched'
<1>1. call' = call /\ match' = match
  BY DEF FriendStep, dvars
<1>2. /\ OtherUpdate
      /\ failures' = failures \/ failures' = failures + 1
  <2>1. CASE Handle(t)
    <3>1. friend' = friend
      BY <2>1, HandlersKeepFriends
    <3>2. failures' = failures \/ failures' = failures + 1
      BY <2>1 DEF Handle, Check, AddOwn, AddOther, Recheck, KeepOwn, KeepOther,
                  DropOwn, DropOther, RemoveOther, RemoveOwn, Commit, Reads,
                  Calls, Keeps, Drops, Works, Fail
    <3>3. QED BY <3>1, <3>2 DEF OtherUpdate
  <2>2. ASSUME NEW u \in Users, Sure(t, u) \/ Delete(t, u)
        PROVE  /\ OtherUpdate
               /\ failures' = failures \/ failures' = failures + 1
    BY <2>2 DEF Sure, Delete, Publish, Works, Fail, OtherUpdate
  <2>3. ASSUME NEW e \in Slots, Timer(t, e)
        PROVE  /\ OtherUpdate
               /\ failures' = failures \/ failures' = failures + 1
    BY <2>3 DEF Timer, OtherUpdate
  <2>4. QED BY <2>1, <2>2, <2>3 DEF FriendStep
<1>3. failures' \in Nat /\ (Clean' => Clean)
  BY <1>2 DEF Watched, Clean
<1>4. LeftOver' => LeftOver
  BY <1>2, LeftOverUpdate
<1>5. QED BY <1>1, <1>3, <1>4 DEF Watched, Gone

LEMMA WatchedNext ==
  ASSUME Watched, RowsType, MatchType, [DatingNext]_allVars
  PROVE  Watched'
<1>1. ASSUME NEW t \in Threads, NEW u \in Users, NEW op \in Op, Begin(t, u, op)
      PROVE  Watched'
  <2> DEFINE c == [op |-> op, pc |-> First(op), by |-> u, managed |-> FALSE,
                   holds |-> {}]
  <2>1. Shape(c)
    BY DEF Shape, CallFields
  <2>2. call' = [call EXCEPT ![t] = c] /\ call[t] = NoCall
    BY <1>1 DEF Begin
  <2> HIDE DEF c
  <2>3. ~Removing(call[t])
    BY <2>2 DEF Removing, NoCall
  <2>4. friend' = friend /\ match' = match /\ failures' = failures
    BY <1>1 DEF Begin, fvars
  <2>5. failures' \in Nat /\ (Clean' => Clean)
    BY <2>4 DEF Watched, Clean
  <2>6. QED BY <2>1, <2>2, <2>3, <2>4, <2>5, AsideWatched
<1>2. CASE Crash
  <2>1. failures' \in Nat /\ ~Clean'
    BY <1>2 DEF Crash, FriendCrash, Fail, Clean, Watched
  <2>2. call' = [t \in Threads |-> NoCall]
    BY <1>2 DEF Crash
  <2>3. Shape(NoCall)
    BY DEF Shape, NoCall
  <2>4. QED BY <2>1, <2>2, <2>3 DEF Watched
<1>3. CASE UNCHANGED allVars
  BY <1>3 DEF allVars, fvars, dvars, Watched, Clean, Gone, LeftOver, HasRow,
              Managed
<1>4. QED
  BY <1>1, <1>2, <1>3, CallWatched, FriendStepWatched DEF DatingNext

\* When nothing has failed and nothing is under way, a match that was cancelled
\* or blocked has left no friends behind, though requests that read the match
\* while it was active make its friends without a lock
\* (syncActiveMatchFriend, CancelMatch, Block).
THEOREM NoFriendsRemain == DatingSpec => []GoneMatchLeavesNoFriends
<1> DEFINE I == ConfirmedRows /\ MatchType /\ Watched
<1>1. DatingInit => I
  <2>1. DatingInit => MatchType
    BY DEF DatingInit, MatchType, Match, MatchStatus
  <2>2. QED BY <2>1, ConfirmedInit, WatchedInit
<1>2. I /\ [DatingNext]_allVars => I'
  <2>1. SUFFICES ASSUME I, [DatingNext]_allVars PROVE I'
    OBVIOUS
  <2>2. ConfirmedRows'
    BY <2>1, NextUpdates, ConfirmedUpdate
  <2>3. MatchType'
    BY <2>1, NextMatch
  <2>4. Watched'
    BY <2>1, WatchedNext DEF ConfirmedRows
  <2>5. QED BY <2>2, <2>3, <2>4
<1>3. I => GoneMatchLeavesNoFriends
  <2>1. SUFFICES ASSUME Watched, Quiet, Clean, Gone, LeftOver PROVE FALSE
    BY DEF GoneMatchLeavesNoFriends, Gone, LeftOver
  <2>2. PICK t \in Threads : Removing(call[t])
    BY <2>1 DEF Watched
  <2>3. call[t] = NoCall
    BY <2>1 DEF Quiet
  <2>4. QED BY <2>2, <2>3 DEF Removing, NoCall
<1> HIDE DEF I
<1>4. QED BY <1>1, <1>2, <1>3, PTL DEF DatingSpec, allVars

-----------------------------------------------------------------------------
\* The lock of the pair, and what a request knows of the match.

\* These steps hold the lock of the pair.
PairPc == {"look", "record", "likedBack", "create", "cancel", "block"}

Holding(c) == PairKey \in c.holds

\* What a request has seen of the match still holds: a swipe found none, a
\* repair found one, and who removes the friends has seen it go.
Knows(c, m) ==
  c.op # "none" =>
    /\ c.op \in Op /\ c.by \in Users
    /\ c.pc \in PairPc => Holding(c)
    /\ c.pc \in {"record", "likedBack", "create"} => m.status = "none"
    /\ c.pc \in {"ensure", "mark"} => m.status # "none"
    /\ c.pc \in {"cut", "unmake"} => m.status \in {"canceled", "blocked"}

OneHolder ==
  \A s, t \in Threads : Holding(call[s]) /\ Holding(call[t]) => s = t

Locked ==
  /\ DOMAIN call = Threads /\ \A t \in Threads : Shape(call[t])
  /\ OneHolder
  /\ \A t \in Threads : Knows(call[t], match)

\* A match never goes back to none, and one that is gone stays gone.
Onward ==
  /\ match'.status = "none" => match.status = "none"
  /\ Gone => Gone'

LEMMA NoCallKnows == ASSUME NEW m PROVE Knows(NoCall, m) /\ ~Holding(NoCall) /\ Shape(NoCall)
BY DEF Knows, NoCall, Holding, Shape

\* The thread t goes on as c, and who leaves none holds the lock of the pair.
LEMMA LockedKept ==
  ASSUME Locked, NEW t \in Threads, NEW c, call' = [call EXCEPT ![t] = c], Shape(c),
         Holding(c) => Holding(call[t])
           \/ \A s \in Threads \ {t} : ~Holding(call[s]),
         Knows(c, match'), Onward,
         match'.status # match.status => Holding(call[t])
  PROVE  Locked'
<1>1. /\ DOMAIN call' = Threads /\ call'[t] = c
      /\ \A s \in Threads \ {t} : call'[s] = call[s]
  BY DEF Locked
<1>2. OneHolder'
  BY <1>1 DEF Locked, OneHolder
<1>3. ASSUME NEW s \in Threads \ {t} PROVE Knows(call[s], match')
  <2>1. CASE match'.status = match.status
    BY <2>1 DEF Locked, Knows
  <2>2. CASE match'.status # match.status
    <3>1. ~Holding(call[s])
      BY <2>2 DEF Locked, OneHolder
    <3>2. Knows(call[s], match)
      BY DEF Locked
    <3>3. QED BY <3>1, <3>2 DEF Knows, Onward, Gone, PairPc
  <2>3. QED BY <2>1, <2>2
<1>4. QED BY <1>1, <1>2, <1>3 DEF Locked

\* How a request goes on after a statement.
LEMMA WritesLocked ==
  ASSUME Locked, NEW t \in Threads, call[t].op # "none",
         NEW m, NEW l, NEW b, NEW next, Writes(t, m, l, b, next),
         next \in PairPc => Holding(call[t]),
         next \in {"record", "likedBack", "create"} => m.status = "none",
         next \in {"ensure", "mark"} => m.status # "none",
         next \in {"cut", "unmake"} => m.status \in {"canceled", "blocked"},
         m.status = "none" => match.status = "none",
         Gone => m.status \in {"canceled", "blocked"},
         m.status # match.status => Holding(call[t])
  PROVE  Locked' /\ Onward
<1>1. Onward /\ (match'.status # match.status => Holding(call[t]))
  BY WritesMatch DEF Onward, Gone
<1>2. CASE Return(t)
  <2>1. call' = [call EXCEPT ![t] = NoCall]
    BY <1>2 DEF Return
  <2>2. QED BY <1>1, <2>1, NoCallKnows, LockedKept
<1>3. CASE Proceed(t, next) /\ match' = m
  <2> DEFINE c == [call[t] EXCEPT !.pc = next]
  <2>1. DOMAIN call[t] = CallFields
    BY DEF Locked, Shape
  <2>2. /\ DOMAIN c = CallFields /\ c.op = call[t].op /\ c.pc = next
        /\ c.holds = call[t].holds /\ c.by = call[t].by
    BY <2>1 DEF CallFields
  <2>3. call' = [call EXCEPT ![t] = c]
    BY <1>3 DEF Proceed
  <2> HIDE DEF c
  <2>4. Shape(c) /\ Holding(c) = Holding(call[t])
    BY <2>2 DEF Shape, Holding
  <2>5. Knows(c, match')
    BY <1>3, <2>2, <2>4 DEF Knows, Locked
  <2>6. QED BY <1>1, <2>3, <2>4, <2>5, LockedKept
<1>4. QED BY <1>2, <1>3 DEF Writes

\* A step that leaves the match alone and takes no lock.
LEMMA AsideLocked ==
  ASSUME Locked, NEW t \in Threads, NEW c, call' = [call EXCEPT ![t] = c],
         Shape(c), Holding(c) => Holding(call[t]), Knows(c, match), match' = match
  PROVE  Locked' /\ Onward
<1>1. Onward
  BY DEF Onward, Gone
<1>2. QED BY <1>1, LockedKept

LEMMA ProceedLocked ==
  ASSUME Locked, NEW t \in Threads, call[t].op # "none", match' = match,
         NEW next, Return(t) \/ Proceed(t, next),
         next \notin PairPc \cup {"ensure", "mark", "cut", "unmake"}
  PROVE  Locked' /\ Onward
<1>1. CASE Return(t)
  <2>1. call' = [call EXCEPT ![t] = NoCall]
    BY <1>1 DEF Return
  <2>2. QED BY <2>1, NoCallKnows, AsideLocked
<1>2. CASE Proceed(t, next)
  <2> DEFINE c == [call[t] EXCEPT !.pc = next]
  <2>1. DOMAIN call[t] = CallFields
    BY DEF Locked, Shape
  <2>2. DOMAIN c = CallFields /\ c.op = call[t].op /\ c.pc = next /\ c.holds = call[t].holds /\ c.by = call[t].by
    BY <2>1 DEF CallFields
  <2>3. call' = [call EXCEPT ![t] = c]
    BY <1>2 DEF Proceed
  <2> HIDE DEF c
  <2>4. Shape(c) /\ Knows(c, match) /\ (Holding(c) => Holding(call[t]))
    BY <2>2 DEF Shape, Knows, Holding, PairPc, Locked
  <2>5. QED BY <2>3, <2>4, AsideLocked
<1>3. QED BY <1>1, <1>2

LEMMA LockLocked ==
  ASSUME Locked, NEW t \in Threads, LockUser(t) \/ LockPair(t)
  PROVE  Locked' /\ Onward
<1>1. /\ call[t].op \in Op /\ call[t].by \in Users /\ call[t].op # "none"
      /\ DOMAIN call[t] = CallFields
  BY DEF LockUser, LockPair, At, Locked, Knows, Shape
<1>2. ASSUME NEW key, NEW next, Lock(t, key, next), next # "ensure", next # "mark",
             next \notin {"record", "likedBack", "create", "cut", "unmake"},
             key = PairKey \/ (key \in Users /\ next \notin PairPc)
      PROVE  Locked' /\ Onward
  <2> DEFINE h == [call[t] EXCEPT !.holds = call[t].holds \cup {key}]
             c == [h EXCEPT !.pc = next]
  <2>1. call' = [call EXCEPT ![t] = c] /\ match' = match
    BY <1>1, <1>2 DEF Lock, CallFields
  <2>2. /\ DOMAIN h = CallFields /\ h.op = call[t].op /\ h.by = call[t].by
        /\ h.holds = call[t].holds \cup {key}
    BY <1>1 DEF CallFields
  <2> HIDE DEF h
  <2>3. /\ DOMAIN c = CallFields /\ c.op = call[t].op /\ c.by = call[t].by
        /\ c.holds = call[t].holds \cup {key} /\ c.pc = next
    BY <2>2 DEF CallFields
  <2> HIDE DEF c
  <2>4. Shape(c)
    BY <2>3 DEF Shape
  <2>5. Knows(c, match')
    BY <1>1, <1>2, <2>3 DEF Knows, Holding
  <2>6. CASE key = PairKey
    <3>1. \A s \in Threads : ~Holding(call[s])
      BY <1>2, <2>6 DEF Lock, Free, Holding
    <3>2. QED BY <2>1, <2>4, <2>5, <3>1, LockedKept DEF Onward, Gone
  <2>7. CASE key \in Users
    <3>1. Holding(c) => Holding(call[t])
      BY <2>3, <2>7, PairKeyAssumption DEF Holding
    <3>2. QED BY <2>1, <2>4, <2>5, <3>1, LockedKept DEF Onward, Gone
  <2>8. QED BY <1>2, <2>6, <2>7
<1>3. CASE LockUser(t)
  <2>1. PICK next \in {"undoLook", "lockPair"} : Lock(t, By(t), next)
    BY <1>3 DEF LockUser
  <2>2. By(t) \in Users
    BY <1>1 DEF By
  <2>3. QED BY <1>2, <2>1, <2>2 DEF PairPc
<1>4. CASE LockPair(t)
  <2>1. PICK next \in {"look"} \cup Op : Lock(t, PairKey, next)
    BY <1>1, <1>4 DEF LockPair
  <2>2. QED BY <1>2, <2>1 DEF Op
<1>5. QED BY <1>3, <1>4

LEMMA CallLocked ==
  ASSUME Locked, MatchType, NEW t \in Threads, CallStep(t)
  PROVE  Locked' /\ Onward
<1>1. Knows(call[t], match)
  BY DEF Locked
<1>2. CASE LockUser(t) \/ LockPair(t)
  BY <1>2, LockLocked
<1>3. CASE Look(t) \/ Refuse(t)
  <2>1. /\ call[t].op # "none" /\ Holding(call[t])
        /\ \E next \in {"return", "record", "sync"} :
             /\ Writes(t, match, liked, blocked, next)
             /\ next = "record" => match.status = "none"
    BY <1>1, <1>3 DEF Look, Refuse, Goes, At, Knows, PairPc
  <2>2. QED BY <2>1, WritesLocked DEF Gone
<1>4. CASE Record(t)
  <2>1. /\ call[t].op # "none" /\ Holding(call[t]) /\ match.status = "none"
        /\ \E l : \E next \in {"return", "likedBack"} : Writes(t, match, l, blocked, next)
    BY <1>1, <1>4 DEF Record, At, Knows, PairPc
  <2>2. QED BY <2>1, WritesLocked DEF Gone
<1>5. CASE LikedBack(t)
  <2>1. /\ call[t].op # "none" /\ Holding(call[t]) /\ match.status = "none"
        /\ \E next \in {"return", "create"} : Writes(t, match, liked, blocked, next)
    BY <1>1, <1>5 DEF LikedBack, Goes, At, Knows, PairPc
  <2>2. QED BY <2>1, WritesLocked DEF Gone
<1>6. CASE Create(t)
  <2> DEFINE m == [status |-> "active", synced |-> FALSE]
  <2>1. /\ call[t].op # "none" /\ Holding(call[t]) /\ match.status = "none"
        /\ Writes(t, m, liked, blocked, "sync") /\ m.status = "active"
    BY <1>1, <1>6 DEF Create, At, Knows, PairPc
  <2> HIDE DEF m
  <2>2. QED BY <2>1, WritesLocked DEF Gone, PairPc
<1>7. CASE Sync(t)
  <2>1. /\ call[t].op # "none"
        /\ \E next \in {"return", "ensure"} :
             /\ Writes(t, match, liked, blocked, next)
             /\ next = "ensure" => match.status = "active"
    BY <1>7 DEF Sync, Goes, At
  <2>2. QED BY <2>1, WritesLocked DEF Gone, PairPc
<1>8. CASE Ensure(t)
  <2>1. /\ call[t].op # "none" /\ match' = match /\ match.status # "none"
        /\ DOMAIN call[t] = CallFields
    BY <1>1, <1>8 DEF Ensure, At, Knows, Locked, Shape
  <2>2. CASE Return(t)
    BY <2>1, <2>2, ProceedLocked DEF PairPc
  <2>3. ASSUME NEW managed, call' = [call EXCEPT ![t].pc = "mark", ![t].managed = managed]
        PROVE  Locked' /\ Onward
    <3> DEFINE d == [call[t] EXCEPT !.pc = "mark"]
               c == [d EXCEPT !.managed = managed]
    <3>1. call' = [call EXCEPT ![t] = c]
      BY <2>1, <2>3 DEF CallFields
    <3>2. /\ DOMAIN d = CallFields /\ d.op = call[t].op /\ d.by = call[t].by
          /\ d.holds = call[t].holds /\ d.pc = "mark"
      BY <2>1 DEF CallFields
    <3> HIDE DEF d
    <3>3. /\ DOMAIN c = CallFields /\ c.op = call[t].op /\ c.by = call[t].by
          /\ c.holds = call[t].holds /\ c.pc = "mark"
      BY <3>2 DEF CallFields
    <3> HIDE DEF c
    <3>4. Shape(c) /\ Knows(c, match) /\ (Holding(c) => Holding(call[t]))
      BY <1>1, <2>1, <3>3 DEF Shape, Knows, Holding, PairPc
    <3>5. QED BY <2>1, <3>1, <3>4, AsideLocked
  <2>4. QED BY <1>8, <2>2, <2>3 DEF Ensure
<1>9. CASE Mark(t)
  <2>1. call[t].op # "none" /\ match.status # "none"
    BY <1>1, <1>9 DEF Mark, At, Knows
  <2>2. CASE match.status = "active"
    <3> DEFINE m == [match EXCEPT !.synced = TRUE]
    <3>1. Writes(t, m, liked, blocked, "return") /\ m.status = "active"
      BY <1>9, <2>2 DEF Mark, MatchType, Match
    <3> HIDE DEF m
    <3>2. QED BY <2>1, <2>2, <3>1, WritesLocked DEF Gone, PairPc
  <2>3. CASE match.status # "active"
    <3>1. match.status \in {"canceled", "blocked"}
      BY <2>1, <2>3 DEF MatchType, Match, MatchStatus
    <3>2. \E next \in {"return", "unmake"} : Writes(t, match, liked, blocked, next)
      BY <1>9, <2>3 DEF Mark, Goes
    <3>3. QED BY <2>1, <3>1, <3>2, WritesLocked DEF Gone, PairPc
  <2>4. QED BY <2>2, <2>3
<1>10. CASE Unmake(t) \/ Cut(t)
  <2>1. /\ call[t].op # "none" /\ match' = match
        /\ \E next \in {"return", "readOwn"} : Return(t) \/ Proceed(t, next)
    BY <1>10 DEF Unmake, Cut, Removes, At
  <2>2. QED BY <2>1, ProceedLocked DEF PairPc
<1>11. CASE UndoLook(t) \/ Undo(t)
  <2>1. /\ call[t].op # "none"
        /\ \E l : \E next \in {"return", "undo"} : Writes(t, match, l, blocked, next)
    BY <1>11 DEF UndoLook, Undo, Goes, At
  <2>2. QED BY <2>1, WritesLocked DEF Gone, PairPc
<1>12. CASE Cancel(t)
  <2> DEFINE m == [match EXCEPT !.status = IF match.status = "blocked" THEN match.status
                                           ELSE "canceled"]
  <2>1. /\ call[t].op # "none" /\ Holding(call[t])
        /\ Writes(t, m, liked, blocked, "cut")
    BY <1>1, <1>12 DEF Cancel, At, Knows, PairPc
  <2>2. m.status \in {"canceled", "blocked"}
    BY DEF MatchType, Match
  <2> HIDE DEF m
  <2>3. QED BY <2>1, <2>2, WritesLocked DEF Gone, PairPc
<1>13. CASE Block(t)
  <2>1. call[t].op # "none" /\ Holding(call[t])
    BY <1>1, <1>13 DEF Block, At, Knows, PairPc
  <2>2. CASE match.status = "none"
    <3>1. Writes(t, match, liked, TRUE, "readOwn")
      BY <1>13, <2>2 DEF Block
    <3>2. QED BY <2>1, <3>1, WritesLocked DEF Gone, PairPc
  <2>3. CASE match.status # "none"
    <3> DEFINE m == [match EXCEPT !.status = "blocked"]
    <3>1. Writes(t, m, liked, TRUE, "cut") /\ m.status = "blocked"
      BY <1>13, <2>3 DEF Block, MatchType, Match
    <3> HIDE DEF m
    <3>2. QED BY <2>1, <3>1, WritesLocked DEF Gone, PairPc
  <2>4. QED BY <2>2, <2>3
<1>14. CASE CutOwn(t) \/ CutOther(t)
  <2>1. /\ call[t].op # "none" /\ match' = match
        /\ \E next \in {"return", "readOther", "cutOwn", "cutOther"} :
             Return(t) \/ Proceed(t, next)
    BY <1>14 DEF CutOwn, CutOther, CutChannel, At
  <2>2. QED BY <2>1, ProceedLocked DEF PairPc
<1>15. QED
  BY <1>2, <1>3, <1>4, <1>5, <1>6, <1>7, <1>8, <1>9, <1>10, <1>11, <1>12, <1>13, <1>14
     DEF CallStep

LEMMA NextLocked ==
  ASSUME Locked, MatchType, [DatingNext]_allVars
  PROVE  Locked' /\ Onward
<1>1. ASSUME NEW t \in Threads, NEW u \in Users, NEW op \in Op, Begin(t, u, op)
      PROVE  Locked' /\ Onward
  <2> DEFINE c == [op |-> op, pc |-> First(op), by |-> u, managed |-> FALSE,
                   holds |-> {}]
  <2>1. Shape(c) /\ Knows(c, match) /\ ~Holding(c)
    <3>1. First(op) \in {"lockUser", "lockPair", "sync"}
      BY DEF First
    <3>2. QED BY <3>1 DEF Shape, CallFields, Knows, Holding, PairPc
  <2>2. call' = [call EXCEPT ![t] = c] /\ match' = match
    BY <1>1 DEF Begin
  <2> HIDE DEF c
  <2>3. QED BY <2>1, <2>2, AsideLocked
<1>2. CASE Crash
  <2>1. call' = [t \in Threads |-> NoCall] /\ match' = match
    BY <1>2 DEF Crash
  <2>2. QED BY <2>1, NoCallKnows DEF Locked, OneHolder, Onward, Gone
<1>3. ASSUME UNCHANGED <<call, match>> PROVE Locked' /\ Onward
  BY <1>3 DEF Locked, OneHolder, Onward, Gone
<1>4. ASSUME NEW t \in Threads, FriendStep(t) PROVE UNCHANGED <<call, match>>
  BY <1>4 DEF FriendStep, dvars
<1>5. UNCHANGED allVars => UNCHANGED <<call, match>>
  BY DEF allVars, dvars
<1>6. QED BY <1>1, <1>2, <1>3, <1>4, <1>5, CallLocked DEF DatingNext

LEMMA InitLocked == DatingInit => Locked
BY NoCallKnows DEF DatingInit, Locked, OneHolder

-----------------------------------------------------------------------------
\* The whitelists of a pair that has separated.

Separated == \A u \in Users : friend[u].state = "deleted"

\* A handler has kept nothing before it has looked for other relations.
Handling(h) ==
  h.pc # "idle" =>
    /\ DOMAIN h = {"pc", "slot", "by", "keep"}
    /\ h.by \in Users
    /\ h.pc \in {"check", "addOwn", "addOther", "recheck", "keepOwn"} => h.keep = {}

\* The handler will take the entry of the channel c away if both rows are
\* deleted by then: one of a deletion, and one of a confirmation that has found
\* the two to be friends and looks again.
TakesBack(h, c) ==
  \/ h.pc = "removeOther"
  \/ h.pc = "removeOwn" /\ h.by = c
  \/ h.pc \in {"addOwn", "addOther", "recheck", "keepOwn", "keepOther", "dropOwn"}
     /\ c \notin h.keep
  \/ h.pc = "dropOther" /\ h.by # c /\ c \notin h.keep

EventsRight ==
  DOMAIN events = Slots /\ \A e \in Slots : events[e] # NoEvent => events[e].by \in Users

KeptApart ==
  /\ failures \in Nat
  /\ DOMAIN whitelist = Users /\ DOMAIN thread = Threads
  /\ EventsRight
  /\ \A t \in Threads : Handling(thread[t])
  /\ Clean /\ ~Gone /\ Separated =>
       \A c \in Users : whitelist[c] => \E t \in Threads : TakesBack(thread[t], c)

LEMMA TwoUsers ==
  ASSUME NEW u \in Users
  PROVE  Other(u) \in Users /\ Other(u) # u /\ \A v \in Users : v # u => v = Other(u)
<1>1. PICK v \in Users : Users = {u, v} /\ u # v
  BY UsersAssumption
<1>2. Other(u) \in Users /\ Other(u) # u
  BY <1>1 DEF Other
<1>3. QED BY <1>1, <1>2

LEMMA IdleHandles == Handling(Idle) /\ Idle.pc = "idle" /\ \A c : ~TakesBack(Idle, c)
BY DEF Handling, Idle, TakesBack

\* The handler of the thread t goes on as h.
LEMMA HandlerKept ==
  ASSUME KeptApart, NEW t \in Threads, NEW h, thread' = [thread EXCEPT ![t] = h],
         Handling(h), EventsRight', DOMAIN whitelist' = Users,
         failures' \in Nat, Clean' => Clean, Gone => Gone',
         ASSUME NEW c \in Users, Clean', ~Gone', Separated', whitelist'[c]
         PROVE  TakesBack(h, c) \/ (Separated /\ whitelist[c] /\ ~TakesBack(thread[t], c))
  PROVE  KeptApart'
<1>1. /\ DOMAIN thread' = Threads /\ thread'[t] = h
      /\ \A s \in Threads \ {t} : thread'[s] = thread[s]
  BY DEF KeptApart
<1>2. ASSUME NEW c \in Users, Clean', ~Gone', Separated', whitelist'[c]
      PROVE  \E s \in Threads : TakesBack(thread'[s], c)
  <2>1. CASE TakesBack(h, c)
    BY <1>1, <2>1
  <2>2. CASE Separated /\ whitelist[c] /\ ~TakesBack(thread[t], c)
    <3>1. PICK s \in Threads : TakesBack(thread[s], c)
      BY <1>2, <2>2 DEF KeptApart
    <3>2. s # t
      BY <2>2, <3>1
    <3>3. QED BY <1>1, <3>1, <3>2
  <2>3. QED BY <1>2, <2>1, <2>2
<1>3. \A s \in Threads : Handling(thread'[s])
  BY <1>1 DEF KeptApart
<1>4. QED BY <1>1, <1>2, <1>3 DEF KeptApart

\* No handler moves.
LEMMA NoHandler ==
  ASSUME KeptApart, thread' = thread, EventsRight', DOMAIN whitelist' = Users,
         failures' \in Nat, Clean' => Clean, Gone => Gone',
         Clean' /\ ~Gone' /\ Separated' => Separated,
         \A c \in Users : whitelist'[c] => whitelist[c]
  PROVE  KeptApart'
BY DEF KeptApart

LEMMA GoesTo ==
  ASSUME KeptApart, NEW t \in Threads, thread[t].pc # "idle", NEW pc, Goto(t, pc)
  PROVE  \E h : /\ thread' = [thread EXCEPT ![t] = h]
                /\ DOMAIN h = {"pc", "slot", "by", "keep"} /\ h.pc = pc
                /\ h.by = thread[t].by /\ h.keep = thread[t].keep /\ h.by \in Users
<1> DEFINE h == [thread[t] EXCEPT !.pc = pc]
<1>1. DOMAIN thread[t] = {"pc", "slot", "by", "keep"} /\ thread[t].by \in Users
  BY DEF KeptApart, Handling
<1>2. /\ DOMAIN h = {"pc", "slot", "by", "keep"} /\ h.pc = pc /\ h.by = thread[t].by
      /\ h.keep = thread[t].keep
  BY <1>1
<1>3. QED BY <1>1, <1>2 DEF Goto

\* A read of the database.
LEMMA ReadsApart ==
  ASSUME KeptApart, NEW t \in Threads, NEW pc, pc # "idle", NEW next, Reads(t, pc, next),
         match' = match,
         next \in {"check", "addOwn", "addOther", "recheck", "keepOwn"} =>
           thread[t].keep = {},
         ASSUME NEW c \in Users, Separated, TakesBack(thread[t], c), NEW h,
                h.pc = next, h.by = thread[t].by, h.keep = thread[t].keep
         PROVE  TakesBack(h, c)
  PROVE  KeptApart'
<1>1. /\ thread[t].pc = pc /\ whitelist' = whitelist /\ events' = events
      /\ friend' = friend /\ failures' \in Nat /\ (Clean' => Clean) /\ (Gone => Gone')
      /\ Goto(t, next) \/ (Goto(t, "commit") /\ ~Clean')
  BY DEF Reads, HandlerUnchanged, Works, Fail, Clean, Gone, KeptApart
<1>2. EventsRight' /\ DOMAIN whitelist' = Users
  BY <1>1 DEF KeptApart, EventsRight
<1>3. CASE Goto(t, next)
  <2>1. PICK h : /\ thread' = [thread EXCEPT ![t] = h]
                 /\ DOMAIN h = {"pc", "slot", "by", "keep"} /\ h.pc = next
                 /\ h.by = thread[t].by /\ h.keep = thread[t].keep /\ h.by \in Users
    BY <1>1, <1>3, GoesTo
  <2>2. Handling(h)
    BY <2>1 DEF Handling
  <2>3. ASSUME NEW c \in Users, Clean', ~Gone', Separated', whitelist'[c]
        PROVE  TakesBack(h, c) \/ (Separated /\ whitelist[c] /\ ~TakesBack(thread[t], c))
    <3>1. Separated /\ whitelist[c]
      BY <1>1, <2>3 DEF Separated
    <3>2. QED BY <2>1, <3>1
  <2>4. QED BY <1>1, <1>2, <2>1, <2>2, <2>3, HandlerKept
<1>4. CASE Goto(t, "commit") /\ ~Clean'
  <2>1. PICK h : /\ thread' = [thread EXCEPT ![t] = h]
                 /\ DOMAIN h = {"pc", "slot", "by", "keep"} /\ h.pc = "commit"
                 /\ h.by \in Users
    BY <1>1, <1>4, GoesTo
  <2>2. Handling(h)
    BY <2>1 DEF Handling
  <2>3. QED BY <1>1, <1>2, <1>4, <2>1, <2>2, HandlerKept
<1>5. QED BY <1>1, <1>3, <1>4

\* A failed call of the IM server: the handler goes on or gives up.
LEMMA FailsApart ==
  ASSUME KeptApart, NEW t \in Threads, thread[t].pc # "idle", NEW next, Fail,
         HandlerUnchanged, match' = match, DOMAIN whitelist' = Users, Goto(t, next),
         next \in {"check", "addOwn", "addOther", "recheck", "keepOwn"} =>
           thread[t].keep = {}
  PROVE  KeptApart'
<1>1. /\ events' = events /\ friend' = friend /\ failures' \in Nat /\ ~Clean'
      /\ (Gone => Gone')
  BY DEF HandlerUnchanged, Fail, Clean, Gone, KeptApart
<1>2. EventsRight'
  BY <1>1 DEF KeptApart, EventsRight
<1>3. PICK h : /\ thread' = [thread EXCEPT ![t] = h]
               /\ DOMAIN h = {"pc", "slot", "by", "keep"} /\ h.pc = next
               /\ h.by \in Users /\ h.keep = thread[t].keep
  BY GoesTo
<1>4. Handling(h)
  BY <1>3 DEF Handling
<1>5. QED BY <1>1, <1>2, <1>3, <1>4, HandlerKept

\* A handler that was at old takes away the same as before once it is at next,
\* but for the entry of d.
Covers(old, d, next) ==
  \A c \in Users : \A h :
    /\ c # d /\ TakesBack(old, c)
    /\ h.pc = next /\ h.by = old.by /\ h.keep = old.keep
    => TakesBack(h, c)

\* A call that takes an entry away.
LEMMA Removal ==
  ASSUME KeptApart, NEW t \in Threads, thread[t].pc # "idle", NEW d \in Users,
         NEW next, next \notin {"check", "addOwn", "addOther", "recheck", "keepOwn"},
         HandlerUnchanged, match' = match, Works, Goto(t, next),
         whitelist' = [whitelist EXCEPT ![d] = FALSE],
         Covers(thread[t], d, next)
  PROVE  KeptApart'
<1>1. /\ events' = events /\ friend' = friend /\ failures' \in Nat
      /\ (Clean' => Clean) /\ (Gone => Gone')
  BY DEF HandlerUnchanged, Works, Clean, Gone, KeptApart
<1>2. EventsRight' /\ DOMAIN whitelist' = Users
  BY <1>1 DEF KeptApart, EventsRight
<1>3. PICK h : /\ thread' = [thread EXCEPT ![t] = h]
               /\ DOMAIN h = {"pc", "slot", "by", "keep"} /\ h.pc = next
               /\ h.by = thread[t].by /\ h.keep = thread[t].keep /\ h.by \in Users
  BY GoesTo
<1>4. Handling(h)
  BY <1>3 DEF Handling
<1>5. ASSUME NEW c \in Users, Clean', ~Gone', Separated', whitelist'[c]
      PROVE  TakesBack(h, c) \/ (Separated /\ whitelist[c] /\ ~TakesBack(thread[t], c))
  <2>1. Separated
    BY <1>1, <1>5 DEF Separated
  <2>2. c # d /\ whitelist[c]
    BY <1>5 DEF KeptApart
  <2>3. TakesBack(thread[t], c) => TakesBack(h, c)
    BY <1>3, <2>2 DEF Covers
  <2>4. QED BY <2>1, <2>2, <2>3
<1>6. QED BY <1>1, <1>2, <1>3, <1>4, <1>5, HandlerKept

\* A call that makes an entry.
LEMMA Addition ==
  ASSUME KeptApart, NEW t \in Threads, thread[t].pc # "idle", NEW next,
         next \in {"addOther", "recheck"}, thread[t].keep = {},
         HandlerUnchanged, match' = match, Works, Goto(t, next),
         DOMAIN whitelist' = Users
  PROVE  KeptApart'
<1>1. /\ events' = events /\ friend' = friend /\ failures' \in Nat
      /\ (Clean' => Clean) /\ (Gone => Gone')
  BY DEF HandlerUnchanged, Works, Clean, Gone, KeptApart
<1>2. EventsRight'
  BY <1>1 DEF KeptApart, EventsRight
<1>3. PICK h : /\ thread' = [thread EXCEPT ![t] = h]
               /\ DOMAIN h = {"pc", "slot", "by", "keep"} /\ h.pc = next
               /\ h.keep = thread[t].keep /\ h.by \in Users
  BY GoesTo
<1>4. Handling(h)
  BY <1>3 DEF Handling
<1>5. \A c : TakesBack(h, c)
  BY <1>3 DEF TakesBack
<1>6. QED BY <1>1, <1>2, <1>3, <1>4, <1>5, HandlerKept

\* What a confirmation still needs is kept.
LEMMA KeepsApart ==
  ASSUME KeptApart, NEW t \in Threads, NEW d, NEW next,
         match' = match,
         \/ Keeps(t, "keepOwn", d, next) /\ next = "keepOther"
         \/ Keeps(t, "keepOther", d, next) /\ next = "dropOwn",
         d \in Users
  PROVE  KeptApart'
<1> DEFINE keep == IF HasRow(d) THEN thread[t].keep \cup {d} ELSE thread[t].keep
           g == [thread[t] EXCEPT !.pc = next]
           h == [g EXCEPT !.keep = keep]
<1>1. /\ thread[t].pc \in {"keepOwn", "keepOther"} /\ whitelist' = whitelist
      /\ events' = events
      /\ friend' = friend /\ failures' \in Nat /\ (Clean' => Clean) /\ (Gone => Gone')
  BY DEF Keeps, HandlerUnchanged, Works, Fail, Clean, Gone, KeptApart
<1>2. EventsRight' /\ DOMAIN whitelist' = Users
  BY <1>1 DEF KeptApart, EventsRight
<1>3. DOMAIN thread[t] = {"pc", "slot", "by", "keep"} /\ thread[t].by \in Users
  BY <1>1 DEF KeptApart, Handling
<1>4. CASE thread' = [thread EXCEPT ![t].pc = next,
                        ![t].keep = IF HasRow(d) THEN @ \cup {d} ELSE @]
  <2>1. thread' = [thread EXCEPT ![t] = h]
    BY <1>3, <1>4
  <2>2. /\ DOMAIN g = {"pc", "slot", "by", "keep"} /\ g.pc = next /\ g.by = thread[t].by
    BY <1>3
  <2> HIDE DEF g, keep
  <2>3. /\ DOMAIN h = {"pc", "slot", "by", "keep"} /\ h.pc = next /\ h.by = thread[t].by
        /\ h.keep = keep
    BY <2>2
  <2> HIDE DEF h
  <2>4. Handling(h) /\ next \in {"keepOther", "dropOwn"}
    BY <1>3, <2>3 DEF Handling
  <2>5. ASSUME NEW c \in Users, Clean', ~Gone', Separated', whitelist'[c]
        PROVE  TakesBack(h, c) \/ (Separated /\ whitelist[c] /\ ~TakesBack(thread[t], c))
    <3>1. Separated /\ whitelist[c]
      BY <1>1, <2>5 DEF Separated
    <3>2. h.keep = thread[t].keep
      BY <2>3, <3>1 DEF Separated, HasRow, keep
    <3>3. TakesBack(thread[t], c) => TakesBack(h, c)
      BY <1>1, <2>3, <2>4, <3>2 DEF TakesBack
    <3>4. QED BY <3>1, <3>3
  <2>6. QED BY <1>1, <1>2, <2>1, <2>4, <2>5, HandlerKept
<1>5. CASE Goto(t, "commit") /\ ~Clean'
  <2>1. PICK k : /\ thread' = [thread EXCEPT ![t] = k]
                 /\ DOMAIN k = {"pc", "slot", "by", "keep"} /\ k.pc = "commit"
                 /\ k.by \in Users
    BY <1>1, <1>5, GoesTo
  <2>2. Handling(k)
    BY <2>1 DEF Handling
  <2>3. QED BY <1>1, <1>2, <1>5, <2>1, <2>2, HandlerKept
<1>6. QED BY <1>4, <1>5 DEF Keeps, Fail, Clean, KeptApart

LEMMA DropsApart ==
  ASSUME KeptApart, NEW t \in Threads, DropOwn(t) \/ DropOther(t), match' = match
  PROVE  KeptApart'
<1>1. /\ thread[t].pc \in {"dropOwn", "dropOther"} /\ thread[t].by \in Users
  BY DEF DropOwn, DropOther, Drops, Calls, KeptApart, Handling
<1>2. Other(thread[t].by) \in Users /\ Other(thread[t].by) # thread[t].by
      /\ \A v \in Users : v # thread[t].by => v = Other(thread[t].by)
  BY <1>1, TwoUsers
<1>3. ASSUME NEW pc, NEW d \in Users, NEW next,
             \/ pc = "dropOwn" /\ d = thread[t].by /\ next = "dropOther"
             \/ pc = "dropOther" /\ d = Other(thread[t].by) /\ next = "commit",
             thread[t].pc = pc, Drops(t, pc, d, next)
      PROVE  KeptApart'
  <2>1. CASE d \in thread[t].keep
    <3>1. Reads(t, pc, next)
      BY <1>3, <2>1 DEF Drops, Reads
    <3>2. ASSUME NEW c \in Users, Separated, TakesBack(thread[t], c), NEW h,
                 h.pc = next, h.by = thread[t].by, h.keep = thread[t].keep
          PROVE  TakesBack(h, c)
      BY <1>2, <1>3, <2>1, <3>2 DEF TakesBack
    <3>3. QED BY <1>3, <3>1, <3>2, ReadsApart
  <2>2. CASE d \notin thread[t].keep
    <3>1. Calls(t, pc, d, FALSE, next, next)
      BY <2>2, <1>3 DEF Drops
    <3>2. Covers(thread[t], d, next)
      BY <1>2, <1>3, <2>2 DEF TakesBack, Covers
    <3>3. /\ thread[t].pc # "idle" /\ next \in {"dropOther", "commit"}
          /\ HandlerUnchanged /\ DOMAIN whitelist' = Users /\ Goto(t, next)
          /\ Fail \/ (Works /\ whitelist' = [whitelist EXCEPT ![d] = FALSE])
      BY <1>3, <3>1 DEF Calls, KeptApart
    <3>4. CASE Fail
      BY <3>3, <3>4, FailsApart
    <3>5. CASE Works /\ whitelist' = [whitelist EXCEPT ![d] = FALSE]
      BY <1>3, <3>2, <3>3, <3>5, Removal
    <3>6. QED BY <3>3, <3>4, <3>5
  <2>3. QED BY <2>1, <2>2
<1>4. QED BY <1>1, <1>2, <1>3 DEF DropOwn, DropOther, Drops, Calls

LEMMA CommitApart ==
  ASSUME KeptApart, NEW t \in Threads, Commit(t), match' = match
  PROVE  KeptApart'
<1>1. /\ thread[t].pc = "commit" /\ thread' = [thread EXCEPT ![t] = Idle]
      /\ whitelist' = whitelist /\ friend' = friend
      /\ failures' \in Nat /\ (Clean' => Clean) /\ (Gone => Gone')
      /\ events' \in {events, [events EXCEPT ![thread[t].slot] = NoEvent]}
  BY DEF Commit, Works, Fail, Clean, Gone, KeptApart
<1>2. EventsRight' /\ DOMAIN whitelist' = Users
  BY <1>1 DEF KeptApart, EventsRight
<1>3. \A c : ~TakesBack(thread[t], c)
  BY <1>1 DEF TakesBack
<1>4. Separated' => Separated
  BY <1>1 DEF Separated
<1>5. QED BY <1>1, <1>2, <1>3, <1>4, IdleHandles, HandlerKept

LEMMA AddsApart ==
  ASSUME KeptApart, NEW t \in Threads, AddOwn(t) \/ AddOther(t), match' = match
  PROVE  KeptApart'
<1> DEFINE next == IF AddOwn(t) THEN "addOther" ELSE "recheck"
<1>1. thread[t].pc \in {"addOwn", "addOther"}
  BY DEF AddOwn, AddOther, Calls
<1>2. thread[t].keep = {}
  BY <1>1 DEF KeptApart, Handling
<1>3. /\ HandlerUnchanged /\ DOMAIN whitelist' = Users
      /\ \/ Works /\ Goto(t, next)
         \/ Fail /\ Goto(t, "commit")
  BY <1>1 DEF AddOwn, AddOther, Calls, KeptApart
<1>4. next \in {"addOther", "recheck"}
  OBVIOUS
<1> HIDE DEF next
<1>5. CASE Works /\ Goto(t, next)
  BY <1>1, <1>2, <1>3, <1>4, <1>5, Addition
<1>6. CASE Fail /\ Goto(t, "commit")
  BY <1>1, <1>3, <1>6, FailsApart
<1>7. QED BY <1>3, <1>5, <1>6

LEMMA RemovesApart ==
  ASSUME KeptApart, NEW t \in Threads, RemoveOther(t) \/ RemoveOwn(t), match' = match
  PROVE  KeptApart'
<1> DEFINE d == IF RemoveOther(t) THEN Other(thread[t].by) ELSE thread[t].by
           next == IF RemoveOther(t) THEN "removeOwn" ELSE "commit"
<1>1. thread[t].pc \in {"removeOther", "removeOwn"} /\ thread[t].by \in Users
  BY DEF RemoveOther, RemoveOwn, Calls, KeptApart, Handling
<1>2. Other(thread[t].by) \in Users /\ Other(thread[t].by) # thread[t].by
      /\ \A v \in Users : v # thread[t].by => v = Other(thread[t].by)
  BY <1>1, TwoUsers
<1>3. /\ HandlerUnchanged /\ DOMAIN whitelist' = Users
      /\ \/ Works /\ Goto(t, next) /\ whitelist' = [whitelist EXCEPT ![d] = FALSE]
         \/ Fail /\ Goto(t, "commit")
  BY <1>1 DEF RemoveOther, RemoveOwn, Calls, KeptApart
<1>4. next \in {"removeOwn", "commit"} /\ d \in Users
  BY <1>1, <1>2
<1>5. Covers(thread[t], d, next)
  BY <1>1, <1>2 DEF TakesBack, RemoveOther, RemoveOwn, Calls, Covers
<1> HIDE DEF next, d
<1>6. CASE Works /\ Goto(t, next) /\ whitelist' = [whitelist EXCEPT ![d] = FALSE]
  BY <1>1, <1>3, <1>4, <1>5, <1>6, Removal
<1>7. CASE Fail /\ Goto(t, "commit")
  BY <1>1, <1>3, <1>7, FailsApart
<1>8. QED BY <1>3, <1>6, <1>7

LEMMA HandleApart ==
  ASSUME KeptApart, NEW t \in Threads, Handle(t), match' = match
  PROVE  KeptApart'
<1> DEFINE by == thread[t].by
<1>1. thread[t].pc # "idle" /\ by \in Users
  BY DEF Handle, Check, AddOwn, AddOther, Recheck, KeepOwn, KeepOther, DropOwn,
         DropOther, RemoveOther, RemoveOwn, Commit, Reads, Calls, Keeps, Drops,
         KeptApart, Handling
<1>2. Other(by) \in Users /\ Other(by) # by /\ \A v \in Users : v # by => v = Other(by)
  BY <1>1, TwoUsers
<1>3. thread[t].pc \in {"check", "addOwn", "addOther", "recheck", "keepOwn"} =>
        thread[t].keep = {}
  BY <1>1 DEF KeptApart, Handling
<1>4. CASE Check(t)
  <2>1. thread[t].pc = "check" /\ \A c : ~TakesBack(thread[t], c)
    BY <1>4 DEF Check, Reads, TakesBack
  <2>2. PICK next \in {"addOwn", "commit"} : Reads(t, "check", next)
    BY <1>4 DEF Check
  <2>3. QED BY <1>3, <2>1, <2>2, ReadsApart
<1>5. CASE Recheck(t)
  <2>1. thread[t].pc = "recheck"
    BY <1>5 DEF Recheck, Reads
  <2> DEFINE next == IF Mutual THEN "commit" ELSE "keepOwn"
  <2>2. Reads(t, "recheck", next)
    BY <1>5 DEF Recheck
  <2>3. ASSUME NEW c \in Users, Separated, TakesBack(thread[t], c), NEW h,
               h.pc = next, h.by = by, h.keep = thread[t].keep
        PROVE  TakesBack(h, c)
    <3>1. ~Mutual
      BY <2>3 DEF Separated, Mutual
    <3>2. QED BY <1>3, <2>1, <2>3, <3>1 DEF TakesBack
  <2> HIDE DEF next
  <2>4. QED BY <1>3, <2>1, <2>2, <2>3, ReadsApart
<1>6. CASE AddOwn(t) \/ AddOther(t)
  BY <1>6, AddsApart
<1>7. CASE RemoveOther(t) \/ RemoveOwn(t)
  BY <1>7, RemovesApart
<1>8. CASE KeepOwn(t) \/ KeepOther(t)
  BY <1>1, <1>2, <1>8, KeepsApart DEF KeepOwn, KeepOther
<1>9. CASE DropOwn(t) \/ DropOther(t)
  BY <1>9, DropsApart
<1>10. CASE Commit(t)
  BY <1>10, CommitApart
<1>11. QED
  BY <1>4, <1>5, <1>6, <1>7, <1>8, <1>9, <1>10 DEF Handle

\* A thread that was idle starts a handler.
LEMMA StartsApart ==
  ASSUME KeptApart, NEW t \in Threads, thread[t] = Idle, NEW h,
         thread' = [thread EXCEPT ![t] = h],
         DOMAIN h = {"pc", "slot", "by", "keep"}, h.by \in Users, h.keep = {},
         EventsRight', whitelist' = whitelist, failures' \in Nat, Clean' => Clean,
         match' = match, Separated' => Separated \/ h.pc = "removeOther"
  PROVE  KeptApart'
<1>1. Handling(h) /\ DOMAIN whitelist' = Users /\ (Gone => Gone')
  BY DEF Handling, KeptApart, Gone
<1>2. ASSUME NEW c \in Users, Clean', ~Gone', Separated', whitelist'[c]
      PROVE  TakesBack(h, c) \/ (Separated /\ whitelist[c] /\ ~TakesBack(thread[t], c))
  <2>1. CASE h.pc = "removeOther"
    BY <2>1 DEF TakesBack
  <2>2. CASE Separated
    BY <1>2, <2>2, IdleHandles
  <2>3. QED BY <1>2, <2>1, <2>2
<1>3. QED BY <1>1, <1>2, HandlerKept

\* An event is written, but its thread is not to handle it.
LEMMA LeftApart ==
  ASSUME KeptApart, thread' = thread, EventsRight', whitelist' = whitelist,
         failures' \in Nat, ~Clean'
  PROVE  KeptApart'
BY DEF KeptApart

LEMMA EventWritten ==
  ASSUME KeptApart, NEW e \in Slots, NEW kind, NEW u \in Users,
         events' = [events EXCEPT ![e] = [kind |-> kind, by |-> u]]
  PROVE  EventsRight'
BY DEF KeptApart, EventsRight

LEMMA PublishApart ==
  ASSUME KeptApart, NEW t \in Threads, NEW kind, NEW u \in Users,
         Publish(t, kind, u), match' = match, Separated' => Separated \/ kind # "sure"
  PROVE  KeptApart'
<1>1. PICK e \in Slots :
        /\ events' = [events EXCEPT ![e] = [kind |-> kind, by |-> u]]
        /\ \/ /\ Works
              /\ thread' = [thread EXCEPT ![t] =
                   [pc |-> IF kind = "sure" THEN "check" ELSE "removeOther",
                    slot |-> e, by |-> u, keep |-> {}]]
           \/ Fail /\ UNCHANGED thread
  BY DEF Publish
<1>2. EventsRight' /\ whitelist' = whitelist /\ thread[t] = Idle
  BY <1>1, EventWritten DEF Publish
<1>3. CASE Fail /\ UNCHANGED thread
  <2>1. failures' \in Nat /\ ~Clean'
    BY <1>3 DEF Fail, Clean, KeptApart
  <2>2. QED BY <1>2, <1>3, <2>1, LeftApart
<1>4. ASSUME Works, NEW h,
             h = [pc |-> IF kind = "sure" THEN "check" ELSE "removeOther",
                  slot |-> e, by |-> u, keep |-> {}],
             thread' = [thread EXCEPT ![t] = h]
      PROVE  KeptApart'
  <2>1. /\ DOMAIN h = {"pc", "slot", "by", "keep"} /\ h.by \in Users /\ h.keep = {}
        /\ kind # "sure" => h.pc = "removeOther"
    BY <1>4
  <2>2. failures' \in Nat /\ (Clean' => Clean)
    BY <1>4 DEF Works, Clean, KeptApart
  <2>3. QED BY <1>2, <1>4, <2>1, <2>2, StartsApart
<1>5. QED BY <1>1, <1>3, <1>4

LEMMA TimerApart ==
  ASSUME KeptApart, NEW t \in Threads, NEW e \in Slots, Timer(t, e), match' = match
  PROVE  KeptApart'
<1> DEFINE h == [pc |-> IF events[e].kind = "sure" THEN "check" ELSE "removeOther",
                 slot |-> e, by |-> events[e].by, keep |-> {}]
<1>1. DOMAIN h = {"pc", "slot", "by", "keep"} /\ h.by \in Users /\ h.keep = {}
  BY DEF Timer, KeptApart, EventsRight
<1>2. /\ thread[t] = Idle /\ thread' = [thread EXCEPT ![t] = h]
      /\ whitelist' = whitelist /\ events' = events /\ failures' = failures
      /\ friend' = friend
  BY DEF Timer
<1> HIDE DEF h
<1>3. EventsRight' /\ failures' \in Nat /\ (Clean' => Clean) /\ (Separated' => Separated)
  BY <1>2 DEF KeptApart, EventsRight, Clean, Separated
<1>4. QED BY <1>1, <1>2, <1>3, StartsApart

\* Rows that were just made are not deleted.
LEMMA NotSeparated ==
  ASSUME RowsType, NEW u \in Users, friend' = SureRows \/ friend' = EnsureRows
  PROVE  ~Separated'
<1>1. friend'[u].state = "mutual"
  BY DEF SureRows, EnsureRows, RowsType, Friend
<1>2. QED BY <1>1 DEF Separated

LEMMA FriendStepApart ==
  ASSUME KeptApart, RowsType, NEW t \in Threads, FriendStep(t)
  PROVE  KeptApart'
<1>1. match' = match
  BY DEF FriendStep, dvars
<1>2. ASSUME NEW u \in Users, Sure(t, u) PROVE KeptApart'
  <2>1. Publish(t, "sure", u) /\ ~Separated'
    BY <1>2, NotSeparated DEF Sure
  <2>2. QED BY <1>1, <2>1, PublishApart
<1>3. ASSUME NEW u \in Users, Delete(t, u) PROVE KeptApart'
  <2>1. Publish(t, "delete", u)
    BY <1>3 DEF Delete
  <2>2. QED BY <1>1, <2>1, PublishApart
<1>4. QED
  BY <1>1, <1>2, <1>3, HandleApart, TimerApart DEF FriendStep
\* A step that handles nothing, puts nobody on a whitelist, and removes friends
\* only behind a match that is gone.
Aside ==
  /\ events' = events /\ thread' = thread
  /\ failures' = failures \/ failures' = failures + 1
  /\ \/ whitelist' = whitelist
     \/ \E c : whitelist' = [whitelist EXCEPT ![c] = FALSE]
  /\ friend' = friend \/ Gone

LEMMA AsideApart ==
  ASSUME KeptApart, Aside, Gone => Gone'
  PROVE  KeptApart'
<1>1. /\ failures' \in Nat /\ (Clean' => Clean)
      /\ EventsRight' /\ DOMAIN whitelist' = Users /\ thread' = thread
      /\ ~Gone' /\ Separated' => Separated
  BY DEF KeptApart, Aside, Clean, EventsRight, Separated
<1>2. \A c \in Users : whitelist'[c] => whitelist[c]
  BY DEF KeptApart, Aside
<1>3. QED BY <1>1, <1>2, NoHandler

LEMMA WritesAside ==
  ASSUME NEW t, NEW m, NEW l, NEW b, NEW next, Writes(t, m, l, b, next)
  PROVE  Aside
BY DEF Writes, FriendSame, Works, Fail, Aside

LEMMA CutAside ==
  ASSUME NEW t, NEW read, NEW cut, NEW c, NEW next,
         CutChannel(t, read, cut, c, next)
  PROVE  Aside
BY DEF CutChannel, Works, Fail, Aside

LEMMA RemovesAside ==
  ASSUME Locked, NEW t \in Threads, Unmake(t) \/ Cut(t)
  PROVE  Aside
<1>1. Gone
  BY DEF Unmake, Cut, At, Locked, Knows, Gone
<1>2. QED BY <1>1 DEF Unmake, Cut, Removes, Works, Fail, Aside

LEMMA EnsureApart ==
  ASSUME KeptApart, RowsType, Locked, NEW t \in Threads, Ensure(t)
  PROVE  KeptApart'
<1>1. By(t) \in Users /\ match' = match /\ (Gone => Gone')
  BY DEF Ensure, At, Locked, Knows, By, Gone
<1>2. CASE Publish(t, "sure", By(t)) /\ friend' = EnsureRows
  <2>1. ~Separated'
    BY <1>1, <1>2, NotSeparated
  <2>2. QED BY <1>1, <1>2, <2>1, PublishApart
<1>3. CASE Fail /\ UNCHANGED <<friend, events, whitelist, thread>>
  <2>1. Aside
    BY <1>3 DEF Fail, Aside
  <2>2. QED BY <1>1, <2>1, AsideApart
<1>4. CASE Unread("sure", By(t))
  <2>1. EventsRight'
    BY <1>1, <1>4, EventWritten DEF Unread
  <2>2. thread' = thread /\ whitelist' = whitelist /\ failures' \in Nat /\ ~Clean'
    BY <1>4 DEF Unread, Fail, Clean, KeptApart
  <2>3. QED BY <2>1, <2>2, LeftApart
<1>5. QED BY <1>2, <1>3, <1>4 DEF Ensure

LEMMA CallApart ==
  ASSUME KeptApart, RowsType, Locked, Onward, NEW t \in Threads, CallStep(t)
  PROVE  KeptApart'
<1>1. Aside => KeptApart'
  BY AsideApart DEF Onward
<1>2. CASE LockUser(t) \/ LockPair(t)
  BY <1>1, <1>2 DEF LockUser, LockPair, Lock, fvars, Aside
<1>3. CASE Look(t) \/ Refuse(t) \/ Record(t) \/ LikedBack(t) \/ Create(t)
  BY <1>1, <1>3, WritesAside DEF Look, Refuse, Record, LikedBack, Create, Goes
<1>4. CASE Sync(t)
  BY <1>1, <1>4, WritesAside DEF Sync, Goes
<1>5. CASE Mark(t)
  BY <1>1, <1>5, WritesAside DEF Mark, Goes
<1>6. CASE UndoLook(t) \/ Undo(t)
  BY <1>1, <1>6, WritesAside DEF UndoLook, Undo, Goes
<1>7. CASE Cancel(t) \/ Block(t)
  BY <1>1, <1>7, WritesAside DEF Cancel, Block
<1>8. CASE Unmake(t) \/ Cut(t)
  BY <1>1, <1>8, RemovesAside
<1>9. CASE CutOwn(t) \/ CutOther(t)
  BY <1>1, <1>9, CutAside DEF CutOwn, CutOther
<1>10. CASE Ensure(t)
  BY <1>10, EnsureApart
<1>11. QED
  BY <1>2, <1>3, <1>4, <1>5, <1>6, <1>7, <1>8, <1>9, <1>10 DEF CallStep

LEMMA NextApart ==
  ASSUME KeptApart, RowsType, Locked, MatchType, [DatingNext]_allVars
  PROVE  KeptApart'
<1>1. Onward
  BY NextLocked
<1>2. CASE Crash
  <2>1. /\ failures' \in Nat /\ ~Clean' /\ events' = events /\ whitelist' = whitelist
        /\ thread' = [t \in Threads |-> Idle]
    BY <1>2 DEF Crash, FriendCrash, Fail, Clean, KeptApart
  <2>2. EventsRight'
    BY <2>1 DEF KeptApart, EventsRight
  <2>3. QED BY <2>1, <2>2, IdleHandles DEF KeptApart
<1>3. ASSUME UNCHANGED fvars PROVE KeptApart'
  <2>1. Aside
    BY <1>3 DEF fvars, Aside
  <2>2. QED BY <1>1, <2>1, AsideApart DEF Onward
<1>4. ASSUME NEW t \in Threads, NEW u \in Users, NEW op \in Op, Begin(t, u, op)
      PROVE  KeptApart'
  BY <1>3, <1>4 DEF Begin
<1>5. UNCHANGED allVars => UNCHANGED fvars
  BY DEF allVars
<1>6. QED
  BY <1>1, <1>2, <1>3, <1>4, <1>5, CallApart, FriendStepApart DEF DatingNext

LEMMA InitApart == DatingInit => KeptApart
BY IdleHandles DEF DatingInit, FriendInit, KeptApart, EventsRight

\* When nothing has failed and nothing is under way, two users who have both
\* deleted each other are not on each other's whitelists, unless a match of
\* theirs was cancelled or blocked: the confirmation that put them there looks
\* at the friendship again (event_friend.go:35), and each deletion takes both
\* off (handleDeleteFriend), in whatever order the threads come.
THEOREM DeletedStayApart == DatingSpec => []DeletedKeptApart
<1> DEFINE I == ConfirmedRows /\ MatchType /\ Locked /\ KeptApart
<1>1. DatingInit => I
  <2>1. DatingInit => MatchType
    BY DEF DatingInit, MatchType, Match, MatchStatus
  <2>2. QED BY <2>1, ConfirmedInit, InitLocked, InitApart
<1>2. I /\ [DatingNext]_allVars => I'
  <2>1. SUFFICES ASSUME I, [DatingNext]_allVars PROVE I'
    OBVIOUS
  <2>2. ConfirmedRows'
    BY <2>1, NextUpdates, ConfirmedUpdate
  <2>3. MatchType'
    BY <2>1, NextMatch
  <2>4. Locked'
    BY <2>1, NextLocked
  <2>5. KeptApart'
    BY <2>1, NextApart DEF ConfirmedRows
  <2>6. QED BY <2>2, <2>3, <2>4, <2>5
<1>3. I => DeletedKeptApart
  <2>1. SUFFICES ASSUME KeptApart, Settled, Clean, ~Gone, Separated,
                        NEW c \in Users, whitelist[c]
                 PROVE  FALSE
    BY DEF DeletedKeptApart, SeparatedKeptApart, Quiet, Gone, Separated
  <2>2. PICK t \in Threads : TakesBack(thread[t], c)
    BY <2>1 DEF KeptApart
  <2>3. QED BY <2>1, <2>2, IdleHandles DEF Settled
<1> HIDE DEF I
<1>4. QED BY <1>1, <1>2, <1>3, PTL DEF DatingSpec, allVars

-----------------------------------------------------------------------------
\* The mutexes.

\* The key of the mutex that a request waits for, and those who stand in its way.
Waiting(c) == c.op # "none" /\ c.pc \in {"lockUser", "lockPair"}
Wanted(c) == IF c.pc = "lockUser" THEN c.by ELSE PairKey
WaitsFor(s, t) ==
  Waiting(call[s]) /\ \E k \in call[t].holds : Shard[k] = Shard[Wanted(call[s])]

\* Nobody waits for one who waits for one who waits.
NoCircle ==
  \A r, s, t \in Threads : WaitsFor(r, s) /\ WaitsFor(s, t) => ~Waiting(call[t])

\* The mutex of the user is taken first, and that of the pair last.
InOrder(c) ==
  c.op # "none" => /\ c.pc = "lockUser" => c.holds = {}
                   /\ c.pc = "lockPair" => c.holds \subseteq Users

Asked(c) == c.op # "none" => c.op \in Op /\ c.by \in Users

LocksInOrder ==
  /\ DOMAIN call = Threads
  /\ \A t \in Threads : Shape(call[t]) /\ Asked(call[t]) /\ InOrder(call[t])

\* The thread t goes on as c.
LEMMA OrderKept ==
  ASSUME LocksInOrder, NEW t \in Threads, NEW c, call' = [call EXCEPT ![t] = c],
         Shape(c), Asked(c), InOrder(c)
  PROVE  LocksInOrder'
BY DEF LocksInOrder

LEMMA OrderOnwards ==
  ASSUME LocksInOrder, NEW t \in Threads, call[t].op # "none",
         NEW next \in CallPc \ {"lockUser", "lockPair"}, Return(t) \/ Proceed(t, next)
  PROVE  LocksInOrder'
<1>1. CASE Return(t)
  <2>1. Shape(NoCall) /\ Asked(NoCall) /\ InOrder(NoCall)
    BY DEF NoCall, Shape, Asked, InOrder
  <2>2. QED BY <1>1, <2>1, OrderKept DEF Return
<1>2. CASE Proceed(t, next)
  <2> DEFINE c == [call[t] EXCEPT !.pc = next]
  <2>1. DOMAIN call[t] = CallFields /\ Asked(call[t])
    BY DEF LocksInOrder, Shape
  <2>2. /\ call' = [call EXCEPT ![t] = c]
        /\ DOMAIN c = CallFields /\ c.pc = next
        /\ c.by = call[t].by /\ c.op = call[t].op
    BY <1>2, <2>1 DEF Proceed, CallFields
  <2> HIDE DEF c
  <2>3. Shape(c) /\ Asked(c) /\ InOrder(c)
    BY <2>1, <2>2 DEF Shape, Asked, InOrder
  <2>4. QED BY <2>2, <2>3, OrderKept
<1>3. QED BY <1>1, <1>2

LEMMA LockOrder ==
  ASSUME LocksInOrder, NEW t \in Threads, LockUser(t) \/ LockPair(t)
  PROVE  LocksInOrder'
<1>1. /\ call[t].op # "none" /\ DOMAIN call[t] = CallFields /\ call[t].by \in Users
      /\ call[t].op \in Op /\ InOrder(call[t])
  BY DEF Asked, LockUser, LockPair, At, LocksInOrder, Shape
<1>2. ASSUME NEW key, NEW next, Lock(t, key, next),
             next # "lockUser", next = "lockPair" => call[t].holds \cup {key} \subseteq Users
      PROVE  LocksInOrder'
  <2> DEFINE d == [call[t] EXCEPT !.holds = @ \cup {key}]
             c == [d EXCEPT !.pc = next]
  <2>1. call' = [call EXCEPT ![t] = c]
    BY <1>1, <1>2 DEF Lock, CallFields
  <2>2. /\ DOMAIN d = CallFields /\ d.op = call[t].op /\ d.by = call[t].by
        /\ d.holds = call[t].holds \cup {key}
    BY <1>1 DEF CallFields
  <2> HIDE DEF d
  <2>3. /\ DOMAIN c = CallFields /\ c.op = call[t].op /\ c.by = call[t].by
        /\ c.holds = call[t].holds \cup {key} /\ c.pc = next
    BY <2>2 DEF CallFields
  <2> HIDE DEF c
  <2>4. Shape(c) /\ Asked(c) /\ InOrder(c)
    BY <1>1, <1>2, <2>3 DEF Shape, Asked, InOrder
  <2>5. QED BY <2>1, <2>4, OrderKept
<1>3. CASE LockUser(t)
  <2>1. call[t].holds = {} /\ By(t) \in Users
    BY <1>1, <1>3 DEF LockUser, At, InOrder, By
  <2>2. QED BY <1>2, <1>3, <2>1 DEF LockUser
<1>4. CASE LockPair(t)
  <2>1. PICK next \in {"look"} \cup Op : Lock(t, PairKey, next)
    BY <1>1, <1>4 DEF LockPair
  <2>2. QED BY <1>2, <2>1 DEF Op
<1>5. QED BY <1>3, <1>4

LEMMA CallInOrder ==
  ASSUME LocksInOrder, NEW t \in Threads, CallStep(t)
  PROVE  LocksInOrder'
<1>1. CASE LockUser(t) \/ LockPair(t)
  BY <1>1, LockOrder
<1>2. CASE Look(t) \/ Refuse(t) \/ Record(t) \/ LikedBack(t) \/ Create(t) \/ Sync(t)
           \/ UndoLook(t) \/ Undo(t)
  <2>1. /\ call[t].op # "none"
        /\ \E next \in {"record", "sync", "likedBack", "create", "ensure", "undo"} :
             Return(t) \/ Proceed(t, next)
    BY <1>2 DEF Look, Refuse, Record, LikedBack, Create, Sync, UndoLook, Undo, Goes, Writes, At
  <2>2. QED BY <2>1, OrderOnwards DEF CallPc
<1>3. CASE Mark(t) \/ Unmake(t) \/ Cancel(t) \/ Block(t) \/ Cut(t)
  <2>1. /\ call[t].op # "none"
        /\ \E next \in {"unmake", "cut", "readOwn"} : Return(t) \/ Proceed(t, next)
    BY <1>3 DEF Mark, Unmake, Cancel, Block, Cut, Removes, Goes, Writes, At
  <2>2. QED BY <2>1, OrderOnwards DEF CallPc
<1>4. CASE CutOwn(t) \/ CutOther(t)
  <2>1. /\ call[t].op # "none"
        /\ \E next \in {"readOther", "cutOwn", "cutOther"} : Return(t) \/ Proceed(t, next)
    BY <1>4 DEF CutOwn, CutOther, CutChannel, At
  <2>2. QED BY <2>1, OrderOnwards DEF CallPc
<1>5. CASE Ensure(t)
  <2>1. call[t].op # "none" /\ DOMAIN call[t] = CallFields /\ Asked(call[t])
    BY <1>5 DEF Ensure, At, LocksInOrder, Shape
  <2>2. CASE Return(t)
    BY <2>1, <2>2, OrderOnwards DEF CallPc
  <2>3. ASSUME NEW managed, call' = [call EXCEPT ![t].pc = "mark", ![t].managed = managed]
        PROVE  LocksInOrder'
    <3> DEFINE d == [call[t] EXCEPT !.pc = "mark"]
               c == [d EXCEPT !.managed = managed]
    <3>1. call' = [call EXCEPT ![t] = c]
      BY <2>1, <2>3 DEF CallFields
    <3>2. /\ DOMAIN d = CallFields /\ d.op = call[t].op /\ d.by = call[t].by
          /\ d.pc = "mark"
      BY <2>1 DEF CallFields
    <3> HIDE DEF d
    <3>3. /\ DOMAIN c = CallFields /\ c.op = call[t].op /\ c.by = call[t].by
          /\ c.pc = "mark"
      BY <3>2 DEF CallFields
    <3> HIDE DEF c
    <3>4. Shape(c) /\ Asked(c) /\ InOrder(c)
      BY <2>1, <3>3 DEF Shape, Asked, InOrder
    <3>5. QED BY <3>1, <3>4, OrderKept
  <2>4. QED BY <1>5, <2>2, <2>3 DEF Ensure
<1>6. QED BY <1>1, <1>2, <1>3, <1>4, <1>5 DEF CallStep

LEMMA NextInOrder ==
  ASSUME LocksInOrder, [DatingNext]_allVars
  PROVE  LocksInOrder'
<1>1. ASSUME NEW t \in Threads, NEW u \in Users, NEW op \in Op, Begin(t, u, op)
      PROVE  LocksInOrder'
  <2> DEFINE c == [op |-> op, pc |-> First(op), by |-> u, managed |-> FALSE,
                   holds |-> {}]
  <2>1. Shape(c) /\ Asked(c) /\ InOrder(c)
    BY DEF Shape, CallFields, Asked, InOrder
  <2>2. call' = [call EXCEPT ![t] = c]
    BY <1>1 DEF Begin
  <2> HIDE DEF c
  <2>3. QED BY <2>1, <2>2, OrderKept
<1>2. CASE Crash
  <2>1. call' = [t \in Threads |-> NoCall]
    BY <1>2 DEF Crash
  <2>2. QED BY <2>1 DEF LocksInOrder, NoCall, Shape, Asked, InOrder
<1>3. ASSUME UNCHANGED call PROVE LocksInOrder'
  BY <1>3 DEF LocksInOrder
<1>4. ASSUME NEW t \in Threads, FriendStep(t) PROVE UNCHANGED call
  BY <1>4 DEF FriendStep, dvars
<1>5. UNCHANGED allVars => UNCHANGED call
  BY DEF allVars, dvars
<1>6. QED BY <1>1, <1>2, <1>3, <1>4, <1>5, CallInOrder DEF DatingNext

\* Service.lock hashes keys of users and of pairs to the same mutexes, and
\* Swipe takes that of the user and then that of the pair
\* (dating/service.go:661).  As long as the pair's key falls on a mutex of
\* which no user's key makes use, nobody who has the pair's mutex waits, so
\* that no circle of requests waits for itself, nor one for its own mutex.
THEOREM OneMutexBeforeTheOther ==
  ASSUME \A u \in Users : Shard[u] # Shard[PairKey]
  PROVE  DatingSpec => []NoCircle
<1>1. DatingInit => LocksInOrder
  BY DEF DatingInit, LocksInOrder, NoCall, Shape, Asked, InOrder
<1>2. LocksInOrder /\ [DatingNext]_allVars => LocksInOrder'
  BY NextInOrder
<1>3. LocksInOrder => NoCircle
  <2>1. SUFFICES ASSUME LocksInOrder, NEW r \in Threads, NEW s \in Threads, NEW t \in Threads,
                        WaitsFor(r, s), WaitsFor(s, t), Waiting(call[t])
                 PROVE  FALSE
    BY DEF NoCircle
  <2>2. ASSUME NEW p \in Threads, NEW q \in Threads, WaitsFor(p, q), Waiting(call[q])
        PROVE  call[q].pc = "lockPair" /\ call[p].pc = "lockUser"
    <3>1. call[q].pc = "lockPair" /\ call[q].holds \subseteq Users
      BY <2>1, <2>2 DEF WaitsFor, Waiting, LocksInOrder, InOrder
    <3>2. QED BY <2>2, <3>1 DEF WaitsFor, Waiting, Wanted
  <2>3. Waiting(call[s])
    BY <2>1 DEF WaitsFor
  <2>4. QED BY <2>1, <2>2, <2>3
<1>4. QED BY <1>1, <1>2, <1>3, PTL DEF DatingSpec, allVars
=============================================================================
