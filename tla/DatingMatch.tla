---------------------------- MODULE DatingMatch ----------------------------
(***************************************************************************)
(* Likes, matches and blocks of two users (modules/dating) with the        *)
(* friendship that a match makes and a cancelled match takes back          *)
(* (Friendship).                                                           *)
(*                                                                         *)
(* The requests of one server process run in Threads.  They serialise on   *)
(* mutexes that are found by hashing a key: a thread that waits holds what *)
(* it has.  Reading the list of matches and the chat check repair the      *)
(* friendship of a match without a lock.  The notices of a match, the      *)
(* quotas and the filters of profiles are not modelled; they may refuse.   *)
(***************************************************************************)
EXTENDS Friendship

CONSTANTS
  PairKey,      \* the lock key "pair:<a>:<b>"; u is the key "swipe:<u>"
  Shard         \* the mutex that a key falls on

ASSUME PairKeyAssumption == PairKey \notin Users
ASSUME ShardAssumption == DOMAIN Shard = Users \cup {PairKey}

VARIABLES
  match,        \* the row of dating_matches: status and friend_synced
  liked,        \* the users whose swipe of the other is a like
  blocked,      \* dating_blocks or a blacklist holds the pair
  call          \* the request that each thread runs

dvars == <<match, liked, blocked, call>>

MatchStatus == {"none", "active", "canceled", "blocked"}
Match == [status : MatchStatus, synced : BOOLEAN]

Op == {"like", "pass", "undo", "sync", "cancel", "block"}
CallPc == {"lockUser", "lockPair", "look", "record", "likedBack", "create",
           "sync", "ensure", "mark", "unmake", "undoLook", "undo", "cancel",
           "block", "cut", "readOwn", "cutOwn", "readOther", "cutOther"}

NoCall == [op |-> "none", holds |-> {}]
Call == {NoCall} \cup [op : Op, pc : CallPc, by : Users, managed : BOOLEAN,
                       holds : SUBSET (Users \cup {PairKey})]

DatingTypeOK ==
  /\ FriendTypeOK
  /\ match \in Match
  /\ liked \subseteq Users
  /\ blocked \in BOOLEAN
  /\ call \in [Threads -> Call]

DatingInit ==
  /\ FriendInit
  /\ match = [status |-> "none", synced |-> FALSE]
  /\ liked = {}
  /\ blocked = FALSE
  /\ call = [t \in Threads |-> NoCall]

-----------------------------------------------------------------------------
At(t, pc) == call[t].op # "none" /\ call[t].pc = pc /\ thread[t] = Idle

By(t) == call[t].by

\* The thread leaves its request and unlocks.
Return(t) == call' = [call EXCEPT ![t] = NoCall]
Proceed(t, pc) == call' = [call EXCEPT ![t].pc = pc]

\* A request starts; what it reads before its lock only may refuse it.
First(op) ==
  CASE op \in {"like", "pass", "undo"} -> "lockUser"
    [] op = "sync" -> "sync"
    [] OTHER -> "lockPair"

\* Swipe, UndoSwipe, CancelMatch and Block; sync is Matches or ChatCheck.  A
\* request that changes nothing as things are is no step, nor is an undo of a
\* like behind a match that is gone.
Begin(t, u, op) ==
  LET unsynced == match.status = "active" /\ ~match.synced
  IN
  /\ call[t] = NoCall /\ thread[t] = Idle
  /\ op = "like" => ~blocked /\ (match.status = "none" \/ unsynced)
  /\ op = "pass" => ~blocked /\ match.status = "none"
  /\ op = "undo" => u \in liked /\ match.status = "none"
  /\ op = "sync" => unsynced
  /\ op = "cancel" => match.status # "none"
  /\ call' = [call EXCEPT ![t] =
       [op |-> op, pc |-> First(op), by |-> u, managed |-> FALSE, holds |-> {}]]
  /\ UNCHANGED <<fvars, match, liked, blocked>>

\* Service.lock
Free(key) == \A t \in Threads : \A k \in call[t].holds : Shard[k] # Shard[key]

Lock(t, key, next) ==
  /\ Free(key)
  /\ call' = [call EXCEPT ![t].holds = @ \cup {key}, ![t].pc = next]
  /\ UNCHANGED <<fvars, match, liked, blocked>>

LockUser(t) ==
  /\ At(t, "lockUser")
  /\ Lock(t, By(t), IF call[t].op = "undo" THEN "undoLook" ELSE "lockPair")

LockPair(t) ==
  /\ At(t, "lockPair")
  /\ Lock(t, PairKey, IF call[t].op \in {"like", "pass"} THEN "look"
                      ELSE call[t].op)

FriendSame == UNCHANGED <<friend, events, whitelist, thread, confirmed>>

\* A statement that writes to the tables of the dating module: done and on to
\* the next step (or back, for "return"), or failed with or without its effect.
Writes(t, m, l, b, next) ==
  /\ \/ /\ Works
        /\ match' = m /\ liked' = l /\ blocked' = b
        /\ IF next = "return" THEN Return(t) ELSE Proceed(t, next)
     \/ /\ Fail
        /\ \/ match' = m /\ liked' = l /\ blocked' = b
           \/ UNCHANGED <<match, liked, blocked>>
        /\ Return(t)
  /\ FriendSame

Goes(t, next) == Writes(t, match, liked, blocked, next)

-----------------------------------------------------------------------------
\* Swipe

\* A refusal for other reasons (profiles, filters, quotas) is no step.
Look(t) ==
  /\ At(t, "look")
  /\ Goes(t, IF blocked THEN "return"
             ELSE IF match.status = "none" THEN "record"
             ELSE IF match.status = "active" /\ call[t].op = "like" THEN "sync"
             ELSE "return")

Refuse(t) ==
  /\ At(t, "look")
  /\ Goes(t, "return")

\* db.recordSwipe
Record(t) ==
  /\ At(t, "record")
  /\ IF call[t].op = "like"
     THEN Writes(t, match, liked \cup {By(t)}, blocked, "likedBack")
     ELSE Writes(t, match, liked \ {By(t)}, blocked, "return")

\* db.hasLiked
LikedBack(t) ==
  /\ At(t, "likedBack")
  /\ Goes(t, IF Other(By(t)) \in liked THEN "create" ELSE "return")

\* db.createMatch inserts the match or revives a cancelled one.
Create(t) ==
  /\ At(t, "create")
  /\ Writes(t, IF match.status \in {"none", "canceled"}
               THEN [status |-> "active", synced |-> FALSE] ELSE match,
            liked, blocked, IF match.status = "blocked" THEN "return" ELSE "sync")

-----------------------------------------------------------------------------
\* syncActiveMatchFriend

\* The match is read again.
Sync(t) ==
  /\ At(t, "sync")
  /\ Goes(t, IF match.status = "active" /\ ~match.synced THEN "ensure"
             ELSE "return")

\* EnsureMutualFriends: the rows and the event; then the thread handles it.
Ensure(t) ==
  /\ At(t, "ensure")
  /\ \/ /\ Publish(t, "sure", By(t))
        /\ friend' = EnsureRows
        /\ call' = [call EXCEPT ![t].pc = "mark",
                               ![t].managed = \E u \in Users : Managed(friend', u)]
     \/ /\ Fail /\ Return(t)
        /\ UNCHANGED <<friend, events, whitelist, thread>>
     \/ /\ Unread("sure", By(t))
        /\ friend' = EnsureRows
        /\ Return(t)
  /\ UNCHANGED <<confirmed, match, liked, blocked>>

\* Fault: what markMatchFriendSynced answers is not looked at.
MarkUnchecked(t) ==
  /\ At(t, "mark")
  /\ Writes(t, [match EXCEPT !.synced = @ \/ match.status = "active"],
            liked, blocked, "return")

\* db.markMatchFriendSynced; a match that is gone gets its friends removed.
Mark(t) ==
  /\ At(t, "mark")
  /\ IF match.status = "active"
     THEN Writes(t, [match EXCEPT !.synced = TRUE], liked, blocked, "return")
     ELSE Goes(t, IF call[t].managed THEN "unmake" ELSE "return")

\* RemoveMutualFriendsIfSource; an error comes with or without its effect.
Removes(t, next) ==
  /\ \/ /\ Works /\ friend' = RemoveRows
        /\ IF next = "return" THEN Return(t) ELSE Proceed(t, next)
     \/ Fail /\ friend' \in {friend, RemoveRows} /\ Return(t)
  /\ UNCHANGED <<events, whitelist, thread, confirmed, match, liked, blocked>>

Unmake(t) == At(t, "unmake") /\ Removes(t, "return")

-----------------------------------------------------------------------------
\* UndoSwipe, of the like of this pair.

UndoLook(t) ==
  /\ At(t, "undoLook")
  /\ Goes(t, IF By(t) \in liked /\ match.status # "active" THEN "undo"
             ELSE "return")

Undo(t) ==
  /\ At(t, "undo")
  /\ Writes(t, match, liked \ {By(t)}, blocked, "return")

-----------------------------------------------------------------------------
\* CancelMatch and Block

\* db.cancelMatch
Cancel(t) ==
  /\ At(t, "cancel")
  /\ Writes(t, [match EXCEPT !.status = IF @ = "blocked" THEN @ ELSE "canceled"],
            liked, blocked, "cut")

\* db.block, and SetBlacklist, whose error is kept for the end.
Block(t) ==
  /\ At(t, "block")
  /\ IF match.status = "none"
     THEN Writes(t, match, liked, TRUE, "readOwn")
     ELSE Writes(t, [match EXCEPT !.status = "blocked"], liked, TRUE, "cut")

Cut(t) == At(t, "cut") /\ Removes(t, "readOwn")

\* removeDatingWhitelistIfUnused, for the channel of each user: an error ends
\* CancelMatch, Block goes on.
CutChannel(t, read, cut, c, next) ==
  LET Onwards == IF next = "return" THEN Return(t) ELSE Proceed(t, next)
      OnError == IF call[t].op = "block" THEN Onwards ELSE Return(t)
  IN
  /\ \/ /\ At(t, read)
        /\ \/ Works /\ (IF HasRow(c) THEN Onwards ELSE Proceed(t, cut))
           \/ Fail /\ OnError
        /\ UNCHANGED whitelist
     \/ /\ At(t, cut)
        /\ \/ Works /\ whitelist' = [whitelist EXCEPT ![c] = FALSE] /\ Onwards
           \/ /\ Fail /\ OnError
              /\ whitelist' \in {whitelist, [whitelist EXCEPT ![c] = FALSE]}
  /\ UNCHANGED <<friend, events, thread, confirmed, match, liked, blocked>>

CutOwn(t) == CutChannel(t, "readOwn", "cutOwn", By(t), "readOther")
CutOther(t) == CutChannel(t, "readOther", "cutOther", Other(By(t)), "return")

-----------------------------------------------------------------------------
CallStep(t) ==
  \/ LockUser(t) \/ LockPair(t)
  \/ Look(t) \/ Refuse(t) \/ Record(t) \/ LikedBack(t) \/ Create(t)
  \/ Sync(t) \/ Ensure(t) \/ Mark(t) \/ Unmake(t)
  \/ UndoLook(t) \/ Undo(t)
  \/ Cancel(t) \/ Block(t) \/ Cut(t) \/ CutOwn(t) \/ CutOther(t)

\* The friends modules run in the threads that no dating request uses.
FriendStep(t) ==
  /\ \/ Handle(t)
     \/ /\ call[t] = NoCall
        /\ \/ \E u \in Users : Sure(t, u) \/ Delete(t, u)
           \/ \E e \in Slots : Timer(t, e)
  /\ UNCHANGED dvars

Crash ==
  /\ FriendCrash
  /\ call' = [t \in Threads |-> NoCall]
  /\ UNCHANGED <<match, liked, blocked>>

DatingNext ==
  \/ \E t \in Threads : \/ CallStep(t) \/ FriendStep(t)
                        \/ \E u \in Users, op \in Op : Begin(t, u, op)
  \/ Crash

DatingSpec == DatingInit /\ [][DatingNext]_<<fvars, dvars>>

-----------------------------------------------------------------------------
\* A block is never lowered to a cancelled match, which could be matched again
\* (db.go:964).
BlockedIsFinal ==
  [][match.status = "blocked" => match'.status = "blocked"]_<<fvars, dvars>>

\* A user who confirmed the friendship in the app and did not delete it keeps
\* it, whatever matches come and go (service.go:1018).
OwnFriendsKept == \A u \in confirmed : HasRow(u)

Quiet == Settled /\ \A t \in Threads : call[t] = NoCall

\* When nothing failed, no friendship that a match made outlives the match,
\* although lists of matches that were read before repair it without a lock
\* (service.go:800).
GoneMatchLeavesNoFriends ==
  Quiet /\ Clean /\ match.status \in {"canceled", "blocked"} =>
    \A u \in Users : HasRow(u) => ~Managed(friend, u)

\* SeparatedKeptApart for a pair whose match was not cancelled.
DeletedKeptApart ==
  Quiet /\ match.status \in {"none", "active"} => SeparatedKeptApart
=============================================================================
