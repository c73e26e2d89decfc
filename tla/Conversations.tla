--------------------------- MODULE Conversations ---------------------------
(***************************************************************************)
(* The conversations of one user on several phones, when messages are not  *)
(* kept across devices (modules/message/api_conversation.go): a phone that *)
(* syncs is offered what is newer than its own floor, a version and an     *)
(* offset for each channel.  A phone without a floor takes over the floor  *)
(* of the user, which acknowledgements raise to what the process remembers *)
(* of its answers.                                                         *)
(*                                                                         *)
(* A conversation is offered with its newest message; older ones, users,   *)
(* groups, calls and the extras of messages come along in the code.  The   *)
(* user stays in his groups and clears no channel.                         *)
(***************************************************************************)
EXTENDS Integers

CONSTANTS
  Phones,
  Channels,
  MaxMessages,  \* bound: messages in all channels
  MaxLosses     \* bound: failed requests, lost answers, restarts

ASSUME ConversationsAssumption == {MaxMessages, MaxLosses} \subseteq Nat

VARIABLES
  newest,       \* the last message_seq of a channel at the IM server
  stamp,        \* the version of its conversation there, a time
  clock,        \* the time of the last message
  userVersion,  \* userMaxVersion in Redis
  phoneVersion, \* deviceMaxVersion in Redis
  userOffset,   \* user_last_offset
  phoneOffset,  \* device_offset; no row is a row with 0
  cached,       \* syncConversationResultCacheMap: the highest of each channel
  lastAnswered, \* syncConversationVersionMap
  syncing,      \* what a phone is waiting for
  got,          \* a phone's messages, and its version
  unsure,       \* history: channels of answers that did not arrive
  losses

atServer == <<newest, stamp, clock>>
inRedis == <<userVersion, phoneVersion>>
inTables == <<userOffset, phoneOffset>>
inMemory == <<cached, lastAnswered>>
conversationVars ==
  <<atServer, inRedis, inTables, inMemory, syncing, got, unsure, losses>>

NoOffsets == [c \in Channels |-> 0]
NotSyncing == [pc |-> "idle", version |-> 0, offers |-> {}, left |-> {},
              seen |-> NoOffsets, floor |-> 0]

ConversationsInit ==
  /\ newest = NoOffsets /\ stamp = NoOffsets /\ clock = 0
  /\ userVersion = 0 /\ phoneVersion = [p \in Phones |-> 0]
  /\ userOffset = NoOffsets /\ phoneOffset = [p \in Phones |-> NoOffsets]
  /\ cached = NoOffsets /\ lastAnswered = 0
  /\ syncing = [p \in Phones |-> NotSyncing]
  /\ got = [p \in Phones |-> [seq |-> NoOffsets, version |-> 0]]
  /\ unsure = {} /\ losses = 0

At(p, pc) == syncing[p].pc = pc
Continues(p, r) == syncing' = [syncing EXCEPT ![p] = r]
Steps(p, pc) == Continues(p, [syncing[p] EXCEPT !.pc = pc])

Higher(x, y) == IF x > y THEN x ELSE y

\* A message arrives at the IM server.
Arrives(c) ==
  /\ clock < MaxMessages
  /\ newest' = [newest EXCEPT ![c] = @ + 1]
  /\ stamp' = [stamp EXCEPT ![c] = clock + 1]
  /\ clock' = clock + 1
  /\ UNCHANGED <<inRedis, inTables, inMemory, syncing, got, unsure, losses>>

-----------------------------------------------------------------------------
(***************************************************************************)
(* syncUserConversation                                                    *)
(***************************************************************************)
FloorOf(p) == IF phoneVersion[p] = 0 THEN userVersion ELSE phoneVersion[p]

\* The phone sends its own version; the floor in Redis may be higher.
SyncVersion(p) ==
  /\ At(p, "idle")
  /\ phoneVersion' = [phoneVersion EXCEPT ![p] = FloorOf(p)]
  /\ Continues(p, [NotSyncing EXCEPT !.pc = "offsets",
                                    !.version = Higher(got[p].version, FloorOf(p))])
  /\ UNCHANGED <<atServer, userVersion, inTables, inMemory, got, unsure, losses>>

\* A phone without rows gets those of the user.
OffsetOf(p) == IF phoneOffset[p] = NoOffsets THEN userOffset ELSE phoneOffset[p]

\* A conversation is answered when a message is left above the offset.
OffersTo(p) ==
  {[channel |-> c, seq |-> newest[c], version |-> stamp[c]] :
     c \in {d \in Channels : stamp[d] > syncing[p].version
                             /\ newest[d] > OffsetOf(p)[d]}}

\* The offsets are written in a transaction; nothing else depends on what lies
\* between it and the call of the IM server.
SyncAsks(p) ==
  /\ At(p, "offsets")
  /\ phoneOffset' = [phoneOffset EXCEPT ![p] = OffsetOf(p)]
  /\ Continues(p, [syncing[p] EXCEPT !.pc = "look", !.offers = OffersTo(p),
                                     !.left = OffersTo(p)])
  /\ UNCHANGED <<atServer, inRedis, userOffset, inMemory, got, unsure, losses>>

\* What was answered is remembered, one conversation at a time: the lock is not
\* held between the reading and the writing.
SyncLooks(p) ==
  /\ At(p, "look") /\ syncing[p].left # {}
  /\ Continues(p, [syncing[p] EXCEPT !.pc = "remember", !.seen = cached])
  /\ UNCHANGED <<atServer, inRedis, inTables, inMemory, got, unsure, losses>>

SyncRemembers(p) ==
  /\ At(p, "remember")
  /\ \E offer \in syncing[p].left :
       /\ cached' = [syncing[p].seen EXCEPT ![offer.channel] = Higher(@, offer.seq)]
       /\ Continues(p, [syncing[p] EXCEPT !.pc = "look", !.left = @ \ {offer},
                                          !.seen = NoOffsets])
  /\ UNCHANGED <<atServer, inRedis, inTables, lastAnswered, got, unsure, losses>>

\* Fault: the newest version there is.
LastVersionsNow(p) == {clock}

\* The version of the last conversation in the answer; the order is the IM
\* server's.
LastVersions(p) ==
  IF syncing[p].offers = {} THEN {got[p].version}
  ELSE {offer.version : offer \in syncing[p].offers}

SyncRaises(p) ==
  /\ At(p, "look") /\ syncing[p].left = {}
  /\ \E v \in LastVersions(p) : lastAnswered' = Higher(lastAnswered, v)
  /\ Steps(p, "answer")
  /\ UNCHANGED <<atServer, inRedis, inTables, cached, got, unsure, losses>>

\* An answer offers a channel once.
SeqAfter(p, c) ==
  LET offered == {o \in syncing[p].offers : o.channel = c}
  IN  IF offered = {} THEN got[p].seq[c]
      ELSE Higher(got[p].seq[c], (CHOOSE o \in offered : TRUE).seq)

\* The phone keeps the newest message of each channel and the highest version.
SyncAnswers(p) ==
  /\ At(p, "answer")
  /\ \E v \in {got[p].version} \cup {o.version : o \in syncing[p].offers} :
       /\ \A o \in syncing[p].offers : o.version <= v
       /\ got[p].version <= v
       /\ got' = [got EXCEPT
            ![p] = [seq |-> [c \in Channels |-> SeqAfter(p, c)], version |-> v]]
  /\ Continues(p, NotSyncing)
  /\ UNCHANGED <<atServer, inRedis, inTables, inMemory, unsure, losses>>

-----------------------------------------------------------------------------
(***************************************************************************)
(* syncUserConversationAck                                                 *)
(***************************************************************************)
\* One transaction; a row only rises, so it does not matter that the rows may
\* be those of a moment before.
AckOffsets(p) ==
  /\ At(p, "idle")
  /\ userOffset' = [c \in Channels |-> Higher(userOffset[c], cached[c])]
  /\ Steps(p, "ack")
  /\ UNCHANGED <<atServer, inRedis, phoneOffset, inMemory, got, unsure, losses>>

AckReads(p) ==
  /\ At(p, "ack")
  /\ Continues(p, [NotSyncing EXCEPT !.pc = "floor", !.floor = lastAnswered])
  /\ UNCHANGED <<atServer, inRedis, inTables, inMemory, got, unsure, losses>>

\* The version is set, whatever another acknowledgement has set.
AckVersion(p) ==
  /\ At(p, "floor")
  /\ userVersion' = IF syncing[p].floor > 0 THEN syncing[p].floor ELSE userVersion
  /\ Continues(p, NotSyncing)
  /\ UNCHANGED <<atServer, phoneVersion, inTables, inMemory, got, unsure, losses>>

-----------------------------------------------------------------------------
(***************************************************************************)
(* What goes wrong                                                         *)
(***************************************************************************)
Loses == losses < MaxLosses /\ losses' = losses + 1
Remembered(p) == {o.channel : o \in syncing[p].offers \ syncing[p].left}

\* An error ends the syncing, or its answer is lost.
SyncFails(p) ==
  /\ ~At(p, "idle") /\ Loses
  /\ unsure' = unsure \cup Remembered(p)
  /\ Continues(p, NotSyncing)
  /\ UNCHANGED <<atServer, inRedis, inTables, inMemory, got>>

\* The process starts anew, and remembers nothing.
Restart ==
  /\ Loses
  /\ cached' = NoOffsets /\ lastAnswered' = 0
  /\ syncing' = [p \in Phones |-> NotSyncing]
  /\ unsure' = unsure \cup UNION {Remembered(p) : p \in Phones}
  /\ UNCHANGED <<atServer, inRedis, inTables, got>>

-----------------------------------------------------------------------------
Syncs(p) ==
  \/ SyncVersion(p) \/ SyncAsks(p) \/ SyncLooks(p) \/ SyncRemembers(p)
  \/ SyncRaises(p) \/ SyncAnswers(p)

Acknowledges(p) == AckOffsets(p) \/ AckReads(p) \/ AckVersion(p)

ConversationsNext ==
  \/ \E c \in Channels : Arrives(c)
  \/ \E p \in Phones : Syncs(p) \/ Acknowledges(p) \/ SyncFails(p)
  \/ Restart

ConversationsSpec == ConversationsInit /\ [][ConversationsNext]_conversationVars

-----------------------------------------------------------------------------
(***************************************************************************)
(* What the floors promise                                                 *)
(***************************************************************************)
\* What the next sync of a phone that has nothing would leave out.
LeavesOut(p, c) ==
  \/ stamp[c] <= FloorOf(p)
  \/ newest[c] <= OffsetOf(p)[c]

Delivered(p, c) ==
  \/ got[p].seq[c] = newest[c]
  \/ \E o \in syncing[p].offers : o.channel = c /\ o.seq = newest[c]

\* A message that a new phone is not offered has reached a phone of the user,
\* or is on its way to one: neither the version nor the offset runs ahead of the
\* answers, however syncs and acknowledgements overlap.  Lost answers are the
\* exception: another phone's acknowledgement covers them.
NothingHiddenUnseen ==
  \A p \in Phones : \A c \in Channels \ unsure :
    newest[c] > 0 /\ LeavesOut(p, c) => \E q \in Phones : Delivered(q, c)
=============================================================================
