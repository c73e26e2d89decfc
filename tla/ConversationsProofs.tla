------------------------ MODULE ConversationsProofs ------------------------
(***************************************************************************)
(* Theorems about Conversations and Messages for any number of phones,     *)
(* channels, users, messages, requests and failures.                       *)
(***************************************************************************)
EXTENDS Conversations, Messages, FiniteSetTheorems, WellFoundedInduction, TLAPS

Offsets == [Channels -> Nat]
Offer == [channel : Channels, seq : Nat, version : Nat]
Syncing == [pc : {"idle", "offsets", "look", "remember", "answer", "ack", "floor"},
            version : Nat, offers : SUBSET Offer, left : SUBSET Offer,
            seen : Offsets, floor : Nat]

ConversationsTypeOK ==
  /\ newest \in Offsets /\ stamp \in Offsets /\ clock \in Nat
  /\ userVersion \in Nat /\ phoneVersion \in [Phones -> Nat]
  /\ userOffset \in Offsets /\ phoneOffset \in [Phones -> Offsets]
  /\ cached \in Offsets /\ lastAnswered \in Nat
  /\ syncing \in [Phones -> Syncing]
  /\ got \in [Phones -> [seq : Offsets, version : Nat]]
  /\ unsure \subseteq Channels

-----------------------------------------------------------------------------
\* The newest message of the channel is on a phone or in the part of an answer
\* that the cache of results knows.
SeenBy(q, c) ==
  \/ got[q].seq[c] = newest[c]
  \/ \E o \in syncing[q].offers \ syncing[q].left :
       o.channel = c /\ o.seq = newest[c]
Seen(c) == \E q \in Phones : SeenBy(q, c)

\* What a phone could be given for its floor, and what any of it covers has
\* been seen.
Floors ==
  {0, userVersion, lastAnswered}
    \cup {phoneVersion[p] : p \in Phones} \cup {got[p].version : p \in Phones}
    \cup {syncing[p].version : p \in Phones} \cup {syncing[p].floor : p \in Phones}

CoversSeen(f) ==
  /\ f <= clock
  /\ \A c \in Channels \ unsure : newest[c] > 0 /\ stamp[c] <= f => Seen(c)

AllOffsets ==
  {NoOffsets, userOffset, cached} \cup {phoneOffset[p] : p \in Phones}
    \cup {syncing[p].seen : p \in Phones}

ReachesSeen(o) ==
  \A c \in Channels :
    /\ o[c] <= newest[c]
    /\ c \notin unsure /\ newest[c] > 0 /\ o[c] = newest[c] => Seen(c)

\* What an answer covers has been seen or is still to be remembered.
AnswerCovers(p, o) ==
  /\ o.seq <= newest[o.channel] /\ o.version <= clock
  /\ \A c \in Channels \ unsure :
       newest[c] > 0 /\ stamp[c] <= o.version =>
         Seen(c) \/ \E l \in syncing[p].left : l.channel = c /\ l.seq = newest[c]

AnswerRight(p) ==
  /\ syncing[p].left \subseteq syncing[p].offers
  /\ syncing[p].pc \in {"idle", "offsets", "ack", "floor"} => syncing[p].offers = {}
  /\ syncing[p].pc = "answer" => syncing[p].left = {}
  /\ \A o, n \in syncing[p].offers : o.channel = n.channel => o = n
  /\ \A o \in syncing[p].offers : AnswerCovers(p, o)

ServerRight ==
  /\ \A c \in Channels : stamp[c] <= clock
  /\ \A p \in Phones, c \in Channels : got[p].seq[c] <= newest[c]

FloorsCover == \A f \in Floors : CoversSeen(f)
OffsetsReach == \A o \in AllOffsets : ReachesSeen(o)
AnswersRight == \A p \in Phones : AnswerRight(p)

ConversationsInv ==
  /\ ConversationsTypeOK /\ ServerRight
  /\ FloorsCover /\ OffsetsReach /\ AnswersRight

-----------------------------------------------------------------------------
LEMMA HigherIsOne ==
  ASSUME NEW x, NEW y
  PROVE  Higher(x, y) \in {x, y}
BY DEF Higher

LEMMA FloorOfIsFloor ==
  ASSUME NEW p \in Phones
  PROVE  FloorOf(p) \in Floors
BY DEF FloorOf, Floors

LEMMA OffsetOfIsOffset ==
  ASSUME NEW p \in Phones
  PROVE  OffsetOf(p) \in AllOffsets
BY DEF OffsetOf, AllOffsets

LEMMA SeqAfterIsOne ==
  ASSUME ConversationsTypeOK, NEW p \in Phones, NEW c \in Channels
  PROVE  /\ SeqAfter(p, c) \in Nat
         /\ \/ SeqAfter(p, c) = got[p].seq[c]
            \/ \E o \in syncing[p].offers : o.channel = c /\ SeqAfter(p, c) = o.seq
         /\ SeqAfter(p, c) >= got[p].seq[c]
<1> DEFINE offered == {o \in syncing[p].offers : o.channel = c}
<1>1. /\ got[p].seq[c] \in Nat
      /\ syncing[p].offers \subseteq Offer
  BY DEF ConversationsTypeOK, Syncing, Offsets
<1>2. CASE offered = {}
  BY <1>1, <1>2 DEF SeqAfter
<1>3. CASE offered # {}
  <2> DEFINE o == CHOOSE x \in offered : TRUE
  <2>1. o \in offered
    BY <1>3
  <2>2. o.seq \in Nat /\ o.channel = c /\ o \in syncing[p].offers
    BY <1>1, <2>1 DEF Offer
  <2>3. SeqAfter(p, c) = Higher(got[p].seq[c], o.seq)
    BY <1>3 DEF SeqAfter
  <2> HIDE DEF o
  <2>4. QED BY <1>1, <2>2, <2>3 DEF Higher
<1>4. QED BY <1>2, <1>3

LEMMA ConversationsTypeInit == ConversationsInit => ConversationsTypeOK
BY DEF ConversationsInit, ConversationsTypeOK, Syncing, NotSyncing, NoOffsets,
       Offsets, Offer

LEMMA OfferedIsTyped ==
  ASSUME ConversationsTypeOK, NEW p \in Phones
  PROVE  OffersTo(p) \subseteq Offer
BY DEF OffersTo, ConversationsTypeOK, Offer, Offsets

LEMMA ConversationsTypeNext ==
  ASSUME ConversationsTypeOK, ConversationsNext
  PROVE  ConversationsTypeOK'
<1> USE DEF ConversationsTypeOK
<1> USE DEF atServer, inRedis, inTables, inMemory, Syncing, Offsets, At, Steps,
            Continues, NotSyncing, NoOffsets
<1>1. ASSUME NEW c \in Channels, Arrives(c) PROVE ConversationsTypeOK'
  BY <1>1 DEF Arrives
<1>2. ASSUME NEW p \in Phones, SyncVersion(p) PROVE ConversationsTypeOK'
  <2>1. FloorOf(p) \in Nat /\ got[p].version \in Nat
    BY DEF FloorOf
  <2>2. Higher(got[p].version, FloorOf(p)) \in Nat
    BY <2>1, HigherIsOne
  <2>3. QED BY <1>2, <2>1, <2>2 DEF SyncVersion
<1>3. ASSUME NEW p \in Phones, SyncAsks(p) PROVE ConversationsTypeOK'
  <2>1. OffsetOf(p) \in Offsets
    BY DEF OffsetOf
  <2>2. OffersTo(p) \subseteq Offer
    BY OfferedIsTyped
  <2>3. QED BY <1>3, <2>1, <2>2 DEF SyncAsks
<1>4. ASSUME NEW p \in Phones, SyncLooks(p) PROVE ConversationsTypeOK'
  BY <1>4 DEF SyncLooks
<1>5. ASSUME NEW p \in Phones, SyncRemembers(p) PROVE ConversationsTypeOK'
  <2>1. PICK offer \in syncing[p].left :
          /\ cached' = [syncing[p].seen EXCEPT
                          ![offer.channel] = Higher(@, offer.seq)]
          /\ Continues(p, [syncing[p] EXCEPT !.pc = "look", !.left = @ \ {offer},
                                             !.seen = NoOffsets])
    BY <1>5 DEF SyncRemembers
  <2>2. offer.channel \in Channels /\ offer.seq \in Nat
    BY DEF Offer
  <2>3. syncing[p].seen \in Offsets
    OBVIOUS
  <2>4. Higher(syncing[p].seen[offer.channel], offer.seq) \in Nat
    BY <2>2, <2>3 DEF Higher
  <2>5. cached' \in Offsets
    BY <2>1, <2>2, <2>3, <2>4
  <2>6. [syncing[p] EXCEPT !.pc = "look", !.left = @ \ {offer},
                           !.seen = NoOffsets] \in Syncing
    <3>1. syncing[p] \in Syncing /\ NoOffsets \in Offsets
      OBVIOUS
    <3>2. syncing[p].left \ {offer} \subseteq Offer
      OBVIOUS
    <3> HIDE DEF ConversationsTypeOK, NoOffsets, Offsets
    <3> QED BY <3>1, <3>2
  <2>7. QED BY <1>5, <2>1, <2>5, <2>6 DEF SyncRemembers
<1>6. ASSUME NEW p \in Phones, SyncRaises(p) PROVE ConversationsTypeOK'
  <2>1. LastVersions(p) \subseteq Nat
    BY DEF LastVersions, Offer
  <2>2. PICK v \in LastVersions(p) : lastAnswered' = Higher(lastAnswered, v)
    BY <1>6 DEF SyncRaises
  <2>3. lastAnswered' \in Nat
    BY <2>1, <2>2, HigherIsOne
  <2>4. [syncing[p] EXCEPT !.pc = "answer"] \in Syncing
    OBVIOUS
  <2>5. QED BY <1>6, <2>3, <2>4 DEF SyncRaises
<1>7. ASSUME NEW p \in Phones, SyncAnswers(p) PROVE ConversationsTypeOK'
  <2>1. [c \in Channels |-> SeqAfter(p, c)] \in Offsets
    BY SeqAfterIsOne
  <2>2. {got[p].version} \cup {o.version : o \in syncing[p].offers} \subseteq Nat
    BY DEF Offer
  <2>3. got' \in [Phones -> [seq : Offsets, version : Nat]]
    BY <1>7, <2>1, <2>2 DEF SyncAnswers
  <2>4. QED BY <1>7, <2>3 DEF SyncAnswers
<1>8. ASSUME NEW p \in Phones, AckOffsets(p) PROVE ConversationsTypeOK'
  <2>1. [syncing[p] EXCEPT !.pc = "ack"] \in Syncing
    OBVIOUS
  <2>2. userOffset' \in Offsets
    BY <1>8, HigherIsOne DEF AckOffsets
  <2>3. QED BY <1>8, <2>1, <2>2 DEF AckOffsets
<1>9. ASSUME NEW p \in Phones, AckReads(p) \/ AckVersion(p)
      PROVE  ConversationsTypeOK'
  <2>1. CASE AckReads(p)
    BY <2>1 DEF AckReads
  <2>2. CASE AckVersion(p)
    BY <2>2 DEF AckVersion
  <2>3. QED BY <1>9, <2>1, <2>2
<1>10. ASSUME NEW p \in Phones, SyncFails(p) PROVE ConversationsTypeOK'
  BY <1>10 DEF SyncFails, Loses, Remembered, Offer
<1>11. CASE Restart
  BY <1>11 DEF Restart, Loses, Remembered, Offer
<1>12. QED
  BY <1>1, <1>2, <1>3, <1>4, <1>5, <1>6, <1>7, <1>8, <1>9, <1>10, <1>11
     DEF ConversationsNext, Syncs, Acknowledges

-----------------------------------------------------------------------------
\* What has been seen stays seen, but for the channels that become unsure.
SeenStays ==
  /\ UNCHANGED atServer /\ unsure \subseteq unsure'
  /\ \A c \in Channels \ unsure' : Seen(c) => Seen(c)'

LEMMA FloorsStay ==
  ASSUME FloorsCover, SeenStays, NEW v, CoversSeen(v), Floors' \subseteq Floors \cup {v}
  PROVE  FloorsCover'
<1>1. \A f \in Floors' : CoversSeen(f)
  BY DEF FloorsCover
<1>2. ASSUME NEW f \in Floors' PROVE CoversSeen(f)'
  BY <1>1, <1>2 DEF CoversSeen, SeenStays, atServer
<1>3. QED BY <1>2 DEF FloorsCover

LEMMA OffsetsStay ==
  ASSUME OffsetsReach, SeenStays, NEW o, ReachesSeen(o)',
         AllOffsets' \subseteq AllOffsets \cup {o}
  PROVE  OffsetsReach'
<1>1. ASSUME NEW a \in AllOffsets PROVE ReachesSeen(a)'
  BY <1>1 DEF OffsetsReach, ReachesSeen, SeenStays, atServer
<1>2. QED BY <1>1 DEF OffsetsReach

LEMMA AnswerStays ==
  ASSUME NEW p \in Phones, AnswerRight(p), SeenStays, syncing'[p] = syncing[p]
  PROVE  AnswerRight(p)'
<1>1. ASSUME NEW o \in syncing[p].offers PROVE AnswerCovers(p, o)'
  BY <1>1 DEF AnswerRight, AnswerCovers, SeenStays, atServer
<1>2. QED BY <1>1 DEF AnswerRight

LEMMA FloorsFrom ==
  ASSUME NEW v,
         {userVersion', lastAnswered'} \subseteq Floors \cup {v},
         \A p \in Phones : {phoneVersion'[p], got'[p].version, syncing'[p].version,
                            syncing'[p].floor} \subseteq Floors \cup {v}
  PROVE  Floors' \subseteq Floors \cup {v}
<1>1. 0 \in Floors
  BY DEF Floors
<1>2. QED BY <1>1 DEF Floors

LEMMA OffsetsFrom ==
  ASSUME NEW o,
         {userOffset', cached'} \subseteq AllOffsets \cup {o},
         \A p \in Phones :
           {phoneOffset'[p], syncing'[p].seen} \subseteq AllOffsets \cup {o}
  PROVE  AllOffsets' \subseteq AllOffsets \cup {o}
<1>1. NoOffsets \in AllOffsets /\ NoOffsets' = NoOffsets
  BY DEF AllOffsets, NoOffsets
<1>2. QED BY <1>1 DEF AllOffsets

LEMMA PhoneStepKeepsOthers ==
  ASSUME ConversationsTypeOK, AnswersRight, SeenStays,
         NEW p \in Phones, NEW r, syncing' = [syncing EXCEPT ![p] = r],
         AnswerRight(p)'
  PROVE  AnswersRight'
<1>1. ASSUME NEW q \in Phones, q # p PROVE AnswerRight(q)'
  <2>1. syncing'[q] = syncing[q]
    BY <1>1 DEF ConversationsTypeOK
  <2>2. QED BY <2>1, AnswerStays DEF AnswersRight
<1>2. QED BY <1>1 DEF AnswersRight

LEMMA ServerStays ==
  ASSUME ServerRight, UNCHANGED <<atServer, got>>
  PROVE  ServerRight'
BY DEF ServerRight, atServer

\* A step that changes what one phone waits for, one floor and one offset.
LEMMA PhoneStep ==
  ASSUME ConversationsInv, ConversationsTypeOK', ServerRight', SeenStays,
         NEW p \in Phones, NEW r, syncing' = [syncing EXCEPT ![p] = r],
         AnswerRight(p)',
         NEW v, CoversSeen(v),
         {userVersion', lastAnswered', r.version, r.floor} \subseteq Floors \cup {v},
         \A q \in Phones : {phoneVersion'[q], got'[q].version} \subseteq Floors \cup {v},
         NEW o, ReachesSeen(o)',
         {userOffset', cached', r.seen} \subseteq AllOffsets \cup {o},
         \A q \in Phones : phoneOffset'[q] \in AllOffsets
  PROVE  ConversationsInv'
<1>1. /\ \A q \in Phones \ {p} : syncing'[q] = syncing[q]
      /\ syncing'[p] = r
  BY DEF ConversationsInv, ConversationsTypeOK
<1>2. FloorsCover'
  <2>1. \A q \in Phones : {syncing[q].version, syncing[q].floor} \subseteq Floors
    BY DEF Floors
  <2>2. \A q \in Phones : {phoneVersion'[q], got'[q].version, syncing'[q].version,
                            syncing'[q].floor} \subseteq Floors \cup {v}
    BY <1>1, <2>1
  <2>3. Floors' \subseteq Floors \cup {v}
    BY <2>2, FloorsFrom
  <2>4. QED BY <2>3, FloorsStay DEF ConversationsInv
<1>3. OffsetsReach'
  <2>1. \A q \in Phones : syncing[q].seen \in AllOffsets
    BY DEF AllOffsets
  <2>2. \A q \in Phones : {phoneOffset'[q], syncing'[q].seen} \subseteq AllOffsets \cup {o}
    BY <1>1, <2>1
  <2>3. AllOffsets' \subseteq AllOffsets \cup {o}
    BY <2>2, OffsetsFrom
  <2>4. QED BY <2>3, OffsetsStay DEF ConversationsInv
<1>4. QED BY <1>2, <1>3, PhoneStepKeepsOthers DEF ConversationsInv

\* A step of a phone that neither waits for an answer nor begins to.
LEMMA QuietStep ==
  ASSUME ConversationsInv, ConversationsTypeOK',
         NEW p \in Phones, NEW r \in Syncing,
         syncing[p].offers = {}, r.offers = {}, r.left = {},
         r.pc \in {"idle", "offsets", "ack", "floor"},
         syncing' = [syncing EXCEPT ![p] = r],
         UNCHANGED <<atServer, got, unsure>>,
         {userVersion', lastAnswered', r.version, r.floor} \subseteq Floors,
         \A q \in Phones : phoneVersion'[q] \in Floors,
         NEW o, ReachesSeen(o), {userOffset', cached', r.seen} \subseteq AllOffsets \cup {o},
         UNCHANGED phoneOffset
  PROVE  ConversationsInv'
<1>1. /\ \A q \in Phones \ {p} : syncing'[q] = syncing[q]
      /\ syncing'[p] = r
  BY DEF ConversationsInv, ConversationsTypeOK
<1>2. SeenStays
  BY <1>1 DEF SeenStays, Seen, SeenBy, atServer
<1>3. ReachesSeen(o)'
  BY <1>2 DEF ReachesSeen, SeenStays, atServer
<1>4. AnswerRight(p)'
  BY <1>1 DEF AnswerRight
<1>5. CoversSeen(0)
  BY DEF ConversationsInv, FloorsCover, Floors
<1>6. {userVersion', lastAnswered', r.version, r.floor} \subseteq Floors \cup {0}
  OBVIOUS
<1>7. /\ \A q \in Phones : {phoneVersion'[q], got'[q].version} \subseteq Floors \cup {0}
      /\ \A q \in Phones : phoneOffset'[q] \in AllOffsets
  BY DEF Floors, AllOffsets
<1>8. ServerRight'
  BY ServerStays DEF ConversationsInv
<1>9. QED BY <1>2, <1>3, <1>4, <1>5, <1>6, <1>7, <1>8, PhoneStep

LEMMA VersionKept ==
  ASSUME ConversationsInv, ConversationsTypeOK', NEW p \in Phones, SyncVersion(p)
  PROVE  ConversationsInv'
<1> DEFINE r == [NotSyncing EXCEPT !.pc = "offsets",
                                   !.version = Higher(got[p].version, FloorOf(p))]
<1>1. FloorOf(p) \in Floors /\ FloorOf(p) \in Nat /\ got[p].version \in Nat
  BY FloorOfIsFloor DEF FloorOf, ConversationsInv, ConversationsTypeOK
<1>2. /\ r.pc = "offsets" /\ r.offers = {} /\ r.left = {} /\ r.seen = NoOffsets
      /\ r.floor = 0 /\ r.version = Higher(got[p].version, FloorOf(p))
      /\ r \in Syncing
  BY <1>1 DEF NotSyncing, Higher, Syncing, NoOffsets, Offsets
<1>3. /\ syncing' = [syncing EXCEPT ![p] = r]
      /\ UNCHANGED <<atServer, got, unsure, userVersion, lastAnswered, phoneOffset,
                     userOffset, cached>>
      /\ syncing[p].pc = "idle"
  BY DEF SyncVersion, Continues, At, inTables, inMemory
<1>4. {userVersion', lastAnswered', r.version, r.floor} \subseteq Floors
  BY <1>1, <1>2, <1>3 DEF Floors, Higher
<1>5. \A q \in Phones : phoneVersion'[q] \in Floors
  BY <1>1 DEF SyncVersion, Floors, ConversationsInv, ConversationsTypeOK
<1>6. {userOffset', cached', r.seen} \subseteq AllOffsets \cup {NoOffsets}
  BY <1>2, <1>3 DEF AllOffsets
<1>7. ReachesSeen(NoOffsets) /\ syncing[p].offers = {}
  BY <1>3 DEF AllOffsets, OffsetsReach, ConversationsInv, AnswersRight, AnswerRight
<1> HIDE DEF r
<1>8. QED BY <1>2, <1>3, <1>4, <1>5, <1>6, <1>7, QuietStep

LEMMA AckKept ==
  ASSUME ConversationsInv, ConversationsTypeOK', NEW p \in Phones, Acknowledges(p)
  PROVE  ConversationsInv'
<1>1. syncing[p].offers = {} /\ syncing[p].left = {}
  BY DEF ConversationsInv, AnswersRight, AnswerRight, Acknowledges, AckOffsets,
         AckReads, AckVersion, At
<1>2. ReachesSeen(NoOffsets)
  BY DEF AllOffsets, OffsetsReach, ConversationsInv
<1>3. /\ \A q \in Phones : phoneVersion[q] \in Floors
      /\ {0, userVersion, lastAnswered, syncing[p].version, syncing[p].floor} \subseteq Floors
      /\ {NoOffsets, userOffset, cached, syncing[p].seen} \subseteq AllOffsets
  BY DEF Floors, AllOffsets
<1>4. syncing[p] \in Syncing /\ lastAnswered \in Nat
  BY DEF ConversationsInv, ConversationsTypeOK
<1>5. CASE AckOffsets(p)
  <2> DEFINE r == [syncing[p] EXCEPT !.pc = "ack"]
  <2> DEFINE o == [c \in Channels |-> Higher(userOffset[c], cached[c])]
  <2>1. /\ r \in Syncing /\ r.pc = "ack" /\ r.offers = {} /\ r.left = {}
        /\ r.version = syncing[p].version /\ r.floor = syncing[p].floor
        /\ r.seen = syncing[p].seen
    BY <1>1, <1>4 DEF Syncing
  <2>2. ReachesSeen(o)
    <3>1. ReachesSeen(userOffset) /\ ReachesSeen(cached)
      BY <1>3 DEF ConversationsInv, OffsetsReach
    <3>2. QED BY <3>1 DEF ReachesSeen, Higher
  <2>3. /\ syncing' = [syncing EXCEPT ![p] = r] /\ userOffset' = o
        /\ UNCHANGED <<atServer, got, unsure, userVersion, phoneVersion, lastAnswered,
                       phoneOffset, cached>>
    BY <1>5 DEF AckOffsets, Steps, Continues, inRedis, inMemory
  <2> HIDE DEF r, o
  <2>4. {userVersion', lastAnswered', r.version, r.floor} \subseteq Floors
    BY <1>3, <2>1, <2>3
  <2>5. \A q \in Phones : phoneVersion'[q] \in Floors
    BY <1>3, <2>3
  <2>6. {userOffset', cached', r.seen} \subseteq AllOffsets \cup {o}
    BY <1>3, <2>1, <2>3
  <2>7. QED BY <1>1, <2>1, <2>2, <2>3, <2>4, <2>5, <2>6, QuietStep
<1>6. CASE AckReads(p)
  <2> DEFINE r == [NotSyncing EXCEPT !.pc = "floor", !.floor = lastAnswered]
  <2>1. /\ r \in Syncing /\ r.pc = "floor" /\ r.offers = {} /\ r.left = {}
        /\ r.version = 0 /\ r.floor = lastAnswered /\ r.seen = NoOffsets
    BY <1>4 DEF Syncing, NotSyncing, NoOffsets, Offsets
  <2>2. /\ syncing' = [syncing EXCEPT ![p] = r]
        /\ UNCHANGED <<atServer, got, unsure, userVersion, phoneVersion, lastAnswered,
                       phoneOffset, userOffset, cached>>
    BY <1>6 DEF AckReads, Continues, inRedis, inTables, inMemory
  <2> HIDE DEF r
  <2>3. {userVersion', lastAnswered', r.version, r.floor} \subseteq Floors
    BY <1>3, <2>1, <2>2
  <2>4. \A q \in Phones : phoneVersion'[q] \in Floors
    BY <1>3, <2>2
  <2>5. {userOffset', cached', r.seen} \subseteq AllOffsets \cup {NoOffsets}
    BY <1>3, <2>1, <2>2
  <2>6. QED BY <1>1, <1>2, <2>1, <2>2, <2>3, <2>4, <2>5, QuietStep
<1>7. CASE AckVersion(p)
  <2>1. /\ NotSyncing \in Syncing /\ NotSyncing.pc = "idle" /\ NotSyncing.offers = {}
        /\ NotSyncing.left = {} /\ NotSyncing.version = 0 /\ NotSyncing.floor = 0
        /\ NotSyncing.seen = NoOffsets
    BY DEF Syncing, NotSyncing, NoOffsets, Offsets
  <2>2. /\ syncing' = [syncing EXCEPT ![p] = NotSyncing]
        /\ userVersion' \in {userVersion, syncing[p].floor}
        /\ UNCHANGED <<atServer, got, unsure, phoneVersion, lastAnswered,
                       phoneOffset, userOffset, cached>>
    BY <1>7 DEF AckVersion, Continues, inRedis, inTables, inMemory
  <2>3. {userVersion', lastAnswered', NotSyncing.version, NotSyncing.floor}
          \subseteq Floors
    BY <1>3, <2>1, <2>2
  <2>4. \A q \in Phones : phoneVersion'[q] \in Floors
    BY <1>3, <2>2
  <2>5. {userOffset', cached', NotSyncing.seen} \subseteq AllOffsets \cup {NoOffsets}
    BY <1>3, <2>1, <2>2
  <2>6. QED BY <1>1, <1>2, <2>1, <2>2, <2>3, <2>4, <2>5, QuietStep
<1>8. QED BY <1>5, <1>6, <1>7 DEF Acknowledges

-----------------------------------------------------------------------------
LEMMA ArrivalKept ==
  ASSUME ConversationsInv, ConversationsTypeOK', NEW c \in Channels, Arrives(c)
  PROVE  ConversationsInv'
<1> USE DEF ConversationsInv
<1>1. /\ newest' = [newest EXCEPT ![c] = @ + 1]
      /\ stamp' = [stamp EXCEPT ![c] = clock + 1]
      /\ clock' = clock + 1
      /\ UNCHANGED <<userVersion, phoneVersion, userOffset, phoneOffset, cached,
                     lastAnswered, syncing, got, unsure>>
  BY DEF Arrives, inRedis, inTables, inMemory
<1>2. /\ newest \in [Channels -> Nat] /\ stamp \in [Channels -> Nat] /\ clock \in Nat
      /\ \A p \in Phones : got[p].seq \in [Channels -> Nat]
      /\ \A p \in Phones : syncing[p].offers \subseteq Offer /\ syncing[p].left \subseteq Offer
      /\ Floors \subseteq Nat /\ AllOffsets \subseteq [Channels -> Nat]
  BY DEF ConversationsTypeOK, Offsets, Syncing, Floors, AllOffsets, NoOffsets
<1>3. /\ newest'[c] = newest[c] + 1 /\ stamp'[c] = clock + 1
      /\ \A d \in Channels \ {c} : newest'[d] = newest[d] /\ stamp'[d] = stamp[d]
      /\ \A d \in Channels \ {c} : Seen(d) => Seen(d)'
  BY <1>1, <1>2 DEF Seen, SeenBy
<1>4. ServerRight'
  BY <1>1, <1>2, <1>3 DEF ServerRight
<1>5. FloorsCover'
  <2>1. Floors' = Floors
    BY <1>1 DEF Floors
  <2>2. ASSUME NEW f \in Floors PROVE CoversSeen(f)'
    <3>1. CoversSeen(f) /\ f \in Nat
      BY <1>2 DEF FloorsCover
    <3>2. QED BY <1>1, <1>2, <1>3, <3>1 DEF CoversSeen
  <2>3. QED BY <2>1, <2>2 DEF FloorsCover
<1>6. OffsetsReach'
  <2>1. AllOffsets' = AllOffsets
    BY <1>1 DEF AllOffsets, NoOffsets
  <2>2. ASSUME NEW o \in AllOffsets PROVE ReachesSeen(o)'
    <3>1. ReachesSeen(o) /\ o \in [Channels -> Nat]
      BY <1>2 DEF OffsetsReach
    <3>2. QED BY <1>1, <1>2, <1>3, <3>1 DEF ReachesSeen
  <2>3. QED BY <2>1, <2>2 DEF OffsetsReach
<1>7. AnswersRight'
  <2>1. SUFFICES ASSUME NEW p \in Phones PROVE AnswerRight(p)'
    BY DEF AnswersRight
  <2>2. ASSUME NEW o \in syncing[p].offers PROVE AnswerCovers(p, o)'
    <3>1. AnswerCovers(p, o) /\ o \in Offer
      BY <1>2 DEF AnswersRight, AnswerRight
    <3>2. QED BY <1>1, <1>2, <1>3, <3>1 DEF AnswerCovers, Offer
  <2>3. QED BY <1>1, <2>2 DEF AnswersRight, AnswerRight
<1>8. QED BY <1>4, <1>5, <1>6, <1>7

LEMMA AskKept ==
  ASSUME ConversationsInv, ConversationsTypeOK', NEW p \in Phones, SyncAsks(p)
  PROVE  ConversationsInv'
<1> USE DEF ConversationsInv
<1> DEFINE r == [syncing[p] EXCEPT !.pc = "look", !.offers = OffersTo(p),
                                   !.left = OffersTo(p)]
<1>1. /\ syncing' = [syncing EXCEPT ![p] = r]
      /\ phoneOffset' = [phoneOffset EXCEPT ![p] = OffsetOf(p)]
      /\ UNCHANGED <<newest, stamp, clock, userVersion, phoneVersion, userOffset,
                     cached, lastAnswered, got, unsure>>
      /\ syncing[p].offers = {}
  BY DEF SyncAsks, Continues, atServer, inRedis, inMemory, AnswersRight, AnswerRight, At
<1>2. /\ r.pc = "look" /\ r.offers = OffersTo(p) /\ r.left = OffersTo(p)
      /\ r.version = syncing[p].version /\ r.floor = syncing[p].floor
      /\ r.seen = syncing[p].seen
  BY DEF ConversationsTypeOK, Syncing
<1> HIDE DEF r
<1>3. /\ \A q \in Phones \ {p} : syncing'[q] = syncing[q]
      /\ syncing'[p] = r
  BY <1>1 DEF ConversationsTypeOK
<1>4. SeenStays
  BY <1>1, <1>2, <1>3 DEF SeenStays, Seen, SeenBy, atServer
<1>5. AnswerRight(p)'
  <2>1. CoversSeen(syncing[p].version) /\ ReachesSeen(OffsetOf(p))
    BY OffsetOfIsOffset DEF FloorsCover, OffsetsReach, Floors
  <2>2. ASSUME NEW o \in OffersTo(p) PROVE AnswerCovers(p, o)'
    <3>1. /\ o.channel \in Channels /\ o.seq = newest[o.channel]
          /\ o.version = stamp[o.channel]
      BY DEF OffersTo
    <3>2. /\ o.seq <= newest[o.channel] /\ o.version <= clock
      BY <3>1 DEF ServerRight, ConversationsTypeOK, Offsets
    <3>3. ASSUME NEW c \in Channels \ unsure, newest[c] > 0
          PROVE  Seen(c) \/ \E l \in OffersTo(p) : l.channel = c /\ l.seq = newest[c]
      <4>1. CASE stamp[c] <= syncing[p].version
        BY <2>1, <3>3, <4>1 DEF CoversSeen
      <4>2. CASE newest[c] <= OffsetOf(p)[c]
        <5>1. OffsetOf(p)[c] \in Nat /\ newest[c] \in Nat
          BY DEF OffsetOf, ConversationsTypeOK, Offsets
        <5>2. OffsetOf(p)[c] = newest[c]
          BY <2>1, <4>2, <5>1 DEF ReachesSeen
        <5>3. QED BY <2>1, <3>3, <5>2 DEF ReachesSeen
      <4>3. CASE ~(stamp[c] <= syncing[p].version) /\ ~(newest[c] <= OffsetOf(p)[c])
        <5>1. /\ stamp[c] \in Nat /\ newest[c] \in Nat /\ syncing[p].version \in Nat
              /\ OffsetOf(p)[c] \in Nat
          BY DEF OffsetOf, ConversationsTypeOK, Offsets, Syncing
        <5>2. [channel |-> c, seq |-> newest[c], version |-> stamp[c]] \in OffersTo(p)
          BY <4>3, <5>1 DEF OffersTo
        <5>3. QED BY <5>2
      <4>4. QED BY <4>1, <4>2, <4>3
    <3>4. QED BY <1>1, <1>2, <1>3, <1>4, <3>2, <3>3 DEF AnswerCovers, SeenStays
  <2>3. \A o, n \in OffersTo(p) : o.channel = n.channel => o = n
    BY DEF OffersTo
  <2>4. QED BY <1>2, <1>3, <2>2, <2>3 DEF AnswerRight
<1>6. CoversSeen(0) /\ ServerRight'
  BY <1>1, ServerStays DEF FloorsCover, Floors, atServer
<1>7. {userVersion', lastAnswered', r.version, r.floor} \subseteq Floors \cup {0}
  BY <1>1, <1>2 DEF Floors
<1>8. \A q \in Phones : {phoneVersion'[q], got'[q].version} \subseteq Floors \cup {0}
  BY <1>1 DEF Floors
<1>9. ReachesSeen(NoOffsets)'
  BY <1>1, <1>4 DEF OffsetsReach, AllOffsets, ReachesSeen, SeenStays, NoOffsets
<1>10. {userOffset', cached', r.seen} \subseteq AllOffsets \cup {NoOffsets}
  BY <1>1, <1>2 DEF AllOffsets
<1>11. \A q \in Phones : phoneOffset'[q] \in AllOffsets
  BY <1>1, OffsetOfIsOffset DEF AllOffsets, ConversationsTypeOK
<1>12. QED
  BY <1>1, <1>4, <1>5, <1>6, <1>7, <1>8, <1>9, <1>10, <1>11, PhoneStep

LEMMA LookKept ==
  ASSUME ConversationsInv, ConversationsTypeOK', NEW p \in Phones, SyncLooks(p)
  PROVE  ConversationsInv'
<1> USE DEF ConversationsInv
<1> DEFINE r == [syncing[p] EXCEPT !.pc = "remember", !.seen = cached]
<1>1. /\ syncing' = [syncing EXCEPT ![p] = r]
      /\ UNCHANGED <<newest, stamp, clock, userVersion, phoneVersion, userOffset,
                     phoneOffset, cached, lastAnswered, got, unsure>>
  BY DEF SyncLooks, Continues, atServer, inRedis, inTables, inMemory
<1>2. /\ r.pc = "remember" /\ r.offers = syncing[p].offers /\ r.left = syncing[p].left
      /\ r.version = syncing[p].version /\ r.floor = syncing[p].floor
      /\ r.seen = cached
  BY DEF ConversationsTypeOK, Syncing
<1> HIDE DEF r
<1>3. /\ \A q \in Phones \ {p} : syncing'[q] = syncing[q]
      /\ syncing'[p] = r
  BY <1>1 DEF ConversationsTypeOK
<1>4. SeenStays
  BY <1>1, <1>2, <1>3 DEF SeenStays, Seen, SeenBy, atServer
<1>5. AnswerRight(p)'
  <2>1. AnswerRight(p)
    BY DEF AnswersRight
  <2>2. ASSUME NEW o \in syncing[p].offers PROVE AnswerCovers(p, o)'
    BY <1>1, <1>2, <1>3, <1>4, <2>1 DEF AnswerRight, AnswerCovers, SeenStays
  <2>3. QED BY <1>2, <1>3, <2>1, <2>2 DEF AnswerRight
<1>6. CoversSeen(0) /\ ServerRight'
  BY <1>1, ServerStays DEF FloorsCover, Floors, atServer
<1>7. {userVersion', lastAnswered', r.version, r.floor} \subseteq Floors \cup {0}
  BY <1>1, <1>2 DEF Floors
<1>8. \A q \in Phones : {phoneVersion'[q], got'[q].version} \subseteq Floors \cup {0}
  BY <1>1 DEF Floors
<1>9. ReachesSeen(NoOffsets)'
  BY <1>1, <1>4 DEF OffsetsReach, AllOffsets, ReachesSeen, SeenStays, NoOffsets
<1>10. {userOffset', cached', r.seen} \subseteq AllOffsets \cup {NoOffsets}
  BY <1>1, <1>2 DEF AllOffsets
<1>11. \A q \in Phones : phoneOffset'[q] \in AllOffsets
  BY <1>1 DEF AllOffsets
<1>12. QED
  BY <1>1, <1>4, <1>5, <1>6, <1>7, <1>8, <1>9, <1>10, <1>11, PhoneStep

LEMMA RememberKept ==
  ASSUME ConversationsInv, ConversationsTypeOK', NEW p \in Phones, SyncRemembers(p)
  PROVE  ConversationsInv'
<1> USE DEF ConversationsInv
<1>1. PICK offer \in syncing[p].left :
        /\ cached' = [syncing[p].seen EXCEPT
                        ![offer.channel] = Higher(@, offer.seq)]
        /\ Continues(p, [syncing[p] EXCEPT !.pc = "look", !.left = @ \ {offer},
                                           !.seen = NoOffsets])
  BY DEF SyncRemembers
<1> DEFINE r == [syncing[p] EXCEPT !.pc = "look", !.left = @ \ {offer},
                                   !.seen = NoOffsets]
<1>2. /\ syncing' = [syncing EXCEPT ![p] = r]
      /\ UNCHANGED <<newest, stamp, clock, userVersion, phoneVersion, userOffset,
                     phoneOffset, lastAnswered, got, unsure>>
  BY <1>1 DEF SyncRemembers, Continues, atServer, inRedis, inTables
<1>3. /\ r.pc = "look" /\ r.offers = syncing[p].offers
      /\ r.left = syncing[p].left \ {offer}
      /\ r.version = syncing[p].version /\ r.floor = syncing[p].floor
      /\ r.seen = NoOffsets
  BY DEF ConversationsTypeOK, Syncing
<1> HIDE DEF r
<1>4. /\ \A q \in Phones \ {p} : syncing'[q] = syncing[q]
      /\ syncing'[p] = r
  BY <1>2 DEF ConversationsTypeOK
<1>5. SeenStays
  BY <1>2, <1>3, <1>4 DEF SeenStays, Seen, SeenBy, atServer
<1>6. AnswerRight(p) /\ offer \in syncing[p].offers /\ AnswerCovers(p, offer)
  BY DEF AnswersRight, AnswerRight
<1>7. /\ offer.channel \in Channels /\ offer.seq \in Nat
      /\ syncing[p].seen \in [Channels -> Nat] /\ newest \in [Channels -> Nat]
  BY DEF ConversationsTypeOK, Syncing, Offer, Offsets
<1>8. offer.seq = newest[offer.channel] => Seen(offer.channel)'
  BY <1>2, <1>3, <1>4, <1>6 DEF Seen, SeenBy
<1>9. AnswerRight(p)'
  <2>1. ASSUME NEW o \in syncing[p].offers PROVE AnswerCovers(p, o)'
    <3>1. AnswerCovers(p, o)
      BY <1>6 DEF AnswerRight
    <3>2. QED
      BY <1>2, <1>3, <1>4, <1>5, <1>8, <3>1 DEF AnswerCovers, SeenStays
  <2>2. QED BY <1>3, <1>4, <1>6, <2>1 DEF AnswerRight
<1>10. PICK o : o = cached'
  BY Zenon
<1>11. ReachesSeen(o)'
  <2>1. ReachesSeen(syncing[p].seen)
    BY DEF OffsetsReach, AllOffsets
  <2>2. ASSUME NEW c \in Channels
        PROVE  /\ o[c] <= newest'[c]
               /\ c \notin unsure' /\ newest'[c] > 0 /\ o[c] = newest'[c] => Seen(c)'
    <3>1. CASE c # offer.channel
      <4>1. o[c] = syncing[p].seen[c]
        BY <1>1, <1>7, <1>10, <3>1
      <4>2. QED BY <1>2, <1>5, <2>1, <4>1 DEF ReachesSeen, SeenStays
    <3>2. CASE c = offer.channel
      <4>1. o[c] = Higher(syncing[p].seen[c], offer.seq)
        BY <1>1, <1>7, <1>10, <3>2
      <4>2. o[c] \in {syncing[p].seen[c], offer.seq}
        BY <4>1 DEF Higher
      <4>3. CASE o[c] = syncing[p].seen[c]
        BY <1>2, <1>5, <2>1, <4>3 DEF ReachesSeen, SeenStays
      <4>4. CASE o[c] = offer.seq
        BY <1>2, <1>6, <1>8, <3>2, <4>4 DEF AnswerCovers, Seen, SeenBy
      <4>5. QED BY <4>2, <4>3, <4>4
    <3>3. QED BY <3>1, <3>2
  <2>3. QED BY <2>2 DEF ReachesSeen
<1>12. CoversSeen(0) /\ ServerRight'
  BY <1>2, ServerStays DEF FloorsCover, Floors, atServer
<1>13. {userVersion', lastAnswered', r.version, r.floor} \subseteq Floors \cup {0}
  BY <1>2, <1>3 DEF Floors
<1>14. \A q \in Phones : {phoneVersion'[q], got'[q].version} \subseteq Floors \cup {0}
  BY <1>2 DEF Floors
<1>15. {userOffset', cached', r.seen} \subseteq AllOffsets \cup {o}
  BY <1>2, <1>3, <1>10 DEF AllOffsets
<1>16. \A q \in Phones : phoneOffset'[q] \in AllOffsets
  BY <1>2 DEF AllOffsets
<1>17. QED
  BY <1>2, <1>5, <1>9, <1>11, <1>12, <1>13, <1>14, <1>15, <1>16, PhoneStep

LEMMA RaiseKept ==
  ASSUME ConversationsInv, ConversationsTypeOK', NEW p \in Phones, SyncRaises(p)
  PROVE  ConversationsInv'
<1> USE DEF ConversationsInv
<1> DEFINE r == [syncing[p] EXCEPT !.pc = "answer"]
<1>1. PICK v \in LastVersions(p) : lastAnswered' = Higher(lastAnswered, v)
  BY DEF SyncRaises
<1>2. /\ syncing' = [syncing EXCEPT ![p] = r]
      /\ syncing[p].left = {}
      /\ UNCHANGED <<newest, stamp, clock, userVersion, phoneVersion, userOffset,
                     phoneOffset, cached, got, unsure>>
  BY DEF SyncRaises, Steps, Continues, At, atServer, inRedis, inTables
<1>3. /\ r.pc = "answer" /\ r.offers = syncing[p].offers /\ r.left = {}
      /\ r.version = syncing[p].version /\ r.floor = syncing[p].floor
      /\ r.seen = syncing[p].seen
  BY <1>2 DEF ConversationsTypeOK, Syncing
<1> HIDE DEF r
<1>4. /\ \A q \in Phones \ {p} : syncing'[q] = syncing[q]
      /\ syncing'[p] = r
  BY <1>2 DEF ConversationsTypeOK
<1>5. SeenStays
  BY <1>2, <1>3, <1>4 DEF SeenStays, Seen, SeenBy, atServer
<1>6. AnswerRight(p)'
  <2>1. AnswerRight(p)
    BY DEF AnswersRight
  <2>2. ASSUME NEW o \in syncing[p].offers PROVE AnswerCovers(p, o)'
    BY <1>2, <1>3, <1>4, <1>5, <2>1 DEF AnswerRight, AnswerCovers, SeenStays
  <2>3. QED BY <1>3, <1>4, <2>1, <2>2 DEF AnswerRight
<1>7. CoversSeen(v)
  <2>1. CASE v = got[p].version
    BY <2>1 DEF FloorsCover, Floors
  <2>2. ASSUME NEW o \in syncing[p].offers, v = o.version PROVE CoversSeen(v)
    BY <1>2, <2>2 DEF AnswersRight, AnswerRight, AnswerCovers, CoversSeen
  <2>3. QED BY <2>1, <2>2 DEF LastVersions
<1>8. ServerRight' /\ ReachesSeen(NoOffsets)'
  BY <1>2, <1>5, ServerStays
     DEF atServer, OffsetsReach, AllOffsets, ReachesSeen, SeenStays, NoOffsets
<1>9. {userVersion', lastAnswered', r.version, r.floor} \subseteq Floors \cup {v}
  BY <1>1, <1>2, <1>3 DEF Floors, Higher
<1>10. \A q \in Phones : {phoneVersion'[q], got'[q].version} \subseteq Floors \cup {v}
  BY <1>2 DEF Floors
<1>11. {userOffset', cached', r.seen} \subseteq AllOffsets \cup {NoOffsets}
  BY <1>2, <1>3 DEF AllOffsets
<1>12. \A q \in Phones : phoneOffset'[q] \in AllOffsets
  BY <1>2 DEF AllOffsets
<1>13. QED
  BY <1>2, <1>5, <1>6, <1>7, <1>8, <1>9, <1>10, <1>11, <1>12, PhoneStep

LEMMA AnswerKept ==
  ASSUME ConversationsInv, ConversationsTypeOK', NEW p \in Phones, SyncAnswers(p)
  PROVE  ConversationsInv'
<1> USE DEF ConversationsInv
<1>1. PICK v \in {got[p].version} \cup {o.version : o \in syncing[p].offers} :
        got' = [got EXCEPT
          ![p] = [seq |-> [c \in Channels |-> SeqAfter(p, c)], version |-> v]]
  BY DEF SyncAnswers
<1>2. /\ syncing' = [syncing EXCEPT ![p] = NotSyncing]
      /\ syncing[p].left = {}
      /\ UNCHANGED <<newest, stamp, clock, userVersion, phoneVersion, userOffset,
                     phoneOffset, cached, lastAnswered, unsure>>
  BY DEF SyncAnswers, Continues, At, AnswersRight, AnswerRight,
         atServer, inRedis, inTables, inMemory
<1>3. /\ NotSyncing.pc = "idle" /\ NotSyncing.offers = {} /\ NotSyncing.left = {}
      /\ NotSyncing.version = 0 /\ NotSyncing.floor = 0 /\ NotSyncing.seen = NoOffsets
  BY DEF NotSyncing
<1>4. /\ \A q \in Phones \ {p} : syncing'[q] = syncing[q] /\ got'[q] = got[q]
      /\ syncing'[p] = NotSyncing
      /\ got'[p] = [seq |-> [c \in Channels |-> SeqAfter(p, c)], version |-> v]
  BY <1>1, <1>2 DEF ConversationsTypeOK
<1>5. AnswerRight(p)
  BY DEF AnswersRight
<1>6. ASSUME NEW c \in Channels
      PROVE  /\ SeqAfter(p, c) <= newest[c]
             /\ got[p].seq[c] = newest[c] => SeqAfter(p, c) = newest[c]
  <2>1. /\ newest[c] \in Nat /\ got[p].seq[c] \in Nat /\ got[p].seq[c] <= newest[c]
    BY DEF ConversationsTypeOK, Offsets, ServerRight
  <2>2. \A o \in syncing[p].offers : o.channel = c => o.seq <= newest[c]
    BY <1>5 DEF AnswerRight, AnswerCovers
  <2>3. SeqAfter(p, c) <= newest[c]
    BY <2>1, <2>2, SeqAfterIsOne
  <2>4. SeqAfter(p, c) \in Nat /\ SeqAfter(p, c) >= got[p].seq[c]
    BY SeqAfterIsOne
  <2>5. QED BY <2>1, <2>3, <2>4
<1>7. ASSUME NEW o \in syncing[p].offers, o.seq = newest[o.channel]
      PROVE  SeqAfter(p, o.channel) = newest[o.channel]
  <2> DEFINE offered == {x \in syncing[p].offers : x.channel = o.channel}
  <2>1. o.channel \in Channels /\ o.seq \in Nat /\ got[p].seq[o.channel] \in Nat
    BY DEF ConversationsTypeOK, Syncing, Offer, Offsets
  <2>2. got[p].seq[o.channel] <= newest[o.channel]
    BY <2>1 DEF ServerRight
  <2>3. offered = {o}
    BY <1>5 DEF AnswerRight
  <2>4. SeqAfter(p, o.channel) = Higher(got[p].seq[o.channel], (CHOOSE x \in {o} : TRUE).seq)
    BY <2>3 DEF SeqAfter
  <2>5. (CHOOSE x \in {o} : TRUE) = o
    OBVIOUS
  <2>6. SeqAfter(p, o.channel) = Higher(got[p].seq[o.channel], o.seq)
    BY <2>4, <2>5
  <2>7. QED BY <1>7, <2>1, <2>2, <2>6 DEF Higher
<1>8. SeenStays
  <2>1. ASSUME NEW c \in Channels, NEW q \in Phones, SeenBy(q, c)
        PROVE  SeenBy(q, c)'
    <3>1. CASE q # p
      BY <1>2, <1>4, <2>1, <3>1 DEF SeenBy
    <3>2. CASE q = p
      <4>1. SeqAfter(p, c) = newest[c]
        BY <1>6, <1>7, <2>1, <3>2 DEF SeenBy
      <4>2. QED BY <1>2, <1>4, <3>2, <4>1 DEF SeenBy
    <3>3. QED BY <3>1, <3>2
  <2>2. QED BY <1>2, <2>1 DEF SeenStays, Seen, atServer
<1>9. AnswerRight(p)'
  BY <1>3, <1>4 DEF AnswerRight
<1>10. CoversSeen(v)
  <2>1. CASE v = got[p].version
    BY <2>1 DEF FloorsCover, Floors
  <2>2. ASSUME NEW o \in syncing[p].offers, v = o.version PROVE CoversSeen(v)
    BY <1>2, <1>5, <2>2 DEF AnswerRight, AnswerCovers, CoversSeen
  <2>3. QED BY <2>1, <2>2
<1>11. ServerRight'
  BY <1>2, <1>4, <1>6 DEF ServerRight
<1>12. ReachesSeen(NoOffsets)'
  BY <1>2, <1>8 DEF OffsetsReach, AllOffsets, ReachesSeen, SeenStays, NoOffsets
<1>13. {userVersion', lastAnswered', NotSyncing.version, NotSyncing.floor}
         \subseteq Floors \cup {v}
  BY <1>2, <1>3 DEF Floors
<1>14. \A q \in Phones : {phoneVersion'[q], got'[q].version} \subseteq Floors \cup {v}
  BY <1>2, <1>4 DEF Floors
<1>15. {userOffset', cached', NotSyncing.seen} \subseteq AllOffsets \cup {NoOffsets}
  BY <1>2, <1>3 DEF AllOffsets
<1>16. \A q \in Phones : phoneOffset'[q] \in AllOffsets
  BY <1>2 DEF AllOffsets
<1>17. QED
  BY <1>2, <1>8, <1>9, <1>10, <1>11, <1>12, <1>13, <1>14, <1>15, <1>16, PhoneStep

LEMMA FailureKept ==
  ASSUME ConversationsInv, ConversationsTypeOK', NEW p \in Phones, SyncFails(p)
  PROVE  ConversationsInv'
<1> USE DEF ConversationsInv
<1>1. /\ syncing' = [syncing EXCEPT ![p] = NotSyncing]
      /\ unsure' = unsure \cup Remembered(p)
      /\ UNCHANGED <<newest, stamp, clock, userVersion, phoneVersion, userOffset,
                     phoneOffset, cached, lastAnswered, got>>
  BY DEF SyncFails, Continues, atServer, inRedis, inTables, inMemory
<1>2. /\ NotSyncing.pc = "idle" /\ NotSyncing.offers = {} /\ NotSyncing.left = {}
      /\ NotSyncing.version = 0 /\ NotSyncing.floor = 0 /\ NotSyncing.seen = NoOffsets
  BY DEF NotSyncing
<1>3. /\ \A q \in Phones \ {p} : syncing'[q] = syncing[q]
      /\ syncing'[p] = NotSyncing
  BY <1>1 DEF ConversationsTypeOK
<1>4. SeenStays
  <2>1. ASSUME NEW c \in Channels \ unsure', NEW q \in Phones, SeenBy(q, c)
        PROVE  SeenBy(q, c)'
    <3>1. c \notin Remembered(p)
      BY <1>1
    <3>2. CASE q # p
      BY <1>1, <1>3, <2>1, <3>2 DEF SeenBy
    <3>3. CASE q = p
      BY <1>1, <2>1, <3>1, <3>3 DEF SeenBy, Remembered
    <3>4. QED BY <3>2, <3>3
  <2>2. QED BY <1>1, <2>1 DEF SeenStays, Seen, atServer
<1>5. AnswerRight(p)'
  BY <1>2, <1>3 DEF AnswerRight
<1>6. CoversSeen(0) /\ ServerRight'
  BY <1>1, ServerStays DEF FloorsCover, Floors, atServer
<1>7. ReachesSeen(NoOffsets)'
  BY <1>1, <1>4 DEF OffsetsReach, AllOffsets, ReachesSeen, SeenStays, NoOffsets
<1>8. {userVersion', lastAnswered', NotSyncing.version, NotSyncing.floor}
        \subseteq Floors \cup {0}
  BY <1>1, <1>2 DEF Floors
<1>9. \A q \in Phones : {phoneVersion'[q], got'[q].version} \subseteq Floors \cup {0}
  BY <1>1 DEF Floors
<1>10. {userOffset', cached', NotSyncing.seen} \subseteq AllOffsets \cup {NoOffsets}
  BY <1>1, <1>2 DEF AllOffsets
<1>11. \A q \in Phones : phoneOffset'[q] \in AllOffsets
  BY <1>1 DEF AllOffsets
<1>12. QED
  BY <1>1, <1>4, <1>5, <1>6, <1>7, <1>8, <1>9, <1>10, <1>11, PhoneStep

LEMMA RestartKept ==
  ASSUME ConversationsInv, ConversationsTypeOK', Restart
  PROVE  ConversationsInv'
<1> USE DEF ConversationsInv
<1>1. /\ syncing' = [p \in Phones |-> NotSyncing]
      /\ cached' = NoOffsets /\ lastAnswered' = 0
      /\ unsure' = unsure \cup UNION {Remembered(p) : p \in Phones}
      /\ UNCHANGED <<newest, stamp, clock, userVersion, phoneVersion, userOffset,
                     phoneOffset, got>>
  BY DEF Restart, atServer, inRedis, inTables
<1>2. /\ NotSyncing.pc = "idle" /\ NotSyncing.offers = {} /\ NotSyncing.left = {}
      /\ NotSyncing.version = 0 /\ NotSyncing.floor = 0 /\ NotSyncing.seen = NoOffsets
  BY DEF NotSyncing
<1>3. SeenStays
  <2>1. ASSUME NEW c \in Channels \ unsure', NEW q \in Phones, SeenBy(q, c)
        PROVE  SeenBy(q, c)'
    <3>1. c \notin Remembered(q)
      BY <1>1
    <3>2. QED BY <1>1, <2>1, <3>1 DEF SeenBy, Remembered
  <2>2. QED BY <1>1, <2>1 DEF SeenStays, Seen, atServer
<1>4. AnswersRight'
  BY <1>1, <1>2 DEF AnswersRight, AnswerRight
<1>5. FloorsCover'
  <2>1. Floors' \subseteq Floors \cup {0}
    BY <1>1, <1>2 DEF Floors
  <2>2. CoversSeen(0)
    BY DEF FloorsCover, Floors
  <2>3. QED BY <1>3, <2>1, <2>2, FloorsStay
<1>6. OffsetsReach'
  <2>1. AllOffsets' \subseteq AllOffsets \cup {NoOffsets}
    BY <1>1, <1>2 DEF AllOffsets, NoOffsets
  <2>2. ReachesSeen(NoOffsets)'
    BY <1>1, <1>3 DEF OffsetsReach, AllOffsets, ReachesSeen, SeenStays, NoOffsets
  <2>3. QED BY <1>3, <2>1, <2>2, OffsetsStay
<1>7. ServerRight'
  BY <1>1, ServerStays DEF atServer
<1>8. QED BY <1>4, <1>5, <1>6, <1>7

LEMMA ConversationsInvInit == ConversationsInit => ConversationsInv
<1> SUFFICES ASSUME ConversationsInit PROVE ConversationsInv
  OBVIOUS
<1>1. /\ newest = NoOffsets /\ stamp = NoOffsets /\ clock = 0
      /\ \A p \in Phones : /\ syncing[p] = NotSyncing
                            /\ got[p] = [seq |-> NoOffsets, version |-> 0]
      /\ \A c \in Channels : NoOffsets[c] = 0
  BY DEF ConversationsInit, NoOffsets
<1>2. ServerRight
  BY <1>1 DEF ServerRight
<1>3. FloorsCover
  <2>1. Floors = {0}
    BY <1>1 DEF ConversationsInit, Floors, NotSyncing
  <2>2. QED BY <1>1, <2>1 DEF FloorsCover, CoversSeen
<1>4. OffsetsReach
  <2>1. AllOffsets = {NoOffsets}
    BY <1>1 DEF ConversationsInit, AllOffsets, NotSyncing
  <2>2. QED BY <1>1, <2>1 DEF OffsetsReach, ReachesSeen
<1>5. AnswersRight
  <2>1. \A p \in Phones : /\ syncing[p].pc = "idle" /\ syncing[p].offers = {}
                           /\ syncing[p].left = {}
    <3>1. NotSyncing.pc = "idle" /\ NotSyncing.offers = {} /\ NotSyncing.left = {}
      BY DEF NotSyncing
    <3>2. QED BY <1>1, <3>1
  <2>2. QED BY <2>1 DEF AnswersRight, AnswerRight
<1>6. QED
  BY <1>2, <1>3, <1>4, <1>5, ConversationsTypeInit DEF ConversationsInv

LEMMA ConversationsInvNext ==
  ASSUME ConversationsInv, [ConversationsNext]_conversationVars
  PROVE  ConversationsInv'
<1>1. CASE UNCHANGED conversationVars
  <2> USE <1>1 DEF conversationVars, atServer, inRedis, inTables, inMemory
  <2>1. SeenStays
    BY DEF SeenStays, Seen, SeenBy
  <2>2. FloorsCover'
    <3>1. Floors' \subseteq Floors \cup {0} /\ CoversSeen(0)
      BY DEF Floors, ConversationsInv, FloorsCover
    <3>2. QED BY <2>1, <3>1, FloorsStay DEF ConversationsInv
  <2>3. OffsetsReach'
    <3>1. AllOffsets' \subseteq AllOffsets \cup {NoOffsets} /\ NoOffsets' = NoOffsets
      BY DEF AllOffsets, NoOffsets
    <3>2. ReachesSeen(NoOffsets)'
      BY <2>1, <3>1 DEF ConversationsInv, OffsetsReach, AllOffsets, ReachesSeen, SeenStays
    <3>3. QED BY <2>1, <3>1, <3>2, OffsetsStay DEF ConversationsInv
  <2>4. AnswersRight'
    BY <2>1, AnswerStays DEF ConversationsInv, AnswersRight
  <2>5. QED
    BY <2>2, <2>3, <2>4 DEF ConversationsInv, ConversationsTypeOK, ServerRight
<1>2. CASE ConversationsNext
  <2>1. ConversationsTypeOK'
    BY <1>2, ConversationsTypeNext DEF ConversationsInv
  <2>2. ASSUME NEW p \in Phones, Syncs(p) \/ Acknowledges(p) \/ SyncFails(p)
        PROVE  ConversationsInv'
    BY <2>1, <2>2, VersionKept, AskKept, LookKept, RememberKept, RaiseKept,
       AnswerKept, AckKept, FailureKept DEF Syncs
  <2>3. QED BY <1>2, <2>1, <2>2, ArrivalKept, RestartKept DEF ConversationsNext
<1>3. QED BY <1>1, <1>2

\* A channel whose newest message a new phone is not offered has shown it to a
\* phone of the user, or shows it with an answer on its way, for any phones,
\* channels, messages and failures: the floors of syncUserConversation and
\* syncUserConversationAck never cover what nobody was offered.
THEOREM NothingIsHidden == ConversationsSpec => []NothingHiddenUnseen
<1>1. ConversationsInv => NothingHiddenUnseen
  <2> SUFFICES ASSUME ConversationsInv, NEW p \in Phones, NEW c \in Channels \ unsure,
                      newest[c] > 0, LeavesOut(p, c)
               PROVE  \E q \in Phones : Delivered(q, c)
    BY DEF NothingHiddenUnseen
  <2>1. Seen(c)
    <3>1. CASE stamp[c] <= FloorOf(p)
      BY <3>1, FloorOfIsFloor DEF ConversationsInv, FloorsCover, CoversSeen
    <3>2. CASE newest[c] <= OffsetOf(p)[c]
      <4>1. newest[c] \in Nat /\ OffsetOf(p)[c] \in Nat
        BY DEF ConversationsInv, ConversationsTypeOK, Offsets, OffsetOf
      <4>2. ReachesSeen(OffsetOf(p))
        BY OffsetOfIsOffset DEF ConversationsInv, OffsetsReach
      <4>3. QED BY <3>2, <4>1, <4>2 DEF ReachesSeen
    <3>3. QED BY <3>1, <3>2 DEF LeavesOut
  <2>2. QED BY <2>1 DEF Seen, SeenBy, Delivered
<1>2. QED
  BY <1>1, ConversationsInvInit, ConversationsInvNext, PTL DEF ConversationsSpec

-----------------------------------------------------------------------------
(***************************************************************************)
(* Messages: the inductive invariant                                       *)
(***************************************************************************)
\* The numbers of readers there can be; the users need not be finitely many.
Counts == {0} \cup {Cardinality(R) : R \in SUBSET Users}

RowRecord ==
  [row : BOOLEAN, revoked : BOOLEAN, deleted : BOOLEAN, pinned : BOOLEAN,
   edited : BOOLEAN, count : Counts, version : Nat]
JobRecord ==
  [step : {"idle", "take", "write"}, listed : SUBSET MessageIds,
   batch : SUBSET MessageIds, rows : [MessageIds -> RowRecord]]
Calls == {"read", "key", "edit", "erase", "eraseAndUnpin", "readRow", "revoke", "pin",
          "flag", "unpinAll", "offset", "join"}
RequestRecord ==
  [op : {"none", "read", "edit", "mutualDelete", "managerDelete", "revoke", "pin",
         "clear", "offset", "join"},
   uid : Users, msg : MessageIds, on : BOOLEAN, all : SUBSET MessageIds,
   row : RowRecord, at : Nat, todo : Seq(Calls)]

\* What is left to do of a request of each kind.
Plan(op, todo) ==
  \/ op = "none" /\ todo = <<>>
  \/ op = "read" /\ todo \in {<<"read", "key">>, <<"key">>}
  \/ op = "edit" /\ todo = <<"edit">>
  \/ op = "mutualDelete" /\ todo = <<"erase">>
  \/ op = "managerDelete" /\ todo = <<"eraseAndUnpin">>
  \/ op = "revoke" /\ todo \in {<<"readRow", "revoke">>, <<"revoke">>}
  \/ op = "pin" /\ todo \in {<<"pin", "flag">>, <<"flag">>}
  \/ op = "clear" /\ todo = <<"unpinAll">>
  \/ op = "offset" /\ todo = <<"offset">>
  \/ op = "join" /\ todo = <<"join">>
Planned(r) == Plan(r.op, r.todo)

MessagesTypes ==
  /\ extra \in [MessageIds -> RowRecord] /\ time \in Nat
  /\ reads \subseteq Users \X MessageIds /\ keys \subseteq MessageIds
  /\ job \in JobRecord
  /\ offset \in [Users -> Nat]
  /\ phone \in [version : Nat, cached : Nat, rows : [MessageIds -> RowRecord]]
  /\ request \in [Requests -> RequestRecord]
  /\ \A w \in Requests : Planned(request[w])
  /\ spent \in [reads : Nat, requests : Nat, overlaps : Nat, faults : Nat]

\* Without overlaps at most one writer, or the timer, is at work.
Alone ==
  spent.overlaps = 0 =>
    \A w \in Requests : Writing(w) =>
      job.step = "idle" /\ \A v \in Requests : Writing(v) => v = w

\* The next call of the request writes rows, with the version it has drawn.
Holds(r) ==
  r.todo # <<>> /\ Head(r.todo) \in
    {"edit", "erase", "eraseAndUnpin", "revoke", "flag", "unpinAll"}

\* A version that has been drawn and not yet written is above all others.
Above(v) ==
  v > phone.version /\ \A m \in MessageIds : v > extra[m].version
Drawn ==
  /\ \A w \in Requests : Holds(request[w]) => request[w].at <= time
  /\ \A m \in MessageIds : job.rows[m].version <= time
  /\ spent.overlaps = 0 =>
       /\ \A w \in Requests : Holds(request[w]) => Above(request[w].at)
       /\ job.step = "write" => \A m \in job.batch : Above(job.rows[m].version)

Got ==
  /\ phone.cached <= phone.version /\ phone.version <= time
  /\ \A m \in MessageIds : extra[m].version <= time
  /\ NothingMissed

\* Somebody has still to tell the timer of a message.
Told(m) ==
  m \in keys \/ \E w \in Requests : request[w].op = "read" /\ request[w].msg = m
CountRight(row, m) == row.count = Cardinality(Readers(m))
CountsRight ==
  spent.overlaps = 0 /\ spent.faults = 0 =>
    \A m \in MessageIds :
      /\ IF job.step # "idle" /\ m \in job.batch
         THEN job.step = "write" =>
                /\ CountRight(job.rows[m], m) \/ Told(m)
                /\ job.rows[m].row = extra[m].row
         ELSE CountRight(extra[m], m) \/ Told(m)
      /\ \A w \in Requests :
           Holds(request[w]) /\ request[w].op = "revoke" /\ request[w].msg = m
             => request[w].row.count = extra[m].count

Joins ==
  spent.overlaps = 0 =>
    \A w \in Requests :
      request[w].op = "join" /\ request[w].on
        => request[w].at = 0 /\ offset[request[w].uid] = 0

MessagesInv ==
  MessagesTypes /\ Alone /\ Drawn /\ Got /\ CountsRight /\ Joins

-----------------------------------------------------------------------------
(***************************************************************************)
(* Messages: types                                                         *)
(***************************************************************************)
LEMMA NoRowTyped == NoRow \in RowRecord /\ NoRow.version = 0 /\ ~NoRow.row
  BY DEF NoRow, RowRecord, Counts

LEMMA NoJobTyped ==
  /\ NoJob \in JobRecord /\ NoJob.step = "idle"
  /\ NoJob.rows = [m \in MessageIds |-> NoRow]
  BY NoRowTyped DEF NoJob, JobRecord

LEMMA IdleTyped ==
  /\ Idle \in RequestRecord /\ Planned(Idle)
  /\ Idle.op = "none" /\ Idle.todo = <<>> /\ ~Holds(Idle)
<1>1. 1 \in MessageIds
  BY MessagesAssumption DEF MessageIds
<1>2. (CHOOSE u \in Users : TRUE) \in Users
  BY <1>1, MessagesAssumption
<1>3. <<>> \in Seq(Calls)
  OBVIOUS
<1>4. Idle \in RequestRecord
  BY <1>1, <1>2, <1>3, NoRowTyped DEF Idle, RequestRecord
<1>5. Idle.op = "none" /\ Idle.todo = <<>>
  BY DEF Idle
<1> QED BY <1>4, <1>5 DEF Planned, Plan, Holds

\* A new request.
LEMMA StartTyped ==
  ASSUME NEW op \in {"read", "edit", "mutualDelete", "managerDelete", "revoke", "pin",
                     "clear", "offset", "join"},
         NEW u \in Users, NEW m \in MessageIds, NEW on \in BOOLEAN,
         NEW all \in SUBSET MessageIds, NEW at \in Nat, NEW todo \in Seq(Calls)
  PROVE  LET r == [Idle EXCEPT !.op = op, !.uid = u, !.msg = m, !.on = on, !.all = all,
                               !.at = at, !.todo = todo] IN
         /\ r \in RequestRecord
         /\ r.op = op /\ r.uid = u /\ r.msg = m /\ r.on = on /\ r.all = all
         /\ r.at = at /\ r.todo = todo
  BY IdleTyped DEF RequestRecord

LEMMA OneCall ==
  ASSUME NEW call
  PROVE  Head(<<call>>) = call /\ Len(<<call>>) = 1 /\ <<call>> # <<>>
  OBVIOUS

\* The next call says which kind of request it is and what is left after it.
LEMMA CallOf ==
  ASSUME NEW r, Planned(r), r.op # "none"
  PROVE  /\ r.todo # <<>>
         /\ Head(r.todo) = "read" =>
              /\ r.op = "read" /\ Len(r.todo) # 1 /\ Tail(r.todo) = <<"key">>
         /\ Head(r.todo) = "readRow" =>
              /\ r.op = "revoke" /\ Len(r.todo) # 1 /\ Tail(r.todo) = <<"revoke">>
         /\ Head(r.todo) = "pin" =>
              /\ r.op = "pin" /\ Len(r.todo) # 1 /\ Tail(r.todo) = <<"flag">>
         /\ Head(r.todo) = "revoke" => r.op = "revoke"
         /\ Head(r.todo) = "key" => r.op = "read" /\ Len(r.todo) = 1
         /\ Head(r.todo) = "offset" => r.op = "offset" /\ Len(r.todo) = 1
         /\ Head(r.todo) = "join" => r.op = "join" /\ Len(r.todo) = 1
         /\ Head(r.todo) \in {"edit", "erase", "eraseAndUnpin", "revoke", "flag", "unpinAll"}
              => r.op \notin {"none", "read", "offset", "join"} /\ Len(r.todo) = 1
         /\ Holds(r) => r.op \notin {"none", "read", "offset", "join"}
<1>1. CASE r.op = "read"
  <2>1. CASE r.todo = <<"read", "key">>
    <3>1. Head(r.todo) = "read" /\ Len(r.todo) = 2 /\ Tail(r.todo) = <<"key">>
      BY <2>1
    <3> QED BY <1>1, <2>1, <3>1 DEF Holds
  <2>2. CASE r.todo = <<"key">>
    <3>1. Head(r.todo) = "key" /\ Len(r.todo) = 1
      BY <2>2
    <3> QED BY <1>1, <2>2, <3>1 DEF Holds
  <2> QED BY <1>1, <2>1, <2>2 DEF Planned, Plan
<1>2. CASE r.op = "revoke"
  <2>1. CASE r.todo = <<"readRow", "revoke">>
    <3>1. Head(r.todo) = "readRow" /\ Len(r.todo) = 2 /\ Tail(r.todo) = <<"revoke">>
      BY <2>1
    <3> QED BY <1>2, <2>1, <3>1 DEF Holds
  <2>2. CASE r.todo = <<"revoke">>
    <3>1. Head(r.todo) = "revoke" /\ Len(r.todo) = 1
      BY <2>2
    <3> QED BY <1>2, <2>2, <3>1 DEF Holds
  <2> QED BY <1>2, <2>1, <2>2 DEF Planned, Plan
<1>3. CASE r.op = "pin"
  <2>1. CASE r.todo = <<"pin", "flag">>
    <3>1. Head(r.todo) = "pin" /\ Len(r.todo) = 2 /\ Tail(r.todo) = <<"flag">>
      BY <2>1
    <3> QED BY <1>3, <2>1, <3>1 DEF Holds
  <2>2. CASE r.todo = <<"flag">>
    <3>1. Head(r.todo) = "flag" /\ Len(r.todo) = 1
      BY <2>2
    <3> QED BY <1>3, <2>2, <3>1 DEF Holds
  <2> QED BY <1>3, <2>1, <2>2 DEF Planned, Plan
<1>4. ASSUME NEW call, r.todo = <<call>>
      PROVE  Head(r.todo) = call /\ Len(r.todo) = 1 /\ r.todo # <<>>
  BY <1>4
<1>5. CASE r.op \notin {"read", "revoke", "pin"}
  BY <1>4, <1>5 DEF Planned, Plan, Holds
<1> QED BY <1>1, <1>2, <1>3, <1>5

LEMMA HoldsWrites ==
  ASSUME MessagesTypes, NEW w \in Requests, Holds(request[w])
  PROVE  Writing(w) /\ Due(w, Head(request[w].todo))
<1>1. Planned(request[w]) /\ request[w].todo # <<>>
  BY DEF MessagesTypes, Holds
<1>2. request[w].op # "none"
  BY <1>1 DEF Planned, Plan
<1> QED BY <1>1, <1>2, CallOf DEF Writing, Due, Active

\* What Start does, for the request r with its calls.
Begins(w, r) ==
  /\ request' = [request EXCEPT ![w] = r] /\ ~Active(w)
  /\ r \in RequestRecord /\ Planned(r) /\ r.op # "none"
  /\ UNCHANGED <<extra, pin, countVars, channelVars, phone>>
  /\ spent'.overlaps >= spent.overlaps /\ spent'.faults = spent.faults
  /\ spent' \in [reads : Nat, requests : Nat, overlaps : Nat, faults : Nat]
  /\ r.op # "read" /\ (job.step # "idle" \/ \E v \in Requests : Writing(v))
       => spent'.overlaps > spent.overlaps

LEMMA StartBegins ==
  ASSUME MessagesTypes, NEW w \in Requests, NEW r \in RequestRecord, NEW todo \in Seq(Calls),
         r.op # "none", Start(w, r, todo), Planned([r EXCEPT !.todo = todo])
  PROVE  /\ Begins(w, [r EXCEPT !.todo = todo])
         /\ [r EXCEPT !.todo = todo].todo = todo /\ [r EXCEPT !.todo = todo].op = r.op
         /\ [r EXCEPT !.todo = todo].at = r.at /\ [r EXCEPT !.todo = todo].on = r.on
         /\ [r EXCEPT !.todo = todo].uid = r.uid
<1> PICK s : s = [r EXCEPT !.todo = todo]
  OBVIOUS
<1>1. /\ s \in RequestRecord /\ s.op = r.op /\ s.todo = todo
      /\ s.at = r.at /\ s.on = r.on /\ s.uid = r.uid
  BY DEF RequestRecord
<1> DEFINE clash == job.step # "idle" \/ \E v \in Requests : Writing(v)
<1>2. /\ spent'.overlaps >= spent.overlaps /\ spent'.faults = spent.faults
      /\ spent' \in [reads : Nat, requests : Nat, overlaps : Nat, faults : Nat]
      /\ s.op # "read" /\ clash => spent'.overlaps > spent.overlaps
  <2>0. spent \in [reads : Nat, requests : Nat, overlaps : Nat, faults : Nat]
    BY DEF MessagesTypes
  <2>1. CASE r.op = "read"
    <3>1. spent' = [spent EXCEPT !.reads = @ + 1]
      BY <2>1 DEF Start
    <3> QED BY <1>1, <2>0, <2>1, <3>1
  <2>2. CASE r.op # "read"
    <3>1. PICK k : k = IF clash THEN spent.overlaps + 1 ELSE spent.overlaps
      OBVIOUS
    <3>2. spent' = [spent EXCEPT !.requests = spent.requests + 1, !.overlaps = k]
      BY <2>2, <3>1 DEF Start
    <3>3. k \in Nat /\ k >= spent.overlaps /\ (clash => k > spent.overlaps)
      <4> HIDE DEF clash
      <4> QED BY <2>0, <3>1
    <3>4. /\ spent' \in [reads : Nat, requests : Nat, overlaps : Nat, faults : Nat]
          /\ spent'.overlaps = k /\ spent'.faults = spent.faults
      <4>1. spent.requests + 1 \in Nat /\ k \in Nat
        BY <2>0, <3>3
      <4> QED BY <2>0, <3>2, <4>1
    <3> HIDE DEF clash
    <3> QED BY <3>3, <3>4
  <2> QED BY <2>1, <2>2
<1>3. /\ request' = [request EXCEPT ![w] = s] /\ ~Active(w)
      /\ UNCHANGED <<extra, pin, countVars, channelVars, phone>>
  BY DEF Start
<1> QED BY <1>1, <1>2, <1>3 DEF Begins

\* A handler draws its version as it begins, or has none yet; who joins a group
\* that shows its history has cleared nothing.
LEMMA HandleBegins ==
  ASSUME MessagesTypes, NEW w \in Requests, NEW u \in Users, Handle(w, u)
  PROVE  \E r : /\ Begins(w, r)
                /\ time' \in {time, time + 1}
                /\ Holds(r) => r.at = time + 1 /\ time' = time + 1 /\ r.op # "revoke"
                /\ r.op = "join" /\ r.on => r.at = 0 /\ offset[r.uid] = 0
<1>0. time \in Nat /\ Last \in Nat /\ 1 \in MessageIds
  BY MessagesAssumption DEF MessagesTypes, MessageIds
<1> DEFINE Fine(r) ==
      /\ Begins(w, r)
      /\ time' \in {time, time + 1}
      /\ Holds(r) => r.at = time + 1 /\ time' = time + 1 /\ r.op # "revoke"
      /\ r.op = "join" /\ r.on => r.at = 0 /\ offset[r.uid] = 0
<1>1. ASSUME NEW r \in RequestRecord, NEW todo \in Seq(Calls), r.op # "none",
             Start(w, r, todo),
             Plan(r.op, todo),
             time' \in {time, time + 1},
             /\ todo # <<>>
             /\ \/ Head(todo) \in {"read", "readRow", "pin", "offset", "join"}
                \/ r.at = time + 1 /\ time' = time + 1 /\ r.op # "revoke",
             r.op = "join" /\ r.on => r.at = 0 /\ offset[r.uid] = 0
      PROVE  \E q : Fine(q)
  <2> PICK s : s = [r EXCEPT !.todo = todo]
    OBVIOUS
  <2>1. s.op = r.op /\ s.todo = todo
    BY DEF RequestRecord
  <2>2. Planned(s)
    BY <1>1, <2>1 DEF Planned
  <2>3. /\ Begins(w, s) /\ s.at = r.at /\ s.on = r.on /\ s.uid = r.uid
    BY <1>1, <2>2, StartBegins
  <2>4. Holds(s) => r.at = time + 1 /\ time' = time + 1 /\ r.op # "revoke"
    BY <1>1, <2>1 DEF Holds
  <2>5. Fine(s)
    BY <1>1, <2>1, <2>3, <2>4
  <2> QED BY <2>5
<1>2. ASSUME NEW call
      PROVE  Head(<<call>>) = call /\ <<call>> # <<>>
  BY OneCall
<1>3. /\ Head(<<"read", "key">>) = "read" /\ <<"read", "key">> # <<>>
      /\ Head(<<"readRow", "revoke">>) = "readRow" /\ <<"readRow", "revoke">> # <<>>
      /\ Head(<<"pin", "flag">>) = "pin" /\ <<"pin", "flag">> # <<>>
  OBVIOUS
<1>4. /\ <<"read", "key">> \in Seq(Calls) /\ <<"readRow", "revoke">> \in Seq(Calls)
      /\ <<"pin", "flag">> \in Seq(Calls)
      /\ <<"edit">> \in Seq(Calls) /\ <<"erase">> \in Seq(Calls)
      /\ <<"eraseAndUnpin">> \in Seq(Calls) /\ <<"unpinAll">> \in Seq(Calls)
      /\ <<"offset">> \in Seq(Calls) /\ <<"join">> \in Seq(Calls)
  <2>1. ASSUME NEW a \in Calls, NEW b \in Calls
        PROVE  <<a>> \in Seq(Calls) /\ <<a, b>> \in Seq(Calls)
    OBVIOUS
  <2>2. {"read", "key", "edit", "erase", "eraseAndUnpin", "readRow", "revoke", "pin",
         "flag", "unpinAll", "offset", "join"} \subseteq Calls
    BY DEF Calls
  <2> QED BY <2>1, <2>2
<1> HIDE DEF Fine
<1>5. ASSUME NEW op \in {"read", "edit", "mutualDelete", "managerDelete", "revoke", "pin",
                         "clear", "offset", "join"},
             NEW m \in MessageIds
      PROVE  /\ Of(op, u, m) \in RequestRecord /\ Of(op, u, m).op = op
             /\ Of(op, u, m).uid = u
             /\ On(op, m) \in RequestRecord /\ On(op, m).op = op
  BY IdleTyped DEF Of, On, RequestRecord
<1>6. ASSUME NEW r \in RequestRecord
      PROVE  Stamped(r) \in RequestRecord /\ Stamped(r).op = r.op /\ Stamped(r).at = time + 1
  BY <1>0 DEF Stamped, RequestRecord
<1>7. ASSUME NEW m \in MessageIds, MessageReaded(w, u, m)
      PROVE  \E r : Fine(r)
  <2> PICK r : r = Of("read", u, m)
    OBVIOUS
  <2>1. r \in RequestRecord /\ r.op = "read"
    BY <1>5
  <2>2. Start(w, r, <<"read", "key">>) /\ UNCHANGED time
    BY <1>7 DEF MessageReaded
  <2>3. Plan(r.op, <<"read", "key">>)
    BY <2>1 DEF Plan
  <2> QED BY <1>1, <1>3, <1>4, <2>1, <2>2, <2>3
<1>8. ASSUME NEW m \in MessageIds, Revoke(w, u, m)
      PROVE  \E r : Fine(r)
  <2> PICK r : r = On("revoke", m)
    OBVIOUS
  <2>1. r \in RequestRecord /\ r.op = "revoke"
    BY <1>5
  <2>2. Start(w, r, <<"readRow", "revoke">>) /\ UNCHANGED time
    BY <1>8 DEF Revoke
  <2>3. Plan(r.op, <<"readRow", "revoke">>)
    BY <2>1 DEF Plan
  <2> QED BY <1>1, <1>3, <1>4, <2>1, <2>2, <2>3
<1>9. ASSUME NEW m \in MessageIds, Offset(w, u, m)
      PROVE  \E r : Fine(r)
  <2> PICK r : r = Of("offset", u, m)
    OBVIOUS
  <2>1. r \in RequestRecord /\ r.op = "offset"
    BY <1>5
  <2>2. Start(w, r, <<"offset">>) /\ UNCHANGED time
    BY <1>9 DEF Offset
  <2>3. Plan(r.op, <<"offset">>)
    BY <2>1 DEF Plan
  <2> QED BY <1>1, <1>2, <1>4, <2>1, <2>2, <2>3
<1>10. ASSUME NEW m \in MessageIds, PinnedMessage(w, u, m)
       PROVE  \E r : Fine(r)
  <2> PICK all : all = IF pin[m] = "none" THEN {m} ELSE {}
    OBVIOUS
  <2> PICK on : on = (m \notin Pinned)
    OBVIOUS
  <2> PICK r : r = [On("pin", m) EXCEPT !.on = on, !.all = all]
    OBVIOUS
  <2>1. r \in RequestRecord /\ r.op = "pin"
    <3>1. all \in SUBSET MessageIds /\ on \in BOOLEAN
      OBVIOUS
    <3>2. On("pin", m) \in RequestRecord /\ On("pin", m).op = "pin"
      BY <1>5
    <3> QED BY <3>1, <3>2 DEF RequestRecord
  <2>2. Start(w, r, <<"pin", "flag">>) /\ UNCHANGED time
    BY <1>10 DEF PinnedMessage
  <2>3. Plan(r.op, <<"pin", "flag">>)
    BY <2>1 DEF Plan
  <2> QED BY <1>1, <1>3, <1>4, <2>1, <2>2, <2>3
<1>11. ASSUME NEW m \in MessageIds, MessageEdit(w, u, m)
       PROVE  \E r : Fine(r)
  <2> PICK r : r = Stamped(On("edit", m))
    OBVIOUS
  <2>1. r \in RequestRecord /\ r.op = "edit" /\ r.at = time + 1
    BY <1>5, <1>6
  <2>2. Start(w, r, <<"edit">>) /\ Tick
    BY <1>11 DEF MessageEdit
  <2>3. Plan(r.op, <<"edit">>)
    BY <2>1 DEF Plan
  <2> QED BY <1>1, <1>2, <1>4, <2>1, <2>2, <2>3 DEF Tick
<1>12. ASSUME NEW m \in MessageIds, MutualDelete(w, u, m)
       PROVE  \E r : Fine(r)
  <2> PICK r : r = Stamped(On("mutualDelete", m))
    OBVIOUS
  <2>1. r \in RequestRecord /\ r.op = "mutualDelete" /\ r.at = time + 1
    BY <1>5, <1>6
  <2>2. Start(w, r, <<"erase">>) /\ Tick
    BY <1>12 DEF MutualDelete
  <2>3. Plan(r.op, <<"erase">>)
    BY <2>1 DEF Plan
  <2> QED BY <1>1, <1>2, <1>4, <2>1, <2>2, <2>3 DEF Tick
<1>13. ASSUME NEW m \in MessageIds, ManagerDelete(w, u, m)
       PROVE  \E r : Fine(r)
  <2> PICK on : on = (m \in Pinned)
    OBVIOUS
  <2> PICK q : q = Stamped(On("managerDelete", m))
    OBVIOUS
  <2> PICK r : r = [q EXCEPT !.on = on]
    OBVIOUS
  <2>1. r \in RequestRecord /\ r.op = "managerDelete" /\ r.at = time + 1
    <3>1. q \in RequestRecord /\ q.op = "managerDelete" /\ q.at = time + 1
      BY <1>5, <1>6
    <3>2. on \in BOOLEAN
      OBVIOUS
    <3> QED BY <3>1, <3>2 DEF RequestRecord
  <2>2. Start(w, r, <<"eraseAndUnpin">>) /\ Tick
    BY <1>13 DEF ManagerDelete
  <2>3. Plan(r.op, <<"eraseAndUnpin">>)
    BY <2>1 DEF Plan
  <2> QED BY <1>1, <1>2, <1>4, <2>1, <2>2, <2>3 DEF Tick
<1>14. ASSUME ClearPinnedMessage(w, u)
       PROVE  \E r : Fine(r)
  <2> PICK seen : seen = {m \in Pinned : ~Cleared(u, m)}
    OBVIOUS
  <2> PICK q : q = Stamped(On("clear", 1))
    OBVIOUS
  <2> PICK r : r = [q EXCEPT !.all = seen]
    OBVIOUS
  <2>0. seen \subseteq MessageIds
    BY DEF Pinned
  <2>1. r \in RequestRecord /\ r.op = "clear" /\ r.at = time + 1
    <3>1. q \in RequestRecord /\ q.op = "clear" /\ q.at = time + 1
      BY <1>0, <1>5, <1>6
    <3> QED BY <2>0, <3>1 DEF RequestRecord
  <2>2. Start(w, r, <<"unpinAll">>) /\ Tick
    BY <1>14 DEF ClearPinnedMessage
  <2>3. Plan(r.op, <<"unpinAll">>)
    BY <2>1 DEF Plan
  <2> QED BY <1>1, <1>2, <1>4, <2>1, <2>2, <2>3 DEF Tick
<1>15. ASSUME NEW history \in BOOLEAN, UpdateMembersChannelOffset(w, u, history)
       PROVE  \E r : Fine(r)
  <2> PICK at : at = IF history THEN 0 ELSE Last
    OBVIOUS
  <2> PICK r : r = [Of("join", u, 1) EXCEPT !.on = history, !.at = at]
    OBVIOUS
  <2>1. /\ r \in RequestRecord /\ r.op = "join" /\ r.uid = u /\ r.on = history
        /\ history => r.at = 0
    <3>1. at \in Nat /\ (history => at = 0)
      BY <1>0
    <3>2. Of("join", u, 1) \in RequestRecord /\ Of("join", u, 1).op = "join"
          /\ Of("join", u, 1).uid = u
      BY <1>0, <1>5
    <3> QED BY <3>1, <3>2 DEF RequestRecord
  <2>2. Start(w, r, <<"join">>) /\ UNCHANGED time /\ (history => offset[u] = 0)
    BY <1>15 DEF UpdateMembersChannelOffset
  <2>3. Plan(r.op, <<"join">>)
    BY <2>1 DEF Plan
  <2> QED BY <1>1, <1>2, <1>4, <2>1, <2>2, <2>3
<1>20. \E r : Fine(r)
  BY <1>7, <1>8, <1>9, <1>10, <1>11, <1>12, <1>13, <1>14, <1>15 DEF Handle
<1> QED BY <1>20 DEF Fine

\* One request goes on, or begins, as q.
LEMMA RequestStep ==
  ASSUME MessagesTypes, NEW w \in Requests, NEW q \in RequestRecord, Planned(q),
         request' = [request EXCEPT ![w] = q]
  PROVE  /\ request' \in [Requests -> RequestRecord]
         /\ \A v \in Requests : Planned(request'[v])
         /\ request'[w] = q
         /\ \A v \in Requests : v # w => request'[v] = request[v]
  BY DEF MessagesTypes

\* After its last call a request is over; a reader goes on to the key.
LEMMA DoneEnds ==
  ASSUME MessagesTypes, NEW w \in Requests, NEW call, Due(w, call), Done(w),
         call \notin {"read", "readRow", "pin"}
  PROVE  request' = [request EXCEPT ![w] = Idle] /\ UNCHANGED <<phone, spent>>
<1>1. Planned(request[w]) /\ request[w].op # "none" /\ Head(request[w].todo) = call
  BY DEF MessagesTypes, Due, Active
<1>2. Len(request[w].todo) = 1
  <2>1. /\ call \in Calls
        /\ request[w].todo # <<>>
    <3>1. request[w].todo \in Seq(Calls)
      BY DEF MessagesTypes, RequestRecord
    <3>2. request[w].todo # <<>>
      BY <1>1, CallOf
    <3> QED BY <1>1, <3>1, <3>2
  <2> QED BY <1>1, <2>1, CallOf DEF Calls
<1> QED BY <1>2 DEF Done

LEMMA DoneGoesOn ==
  ASSUME MessagesTypes, NEW w \in Requests, Due(w, "read"), Done(w)
  PROVE  \E q \in RequestRecord :
           /\ request' = [request EXCEPT ![w] = q] /\ Planned(q)
           /\ q.op = "read" /\ q.msg = request[w].msg /\ ~Holds(q)
           /\ request[w].op = "read" /\ UNCHANGED <<phone, spent>>
<1>1. Planned(request[w]) /\ request[w].op # "none" /\ Head(request[w].todo) = "read"
  BY DEF MessagesTypes, Due, Active
<1>2. request[w].op = "read" /\ Len(request[w].todo) # 1 /\ Tail(request[w].todo) = <<"key">>
  BY <1>1, CallOf
<1>3. PICK q : q = [request[w] EXCEPT !.todo = <<"key">>]
  OBVIOUS
<1>4. <<"key">> \in Seq(Calls)
  <2>1. "key" \in Calls
    BY DEF Calls
  <2> QED BY <2>1
<1>5. /\ q \in RequestRecord /\ q.op = "read" /\ q.msg = request[w].msg
      /\ q.todo = <<"key">>
  <2>1. request[w] \in RequestRecord
    BY DEF MessagesTypes
  <2> QED BY <1>2, <1>3, <1>4, <2>1 DEF RequestRecord
<1>6. ~Holds(q)
  BY <1>5, OneCall DEF Holds
<1>7. request' = [request EXCEPT ![w] = q] /\ UNCHANGED <<phone, spent>>
  BY <1>2, <1>3 DEF Done
<1>8. Planned(q)
  BY <1>5 DEF Planned, Plan
<1> QED BY <1>2, <1>5, <1>6, <1>7, <1>8

\* One request goes on as q, and the rows, the timer and the phone stay as
\* they are.
Quiet(w, q) ==
  /\ request' = [request EXCEPT ![w] = q] /\ q \in RequestRecord /\ Planned(q)
  /\ UNCHANGED <<extra, phone, job>>
  /\ time' \in {time, time + 1}
  /\ spent' \in [reads : Nat, requests : Nat, overlaps : Nat, faults : Nat]
  /\ spent'.overlaps >= spent.overlaps /\ spent'.faults >= spent.faults
  /\ Holds(q) => q.at = time + 1 /\ time' = time + 1
  /\ \/ q.op \in {"none", "read"} \/ Writing(w)
     \/ spent'.overlaps = 0 => job.step = "idle" /\ \A v \in Requests : ~Writing(v)

LEMMA QuietSpent ==
  ASSUME MessagesTypes, NEW w \in Requests, NEW q, Quiet(w, q)
  PROVE  /\ spent'.overlaps = 0 => spent.overlaps = 0
         /\ spent'.faults = 0 => spent.faults = 0
<1>1. /\ spent.overlaps \in Nat /\ spent.faults \in Nat
      /\ spent'.overlaps \in Nat /\ spent'.faults \in Nat
  BY DEF MessagesTypes, Quiet
<1>2. spent'.overlaps >= spent.overlaps /\ spent'.faults >= spent.faults
  BY DEF Quiet
<1> QED BY <1>1, <1>2

LEMMA QuietKept ==
  ASSUME MessagesInv, NEW w \in Requests, NEW q, Quiet(w, q)
  PROVE  Alone' /\ Drawn' /\ Got'
<1> USE DEF MessagesInv
<1>1. /\ request'[w] = q
      /\ \A v \in Requests : v # w => request'[v] = request[v]
  BY RequestStep DEF Quiet
<1>2. spent'.overlaps = 0 => spent.overlaps = 0
  BY QuietSpent
<1>3. Alone'
  <2> SUFFICES ASSUME spent'.overlaps = 0, NEW v \in Requests, Writing(v)'
               PROVE  job'.step = "idle" /\ \A x \in Requests : Writing(x)' => x = v
    BY DEF Alone
  <2>1. \A x \in Requests : x # w => (Writing(x)' <=> Writing(x))
    BY <1>1 DEF Writing
  <2>2. Writing(w)' <=> q.op \notin {"none", "read"}
    BY <1>1 DEF Writing
  <2>3. job' = job
    BY DEF Quiet
  <2>4. \A x \in Requests : Writing(x) =>
          job.step = "idle" /\ \A y \in Requests : Writing(y) => y = x
    BY <1>2 DEF Alone
  <2>5. \/ q.op \in {"none", "read"} \/ Writing(w)
        \/ job.step = "idle" /\ \A x \in Requests : ~Writing(x)
    BY DEF Quiet
  <2> QED BY <2>1, <2>2, <2>3, <2>4, <2>5
<1>4. /\ time \in Nat /\ phone.version \in Nat /\ phone.version <= time
      /\ \A m \in MessageIds : extra[m].version \in Nat /\ extra[m].version <= time
      /\ \A m \in MessageIds : job.rows[m].version \in Nat /\ job.rows[m].version <= time
      /\ time' \in {time, time + 1}
      /\ \A v \in Requests : request[v].at \in Nat
  BY DEF MessagesTypes, Got, Drawn, RowRecord, RequestRecord, JobRecord, Quiet
<1>5. extra' = extra /\ phone' = phone /\ job' = job
  BY DEF Quiet
<1>7. Drawn'
  <2>1. ASSUME NEW v \in Requests, Holds(request'[v])
        PROVE  /\ request'[v].at <= time'
               /\ spent'.overlaps = 0 => Above(request[v].at)'
    <3>1. CASE v = w
      <4>1. request'[v].at = time + 1 /\ time' = time + 1
        BY <1>1, <2>1, <3>1 DEF Quiet
      <4>2. Above(time + 1)
        BY <1>4 DEF Above
      <4> QED BY <1>4, <1>5, <4>1, <4>2 DEF Above
    <3>2. CASE v # w
      <4>1. request'[v] = request[v]
        BY <1>1, <3>2
      <4>2. request[v].at <= time /\ (spent.overlaps = 0 => Above(request[v].at))
        BY <2>1, <4>1 DEF Drawn
      <4> QED BY <1>2, <1>4, <1>5, <4>1, <4>2 DEF Above
    <3> QED BY <3>1, <3>2
  <2>2. \A m \in MessageIds : job'.rows[m].version <= time'
    BY <1>4, <1>5
  <2>3. spent'.overlaps = 0 /\ job'.step = "write"
          => \A m \in job'.batch : Above(job.rows[m].version)'
    <3>1. spent'.overlaps = 0 /\ job.step = "write"
            => \A m \in job.batch : Above(job.rows[m].version)
      BY <1>2 DEF Drawn
    <3> QED BY <1>5, <3>1 DEF Above
  <2>4. \A v \in Requests : Holds(request[v])' <=> Holds(request'[v])
    BY DEF Holds
  <2> QED BY <2>1, <2>2, <2>3, <2>4 DEF Drawn
<1>8. Got'
  <2>1. NothingMissed'
    BY <1>2, <1>5 DEF Got, NothingMissed
  <2>2. phone'.cached <= phone'.version
    BY <1>5 DEF Got
  <2> QED BY <1>4, <1>5, <2>1, <2>2 DEF Got
<1> QED BY <1>3, <1>7, <1>8

\* The counts, while the readers and the keys stay.
LEMMA QuietCounts ==
  ASSUME MessagesInv, NEW w \in Requests, NEW q, Quiet(w, q), UNCHANGED <<reads, keys>>,
         request[w].op = "read" =>
           (spent'.faults = 0 => q.op = "read" /\ q.msg = request[w].msg),
         Holds(q) /\ q.op = "revoke" => q.row.count = extra[q.msg].count
  PROVE  CountsRight'
<1> USE DEF MessagesInv
<1>1. /\ request'[w] = q
      /\ \A v \in Requests : v # w => request'[v] = request[v]
      /\ extra' = extra /\ job' = job
  BY RequestStep DEF Quiet
<1> SUFFICES ASSUME spent'.overlaps = 0, spent'.faults = 0, NEW m \in MessageIds
             PROVE  /\ IF job'.step # "idle" /\ m \in job'.batch
                       THEN job'.step = "write" =>
                              /\ CountRight(job.rows[m], m)' \/ Told(m)'
                              /\ job'.rows[m].row = extra'[m].row
                       ELSE CountRight(extra[m], m)' \/ Told(m)'
                    /\ \A v \in Requests :
                         Holds(request'[v]) /\ request'[v].op = "revoke" /\ request'[v].msg = m
                           => request'[v].row.count = extra'[m].count
  BY DEF CountsRight, Holds
<1>2. spent.overlaps = 0 /\ spent.faults = 0
  BY QuietSpent
<1>3. Told(m) => Told(m)'
  BY <1>1 DEF Told
<1>4. /\ CountRight(job.rows[m], m)' <=> CountRight(job.rows[m], m)
      /\ CountRight(extra[m], m)' <=> CountRight(extra[m], m)
  BY <1>1 DEF CountRight, Readers
<1>5. IF job'.step # "idle" /\ m \in job'.batch
      THEN job'.step = "write" =>
             /\ CountRight(job.rows[m], m)' \/ Told(m)'
             /\ job'.rows[m].row = extra'[m].row
      ELSE CountRight(extra[m], m)' \/ Told(m)'
  <2>1. IF job.step # "idle" /\ m \in job.batch
        THEN job.step = "write" =>
               /\ CountRight(job.rows[m], m) \/ Told(m)
               /\ job.rows[m].row = extra[m].row
        ELSE CountRight(extra[m], m) \/ Told(m)
    BY <1>2 DEF CountsRight
  <2> QED BY <1>1, <1>3, <1>4, <2>1
<1>6. ASSUME NEW v \in Requests, Holds(request'[v]), request'[v].op = "revoke",
             request'[v].msg = m
      PROVE  request'[v].row.count = extra'[m].count
  BY <1>1, <1>2, <1>6 DEF CountsRight
<1> QED BY <1>5, <1>6

LEMMA QuietJoins ==
  ASSUME MessagesInv, NEW w \in Requests, NEW q, Quiet(w, q), offset' = offset,
         q.op = "join" /\ q.on => q.at = 0 /\ offset[q.uid] = 0
  PROVE  Joins'
<1>1. /\ request'[w] = q
      /\ \A v \in Requests : v # w => request'[v] = request[v]
  BY RequestStep DEF Quiet, MessagesInv
<1>2. spent'.overlaps = 0 => spent.overlaps = 0
  BY QuietSpent DEF MessagesInv
<1> QED BY <1>1, <1>2 DEF Joins, MessagesInv

LEMMA QuietTypes ==
  ASSUME MessagesTypes, NEW w \in Requests, NEW q, Quiet(w, q),
         reads' \subseteq Users \X MessageIds, keys' \subseteq MessageIds,
         offset' \in [Users -> Nat]
  PROVE  MessagesTypes'
<1>1. request' \in [Requests -> RequestRecord] /\ \A v \in Requests : Planned(request'[v])
  BY RequestStep DEF Quiet
<1>2. extra' = extra /\ phone' = phone /\ job' = job /\ time' \in Nat
  BY DEF Quiet, MessagesTypes
<1>3. spent' \in [reads : Nat, requests : Nat, overlaps : Nat, faults : Nat]
  BY DEF Quiet
<1>4. \A v \in Requests : Planned(request[v])'
  BY <1>1 DEF Planned
<1> QED BY <1>1, <1>2, <1>3, <1>4 DEF MessagesTypes

-----------------------------------------------------------------------------
(***************************************************************************)
(* Messages: every step keeps the invariant                                *)
(***************************************************************************)
LEMMA HandleKeeps ==
  ASSUME MessagesInv, NEW w \in Requests, NEW u \in Users, Handle(w, u)
  PROVE  MessagesInv'
<1> USE DEF MessagesInv
<1>1. PICK q : /\ Begins(w, q)
               /\ time' \in {time, time + 1}
               /\ Holds(q) => q.at = time + 1 /\ time' = time + 1 /\ q.op # "revoke"
               /\ q.op = "join" /\ q.on => q.at = 0 /\ offset[q.uid] = 0
  BY HandleBegins
<1>2. UNCHANGED <<extra, reads, keys, job, offset, phone>>
  BY <1>1 DEF Begins, countVars, channelVars
<1>3. Quiet(w, q)
  <2>1. spent.faults \in Nat /\ spent.overlaps \in Nat /\ spent'.overlaps \in Nat
    BY <1>1 DEF MessagesTypes, Begins
  <2>2. \/ q.op \in {"none", "read"}
        \/ spent'.overlaps = 0 => job.step = "idle" /\ \A v \in Requests : ~Writing(v)
    <3>1. q.op # "read" /\ (job.step # "idle" \/ \E v \in Requests : Writing(v))
            => spent'.overlaps > spent.overlaps
      BY <1>1 DEF Begins
    <3> QED BY <2>1, <3>1
  <2>3. spent'.faults >= spent.faults
    BY <1>1, <2>1 DEF Begins
  <2> QED BY <1>1, <1>2, <2>2, <2>3 DEF Begins, Quiet
<1>4. request[w].op = "none"
  BY <1>1 DEF Begins, Active
<1>5. MessagesTypes'
  BY <1>2, <1>3, QuietTypes DEF MessagesTypes
<1>6. CountsRight'
  BY <1>1, <1>2, <1>3, <1>4, QuietCounts
<1>7. Joins'
  BY <1>1, <1>2, <1>3, QuietJoins
<1> QED BY <1>3, <1>5, <1>6, <1>7, QuietKept

LEMMA AddReaderKeeps ==
  ASSUME MessagesInv, NEW w \in Requests, AddReader(w)
  PROVE  MessagesInv'
<1> USE DEF MessagesInv
<1>1. PICK q \in RequestRecord :
           /\ request' = [request EXCEPT ![w] = q] /\ Planned(q)
           /\ q.op = "read" /\ q.msg = request[w].msg /\ ~Holds(q)
           /\ request[w].op = "read" /\ UNCHANGED <<phone, spent>>
  BY DoneGoesOn DEF AddReader
<1>2. /\ UNCHANGED <<extra, time, keys, job, offset>>
      /\ reads' = reads \cup {<<request[w].uid, request[w].msg>>}
  BY DEF AddReader, rowVars, channelVars
<1>3. Quiet(w, q)
  <2>1. spent.faults \in Nat /\ spent.overlaps \in Nat
        /\ spent \in [reads : Nat, requests : Nat, overlaps : Nat, faults : Nat]
    BY DEF MessagesTypes
  <2> QED BY <1>1, <1>2, <2>1 DEF Quiet
<1>4. MessagesTypes'
  <2>1. request[w].uid \in Users /\ request[w].msg \in MessageIds
    BY DEF MessagesTypes, RequestRecord
  <2> QED BY <1>2, <1>3, <2>1, QuietTypes DEF MessagesTypes
<1>5. Joins'
  BY <1>1, <1>2, <1>3, QuietJoins
<1>6. CountsRight'
  <2>1. /\ request'[w] = q
        /\ \A v \in Requests : v # w => request'[v] = request[v]
    BY <1>1, RequestStep
  <2> SUFFICES ASSUME spent.overlaps = 0, spent.faults = 0, NEW m \in MessageIds
               PROVE  /\ IF job.step # "idle" /\ m \in job.batch
                         THEN job.step = "write" =>
                                /\ CountRight(job.rows[m], m)' \/ Told(m)'
                                /\ job.rows[m].row = extra[m].row
                         ELSE CountRight(extra[m], m)' \/ Told(m)'
                      /\ \A v \in Requests :
                           Holds(request'[v]) /\ request'[v].op = "revoke"
                               /\ request'[v].msg = m
                             => request'[v].row.count = extra[m].count
    BY <1>1, <1>2 DEF CountsRight, Holds
  <2>2. IF job.step # "idle" /\ m \in job.batch
        THEN job.step = "write" =>
               /\ CountRight(job.rows[m], m) \/ Told(m)
               /\ job.rows[m].row = extra[m].row
        ELSE CountRight(extra[m], m) \/ Told(m)
    BY DEF CountsRight
  <2>3. CASE m = request[w].msg
    <3>1. Told(m)'
      BY <1>1, <2>1, <2>3 DEF Told
    <3> QED BY <1>1, <2>1, <2>2, <3>1 DEF CountsRight
  <2>4. CASE m # request[w].msg
    <3>1. Readers(m)' = Readers(m)
      BY <1>2, <2>4 DEF Readers
    <3>2. Told(m) => Told(m)'
      BY <1>1, <1>2, <2>1 DEF Told
    <3>3. /\ CountRight(job.rows[m], m)' <=> CountRight(job.rows[m], m)
          /\ CountRight(extra[m], m)' <=> CountRight(extra[m], m)
      BY <1>2, <3>1 DEF CountRight
    <3> QED BY <1>1, <2>1, <2>2, <3>2, <3>3 DEF CountsRight
  <2> QED BY <2>3, <2>4
<1> QED BY <1>3, <1>4, <1>5, <1>6, QuietKept

LEMMA SetKeyKeeps ==
  ASSUME MessagesInv, NEW w \in Requests, SetKey(w)
  PROVE  MessagesInv'
<1> USE DEF MessagesInv
<1>1. request' = [request EXCEPT ![w] = Idle] /\ UNCHANGED <<phone, spent>>
  BY DoneEnds DEF SetKey
<1>2. /\ UNCHANGED <<extra, time, reads, job, offset>>
      /\ keys' = keys \cup {request[w].msg}
  BY DEF SetKey, rowVars, channelVars
<1>3. Quiet(w, Idle)
  <2>1. spent.faults \in Nat /\ spent.overlaps \in Nat
        /\ spent \in [reads : Nat, requests : Nat, overlaps : Nat, faults : Nat]
    BY DEF MessagesTypes
  <2> QED BY <1>1, <1>2, <2>1, IdleTyped DEF Quiet
<1>4. MessagesTypes'
  <2>1. request[w].msg \in MessageIds
    BY DEF MessagesTypes, RequestRecord
  <2> QED BY <1>2, <1>3, <2>1, QuietTypes DEF MessagesTypes
<1>5. Joins'
  BY <1>1, <1>2, <1>3, QuietJoins, IdleTyped
<1>6. CountsRight'
  <2>1. /\ request'[w] = Idle
        /\ \A v \in Requests : v # w => request'[v] = request[v]
    BY <1>1, RequestStep, IdleTyped
  <2> SUFFICES ASSUME spent.overlaps = 0, spent.faults = 0, NEW m \in MessageIds
               PROVE  /\ IF job.step # "idle" /\ m \in job.batch
                         THEN job.step = "write" =>
                                /\ CountRight(job.rows[m], m)' \/ Told(m)'
                                /\ job.rows[m].row = extra[m].row
                         ELSE CountRight(extra[m], m)' \/ Told(m)'
                      /\ \A v \in Requests :
                           Holds(request'[v]) /\ request'[v].op = "revoke"
                               /\ request'[v].msg = m
                             => request'[v].row.count = extra[m].count
    BY <1>1, <1>2 DEF CountsRight, Holds
  <2>2. IF job.step # "idle" /\ m \in job.batch
        THEN job.step = "write" =>
               /\ CountRight(job.rows[m], m) \/ Told(m)
               /\ job.rows[m].row = extra[m].row
        ELSE CountRight(extra[m], m) \/ Told(m)
    BY DEF CountsRight
  <2>3. Told(m) => Told(m)'
    BY <1>2, <2>1 DEF Told
  <2>4. /\ CountRight(job.rows[m], m)' <=> CountRight(job.rows[m], m)
        /\ CountRight(extra[m], m)' <=> CountRight(extra[m], m)
    BY <1>2 DEF CountRight, Readers
  <2> QED BY <2>1, <2>2, <2>3, <2>4, IdleTyped DEF CountsRight
<1> QED BY <1>3, <1>4, <1>5, <1>6, QuietKept

\* A request ends without its next call.
LEMMA DropKeeps ==
  ASSUME MessagesInv, NEW w \in Requests, Active(w),
         request' = [request EXCEPT ![w] = Idle],
         UNCHANGED <<rowVars, countVars, channelVars, phone>>,
         \/ UNCHANGED spent /\ request[w].op # "read"
         \/ spent' = [spent EXCEPT !.faults = @ + 1]
  PROVE  MessagesInv'
<1> USE DEF MessagesInv
<1>1. UNCHANGED <<extra, time, reads, keys, job, offset, phone>>
  BY DEF rowVars, countVars, channelVars
<1>2. /\ spent' \in [reads : Nat, requests : Nat, overlaps : Nat, faults : Nat]
      /\ spent'.overlaps = spent.overlaps /\ spent.overlaps \in Nat
      /\ spent'.faults >= spent.faults
      /\ request[w].op = "read" => spent'.faults # 0
  <2>1. spent \in [reads : Nat, requests : Nat, overlaps : Nat, faults : Nat]
    BY DEF MessagesTypes
  <2>2. CASE UNCHANGED spent /\ request[w].op # "read"
    <3>1. spent.overlaps \in Nat /\ spent.faults \in Nat
      BY <2>1
    <3> QED BY <2>1, <2>2, <3>1
  <2>3. CASE spent' = [spent EXCEPT !.faults = @ + 1]
    BY <2>1, <2>3
  <2> QED BY <2>2, <2>3
<1>3. Quiet(w, Idle)
  BY <1>1, <1>2, IdleTyped DEF Quiet
<1>4. MessagesTypes'
  BY <1>1, <1>3, QuietTypes DEF MessagesTypes
<1>5. Joins'
  BY <1>1, <1>3, QuietJoins, IdleTyped
<1>6. CountsRight'
  BY <1>1, <1>2, <1>3, QuietCounts, IdleTyped
<1> QED BY <1>3, <1>4, <1>5, <1>6, QuietKept

\* A request draws the version of its row.
LEMMA DrawKeeps ==
  ASSUME MessagesInv, NEW w \in Requests, Writing(w), NEW q \in RequestRecord,
         request' = [request EXCEPT ![w] = q], Planned(q),
         UNCHANGED <<extra, countVars, channelVars, phone, spent>>, Tick,
         q.at = time + 1, q.op # "join", q.op \notin {"none", "read"},
         q.op = "revoke" => q.row = extra[q.msg]
  PROVE  MessagesInv'
<1> USE DEF MessagesInv
<1>1. UNCHANGED <<extra, reads, keys, job, offset, phone, spent>> /\ time' = time + 1
  BY DEF countVars, channelVars, Tick
<1>2. Quiet(w, q)
  <2>1. /\ spent \in [reads : Nat, requests : Nat, overlaps : Nat, faults : Nat]
        /\ spent.overlaps \in Nat /\ spent.faults \in Nat
    BY DEF MessagesTypes
  <2> QED BY <1>1, <2>1 DEF Quiet
<1>3. request[w].op # "read"
  BY DEF Writing
<1>4. MessagesTypes'
  BY <1>1, <1>2, QuietTypes DEF MessagesTypes
<1>5. Joins'
  BY <1>1, <1>2, QuietJoins
<1>6. CountsRight'
  BY <1>1, <1>2, <1>3, QuietCounts
<1> QED BY <1>2, <1>4, <1>5, <1>6, QuietKept

LEMMA ReadRowKeeps ==
  ASSUME MessagesInv, NEW w \in Requests, ReadRow(w)
  PROVE  MessagesInv'
<1> USE DEF MessagesInv
<1>1. Planned(request[w]) /\ request[w].op # "none" /\ Head(request[w].todo) = "readRow"
  BY DEF ReadRow, Due, Active, MessagesTypes
<1>2. request[w].op = "revoke" /\ Tail(request[w].todo) = <<"revoke">>
  BY <1>1, CallOf
<1>3. PICK q : q = [request[w] EXCEPT !.row = extra[request[w].msg], !.at = time + 1,
                                      !.todo = <<"revoke">>]
  OBVIOUS
<1>4. /\ q \in RequestRecord /\ q.op = "revoke" /\ q.todo = <<"revoke">>
      /\ q.at = time + 1 /\ q.row = extra[q.msg]
  <2>1. request[w] \in RequestRecord /\ time + 1 \in Nat
    BY DEF MessagesTypes
  <2>2. request[w].msg \in MessageIds
    BY <2>1 DEF RequestRecord
  <2>3. extra[request[w].msg] \in RowRecord
    BY <2>2 DEF MessagesTypes
  <2>4. <<"revoke">> \in Seq(Calls)
    <3>1. "revoke" \in Calls
      BY DEF Calls
    <3> QED BY <3>1
  <2> QED BY <1>2, <1>3, <2>1, <2>3, <2>4 DEF RequestRecord
<1>5. request' = [request EXCEPT ![w] = q]
  BY <1>2, <1>3 DEF ReadRow
<1>6. Planned(q) /\ Writing(w)
  BY <1>2, <1>4 DEF Planned, Plan, Writing
<1> QED BY <1>4, <1>5, <1>6, DrawKeeps DEF ReadRow

LEMMA WritePinKeeps ==
  ASSUME MessagesInv, NEW w \in Requests, WritePin(w)
  PROVE  MessagesInv'
<1> USE DEF MessagesInv
<1>1. Planned(request[w]) /\ request[w].op # "none" /\ Head(request[w].todo) = "pin"
  BY DEF WritePin, Due, Active, MessagesTypes
<1>2. request[w].op = "pin" /\ Tail(request[w].todo) = <<"flag">>
  BY <1>1, CallOf
<1>3. CASE Refuse(w)
  BY <1>2, <1>3, DropKeeps DEF Refuse, Active
<1>4. CASE ~Refuse(w)
  <2>1. PICK q : q = [request[w] EXCEPT !.at = time + 1, !.todo = <<"flag">>]
    OBVIOUS
  <2>2. q \in RequestRecord /\ q.op = "pin" /\ q.todo = <<"flag">> /\ q.at = time + 1
    <3>1. request[w] \in RequestRecord /\ time + 1 \in Nat
      BY DEF MessagesTypes
    <3>2. <<"flag">> \in Seq(Calls)
      <4>1. "flag" \in Calls
        BY DEF Calls
      <4> QED BY <4>1
    <3> QED BY <1>2, <2>1, <3>1, <3>2 DEF RequestRecord
  <2>3. /\ request' = [request EXCEPT ![w] = q] /\ Tick
        /\ UNCHANGED <<extra, countVars, channelVars, phone, spent>>
    BY <1>2, <1>4, <2>1 DEF WritePin
  <2>4. Planned(q) /\ Writing(w)
    BY <1>2, <2>2 DEF Planned, Plan, Writing
  <2> QED BY <2>2, <2>3, <2>4, DrawKeeps
<1> QED BY <1>3, <1>4

\* The last call of a writer moves the offset of a user.
LEMMA OffsetKeeps ==
  ASSUME MessagesInv, NEW w \in Requests, Writing(w),
         request' = [request EXCEPT ![w] = Idle],
         UNCHANGED <<extra, time, countVars, phone, spent>>, offset' \in [Users -> Nat]
  PROVE  MessagesInv'
<1> USE DEF MessagesInv
<1>1. UNCHANGED <<extra, time, reads, keys, job, phone, spent>>
  BY DEF countVars
<1>2. Quiet(w, Idle)
  <2>1. /\ spent \in [reads : Nat, requests : Nat, overlaps : Nat, faults : Nat]
        /\ spent.overlaps \in Nat /\ spent.faults \in Nat
    BY DEF MessagesTypes
  <2> QED BY <1>1, <2>1, IdleTyped DEF Quiet
<1>3. MessagesTypes'
  BY <1>1, <1>2, QuietTypes DEF MessagesTypes
<1>4. CountsRight'
  BY <1>1, <1>2, QuietCounts, IdleTyped DEF Writing
<1>5. Joins'
  <2>1. /\ request'[w] = Idle
        /\ \A v \in Requests : v # w => request'[v] = request[v]
    BY RequestStep, IdleTyped
  <2> SUFFICES ASSUME spent.overlaps = 0, NEW v \in Requests, request'[v].op = "join"
               PROVE  FALSE
    BY <1>1 DEF Joins
  <2>2. v # w /\ Writing(v)
    BY <2>1, IdleTyped DEF Writing
  <2> QED BY <2>2 DEF Alone
<1> QED BY <1>2, <1>3, <1>4, <1>5, QuietKept

LEMMA WriteOffsetKeeps ==
  ASSUME MessagesInv, NEW w \in Requests, WriteOffset(w)
  PROVE  MessagesInv'
<1> USE DEF MessagesInv
<1>1. Planned(request[w]) /\ request[w].op # "none" /\ Head(request[w].todo) = "offset"
  BY DEF WriteOffset, Due, Active, MessagesTypes
<1>2. Writing(w)
  BY <1>1, CallOf DEF Writing
<1>3. request' = [request EXCEPT ![w] = Idle] /\ UNCHANGED <<phone, spent>>
  BY DoneEnds DEF WriteOffset
<1>4. offset' \in [Users -> Nat]
  <2>1. request[w].msg \in Nat
    BY MessagesAssumption DEF MessagesTypes, RequestRecord, MessageIds
  <2>2. offset \in [Users -> Nat]
    BY DEF MessagesTypes
  <2> QED BY <2>1, <2>2 DEF WriteOffset
<1>5. UNCHANGED <<extra, time, countVars>>
  BY DEF WriteOffset, rowVars
<1> QED BY <1>2, <1>3, <1>4, <1>5, OffsetKeeps

LEMMA JoinKeeps ==
  ASSUME MessagesInv, NEW w \in Requests, Join(w)
  PROVE  MessagesInv'
<1> USE DEF MessagesInv
<1>1. Planned(request[w]) /\ request[w].op # "none" /\ Head(request[w].todo) = "join"
  BY DEF Join, Due, Active, MessagesTypes
<1>2. Writing(w)
  BY <1>1, CallOf DEF Writing
<1>3. request' = [request EXCEPT ![w] = Idle] /\ UNCHANGED <<phone, spent>>
  BY DoneEnds DEF Join
<1>4. offset' \in [Users -> Nat]
  BY DEF Join, MessagesTypes, RequestRecord
<1>5. UNCHANGED <<extra, time, countVars>>
  BY DEF Join, rowVars
<1> QED BY <1>2, <1>3, <1>4, <1>5, OffsetKeeps

\* A deletion for one user, and a step that does nothing.
LEMMA AsideKeeps ==
  ASSUME MessagesInv, UNCHANGED <<rowVars, countVars, offset, phone, request>>,
         spent' \in [reads : Nat, requests : Nat, overlaps : Nat, faults : Nat],
         spent'.overlaps = spent.overlaps, spent'.faults = spent.faults
  PROVE  MessagesInv'
<1> USE DEF MessagesInv
<1>1. UNCHANGED <<extra, time, reads, keys, job, offset, phone, request>>
  BY DEF rowVars, countVars
<1>2. MessagesTypes'
  BY <1>1 DEF MessagesTypes, Planned
<1>3. Alone'
  BY <1>1 DEF Alone, Writing
<1>4. Drawn'
  BY <1>1 DEF Drawn, Above, Holds
<1>5. Got'
  BY <1>1 DEF Got, NothingMissed
<1>6. CountsRight'
  <2>1. \A m \in MessageIds :
          /\ Told(m)' <=> Told(m)
          /\ CountRight(extra[m], m)' <=> CountRight(extra[m], m)
          /\ CountRight(job.rows[m], m)' <=> CountRight(job.rows[m], m)
    BY <1>1 DEF CountRight, Told, Readers
  <2>2. \A v \in Requests : Holds(request[v])' <=> Holds(request[v])
    BY <1>1 DEF Holds
  <2> QED BY <1>1, <2>1, <2>2 DEF CountsRight
<1>7. Joins'
  BY <1>1 DEF Joins
<1> QED BY <1>2, <1>3, <1>4, <1>5, <1>6, <1>7

LEMMA DeleteKeeps ==
  ASSUME MessagesInv, NEW u, NEW m, Delete(u, m)
  PROVE  MessagesInv'
<1>1. spent \in [reads : Nat, requests : Nat, overlaps : Nat, faults : Nat]
  BY DEF MessagesInv, MessagesTypes
<1>2. /\ spent' = [spent EXCEPT !.requests = @ + 1]
      /\ UNCHANGED <<rowVars, countVars, offset, phone, request>>
  BY DEF Delete, AtOnce
<1> QED BY <1>1, <1>2, AsideKeeps

-----------------------------------------------------------------------------
(***************************************************************************)
(* Messages: the writes of message_extra                                   *)
(***************************************************************************)
\* A request writes the rows of W with the version that it holds.
LEMMA RowsKeep ==
  ASSUME MessagesInv, NEW w \in Requests, Holds(request[w]),
         NEW W \in SUBSET MessageIds,
         extra' \in [MessageIds -> RowRecord],
         \A m \in MessageIds \ W : extra'[m] = extra[m],
         \A m \in W : extra'[m].version = request[w].at,
         spent.overlaps = 0 /\ spent.faults = 0 =>
           \A m \in W : extra'[m].count = extra[m].count,
         request' = [request EXCEPT ![w] = Idle],
         UNCHANGED <<time, countVars, channelVars, phone, spent>>
  PROVE  MessagesInv'
<1> USE DEF MessagesInv
<1>1. UNCHANGED <<time, reads, keys, job, offset, phone, spent>>
  BY DEF countVars, channelVars
<1>2. /\ request' \in [Requests -> RequestRecord]
      /\ \A v \in Requests : Planned(request'[v])
      /\ request'[w] = Idle
      /\ \A v \in Requests : v # w => request'[v] = request[v]
  BY RequestStep, IdleTyped
<1>3. Writing(w)
  BY HoldsWrites
<1>4. MessagesTypes'
  BY <1>1, <1>2 DEF MessagesTypes, Planned
<1>5. ASSUME spent.overlaps = 0
      PROVE  job.step = "idle" /\ \A v \in Requests : ~Writing(v)' /\ ~Holds(request'[v])
  <2>1. job.step = "idle" /\ \A v \in Requests : Writing(v) => v = w
    BY <1>3, <1>5 DEF Alone
  <2>2. \A v \in Requests : Holds(request[v]) => Writing(v)
    BY HoldsWrites
  <2> QED BY <1>2, <2>1, <2>2, IdleTyped DEF Writing
<1>6. Alone'
  BY <1>1, <1>5 DEF Alone
<1>7. Drawn'
  <2>1. ASSUME NEW v \in Requests, Holds(request'[v])
        PROVE  request'[v].at <= time
    BY <1>2, <2>1, IdleTyped DEF Drawn
  <2>2. \A m \in MessageIds : job.rows[m].version <= time
    BY DEF Drawn
  <2> QED BY <1>1, <1>5, <2>1, <2>2 DEF Drawn, Holds
<1>8. Got'
  <2>1. request[w].at <= time /\ (spent.overlaps = 0 => Above(request[w].at))
    BY DEF Drawn
  <2>2. \A m \in MessageIds : extra'[m].version <= time
    BY <2>1 DEF Got
  <2>3. phone.version \in Nat /\ request[w].at \in Nat
    BY DEF MessagesTypes, RequestRecord
  <2>4. NothingMissed'
    <3> SUFFICES ASSUME spent.overlaps = 0, NEW m \in MessageIds, extra'[m].row,
                        extra'[m].version <= phone.version
                 PROVE  phone.rows[m] = extra'[m]
      BY <1>1 DEF NothingMissed
    <3>1. m \notin W
      BY <2>1, <2>3 DEF Above
    <3> QED BY <3>1 DEF Got, NothingMissed
  <2> QED BY <1>1, <2>2, <2>4 DEF Got
<1>9. CountsRight'
  <2> SUFFICES ASSUME spent.overlaps = 0, spent.faults = 0, NEW m \in MessageIds
               PROVE  CountRight(extra[m], m)' \/ Told(m)'
    BY <1>1, <1>5 DEF CountsRight, Holds
  <2>1. CountRight(extra[m], m) \/ Told(m)
    BY <1>5 DEF CountsRight
  <2>2. extra'[m].count = extra[m].count
    OBVIOUS
  <2>3. CountRight(extra[m], m) => CountRight(extra[m], m)'
    BY <1>1, <2>2 DEF CountRight, Readers
  <2>4. Told(m) => Told(m)'
    BY <1>1, <1>2, <1>3 DEF Told, Writing
  <2> QED BY <2>1, <2>3, <2>4
<1>10. Joins'
  <2> SUFFICES ASSUME spent.overlaps = 0, NEW v \in Requests, request'[v].op = "join"
               PROVE  FALSE
    BY <1>1 DEF Joins
  <2> QED BY <1>5 DEF Writing
<1> QED BY <1>4, <1>6, <1>7, <1>8, <1>9, <1>10

\* A handler's upsert of one field.
LEMMA UpsertTyped ==
  ASSUME MessagesTypes, NEW m \in MessageIds, NEW at \in Nat,
         NEW field \in {"deleted", "pinned", "edited"}, NEW value \in BOOLEAN
  PROVE  /\ Upsert(m, at, field, value) \in [MessageIds -> RowRecord]
         /\ \A n \in MessageIds \ {m} : Upsert(m, at, field, value)[n] = extra[n]
         /\ Upsert(m, at, field, value)[m].version = at
         /\ Upsert(m, at, field, value)[m].count = extra[m].count
<1>1. extra[m] \in RowRecord /\ extra \in [MessageIds -> RowRecord]
  BY DEF MessagesTypes
<1>2. PICK row : row = [extra[m] EXCEPT !.row = TRUE, !.version = at, ![field] = value]
  OBVIOUS
<1>3. row \in RowRecord /\ row.version = at /\ row.count = extra[m].count
  <2>1. CASE field = "deleted"
    BY <1>1, <1>2, <2>1 DEF RowRecord
  <2>2. CASE field = "pinned"
    BY <1>1, <1>2, <2>2 DEF RowRecord
  <2>3. CASE field = "edited"
    BY <1>1, <1>2, <2>3 DEF RowRecord
  <2> QED BY <2>1, <2>2, <2>3
<1>4. Upsert(m, at, field, value) = [extra EXCEPT ![m] = row]
  BY <1>2 DEF Upsert
<1> QED BY <1>1, <1>3, <1>4

LEMMA UpsertKeeps ==
  ASSUME MessagesInv, NEW w \in Requests, NEW call, Due(w, call),
         call \in {"edit", "erase", "eraseAndUnpin", "flag"},
         NEW field \in {"deleted", "pinned", "edited"}, NEW value \in BOOLEAN,
         extra' = Upsert(request[w].msg, request[w].at, field, value), Done(w),
         UNCHANGED <<time, countVars, channelVars>>
  PROVE  MessagesInv'
<1> USE DEF MessagesInv
<1>1. request' = [request EXCEPT ![w] = Idle] /\ UNCHANGED <<phone, spent>>
  BY DoneEnds
<1>2. Planned(request[w]) /\ request[w].op # "none" /\ Head(request[w].todo) = call
  BY DEF Due, Active, MessagesTypes
<1>3. Holds(request[w])
  BY <1>2, CallOf DEF Holds
<1>4. request[w].msg \in MessageIds /\ request[w].at \in Nat
  BY DEF MessagesTypes, RequestRecord
<1>5. PICK m \in MessageIds, at \in Nat : m = request[w].msg /\ at = request[w].at
  BY <1>4
<1>6. PICK W \in SUBSET MessageIds : W = {m}
  OBVIOUS
<1>7. /\ extra' \in [MessageIds -> RowRecord]
      /\ \A n \in MessageIds \ W : extra'[n] = extra[n]
      /\ \A n \in W : extra'[n].version = request[w].at
      /\ \A n \in W : extra'[n].count = extra[n].count
  BY <1>5, <1>6, UpsertTyped
<1> QED BY <1>1, <1>3, <1>7, RowsKeep

LEMMA RowWritesKeep ==
  ASSUME MessagesInv, NEW w \in Requests,
         \/ InsertOrUpdateContentEdit(w) \/ InsertOrUpdateDeleted(w)
         \/ EraseAndUnpin(w) \/ InsertOrUpdatePinned(w)
  PROVE  MessagesInv'
<1>1. request[w].on \in BOOLEAN
  BY DEF MessagesInv, MessagesTypes, RequestRecord
<1>2. CASE InsertOrUpdateContentEdit(w)
  BY <1>2, UpsertKeeps DEF InsertOrUpdateContentEdit
<1>3. CASE InsertOrUpdateDeleted(w)
  BY <1>3, UpsertKeeps DEF InsertOrUpdateDeleted
<1>4. CASE EraseAndUnpin(w)
  BY <1>4, UpsertKeeps DEF EraseAndUnpin
<1>5. CASE InsertOrUpdatePinned(w)
  BY <1>1, <1>5, UpsertKeeps DEF InsertOrUpdatePinned
<1> QED BY <1>2, <1>3, <1>4, <1>5

LEMMA RevokeRowKeeps ==
  ASSUME MessagesInv, NEW w \in Requests, RevokeRow(w)
  PROVE  MessagesInv'
<1> USE DEF MessagesInv
<1>1. /\ Due(w, "revoke") /\ Planned(request[w]) /\ request[w].op # "none"
      /\ Head(request[w].todo) = "revoke"
  BY DEF RevokeRow, Due, Active, MessagesTypes
<1>2. Holds(request[w]) /\ request[w].op = "revoke"
  <2>1. Holds(request[w])
    BY <1>1, CallOf DEF Holds
  <2> QED BY <1>1, <2>1, CallOf
<1>3. CASE Refuse(w)
  BY <1>2, <1>3, DropKeeps DEF Refuse, Active
<1>4. CASE ~Refuse(w)
  <2>1. PICK r : r = request[w]
    OBVIOUS
  <2>2. PICK m \in MessageIds : m = r.msg
    BY <2>1 DEF MessagesTypes, RequestRecord
  <2>3. PICK row : row = [extra[m] EXCEPT !.row = TRUE, !.revoked = TRUE,
                                          !.count = r.row.count, !.version = r.at]
    OBVIOUS
  <2>4. /\ extra' = [extra EXCEPT ![m] = row] /\ Done(w)
        /\ UNCHANGED <<time, countVars, channelVars>>
    BY <1>4, <2>1, <2>2, <2>3 DEF RevokeRow
  <2>5. row \in RowRecord /\ row.version = r.at /\ row.count = r.row.count
    <3>1. r \in RequestRecord /\ extra[m] \in RowRecord
      BY <2>1 DEF MessagesTypes
    <3>2. r.row \in RowRecord /\ r.at \in Nat
      BY <3>1 DEF RequestRecord
    <3>3. r.row.count \in Counts
      BY <3>2 DEF RowRecord
    <3> QED BY <2>3, <3>1, <3>2, <3>3 DEF RowRecord
  <2>6. spent.overlaps = 0 /\ spent.faults = 0 => r.row.count = extra[m].count
    BY <1>2, <2>1, <2>2 DEF CountsRight
  <2>7. PICK W \in SUBSET MessageIds : W = {m}
    OBVIOUS
  <2>8. /\ extra' \in [MessageIds -> RowRecord]
        /\ \A n \in MessageIds \ W : extra'[n] = extra[n]
        /\ \A n \in W : extra'[n].version = request[w].at
        /\ spent.overlaps = 0 /\ spent.faults = 0 =>
             \A n \in W : extra'[n].count = extra[n].count
    <3>1. extra \in [MessageIds -> RowRecord]
      BY DEF MessagesTypes
    <3> QED BY <2>1, <2>4, <2>5, <2>6, <2>7, <3>1
  <2>9. request' = [request EXCEPT ![w] = Idle] /\ UNCHANGED <<phone, spent>>
    BY <1>1, <2>4, DoneEnds
  <2> QED BY <1>2, <2>4, <2>8, <2>9, RowsKeep
<1> QED BY <1>3, <1>4

LEMMA UnpinAllKeeps ==
  ASSUME MessagesInv, NEW w \in Requests, UnpinAll(w)
  PROVE  MessagesInv'
<1> USE DEF MessagesInv
<1>1. /\ Due(w, "unpinAll") /\ Planned(request[w]) /\ request[w].op # "none"
      /\ Head(request[w].todo) = "unpinAll"
  BY DEF UnpinAll, Due, Active, MessagesTypes
<1>2. Holds(request[w])
  BY <1>1, CallOf DEF Holds
<1>3. request' = [request EXCEPT ![w] = Idle] /\ UNCHANGED <<phone, spent>>
  BY <1>1, DoneEnds DEF UnpinAll
<1>4. PICK r : r = request[w]
  OBVIOUS
<1>5. PICK W \in SUBSET MessageIds : W = r.all
  BY <1>4 DEF MessagesTypes, RequestRecord
<1>6. r.at \in Nat
  BY <1>4 DEF MessagesTypes, RequestRecord
<1>7. extra' = [m \in MessageIds |->
        IF m \in W
        THEN [extra[m] EXCEPT !.row = TRUE, !.pinned = FALSE, !.version = r.at]
        ELSE extra[m]]
  BY <1>4, <1>5 DEF UnpinAll
<1>8. ASSUME NEW m \in MessageIds
      PROVE  /\ extra'[m] \in RowRecord
             /\ m \notin W => extra'[m] = extra[m]
             /\ m \in W => extra'[m].version = r.at /\ extra'[m].count = extra[m].count
  <2>1. extra[m] \in RowRecord
    BY DEF MessagesTypes
  <2>2. PICK row : row = [extra[m] EXCEPT !.row = TRUE, !.pinned = FALSE, !.version = r.at]
    OBVIOUS
  <2>3. row \in RowRecord /\ row.version = r.at /\ row.count = extra[m].count
    BY <1>6, <2>1, <2>2 DEF RowRecord
  <2>4. extra'[m] = IF m \in W THEN row ELSE extra[m]
    BY <1>7, <2>2
  <2> QED BY <2>1, <2>3, <2>4
<1>9. extra' \in [MessageIds -> RowRecord]
  <2>1. \A m \in MessageIds : extra'[m] \in RowRecord
    BY <1>8
  <2> QED BY <1>7, <2>1
<1>10. UNCHANGED <<time, countVars, channelVars>>
  BY DEF UnpinAll
<1> QED BY <1>2, <1>3, <1>4, <1>8, <1>9, <1>10, RowsKeep

-----------------------------------------------------------------------------
(***************************************************************************)
(* Messages: the timer and the phone                                       *)
(***************************************************************************)
LEMMA StartJobKeeps ==
  ASSUME MessagesInv, StartJob
  PROVE  MessagesInv'
<1> USE DEF MessagesInv
<1> DEFINE clash == \E w \in Requests : Writing(w)
<1>1. /\ UNCHANGED <<extra, time, reads, keys, offset, phone, request>>
      /\ job.step = "idle"
  BY DEF StartJob, rowVars, channelVars
<1>2. /\ job' \in JobRecord /\ job'.step = "take" /\ job'.batch = {}
      /\ job'.rows = [m \in MessageIds |-> NoRow]
  <2>1. job' = [NoJob EXCEPT !.step = "take", !.listed = keys]
    BY DEF StartJob
  <2>2. keys \in SUBSET MessageIds
    BY DEF MessagesTypes
  <2>3. NoJob.batch = {}
    BY DEF NoJob
  <2> QED BY <2>1, <2>2, <2>3, NoJobTyped DEF JobRecord
<1>3. /\ spent' \in [reads : Nat, requests : Nat, overlaps : Nat, faults : Nat]
      /\ spent'.overlaps = 0 => spent.overlaps = 0 /\ ~clash
      /\ spent'.faults = spent.faults
  <2>1. spent \in [reads : Nat, requests : Nat, overlaps : Nat, faults : Nat]
    BY DEF MessagesTypes
  <2>2. CASE clash
    <3>1. spent' = [spent EXCEPT !.overlaps = @ + 1]
      BY <2>2 DEF StartJob, Overlap
    <3>2. spent.overlaps + 1 # 0 /\ spent.overlaps + 1 \in Nat
      BY <2>1
    <3> HIDE DEF clash
    <3> QED BY <2>1, <3>1, <3>2
  <2>3. CASE ~clash
    <3>1. spent' = spent
      BY <2>3 DEF StartJob, Overlap
    <3> HIDE DEF clash
    <3> QED BY <2>1, <2>3, <3>1
  <2> QED BY <2>2, <2>3
<1>4. MessagesTypes'
  BY <1>1, <1>2, <1>3 DEF MessagesTypes, Planned
<1>5. Alone'
  BY <1>1, <1>3 DEF Alone, Writing
<1>6. Drawn'
  <2>1. \A m \in MessageIds : job'.rows[m].version <= time
    BY <1>2, NoRowTyped DEF MessagesTypes
  <2>2. \A v \in Requests : (Holds(request[v])' <=> Holds(request[v]))
                            /\ (Above(request[v].at)' <=> Above(request[v].at))
    BY <1>1 DEF Holds, Above
  <2> QED BY <1>1, <1>2, <1>3, <2>1, <2>2 DEF Drawn
<1>7. Got'
  BY <1>1, <1>3 DEF Got, NothingMissed
<1>8. CountsRight'
  <2>1. \A m \in MessageIds : /\ Told(m)' <=> Told(m)
                              /\ CountRight(extra[m], m)' <=> CountRight(extra[m], m)
    BY <1>1 DEF CountRight, Told, Readers
  <2>2. \A v \in Requests : Holds(request[v])' <=> Holds(request[v])
    BY <1>1 DEF Holds
  <2> QED BY <1>1, <1>2, <1>3, <2>1, <2>2 DEF CountsRight
<1>9. Joins'
  BY <1>1, <1>3 DEF Joins
<1> QED BY <1>4, <1>5, <1>6, <1>7, <1>8, <1>9

LEMMA TakeKeyKeeps ==
  ASSUME MessagesInv, NEW n \in MessageIds, TakeKey(n)
  PROVE  MessagesInv'
<1> USE DEF MessagesInv
<1>1. /\ UNCHANGED <<extra, time, reads, offset, phone, request, spent>>
      /\ keys' = keys \ {n} /\ job.step = "take"
  BY DEF TakeKey, rowVars, channelVars
<1>2. /\ job' \in JobRecord /\ job'.step = "take" /\ job'.batch = job.batch \cup {n}
      /\ job'.rows = job.rows
  <2>1. job' = [job EXCEPT !.listed = @ \ {n}, !.batch = @ \cup {n}]
    BY DEF TakeKey
  <2>2. job \in JobRecord
    BY DEF MessagesTypes
  <2> QED BY <1>1, <2>1, <2>2 DEF JobRecord
<1>3. MessagesTypes'
  BY <1>1, <1>2 DEF MessagesTypes, Planned
<1>4. Alone'
  BY <1>1 DEF Alone, Writing
<1>5. \A v \in Requests : (Holds(request[v])' <=> Holds(request[v]))
                          /\ (Above(request[v].at)' <=> Above(request[v].at))
  BY <1>1 DEF Holds, Above
<1>6. Drawn'
  BY <1>1, <1>2, <1>5 DEF Drawn
<1>7. Got'
  BY <1>1 DEF Got, NothingMissed
<1>8. CountsRight'
  <2>1. \A m \in MessageIds : /\ m # n => (Told(m)' <=> Told(m))
                              /\ CountRight(extra[m], m)' <=> CountRight(extra[m], m)
    BY <1>1 DEF CountRight, Told, Readers
  <2> QED BY <1>1, <1>2, <1>5, <2>1 DEF CountsRight
<1>9. Joins'
  BY <1>1 DEF Joins
<1> QED BY <1>3, <1>4, <1>6, <1>7, <1>8, <1>9

LEMMA ReadRowsKeeps ==
  ASSUME MessagesInv, ReadRows
  PROVE  MessagesInv'
<1> USE DEF MessagesInv
<1>1. /\ UNCHANGED <<extra, reads, keys, offset, phone, request, spent>>
      /\ time' = time + 1 /\ job.step = "take" /\ time \in Nat
  BY DEF ReadRows, Tick, channelVars, MessagesTypes
<1>2. PICK rows : rows = [m \in MessageIds |->
        IF m \in job.batch
        THEN [extra[m] EXCEPT !.count = Cardinality(Readers(m)), !.version = time + 1]
        ELSE NoRow]
  OBVIOUS
<1>3. ASSUME NEW m \in MessageIds
      PROVE  /\ rows[m] \in RowRecord /\ rows[m].version <= time + 1
             /\ m \in job.batch => /\ rows[m].version = time + 1
                                   /\ rows[m].count = Cardinality(Readers(m))
                                   /\ rows[m].row = extra[m].row
  <2>1. CASE m \in job.batch
    <3>1. PICK c : c = Cardinality(Readers(m))
      OBVIOUS
    <3>2. c \in Counts
      <4>1. Readers(m) \in SUBSET Users
        BY DEF Readers
      <4> QED BY <3>1, <4>1 DEF Counts
    <3>3. rows[m] = [extra[m] EXCEPT !.count = c, !.version = time + 1]
      BY <1>2, <2>1, <3>1
    <3>4. extra[m] \in RowRecord /\ time + 1 \in Nat
      BY <1>1 DEF MessagesTypes
    <3>5. /\ rows[m] \in RowRecord /\ rows[m].version = time + 1
          /\ rows[m].count = c /\ rows[m].row = extra[m].row
      BY <3>2, <3>3, <3>4 DEF RowRecord
    <3> QED BY <1>1, <3>1, <3>5
  <2>2. CASE m \notin job.batch
    <3>1. rows[m] = NoRow
      BY <1>2, <2>2
    <3>2. 0 <= time + 1
      BY <1>1
    <3> QED BY <2>2, <3>1, <3>2, NoRowTyped
  <2> QED BY <2>1, <2>2
<1>4. rows \in [MessageIds -> RowRecord]
  <2>1. \A m \in MessageIds : rows[m] \in RowRecord
    BY <1>3
  <2> QED BY <1>2, <2>1
<1>5. /\ job' \in JobRecord /\ job'.step = "write" /\ job'.batch = job.batch
      /\ job'.rows = rows
  <2>1. job' = [job EXCEPT !.step = "write", !.rows = rows]
    BY <1>2 DEF ReadRows
  <2>2. job \in JobRecord
    BY DEF MessagesTypes
  <2> QED BY <1>4, <2>1, <2>2 DEF JobRecord
<1>6. MessagesTypes'
  BY <1>1, <1>5 DEF MessagesTypes, Planned
<1>7. Alone'
  BY <1>1 DEF Alone, Writing
<1>8. \A v \in Requests : (Holds(request[v])' <=> Holds(request[v]))
                          /\ (Above(request[v].at)' <=> Above(request[v].at))
  BY <1>1 DEF Holds, Above
<1>9. Drawn'
  <2>1. \A v \in Requests : Holds(request[v]) => request[v].at <= time'
    BY <1>1 DEF Drawn, MessagesTypes, RequestRecord
  <2>2. \A m \in MessageIds : job'.rows[m].version <= time'
    BY <1>1, <1>3, <1>5
  <2>3. \A m \in job'.batch : Above(job.rows[m].version)'
    <3>1. Above(time + 1)
      BY <1>1 DEF Above, Got, MessagesTypes, RowRecord
    <3>2. \A m \in job'.batch : job'.rows[m].version = time + 1
      BY <1>3, <1>5 DEF JobRecord
    <3> QED BY <1>1, <3>1, <3>2 DEF Above
  <2> QED BY <1>1, <1>8, <2>1, <2>2, <2>3 DEF Drawn
<1>10. Got'
  BY <1>1 DEF Got, NothingMissed, MessagesTypes, RowRecord
<1>11. CountsRight'
  <2>1. \A m \in MessageIds : /\ Told(m)' <=> Told(m)
                              /\ CountRight(extra[m], m)' <=> CountRight(extra[m], m)
    BY <1>1 DEF CountRight, Told, Readers
  <2>2. \A m \in job'.batch : CountRight(job.rows[m], m)' /\ job'.rows[m].row = extra[m].row
    <3>1. job'.batch \subseteq MessageIds
      BY <1>5 DEF JobRecord
    <3> QED BY <1>1, <1>3, <1>5, <3>1 DEF CountRight, Readers
  <2> QED BY <1>1, <1>5, <1>8, <2>1, <2>2 DEF CountsRight
<1>12. Joins'
  BY <1>1 DEF Joins
<1> QED BY <1>6, <1>7, <1>9, <1>10, <1>11, <1>12

LEMMA WriteRowsKeeps ==
  ASSUME MessagesInv, WriteRows
  PROVE  MessagesInv'
<1> USE DEF MessagesInv
<1>1. /\ UNCHANGED <<time, reads, keys, offset, phone, request, spent>>
      /\ job' = NoJob /\ job.step = "write"
  BY DEF WriteRows, channelVars
<1>2. job'.step = "idle" /\ job' \in JobRecord /\ job'.rows = [m \in MessageIds |-> NoRow]
  BY <1>1, NoJobTyped
<1> DEFINE refused == \E m \in job.batch : extra[m].row /\ ~job.rows[m].row
<1>3. PICK W \in SUBSET MessageIds : W = IF refused THEN {} ELSE job.batch
  BY DEF MessagesTypes, JobRecord
<1>4. spent.overlaps = 0 /\ spent.faults = 0 => W = job.batch
  <2>1. job.batch \subseteq MessageIds
    BY DEF MessagesTypes, JobRecord
  <2>2. spent.overlaps = 0 /\ spent.faults = 0 => ~refused
    BY <1>1, <2>1 DEF CountsRight
  <2> QED BY <1>3, <2>2
<1>5. W \subseteq job.batch
  BY <1>3
<1>6. ASSUME NEW m \in MessageIds
      PROVE  /\ extra'[m] \in RowRecord
             /\ m \notin W => extra'[m] = extra[m]
             /\ m \in W => /\ extra'[m].version = job.rows[m].version
                           /\ extra'[m].count = job.rows[m].count
  <2>1. extra[m] \in RowRecord /\ job.rows[m] \in RowRecord
    BY DEF MessagesTypes, JobRecord
  <2>2. PICK row : row = [extra[m] EXCEPT !.row = TRUE, !.revoked = job.rows[m].revoked,
                            !.count = job.rows[m].count, !.version = job.rows[m].version]
    OBVIOUS
  <2>3. row \in RowRecord /\ row.version = job.rows[m].version /\ row.count = job.rows[m].count
    BY <2>1, <2>2 DEF RowRecord
  <2>4. extra'[m] = IF m \in job.batch /\ ~refused THEN row ELSE extra[m]
    BY <2>2 DEF WriteRows
  <2>5. m \in W <=> m \in job.batch /\ ~refused
    BY <1>3
  <2> HIDE DEF refused
  <2> QED BY <2>1, <2>3, <2>4, <2>5
<1> HIDE DEF refused
<1>7. extra' \in [MessageIds -> RowRecord]
  <2>1. \A m \in MessageIds : extra'[m] \in RowRecord
    BY <1>6
  <2>2. \E f : extra' = [m \in MessageIds |-> f[m]]
    <3>1. extra' = [m \in MessageIds |-> extra'[m]]
      BY DEF WriteRows
    <3> QED BY <3>1
  <2> QED BY <2>1, <2>2
<1>8. MessagesTypes'
  BY <1>1, <1>2, <1>7 DEF MessagesTypes, Planned
<1>9. ASSUME spent.overlaps = 0
      PROVE  \A v \in Requests : ~Writing(v) /\ ~Writing(v)' /\ ~Holds(request'[v])
  <2>1. \A v \in Requests : ~Writing(v)
    BY <1>1, <1>9 DEF Alone
  <2>2. \A v \in Requests : Holds(request[v]) => Writing(v)
    BY HoldsWrites
  <2> QED BY <1>1, <2>1, <2>2 DEF Writing
<1>10. Alone'
  BY <1>1, <1>9 DEF Alone
<1>11. Drawn'
  <2>1. \A v \in Requests : Holds(request[v]) => request[v].at <= time
    BY DEF Drawn
  <2>2. \A m \in MessageIds : job'.rows[m].version <= time
    BY <1>2, NoRowTyped DEF MessagesTypes
  <2> QED BY <1>1, <1>2, <1>9, <2>1, <2>2 DEF Drawn, Holds
<1>12. Got'
  <2>1. \A m \in MessageIds : job.rows[m].version <= time
    BY DEF Drawn
  <2>2. \A m \in MessageIds : extra'[m].version <= time
    BY <1>6, <2>1 DEF Got
  <2>3. NothingMissed'
    <3> SUFFICES ASSUME spent.overlaps = 0, NEW m \in MessageIds, extra'[m].row,
                        extra'[m].version <= phone.version
                 PROVE  phone.rows[m] = extra'[m]
      BY <1>1 DEF NothingMissed
    <3>1. m \notin W
      <4>1. m \in job.batch => job.rows[m].version > phone.version
        BY <1>1 DEF Drawn, Above
      <4>2. job.rows[m].version \in Nat /\ phone.version \in Nat
        BY DEF MessagesTypes, JobRecord, RowRecord
      <4> QED BY <1>5, <1>6, <4>1, <4>2
    <3> QED BY <1>6, <3>1 DEF Got, NothingMissed
  <2> QED BY <1>1, <2>2, <2>3 DEF Got
<1>13. CountsRight'
  <2> SUFFICES ASSUME spent.overlaps = 0, spent.faults = 0, NEW m \in MessageIds
               PROVE  CountRight(extra[m], m)' \/ Told(m)'
    BY <1>1, <1>2, <1>9 DEF CountsRight, Holds
  <2>1. IF m \in W
        THEN CountRight(job.rows[m], m) \/ Told(m)
        ELSE CountRight(extra[m], m) \/ Told(m)
    BY <1>1, <1>4 DEF CountsRight
  <2>2. /\ Told(m)' <=> Told(m)
        /\ IF m \in W THEN CountRight(job.rows[m], m) => CountRight(extra[m], m)'
           ELSE CountRight(extra[m], m) => CountRight(extra[m], m)'
    BY <1>1, <1>6 DEF CountRight, Told, Readers
  <2> QED BY <2>1, <2>2
<1>14. Joins'
  BY <1>1 DEF Joins
<1> QED BY <1>8, <1>10, <1>11, <1>12, <1>13, <1>14

LEMMA JobFailsKeeps ==
  ASSUME MessagesInv, JobFails
  PROVE  MessagesInv'
<1> USE DEF MessagesInv
<1>1. /\ UNCHANGED <<extra, time, reads, keys, offset, phone, request>>
      /\ spent' = [spent EXCEPT !.faults = @ + 1] /\ job' = NoJob
  BY DEF JobFails, rowVars, channelVars
<1>2. /\ job'.step = "idle" /\ job' \in JobRecord
      /\ job'.rows = [m \in MessageIds |-> NoRow]
  BY <1>1, NoJobTyped
<1>3. /\ spent' \in [reads : Nat, requests : Nat, overlaps : Nat, faults : Nat]
      /\ spent'.overlaps = spent.overlaps /\ spent'.faults # 0
  BY <1>1 DEF MessagesTypes
<1>4. MessagesTypes'
  BY <1>1, <1>2, <1>3 DEF MessagesTypes, Planned
<1>5. Alone'
  BY <1>1, <1>2, <1>3 DEF Alone, Writing
<1>6. Drawn'
  <2>1. \A m \in MessageIds : job'.rows[m].version <= time
    BY <1>2, NoRowTyped DEF MessagesTypes
  <2>2. \A v \in Requests : (Holds(request[v])' <=> Holds(request[v]))
                            /\ (Above(request[v].at)' <=> Above(request[v].at))
    BY <1>1 DEF Holds, Above
  <2> QED BY <1>1, <1>2, <1>3, <2>1, <2>2 DEF Drawn
<1>7. Got'
  BY <1>1, <1>3 DEF Got, NothingMissed
<1>8. CountsRight'
  BY <1>3 DEF CountsRight
<1>9. Joins'
  BY <1>1, <1>3 DEF Joins
<1> QED BY <1>4, <1>5, <1>6, <1>7, <1>8, <1>9

\* Among versions there is a newest one.
LEMMA NewestExists ==
  ASSUME NEW top \in Nat, NEW V, V \subseteq 0..top, V # {}
  PROVE  \E v \in V : \A x \in V : x <= v
<1>1. PICK D : D = {top - x : x \in V}
  OBVIOUS
<1>2. D \subseteq Nat /\ D # {}
  <2>1. \A x \in V : top - x \in Nat
    <3> SUFFICES ASSUME NEW x \in V PROVE top - x \in Nat
      OBVIOUS
    <3>1. x \in 0..top
      OBVIOUS
    <3> QED BY <3>1
  <2> QED BY <1>1, <2>1
<1>3. PICK d \in D : \A e \in D : ~(<<e, d>> \in OpToRel(<, Nat))
  BY <1>2, NatLessThanWellFounded, WFMin
<1>4. \A e \in D : d <= e
  <2> SUFFICES ASSUME NEW e \in D PROVE d <= e
    OBVIOUS
  <2>1. ~(e < d)
    BY <1>2, <1>3 DEF OpToRel
  <2> QED BY <1>2, <2>1
<1>5. PICK v \in V : d = top - v
  BY <1>1
<1>6. \A x \in V : x <= v
  <2> SUFFICES ASSUME NEW x \in V PROVE x <= v
    OBVIOUS
  <2>1. d <= top - x
    BY <1>1, <1>4
  <2>2. x \in Int /\ v \in Int
    OBVIOUS
  <2> QED BY <1>5, <2>1, <2>2
<1> QED BY <1>6

\* Only the phone changes.
LEMMA PhoneAside ==
  ASSUME MessagesInv,
         UNCHANGED <<extra, time, reads, keys, job, offset, request, spent>>,
         phone' \in [version : Nat, cached : Nat, rows : [MessageIds -> RowRecord]],
         Got', Drawn'
  PROVE  MessagesInv'
<1> USE DEF MessagesInv
<1>1. MessagesTypes'
  BY DEF MessagesTypes, Planned
<1>2. Alone'
  BY DEF Alone, Writing
<1>3. CountsRight'
  <2>1. \A m \in MessageIds :
          /\ Told(m)' <=> Told(m)
          /\ CountRight(extra[m], m)' <=> CountRight(extra[m], m)
          /\ CountRight(job.rows[m], m)' <=> CountRight(job.rows[m], m)
    BY DEF CountRight, Told, Readers
  <2>2. \A v \in Requests : Holds(request[v])' <=> Holds(request[v])
    BY DEF Holds
  <2> QED BY <2>1, <2>2 DEF CountsRight
<1>4. Joins'
  BY DEF Joins
<1> QED BY <1>1, <1>2, <1>3, <1>4

LEMMA SyncKeeps ==
  ASSUME MessagesInv, NEW arrives \in BOOLEAN, SyncMessageExtra(arrives)
  PROVE  MessagesInv'
<1> USE DEF MessagesInv
<1>1. UNCHANGED <<extra, time, reads, keys, job, offset, request, spent>>
  BY DEF SyncMessageExtra, rowVars, countVars, channelVars
<1>2. PICK known : known = Newer(phone.cached, phone.version)
  OBVIOUS
<1>3. /\ time \in Nat /\ phone.version \in Nat /\ phone.version <= time
      /\ phone \in [version : Nat, cached : Nat, rows : [MessageIds -> RowRecord]]
      /\ \A m \in MessageIds : extra[m].version \in Nat /\ extra[m].version <= time
  BY DEF MessagesTypes, Got, RowRecord
<1>4. known = phone.version
  BY <1>2, <1>3 DEF Newer, Got
<1>5. CASE ~arrives
  <2>1. phone' = [phone EXCEPT !.cached = known]
    BY <1>2, <1>5 DEF SyncMessageExtra
  <2>2. /\ phone' \in [version : Nat, cached : Nat, rows : [MessageIds -> RowRecord]]
        /\ phone'.version = phone.version /\ phone'.cached = phone.version
        /\ phone'.rows = phone.rows
    BY <1>3, <1>4, <2>1
  <2>3. Got'
    BY <1>1, <1>3, <2>2 DEF Got, NothingMissed
  <2>4. Drawn'
    BY <1>1, <2>2 DEF Drawn, Above, Holds
  <2> QED BY <1>1, <2>2, <2>3, <2>4, PhoneAside
<1>6. CASE arrives
  <2>1. PICK V : V = {known} \cup {extra[m].version : m \in Answer(known)}
    OBVIOUS
  <2>2. V \subseteq 0..time /\ V # {} /\ Answer(known) \subseteq MessageIds
    BY <1>3, <1>4, <2>1 DEF Answer
  <2>3. PICK v : v = CHOOSE x \in V : \A m \in Answer(known) : extra[m].version <= x
    OBVIOUS
  <2>4. v \in V
    <3>1. PICK x \in V : \A y \in V : y <= x
      BY <1>3, <2>2, NewestExists
    <3>2. \A m \in Answer(known) : extra[m].version <= x
      BY <2>1, <3>1
    <3> QED BY <2>3, <3>2
  <2>5. /\ v >= known /\ v \in Nat /\ v <= time
        /\ v = known \/ \E m \in MessageIds : v = extra[m].version
    BY <1>3, <1>4, <2>1, <2>2, <2>4 DEF Answer
  <2>6. PICK rows : rows = [m \in MessageIds |->
                              IF m \in Answer(known) THEN extra[m] ELSE phone.rows[m]]
    OBVIOUS
  <2>7. rows \in [MessageIds -> RowRecord]
    BY <1>3, <2>6 DEF MessagesTypes
  <2>8. phone' = [phone EXCEPT !.cached = known, !.version = v, !.rows = rows]
    BY <1>2, <1>6, <2>1, <2>3, <2>6 DEF SyncMessageExtra, Synced
  <2>9. /\ phone' \in [version : Nat, cached : Nat, rows : [MessageIds -> RowRecord]]
        /\ phone'.version = v /\ phone'.cached = known /\ phone'.rows = rows
    BY <1>3, <1>4, <2>5, <2>7, <2>8
  <2>10. Got'
    <3>1. NothingMissed'
      <4> SUFFICES ASSUME spent.overlaps = 0, NEW m \in MessageIds, extra[m].row,
                          extra[m].version <= v
                   PROVE  rows[m] = extra[m]
        BY <1>1, <2>9 DEF NothingMissed
      <4>1. CASE m \in Answer(known)
        BY <2>6, <4>1
      <4>2. CASE m \notin Answer(known)
        <5>1. extra[m].version <= phone.version
          BY <1>3, <1>4, <4>2 DEF Answer
        <5> QED BY <2>6, <4>2, <5>1 DEF Got, NothingMissed
      <4> QED BY <4>1, <4>2
    <3> QED BY <1>1, <1>3, <2>5, <2>9, <3>1 DEF Got
  <2>11. Drawn'
    <3>1. ASSUME NEW x \in Nat, Above(x)
          PROVE  Above(x)'
      BY <1>1, <1>3, <1>4, <2>5, <2>9, <3>1 DEF Above
    <3>2. /\ \A w \in Requests : request[w].at \in Nat
          /\ \A m \in MessageIds : job.rows[m].version \in Nat
          /\ job.batch \subseteq MessageIds
      BY DEF MessagesTypes, RequestRecord, JobRecord, RowRecord
    <3>3. spent.overlaps = 0 =>
            /\ \A w \in Requests : Holds(request[w]) => Above(request[w].at)'
            /\ job.step = "write" => \A m \in job.batch : Above(job.rows[m].version)'
      <4> SUFFICES ASSUME spent.overlaps = 0
                   PROVE  /\ \A w \in Requests : Holds(request[w]) => Above(request[w].at)'
                          /\ job.step = "write" =>
                               \A m \in job.batch : Above(job.rows[m].version)'
        OBVIOUS
      <4>1. ASSUME NEW w \in Requests, Holds(request[w]) PROVE Above(request[w].at)'
        <5>1. Above(request[w].at)
          BY <4>1 DEF Drawn
        <5>2. PICK x \in Nat : x = request[w].at
          BY <3>2
        <5>3. Above(x)'
          BY <3>1, <5>1, <5>2
        <5> QED BY <1>1, <5>2, <5>3 DEF Above
      <4>2. ASSUME job.step = "write", NEW m \in job.batch
            PROVE  Above(job.rows[m].version)'
        <5>1. Above(job.rows[m].version)
          BY <4>2 DEF Drawn
        <5>2. PICK x \in Nat : x = job.rows[m].version
          BY <3>2
        <5>3. Above(x)'
          BY <3>1, <5>1, <5>2
        <5> QED BY <1>1, <5>2, <5>3 DEF Above
      <4> QED BY <4>1, <4>2
    <3> QED BY <1>1, <3>3 DEF Drawn, Holds
  <2> QED BY <1>1, <2>9, <2>10, <2>11, PhoneAside
<1> QED BY <1>5, <1>6

LEMMA CallKeeps ==
  ASSUME MessagesInv, NEW w \in Requests, Call(w)
  PROVE  MessagesInv'
BY AddReaderKeeps, SetKeyKeeps, RowWritesKeep, ReadRowKeeps, RevokeRowKeeps,
   WritePinKeeps, UnpinAllKeeps, WriteOffsetKeeps, JoinKeeps DEF Call

LEMMA FailKeeps ==
  ASSUME MessagesInv, NEW w \in Requests, Fail(w)
  PROVE  MessagesInv'
BY DropKeeps DEF Fail

LEMMA MessagesInvInit ==
  MessagesInit => MessagesInv
<1> SUFFICES ASSUME MessagesInit PROVE MessagesInv
  OBVIOUS
<1>0. \A m \in MessageIds : extra[m] = NoRow
  BY DEF MessagesInit
<1>1. MessagesTypes
  BY NoRowTyped, NoJobTyped, IdleTyped DEF MessagesInit, MessagesTypes
<1>2. Alone
  BY IdleTyped DEF MessagesInit, Alone, Writing
<1>3. Drawn
  BY NoRowTyped, NoJobTyped, IdleTyped DEF MessagesInit, Drawn
<1>4. Got
  BY NoRowTyped DEF MessagesInit, Got, NothingMissed
<1>5. CountsRight
  <2>1. \A m \in MessageIds : Readers(m) = {}
    BY DEF MessagesInit, Readers
  <2>2. \A m \in MessageIds : CountRight(extra[m], m)
    BY <1>0, <2>1, FS_EmptySet DEF CountRight, NoRow
  <2> QED BY <2>2, NoJobTyped, IdleTyped DEF MessagesInit, CountsRight
<1>6. Joins
  BY IdleTyped DEF MessagesInit, Joins
<1> QED BY <1>1, <1>2, <1>3, <1>4, <1>5, <1>6 DEF MessagesInv

LEMMA MessagesInvStep ==
  MessagesInv /\ [MessagesNext]_messageVars => MessagesInv'
<1> SUFFICES ASSUME MessagesInv, [MessagesNext]_messageVars PROVE MessagesInv'
  OBVIOUS
<1>1. CASE UNCHANGED messageVars
  <2>1. UNCHANGED <<rowVars, countVars, offset, phone, request, spent>>
    BY <1>1 DEF messageVars, channelVars
  <2>2. spent \in [reads : Nat, requests : Nat, overlaps : Nat, faults : Nat]
    BY DEF MessagesInv, MessagesTypes
  <2> QED BY <2>1, <2>2, AsideKeeps
<1>2. CASE MessagesNext
  BY <1>2, HandleKeeps, CallKeeps, FailKeeps, DeleteKeeps, StartJobKeeps, TakeKeyKeeps,
     ReadRowsKeeps, WriteRowsKeeps, JobFailsKeeps, SyncKeeps DEF MessagesNext
<1> QED BY <1>1, <1>2

LEMMA MessagesInvariant == MessagesSpec => []MessagesInv
  BY MessagesInvInit, MessagesInvStep, PTL DEF MessagesSpec

\* ReadsAreCounted (api.go:497-551, event.go:33-185): the count of every message
\* is that of its readers, or somebody has still to tell the timer.
THEOREM ReadersCounted == MessagesSpec => []ReadsAreCounted
<1>1. MessagesInv => ReadsAreCounted
  BY DEF MessagesInv, CountsRight, CountRight, Told, ReadsAreCounted
<1> QED BY <1>1, MessagesInvariant, PTL

\* NothingMissed (api.go:616-694): a version that has been drawn and not yet
\* written is above the one of the phone, so no row comes in below it.
THEOREM NoRowMissed == MessagesSpec => []NothingMissed
<1>1. MessagesInv => NothingMissed
  BY DEF MessagesInv, Got
<1> QED BY <1>1, MessagesInvariant, PTL

\* ClearedStaysCleared (event.go:369-377): the offset of a user falls only when
\* the user joins a group that hides its history.
THEOREM ClearedIsKept == MessagesSpec => ClearedStaysCleared
<1> DEFINE Kept ==
      spent.overlaps = 0 =>
        \A u \in Users :
          \/ offset'[u] >= offset[u]
          \/ \E w \in Requests : Due(w, "join") /\ ~request[w].on
<1>1. MessagesInv /\ [MessagesNext]_messageVars => [Kept]_messageVars
  <2> SUFFICES ASSUME MessagesInv, MessagesNext, spent.overlaps = 0, NEW u \in Users,
                      ~(\E w \in Requests : Due(w, "join") /\ ~request[w].on)
               PROVE  offset'[u] >= offset[u]
    OBVIOUS
  <2>1. offset[u] \in Nat /\ offset \in [Users -> Nat]
    BY DEF MessagesInv, MessagesTypes
  <2>2. CASE offset' = offset
    BY <2>1, <2>2
  <2>3. ASSUME NEW w \in Requests, WriteOffset(w)
        PROVE  offset'[u] >= offset[u]
    <3>1. request[w].msg \in Nat /\ request[w].uid \in Users
      BY MessagesAssumption DEF MessagesInv, MessagesTypes, RequestRecord, MessageIds
    <3>2. offset' = [offset EXCEPT ![request[w].uid] =
                       IF offset[request[w].uid] < request[w].msg
                       THEN request[w].msg ELSE offset[request[w].uid]]
      BY <2>3 DEF WriteOffset
    <3> QED BY <2>1, <3>1, <3>2
  <2>4. ASSUME NEW w \in Requests, Join(w)
        PROVE  offset'[u] >= offset[u]
    <3>1. Due(w, "join") /\ request[w].on
      BY <2>4 DEF Join
    <3>2. request[w].op = "join"
      <4>1. Planned(request[w]) /\ request[w].op # "none" /\ Head(request[w].todo) = "join"
        BY <3>1 DEF Due, Active, MessagesInv, MessagesTypes
      <4> QED BY <4>1, CallOf
    <3>3. request[w].at = 0 /\ offset[request[w].uid] = 0
      BY <3>1, <3>2 DEF MessagesInv, Joins
    <3>4. offset' = [offset EXCEPT ![request[w].uid] = 0]
      BY <2>4, <3>3 DEF Join
    <3> QED BY <2>1, <3>3, <3>4
  <2>5. CASE \E w \in Requests, x \in Users : Handle(w, x)
    <3>1. PICK w \in Requests, x \in Users : Handle(w, x)
      BY <2>5
    <3>2. \E r : Begins(w, r)
      BY <3>1, HandleBegins DEF MessagesInv
    <3> QED BY <2>2, <3>2 DEF Begins, channelVars
  <2>6. ASSUME NEW w \in Requests, Call(w), ~WriteOffset(w), ~Join(w)
        PROVE  offset' = offset
    BY <2>6 DEF Call, AddReader, SetKey, InsertOrUpdateContentEdit, InsertOrUpdateDeleted,
       EraseAndUnpin, ReadRow, RevokeRow, Refuse, WritePin, InsertOrUpdatePinned, UnpinAll,
       channelVars
  <2>7. CASE \/ \E w \in Requests : Fail(w)
             \/ \E x \in Users, m \in MessageIds : Delete(x, m)
             \/ StartJob \/ (\E m \in MessageIds : TakeKey(m))
             \/ ReadRows \/ WriteRows \/ JobFails
             \/ \E arrives \in BOOLEAN : SyncMessageExtra(arrives)
    BY <2>2, <2>7 DEF Fail, Delete, StartJob, TakeKey, ReadRows, WriteRows, JobFails,
       SyncMessageExtra, channelVars
  <2> QED BY <2>2, <2>3, <2>4, <2>5, <2>6, <2>7 DEF MessagesNext
<1>2. MessagesSpec => [][Kept]_messageVars
  BY <1>1, MessagesInvariant, PTL DEF MessagesSpec
<1> QED BY <1>2 DEF ClearedStaysCleared
=============================================================================
